------------------------- MODULE FileTransferProofs -------------------------
(***************************************************************************)
(* Whatever others do to a file between the look at it and its last byte   *)
(* sent: what is sent is what was mapped if the file was only replaced, a  *)
(* copy that is called good is good unless two writes fell into one second *)
(* or a file brought an older time along, and the process dies only in     *)
(* known ways.                                                             *)
(***************************************************************************)
EXTENDS FileTransfer, SequenceTheorems, TLAPS

Blocks == Seq(Nat)
Inode == [blocks : Blocks, time : Times, set : Nat, kind : Kinds]

Typed ==
    /\ inodes \in Seq(Inode)
    /\ path \in Hidden .. Len(inodes) /\ region \in 0 .. Len(inodes)
    /\ writes \in Nat /\ now \in Nat /\ now <= MaxTime
    /\ secure \in BOOLEAN
    /\ step \in {"exists", "stat", "map", "send", "dead"}
    /\ stamp \in Nat /\ taken \in Nat /\ taken <= now
    /\ length \in Nat
    /\ sent \in Blocks /\ image \in Blocks
    /\ copy \in [blocks : Blocks, length : Nat, stamp : Nat, taken : Nat]
    /\ copy.taken <= now

(* A file that was looked for is out of reach only if somebody removed or  *)
(* hid it.                                                                 *)
Gone == step \in {"stat", "map"} /\ path = None => "removed" \in events

(* The response so far is the beginning of the file as it was mapped, as   *)
(* long as that file is not changed where it is; and it does not shrink    *)
(* unless it is truncated.                                                 *)
Sending ==
    /\ step = "send" =>
          /\ region # None /\ seen = NoFile
          /\ length = Len(image) /\ Len(sent) < length
          /\ ("truncated" \notin events => length <= Len(Source))
          /\ (events \cap {"truncated", "rewritten"} = {} => Source = image)
    /\ step \in {"stat", "map"} => seen = NoFile /\ sent = <<>>

(* A file whose time was t when it was asked for, at a later second, and   *)
(* still is: it is the same file, unless its time was set since.           *)
Dated(t, at, blocks) ==
    at > t /\ Present /\ inodes[path].time = t
        => Here = blocks \/ inodes[path].set >= at

(* What is being fetched, and what was, is the file of that date.          *)
Fetched ==
    /\ step = "stat" => since \in {NoStamp, copy.stamp}
    /\ step = "send" /\ taken > stamp /\ Present /\ inodes[path].time = stamp
          => \/ path = region /\ Here = image /\ sent = SubSeq(image, 1, Len(sent))
             \/ inodes[path].set >= taken
    /\ Dated(copy.stamp, copy.taken, copy.blocks)

Inv == Typed /\ Gone /\ Sending /\ Fetched
          /\ SentAsMapped /\ NeverStale /\ DiesOfOthers

(* What the others can do: the file at the path, and at most it, is        *)
(* changed where it is, or the path leads elsewhere; what is new has the   *)
(* time of now, or was given its time now.                                 *)
Changed(event) ==
    /\ step # "dead"
    /\ UNCHANGED <<server, secure, copy, seen, image, now, requests>>
    /\ events' = events \cup {event}
    /\ writes' \in Nat /\ inodes' \in Seq(Inode)
    /\ Len(inodes) <= Len(inodes')
    /\ \A i \in 1 .. Len(inodes) :
          \/ inodes'[i] = inodes[i]
          \/ inodes'[i].set = now /\ inodes'[i].blocks = inodes[i].blocks
          \/ /\ event \in {"truncated", "rewritten"}
             /\ inodes'[i].time = now
             /\ event = "rewritten"
                   => Len(inodes[i].blocks) <= Len(inodes'[i].blocks)
    /\ \/ path' = path
       \/ path' = None /\ event = "removed"
       \/ path' = Hidden
       \/ path' \in 1 .. Len(inodes') /\ inodes'[path'].set = now

(* A file has blocks and a time.                                           *)
LEMMA InodeType ==
  ASSUME Typed, NEW i \in 1 .. Len(inodes)
  PROVE  /\ inodes[i] \in Inode
         /\ inodes[i].blocks \in Blocks
         /\ inodes[i].time \in Nat /\ inodes[i].time <= MaxTime
         /\ inodes[i].set \in Nat /\ inodes[i].kind \in Kinds
<1>1. inodes \in Seq(Inode) BY DEF Typed
<1>2. inodes[i] \in Inode BY <1>1
<1> QED BY <1>2, TimeAssumption DEF Inode, Times

(* What is there is one of the files.                                      *)
LEMMA PresentType ==
  ASSUME Typed
  PROVE  /\ Present <=> path \in 1 .. Len(inodes)
         /\ Len(inodes) \in Nat
BY DEF Typed, Present, None, Hidden

(* A later date than that of a copy shows that something has changed.      *)
LEMMA ChangedInv ==
  ASSUME Inv, NEW event, Changed(event)
  PROVE  Inv'
<1> USE DEF Inv
<1>1. /\ Len(inodes) \in Nat /\ Len(inodes') \in Nat
      /\ DOMAIN inodes = 1 .. Len(inodes) /\ DOMAIN inodes' = 1 .. Len(inodes')
  BY DEF Changed, Typed
<1>2. UNCHANGED <<step, since, stamp, taken, region, length, sent, secure, copy,
                  seen, image, now, requests>>
  BY DEF Changed, server
<1>3. path' \in Hidden .. Len(inodes') /\ region' \in 0 .. Len(inodes')
  BY <1>1, <1>2 DEF Changed, Typed, None, Hidden
<1>4. Typed' BY <1>1, <1>2, <1>3 DEF Changed, Typed
<1>5. Gone' BY <1>2 DEF Changed, Gone, None, Hidden
<1>6. Sending'
  <2>1. CASE step = "send"
    <3>1. region \in 1 .. Len(inodes) BY <1>1, <2>1 DEF Sending, Typed, None
    <3>2. inodes[region] \in Inode /\ inodes'[region] \in Inode
      BY <1>1, <3>1 DEF Changed, Typed
    <3>3. Source' = inodes'[region].blocks /\ Source = inodes[region].blocks
      BY <1>2 DEF Source
    <3>4. Len(Source) \in Nat /\ Len(Source') \in Nat /\ length \in Nat
      <4>1. Source \in Seq(Nat) /\ Source' \in Seq(Nat)
        BY <3>2, <3>3 DEF Inode, Blocks
      <4> QED BY <4>1, LenProperties DEF Typed
    <3>5. "truncated" \notin events' => length' <= Len(Source')
      <4> SUFFICES ASSUME "truncated" \notin events' PROVE length <= Len(Source')
        BY <1>2
      <4>1. event # "truncated" /\ length <= Len(Source)
        BY <2>1 DEF Changed, Sending
      <4>2. Source' = Source \/ Len(Source) <= Len(Source')
        BY <3>1, <3>3, <4>1 DEF Changed
      <4> QED BY <3>4, <4>1, <4>2
    <3>6. events' \cap {"truncated", "rewritten"} = {}
             => /\ Source' = Source
                /\ events \cap {"truncated", "rewritten"} = {}
      BY <3>1, <3>3 DEF Changed
    <3> QED BY <1>2, <2>1, <3>5, <3>6 DEF Sending
  <2>2. CASE step # "send" BY <1>2, <2>2 DEF Sending
  <2> QED BY <2>1, <2>2
<1>7. ASSUME NEW t \in Nat, now > t, Present', inodes'[path'].time = t
      PROVE  \/ path' = path /\ Present /\ inodes'[path] = inodes[path]
             \/ inodes'[path'].set = now
  <2>1. now \in Nat BY DEF Typed
  <2>2. path' \in 1 .. Len(inodes')
    BY <1>1, <1>3, <1>7 DEF Present, None, Hidden
  <2>3. CASE path' = path
    <3>1. Present BY <1>7, <2>3 DEF Present
    <3>2. path \in 1 .. Len(inodes) BY <3>1, PresentType
    <3>3. \/ inodes'[path] = inodes[path]
          \/ inodes'[path].set = now
          \/ inodes'[path].time = now
      BY <3>2 DEF Changed
    <3> QED BY <1>7, <2>1, <2>3, <3>1, <3>3
  <2>4. CASE path' # path
    BY <2>2, <2>4 DEF Changed, None, Hidden
  <2> QED BY <2>3, <2>4
<1>8. Dated(copy.stamp, copy.taken, copy.blocks)'
  <2>1. copy.stamp \in Nat /\ copy.taken \in Nat /\ copy.taken <= now /\ now \in Nat
    BY DEF Typed
  <2>2. copy.taken > copy.stamp => now > copy.stamp BY <2>1
  <2>3. inodes'[path'].set = now => inodes'[path'].set >= copy.taken BY <2>1
  <2> QED BY <1>2, <1>7, <2>1, <2>2, <2>3 DEF Fetched, Dated, Here
<1>9. Fetched'
  <2>1. stamp \in Nat /\ taken \in Nat /\ taken <= now /\ now \in Nat BY DEF Typed
  <2>2. taken > stamp => now > stamp BY <2>1
  <2>3. inodes'[path'].set = now => inodes'[path'].set >= taken BY <2>1
  <2> QED BY <1>2, <1>7, <1>8, <2>1, <2>2, <2>3 DEF Fetched, Here
<1>10. SentAsMapped' /\ NeverStale'
  BY <1>2 DEF SentAsMapped, NeverStale, Changed
<1>11. DiesOfOthers' BY <1>2 DEF DiesOfOthers, Changed
<1> QED BY <1>4, <1>5, <1>6, <1>9, <1>10, <1>11

(* The file at the path is changed where it is.                            *)
LEMMA InPlaceChanges ==
  ASSUME Typed, NEW event \in {"truncated", "rewritten"}, Changing(event),
         Present, NEW blocks \in Blocks, InPlace(blocks),
         event = "rewritten" => Len(Here) <= Len(blocks)
  PROVE  Changed(event)
<1>1. path \in 1 .. Len(inodes) /\ Len(inodes) \in Nat BY PresentType
<1> DEFINE f == [inodes[path] EXCEPT !.blocks = blocks, !.time = now]
<1>2. f \in Inode /\ f.time = now /\ f.blocks = blocks
  <2>1. inodes[path] \in Inode BY <1>1, InodeType
  <2>2. now \in Times BY DEF Typed, Times
  <2> QED BY <2>1, <2>2 DEF Inode
<1>3. inodes' = [inodes EXCEPT ![path] = f] /\ path' = path
  BY DEF InPlace
<1> HIDE DEF f
<1>4. inodes' \in Seq(Inode) /\ Len(inodes') = Len(inodes)
      /\ \A i \in 1 .. Len(inodes) :
            inodes'[i] = IF i = path THEN f ELSE inodes[i]
  BY <1>1, <1>2, <1>3 DEF Typed
<1>5. \A i \in 1 .. Len(inodes) :
         \/ inodes'[i] = inodes[i]
         \/ /\ inodes'[i].time = now
            /\ event = "rewritten"
                  => Len(inodes[i].blocks) <= Len(inodes'[i].blocks)
  BY <1>2, <1>4 DEF Here
<1> QED BY <1>1, <1>3, <1>4, <1>5 DEF Changed, Changing, Typed

(* What the others do, each in its way, changes the file as said.          *)
LEMMA OthersInv ==
  ASSUME Inv, Others
  PROVE  Inv'
<1>1. Typed BY DEF Inv
<1>2. Present => Here \in Blocks BY <1>1, PresentType, InodeType DEF Here
<1>3. CASE Replace
  <2>1. PICK n \in Sizes, t \in Times, k \in Kinds :
           inodes' = Append(inodes, [blocks |-> [i \in 1 .. n |-> writes'],
                                     time |-> t, set |-> now, kind |-> k])
    BY <1>3 DEF Replace
  <2> DEFINE f == [blocks |-> [i \in 1 .. n |-> writes'],
                   time |-> t, set |-> now, kind |-> k]
  <2>2. writes' \in Nat /\ n \in Nat BY <1>1, <1>3 DEF Replace, Changing, Typed, Sizes
  <2>3. [i \in 1 .. n |-> writes'] \in Seq(Nat) BY <2>2
  <2>4. f \in Inode /\ f.set = now
    BY <1>1, <2>1, <2>3 DEF Inode, Blocks, Typed
  <2> HIDE DEF f
  <2>5. inodes' \in Seq(Inode) /\ Len(inodes') = Len(inodes) + 1
        /\ Len(inodes) \in Nat /\ inodes'[Len(inodes) + 1] = f
        /\ \A i \in 1 .. Len(inodes) : inodes'[i] = inodes[i]
    BY <1>1, <2>1, <2>4 DEF Typed, f
  <2>6. path' \in 1 .. Len(inodes') /\ inodes'[path'].set = now
    BY <1>3, <2>4, <2>5 DEF Replace
  <2>7. Len(inodes) <= Len(inodes') BY <2>5
  <2>8. Changed("replaced")
    BY <1>3, <2>2, <2>5, <2>6, <2>7 DEF Changed, Replace, Changing
  <2> QED BY <2>8, ChangedInv
<1>4. CASE Remove \/ Hide
  <2>1. Changed("removed") \/ Changed("hidden")
    BY <1>1, <1>4 DEF Changed, Remove, Hide, Changing, Typed
  <2> QED BY <2>1, ChangedInv
<1>5. CASE SetAttributes
  <2>1. PICK t \in Times, k \in Kinds \ {"directory"} :
           inodes' = [inodes EXCEPT ![path].time = t, ![path].set = now,
                                    ![path].kind = k]
    BY <1>5 DEF SetAttributes
  <2>2. path \in 1 .. Len(inodes) /\ path' = path
    BY <1>1, <1>5, PresentType DEF SetAttributes
  <2> DEFINE f == [inodes[path] EXCEPT !.time = t, !.set = now, !.kind = k]
  <2>3. f \in Inode /\ f.set = now /\ f.blocks = inodes[path].blocks
    <3>1. inodes[path] \in Inode BY <1>1, <2>2, InodeType
    <3>2. now \in Nat BY <1>1 DEF Typed
    <3> QED BY <2>1, <3>1, <3>2 DEF Inode
  <2>4. inodes' = [inodes EXCEPT ![path] = f] BY <2>1
  <2> HIDE DEF f
  <2>5. inodes' \in Seq(Inode) /\ Len(inodes') = Len(inodes)
        /\ \A i \in 1 .. Len(inodes) :
              inodes'[i] = IF i = path THEN f ELSE inodes[i]
    BY <1>1, <2>2, <2>3, <2>4 DEF Typed
  <2>6. writes' \in Nat /\ Len(inodes) \in Nat
    BY <1>1, <1>5 DEF SetAttributes, Changing, Typed
  <2>7. Changed("set")
    BY <1>5, <2>2, <2>3, <2>5, <2>6 DEF Changed, SetAttributes, Changing
  <2> QED BY <2>7, ChangedInv
<1>6. CASE Truncate
  <2>1. PICK n \in Sizes : n < Len(Here) /\ InPlace(SubSeq(Here, 1, n))
    BY <1>6 DEF Truncate
  <2>2. SubSeq(Here, 1, n) \in Blocks
    BY <1>2, <1>6, <2>1 DEF Truncate, Sizes, Blocks
  <2>3. Changed("truncated")
    BY <1>1, <1>6, <2>1, <2>2, InPlaceChanges DEF Truncate
  <2> QED BY <2>3, ChangedInv
<1>7. CASE Rewrite
  <2>1. PICK i \in DOMAIN Here : InPlace([Here EXCEPT ![i] = writes'])
    BY <1>7 DEF Rewrite
  <2>2. Present /\ writes' \in Nat
    BY <1>1, <1>7 DEF Rewrite, Changing, Typed
  <2>3. /\ [Here EXCEPT ![i] = writes'] \in Blocks
        /\ Len([Here EXCEPT ![i] = writes']) = Len(Here) /\ Len(Here) \in Nat
    BY <1>2, <2>1, <2>2 DEF Blocks
  <2>4. Len(Here) <= Len([Here EXCEPT ![i] = writes']) BY <2>3
  <2>5. Changing("rewritten") BY <1>7 DEF Rewrite
  <2> DEFINE b == [Here EXCEPT ![i] = writes']
  <2> HIDE DEF b
  <2>6. Changed("rewritten")
    BY <1>1, <2>1, <2>2, <2>3, <2>4, <2>5, InPlaceChanges DEF b
  <2> QED BY <2>6, ChangedInv
<1>8. CASE Extend
  <2>1. Present /\ writes' \in Nat /\ InPlace(Append(Here, writes'))
    BY <1>1, <1>8 DEF Extend, Changing, Typed
  <2>2. /\ Append(Here, writes') \in Blocks
        /\ Len(Append(Here, writes')) = Len(Here) + 1 /\ Len(Here) \in Nat
    BY <1>2, <2>1 DEF Blocks
  <2>3. Len(Here) <= Len(Append(Here, writes')) BY <2>2
  <2>4. Changing("rewritten") BY <1>8 DEF Extend
  <2> DEFINE b == Append(Here, writes')
  <2> HIDE DEF b
  <2>5. Changed("rewritten")
    BY <1>1, <2>1, <2>2, <2>3, <2>4, InPlaceChanges DEF b
  <2> QED BY <2>5, ChangedInv
<1>9. CASE Second
  <2> USE DEF Inv
  <2>1. /\ now' = now + 1 /\ now \in Nat /\ now' <= MaxTime
        /\ UNCHANGED <<inodes, path, writes, step, since, stamp, taken, region,
                       length, sent, secure, copy, seen, image, events,
                       requests>>
    BY <1>1, <1>9, TimeAssumption DEF Second, server, Typed
  <2>2. Typed'
    <3>1. \A t \in Nat : t <= now => t <= now' BY <2>1
    <3> QED BY <2>1, <3>1 DEF Typed
  <2>3. Gone' /\ Sending' /\ Fetched'
    BY <2>1 DEF Gone, Sending, Fetched, Source, Here, Present, Dated
  <2>4. SentAsMapped' /\ NeverStale' /\ DiesOfOthers'
    BY <2>1 DEF SentAsMapped, NeverStale, DiesOfOthers, Present, Here
  <2> QED BY <2>2, <2>3, <2>4
<1> QED BY <1>3, <1>4, <1>6, <1>7, <1>8, <1>9, <1>5 DEF Others

(* A request comes, for a file that is there now.                          *)
LEMMA ExistsInv ==
  ASSUME Inv, Exists
  PROVE  Inv'
<1> USE DEF Inv
<1>1. /\ step = "exists" /\ requests' = requests + 1
      /\ since' \in {NoStamp, copy.stamp}
      /\ step' = IF path = Hidden
                 THEN "dead"
                 ELSE IF path = None \/ inodes[path].kind = "directory"
                      THEN "exists" ELSE "stat"
      /\ events' = {} /\ seen' = NoFile /\ image' = <<>> /\ sent' = <<>>
      /\ UNCHANGED <<inodes, path, writes, now, secure, stamp, taken, region,
                     length, copy>>
  BY DEF Exists, After, disk
<1>2. <<>> \in Blocks /\ Len(<<>>) = 0 /\ <<>> = SubSeq(<<>>, 1, 0)
  BY EmptySeq DEF Blocks
<1>3. Typed' BY <1>1, <1>2 DEF Typed
<1>4. Gone' /\ Sending' BY <1>1 DEF Gone, Sending
<1>5. Fetched' BY <1>1 DEF Fetched, Dated, Here, Present
<1>6. SentAsMapped' BY <1>1, <1>2 DEF SentAsMapped
<1>7. NeverStale' /\ DiesOfOthers' BY <1>1 DEF NeverStale, DiesOfOthers
<1> QED BY <1>3, <1>4, <1>5, <1>6, <1>7

(* The time is asked for: the client's copy is good, or the file is mapped *)
(* next; or it is gone.                                                    *)
LEMMA StatInv ==
  ASSUME Inv, Stat
  PROVE  Inv'
<1> USE DEF Inv
<1>1. /\ step = "stat"
      /\ UNCHANGED <<inodes, path, writes, now, secure, since, region, length,
                     sent, copy, image, events, requests>>
  BY DEF Stat, disk
<1>2. SentAsMapped' BY <1>1 DEF SentAsMapped
<1>3. CASE ~Present
  <2>1. step' = "dead" /\ UNCHANGED <<stamp, taken, seen>>
    BY <1>3 DEF Stat
  <2>2. "removed" \in events \/ path = Hidden
    BY <1>1, <1>3 DEF Gone, Present
  <2>3. Typed' BY <1>1, <2>1 DEF Typed
  <2>4. Gone' /\ Sending' /\ Fetched'
    BY <1>1, <2>1 DEF Gone, Sending, Fetched, Dated, Here, Present
  <2>5. NeverStale' /\ DiesOfOthers'
    BY <1>1, <2>1, <2>2 DEF NeverStale, DiesOfOthers
  <2> QED BY <1>2, <2>3, <2>4, <2>5
<1>4. CASE Present
  <2>1. path \in 1 .. Len(inodes) BY <1>4, PresentType
  <2>2. /\ inodes[path].time \in Nat /\ inodes[path].time <= MaxTime
        /\ Here \in Blocks
    BY <2>1, InodeType DEF Here
  <2>3. stamp' = inodes[path].time /\ taken' = now BY <1>4 DEF Stat
  <2>4. CASE stamp' = since
    <3>1. step' = "exists" /\ seen' = inodes[path] BY <1>4, <2>4 DEF Stat
    <3>2. Typed' BY <1>1, <2>2, <2>3, <3>1 DEF Typed
    <3>3. Gone' /\ Sending' BY <3>1 DEF Gone, Sending
    <3>4. Fetched' BY <1>1, <3>1 DEF Fetched, Dated, Here, Present
    <3>5. since = copy.stamp
      <4>1. since # NoStamp
        BY <2>2, <2>3, <2>4, TimeAssumption DEF NoStamp, Typed
      <4> QED BY <1>1, <4>1 DEF Fetched
    <3>6. NeverStale'
      BY <1>1, <1>4, <2>3, <2>4, <3>1, <3>5 DEF NeverStale, Fetched, Dated, Here
    <3>7. DiesOfOthers' BY <3>1 DEF DiesOfOthers
    <3> QED BY <1>2, <3>2, <3>3, <3>4, <3>6, <3>7
  <2>5. CASE stamp' # since
    <3>1. step' = "map" /\ UNCHANGED seen BY <1>4, <2>5 DEF Stat, After
    <3>2. Typed' BY <1>1, <2>2, <2>3, <3>1 DEF Typed
    <3>3. Gone' /\ Sending' BY <1>1, <1>4, <3>1 DEF Gone, Sending, Present
    <3>4. Fetched' BY <1>1, <3>1 DEF Fetched, Dated, Here, Present
    <3>5. NeverStale' BY <1>1, <3>1 DEF NeverStale
    <3>6. DiesOfOthers' BY <3>1 DEF DiesOfOthers
    <3> QED BY <1>2, <3>2, <3>3, <3>4, <3>5, <3>6
  <2> QED BY <2>4, <2>5
<1> QED BY <1>3, <1>4

(* The file cannot be mapped, for one of the known reasons.                *)
LEMMA MapThrowsInv ==
  ASSUME Inv, MapThrows
  PROVE  Inv'
<1> USE DEF Inv
<1>1. /\ step = "map" /\ step' = "dead"
      /\ \/ ~Mappable /\ events' = events
         \/ events' = events \cup {"exhausted"}
      /\ UNCHANGED <<inodes, path, writes, now, secure, since, stamp, taken,
                     region, length, sent, copy, seen, image, requests>>
  BY DEF MapThrows, disk
<1>2. Typed' BY <1>1 DEF Typed
<1>3. Gone' /\ Sending' /\ Fetched'
  BY <1>1 DEF Gone, Sending, Fetched, Dated, Here, Present
<1>4. SentAsMapped' /\ NeverStale' BY <1>1 DEF SentAsMapped, NeverStale
<1>5. DiesOfOthers'
  <2>1. CASE ~Mappable /\ events' = events
    BY <1>1, <2>1 DEF Mappable, Gone, DiesOfOthers, Present, Here
  <2>2. CASE events' = events \cup {"exhausted"}
    BY <2>2 DEF DiesOfOthers
  <2> QED BY <1>1, <2>1, <2>2
<1> QED BY <1>2, <1>3, <1>4, <1>5

(* The file is mapped, and what others did to it before counts no more.    *)
LEMMA MapInv ==
  ASSUME Inv, Map
  PROVE  Inv'
<1> USE DEF Inv
<1>1. /\ step = "map" /\ Mappable
      /\ step' = "send" /\ region' = path /\ length' = Len(Here) /\ image' = Here
      /\ events' = events \ {"truncated", "rewritten"}
      /\ UNCHANGED <<inodes, path, writes, now, secure, since, stamp, taken,
                     sent, copy, seen, requests>>
  BY DEF Map, After, disk
<1>2. path \in 1 .. Len(inodes) BY <1>1, PresentType DEF Mappable
<1>3. Here \in Blocks BY <1>2, InodeType DEF Here
<1>4. Len(Here) \in Nat \ {0} BY <1>1, <1>3, EmptySeq DEF Blocks, Mappable
<1>5. Typed' BY <1>1, <1>2, <1>3, <1>4 DEF Typed
<1>6. Gone' BY <1>1 DEF Gone
<1>7. Source' = Here /\ Here' = Here BY <1>1 DEF Source, Here
<1>8. sent' = <<>> /\ Len(sent') = 0 /\ <<>> = SubSeq(Here, 1, 0)
  BY <1>1, <1>3 DEF Sending, Blocks
<1>9. Sending' BY <1>1, <1>2, <1>4, <1>7, <1>8 DEF Sending, None
<1>10. Fetched' BY <1>1, <1>7, <1>8 DEF Fetched, Dated, Present
<1>11. SentAsMapped' BY <1>1, <1>8 DEF SentAsMapped
<1>12. NeverStale' /\ DiesOfOthers' BY <1>1 DEF NeverStale, DiesOfOthers
<1> QED BY <1>5, <1>6, <1>9, <1>10, <1>11, <1>12

(* The end of a file's last page is not before its own end.                *)
LEMMA PagesCover ==
  ASSUME NEW n \in Nat
  PROVE  n <= PageBlocks * ((n + PageBlocks - 1) \div PageBlocks)
BY PageAssumption

(* One more block is sent, or the memory is gone.                          *)
LEMMA SendInv ==
  ASSUME Inv, Send
  PROVE  Inv'
<1> USE DEF Inv
<1> DEFINE i == Len(sent) + 1
           b == Memory(Source, i)
<1>1. /\ step = "send"
      /\ UNCHANGED <<inodes, path, writes, now, secure, since, stamp, taken,
                     region, length, seen, image, events, requests>>
  BY DEF Send, disk
<1>2. region \in 1 .. Len(inodes) BY <1>1 DEF Sending, Typed, None
<1>3. Source \in Seq(Nat) /\ image \in Seq(Nat) /\ sent \in Seq(Nat)
  BY <1>2, InodeType DEF Source, Blocks, Typed
<1>4. /\ Len(Source) \in Nat /\ Len(image) \in Nat /\ Len(sent) \in Nat
      /\ i \in 1 .. length /\ length = Len(image)
  BY <1>1, <1>3, LenProperties DEF Sending
<1>5. Source' = Source BY <1>1 DEF Source
<1>6. CASE Mapped(Source, i)
  <2>1. /\ sent' = Append(sent, b)
        /\ IF i = length
           THEN /\ step' = "exists"
                /\ copy' = [blocks |-> sent', length |-> length,
                            stamp |-> stamp, taken |-> taken]
           ELSE UNCHANGED <<step, copy>>
    BY <1>6 DEF Send
  <2>2. b \in Nat BY <1>3, <1>4 DEF Memory
  <2>3. /\ sent' \in Seq(Nat) /\ Len(sent') = i
        /\ \A k \in 1 .. Len(sent) : sent'[k] = sent[k]
        /\ sent'[i] = b
    BY <1>3, <2>1, <2>2
  <2>4. ASSUME Source = image, sent = SubSeq(image, 1, Len(sent))
        PROVE  sent' = SubSeq(image, 1, i)
    <3>1. b = image[i] BY <1>4, <2>4 DEF Memory
    <3>2. \A k \in 1 .. Len(sent) : sent[k] = image[k]
      BY <1>3, <1>4, <2>4
    <3>3. \A k \in 1 .. i : sent'[k] = image[k]
      <4>1. \A k \in 1 .. i : k \in 1 .. Len(sent) \/ k = i BY <1>4
      <4> HIDE DEF i, b
      <4> QED BY <2>3, <3>1, <3>2, <4>1
    <3>4. SubSeq(image, 1, i) \in Seq(Nat) /\ Len(SubSeq(image, 1, i)) = i
          /\ \A k \in 1 .. i : SubSeq(image, 1, i)[k] = image[k]
      BY <1>3, <1>4
    <3> DEFINE q == SubSeq(image, 1, i)
    <3> HIDE DEF q, i, b
    <3> QED BY <2>3, <3>3, <3>4, SeqEqual DEF q
  <2> HIDE DEF i, b
  <2>5. Typed'
    <3>1. copy' \in [blocks : Blocks, length : Nat, stamp : Nat, taken : Nat]
          /\ copy'.taken <= now /\ step' \in {"exists", "send"}
      <4>1. CASE i = length
        <5>1. /\ sent' \in Blocks /\ length \in Nat /\ stamp \in Nat
              /\ taken \in Nat /\ taken <= now
          BY <2>3 DEF Typed, Blocks
        <5>2. /\ step' = "exists"
              /\ copy' = [blocks |-> sent', length |-> length,
                          stamp |-> stamp, taken |-> taken]
          BY <2>1, <4>1
        <5> QED BY <5>1, <5>2
      <4>2. CASE i # length BY <1>1, <2>1, <4>2 DEF Typed
      <4> QED BY <4>1, <4>2
    <3>2. sent' \in Blocks BY <2>3 DEF Blocks
    <3> QED BY <1>1, <3>1, <3>2 DEF Typed
  <2>6. Gone' BY <1>1, <2>1 DEF Gone
  <2>7. NeverStale' BY <1>1 DEF NeverStale, Sending
  <2>8. DiesOfOthers' BY <1>1, <2>1 DEF DiesOfOthers
  <2>11. SentAsMapped' BY <1>1, <2>3, <2>4 DEF SentAsMapped, Sending
  <2>9. CASE i = length
    <3>1. Sending' BY <2>1, <2>9 DEF Sending
    <3>2. ASSUME taken > stamp, Present, inodes[path].time = stamp,
                 ~(inodes[path].set >= taken)
          PROVE  Here = sent'
      <4>1. path = region /\ Here = image /\ sent = SubSeq(image, 1, Len(sent))
        BY <1>1, <3>2 DEF Fetched
      <4>2. Source = image BY <4>1 DEF Source, Here
      <4>3. sent' = SubSeq(image, 1, Len(image))
        BY <1>4, <2>4, <2>9, <4>1, <4>2
      <4> QED BY <1>3, <4>1, <4>3
    <3>3. /\ copy'.stamp = stamp /\ copy'.taken = taken /\ copy'.blocks = sent'
          /\ step' = "exists"
      BY <2>1, <2>9
    <3>4. Here' = Here /\ Present' = Present BY <1>1 DEF Here, Present
    <3>5. Fetched' BY <1>1, <3>2, <3>3, <3>4 DEF Fetched, Dated
    <3> QED BY <2>5, <2>6, <2>7, <2>8, <2>11, <3>1, <3>5
  <2>10. CASE i # length
    <3>1. UNCHANGED <<step, copy>> /\ Len(sent') = i /\ i < length
      BY <1>4, <2>1, <2>3, <2>10 DEF i
    <3>2. Sending' BY <1>1, <1>5, <2>4, <3>1 DEF Sending
    <3>3. Fetched'
      <4>1. Here' = Here /\ Present' = Present BY <1>1 DEF Here, Present
      <4>2. path = region /\ Here = image => Source = image
        BY DEF Source, Here
      <4> QED BY <1>1, <2>4, <3>1, <4>1, <4>2 DEF Fetched, Dated
    <3> QED BY <2>5, <2>6, <2>7, <2>8, <2>11, <3>2, <3>3
  <2> QED BY <2>9, <2>10
<1>7. CASE ~Mapped(Source, i)
  <2>1. /\ step' = IF secure THEN "dead" ELSE "exists"
        /\ UNCHANGED <<sent, copy>>
    BY <1>7 DEF Send
  <2>2. "truncated" \in events
    <3> SUFFICES ASSUME "truncated" \notin events PROVE FALSE OBVIOUS
    <3>1. length <= Len(Source) BY <1>1 DEF Sending
    <3>2. i <= Len(Source) /\ i \in Nat BY <1>4, <3>1
    <3> DEFINE n == Len(Source)
               m == PageBlocks * ((n + PageBlocks - 1) \div PageBlocks)
    <3>3. n <= m BY <1>4, PagesCover
    <3>4. m \in Int BY <1>4, PageAssumption
    <3>5. i <= m
      <4> HIDE DEF m, i
      <4> QED BY <1>4, <3>2, <3>3, <3>4
    <3> QED BY <1>7, <3>5 DEF Mapped
  <2>3. Typed' BY <1>1, <2>1 DEF Typed
  <2>4. Gone' /\ Sending' BY <2>1 DEF Gone, Sending
  <2>5. Fetched' BY <1>1, <2>1 DEF Fetched, Dated, Here, Present
  <2>6. SentAsMapped' /\ NeverStale' BY <1>1, <2>1 DEF SentAsMapped, NeverStale
  <2>7. DiesOfOthers' BY <1>1, <2>1, <2>2 DEF DiesOfOthers
  <2> QED BY <2>3, <2>4, <2>5, <2>6, <2>7
<1> QED BY <1>6, <1>7

(* Nothing has been sent or fetched at the start.                          *)
LEMMA InitInv ==
  ASSUME Init
  PROVE  Inv
<1>1. /\ <<>> \in Blocks /\ <<>> \in Seq(Inode) /\ Len(<<>>) = 0
      /\ <<>> = SubSeq(<<>>, 1, 0)
  BY EmptySeq DEF Blocks
<1>2. NoStamp \in Nat BY TimeAssumption DEF NoStamp
<1>3. Typed
  BY <1>1, <1>2, TimeAssumption DEF Init, Typed, None, Hidden, NoCopy
<1>4. Gone /\ Sending /\ Fetched
  BY DEF Init, Gone, Sending, Fetched, Dated, Present, NoCopy
<1>5. SentAsMapped BY <1>1 DEF Init, SentAsMapped
<1>6. NeverStale /\ DiesOfOthers BY DEF Init, NeverStale, DiesOfOthers
<1> QED BY <1>3, <1>4, <1>5, <1>6 DEF Inv

(* The inductive invariant, for files and pages of any size and any number *)
(* of changes and requests.                                                *)
THEOREM TransferInvariance == Spec => []Inv
<1>1. Inv /\ [Next]_vars => Inv'
  <2> SUFFICES ASSUME Inv, [Next]_vars PROVE Inv' OBVIOUS
  <2>1. CASE Others BY <2>1, OthersInv
  <2>2. CASE Exists BY <2>2, ExistsInv
  <2>3. CASE Stat BY <2>3, StatInv
  <2>4. CASE Map BY <2>4, MapInv
  <2>5. CASE MapThrows BY <2>5, MapThrowsInv
  <2>6. CASE Send BY <2>6, SendInv
  <2>7. CASE UNCHANGED vars
    BY <2>7 DEF vars, disk, server, Inv, Typed, Gone, Sending, Fetched, Dated,
       Here, Present, Source, SentAsMapped, NeverStale, DiesOfOthers
  <2> QED BY <2>1, <2>2, <2>3, <2>4, <2>5, <2>6, <2>7 DEF Next
<1> QED BY <1>1, InitInv, PTL DEF Spec

(* A file that is replaced but not changed where it is, is sent as it was  *)
(* mapped, to its last block (filesystem_content.cpp:36).                  *)
THEOREM MappedSafe == Spec => []SentAsMapped
<1>1. Inv => SentAsMapped BY DEF Inv
<1> QED BY <1>1, TransferInvariance, PTL

(* A copy that is called unmodified (filesystem_rnode.cpp:113) is the file *)
(* as it is, unless it was fetched in the second of a write or a file with *)
(* an older time came there since.                                         *)
THEOREM StaleSafe == Spec => []NeverStale
<1>1. Inv => NeverStale BY DEF Inv
<1> QED BY <1>1, TransferInvariance, PTL

(* The ways in which a file, and what others do to it, ends the process    *)
(* (filesystem_rnode.cpp:85-105, filesystem_content.cpp:21-38).            *)
THEOREM DeathsKnown == Spec => []DiesOfOthers
<1>1. Inv => DiesOfOthers BY DEF Inv
<1> QED BY <1>1, TransferInvariance, PTL
=============================================================================
