---------------------------- MODULE FileTransfer ----------------------------
(***************************************************************************)
(* A file on its way to a client, step by step, while others change it.    *)
(* filesystem_rnode::_do_get looks for the file, then asks for the time of *)
(* its last write, then maps it, each by its path; the session sends the   *)
(* mapped memory later, and in parts.  FileNode has the same code as one   *)
(* function, where nothing comes in between.                               *)
(*                                                                         *)
(* A file is a sequence of blocks; a block is the version it was written   *)
(* in.  Requests are for whole files.                                      *)
(***************************************************************************)
EXTENDS Integers, Sequences

CONSTANTS
    PageBlocks,    \* blocks in a page of memory
    MaxBlocks,     \* bound: blocks in a file
    MaxWrites,     \* bound: changes of the file
    MaxTime,       \* bound: seconds
    MaxRequests    \* bound: requests of the client

ASSUME PageAssumption == PageBlocks \in Nat \ {0}
ASSUME TimeAssumption == MaxTime \in Nat

VARIABLES
    inodes,        \* the files that have been at the path
    path,          \* the one that is there now, or None, or Hidden
    writes,        \* how often others changed it
    now,           \* the second
    secure,        \* whether the connection speaks TLS
    step,          \* what the server does next
    since,         \* if-modified-since of the request
    stamp,         \* last-modified of the response
    taken,         \* when the server asked for it
    region,        \* the file that is mapped
    length,        \* content-length of the response
    sent,          \* the blocks sent
    copy,          \* the client's copy of the file
    seen,          \* history: the file when a copy was found unmodified
    image,         \* history: the file when it was mapped
    events,        \* history: what others did since the request came
    requests       \* how many requests have come

disk == <<inodes, path, writes, now>>
server == <<step, since, stamp, taken, region, length, sent>>
vars == <<disk, server, secure, copy, seen, image, events, requests>>

None == 0
Hidden == -1       \* the path cannot be followed: whoever looks is refused
NoStamp == MaxTime + 1
NoFile == [blocks |-> <<>>, time |-> NoStamp, set |-> 0, kind |-> "none"]
NoCopy == [blocks |-> <<>>, length |-> 0, stamp |-> NoStamp, taken |-> 0]

Sizes == 0 .. MaxBlocks
Times == 0 .. MaxTime

(* A file that may be read, one that may not, and what is not a file.      *)
Kinds == {"file", "barred", "directory"}

Init ==
    /\ inodes = <<>> /\ path = None /\ writes = 0 /\ now = 0
    /\ secure \in BOOLEAN
    /\ step = "exists"
    /\ since = NoStamp /\ stamp = NoStamp /\ taken = 0
    /\ region = None /\ length = 0 /\ sent = <<>>
    /\ copy = NoCopy /\ seen = NoFile /\ image = <<>>
    /\ events = {} /\ requests = 0

Present == path \notin {None, Hidden}
Here == inodes[path].blocks

-----------------------------------------------------------------------------
(* Others. *)

Changing(event) ==
    /\ step # "dead" /\ writes < MaxWrites
    /\ writes' = writes + 1
    /\ events' = events \cup {event}
    /\ UNCHANGED <<server, secure, copy, seen, image, now, requests>>

(* Another file is moved to the path, or the first one comes there: it     *)
(* brings the time of its own last write along.                            *)
Replace ==
    /\ Changing("replaced")
    /\ \E n \in Sizes, t \in Times, k \in Kinds :
          /\ k = "directory" => n = 0
          /\ inodes' = Append(inodes, [blocks |-> [i \in 1 .. n |-> writes'],
                                      time |-> t, set |-> now, kind |-> k])
    /\ path' = Len(inodes')

Remove ==
    /\ Changing("removed")
    /\ path # None /\ path' = None
    /\ UNCHANGED inodes

(* A directory on the way to the file is closed to the server.             *)
Hide ==
    /\ Changing("hidden")
    /\ path' = Hidden
    /\ UNCHANGED inodes

(* The time of the file is set, or who may read it.                        *)
SetAttributes ==
    /\ Changing("set")
    /\ Present /\ inodes[path].kind # "directory"
    /\ \E t \in Times, k \in Kinds \ {"directory"} :
          inodes' = [inodes EXCEPT ![path].time = t, ![path].set = now,
                                   ![path].kind = k]
    /\ UNCHANGED path

(* The file is changed where it is: the blocks are new ones. *)
InPlace(blocks) ==
    /\ inodes[path].kind # "directory"
    /\ inodes' = [inodes EXCEPT ![path].blocks = blocks, ![path].time = now]
    /\ UNCHANGED path

Truncate ==
    /\ Changing("truncated")
    /\ Present
    /\ \E n \in Sizes : n < Len(Here) /\ InPlace(SubSeq(Here, 1, n))

Rewrite ==
    /\ Changing("rewritten")
    /\ Present
    /\ \E i \in DOMAIN Here : InPlace([Here EXCEPT ![i] = writes'])

Extend ==
    /\ Changing("rewritten")
    /\ Present /\ Len(Here) < MaxBlocks
    /\ InPlace(Append(Here, writes'))

Second ==
    /\ now < MaxTime
    /\ now' = now + 1
    /\ UNCHANGED <<server, secure, copy, seen, image, events, requests,
                   inodes, path, writes>>

-----------------------------------------------------------------------------
(* The server. *)

(* Fault: the file is mapped before its time is asked for. *)
AfterMapFirst == [exists |-> "map", map |-> "stat", stat |-> "send"]

(* The order of filesystem_rnode::_do_get. *)
After == [exists |-> "stat", stat |-> "map", map |-> "send"]

(* A request comes, perhaps for what changed since the client's copy; one  *)
(* for a file that is not there, or is not a regular one, is answered with *)
(* 404.  exists throws where it is refused, and no one catches that.       *)
Exists ==
    /\ step = "exists" /\ requests < MaxRequests
    /\ requests' = requests + 1
    /\ since' \in {NoStamp, copy.stamp}
    /\ step' = IF path = Hidden
               THEN "dead"
               ELSE IF path = None \/ inodes[path].kind = "directory"
                    THEN "exists" ELSE After["exists"]
    /\ events' = {} /\ seen' = NoFile /\ image' = <<>> /\ sent' = <<>>
    /\ UNCHANGED <<disk, secure, stamp, taken, region, length, copy>>

(* last_write_time throws if the file is gone or hidden.                   *)
Stat ==
    /\ step = "stat"
    /\ IF ~Present
       THEN /\ step' = "dead"
            /\ UNCHANGED <<stamp, taken, seen>>
       ELSE /\ stamp' = inodes[path].time
            /\ taken' = now
            /\ IF stamp' = since
               THEN step' = "exists" /\ seen' = inodes[path]
               ELSE step' = After["stat"] /\ UNCHANGED seen
    /\ UNCHANGED <<disk, secure, since, region, length, sent, copy, image,
                   events, requests>>

(* What can be opened and mapped: not what is gone or hidden, what may not *)
(* be read, a directory or an empty file.                                  *)
Mappable == Present /\ inodes[path].kind = "file" /\ Here # <<>>

(* The exceptions of file_mapping and mapped_region, which no one catches: *)
(* the file is not mappable, or descriptors or memory are used up.         *)
MapThrows ==
    /\ step = "map"
    /\ \/ ~Mappable /\ UNCHANGED events
       \/ events' = events \cup {"exhausted"}
    /\ step' = "dead"
    /\ UNCHANGED <<disk, secure, since, stamp, taken, region, length, sent,
                   copy, seen, image, requests>>

(* Fault: the content is taken to end one past the end of the file. *)
MapPastEnd ==
    /\ step = "map" /\ Mappable
    /\ step' = After["map"]
    /\ region' = path /\ length' = Len(Here) + 1 /\ image' = Here
    /\ events' = events \ {"truncated", "rewritten"}
    /\ UNCHANGED <<disk, secure, since, stamp, taken, sent, copy, seen,
                   requests>>

(* The file is opened and mapped.  The length is fixed here, and the       *)
(* header of the response that says so is sent before anything else.       *)
Map ==
    /\ step = "map" /\ Mappable
    /\ step' = After["map"]
    /\ region' = path /\ length' = Len(Here) /\ image' = Here
    /\ events' = events \ {"truncated", "rewritten"}
    /\ UNCHANGED <<disk, secure, since, stamp, taken, sent, copy, seen,
                   requests>>

(* Memory of a mapped file can be read to the end of the page in which the *)
(* file ends now; behind that end it is zero.                              *)
Mapped(file, i) == i <= PageBlocks * ((Len(file) + PageBlocks - 1) \div PageBlocks)

Memory(file, i) == IF i <= Len(file) THEN file[i] ELSE 0

(* Fault: the file is opened again to be sent. *)
SourceReopened == IF Present THEN inodes[path].blocks ELSE <<>>

Source == inodes[region].blocks

(* The next block is sent.  Reading memory that is no longer mapped fails  *)
(* the write of a plain connection, which ends the session, and kills the  *)
(* process where it is TLS that reads it.                                  *)
Send ==
    /\ step = "send"
    /\ LET i == Len(sent) + 1
       IN IF Mapped(Source, i)
          THEN /\ sent' = Append(sent, Memory(Source, i))
               /\ IF i = length
                  THEN /\ step' = "exists"
                       /\ copy' = [blocks |-> sent', length |-> length,
                                   stamp |-> stamp, taken |-> taken]
                  ELSE UNCHANGED <<step, copy>>
          ELSE /\ step' = IF secure THEN "dead" ELSE "exists"
               /\ UNCHANGED <<sent, copy>>
    /\ UNCHANGED <<disk, secure, since, stamp, taken, region, length, seen,
                   image, events, requests>>

Others == \/ Replace \/ Remove \/ Hide \/ SetAttributes
          \/ Truncate \/ Rewrite \/ Extend \/ Second

Next == Others \/ Exists \/ Stat \/ Map \/ MapThrows \/ Send

Spec == Init /\ [][Next]_vars

-----------------------------------------------------------------------------

(* Every variable has its type. *)
TypeOK ==
    /\ inodes \in Seq([blocks : Seq(0 .. MaxWrites), time : Times, set : Times,
                       kind : Kinds])
    /\ path \in Hidden .. Len(inodes) /\ region \in 0 .. Len(inodes)
    /\ writes \in 0 .. MaxWrites /\ now \in Times
    /\ secure \in BOOLEAN
    /\ step \in {"exists", "stat", "map", "send", "dead"}
    /\ since \in 0 .. NoStamp /\ stamp \in 0 .. NoStamp /\ taken \in Times
    /\ length \in Sizes
    /\ \A q \in {sent, image, seen.blocks, copy.blocks} : q \in Seq(0 .. MaxWrites)
    /\ events \subseteq {"replaced", "removed", "hidden", "set", "truncated",
                        "rewritten", "exhausted"}
    /\ requests \in 0 .. MaxRequests

(* A file that others replace, but do not change where it is, is sent as   *)
(* it was when it was mapped, to its last block, even if it is no longer   *)
(* at its path: the mapping (filesystem_content.cpp:36) holds on to it.    *)
SentAsMapped ==
    events \cap {"truncated", "rewritten"} = {}
        => sent = SubSeq(image, 1, Len(sent))

(* A client is told that its copy is good (filesystem_rnode.cpp:113) only  *)
(* if it is the file as it then is, unless the copy was fetched in the     *)
(* second of the write it shows, or a file that brought an older time      *)
(* along, or was given one, came there since.  The time is asked for       *)
(* before the file is read, so that a change in between makes the copy     *)
(* look old.                                                               *)
NeverStale ==
    seen # NoFile /\ copy.taken > copy.stamp
        => copy.blocks = seen.blocks \/ seen.set >= copy.taken

(* The process dies of a file that was removed or hidden while it was      *)
(* served, of one that is hidden from the start, of one that may not be    *)
(* read, is a directory by now or empty, of one truncated while TLS sends  *)
(* it, or of a want of descriptors or memory; it survives if files are     *)
(* replaced by others that can be read and are not empty.                  *)
DiesOfOthers ==
    step = "dead" => \/ "removed" \in events
                     \/ path = Hidden
                     \/ Present /\ (inodes[path].kind # "file" \/ Here = <<>>)
                     \/ secure /\ "truncated" \in events
                     \/ "exhausted" \in events
=============================================================================
