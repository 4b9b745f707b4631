--------------------------- MODULE ResourceProofs ---------------------------
(***************************************************************************)
(* The answer to a request, from the rnode that makes it to the session    *)
(* that gets it, step by step: what an rnode answers, what its access      *)
(* control, its host, the host's access control and the resource tree make *)
(* of that.  Every property of Resource is one of Serve.                   *)
(***************************************************************************)
EXTENDS Resource, SequenceTheorems, WellFoundedInduction, TLAPS

FileType == [version : Nat, size : Sizes, time : Times, opens : BOOLEAN]

(* What may be at a path.                                                  *)
Place == FileType \cup {Absent, Barred}

(* The words of a list of methods, as the server writes them.              *)
Allowable == Methods \cup {"", "OPTION", "DELELTE"}

ContentType == [kind : {"none", "file", "page", "echo", "app"},
                first : Nat, length : Nat, version : Nat]

ResponseType ==
    [fate    : {"answered", "silent", "throws", "undefined"},
     status  : Nat,
     content : ContentType,
     lengths : Seq(Nat),
     allows  : (SUBSET Allowable) \cup {NoList},
     stamp   : Times \cup {NoStamp},
     node    : Strings \cup {NoNode}]

-----------------------------------------------------------------------------
(* The parts responses are made of. *)

LEMMA ContentTyped ==
    ASSUME NEW kind \in {"none", "file", "page", "echo", "app"},
           NEW first \in Nat, NEW length \in Nat, NEW age \in Nat
    PROVE  /\ Content(kind, first, length, age) \in ContentType
           /\ Content(kind, first, length, age).kind = kind
           /\ Content(kind, first, length, age).first = first
           /\ Content(kind, first, length, age).length = length
           /\ Content(kind, first, length, age).version = age
BY DEF Content, ContentType

LEMMA NoContentTyped == /\ NoContent \in ContentType
                        /\ NoContent.kind = "none" /\ NoContent.length = 0
BY ContentTyped DEF NoContent

LEMMA PageTyped == /\ Page \in ContentType /\ Page.kind = "page"
                   /\ Page.length = PageLength /\ Page # NoContent
BY ContentTyped, NoContentTyped, PageAssumption DEF Page

(* Nothing is said but the status. *)
Blank(rsp) == /\ rsp.content = NoContent /\ rsp.lengths = <<>>
              /\ rsp.allows = NoList /\ rsp.stamp = NoStamp

LEMMA AnswerTyped ==
    ASSUME NEW status \in Nat
    PROVE  /\ Answer(status) \in ResponseType
           /\ Answer(status).fate = "answered"
           /\ Answer(status).status = status
           /\ Answer(status).node = NoNode
           /\ Blank(Answer(status))
BY NoContentTyped DEF Answer, ResponseType, Blank

LEMMA UnansweredTyped ==
    ASSUME NEW fate \in {"silent", "throws", "undefined"}
    PROVE  /\ Unanswered(fate) \in ResponseType
           /\ Unanswered(fate).fate = fate
           /\ Unanswered(fate).status = 500
           /\ Unanswered(fate).node = NoNode
           /\ Blank(Unanswered(fate))
BY AnswerTyped DEF Unanswered, ResponseType, Blank

LEMMA WithContentTyped ==
    ASSUME NEW rsp \in ResponseType, NEW content \in ContentType
    PROVE  LET new == WithContent(rsp, content)
           IN  /\ new \in ResponseType
               /\ new.content = content
               /\ new.lengths = Append(rsp.lengths, content.length)
               /\ new.fate = rsp.fate /\ new.status = rsp.status
               /\ new.allows = rsp.allows /\ new.node = rsp.node
<1>1. Append(rsp.lengths, content.length) \in Seq(Nat)
  BY DEF ResponseType, ContentType
<1> QED BY <1>1 DEF WithContent, ResponseType

-----------------------------------------------------------------------------
(* What an rnode answers. *)

(* What is sent of the file f lies in it and is what the range q says.     *)
InFile(f, q, rsp) ==
    LET c == rsp.content
    IN  /\ c.length > 0 /\ c.first + c.length <= f.size
        /\ c.version = f.version
        /\ rsp.status = 206 =>
              /\ q.range.begin # Open => c.first = q.range.begin
              /\ q.range.end # Open => c.first + c.length = q.range.end + 1

(* What an rnode of the given kind does not answer.                        *)
Excused(kind, f, q, rsp) ==
    /\ rsp.fate = "silent" =>
          \/ kind = "file" /\ q.method \in {"PUT", "DELETE", "CONNECT", "UNKNOWN"}
          \/ kind = "app" /\ q.app.ends = "raises" /\ q.body = 0
    /\ rsp.fate = "throws" =>
          \/ kind = "file" /\ FileThrows(f, q)
          \/ kind = "app" /\ (q.body > 0 \/ q.app.ends = "breaks")

(* A response as it leaves an rnode of the given kind.                     *)
FromNode(kind, f, q, rsp) ==
    /\ rsp \in ResponseType
    /\ rsp.content.kind \in {"none", "file", "echo", "app"}
    /\ rsp.content.kind = "none" <=> rsp.content = NoContent
    /\ rsp.content = NoContent => rsp.lengths = <<>>
    /\ rsp.content # NoContent => rsp.lengths \in {<<>>, <<rsp.content.length>>}
    /\ rsp.fate # "answered" => Blank(rsp)
    /\ rsp.fate \in {"answered", "silent", "throws"}
    /\ Excused(kind, f, q, rsp)
    /\ kind = "file" /\ rsp.fate = "answered"
          => rsp.status \in {200, 206, 304, 404, 416}
    /\ kind = "file" /\ rsp.status >= 400 => rsp.lengths = <<>>
    /\ kind = "app" => rsp.content.kind # "file"
    /\ kind = "app" /\ rsp.fate = "answered"
          => /\ rsp.status = q.app.status
             /\ rsp.lengths \in {<<>>, <<q.app.length>>}
    /\ q.method # "OPTIONS" \/ kind = "app" => rsp.allows = NoList
    /\ rsp.content.kind = "file" => f \notin {Absent, Barred} /\ InFile(f, q, rsp)

LEMMA Sliced ==
    ASSUME NEW f \in FileType, NEW first \in Nat, NEW last \in Int,
           first <= last
    PROVE  LET c == Slice(f, first, last)
           IN  /\ c \in ContentType /\ c.kind = "file" /\ c # NoContent
               /\ c.first = first /\ c.length = last - first + 1
               /\ c.version = f.version
<1>1. last - first + 1 \in Nat OBVIOUS
<1>2. f.version \in Nat BY DEF FileType
<1>3. LET c == Slice(f, first, last)
      IN  /\ c \in ContentType /\ c.kind = "file"
          /\ c.first = first /\ c.length = last - first + 1
          /\ c.version = f.version
  <2> DEFINE n == last - first + 1
  <2>1. n \in Nat BY <1>1
  <2>2. Slice(f, first, last) = Content("file", first, n, f.version)
    BY DEF Slice
  <2> HIDE DEF n
  <2>3. /\ Content("file", first, n, f.version) \in ContentType
        /\ Content("file", first, n, f.version).kind = "file"
        /\ Content("file", first, n, f.version).first = first
        /\ Content("file", first, n, f.version).length = n
        /\ Content("file", first, n, f.version).version = f.version
    BY <2>1, <1>2 DEF Content, ContentType
  <2> QED BY <2>2, <2>3 DEF n
<1> QED BY <1>3, NoContentTyped

(* A GET is answered with a slice of the file, if with a content.          *)
LEMMA GetAnswers ==
    ASSUME NEW f \in Place, NEW q \in InquiryType
    PROVE  FromNode("file", f, q, Get(f, q)) /\ Get(f, q).lengths = <<>>
<1> DEFINE rsp == [Answer(200) EXCEPT !.stamp = f.time]
<1>1. CASE f = Absent
  <2>1. Get(f, q) = Answer(404) BY <1>1, PathAssumption DEF Get
  <2> QED BY <2>1, AnswerTyped, NoContentTyped DEF FromNode, Blank, Excused
<1>3. CASE f = Barred
  <2>1. Get(f, q) = Unanswered("throws") BY <1>3, PathAssumption DEF Get
  <2> QED BY <2>1, <1>3, UnansweredTyped, NoContentTyped
          DEF FromNode, Blank, Excused, FileThrows
<1>2. CASE f # Absent /\ f # Barred
  <2>1. /\ f \in FileType /\ f.size \in Nat /\ f.time \in Times
        /\ f.opens \in BOOLEAN
    BY <1>2, FileAssumption DEF FileType, Place
  <2>2. /\ rsp \in ResponseType /\ rsp.fate = "answered"
        /\ rsp.status = 200 /\ rsp.content = NoContent
        /\ rsp.lengths = <<>> /\ rsp.allows = NoList
    BY <2>1, AnswerTyped DEF ResponseType, Blank
  <2> HIDE DEF rsp
  <2>3. CASE Unmodified(f, q)
    <3>1. Get(f, q) = [rsp EXCEPT !.status = 304]
      BY <1>2, <2>3 DEF Get, rsp
    <3> QED BY <3>1, <2>2, NoContentTyped DEF FromNode, ResponseType, Excused
  <2>4. CASE ~Unmodified(f, q) /\ ~Mappable(f)
    <3>1. Get(f, q) = Unanswered("throws") BY <1>2, <2>4 DEF Get
    <3>2. f.size = 0 \/ ~f.opens BY <2>1, <2>4 DEF Mappable
    <3> QED BY <3>1, <3>2, <1>2, UnansweredTyped, NoContentTyped
            DEF FromNode, Blank, Excused, FileThrows
  <2>5. CASE ~Unmodified(f, q) /\ Mappable(f) /\ q.range = NoRange
    <3>1. Get(f, q) = [rsp EXCEPT !.content = Slice(f, 0, f.size - 1)]
      BY <1>2, <2>5, <2>1 DEF Get, rsp
    <3>2. LET c == Slice(f, 0, f.size - 1)
          IN  /\ c \in ContentType /\ c.kind = "file" /\ c # NoContent
              /\ c.first = 0 /\ c.length = f.size /\ c.version = f.version
      <4>1. PICK z \in Int : z = f.size - 1 BY <2>1
      <4>2. 0 <= z /\ z - 0 + 1 = f.size BY <2>1, <2>5, <4>1 DEF Mappable
      <4>3. 0 \in Nat OBVIOUS
      <4>4. LET c == Slice(f, 0, z)
            IN  /\ c \in ContentType /\ c.kind = "file" /\ c # NoContent
                /\ c.first = 0 /\ c.length = z - 0 + 1
                /\ c.version = f.version
        BY <2>1, <4>2, <4>3, Sliced
      <4> QED BY <4>1, <4>2, <4>4
    <3>3. f.size > 0 BY <2>5 DEF Mappable
    <3> QED BY <3>1, <3>2, <3>3, <1>2, <2>1, <2>2
            DEF FromNode, ResponseType, InFile, Excused
  <2>6. CASE ~Unmodified(f, q) /\ Mappable(f) /\ q.range # NoRange
    <3> DEFINE r == q.range
               first == IF r.begin = Open THEN 0 ELSE r.begin
               last  == IF r.end = Open THEN f.size - 1 ELSE r.end
    <3>1. Get(f, q) = Ranged(rsp, f, r)
      BY <1>2, <2>6, <2>1 DEF Get, rsp
    <3>2. r.begin \in Bound /\ r.end \in Bound
      BY <2>6 DEF InquiryType
    <3>3. CASE Unreadable(f, r)
      <4>1. Get(f, q) = Unanswered("throws") BY <3>1, <3>3 DEF Ranged
      <4> QED BY <4>1, <1>2, <2>6, <3>3, UnansweredTyped, NoContentTyped
              DEF FromNode, Blank, Unreadable, Excused, FileThrows
    <3>4. CASE ~Unreadable(f, r) /\ Refused(f, r)
      <4>1. Get(f, q) = [rsp EXCEPT !.status = 416]
        BY <3>1, <3>4 DEF Ranged
      <4> QED BY <4>1, <2>2, NoContentTyped
              DEF FromNode, ResponseType, Excused
    <3>5. CASE ~Unreadable(f, r) /\ ~Refused(f, r)
      <4>1. Get(f, q) = [rsp EXCEPT !.status = 206,
                                    !.content = Slice(f, first, last)]
        BY <3>1, <3>5 DEF Ranged
      <4>2. /\ first \in Nat /\ last \in Nat
            /\ first <= last /\ last < f.size
            /\ r.begin # Open => first = r.begin
            /\ r.end # Open => last = r.end
        BY <2>1, <2>6, <3>2, <3>5
        DEF Unreadable, Refused, Bound, Open, NotNumber, Mappable
      <4> HIDE DEF first, last
      <4>3. LET c == Slice(f, first, last)
            IN  /\ c \in ContentType /\ c.kind = "file" /\ c # NoContent
                /\ c.first = first /\ c.length = last - first + 1
                /\ c.version = f.version
        <5>1. f \in FileType /\ first \in Nat /\ last \in Int /\ first <= last
          BY <2>1, <4>2
        <5> QED BY <5>1, Sliced
      <4> DEFINE c == Slice(f, first, last)
                 new == [rsp EXCEPT !.status = 206, !.content = c]
      <4> HIDE DEF c
      <4>8. c \in ContentType BY <4>3 DEF c
      <4>4. /\ new \in ResponseType
            /\ new.fate = "answered" /\ new.status = 206
            /\ new.content = c /\ new.lengths = <<>> /\ new.allows = NoList
        <5>1. PICK status \in Nat : status = 206 OBVIOUS
        <5>2. new = [rsp EXCEPT !.status = status, !.content = c] BY <5>1
        <5> HIDE DEF new
        <5>3. [rsp EXCEPT !.status = status, !.content = c] \in ResponseType
          BY <2>2, <4>8 DEF ResponseType
        <5> QED BY <5>1, <5>2, <5>3, <2>2 DEF ResponseType
      <4>5. Get(f, q) = new BY <4>1 DEF c
      <4> HIDE DEF new
      <4>6. InFile(f, q, new)
        BY <4>2, <4>3, <4>4, <2>1 DEF InFile, c
      <4>7. c.kind = "file" /\ c # NoContent BY <4>3 DEF c
      <4> QED BY <4>4, <4>5, <4>6, <4>7, <1>2 DEF FromNode, Excused
    <3> QED BY <3>3, <3>4, <3>5
  <2> QED BY <2>1, <2>3, <2>4, <2>5, <2>6
<1> QED BY <1>1, <1>2, <1>3

(* An rnode for files answers every method in one of these ways.           *)
LEMMA FileAnswers ==
    ASSUME NEW f \in Place, NEW q \in InquiryType
    PROVE  FromNode("file", f, q, ServeFile(f, q))
<1>1. CASE q.method = "OPTIONS"
  <2> DEFINE names == {"OPTION", "GET", "HEAD", "POST", "PUT", "DELELTE", "TRACE"}
  <2>1. names \in SUBSET Allowable BY DEF Allowable, Methods
  <2> HIDE DEF names
  <2>2. Option = [Answer(200) EXCEPT !.allows = names] BY DEF Option, names
  <2>3. ServeFile(f, q) = Option BY <1>1 DEF ServeFile
  <2>4. Option \in ResponseType
    <3>1. PICK rsp \in ResponseType : rsp = Answer(200)
      BY AnswerTyped
    <3>2. [rsp EXCEPT !.allows = names] \in ResponseType
      BY <2>1 DEF ResponseType
    <3> QED BY <2>2, <3>1, <3>2
  <2>5. /\ Option.fate = "answered" /\ Option.status = 200
        /\ Option.content = NoContent /\ Option.lengths = <<>>
    BY <2>2, AnswerTyped DEF ResponseType, Blank
  <2> QED BY <1>1, <2>3, <2>4, <2>5, NoContentTyped DEF FromNode, Excused
<1>2. CASE q.method \in {"GET", "POST"}
  <2>1. ServeFile(f, q) = Get(f, q) BY <1>2 DEF ServeFile
  <2> QED BY <2>1, GetAnswers
<1>3. CASE q.method = "HEAD"
  <2> DEFINE get == Get(f, q)
  <2>1. ServeFile(f, q) = [get EXCEPT !.content = NoContent]
    BY <1>3 DEF ServeFile, GetHead
  <2>2. FromNode("file", f, q, get) BY GetAnswers
  <2> HIDE DEF get
  <2>3. get.lengths = <<>> BY GetAnswers DEF get
  <2>4. [get EXCEPT !.content = NoContent] \in ResponseType
    BY <2>2, NoContentTyped DEF ResponseType, FromNode
  <2> QED BY <2>1, <2>2, <2>3, <2>4, NoContentTyped
          DEF FromNode, Excused, Blank, ResponseType
<1>4. CASE q.method = "TRACE"
  <2>1. ServeFile(f, q) = Trace(q) BY <1>4 DEF ServeFile
  <2>2. CASE q.body = 0
    BY <2>1, <2>2, AnswerTyped, NoContentTyped DEF Trace, FromNode, Excused, Blank
  <2>3. CASE q.body # 0
    <3> DEFINE c == Content("echo", 0, q.body, 0)
               new == WithContent(Answer(200), c)
    <3>1. q.body \in Nat BY DEF InquiryType
    <3>2. c \in ContentType /\ c.kind = "echo" /\ c.length = q.body
      BY <3>1 DEF Content, ContentType
    <3> HIDE DEF c
    <3>3. /\ new \in ResponseType
          /\ new.content = c /\ new.fate = "answered" /\ new.status = 200
          /\ new.allows = NoList
          /\ new.lengths = Append(<<>>, c.length)
      <4>1. PICK rsp \in ResponseType :
               /\ rsp = Answer(200) /\ rsp.fate = "answered"
               /\ rsp.status = 200 /\ Blank(rsp)
        BY AnswerTyped
      <4> QED BY <3>2, <4>1, WithContentTyped DEF Blank
    <3>4. Trace(q) = new BY <2>3 DEF Trace, c
    <3> HIDE DEF new
    <3>5. new.lengths = <<c.length>> BY <3>3
    <3>6. c # NoContent BY <3>2, NoContentTyped
    <3>7. FromNode("file", f, q, new)
      BY <3>2, <3>3, <3>5, <3>6 DEF FromNode, Excused
    <3> QED BY <2>1, <3>4, <3>7
  <2> QED BY <2>2, <2>3
<1>5. CASE q.method \in {"PUT", "DELETE", "CONNECT", "UNKNOWN"}
  <2>1. ServeFile(f, q) = Unanswered("silent") BY <1>5 DEF ServeFile
  <2> QED BY <2>1, <1>5, UnansweredTyped, NoContentTyped DEF FromNode, Excused, Blank
<1>6. q.method \in Methods BY DEF InquiryType
<1> QED BY <1>1, <1>2, <1>3, <1>4, <1>5, <1>6 DEF Methods

(* An application's answer has a content if it states a length. *)
LEMMA ApplicationAnswers ==
    ASSUME NEW f, NEW q \in InquiryType
    PROVE  FromNode("app", f, q, ServeApplication(q))
<1>1. /\ q.app.status \in Nat /\ q.app.length \in Nat
      /\ q.app.states \in BOOLEAN /\ q.app.ends \in Ends
      /\ q.body \in Nat
  BY DEF InquiryType
<1> DEFINE breaks == q.body > 0 \/ q.app.ends = "breaks"
<1>2. CASE breaks
  <2>1. ServeApplication(q) = Unanswered("throws")
    BY <1>2 DEF ServeApplication
  <2> QED BY <2>1, <1>2, UnansweredTyped, NoContentTyped
          DEF FromNode, Blank, Excused
<1>3. CASE ~breaks /\ q.app.ends = "raises"
  <2>1. ServeApplication(q) = Unanswered("silent")
    BY <1>3 DEF ServeApplication
  <2>2. q.body = 0 BY <1>1, <1>3
  <2> QED BY <2>1, <2>2, <1>3, UnansweredTyped, NoContentTyped
          DEF FromNode, Blank, Excused
<1>4. CASE ~breaks /\ q.app.ends = "answers" /\ ~q.app.states
  <2>1. ServeApplication(q) = Answer(q.app.status)
    BY <1>4 DEF ServeApplication
  <2> QED BY <2>1, <1>1, AnswerTyped, NoContentTyped
          DEF FromNode, Blank, Excused
<1>5. CASE ~breaks /\ q.app.ends = "answers" /\ q.app.states
  <2> DEFINE c == Content("app", 0, q.app.length, 0)
             new == WithContent(Answer(q.app.status), c)
  <2>1. ServeApplication(q) = new BY <1>5 DEF ServeApplication
  <2>2. c \in ContentType /\ c.kind = "app" /\ c.length = q.app.length
    BY <1>1 DEF Content, ContentType
  <2> HIDE DEF c
  <2>3. /\ new \in ResponseType
        /\ new.content = c /\ new.fate = "answered"
        /\ new.status = q.app.status
        /\ new.allows = NoList
        /\ new.lengths = Append(<<>>, c.length)
    <3>1. PICK rsp \in ResponseType :
             /\ rsp = Answer(q.app.status) /\ rsp.fate = "answered"
             /\ rsp.status = q.app.status /\ Blank(rsp)
      BY <1>1, AnswerTyped
    <3> QED BY <2>2, <3>1, WithContentTyped DEF Blank
  <2> HIDE DEF new
  <2> QED BY <2>1, <2>2, <2>3, NoContentTyped DEF FromNode, Excused
<1> QED BY <1>1, <1>2, <1>3, <1>4, <1>5 DEF Ends

-----------------------------------------------------------------------------
(* Access control. *)

Entitles(rules, q) == q.method \in Entitled(rules, Authenticate(q))

(* The sets the code builds allow a method exactly if the configuration's  *)
(* own words do.                                                           *)
LEMMA AllowedAsWritten ==
    ASSUME NEW rules, rules # Free, NEW q
    PROVE  Allowed(rules, q) <=> Entitles(rules, q)
BY DEF Allowed, Entitles, Entitled, Words, Anonymous, Group, Owner, Owns, Member

(* What a list of methods says is usable behind the given rules.           *)
Usable(rules, allows) ==
    rules # Free /\ allows # NoList =>
        \A word \in allows : \/ word \in {"", "CONNECT"}
                             \/ Parse(word) \in GroupWords(rules)

LEMMA CutUsable ==
    ASSUME NEW rules, NEW rsp \in ResponseType
    PROVE  LET cut == CutToGroup(rules, rsp)
           IN  /\ cut \in ResponseType
               /\ cut = [rsp EXCEPT !.allows = cut.allows]
               /\ rsp.allows = NoList => cut.allows = NoList
               /\ Usable(rules, cut.allows)
               /\ \A other : Usable(other, rsp.allows)
                                => Usable(other, cut.allows)
<1>1. CASE rsp.allows = NoList
  <2>1. CutToGroup(rules, rsp) = rsp BY <1>1 DEF CutToGroup
  <2>2. rsp = [rsp EXCEPT !.allows = rsp.allows] BY DEF ResponseType
  <2> QED BY <1>1, <2>1, <2>2 DEF Usable
<1>2. CASE rsp.allows # NoList
  <2> DEFINE both == Group(rules) \cap ParseAll(rsp.allows)
             list == {""} \cup {Name(m) : m \in both}
             cut  == CutToGroup(rules, rsp)
  <2>1. cut = [rsp EXCEPT !.allows = list] BY <1>2 DEF CutToGroup
  <2>2. \A m \in both : /\ m \in Methods /\ m \in GroupWords(rules)
                        /\ \E word \in rsp.allows : m = Parse(word)
    BY DEF ParseAll, Group, Anonymous, GroupWords, Words, Parse, Methods
  <2>3. \A word \in list : word = "" \/ \E m \in both : word = Name(m)
    OBVIOUS
  <2> HIDE DEF both, list, cut
  <2>4. \A m \in both : Name(m) \in Methods
    BY <2>2 DEF Name, Methods
  <2>5. list \subseteq Allowable
    BY <2>3, <2>4 DEF Allowable
  <2>6. cut \in ResponseType /\ cut.allows = list
    BY <2>1, <2>5 DEF ResponseType
  <2>7. \A word \in list : \/ word \in {"", "CONNECT"}
                           \/ /\ Parse(word) \in GroupWords(rules)
                              /\ word \in rsp.allows
    <3> SUFFICES ASSUME NEW word \in list, word # "", word # "CONNECT"
                 PROVE  Parse(word) \in GroupWords(rules) /\ word \in rsp.allows
      OBVIOUS
    <3>1. PICK m \in both : word = Name(m) BY <2>3
    <3>2. m # "UNKNOWN" /\ word = m BY <3>1 DEF Name
    <3>3. m \in Methods /\ m \in GroupWords(rules) BY <2>2
    <3>4. PICK from \in rsp.allows : m = Parse(from) BY <2>2
    <3>5. from = m BY <3>2, <3>4 DEF Parse
    <3> QED BY <3>2, <3>3, <3>4, <3>5 DEF Parse
  <2>8. Usable(rules, list) BY <2>7 DEF Usable
  <2>9. ASSUME NEW other, Usable(other, rsp.allows)
        PROVE  Usable(other, list)
    BY <1>2, <2>7, <2>9 DEF Usable
  <2> QED BY <1>2, <2>1, <2>6, <2>8, <2>9 DEF cut
<1> QED BY <1>1, <1>2

(* Behind access control a response is either a refusal, to a sender that  *)
(* is not entitled, or the one of the base with a shorter list of methods. *)
Refusal(rsp) == \E status \in {401, 403} : rsp = Answer(status)

LEMMA Guards ==
    ASSUME NEW rules, NEW q \in InquiryType, NEW base \in ResponseType,
           q.method # "OPTIONS" => base.allows = NoList
    PROVE  LET rsp == Guarded(rules, q, base)
           IN  /\ ~Entitles(rules, q) => Refusal(rsp)
               /\ Entitles(rules, q) =>
                    /\ rsp \in ResponseType
                    /\ rsp = [base EXCEPT !.allows = rsp.allows]
                    /\ base.allows = NoList => rsp.allows = NoList
                    /\ Usable(rules, rsp.allows)
                    /\ \A other : Usable(other, base.allows)
                                     => Usable(other, rsp.allows)
<1>1. q.method \in Methods BY DEF InquiryType
<1>2. base = [base EXCEPT !.allows = base.allows] BY DEF ResponseType
<1>3. CASE rules = Free
  <2>1. Guarded(rules, q, base) = base BY <1>3 DEF Guarded
  <2>2. Entitles(rules, q) BY <1>1, <1>3 DEF Entitles, Entitled
  <2> QED BY <1>2, <1>3, <2>1, <2>2 DEF Usable
<1>4. CASE rules # Free /\ ~Allowed(rules, q)
  <2>1. Refusal(Guarded(rules, q, base)) BY <1>4 DEF Guarded, Refusal
  <2> QED BY <1>4, <2>1, AllowedAsWritten
<1>5. CASE rules # Free /\ Allowed(rules, q) /\ q.method = "OPTIONS"
  <2>1. Guarded(rules, q, base) = CutToGroup(rules, base)
    BY <1>5 DEF Guarded
  <2> QED BY <1>5, <2>1, AllowedAsWritten, CutUsable
<1>6. CASE rules # Free /\ Allowed(rules, q) /\ q.method # "OPTIONS"
  <2>1. Guarded(rules, q, base) = base BY <1>6 DEF Guarded
  <2> QED BY <1>2, <1>6, <2>1, AllowedAsWritten DEF Usable
<1> QED BY <1>3, <1>4, <1>5, <1>6

-----------------------------------------------------------------------------
(* Where a request goes. *)

LEMMA Least ==
    ASSUME NEW S \in SUBSET Nat, S # {}
    PROVE  \E n \in S : \A m \in S : n <= m
<1>1. PICK n \in S : \A m \in S : <<m, n>> \notin OpToRel(<, Nat)
  BY NatLessThanWellFounded, WFMin, Zenon
<1>2. \A m \in S : ~(m < n) BY <1>1 DEF OpToRel
<1> QED BY <1>2

(* Of the mounts that begin a url there is a longest.                      *)
LEMMA LongestMatches ==
    ASSUME NEW st \in Sites, NEW url \in Strings, Matching(st, url) # {}
    PROVE  LET mounts == Matching(st, url)
           IN  /\ Longest(mounts) \in mounts
               /\ \A n \in mounts : Len(n) <= Len(Longest(mounts))
<1> DEFINE mounts == Matching(st, url)
           gaps   == {Len(url) - Len(m) : m \in mounts}
<1>1. \A m \in mounts : m \in Strings /\ Len(m) \in Nat /\ Len(m) <= Len(url)
  BY SiteAssumption DEF Matching, IsPrefix, Strings
<1>2. Len(url) \in Nat BY DEF Strings
<1>3. gaps \in SUBSET Nat /\ gaps # {} BY <1>1, <1>2
<1>4. PICK n \in gaps : \A k \in gaps : n <= k BY <1>3, Least
<1>5. PICK m \in mounts : n = Len(url) - Len(m) BY <1>4
<1>6. \A k \in mounts : Len(k) <= Len(m)
  <2> SUFFICES ASSUME NEW k \in mounts PROVE Len(k) <= Len(m) OBVIOUS
  <2>1. Len(url) - Len(k) \in gaps OBVIOUS
  <2> HIDE DEF gaps, mounts
  <2> QED BY <1>1, <1>2, <1>4, <1>5, <2>1
<1> QED BY <1>6 DEF Longest

PathAt(st, q, mount) == Local(mount, Target(st, q))

(* What the rnode at mount finds there when f is at Doc.                   *)
Here(st, f, q, mount) == At(f, mount, PathAt(st, q, mount))

LEMMA HereInPlace ==
    ASSUME NEW st, NEW f \in Place, NEW q, NEW mount
    PROVE  /\ Here(st, f, q, mount) \in Place
           /\ Here(st, f, q, mount) \notin {Absent, Barred} =>
                 /\ Here(st, f, q, mount) = f
                 /\ Doc = <<mount, PathAt(st, q, mount)>>
BY DEF Here, At, Place

(* What comes from the rnode at mount, behind its access control.          *)
FromMount(st, f, q, mount, rsp) ==
    LET node == st.nodes[mount]
    IN  \/ ~Entitles(node.rules, q) /\ Refusal(rsp)
        \/ /\ Entitles(node.rules, q)
           /\ FromNode(node.kind, Here(st, f, q, mount), q, rsp)
           /\ rsp.node = mount
           /\ Usable(node.rules, rsp.allows)
           /\ rsp.content.kind = "file" => Doc = <<mount, PathAt(st, q, mount)>>

LEMMA NodeAnswers ==
    ASSUME NEW st \in Sites, NEW f \in Place,
           NEW q \in InquiryType, NEW mount \in DOMAIN st.nodes
    PROVE  FromMount(st, f, q, mount, ServeNode(st, f, q, mount))
<1> DEFINE node == st.nodes[mount]
           path == PathAt(st, q, mount)
           here == Here(st, f, q, mount)
           base == IF node.kind = "file" THEN ServeFile(here, q)
                                         ELSE ServeApplication(q)
           put  == [base EXCEPT !.node = mount]
           rsp  == ServeNode(st, f, q, mount)
<1>1. rsp = Guarded(node.rules, q, put) BY DEF ServeNode, PathAt, Here
<1>2. node.kind \in {"file", "app"} /\ mount \in Strings
  BY SiteAssumption
<1>3. /\ FromNode(node.kind, here, q, base)
      /\ base.content.kind = "file" => Doc = <<mount, path>>
  <2>1. CASE node.kind = "app"
    <3>1. base = ServeApplication(q) BY <2>1
    <3> HIDE DEF base, node
    <3>2. FromNode("app", here, q, base) BY <3>1, ApplicationAnswers
    <3>3. base.content.kind # "file" BY <3>2 DEF FromNode
    <3> QED BY <2>1, <3>2, <3>3
  <2>2. CASE node.kind = "file"
    <3>1. base = ServeFile(here, q) BY <2>2
    <3>2. /\ here \in Place
          /\ here \notin {Absent, Barred} => Doc = <<mount, path>>
      BY HereInPlace
    <3> HIDE DEF base, node, here, path
    <3>3. FromNode("file", here, q, base) BY <3>1, <3>2, FileAnswers
    <3> QED BY <2>2, <3>2, <3>3 DEF FromNode
  <2> QED BY <1>2, <2>1, <2>2
<1> HIDE DEF base, node, path, here
<1>4. /\ put \in ResponseType /\ put.node = mount
      /\ FromNode(node.kind, here, q, put)
      /\ put.content = base.content /\ put.allows = base.allows
  <2>1. base \in ResponseType BY <1>3 DEF FromNode
  <2>2. put \in ResponseType BY <1>2, <2>1 DEF ResponseType
  <2>3. /\ put.node = mount /\ put.content = base.content
        /\ put.allows = base.allows /\ put.fate = base.fate
        /\ put.status = base.status /\ put.lengths = base.lengths
        /\ put.stamp = base.stamp
    BY <2>1 DEF ResponseType
  <2> HIDE DEF put
  <2>4. InFile(here, q, base) => InFile(here, q, put) BY <2>3 DEF InFile
  <2> QED BY <1>3, <2>2, <2>3, <2>4 DEF FromNode, Excused, Blank
<1> HIDE DEF put, rsp
<1>5. q.method # "OPTIONS" => put.allows = NoList BY <1>4 DEF FromNode
<1>6. CASE ~Entitles(node.rules, q)
  BY <1>1, <1>4, <1>5, <1>6, Guards DEF FromMount, node, rsp
<1>7. CASE Entitles(node.rules, q)
  <2>1. /\ rsp \in ResponseType
        /\ rsp = [put EXCEPT !.allows = rsp.allows]
        /\ put.allows = NoList => rsp.allows = NoList
        /\ Usable(node.rules, rsp.allows)
    BY <1>1, <1>4, <1>5, <1>7, Guards
  <2>2. /\ rsp.node = mount /\ rsp.content = put.content
        /\ rsp.fate = put.fate /\ rsp.stamp = put.stamp
        /\ rsp.status = put.status /\ rsp.lengths = put.lengths
    BY <1>4, <2>1 DEF ResponseType
  <2>3. InFile(here, q, put) => InFile(here, q, rsp) BY <2>2 DEF InFile
  <2>4. FromNode(node.kind, here, q, rsp)
    BY <1>4, <2>1, <2>2, <2>3 DEF FromNode, Excused, Blank
  <2> QED BY <1>3, <1>4, <1>7, <2>1, <2>2, <2>4
          DEF FromMount, node, rsp, path, here
<1> QED BY <1>6, <1>7

-----------------------------------------------------------------------------
(* What becomes of a response on its way back. *)

(* The lengths stated are the content's, or an application's error keeps   *)
(* the one the application stated for what the page replaced.              *)
Stated(kind, q, rsp) ==
    /\ rsp.content = NoContent =>
          \/ rsp.status < 400 /\ rsp.lengths = <<>>
          \/ kind = "app" /\ rsp.status >= 400 /\ rsp.status \notin Paged
    /\ rsp.content # NoContent =>
          \/ rsp.lengths = <<rsp.content.length>>
          \/ rsp.lengths = <<rsp.content.length, rsp.content.length>>
          \/ /\ kind = "app" /\ rsp.status >= 400
             /\ rsp.lengths = <<q.app.length, rsp.content.length>>

(* A response of an rnode after its host has dealt with it.                *)
Dealt(kind, f, q, rsp) ==
    /\ rsp \in ResponseType
    /\ rsp.fate \in {"answered", "silent", "throws"}
    /\ Excused(kind, f, q, rsp)
    /\ rsp.fate # "answered" => rsp.content = NoContent
    /\ rsp.fate = "answered" => Stated(kind, q, rsp)
    /\ rsp.fate = "answered" /\ kind = "app" => rsp.status = q.app.status
    /\ rsp.content.kind = "file" => f \notin {Absent, Barred} /\ InFile(f, q, rsp)

(* What comes from a host that has something mounted for the url.          *)
Paginated(rsp) == /\ rsp \in ResponseType /\ rsp.fate = "answered"
                  /\ rsp.content = Page /\ rsp.lengths = <<PageLength>>
                  /\ rsp.allows = NoList /\ rsp.node = NoNode

FromHost(st, f, q, mount, rsp) ==
    LET node == st.nodes[mount]
    IN  \/ /\ ~Entitles(node.rules, q)
           /\ Paginated(rsp) /\ rsp.status \in {401, 403}
        \/ rsp = Unanswered("undefined") /\ q.app.status >= Pages
        \/ /\ Entitles(node.rules, q)
           /\ Dealt(node.kind, Here(st, f, q, mount), q, rsp)
           /\ q.method # "OPTIONS" => rsp.allows = NoList
           /\ rsp.node = mount
           /\ Usable(node.rules, rsp.allows)
           /\ rsp.content.kind = "file" => Doc = <<mount, PathAt(st, q, mount)>>

(* An error gets its page in place of what it had. *)
LEMMA PagePut ==
    ASSUME NEW rsp \in ResponseType
    PROVE  LET new == WithContent(rsp, Page)
           IN  /\ new \in ResponseType
               /\ new.content = Page /\ new.content.length = PageLength
               /\ new.lengths = Append(rsp.lengths, PageLength)
               /\ new.fate = rsp.fate /\ new.status = rsp.status
               /\ new.allows = rsp.allows /\ new.node = rsp.node
BY PageTyped, WithContentTyped

LEMMA Paginates ==
    ASSUME NEW status \in Nat
    PROVE  /\ Paginated(WithContent(Answer(status), Page))
           /\ WithContent(Answer(status), Page).status = status
<1>1. PICK rsp \in ResponseType :
         /\ rsp = Answer(status) /\ rsp.fate = "answered"
         /\ rsp.status = status /\ Blank(rsp) /\ rsp.node = NoNode
  BY AnswerTyped
<1>2. Append(<<>>, PageLength) = <<PageLength>> BY PageAssumption
<1> QED BY <1>1, <1>2, PagePut DEF Paginated, Blank

LEMMA AppendTuple ==
    ASSUME NEW m \in Nat, NEW n \in Nat
    PROVE  Append(<<>>, n) = <<n>> /\ Append(<<m>>, n) = <<m, n>>
<1>1. Append(<<>>, n) = <<n>> OBVIOUS
<1>2. <<m>> \in Seq(Nat) /\ Len(<<m>>) = 1 OBVIOUS
<1>3. Append(<<m>>, n) \in Seq(Nat) /\ Len(Append(<<m>>, n)) = 2
      /\ Append(<<m>>, n)[1] = m /\ Append(<<m>>, n)[2] = n
  BY <1>2
<1>4. <<m, n>> \in Seq(Nat) /\ Len(<<m, n>>) = 2
  OBVIOUS
<1>5. Append(<<m>>, n) = <<m, n>>
  <2> DEFINE p == Append(<<m>>, n)
  <2>1. p \in Seq(Nat) /\ Len(p) = 2 /\ p[1] = m /\ p[2] = n BY <1>3
  <2> HIDE DEF p
  <2>2. \A i \in 1 .. 2 : p[i] = <<m, n>>[i] BY <2>1
  <2> QED BY <2>1, <2>2, <1>4, SeqEqual DEF p
<1> QED BY <1>1, <1>5

LEMMA HostDeals ==
    ASSUME NEW kind \in {"file", "app"}, NEW f \in Place,
           NEW q \in InquiryType, NEW rsp, FromNode(kind, f, q, rsp)
    PROVE  LET new == HostReply(rsp)
           IN  \/ new = Unanswered("undefined") /\ q.app.status >= Pages
               \/ /\ Dealt(kind, f, q, new)
                  /\ new.node = rsp.node /\ new.allows = rsp.allows
                  /\ new.content.kind = "file" => rsp.content.kind = "file"
<1> DEFINE new == HostReply(rsp)
<1>1. /\ rsp \in ResponseType /\ rsp.status \in Nat
      /\ rsp.content \in ContentType /\ rsp.content.length \in Nat
  BY DEF FromNode, ResponseType, ContentType
<1>2. CASE rsp.fate # "answered"
  <2>1. new = rsp BY <1>2 DEF HostReply
  <2> QED BY <1>2, <2>1, NoContentTyped DEF FromNode, Dealt, Excused, Blank
<1>3. CASE rsp.fate = "answered" /\ rsp.status >= Pages
  <2>1. new = Unanswered("undefined") BY <1>1, <1>3 DEF HostReply, Pages
  <2>2. kind = "app" BY <1>3 DEF FromNode, Pages
  <2> QED BY <1>3, <2>1, <2>2 DEF FromNode
<1>4. CASE /\ rsp.fate = "answered" /\ rsp.status < Pages
           /\ rsp.status >= 400 /\ rsp.status \in Paged
  <2>1. new = WithContent(rsp, Page)
    BY <1>1, <1>4, PageTyped DEF HostReply
  <2>2. /\ new \in ResponseType
        /\ new.content = Page /\ new.content.length = PageLength
        /\ new.lengths = Append(rsp.lengths, PageLength)
        /\ new.fate = rsp.fate /\ new.status = rsp.status
        /\ new.allows = rsp.allows /\ new.node = rsp.node
    BY <1>1, <2>1, PagePut
  <2> HIDE DEF new
  <2>3. \/ rsp.lengths = <<>>
        \/ kind = "app" /\ rsp.lengths = <<q.app.length>>
    BY <1>4 DEF FromNode
  <2>4. \/ new.lengths = <<PageLength>>
        \/ kind = "app" /\ new.lengths = <<q.app.length, PageLength>>
    <3>1. q.app.length \in Nat /\ PageLength \in Nat
      BY PageAssumption DEF InquiryType
    <3> QED BY <2>2, <2>3, <3>1, AppendTuple
  <2>5. Stated(kind, q, new)
    BY <1>4, <2>2, <2>4, PageTyped DEF Stated
  <2>6. Dealt(kind, f, q, new)
    BY <1>4, <2>2, <2>5, PageTyped DEF Dealt, Excused, FromNode
  <2> QED BY <2>2, <2>6, PageTyped DEF new
<1>5. CASE /\ rsp.fate = "answered" /\ rsp.status < Pages
           /\ rsp.status >= 400 /\ rsp.status \notin Paged
  <2>1. new = [rsp EXCEPT !.content = NoContent]
    BY <1>1, <1>5 DEF HostReply
  <2>2. kind = "app"
    <3>1. 404 \in Paged /\ 416 \in Paged BY DEF Paged
    <3>2. kind = "file" => rsp.status \in {200, 206, 304, 404, 416}
      BY <1>5 DEF FromNode
    <3> QED BY <1>5, <3>1, <3>2
  <2>3. /\ new \in ResponseType
        /\ new.content = NoContent
        /\ new.fate = rsp.fate /\ new.status = rsp.status
        /\ new.allows = rsp.allows /\ new.node = rsp.node
    BY <1>1, <2>1, NoContentTyped DEF ResponseType
  <2> HIDE DEF new
  <2>4. Dealt(kind, f, q, new)
    BY <1>5, <2>2, <2>3, NoContentTyped DEF Dealt, Stated, Excused, FromNode
  <2> QED BY <2>3, <2>4, NoContentTyped DEF new
<1>6. CASE /\ rsp.fate = "answered" /\ rsp.status < 400
           /\ rsp.content = NoContent
  <2>1. new = [rsp EXCEPT !.content = NoContent]
    BY <1>1, <1>6 DEF HostReply, Pages
  <2>2. /\ new \in ResponseType
        /\ new.content = NoContent /\ new.lengths = rsp.lengths
        /\ new.fate = rsp.fate /\ new.status = rsp.status
        /\ new.allows = rsp.allows /\ new.node = rsp.node
    BY <1>1, <2>1, NoContentTyped DEF ResponseType
  <2> HIDE DEF new
  <2>3. Dealt(kind, f, q, new)
    BY <1>6, <2>2, NoContentTyped DEF Dealt, Stated, Excused, FromNode
  <2> QED BY <2>2, <2>3, NoContentTyped DEF new
<1>7. CASE /\ rsp.fate = "answered" /\ rsp.status < 400
           /\ rsp.content # NoContent
  <2>1. new = WithContent(rsp, rsp.content)
    BY <1>1, <1>7 DEF HostReply, Pages
  <2>2. /\ new \in ResponseType
        /\ new.content = rsp.content
        /\ new.lengths = Append(rsp.lengths, rsp.content.length)
        /\ new.fate = rsp.fate /\ new.status = rsp.status
        /\ new.allows = rsp.allows /\ new.node = rsp.node
    BY <1>1, <2>1, WithContentTyped
  <2> HIDE DEF new
  <2>3. \/ new.lengths = <<new.content.length>>
        \/ new.lengths = <<new.content.length, new.content.length>>
    <3>1. rsp.lengths \in {<<>>, <<rsp.content.length>>}
      BY <1>7 DEF FromNode
    <3> QED BY <1>1, <2>2, <3>1, AppendTuple
  <2>4. InFile(f, q, rsp) => InFile(f, q, new) BY <2>2 DEF InFile
  <2>5. Dealt(kind, f, q, new)
    BY <1>7, <2>2, <2>3, <2>4 DEF Dealt, Stated, Excused, FromNode
  <2> QED BY <2>2, <2>5 DEF new
<1> QED BY <1>1, <1>2, <1>3, <1>4, <1>5, <1>6, <1>7 DEF Pages

(* What a host answers: nothing is mounted for the url, or nothing but the *)
(* empty path is, or the rnode at the longest mount serves the request.    *)
LEMMA HostAnswers ==
    ASSUME NEW st \in Sites, NEW f \in Place,
           NEW q \in InquiryType
    PROVE  LET rsp    == ServeHost(st, f, q)
               mounts == Matching(st, Target(st, q))
           IN  \/ mounts = {} /\ Paginated(rsp) /\ rsp.status = 404
               \/ <<>> \in mounts /\ rsp = Unanswered("undefined")
               \/ /\ mounts # {}
                  /\ FromHost(st, f, q, Longest(mounts), rsp)
<1> DEFINE url    == Target(st, q)
           mounts == Matching(st, url)
           mount  == Longest(mounts)
           rsp    == ServeHost(st, f, q)
<1>1. CASE mounts = {}
  <2>1. rsp = WithContent(Answer(404), Page) BY <1>1 DEF ServeHost
  <2>2. PICK status \in Nat : status = 404 OBVIOUS
  <2> QED BY <1>1, <2>1, <2>2, Paginates
<1>2. CASE mounts = {<<>>}
  <2>1. rsp = Unanswered("undefined") BY <1>2 DEF ServeHost
  <2> QED BY <1>2, <2>1
<1>3. CASE mounts \notin {{}, {<<>>}}
  <2> DEFINE from == ServeNode(st, f, q, mount)
             node == st.nodes[mount]
             here == Here(st, f, q, mount)
  <2>1. rsp = HostReply(from) BY <1>3 DEF ServeHost
  <2>2. url \in Strings BY SiteAssumption DEF Target, InquiryType
  <2>3. mount \in DOMAIN st.nodes
    BY <1>3, <2>2, LongestMatches DEF Matching
  <2>4. FromMount(st, f, q, mount, from) BY <2>3, NodeAnswers
  <2>5. node.kind \in {"file", "app"} BY <2>3, SiteAssumption
  <2>8. here \in Place BY HereInPlace
  <2> HIDE DEF from, mount, rsp, here
  <2>6. CASE ~Entitles(node.rules, q) /\ Refusal(from)
    <3>1. PICK status \in {401, 403} : from = Answer(status)
      BY <2>6 DEF Refusal
    <3>2. status \in Nat /\ status \in Paged BY DEF Paged
    <3>3. /\ from.fate = "answered" /\ from.status = status
      BY <3>1, <3>2, AnswerTyped
    <3>4. rsp = WithContent(Answer(status), Page)
      BY <2>1, <3>1, <3>2, <3>3, PageTyped DEF HostReply, Pages
    <3>5. Paginated(rsp) /\ rsp.status \in {401, 403}
      BY <3>2, <3>4, Paginates
    <3> QED BY <1>3, <2>6, <3>5 DEF FromHost, mount, rsp
  <2>7. CASE /\ Entitles(node.rules, q)
             /\ FromNode(node.kind, here, q, from)
             /\ from.node = mount
             /\ Usable(node.rules, from.allows)
             /\ from.content.kind = "file"
                   => Doc = <<mount, PathAt(st, q, mount)>>
    <3>1. \/ rsp = Unanswered("undefined") /\ q.app.status >= Pages
          \/ /\ Dealt(node.kind, here, q, rsp)
             /\ rsp.node = from.node /\ rsp.allows = from.allows
             /\ rsp.content.kind = "file" => from.content.kind = "file"
      BY <2>1, <2>5, <2>7, <2>8, HostDeals
    <3>2. q.method # "OPTIONS" => from.allows = NoList
      BY <2>7 DEF FromNode
    <3>3. FromHost(st, f, q, mount, rsp) BY <2>7, <3>1, <3>2 DEF FromHost, here
    <3> QED BY <1>3, <3>3 DEF mount, rsp
  <2> QED BY <2>4, <2>6, <2>7 DEF FromMount, here
<1> QED BY <1>1, <1>2, <1>3

(* What the session gets for a request to a host the server has.           *)
Delivered(st, f, q, rsp) ==
    LET mounts == Matching(st, Target(st, q))
        mount  == Longest(mounts)
        node   == st.nodes[mount]
    IN  \/ /\ ~Entitles(st.rules, q)
           /\ Paginated(rsp) /\ rsp.status \in {401, 403}
        \/ /\ mounts = {}
           /\ Paginated(rsp) /\ rsp.status = 404
        \/ /\ rsp = Unanswered("undefined")
           /\ \/ <<>> \in mounts
              \/ q.app.status >= 400 /\ q.app.status \notin Paged
        \/ /\ mounts # {}
           /\ ~Entitles(node.rules, q)
           /\ Paginated(rsp) /\ rsp.status \in {401, 403}
        \/ /\ mounts # {}
           /\ Entitles(st.rules, q) /\ Entitles(node.rules, q)
           /\ Dealt(node.kind, Here(st, f, q, mount), q, rsp)
           /\ rsp.fate = "answered" /\ rsp.content = NoContent
                 => rsp.lengths = <<>>
           /\ rsp.node = mount
           /\ Usable(st.rules, rsp.allows) /\ Usable(node.rules, rsp.allows)
           /\ rsp.content.kind = "file" => Doc = <<mount, PathAt(st, q, mount)>>

(* A response with a shorter list of methods is dealt with as it was.      *)
LEMMA DealtCut ==
    ASSUME NEW kind, NEW f, NEW q, NEW rsp, Dealt(kind, f, q, rsp),
           NEW new \in ResponseType, new = [rsp EXCEPT !.allows = new.allows]
    PROVE  /\ Dealt(kind, f, q, new)
           /\ new.node = rsp.node /\ new.content = rsp.content
<1>1. /\ new.node = rsp.node /\ new.content = rsp.content
      /\ new.fate = rsp.fate /\ new.status = rsp.status
      /\ new.lengths = rsp.lengths
  BY DEF Dealt, ResponseType
<1>2. InFile(f, q, rsp) => InFile(f, q, new) BY <1>1 DEF InFile
<1> QED BY <1>1, <1>2 DEF Dealt, Stated, Excused

LEMMA ServeDelivers ==
    ASSUME NEW st \in Sites, NEW f \in Place,
           NEW q \in InquiryType, q.known
    PROVE  Delivered(st, f, q, Serve(st, f, q))
<1> DEFINE mounts == Matching(st, Target(st, q))
           mount  == Longest(mounts)
           node   == st.nodes[mount]
           here   == Here(st, f, q, mount)
           host   == ServeHost(st, f, q)
           behind == Guarded(st.rules, q, host)
           rsp    == Serve(st, f, q)
<1>1. rsp = ResourceReply(behind) BY DEF Serve
<1>3. \/ mounts = {} /\ Paginated(host) /\ host.status = 404
      \/ <<>> \in mounts /\ host = Unanswered("undefined")
      \/ mounts # {} /\ FromHost(st, f, q, mount, host)
  BY HostAnswers
<1> HIDE DEF host, behind, rsp, mount, mounts, here
<1>2. /\ host \in ResponseType
      /\ q.method # "OPTIONS" => host.allows = NoList
  <2>1. CASE Paginated(host) BY <2>1 DEF Paginated
  <2>2. CASE host = Unanswered("undefined")
    BY <2>2, UnansweredTyped DEF Blank
  <2>3. CASE Dealt(node.kind, here, q, host)
             /\ (q.method # "OPTIONS" => host.allows = NoList)
    BY <2>3 DEF Dealt
  <2> QED BY <1>3, <2>1, <2>2, <2>3 DEF FromHost, here
<1>4. ASSUME NEW x \in ResponseType, Paginated(x)
      PROVE  ResourceReply(x) = x
  BY <1>4, PageTyped DEF ResourceReply, Paginated
<1>5. CASE ~Entitles(st.rules, q)
  <2>1. PICK status \in {401, 403} : behind = Answer(status)
    BY <1>2, <1>5, Guards DEF Refusal, behind
  <2>2. status \in Nat /\ status \in Paged BY DEF Paged
  <2>3. rsp = WithContent(Answer(status), Page)
    BY <1>1, <2>1, <2>2, AnswerTyped DEF ResourceReply, Blank
  <2> QED BY <1>5, <2>2, <2>3, Paginates DEF Delivered, rsp
<1>6. CASE Entitles(st.rules, q)
  <2>1. /\ behind \in ResponseType
        /\ behind = [host EXCEPT !.allows = behind.allows]
        /\ host.allows = NoList => behind.allows = NoList
        /\ Usable(st.rules, behind.allows)
        /\ \A other : Usable(other, host.allows)
                         => Usable(other, behind.allows)
    BY <1>2, <1>6, Guards DEF behind
  <2>2. ASSUME host.allows = NoList PROVE behind = host
    BY <1>2, <2>1, <2>2 DEF ResponseType
  <2>3. ASSUME Paginated(host) PROVE rsp = host
    BY <1>1, <1>2, <1>4, <2>2, <2>3 DEF Paginated
  <2>4. ASSUME host = Unanswered("undefined") PROVE rsp = host
    BY <1>1, <2>2, <2>4, UnansweredTyped DEF ResourceReply, Blank
  <2>5. CASE mounts = {} /\ Paginated(host) /\ host.status = 404
    BY <2>3, <2>5 DEF Delivered, mounts, rsp
  <2>6. CASE <<>> \in mounts /\ host = Unanswered("undefined")
    BY <2>4, <2>6 DEF Delivered, mounts, rsp
  <2>7. CASE mounts # {} /\ FromHost(st, f, q, mount, host)
    <3>1. CASE /\ ~Entitles(node.rules, q)
               /\ Paginated(host) /\ host.status \in {401, 403}
      BY <2>3, <2>7, <3>1 DEF Delivered, mounts, mount, rsp, here
    <3>2. CASE host = Unanswered("undefined") /\ q.app.status >= Pages
      <4>1. q.app.status >= 400 /\ q.app.status \notin Paged
        BY <3>2 DEF Pages, Paged, InquiryType
      <4> QED BY <2>4, <3>2, <4>1 DEF Delivered, rsp
    <3>3. CASE /\ Entitles(node.rules, q)
               /\ Dealt(node.kind, here, q, host)
               /\ host.node = mount
               /\ Usable(node.rules, host.allows)
               /\ host.content.kind = "file"
                     => Doc = <<mount, PathAt(st, q, mount)>>
      <4>1. /\ Dealt(node.kind, here, q, behind)
            /\ behind.node = host.node /\ behind.content = host.content
        BY <2>1, <3>3, DealtCut
      <4>2. CASE /\ behind.fate = "answered" /\ behind.status >= 400
                 /\ behind.content = NoContent
        <5>1. /\ node.kind = "app" /\ behind.status \notin Paged
              /\ behind.status = q.app.status
          BY <4>1, <4>2 DEF Dealt, Stated, ResponseType
        <5>2. rsp = Unanswered("undefined")
          BY <1>1, <4>2, <5>1 DEF ResourceReply
        <5> QED BY <4>2, <5>1, <5>2 DEF Delivered, rsp
      <4>3. CASE ~(/\ behind.fate = "answered" /\ behind.status >= 400
                   /\ behind.content = NoContent)
        <5>1. rsp = behind BY <1>1, <4>3 DEF ResourceReply
        <5>2. behind.fate = "answered" /\ behind.content = NoContent
                 => behind.lengths = <<>>
          BY <4>1, <4>3 DEF Dealt, Stated
        <5>3. Usable(node.rules, behind.allows) BY <2>1, <3>3
        <5> QED BY <1>6, <2>1, <2>7, <3>3, <4>1, <5>1, <5>2, <5>3
                DEF Delivered, mounts, mount, rsp, here
      <4> QED BY <4>2, <4>3
    <3> QED BY <2>7, <3>1, <3>2, <3>3 DEF FromHost, here
  <2> QED BY <1>3, <2>5, <2>6, <2>7
<1> QED BY <1>5, <1>6 DEF rsp

-----------------------------------------------------------------------------
(* The invariant: the latest response is what Serve says of the present    *)
(* configuration and file.                                                 *)
Inv == /\ site \in Sites
       /\ version \in Nat
       /\ file \in Place
       /\ Asked => \E q \in Inquiries(site) :
                      latest = [q |-> q, rsp |-> Serve(site, file, q)]

(* Every state reachable satisfies it: a change of the file forgets the    *)
(* response, which is about the file as it was.                            *)
THEOREM ResourceInvariance == Spec => []Inv
<1>1. Init => Inv BY DEF Init, Inv, Asked, Place
<1>2. Inv /\ [Next]_vars => Inv'
  <2> SUFFICES ASSUME Inv, [Next]_vars PROVE Inv' OBVIOUS
  <2>1. CASE Ask BY <2>1 DEF Ask, Inv, Asked
  <2>2. CASE Write
    <3>1. PICK size \in Sizes, time \in Times, opens \in BOOLEAN :
             file' = File(version', size, time, opens)
      BY <2>2 DEF Write
    <3>2. version' \in Nat BY <2>2 DEF Write, Inv
    <3>3. file' \in FileType BY <3>1, <3>2 DEF File, FileType
    <3> QED BY <2>2, <3>2, <3>3 DEF Write, Inv, Asked, Place
  <2>3. CASE Unlink BY <2>3 DEF Unlink, Inv, Asked, Place
  <2>4. CASE Bar BY <2>4 DEF Bar, Inv, Asked, Place
  <2>5. CASE UNCHANGED vars BY <2>5 DEF vars, Inv, Asked
  <2> QED BY <2>1, <2>2, <2>3, <2>4, <2>5 DEF Next
<1> QED BY <1>1, <1>2, PTL DEF Spec

(* What the invariant says of the latest request.                          *)
LEMMA LatestDelivered ==
    ASSUME Inv, Asked
    PROVE  /\ latest.q \in InquiryType
           /\ ~latest.q.known => Paginated(latest.rsp)
           /\ latest.q.known => Delivered(site, file, latest.q, latest.rsp)
<1>1. PICK q \in Inquiries(site) :
         latest = [q |-> q, rsp |-> Serve(site, file, q)]
  BY DEF Inv
<1>2. q \in InquiryType BY InquiryAssumption DEF Inv
<1>3. latest.q = q /\ latest.rsp = Serve(site, file, q) BY <1>1
<1>4. CASE ~q.known
  <2>1. PICK status \in Nat : status = 404 OBVIOUS
  <2>2. Serve(site, file, q) = WithContent(Answer(status), Page)
    BY <1>4, <2>1 DEF Serve
  <2> QED BY <1>2, <1>3, <1>4, <2>2, Paginates
<1>5. CASE q.known BY <1>2, <1>3, <1>5, ServeDelivers DEF Inv
<1> QED BY <1>4, <1>5

(* The longest mount is one, and no mount is NoNode.                       *)
LEMMA MountIsNode ==
    ASSUME NEW st \in Sites, NEW q \in InquiryType,
           Matching(st, Target(st, q)) # {}
    PROVE  LET url   == Target(st, q)
               mount == Longest(Matching(st, url))
           IN  /\ url \in Strings
               /\ mount \in DOMAIN st.nodes /\ IsPrefix(mount, url)
               /\ mount \in Strings /\ mount # NoNode
               /\ \A n \in Matching(st, url) : Len(n) <= Len(mount)
<1>1. Target(st, q) \in Strings BY SiteAssumption DEF Target, InquiryType
<1>2. \A m \in DOMAIN st.nodes : m \in Strings /\ m # NoNode
  BY SiteAssumption
<1> QED BY <1>1, <1>2, LongestMatches DEF Matching

(* A request reaches an rnode only if the configurations of the host and   *)
(* of the rnode both entitle its sender, and is refused only if one of     *)
(* them does not.                                                          *)
THEOREM EntitledSafe == Spec => []EntitledOnly
<1>1. Inv => EntitledOnly
  <2> SUFFICES ASSUME Inv, Asked, latest.q.known
               PROVE  LET q    == latest.q
                          node == latest.rsp.node
                          mine == Matching(site, Target(site, q))
                      IN /\ node # NoNode =>
                               \A rules \in Chain : Entitles(rules, q)
                         /\ node = NoNode /\ latest.rsp.status \in {401, 403} =>
                               \/ ~Entitles(site.rules, q)
                               \/ ~Entitles(site.nodes[Longest(mine)].rules, q)
    BY DEF EntitledOnly, Entitles
  <2> DEFINE q     == latest.q
             rsp   == latest.rsp
             mine  == Matching(site, Target(site, q))
             mount == Longest(mine)
  <2>1. q \in InquiryType /\ Delivered(site, file, q, rsp)
    BY LatestDelivered
  <2>2. mine # {} => mount # NoNode
    BY <2>1, MountIsNode DEF Inv
  <2>3. CASE Paginated(rsp) /\ rsp.status = 404
    BY <2>3 DEF Paginated
  <2>4. CASE ~Entitles(site.rules, q) /\ Paginated(rsp)
    BY <2>4 DEF Paginated
  <2>5. CASE rsp = Unanswered("undefined")
    BY <2>5, UnansweredTyped
  <2>6. CASE ~Entitles(site.nodes[mount].rules, q) /\ Paginated(rsp)
    BY <2>6 DEF Paginated
  <2>7. CASE /\ mine # {} /\ rsp.node = mount
             /\ Entitles(site.rules, q) /\ Entitles(site.nodes[mount].rules, q)
    BY <2>2, <2>7 DEF Chain
  <2> QED BY <2>1, <2>3, <2>4, <2>5, <2>6, <2>7 DEF Delivered
<1> QED BY <1>1, ResourceInvariance, PTL

(* OPTIONS names no method that the members of both groups may not use.    *)
THEOREM OptionsSafe == Spec => []OptionsUsable
<1>1. Inv => OptionsUsable
  <2> SUFFICES ASSUME Inv, Asked, latest.rsp.node # NoNode,
                      latest.rsp.allows # NoList,
                      NEW rules \in Chain \ {Free}
               PROVE  Usable(rules, latest.rsp.allows)
    BY DEF OptionsUsable, Usable
  <2>1. CASE Paginated(latest.rsp) BY <2>1 DEF Paginated
  <2>2. CASE latest.rsp = Unanswered("undefined") BY <2>2, UnansweredTyped
  <2>3. CASE LET m == latest.rsp.node
             IN  /\ Usable(site.rules, latest.rsp.allows)
                 /\ Usable(site.nodes[m].rules, latest.rsp.allows)
    BY <2>3 DEF Chain
  <2> QED BY <2>1, <2>2, <2>3, LatestDelivered DEF Delivered
<1> QED BY <1>1, ResourceInvariance, PTL

(* Every request is answered, but for the known ways not to be.            *)
THEOREM AnswersSafe == Spec => []AnswersAll
<1>1. Inv => AnswersAll
  <2> SUFFICES ASSUME Inv, Asked PROVE AnswersAll BY DEF AnswersAll
  <2>1. CASE Paginated(latest.rsp) BY <2>1 DEF Paginated, AnswersAll
  <2>2. CASE /\ latest.rsp = Unanswered("undefined")
             /\ \/ <<>> \in DOMAIN site.nodes
                \/ latest.q.app.status >= 400 /\ latest.q.app.status \notin Paged
    <3>1. latest.rsp.fate = "undefined" BY <2>2, UnansweredTyped
    <3>2. \/ latest.q.app.status >= 400 /\ latest.q.app.status \notin Paged
          \/ <<>> \in DOMAIN site.nodes
      BY <2>2
    <3> QED BY <3>1, <3>2 DEF AnswersAll
  <2> DEFINE q     == latest.q
             mine  == Matching(site, Target(site, q))
             mount == Longest(mine)
             node  == site.nodes[mount]
  <2>3. CASE /\ mine # {} /\ latest.rsp.node = mount
             /\ Dealt(node.kind, Here(site, file, q, mount), q, latest.rsp)
    <3>1. mount # NoNode BY <2>3, LatestDelivered, MountIsNode DEF Inv
    <3> HIDE DEF mount
    <3> QED BY <2>3, <3>1 DEF Dealt, Excused, AnswersAll, Here, PathAt
  <2> QED BY <2>1, <2>2, <2>3, LatestDelivered DEF Delivered, Matching
<1> QED BY <1>1, ResourceInvariance, PTL

(* What is sent of a file lies in it and is what was asked for.            *)
THEOREM SliceSafe == Spec => []SliceInFile
<1>1. Inv => SliceInFile
  <2> SUFFICES ASSUME Inv, Asked, latest.rsp.content.kind = "file"
               PROVE  InFile(file, latest.q, latest.rsp)
                      /\ latest.rsp.content.first >= 0
    BY DEF SliceInFile, InFile
  <2>1. CASE Paginated(latest.rsp) BY <2>1, PageTyped DEF Paginated
  <2>2. CASE latest.rsp = Unanswered("undefined")
    BY <2>2, UnansweredTyped, NoContentTyped DEF Blank
  <2>3. CASE \E kind, mount : Dealt(kind, Here(site, file, latest.q, mount),
                                    latest.q, latest.rsp)
    <3>1. PICK kind, mount : Dealt(kind, Here(site, file, latest.q, mount),
                                   latest.q, latest.rsp)
      BY <2>3
    <3> DEFINE here == Here(site, file, latest.q, mount)
    <3>2. here \notin {Absent, Barred} /\ InFile(here, latest.q, latest.rsp)
      BY <3>1 DEF Dealt
    <3>3. here = file BY <3>2, HereInPlace DEF Inv
    <3> HIDE DEF here
    <3> QED BY <3>1, <3>2, <3>3 DEF Dealt, ResponseType, ContentType
  <2> QED BY <2>1, <2>2, <2>3, LatestDelivered DEF Delivered
<1> QED BY <1>1, ResourceInvariance, PTL

(* The content-lengths stated are the content's, but for an application's  *)
(* error that states its own.                                              *)
THEOREM LengthsSafe == Spec => []LengthsTrue
<1>1. Inv => LengthsTrue
  <2> DEFINE q   == latest.q
             rsp == latest.rsp
             n   == rsp.content.length
             lengths == {rsp.lengths[i] : i \in DOMAIN rsp.lengths}
  <2> SUFFICES ASSUME Inv, Asked, rsp.fate = "answered"
               PROVE  IF rsp.content = NoContent
                      THEN rsp.lengths = <<>>
                      ELSE lengths = {n} \/
                           /\ rsp.node # NoNode
                           /\ site.nodes[rsp.node].kind = "app"
                           /\ rsp.status >= 400
                           /\ lengths = {n, q.app.length}
    BY DEF LengthsTrue
  <2>1. ASSUME rsp.lengths = <<n>> PROVE lengths = {n}
    BY <2>1
  <2>2. ASSUME rsp.lengths = <<n, n>> PROVE lengths = {n}
    BY <2>2
  <2>3. ASSUME rsp.lengths = <<q.app.length, n>>
        PROVE  lengths = {n, q.app.length}
    BY <2>3
  <2> HIDE DEF lengths
  <2>4. CASE Paginated(rsp)
    BY <2>1, <2>4, PageTyped DEF Paginated
  <2>5. CASE rsp = Unanswered("undefined") BY <2>5, UnansweredTyped
  <2>6. CASE LET mine  == Matching(site, Target(site, q))
                 mount == Longest(mine)
                 node  == site.nodes[mount]
             IN  /\ mine # {}
                 /\ Dealt(node.kind, Here(site, file, q, mount), q, rsp)
                 /\ rsp.content = NoContent => rsp.lengths = <<>>
                 /\ rsp.node = mount
    <3>1. rsp.node # NoNode
      BY <2>6, LatestDelivered, MountIsNode DEF Inv
    <3>2. Stated(site.nodes[rsp.node].kind, q, rsp)
      BY <2>6 DEF Dealt
    <3> QED BY <2>1, <2>2, <2>3, <2>6, <3>1, <3>2 DEF Stated
  <2> QED BY <2>4, <2>5, <2>6, LatestDelivered DEF Delivered
<1> QED BY <1>1, ResourceInvariance, PTL

(* A request is served at the longest mount that begins its url, and asks  *)
(* there for the rest of it.                                               *)
THEOREM RoutedSafe == Spec => []RoutedLongest
<1>1. Inv => RoutedLongest
  <2> DEFINE q     == latest.q
             rsp   == latest.rsp
             url   == Target(site, q)
             mine  == Matching(site, url)
             mount == Longest(mine)
             here  == {n \in 0 .. Len(url) :
                          SubSeq(url, 1, n) \in DOMAIN site.nodes}
  <2> SUFFICES ASSUME Inv, Asked, q.known, rsp.fate # "undefined"
               PROVE  IF rsp.node = NoNode
                      THEN rsp.status = 404 => here = {}
                      ELSE /\ Len(rsp.node) \in here
                           /\ \A n \in here : n <= Len(rsp.node)
                           /\ SubSeq(url, 1, Len(rsp.node)) = rsp.node
                           /\ rsp.content.kind = "file" =>
                                 Doc \in {<<rsp.node,
                                           SubSeq(url, Len(rsp.node) + 1, Len(url))>>,
                                         <<Root, url>>}
    BY DEF RoutedLongest
  <2>1. q \in InquiryType /\ Delivered(site, file, q, rsp)
    BY LatestDelivered
  <2>2. site \in Sites BY DEF Inv
  <2>3. url \in Strings BY <2>1, <2>2, SiteAssumption DEF Target, InquiryType
  <2>4. \A n \in here : /\ SubSeq(url, 1, n) \in mine
                        /\ Len(SubSeq(url, 1, n)) = n
    <3> SUFFICES ASSUME NEW n \in here
                 PROVE  /\ SubSeq(url, 1, n) \in mine
                        /\ Len(SubSeq(url, 1, n)) = n
      OBVIOUS
    <3> DEFINE m == SubSeq(url, 1, n)
    <3>1. n \in Nat /\ n <= Len(url) /\ url \in Seq(STRING)
      BY <2>3 DEF Strings
    <3>2. m \in Seq(STRING) /\ Len(m) = n BY <3>1
    <3>3. SubSeq(m, 1, n) = m BY <3>2
    <3>4. IsPrefix(m, url) BY <3>1, <3>2, <3>3 DEF IsPrefix
    <3> QED BY <3>2, <3>4 DEF Matching
  <2>5. CASE mine = {} /\ Paginated(rsp)
    BY <2>4, <2>5 DEF Paginated
  <2>6. CASE Paginated(rsp) /\ rsp.status \in {401, 403}
    BY <2>6 DEF Paginated
  <2>7. CASE rsp = Unanswered("undefined") BY <2>7, UnansweredTyped
  <2>8. CASE /\ mine # {} /\ rsp.node = mount
             /\ rsp.content.kind = "file"
                   => Doc = <<mount, PathAt(site, q, mount)>>
    <3>1. /\ mount \in DOMAIN site.nodes /\ IsPrefix(mount, url)
          /\ mount \in Strings /\ mount # NoNode
          /\ \A n \in mine : Len(n) <= Len(mount)
      BY <2>1, <2>2, <2>8, MountIsNode
    <3> HIDE DEF mount, mine, url
    <3>2. SubSeq(url, 1, Len(mount)) = mount /\ Len(mount) <= Len(url)
      <4>1. SubSeq(mount, 1, Len(mount)) = mount
        BY <3>1 DEF Strings
      <4> QED BY <3>1, <4>1 DEF IsPrefix
    <3>3. Len(mount) \in here
      <4>1. mount \in Seq(STRING) /\ url \in Seq(STRING)
        BY <2>3, <3>1 DEF Strings
      <4>2. Len(mount) \in Nat /\ Len(url) \in Nat
        BY <4>1, LenProperties
      <4>3. Len(mount) \in 0 .. Len(url) BY <3>2, <4>2
      <4> QED BY <3>1, <3>2, <4>3
    <3>4. \A n \in here : n <= Len(mount) BY <2>4, <3>1
    <3>5. PathAt(site, q, mount) = IF mount = Root THEN url
                                   ELSE SubSeq(url, Len(mount) + 1, Len(url))
      BY DEF PathAt, Local, url
    <3> QED BY <2>8, <3>1, <3>2, <3>3, <3>4, <3>5
  <2> QED BY <2>1, <2>5, <2>6, <2>7, <2>8 DEF Delivered
<1> QED BY <1>1, ResourceInvariance, PTL
=============================================================================
