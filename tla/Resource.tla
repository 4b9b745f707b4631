------------------------------ MODULE Resource ------------------------------
(***************************************************************************)
(* The resource tree of a worker (resource/resource.cpp, host.cpp,         *)
(* wsgi/wsgi_rnode.cpp): a request goes to the host it names, through that *)
(* host's access control to the rnode mounted at the longest prefix of its *)
(* url, through that rnode's access control to a file or an application,   *)
(* and the response comes back the same way.                               *)
(*                                                                         *)
(* A request is answered in one step of the worker's thread; between two   *)
(* of them others change the file.  FileTransfer has what may happen to it *)
(* within one.                                                             *)
(***************************************************************************)
EXTENDS AccessControl, FileNode, SequencesExt

CONSTANTS
    Sites,         \* the configurations of a host
    Inquiries(_),  \* the requests that are sent to one
    Doc,           \* mount and path of the one file
    MaxPath,       \* the longest path the file system can look up
    Sizes, Times,  \* sizes it may have and seconds it may be written in
    MaxVersion     \* bound: writes of the file

(* Names of mounts and urls are strings of characters.                     *)
Strings == Seq(STRING)

ASSUME SiteAssumption ==
    \A st \in Sites :
        /\ st.default \in Strings
        /\ DOMAIN st.nodes \subseteq Strings \ {NoNode}
        /\ \A m \in DOMAIN st.nodes : st.nodes[m].kind \in {"file", "app"}

(* A bound of a range is read from a string of digits, if from any.        *)
Bound == Nat \cup {Open, NotNumber}

(* How a call of an application ends: it answers, it raises an exception,  *)
(* or one breaks out of what the server does around the call: a header     *)
(* whose bytes are no text, a content that is not of bytes.                *)
Ends == {"answers", "raises", "breaks"}

InquiryType ==
    [known  : BOOLEAN,                  \* the server has the host it names
     method : Methods,
     url    : Strings,
     login  : [name : STRING, password : STRING] \cup {NoLogin},
     range  : [begin : Bound, end : Bound] \cup {NoRange},
     since  : Nat \cup {NoStamp},
     body   : Nat,
     app    : [status : Nat, states : BOOLEAN, length : Nat, ends : Ends]]

ASSUME InquiryAssumption == \A st \in Sites : Inquiries(st) \subseteq InquiryType

ASSUME FileAssumption ==
    Sizes \subseteq Nat /\ Times \subseteq Nat /\ MaxPath \in Nat

VARIABLES
    site,          \* the configuration, which never changes
    file,          \* the file at Doc, or Absent or Barred
    version,       \* how often it has been written
    latest         \* the latest request and its response, if the file is the same

vars == <<site, file, version, latest>>

-----------------------------------------------------------------------------
(* wsgi_rnode: the application's answer comes with the request.  It has a  *)
(* content only if it states a content-length, and it states that truly.   *)
(* Only the call is in a try block, and only for exceptions of Python: a   *)
(* body is made a bytearray before it, out of a text, which Python refuses *)
(* for every body.                                                         *)

ServeApplication(q) ==
    LET rsp    == Answer(q.app.status)
        breaks == q.body > 0 \/ q.app.ends = "breaks"
    IN CASE breaks -> Unanswered("throws")
         [] ~breaks /\ q.app.ends = "raises" -> Unanswered("silent")
         [] ~breaks /\ q.app.ends = "answers" ->
              IF q.app.states
              THEN WithContent(rsp, Content("app", 0, q.app.length, 0))
              ELSE rsp

-----------------------------------------------------------------------------
(* host::async_request *)

Root == <<"/">>

Target(st, q) == IF q.url = Root THEN st.default ELSE q.url

(* Mounts are prefixes of the url as a string: not of its names. *)
Matching(st, url) == {m \in DOMAIN st.nodes : IsPrefix(m, url)}

(* Fault: the first mount that matches is taken. *)
AnyOf(mounts) == CHOOSE m \in mounts : \A n \in mounts : Len(m) <= Len(n)

Longest(mounts) == CHOOSE m \in mounts : \A n \in mounts : Len(n) <= Len(m)

(* The url without the mount, but whole at the root. *)
Local(mount, url) == IF mount = Root
                     THEN url
                     ELSE SubSeq(url, Len(mount) + 1, Len(url))

(* What is at a path of a mount when f is at Doc. *)
At(f, mount, path) ==
    IF Len(path) > MaxPath
    THEN Barred
    ELSE IF Doc = <<mount, path>> THEN f ELSE Absent

(* The rnode behind its access control. *)
ServeNode(st, f, q, mount) ==
    LET node == st.nodes[mount]
        path == Local(mount, Target(st, q))
        base == IF node.kind = "file" THEN ServeFile(At(f, mount, path), q)
                                      ELSE ServeApplication(q)
    IN Guarded(node.rules, q, [base EXCEPT !.node = mount])

(* Fault: the length is stated before an error's page is put in. *)
HostReplyEarly(rsp) ==
    CASE rsp.fate # "answered" -> rsp
      [] rsp.fate = "answered" /\ rsp.status >= Pages -> Unanswered("undefined")
      [] rsp.fate = "answered" /\ rsp.status < Pages ->
           LET y == IF rsp.content = NoContent
                    THEN rsp ELSE WithContent(rsp, rsp.content)
           IN IF rsp.status \in Paged THEN [y EXCEPT !.content = Page] ELSE y

(* What the host does to the rnode's response: an error gets its page, if  *)
(* there is one, and a content its length; a length stated before is       *)
(* looked for under another name, "content-lenth", and so it stays.        *)
HostReply(rsp) ==
    LET content == IF rsp.status >= 400
                   THEN IF rsp.status \in Paged THEN Page ELSE NoContent
                   ELSE rsp.content
    IN CASE rsp.fate # "answered" -> rsp
         [] rsp.fate = "answered" /\ rsp.status >= Pages ->
              Unanswered("undefined")
         [] rsp.fate = "answered" /\ rsp.status < Pages ->
              IF content = NoContent
              THEN [rsp EXCEPT !.content = NoContent]
              ELSE WithContent(rsp, content)

(* An rnode mounted at the empty path matches every url and is never the   *)
(* longest: without another the lookup ends past the map.                  *)
ServeHost(st, f, q) ==
    LET mounts == Matching(st, Target(st, q))
    IN CASE mounts = {}    -> WithContent(Answer(404), Page)
         [] mounts = {<<>>} -> Unanswered("undefined")
         [] mounts \notin {{}, {<<>>}} ->
              HostReply(ServeNode(st, f, q, Longest(mounts)))

-----------------------------------------------------------------------------
(* resource::async_request *)

(* Fault: a redirection gets a page as well. *)
ResourceReplyAll(rsp) ==
    IF rsp.fate = "answered" /\ rsp.status >= 300 /\ rsp.content = NoContent
    THEN IF rsp.status \in Paged THEN WithContent(rsp, Page)
                                 ELSE Unanswered("undefined")
    ELSE rsp

(* A host's error without content gets its page, and there is none to get  *)
(* for some statuses. *)
ResourceReply(rsp) ==
    IF rsp.fate = "answered" /\ rsp.status >= 400 /\ rsp.content = NoContent
    THEN IF rsp.status \in Paged THEN WithContent(rsp, Page)
                                 ELSE Unanswered("undefined")
    ELSE rsp

Serve(st, f, q) ==
    IF q.known
    THEN ResourceReply(Guarded(st.rules, q, ServeHost(st, f, q)))
    ELSE WithContent(Answer(404), Page)

-----------------------------------------------------------------------------

Nothing == [q |-> NoNode, rsp |-> NoNode]

Init == /\ site \in Sites
        /\ file = Absent
        /\ version = 0
        /\ latest = Nothing

Ask == /\ \E q \in Inquiries(site) :
             latest' = [q |-> q, rsp |-> Serve(site, file, q)]
       /\ UNCHANGED <<site, file, version>>

(* Another file comes to the path, of any size and age, to be read by the  *)
(* server or not.                                                          *)
Write ==
    /\ version < MaxVersion
    /\ version' = version + 1
    /\ \E size \in Sizes, time \in Times, opens \in BOOLEAN :
          file' = File(version', size, time, opens)
    /\ latest' = Nothing
    /\ UNCHANGED site

Unlink ==
    /\ file # Absent
    /\ file' = Absent /\ latest' = Nothing
    /\ UNCHANGED <<site, version>>

(* A directory on the way to the path is closed to the server. *)
Bar == /\ file' = Barred /\ latest' = Nothing
       /\ UNCHANGED <<site, version>>

Next == Write \/ Unlink \/ Bar \/ Ask

Spec == Init /\ [][Next]_vars

-----------------------------------------------------------------------------

Asked == latest # Nothing

(* What the two configurations on the way to the rnode say, in their own   *)
(* words: what anyone may, members of the group, and the owner, whose list *)
(* brings the group's with it.                                             *)
Words(list) == IF list = NoList THEN {} ELSE ParseAll(list)

GroupWords(rules) == Words(rules.anon_allows) \cup Words(rules.group_allows)

Entitled(rules, user) ==
    IF rules = Free
    THEN Methods
    ELSE Words(rules.anon_allows)
         \cup (IF Member(rules, user) THEN Words(rules.group_allows) ELSE {})
         \cup (IF Owns(rules, user) /\ rules.owner_allows # NoList
               THEN Words(rules.owner_allows) \cup Words(rules.group_allows)
               ELSE {})

Chain == {site.rules} \cup {site.nodes[m].rules : m \in
             {n \in DOMAIN site.nodes : n = latest.rsp.node}}

(* A request reaches an rnode only if both configurations on its way       *)
(* entitle its sender to its method, and is refused with 401 or 403 by the   *)
(* server only if one of them does not.                                    *)
EntitledOnly ==
    Asked /\ latest.q.known =>
        LET q    == latest.q
            node == latest.rsp.node
            mine == Matching(site, Target(site, q))
        IN /\ node # NoNode =>
                 \A rules \in Chain : q.method \in Entitled(rules, Authenticate(q))
           /\ node = NoNode /\ latest.rsp.status \in {401, 403} =>
                 \/ q.method \notin Entitled(site.rules, Authenticate(q))
                 \/ q.method \notin
                       Entitled(site.nodes[Longest(mine)].rules, Authenticate(q))

(* What OPTIONS answers behind two configurations names no method that the *)
(* members of both groups may not use, but "CONNECT", which stands for all *)
(* the words that are no method (access_control.hpp:96).                   *)
OptionsUsable ==
    Asked /\ latest.rsp.node # NoNode /\ latest.rsp.allows # NoList =>
        \A word \in latest.rsp.allows, rules \in Chain \ {Free} :
           word \in {"", "CONNECT"} \/ Parse(word) \in GroupWords(rules)

(* A request is served where the longest mount that begins its url says,   *)
(* and what it asks for there is the rest of the url; a known host answers *)
(* 404 for it only if nothing is mounted on its way or nothing is there.   *)
RoutedLongest ==
    Asked /\ latest.q.known /\ latest.rsp.fate # "undefined" =>
        LET url  == Target(site, latest.q)
            node == latest.rsp.node
            here == {n \in 0 .. Len(url) : SubSeq(url, 1, n) \in DOMAIN site.nodes}
        IN IF node = NoNode
           THEN latest.rsp.status = 404 => here = {}
           ELSE /\ Len(node) \in here /\ \A n \in here : n <= Len(node)
                /\ SubSeq(url, 1, Len(node)) = node
                /\ latest.rsp.content.kind = "file" =>
                      Doc \in {<<node, SubSeq(url, Len(node) + 1, Len(url))>>,
                               <<Root, url>>}

(* Whatever happens to a response on its way back, the content-lengths it  *)
(* states are that of its content: the client is told where the next       *)
(* response begins.  The exception is an error of an application that      *)
(* states a length: its content is replaced, the length is not removed     *)
(* (host.cpp:119).                                                         *)
LengthsTrue ==
    Asked /\ latest.rsp.fate = "answered" =>
        LET rsp == latest.rsp
            lengths == {rsp.lengths[i] : i \in DOMAIN rsp.lengths}
        IN IF rsp.content = NoContent
           THEN rsp.lengths = <<>>
           ELSE lengths = {rsp.content.length} \/
                /\ rsp.node # NoNode /\ site.nodes[rsp.node].kind = "app"
                /\ rsp.status >= 400
                /\ lengths = {rsp.content.length, latest.q.app.length}

(* What is sent of a file lies in the file, is not empty, and is what the  *)
(* bounds that were given say.                                             *)
SliceInFile ==
    Asked /\ latest.rsp.content.kind = "file" =>
        LET c == latest.rsp.content
            r == latest.q.range
        IN /\ c.first >= 0 /\ c.length > 0
           /\ c.first + c.length <= file.size
           /\ c.version = file.version
           /\ latest.rsp.status = 206 =>
                 /\ r.begin # Open => c.first = r.begin
                 /\ r.end # Open => c.first + c.length = r.end + 1

(* What an rnode for files may throw at: a path it cannot look up, a file  *)
(* that is there and cannot be mapped, a bound that is no number.          *)
FileThrows(here, q) ==
    \/ here = Barred
    \/ here # Absent /\ (here.size = 0 \/ ~here.opens)
    \/ q.range # NoRange /\ NotNumber \in {q.range.begin, q.range.end}

(* Every request is answered, and the worker survives it, except: an rnode *)
(* for files leaves the methods it does not implement unanswered and lets  *)
(* out what the look at the file throws; one for applications leaves the   *)
(* request unanswered when the application raises, and lets out what is    *)
(* thrown around the call, which is something for every request with a     *)
(* body; an error without a page and an rnode at the empty path are        *)
(* undefined behaviour.                                                    *)
AnswersAll ==
    Asked /\ latest.rsp.fate # "answered" =>
        LET q    == latest.q
            node == latest.rsp.node
            kind == IF node = NoNode THEN "none" ELSE site.nodes[node].kind
            here == At(file, node, Local(node, Target(site, q)))
        IN CASE latest.rsp.fate = "silent" ->
                  \/ /\ kind = "file"
                     /\ q.method \in {"PUT", "DELETE", "CONNECT", "UNKNOWN"}
                  \/ kind = "app" /\ q.app.ends = "raises" /\ q.body = 0
             [] latest.rsp.fate = "throws" ->
                  \/ kind = "file" /\ FileThrows(here, q)
                  \/ kind = "app" /\ (q.body > 0 \/ q.app.ends = "breaks")
             [] latest.rsp.fate = "undefined" ->
                  \/ q.app.status >= 400 /\ q.app.status \notin Paged
                  \/ <<>> \in DOMAIN site.nodes
=============================================================================
