------------------------------ MODULE FileNode ------------------------------
(***************************************************************************)
(* The rnode that serves files (filesystem/filesystem_rnode.cpp) and the   *)
(* content it makes of one (filesystem/filesystem_content.cpp).            *)
(***************************************************************************)
EXTENDS Messages

CONSTANTS
    Absent,        \* no regular file at a path
    Barred         \* a path of which the server may not learn what is there

ASSUME PathAssumption == Absent # Barred

(* A file: its version stands for its bytes, its time is its last write's  *)
(* in seconds, and the server may open it or not.                          *)
File(version, size, time, opens) ==
    [version |-> version, size |-> size, time |-> time, opens |-> opens]

(* Bytes first to last, and all of them. *)
Slice(file, first, last) ==
    Content("file", first, last - first + 1, file.version)

(* std::stoll throws when it comes to a bound that is not a number. *)
Unreadable(file, range) ==
    \/ range.begin = NotNumber
    \/ range.begin < file.size /\ range.end = NotNumber

(* Fault: only the end of the range is compared with the file's size. *)
RefusedByEnd(file, range) ==
    \/ range.end >= file.size
    \/ /\ range.begin # Open /\ range.end # Open
       /\ range.begin >= range.end

(* Begin and end, if given, must be in the file and begin be before end. *)
Refused(file, range) ==
    \/ range.begin >= file.size
    \/ range.end >= file.size
    \/ /\ range.begin # Open /\ range.end # Open
       /\ range.begin >= range.end

(* The answer to a request for the first of its ranges (extract_ranges).   *)
(* A range without a begin counts from the file's first byte.              *)
Ranged(rsp, file, range) ==
    LET first == IF range.begin = Open THEN 0 ELSE range.begin
        last  == IF range.end = Open THEN file.size - 1 ELSE range.end
    IN CASE Unreadable(file, range) -> Unanswered("throws")
         [] ~Unreadable(file, range) /\ Refused(file, range) ->
              [rsp EXCEPT !.status = 416]
         [] ~Unreadable(file, range) /\ ~Refused(file, range) ->
              [rsp EXCEPT !.status = 206, !.content = Slice(file, first, last)]

(* The client has a copy of the last write's second, to the letter. *)
Unmodified(file, q) == q.since = file.time

(* filesystem_content: the constructor cannot map an empty file, nor one it *)
(* may not open. *)
Mappable(file) == file.size > 0 /\ file.opens

(* filesystem_rnode::_do_get.  exists() throws when it is not told what is  *)
(* at the path, and the content's constructor when it cannot map the file. *)
Get(file, q) ==
    CASE file = Barred -> Unanswered("throws")
      [] file = Absent -> Answer(404)
      [] file \notin {Absent, Barred} ->
           LET rsp == [Answer(200) EXCEPT !.stamp = file.time]
           IN CASE Unmodified(file, q) -> [rsp EXCEPT !.status = 304]
                [] ~Unmodified(file, q) /\ ~Mappable(file) ->
                     Unanswered("throws")
                [] ~Unmodified(file, q) /\ Mappable(file) ->
                     IF q.range = NoRange
                     THEN [rsp EXCEPT !.content = Slice(file, 0, file.size - 1)]
                     ELSE Ranged(rsp, file, q.range)

(* filesystem_rnode::_do_head *)
GetHead(file, q) == [Get(file, q) EXCEPT !.content = NoContent]

(* filesystem_rnode::_do_trace *)
Trace(q) == IF q.body = 0
            THEN Answer(200)
            ELSE WithContent(Answer(200), Content("echo", 0, q.body, 0))

(* filesystem_rnode::_do_option, with its own spelling *)
Option == [Answer(200) EXCEPT
              !.allows = {"OPTION", "GET", "HEAD", "POST", "PUT", "DELELTE",
                          "TRACE"}]

(* filesystem_rnode::async_request *)
ServeFile(file, q) ==
    CASE q.method = "OPTIONS"         -> Option
      [] q.method \in {"GET", "POST"} -> Get(file, q)
      [] q.method = "HEAD"            -> GetHead(file, q)
      [] q.method = "TRACE"           -> Trace(q)
      [] q.method \in {"PUT", "DELETE", "CONNECT", "UNKNOWN"} ->
           Unanswered("silent")
=============================================================================
