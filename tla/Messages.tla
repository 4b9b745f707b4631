------------------------------ MODULE Messages ------------------------------
(***************************************************************************)
(* The messages the resources of a server exchange with its sessions       *)
(* (message.hpp, request.hpp, response.hpp), reduced to what decides how a *)
(* request is answered.                                                    *)
(***************************************************************************)
EXTENDS Integers, Sequences

CONSTANTS
    Nobody,        \* a request without valid credentials
    NoRange,       \* a request without a range
    NoList,        \* an attribute that lists methods and is not there
    NoNode,        \* no rnode was reached
    PageLength     \* length of an error page

ASSUME PageAssumption == PageLength \in Nat \ {0}

(* request::method *)
Methods == {"OPTIONS", "GET", "HEAD", "POST", "PUT", "DELETE", "TRACE",
            "CONNECT", "UNKNOWN"}

(* request::method_parse: any other word is an unknown method. *)
Parse(word) == IF word \in Methods THEN word ELSE "UNKNOWN"

(* request::method_to_string has a name of its own for none but the first  *)
(* eight. *)
Name(method) == IF method = "UNKNOWN" THEN "CONNECT" ELSE method

(* Bounds of a range that are not numbers: left out, and not readable.     *)
Open == -1
NotNumber == -2

(* No last-modified or if-modified-since attribute. *)
NoStamp == -1

(* The content of a response: length bytes from the first on, of a version *)
(* of a file, of an error page, of the request or of an application.       *)
Content(kind, first, length, version) ==
    [kind |-> kind, first |-> first, length |-> length, version |-> version]

NoContent == Content("none", 0, 0, 0)

(* A response; lengths holds its content-length attributes in the order    *)
(* they were inserted, for message keeps its attributes in a multimap.     *)
(* fate tells what became of the request: it is answered, nobody answers   *)
(* it, an exception leaves the handler, or the behaviour is undefined.     *)
Answer(status) ==
    [fate |-> "answered", status |-> status, content |-> NoContent,
     lengths |-> <<>>, allows |-> NoList, stamp |-> NoStamp,
     node |-> NoNode]

Unanswered(fate) == [Answer(500) EXCEPT !.fate = fate]

(* set_content and insert_attribute("content-length", ...) *)
WithContent(rsp, content) ==
    [rsp EXCEPT !.content = content, !.lengths = Append(@, content.length)]

(* The statuses that have an error page (resource::_error_pages_init), and *)
(* the size of the array the pages are in.                                 *)
Paged == (400 .. 417) \cup (500 .. 505)
Pages == 506

Page == Content("page", 0, PageLength, 0)
=============================================================================
