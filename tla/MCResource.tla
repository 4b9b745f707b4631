----------------------------- MODULE MCResource -----------------------------
(***************************************************************************)
(* Instances of Resource for TLC.                                          *)
(***************************************************************************)
EXTENDS Resource

(* Urls: strings of at most four of the characters "/", "a" and "b". *)
A  == <<"/", "a">>
AB == <<"/", "a", "b">>

Urls == {Root \o rest : rest \in UNION {[1 .. n -> {"/", "a", "b"}] :
                                          n \in 0 .. 3}}

TheDoc == <<Root, A>>

Fine == [status |-> 200, states |-> TRUE, length |-> 7, ends |-> "answers"]

Inquiry(method, url, login, range, app) ==
    [known |-> TRUE, method |-> method, url |-> url, login |-> login,
     range |-> range, since |-> NoStamp, body |-> 0, app |-> app]

WithBody(inquiry) == [inquiry EXCEPT !.body = 2]

Since(time, inquiry) == [inquiry EXCEPT !.since = time]

Site(rules, nodes) == [rules |-> rules, nodes |-> nodes, default |-> A]

Node(kind, rules) == [kind |-> kind, rules |-> rules]

-----------------------------------------------------------------------------
(* Who may do what: rules at the host and at the rnode. *)

Lists == {NoList, {"GET"}, {"OPTIONS", "PUT", "OPTION"}}

NodeRules == {Free} \cup
    {Rules("r", "g", anon, grp, own) : anon, grp, own \in Lists}

HostRules == {Free} \cup
    {Rules("p", "g", anon, grp, {"POST"}) :
        anon \in {NoList, {"GET", "HEAD"}},
        grp \in {NoList, {""}, {"OPTIONS", "OPTION", "GET"}}}

GuardedSites == {Site(host, (Root :> Node("file", rules))) :
                    host \in HostRules, rules \in NodeRules}

TheAccounts == {Account("o", "1", {"g"}), Account("p", "2", {""}),
                Account("r", "3", {"h"})}

Login(name, password) == [name |-> name, password |-> password]

Logins == {NoLogin, Login("o", "1"), Login("o", "2"), Login("p", "2"),
           Login("r", "3"), Login("s", "1")}

GuardedInquiries == {Inquiry(method, A, login, NoRange, Fine) :
                        method \in Methods, login \in Logins}

-----------------------------------------------------------------------------
(* A file, its ranges and the times a client may know of it. *)

FreeSite == Site(Free, (Root :> Node("file", Free)))

Bounds == {NotNumber, Open} \cup 0 .. 2

Ranges == {NoRange} \cup [begin : Bounds, end : Bounds]

FileInquiries == {Since(time, Inquiry(method, A, NoLogin, range, Fine)) :
                     time \in {NoStamp, 0, 1, 2}, method \in {"GET", "HEAD"},
                     range \in Ranges}

-----------------------------------------------------------------------------
(* Mounts and applications. *)

MountKind == (<<>> :> "file") @@ (Root :> "file") @@ (A :> "app")
             @@ (AB :> "file") @@ (<<"/", "a", "/">> :> "file")

MountSites == {Site(Free, [m \in mounts |-> Node(MountKind[m], Free)]) :
                  mounts \in SUBSET DOMAIN MountKind}

Apps == [status : {200, 302, 404, 418, 506}, states : BOOLEAN, length : {7},
         ends : Ends]

MountInquiries ==
    {Inquiry("GET", url, NoLogin, NoRange, Fine) : url \in Urls}
    \cup {Inquiry(method, A, NoLogin, NoRange, Fine) : method \in Methods}
    \cup {WithBody(Inquiry(method, A, NoLogin, NoRange, Fine)) :
             method \in {"POST", "TRACE"}}
    \cup {Inquiry("GET", A, NoLogin, NoRange, app) : app \in Apps}
    \cup {[Inquiry("GET", A, NoLogin, NoRange, Fine) EXCEPT !.known = FALSE]}

-----------------------------------------------------------------------------

AnySite == GuardedSites \cup {FreeSite} \cup MountSites

InquiriesOf(st) == (IF st \in GuardedSites THEN GuardedInquiries ELSE {})
                       \cup (IF st = FreeSite THEN FileInquiries ELSE {})
                       \cup (IF st \in MountSites THEN MountInquiries ELSE {})
=============================================================================
