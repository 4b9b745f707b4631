--------------------------- MODULE AccessControl ---------------------------
(***************************************************************************)
(* The access control in front of a host or an rnode                       *)
(* (security/access_control.hpp): the methods its configuration allows to  *)
(* anyone, to a group and to an owner, the check of a request, and the     *)
(* answer to OPTIONS, which is cut to what is allowed; and the users it    *)
(* knows (security/authentication.cpp).                                    *)
(***************************************************************************)
EXTENDS Messages

CONSTANTS
    Free,          \* a configuration without an access_control element
    Accounts,      \* the configured users
    NoLogin        \* a request without an authorization that can be read

(* A user of the configuration. *)
Account(name, password, groups) ==
    [name |-> name, password |-> password, groups |-> groups]

ASSUME AccountsAssumption ==
    \A a, b \in Accounts : a.name = b.name => a = b

(* authentication::authenticate: the user whose name and password the      *)
(* request states.                                                         *)
Authenticate(q) ==
    LET match == {a \in Accounts : /\ q.login # NoLogin
                                   /\ a.name = q.login.name
                                   /\ a.password = q.login.password}
    IN IF match = {} THEN Nobody ELSE CHOOSE a \in match : TRUE

(* A configuration: owner and group are the empty string if not given, a   *)
(* list is NoList if not given and a set of words otherwise.               *)
Rules(owner, group, anon, grp, own) ==
    [owner |-> owner, group |-> group, anon_allows |-> anon,
     group_allows |-> grp, owner_allows |-> own]

ParseAll(words) == {Parse(word) : word \in words}

Anonymous(rules) == IF rules.anon_allows = NoList
                    THEN {} ELSE ParseAll(rules.anon_allows)

(* What everybody may is added only to a list that is given, ...           *)
Group(rules) == IF rules.group_allows = NoList
                THEN {} ELSE Anonymous(rules) \cup ParseAll(rules.group_allows)

(* ... and so is what the group may. *)
Owner(rules) == IF rules.owner_allows = NoList
                THEN {} ELSE Group(rules) \cup ParseAll(rules.owner_allows)

Member(rules, user) == user # Nobody /\ rules.group \in user.groups
Owns(rules, user) == user # Nobody /\ rules.owner = user.name

(* Fault: a method of the owner's is enough. *)
AllowedToAny(rules, q) ==
    \/ q.method \in Anonymous(rules)
    \/ /\ Authenticate(q) # Nobody
       /\ q.method \in Group(rules) \cup Owner(rules)

(* access_control::_do_permission_check lets the request through. *)
Allowed(rules, q) ==
    \/ q.method \in Anonymous(rules)
    \/ Member(rules, Authenticate(q)) /\ q.method \in Group(rules)
    \/ Owns(rules, Authenticate(q)) /\ q.method \in Owner(rules)

(* Fault: the methods of the base are listed as they are. *)
CutNothing(rules, rsp) == rsp

(* access_control::_invoke_base_impl for OPTIONS: always the group's set.  *)
(* The new list begins with a comma, and so with an empty word.            *)
CutToGroup(rules, rsp) ==
    IF rsp.allows = NoList
    THEN rsp
    ELSE [rsp EXCEPT !.allows =
            {""} \cup {Name(m) : m \in Group(rules) \cap ParseAll(@)}]

(* access_control::async_request in front of a base that answers base. *)
Guarded(rules, q, base) ==
    CASE rules = Free -> base
      [] rules # Free /\ Allowed(rules, q) ->
           IF q.method = "OPTIONS" THEN CutToGroup(rules, base) ELSE base
      [] rules # Free /\ ~Allowed(rules, q) ->
           Answer(IF Authenticate(q) = Nobody THEN 401 ELSE 403)
=============================================================================
