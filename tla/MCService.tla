------------------------------ MODULE MCService ------------------------------
(***************************************************************************)
(* An instance of Service for TLC.                                         *)
(***************************************************************************)
EXTENDS Service

Request(node, out, body, keep) ==
    [node |-> node, out |-> out, body |-> body, keep |-> keep, sound |-> TRUE]

Get      == Request("plain", "content", 0, TRUE)
GetClose == Request("plain", "content", 0, FALSE)

FewRequests == {Get, GetClose}
OneRequest  == {Wire(r) : r \in FewRequests}
=============================================================================
