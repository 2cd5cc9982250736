----------------------------- MODULE MCGateway -----------------------------
(* An instance of Gateway for TLC: one slot, one backend of type mock.      *)
EXTENDS Gateway

CONSTANTS only

OneSlot == {[limit |-> 1, reject |-> TRUE]}
NoRules == <<>>
OneDeadline == [b \in Backends |-> {"raw_deadline"}]
OneReply == [b \in Backends |-> {"backend_error"}]
=============================================================================
