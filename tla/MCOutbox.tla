------------------------------ MODULE MCOutbox ------------------------------
(* Small instances of Outbox for TLC. *)
EXTENDS Outbox

CONSTANT crm          \* the subscriber a later deploy removes

\* Every event goes to both subscribers; a later deploy removes one of them.
AllSubscribed == {[e \in Event |-> Subscriber]}
OneLeaves == AllSubscribed \union {[e \in Event |-> Subscriber \ {crm}]}
=============================================================================
