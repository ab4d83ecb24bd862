----------------------------- MODULE MCMessaging -----------------------------
(* Instances of Messaging for TLC. *)
EXTENDS Messaging

\* Every message has the same length.
UnitSize == [m \in Messages |-> 1]
=============================================================================
