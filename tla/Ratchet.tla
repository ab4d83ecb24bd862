------------------------------ MODULE Ratchet ------------------------------
(***************************************************************************)
(* What rekeying promises of the session key of a connection: it is a      *)
(* ratchet that the two ends turn one epoch at a time.  From epochs that    *)
(* are equal one end may lead, with a secret to which every end has given a *)
(* share that is newer than its share in the secret before; then the other *)
(* end follows to that very secret, and nobody leads until it has.  So the *)
(* ends never differ in the secret of an epoch, no secret and no share of  *)
(* one comes back, and no end turns back.                                  *)
(***************************************************************************)
EXTENDS Naturals

CONSTANT End      \* the ends of the connection

VARIABLES epoch,  \* the epoch of each end
          secret  \* the secret of its session key: the shares it was derived from

ratchetVars == <<epoch, secret>>

\* A share is numbered in the order in which its end has generated it.
Share == End \X Nat

Init ==
  /\ epoch = [e \in End |-> 0]
  /\ secret = [e \in End |-> End \X {0}]

\* Every end has given s a share newer than what it gave the secret r.
Newer(s, r) ==
  \A d \in End : \E x \in s : x[1] = d /\ \A y \in r : y[1] = d => y[2] < x[2]

\* An end turns to the next epoch while all are in the same.
Lead(e) ==
  /\ \A d \in End : epoch[d] = epoch[e]
  /\ epoch' = [epoch EXCEPT ![e] = @ + 1]
  /\ secret' \in [End -> SUBSET Share]
  /\ \A d \in End \ {e} : secret'[d] = secret[d]
  /\ Newer(secret'[e], secret[e])

\* An end turns to the epoch another has reached.
Follow(e) ==
  /\ epoch' = [epoch EXCEPT ![e] = @ + 1]
  /\ \E d \in End : /\ epoch[d] = epoch[e] + 1
                    /\ secret' = [secret EXCEPT ![e] = secret[d]]

Next == \E e \in End : Lead(e) \/ Follow(e)

Spec == Init /\ [][Next]_ratchetVars
=============================================================================
