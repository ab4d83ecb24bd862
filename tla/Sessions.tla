------------------------------ MODULE Sessions ------------------------------
(***************************************************************************)
(* What the connection registry of a PeerManager promises about the        *)
(* session a device holds with its peer: there is at most one, a newer one *)
(* may take its place, which ends it, or it is given up once it has ended; *)
(* a connection that was the session never becomes it again.               *)
(***************************************************************************)
EXTENDS Naturals

CONSTANTS Device,   \* the devices
          Conn,     \* the connections, each made once
          None      \* no session

VARIABLES session,  \* the connection each device uses for its peer, or None
          used,     \* the connections that are or were the session of a device
          ended     \* those of them that its end has closed

sessionVars == <<session, used, ended>>

Init ==
    /\ session = [d \in Device |-> None]
    /\ used = [d \in Device |-> {}]
    /\ ended = [d \in Device |-> {}]

\* A new connection, which may be over already, becomes the session; the one
\* before it, if any, is ended.
Attach(d, c) ==
    /\ c \notin used[d]
    /\ session' = [session EXCEPT ![d] = c]
    /\ used' = [used EXCEPT ![d] = @ \cup {c}]
    /\ \E over \in SUBSET {c} :
         ended' = [ended EXCEPT ![d] = @ \cup ({session[d]} \ {None}) \cup over]

\* A connection that is or was the session ends.
End(d, c) ==
    /\ c \in used[d]
    /\ ended' = [ended EXCEPT ![d] = @ \cup {c}]
    /\ UNCHANGED <<session, used>>

\* The session is ended and no other takes its place.
Detach(d) ==
    /\ session[d] # None
    /\ session' = [session EXCEPT ![d] = None]
    /\ ended' = [ended EXCEPT ![d] = @ \cup {session[d]}]
    /\ UNCHANGED used

Next == \E d \in Device : Detach(d) \/ \E c \in Conn : Attach(d, c) \/ End(d, c)

Spec == Init /\ [][Next]_sessionVars
=============================================================================
