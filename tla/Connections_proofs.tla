------------------------- MODULE Connections_proofs -------------------------
(***************************************************************************)
(* Machine-checked proofs about Connections, for any number of connections *)
(* and reconnect workers, any limit of attempts and any number of losses,  *)
(* restarts and acts of the users.                                         *)
(*                                                                         *)
(* TypeOK needs to know that the registered worker of a device is running  *)
(* (WorkerInv): stopReconnect writes to it.  NoOrphan and the refinement   *)
(* of Sessions need to know that what a handshake makes was not there      *)
(* before (HandshakeInv: an end of a connection has nothing registered     *)
(* until its half of the handshake is over), and that the registry points  *)
(* to a connection that was registered (RegistryInv).  The refinement also *)
(* needs that an end which is out of the registry is closed (EndedInv): a  *)
(* restart closes everything, and Sessions lets it end the session only.   *)
(* LostIsPursued needs that a device whose loss is owed an attempt has a   *)
(* worker that will make it, or is about to start one (PursuitInv).        *)
(***************************************************************************)
EXTENDS Connections, TLAPS

\* Until its half of a handshake is over an end has no PeerConnection.
Early == {"unused", "dialing", "challenge", "hello", "asked"}

HandshakeInv ==
    \A c \in Conn :
       /\ dialer[c] = None <=> wire[c] = "unused"
       /\ \A d \in Device :
            \/ dialer[c] = d /\ wire[c] # "done"
            \/ dialer[c] # d /\ wire[c] \in Early
            => stage[c][d] = "none"

RegistryInv ==
    \A d \in Device :
       connections[d] # None => stage[connections[d]][d] \in {"mapped", "open"}

WorkerInv ==
    \A d \in Device :
       reconnectWorkers[d] # None => worker[d][reconnectWorkers[d]].at # "free"

\* An end that is out of the registry has closed its side.
EndedInv ==
    \A c \in Conn, d \in Device :
       stage[c][d] \in {"unmapped", "offline", "grace", "over"} => d \in closed[c]

\* The inductive invariant.
Inv == TypeOK /\ HandshakeInv /\ RegistryInv /\ WorkerInv /\ EndedInv /\ NoOrphan

USE NoneApart, Numbers

-----------------------------------------------------------------------------
(* The two devices. *)

\* Each of the two devices is the peer of the other.
LEMMA PeerIsTheOther ==
    ASSUME NEW d \in Device
    PROVE  Peer(d) \in Device /\ Peer(d) # d /\ \A e \in Device : e # d => e = Peer(d)
<1>1. \E e \in Device : e # d  BY TwoDevices
<1>2. Peer(d) \in Device /\ Peer(d) # d  BY <1>1 DEF Peer
<1> QED  BY <1>2, TwoDevices

\* The listener of a connection is a device, and not the one that dialed.
LEMMA ListenerIsTheOther ==
    ASSUME NEW c \in Conn, dialer[c] \in Device
    PROVE  Listener(c) \in Device /\ Listener(c) # dialer[c]
BY PeerIsTheOther DEF Listener

-----------------------------------------------------------------------------
(* The workers. *)

Workers ==
    /\ reconnectWorkers \in [Device -> Worker \cup {None}]
    /\ worker \in [Device -> [Worker -> WorkerStates]]

\* A worker that startReconnect has just started.
LEMMA WaitingIsState == [Idle EXCEPT !.at = "waiting"] \in WorkerStates
<1>1. 0 \in 0..(MaxAttempts - 1)  BY Numbers
<1>2. Idle \in [at : {"free"}, conn : {None}, attempt : 0..(MaxAttempts - 1), canceled : BOOLEAN]
  BY <1>1 DEF Idle
<1>3. [Idle EXCEPT !.at = "waiting"]
        \in [at : {"waiting"}, conn : {None}, attempt : 0..(MaxAttempts - 1), canceled : BOOLEAN]
  BY <1>2
<1> QED  BY <1>3 DEF WorkerStates

\* stopReconnect leaves a worker running, though canceled.
LEMMA CanceledIsState ==
    ASSUME NEW s \in WorkerStates, s.at # "free"
    PROVE  [s EXCEPT !.canceled = TRUE] \in WorkerStates /\ [s EXCEPT !.canceled = TRUE].at = s.at
<1>1. s # Idle  BY DEF Idle
<1>2. CASE s \in [at : {"waiting"}, conn : {None}, attempt : 0..(MaxAttempts - 1), canceled : BOOLEAN]
  BY <1>2 DEF WorkerStates
<1>3. CASE s \in [at : {"dialing"}, conn : Conn, attempt : 0..(MaxAttempts - 1), canceled : BOOLEAN]
  BY <1>3 DEF WorkerStates
<1>4. CASE s \in [at : {"ending"}, conn : {None}, attempt : 0..MaxAttempts, canceled : BOOLEAN]
  BY <1>4 DEF WorkerStates
<1> QED  BY <1>1, <1>2, <1>3, <1>4 DEF WorkerStates

\* A worker that goes on to another state in which it runs.
LEMMA WorkerMoves ==
    ASSUME Workers, WorkerInv, NEW d \in Device, NEW w \in Worker, NEW r \in WorkerStates,
           r.at # "free", worker' = [worker EXCEPT ![d][w] = r],
           reconnectWorkers' = reconnectWorkers
    PROVE  Workers' /\ WorkerInv'
<1>1. \A e \in Device, v \in Worker :
        worker'[e][v] = IF e = d /\ v = w THEN r ELSE worker[e][v]
  BY DEF Workers
<1>2. Workers'  BY DEF Workers
<1>3. WorkerInv'  BY <1>1 DEF Workers, WorkerInv
<1> QED  BY <1>2, <1>3

WorkerRecords ==
    [at : {"free", "waiting", "dialing", "ending"}, conn : Conn \cup {None},
     attempt : 0..MaxAttempts, canceled : BOOLEAN]

\* What the states of a worker look like.
LEMMA WorkerFields ==
    ASSUME NEW s \in WorkerStates
    PROVE  /\ s \in WorkerRecords
           /\ s.at \in {"waiting", "dialing"} => s.attempt \in 0..(MaxAttempts - 1)
           /\ s.at = "waiting" => s.conn = None
<1>1. CASE s = Idle  BY <1>1, Numbers DEF WorkerRecords, Idle
<1>2. CASE s \in [at : {"waiting"}, conn : {None}, attempt : 0..(MaxAttempts - 1), canceled : BOOLEAN]
  BY <1>2, Numbers DEF WorkerRecords
<1>3. CASE s \in [at : {"dialing"}, conn : Conn, attempt : 0..(MaxAttempts - 1), canceled : BOOLEAN]
  BY <1>3, Numbers DEF WorkerRecords
<1>4. CASE s \in [at : {"ending"}, conn : {None}, attempt : 0..MaxAttempts, canceled : BOOLEAN]
  BY <1>4, Numbers DEF WorkerRecords
<1> QED  BY <1>1, <1>2, <1>3, <1>4 DEF WorkerStates

\* The records that remain when a worker goes on.
LEMMA WorkerGoesOn ==
    ASSUME NEW s \in WorkerStates
    PROVE  /\ s.at = "waiting"
              => /\ [s EXCEPT !.at = "ending"] \in WorkerStates
                 /\ \A c \in Conn : [s EXCEPT !.at = "dialing", !.conn = c] \in WorkerStates
           /\ s.at = "dialing"
              => [s EXCEPT !.at = "ending", !.conn = None] \in WorkerStates
<1>1. /\ s \in WorkerRecords
      /\ s.at \in {"waiting", "dialing"} => s.attempt \in 0..(MaxAttempts - 1)
      /\ s.at = "waiting" => s.conn = None
  BY WorkerFields
<1>2. ASSUME s.at = "waiting"
      PROVE  [s EXCEPT !.at = "ending"] \in WorkerStates
  <2>1. [s EXCEPT !.at = "ending"]
          \in [at : {"ending"}, conn : {None}, attempt : 0..MaxAttempts, canceled : BOOLEAN]
    BY <1>1, <1>2 DEF WorkerRecords
  <2> QED  BY <2>1 DEF WorkerStates
<1>3. ASSUME s.at = "waiting", NEW c \in Conn
      PROVE  [s EXCEPT !.at = "dialing", !.conn = c] \in WorkerStates
  <2>1. [s EXCEPT !.at = "dialing", !.conn = c]
          \in [at : {"dialing"}, conn : Conn, attempt : 0..(MaxAttempts - 1), canceled : BOOLEAN]
    BY <1>1, <1>3 DEF WorkerRecords
  <2> QED  BY <2>1 DEF WorkerStates
<1>4. ASSUME s.at = "dialing"
      PROVE  [s EXCEPT !.at = "ending", !.conn = None] \in WorkerStates
  <2>1. [s EXCEPT !.at = "ending", !.conn = None]
          \in [at : {"ending"}, conn : {None}, attempt : 0..MaxAttempts, canceled : BOOLEAN]
    BY <1>1, <1>4 DEF WorkerRecords
  <2> QED  BY <2>1 DEF WorkerStates
<1> QED  BY <1>2, <1>3, <1>4

\* A worker whose dial failed waits for the next attempt, or has none left.
LEMMA WorkerTriesAgain ==
    ASSUME NEW s \in WorkerStates, s.at = "dialing",
           NEW a \in {"waiting", "ending"},
           a = "waiting" => ~ GivesUp(s.attempt + 1)
    PROVE  [s EXCEPT !.at = a, !.conn = None, !.attempt = s.attempt + 1] \in WorkerStates
<1>1. s \in WorkerRecords /\ s.attempt \in 0..(MaxAttempts - 1)  BY WorkerFields
<1>2. s.attempt + 1 \in 0..MaxAttempts /\ (a = "waiting" => s.attempt + 1 \in 0..(MaxAttempts - 1))
  BY <1>1, Numbers DEF GivesUp
<1> DEFINE r == [s EXCEPT !.at = a, !.conn = None, !.attempt = s.attempt + 1]
<1>3. CASE a = "waiting"
  <2>1. r \in [at : {"waiting"}, conn : {None}, attempt : 0..(MaxAttempts - 1), canceled : BOOLEAN]
    BY <1>1, <1>2, <1>3 DEF WorkerRecords
  <2> QED  BY <2>1 DEF WorkerStates
<1>4. CASE a = "ending"
  <2>1. r \in [at : {"ending"}, conn : {None}, attempt : 0..MaxAttempts, canceled : BOOLEAN]
    BY <1>1, <1>2, <1>4 DEF WorkerRecords
  <2> QED  BY <2>1 DEF WorkerStates
<1> QED  BY <1>3, <1>4

\* startReconnect registers a worker that runs.
LEMMA StartReconnectKeeps ==
    ASSUME Workers, WorkerInv, NEW d \in Device, StartReconnect(d)
    PROVE  Workers' /\ WorkerInv'
<1>1. CASE reconnectWorkers[d] # None
  BY <1>1 DEF StartReconnect, workerVars, Workers, WorkerInv
<1>2. CASE reconnectWorkers[d] = None
  <2>1. PICK w \in Worker :
          /\ worker[d][w] = Idle
          /\ worker' = [worker EXCEPT ![d][w].at = "waiting"]
          /\ reconnectWorkers' = [reconnectWorkers EXCEPT ![d] = w]
    BY <1>2 DEF StartReconnect
  <2>2. worker' = [worker EXCEPT ![d] = [worker[d] EXCEPT ![w] = [Idle EXCEPT !.at = "waiting"]]]
    BY <2>1 DEF Workers
  <2>3. Workers'  BY <2>1, <2>2, WaitingIsState DEF Workers
  <2>4. [Idle EXCEPT !.at = "waiting"].at # "free"  BY DEF Idle
  <2>5. WorkerInv'  BY <2>1, <2>2, <2>4 DEF WorkerInv, Workers
  <2> QED  BY <2>3, <2>5
<1> QED  BY <1>1, <1>2

\* stopReconnect cancels a worker that runs.
LEMMA StopReconnectKeeps ==
    ASSUME Workers, WorkerInv, NEW d \in Device, StopReconnect(d)
    PROVE  Workers' /\ WorkerInv'
<1>1. CASE reconnectWorkers[d] = None
  BY <1>1 DEF StopReconnect, workerVars, Workers, WorkerInv
<1>2. CASE reconnectWorkers[d] # None
  <2> DEFINE w == reconnectWorkers[d]
  <2>1. /\ worker' = [worker EXCEPT ![d][w].canceled = TRUE]
        /\ reconnectWorkers' = [reconnectWorkers EXCEPT ![d] = None]
    BY <1>2 DEF StopReconnect
  <2>2. w \in Worker /\ worker[d][w] \in WorkerStates /\ worker[d][w].at # "free"
    BY <1>2 DEF Workers, WorkerInv
  <2>3. worker' = [worker EXCEPT ![d] = [worker[d] EXCEPT ![w] = [worker[d][w] EXCEPT !.canceled = TRUE]]]
    BY <2>1, <2>2 DEF Workers
  <2>4. Workers'  BY <2>1, <2>2, <2>3, CanceledIsState DEF Workers
  <2>5. WorkerInv'  BY <2>1, <2>3 DEF WorkerInv, Workers
  <2> QED  BY <2>4, <2>5
<1> QED  BY <1>1, <1>2

-----------------------------------------------------------------------------
(* Every step keeps the invariant. *)

\* In a step that takes a handshake to s, end e gets its PeerConnection.
Makes(c, e, s) ==
    /\ stage[c][e] = "none"
    /\ stage' = [stage EXCEPT ![c][e] = "made"]
    /\ e = dialer[c] => s = "done"
    /\ e # dialer[c] => s \notin Early

\* What all steps of a handshake have in common: the connection goes on from a
\* state of the handshake, and at most one end, which had nothing, gets a
\* PeerConnection, its half of the handshake being over.
LEMMA HandshakeStep ==
    ASSUME Inv, NEW c \in Conn, NEW s \in WireStates, Progress(c, s),
           wire[c] \notin {"unused", "done"}, s # "unused", s \in Early => wire[c] \in Early,
           dialer' = dialer, connections' = connections,
           \A b \in Conn : closed[b] \subseteq closed'[b],
           \/ stage' = stage
           \/ \E e \in Device : Makes(c, e, s)
    PROVE  HandshakeInv' /\ RegistryInv' /\ EndedInv' /\ NoOrphan'
<1>1. CASE stage' = stage
  <2>1. HandshakeInv'  BY <1>1 DEF Inv, TypeOK, HandshakeInv, Early, Progress
  <2>2. RegistryInv' /\ EndedInv' /\ NoOrphan'
    BY <1>1 DEF Inv, RegistryInv, EndedInv, NoOrphan
  <2> QED  BY <2>1, <2>2
<1>2. ASSUME NEW e \in Device, Makes(c, e, s)
      PROVE  HandshakeInv' /\ RegistryInv' /\ EndedInv' /\ NoOrphan'
  <2>1. \A b \in Conn, d \in Device :
          stage'[b][d] = IF b = c /\ d = e THEN "made" ELSE stage[b][d]
    BY <1>2 DEF Inv, TypeOK, Makes
  <2>2. HandshakeInv'
    <3> SUFFICES ASSUME NEW b \in Conn
                 PROVE  /\ dialer[b] = None <=> wire'[b] = "unused"
                        /\ \A d \in Device :
                             \/ dialer[b] = d /\ wire'[b] # "done"
                             \/ dialer[b] # d /\ wire'[b] \in Early
                             => stage'[b][d] = "none"
      BY DEF HandshakeInv, Early
    <3>1. CASE b # c  BY <2>1, <3>1 DEF Inv, TypeOK, HandshakeInv, Progress
    <3>2. CASE b = c
      <4>1. wire'[b] = s  BY <3>2 DEF Inv, TypeOK, Progress
      <4> QED  BY <1>2, <2>1, <3>2, <4>1 DEF Inv, HandshakeInv, Makes
    <3> QED  BY <3>1, <3>2
  <2>3. RegistryInv'  BY <1>2, <2>1 DEF Inv, TypeOK, RegistryInv, Makes
  <2>4. EndedInv' /\ NoOrphan'  BY <1>2, <2>1 DEF Inv, TypeOK, EndedInv, NoOrphan, Makes
  <2> QED  BY <2>2, <2>3, <2>4
<1> QED  BY <1>1, <1>2

\* The variables a step of a handshake can change keep their types.
LEMMA HandshakeTypes ==
    ASSUME TypeOK, NEW c \in Conn, NEW s \in WireStates, Progress(c, s),
           closed' \in [Conn -> SUBSET Device], stage' \in [Conn -> [Device -> Stages]],
           pinned' \in [Device -> Key],
           UNCHANGED <<dialer, keys, identity, registryVars, workerVars, historyVars>>
    PROVE  TypeOK'
BY DEF TypeOK, Progress, registryVars, workerVars, historyVars

\* acceptLoop starts a handshake: no end gets a PeerConnection yet.
LEMMA AcceptKeeps ==
    ASSUME Inv, NEW c \in Conn, Accept(c)
    PROVE  Inv'
<1>1. dialer[c] \in Device /\ Listener(c) \in Device /\ Listener(c) # dialer[c]
  BY ListenerIsTheOther DEF Inv, TypeOK, HandshakeInv, Accept
<1>2. WorkerInv'  BY DEF Inv, WorkerInv, Accept, workerVars
<1>3. TypeOK'
  BY <1>1 DEF Inv, TypeOK, WireStates, Stages, Accept, Progress, registryVars, workerVars,
     historyVars
<1>4. HandshakeInv'  BY <1>1 DEF Inv, TypeOK, HandshakeInv, Early, Accept, Progress
<1>5. RegistryInv'  BY <1>1 DEF Inv, TypeOK, RegistryInv, Accept, registryVars
<1>6. EndedInv' /\ NoOrphan'  BY <1>1 DEF Inv, EndedInv, TypeOK, NoOrphan, Accept, registryVars
<1> QED  BY <1>2, <1>3, <1>4, <1>5, <1>6 DEF Inv

\* The listener closes a connection it does not accept.
LEMMA RefuseKeeps ==
    ASSUME Inv, NEW c \in Conn, Refuse(c)
    PROVE  Inv'
<1>1. dialer[c] \in Device /\ Listener(c) \in Device /\ Listener(c) # dialer[c]
  BY ListenerIsTheOther DEF Inv, TypeOK, HandshakeInv, Refuse
<1>2. WorkerInv'  BY DEF Inv, WorkerInv, Refuse, workerVars
<1>3. TypeOK'
  BY <1>1 DEF Inv, TypeOK, WireStates, Stages, Refuse, Progress, Close, registryVars,
     workerVars, historyVars
<1>4. HandshakeInv'  BY <1>1 DEF Inv, TypeOK, HandshakeInv, Early, Refuse, Progress
<1>5. RegistryInv'  BY <1>1 DEF Inv, TypeOK, RegistryInv, Refuse, registryVars
<1>6. EndedInv' /\ NoOrphan'
  BY <1>1 DEF Inv, EndedInv, TypeOK, NoOrphan, Refuse, Close, registryVars
<1> QED  BY <1>2, <1>3, <1>4, <1>5, <1>6 DEF Inv

\* The dialer answers the challenge.
LEMMA SendHandshakeKeeps ==
    ASSUME Inv, NEW c \in Conn, SendHandshake(c)
    PROVE  Inv'
<1>2. WorkerInv'  BY DEF Inv, WorkerInv, SendHandshake, workerVars
<1>3. TypeOK'
  BY DEF Inv, TypeOK, WireStates, Stages, SendHandshake, Progress, registryVars, workerVars,
     historyVars
<1>4. HandshakeInv'  BY DEF Inv, TypeOK, HandshakeInv, Early, SendHandshake, Progress
<1>5. RegistryInv'  BY DEF Inv, TypeOK, RegistryInv, SendHandshake, registryVars
<1>6. EndedInv' /\ NoOrphan'
  BY DEF Inv, EndedInv, TypeOK, NoOrphan, SendHandshake, registryVars
<1> QED  BY <1>2, <1>3, <1>4, <1>5, <1>6 DEF Inv

\* The listener checks the key: its end is made, asked about, or closed.
LEMMA VerifyHandshakeKeeps ==
    ASSUME Inv, NEW c \in Conn, VerifyHandshake(c)
    PROVE  Inv'
<1> DEFINE e == Listener(c)
<1>1. e \in Device /\ e # dialer[c]
  BY ListenerIsTheOther DEF Inv, TypeOK, HandshakeInv, VerifyHandshake
<1>2. stage[c][e] = "none"  BY <1>1 DEF Inv, HandshakeInv, Early, VerifyHandshake
<1>3. Trust(c, e) => pinned' \in [Device -> Key]
  BY <1>1, PeerIsTheOther DEF Inv, TypeOK, Trust
<1>4. WorkerInv'  BY DEF Inv, WorkerInv, VerifyHandshake, workerVars
<1>5. HandshakeInv' /\ RegistryInv' /\ EndedInv' /\ NoOrphan' /\ TypeOK'
  <2>1. CASE Progress(c, "asked") /\ UNCHANGED <<stage, closed>>
    <3>1. "asked" \in WireStates  BY DEF WireStates
    <3>2. closed' \in [Conn -> SUBSET Device] /\ \A b \in Conn : closed[b] \subseteq closed'[b]
      BY <1>1, <2>1 DEF Inv, TypeOK, Close
    <3>3. stage' \in [Conn -> [Device -> Stages]]
      BY <1>1, <2>1 DEF Inv, TypeOK, Stages, MoveTo
    <3>4. HandshakeInv' /\ RegistryInv' /\ EndedInv' /\ NoOrphan'
      BY <1>1, <1>2, <2>1, <3>1, <3>2, HandshakeStep DEF VerifyHandshake, Early, MoveTo, Makes, registryVars
    <3>5. pinned' \in [Device -> Key]  BY <1>3, <2>1 DEF VerifyHandshake, Inv, TypeOK
    <3>6. TypeOK'  BY <2>1, <3>1, <3>2, <3>3, <3>5, HandshakeTypes DEF VerifyHandshake, Inv
    <3> QED  BY <3>4, <3>6
  <2>2. CASE Progress(c, "response") /\ MoveTo(c, e, "made") /\ UNCHANGED closed
    <3>1. "response" \in WireStates  BY DEF WireStates
    <3>2. closed' \in [Conn -> SUBSET Device] /\ \A b \in Conn : closed[b] \subseteq closed'[b]
      BY <1>1, <2>2 DEF Inv, TypeOK, Close
    <3>3. stage' \in [Conn -> [Device -> Stages]]
      BY <1>1, <2>2 DEF Inv, TypeOK, Stages, MoveTo
    <3>4. HandshakeInv' /\ RegistryInv' /\ EndedInv' /\ NoOrphan'
      BY <1>1, <1>2, <2>2, <3>1, <3>2, HandshakeStep DEF VerifyHandshake, Early, MoveTo, Makes, registryVars
    <3>5. pinned' \in [Device -> Key]  BY <1>3, <2>2 DEF VerifyHandshake, Inv, TypeOK
    <3>6. TypeOK'  BY <2>2, <3>1, <3>2, <3>3, <3>5, HandshakeTypes DEF VerifyHandshake, Inv
    <3> QED  BY <3>4, <3>6
  <2>3. CASE Progress(c, "failed") /\ Close(c, e) /\ UNCHANGED stage
    <3>1. "failed" \in WireStates  BY DEF WireStates
    <3>2. closed' \in [Conn -> SUBSET Device] /\ \A b \in Conn : closed[b] \subseteq closed'[b]
      BY <1>1, <2>3 DEF Inv, TypeOK, Close
    <3>3. stage' \in [Conn -> [Device -> Stages]]
      BY <1>1, <2>3 DEF Inv, TypeOK, Stages, MoveTo
    <3>4. HandshakeInv' /\ RegistryInv' /\ EndedInv' /\ NoOrphan'
      BY <1>1, <1>2, <2>3, <3>1, <3>2, HandshakeStep DEF VerifyHandshake, Early, MoveTo, Makes, registryVars
    <3>5. pinned' \in [Device -> Key]  BY <1>3, <2>3 DEF VerifyHandshake, Inv, TypeOK
    <3>6. TypeOK'  BY <2>3, <3>1, <3>2, <3>3, <3>5, HandshakeTypes DEF VerifyHandshake, Inv
    <3> QED  BY <3>4, <3>6
  <2> QED  BY <2>1, <2>2, <2>3 DEF VerifyHandshake
<1> QED  BY <1>4, <1>5 DEF Inv

\* The answer to the prompt of the listener makes or closes its end.
LEMMA AnswerInboundKeeps ==
    ASSUME Inv, NEW c \in Conn, AnswerInbound(c)
    PROVE  Inv'
<1> DEFINE e == Listener(c)
<1>1. e \in Device /\ e # dialer[c]
  BY ListenerIsTheOther DEF Inv, TypeOK, HandshakeInv, AnswerInbound
<1>2. stage[c][e] = "none"  BY <1>1 DEF Inv, HandshakeInv, Early, AnswerInbound
<1>3. Trust(c, e) => pinned' \in [Device -> Key]
  BY <1>1, PeerIsTheOther DEF Inv, TypeOK, Trust
<1>4. WorkerInv'  BY DEF Inv, WorkerInv, AnswerInbound, workerVars
<1>5. HandshakeInv' /\ RegistryInv' /\ EndedInv' /\ NoOrphan' /\ TypeOK'
  <2>1. CASE Progress(c, "response") /\ MoveTo(c, e, "made") /\ UNCHANGED closed
    <3>1. "response" \in WireStates  BY DEF WireStates
    <3>2. closed' \in [Conn -> SUBSET Device] /\ \A b \in Conn : closed[b] \subseteq closed'[b]
      BY <1>1, <2>1 DEF Inv, TypeOK, Close
    <3>3. stage' \in [Conn -> [Device -> Stages]]
      BY <1>1, <2>1 DEF Inv, TypeOK, Stages, MoveTo
    <3>4. HandshakeInv' /\ RegistryInv' /\ EndedInv' /\ NoOrphan'
      BY <1>1, <1>2, <2>1, <3>1, <3>2, HandshakeStep DEF AnswerInbound, Early, MoveTo, Makes, registryVars
    <3>5. pinned' \in [Device -> Key]  BY <1>3, <2>1 DEF AnswerInbound, Inv, TypeOK
    <3>6. TypeOK'  BY <2>1, <3>1, <3>2, <3>3, <3>5, HandshakeTypes DEF AnswerInbound, Inv
    <3> QED  BY <3>4, <3>6
  <2>2. CASE Progress(c, "failed") /\ Close(c, e) /\ UNCHANGED stage
    <3>1. "failed" \in WireStates  BY DEF WireStates
    <3>2. closed' \in [Conn -> SUBSET Device] /\ \A b \in Conn : closed[b] \subseteq closed'[b]
      BY <1>1, <2>2 DEF Inv, TypeOK, Close
    <3>3. stage' \in [Conn -> [Device -> Stages]]
      BY <1>1, <2>2 DEF Inv, TypeOK, Stages, MoveTo
    <3>4. HandshakeInv' /\ RegistryInv' /\ EndedInv' /\ NoOrphan'
      BY <1>1, <1>2, <2>2, <3>1, <3>2, HandshakeStep DEF AnswerInbound, Early, MoveTo, Makes, registryVars
    <3>5. pinned' \in [Device -> Key]  BY <1>3, <2>2 DEF AnswerInbound, Inv, TypeOK
    <3>6. TypeOK'  BY <2>2, <3>1, <3>2, <3>3, <3>5, HandshakeTypes DEF AnswerInbound, Inv
    <3> QED  BY <3>4, <3>6
  <2> QED  BY <2>1, <2>2 DEF AnswerInbound
<1> QED  BY <1>4, <1>5 DEF Inv

\* The dialer checks the key: its end is made, or its user is asked.
LEMMA VerifyResponseKeeps ==
    ASSUME Inv, NEW c \in Conn, VerifyResponse(c)
    PROVE  Inv'
<1> DEFINE e == dialer[c]
<1>1. e \in Device  BY DEF Inv, TypeOK, HandshakeInv, VerifyResponse
<1>2. stage[c][e] = "none"  BY <1>1 DEF Inv, HandshakeInv, Early, VerifyResponse
<1>3. Trust(c, e) => pinned' \in [Device -> Key]
  BY <1>1, PeerIsTheOther DEF Inv, TypeOK, Trust
<1>4. WorkerInv'  BY DEF Inv, WorkerInv, VerifyResponse, workerVars
<1>5. HandshakeInv' /\ RegistryInv' /\ EndedInv' /\ NoOrphan' /\ TypeOK'
  <2>1. CASE Progress(c, "done") /\ MoveTo(c, e, "made")
    <3>1. "done" \in WireStates  BY DEF WireStates
    <3>2. closed' \in [Conn -> SUBSET Device] /\ \A b \in Conn : closed[b] \subseteq closed'[b]
      BY <1>1, <2>1 DEF Inv, TypeOK, VerifyResponse
    <3>3. stage' \in [Conn -> [Device -> Stages]]
      BY <1>1, <2>1 DEF Inv, TypeOK, Stages, MoveTo
    <3>4. HandshakeInv' /\ RegistryInv' /\ EndedInv' /\ NoOrphan'
      BY <1>1, <1>2, <2>1, <3>1, <3>2, HandshakeStep DEF VerifyResponse, Early, MoveTo, Makes, registryVars
    <3>5. pinned' \in [Device -> Key]  BY <1>3, <2>1 DEF VerifyResponse, Inv, TypeOK
    <3>6. TypeOK'  BY <2>1, <3>1, <3>2, <3>3, <3>5, HandshakeTypes DEF VerifyResponse, Inv
    <3> QED  BY <3>4, <3>6
  <2>2. CASE Progress(c, "asking") /\ UNCHANGED stage
    <3>1. "asking" \in WireStates  BY DEF WireStates
    <3>2. closed' \in [Conn -> SUBSET Device] /\ \A b \in Conn : closed[b] \subseteq closed'[b]
      BY <1>1, <2>2 DEF Inv, TypeOK, VerifyResponse
    <3>3. stage' \in [Conn -> [Device -> Stages]]
      BY <1>1, <2>2 DEF Inv, TypeOK, Stages, MoveTo
    <3>4. HandshakeInv' /\ RegistryInv' /\ EndedInv' /\ NoOrphan'
      BY <1>1, <1>2, <2>2, <3>1, <3>2, HandshakeStep DEF VerifyResponse, Early, MoveTo, Makes, registryVars
    <3>5. pinned' \in [Device -> Key]  BY <1>3, <2>2 DEF VerifyResponse, Inv, TypeOK
    <3>6. TypeOK'  BY <2>2, <3>1, <3>2, <3>3, <3>5, HandshakeTypes DEF VerifyResponse, Inv
    <3> QED  BY <3>4, <3>6
  <2> QED  BY <2>1, <2>2 DEF VerifyResponse
<1> QED  BY <1>4, <1>5 DEF Inv

\* The answer to the prompt of the dialer makes or closes its end.
LEMMA AnswerOutboundKeeps ==
    ASSUME Inv, NEW c \in Conn, AnswerOutbound(c)
    PROVE  Inv'
<1> DEFINE e == dialer[c]
<1>1. e \in Device  BY DEF Inv, TypeOK, HandshakeInv, AnswerOutbound
<1>2. stage[c][e] = "none"  BY <1>1 DEF Inv, HandshakeInv, Early, AnswerOutbound
<1>3. Trust(c, e) => pinned' \in [Device -> Key]
  BY <1>1, PeerIsTheOther DEF Inv, TypeOK, Trust
<1>4. WorkerInv'  BY DEF Inv, WorkerInv, AnswerOutbound, workerVars
<1>5. HandshakeInv' /\ RegistryInv' /\ EndedInv' /\ NoOrphan' /\ TypeOK'
  <2>1. CASE Progress(c, "done") /\ MoveTo(c, e, "made") /\ UNCHANGED closed
    <3>1. "done" \in WireStates  BY DEF WireStates
    <3>2. closed' \in [Conn -> SUBSET Device] /\ \A b \in Conn : closed[b] \subseteq closed'[b]
      BY <1>1, <2>1 DEF Inv, TypeOK, Close
    <3>3. stage' \in [Conn -> [Device -> Stages]]
      BY <1>1, <2>1 DEF Inv, TypeOK, Stages, MoveTo
    <3>4. HandshakeInv' /\ RegistryInv' /\ EndedInv' /\ NoOrphan'
      BY <1>1, <1>2, <2>1, <3>1, <3>2, HandshakeStep DEF AnswerOutbound, Early, MoveTo, Makes, registryVars
    <3>5. pinned' \in [Device -> Key]  BY <1>3, <2>1 DEF AnswerOutbound, Inv, TypeOK
    <3>6. TypeOK'  BY <2>1, <3>1, <3>2, <3>3, <3>5, HandshakeTypes DEF AnswerOutbound, Inv
    <3> QED  BY <3>4, <3>6
  <2>2. CASE Progress(c, "failed") /\ Close(c, e) /\ UNCHANGED stage
    <3>1. "failed" \in WireStates  BY DEF WireStates
    <3>2. closed' \in [Conn -> SUBSET Device] /\ \A b \in Conn : closed[b] \subseteq closed'[b]
      BY <1>1, <2>2 DEF Inv, TypeOK, Close
    <3>3. stage' \in [Conn -> [Device -> Stages]]
      BY <1>1, <2>2 DEF Inv, TypeOK, Stages, MoveTo
    <3>4. HandshakeInv' /\ RegistryInv' /\ EndedInv' /\ NoOrphan'
      BY <1>1, <1>2, <2>2, <3>1, <3>2, HandshakeStep DEF AnswerOutbound, Early, MoveTo, Makes, registryVars
    <3>5. pinned' \in [Device -> Key]  BY <1>3, <2>2 DEF AnswerOutbound, Inv, TypeOK
    <3>6. TypeOK'  BY <2>2, <3>1, <3>2, <3>3, <3>5, HandshakeTypes DEF AnswerOutbound, Inv
    <3> QED  BY <3>4, <3>6
  <2> QED  BY <2>1, <2>2 DEF AnswerOutbound
<1> QED  BY <1>4, <1>5 DEF Inv

\* Dial gives up and closes its end.
LEMMA DialFailsKeeps ==
    ASSUME Inv, NEW c \in Conn, DialFails(c)
    PROVE  Inv'
<1>1. dialer[c] \in Device  BY DEF Inv, TypeOK, HandshakeInv, DialFails
<1>2. WorkerInv'  BY DEF Inv, WorkerInv, DialFails, workerVars
<1>3. TypeOK'
  <2>1. closed' \in [Conn -> SUBSET Device]  BY <1>1 DEF Inv, TypeOK, DialFails, Close
  <2>2. wire' \in [Conn -> WireStates]  BY DEF Inv, TypeOK, WireStates, DialFails
  <2> QED  BY <2>1, <2>2 DEF Inv, TypeOK, DialFails, registryVars, workerVars, historyVars
<1>4. HandshakeInv'  BY DEF Inv, TypeOK, HandshakeInv, Early, DialFails
<1>5. RegistryInv'  BY DEF Inv, RegistryInv, DialFails, registryVars
<1>6. EndedInv' /\ NoOrphan'
  BY DEF Inv, EndedInv, TypeOK, NoOrphan, DialFails, Close, registryVars
<1> QED  BY <1>2, <1>3, <1>4, <1>5, <1>6 DEF Inv

\* registerConnection closes the connection it replaces.
LEMMA RegisterKeeps ==
    ASSUME Inv, NEW c \in Conn, NEW d \in Device, Register(c, d)
    PROVE  Inv'
<1>2. Workers' /\ WorkerInv'
  BY StopReconnectKeeps DEF Inv, TypeOK, Workers, Register, workerVars, WorkerInv
<1>3. TypeOK'
  BY <1>2 DEF Inv, TypeOK, WireStates, Stages, Workers, Register, MoveTo, handshakeVars
<1>4. HandshakeInv'  BY DEF Inv, TypeOK, HandshakeInv, Early, Register, MoveTo, handshakeVars
<1>5. RegistryInv'  BY DEF Inv, TypeOK, RegistryInv, Register, MoveTo
<1>6. EndedInv' /\ NoOrphan'  BY DEF Inv, EndedInv, TypeOK, NoOrphan, Register, MoveTo
<1> QED  BY <1>2, <1>3, <1>4, <1>5, <1>6 DEF Inv

\* persistPeerConnection and the start of the loop.
LEMMA PersistKeeps ==
    ASSUME Inv, NEW c \in Conn, NEW d \in Device, Persist(c, d)
    PROVE  Inv'
<1>2. WorkerInv'  BY DEF Inv, WorkerInv, Persist, workerVars
<1>3. TypeOK'
  BY DEF Inv, TypeOK, WireStates, Stages, Persist, MoveTo, handshakeVars, workerVars,
     historyVars
<1>4. HandshakeInv'  BY DEF Inv, TypeOK, HandshakeInv, Early, Persist, MoveTo, handshakeVars
<1>5. RegistryInv'  BY DEF Inv, TypeOK, RegistryInv, Persist, MoveTo
<1>6. EndedInv' /\ NoOrphan'  BY DEF Inv, EndedInv, TypeOK, NoOrphan, Persist, MoveTo
<1> QED  BY <1>2, <1>3, <1>4, <1>5, <1>6 DEF Inv

\* readLoop sees the end of the stream.
LEMMA SeeCloseKeeps ==
    ASSUME Inv, NEW c \in Conn, NEW d \in Device, SeeClose(c, d)
    PROVE  Inv'
<1>2. WorkerInv'  BY DEF Inv, WorkerInv, SeeClose, workerVars
<1>3. TypeOK'
  BY DEF Inv, TypeOK, WireStates, Stages, SeeClose, Close, handshakeVars, registryVars,
     workerVars, historyVars
<1>4. HandshakeInv'  BY DEF Inv, TypeOK, HandshakeInv, Early, SeeClose, handshakeVars
<1>5. RegistryInv'  BY DEF Inv, TypeOK, RegistryInv, SeeClose, registryVars
<1>6. EndedInv' /\ NoOrphan'
  BY DEF Inv, EndedInv, TypeOK, NoOrphan, SeeClose, Close, registryVars
<1> QED  BY <1>2, <1>3, <1>4, <1>5, <1>6 DEF Inv

\* connectionLoop takes out of the registry only what it put there.
LEMMA LoopEndsKeeps ==
    ASSUME Inv, NEW c \in Conn, NEW d \in Device, LoopEnds(c, d)
    PROVE  Inv'
<1>1. WorkerInv'  BY DEF Inv, WorkerInv, LoopEnds, workerVars
<1>2. CASE connections[d] = c
  <2>1. stage' = [stage EXCEPT ![c][d] = "unmapped"] /\ connections' = [connections EXCEPT ![d] = None]
    BY <1>2 DEF LoopEnds, MoveTo
  <2>2. TypeOK'
    BY <2>1 DEF Inv, TypeOK, Stages, LoopEnds, handshakeVars, workerVars, historyVars
  <2>3. HandshakeInv'
    BY <2>1 DEF Inv, TypeOK, HandshakeInv, LoopEnds, handshakeVars
  <2>4. RegistryInv'  BY <2>1 DEF Inv, TypeOK, RegistryInv
  <2>5. EndedInv' /\ NoOrphan'  BY <1>2, <2>1 DEF Inv, EndedInv, TypeOK, NoOrphan, LoopEnds
  <2> QED  BY <1>1, <2>2, <2>3, <2>4, <2>5 DEF Inv
<1>3. CASE connections[d] # c
  <2>1. stage' = [stage EXCEPT ![c][d] = "over"] /\ connections' = connections
    BY <1>3 DEF LoopEnds, MoveTo
  <2>2. TypeOK'
    BY <2>1 DEF Inv, TypeOK, Stages, LoopEnds, handshakeVars, workerVars, historyVars
  <2>3. HandshakeInv'
    BY <2>1 DEF Inv, TypeOK, HandshakeInv, LoopEnds, handshakeVars
  <2>4. RegistryInv'  BY <1>3, <2>1 DEF Inv, TypeOK, RegistryInv
  <2>5. EndedInv' /\ NoOrphan'  BY <2>1 DEF Inv, EndedInv, TypeOK, NoOrphan, LoopEnds
  <2> QED  BY <1>1, <2>2, <2>3, <2>4, <2>5 DEF Inv
<1> QED  BY <1>2, <1>3

\* The end of connectionLoop writes the status.
LEMMA MarkOfflineKeeps ==
    ASSUME Inv, NEW c \in Conn, NEW d \in Device, MarkOffline(c, d)
    PROVE  Inv'
<1>2. WorkerInv'  BY DEF Inv, WorkerInv, MarkOffline, workerVars
<1>3. TypeOK'
  BY DEF Inv, TypeOK, WireStates, Stages, MarkOffline, MoveTo, handshakeVars, workerVars,
     historyVars
<1>4. HandshakeInv'  BY DEF Inv, TypeOK, HandshakeInv, Early, MarkOffline, MoveTo, handshakeVars
<1>5. RegistryInv'  BY DEF Inv, TypeOK, RegistryInv, MarkOffline, MoveTo
<1>6. EndedInv' /\ NoOrphan'  BY DEF Inv, EndedInv, TypeOK, NoOrphan, MarkOffline, MoveTo
<1> QED  BY <1>2, <1>3, <1>4, <1>5, <1>6 DEF Inv

\* The end of connectionLoop consumes the mark of a disconnect.
LEMMA DecideReconnectKeeps ==
    ASSUME Inv, NEW c \in Conn, NEW d \in Device, DecideReconnect(c, d)
    PROVE  Inv'
<1>2. WorkerInv'  BY DEF Inv, WorkerInv, DecideReconnect, workerVars
<1>3. TypeOK'
  BY DEF Inv, TypeOK, WireStates, Stages, DecideReconnect, MoveTo, handshakeVars,
     workerVars, historyVars
<1>4. HandshakeInv'
  BY DEF Inv, TypeOK, HandshakeInv, Early, DecideReconnect, MoveTo, handshakeVars
<1>5. RegistryInv'  BY DEF Inv, TypeOK, RegistryInv, DecideReconnect, MoveTo
<1>6. EndedInv' /\ NoOrphan'  BY DEF Inv, EndedInv, TypeOK, NoOrphan, DecideReconnect, MoveTo
<1> QED  BY <1>2, <1>3, <1>4, <1>5, <1>6 DEF Inv

\* The end of connectionLoop starts a worker after the grace window.
LEMMA GraceEndsKeeps ==
    ASSUME Inv, NEW c \in Conn, NEW d \in Device, GraceEnds(c, d)
    PROVE  Inv'
<1>2. Workers' /\ WorkerInv'
  BY StartReconnectKeeps DEF Inv, TypeOK, Workers, GraceEnds, workerVars, WorkerInv
<1>3. TypeOK'
  BY <1>2 DEF Inv, TypeOK, WireStates, Stages, Workers, GraceEnds, MoveTo, handshakeVars,
     registryVars, workerVars, historyVars
<1>4. HandshakeInv'  BY DEF Inv, TypeOK, HandshakeInv, Early, GraceEnds, MoveTo, handshakeVars
<1>5. RegistryInv'  BY DEF Inv, TypeOK, RegistryInv, GraceEnds, MoveTo, registryVars
<1>6. EndedInv' /\ NoOrphan'
  BY DEF Inv, EndedInv, TypeOK, NoOrphan, GraceEnds, MoveTo, registryVars
<1> QED  BY <1>2, <1>3, <1>4, <1>5, <1>6 DEF Inv

\* The network ends a connection.
LEMMA LoseKeeps ==
    ASSUME Inv, NEW c \in Conn, NEW d \in Device, Lose(c, d)
    PROVE  Inv'
<1>2. WorkerInv'  BY DEF Inv, WorkerInv, Lose, workerVars
<1>3. TypeOK'
  BY DEF Inv, TypeOK, WireStates, Stages, Lose, Close, handshakeVars, registryVars,
     workerVars
<1>4. HandshakeInv'  BY DEF Inv, TypeOK, HandshakeInv, Early, Lose, handshakeVars
<1>5. RegistryInv'  BY DEF Inv, TypeOK, RegistryInv, Lose, registryVars
<1>6. EndedInv' /\ NoOrphan'  BY DEF Inv, EndedInv, TypeOK, NoOrphan, Lose, Close, registryVars
<1> QED  BY <1>2, <1>3, <1>4, <1>5, <1>6 DEF Inv

\* A worker dials a connection that was never used.
LEMMA WorkerFiresKeeps ==
    ASSUME Inv, NEW d \in Device, NEW w \in Worker, WorkerFires(d, w)
    PROVE  Inv'
<1> DEFINE s == worker[d][w]
<1>1. s \in WorkerStates  BY DEF Inv, TypeOK
<1>2. Workers' /\ WorkerInv'
  <2>1. PICK c \in Conn : worker' = [worker EXCEPT ![d][w].at = "dialing", ![d][w].conn = c]
    BY DEF WorkerFires, Fresh
  <2> DEFINE r == [s EXCEPT !.at = "dialing", !.conn = c]
  <2>2. r \in WorkerStates  BY <1>1, WorkerGoesOn DEF WorkerFires
  <2>3. r.at # "free"  BY <1>1, WorkerFields DEF WorkerRecords
  <2>4. worker' = [worker EXCEPT ![d][w] = r]  BY <2>1 DEF Inv, TypeOK
  <2> QED  BY <2>2, <2>3, <2>4, WorkerMoves DEF Inv, TypeOK, Workers, WorkerFires
<1>3. TypeOK'
  BY <1>2 DEF Inv, TypeOK, WireStates, Stages, Workers, WorkerFires, Open, Progress, Fresh,
     registryVars, historyVars
<1>4. HandshakeInv'  BY DEF Inv, TypeOK, HandshakeInv, Early, WorkerFires, Open, Progress, Fresh
<1>5. RegistryInv'  BY DEF Inv, TypeOK, RegistryInv, WorkerFires, registryVars
<1>6. EndedInv' /\ NoOrphan'  BY DEF Inv, EndedInv, TypeOK, NoOrphan, WorkerFires, registryVars
<1> QED  BY <1>2, <1>3, <1>4, <1>5, <1>6 DEF Inv

\* A canceled worker ends.
LEMMA WorkerStopsKeeps ==
    ASSUME Inv, NEW d \in Device, NEW w \in Worker, WorkerStops(d, w)
    PROVE  Inv'
<1> DEFINE s == worker[d][w]
<1>1. s \in WorkerStates  BY DEF Inv, TypeOK
<1>2. Workers' /\ WorkerInv'
  <2> DEFINE r == [s EXCEPT !.at = "ending"]
  <2>1. r \in WorkerStates  BY <1>1, WorkerGoesOn DEF WorkerStops
  <2>2. worker' = [worker EXCEPT ![d][w] = r]  BY DEF Inv, TypeOK, WorkerStops
  <2>3. r.at # "free"  BY <1>1, WorkerFields DEF WorkerRecords
  <2> QED  BY <2>1, <2>2, <2>3, WorkerMoves DEF Inv, TypeOK, Workers, WorkerStops
<1>3. TypeOK'
  BY <1>2 DEF Inv, TypeOK, WireStates, Stages, Workers, WorkerStops, handshakeVars,
     registryVars, historyVars
<1>4. HandshakeInv'  BY DEF Inv, TypeOK, HandshakeInv, Early, WorkerStops, handshakeVars
<1>5. RegistryInv'  BY DEF Inv, TypeOK, RegistryInv, WorkerStops, registryVars
<1>6. EndedInv' /\ NoOrphan'  BY DEF Inv, EndedInv, TypeOK, NoOrphan, WorkerStops, registryVars
<1> QED  BY <1>2, <1>3, <1>4, <1>5, <1>6 DEF Inv

\* A worker whose dial failed has an attempt less.
LEMMA WorkerFailsKeeps ==
    ASSUME Inv, NEW d \in Device, NEW w \in Worker, WorkerFails(d, w)
    PROVE  Inv'
<1> DEFINE s == worker[d][w]
<1>1. s \in WorkerStates  BY DEF Inv, TypeOK
<1>2. Workers' /\ WorkerInv'
  <2> DEFINE n == s.attempt + 1
             at == IF GivesUp(n) THEN "ending" ELSE "waiting"
             r == [s EXCEPT !.at = at, !.conn = None, !.attempt = n]
  <2>1. r \in WorkerStates  BY <1>1, WorkerTriesAgain DEF WorkerFails
  <2>2. r.at # "free"  BY <1>1, WorkerFields DEF WorkerRecords
  <2>3. worker' = [worker EXCEPT ![d][w] = r]  BY DEF Inv, TypeOK, WorkerFails
  <2>4. Workers /\ WorkerInv /\ reconnectWorkers' = reconnectWorkers
    BY DEF Inv, TypeOK, Workers, WorkerFails
  <2> HIDE DEF r
  <2> QED  BY <2>1, <2>2, <2>3, <2>4, WorkerMoves
<1>3. TypeOK'
  BY <1>2 DEF Inv, TypeOK, WireStates, Stages, Workers, WorkerFails, handshakeVars,
     registryVars, historyVars
<1>4. HandshakeInv'  BY DEF Inv, TypeOK, HandshakeInv, Early, WorkerFails, handshakeVars
<1>5. RegistryInv'  BY DEF Inv, TypeOK, RegistryInv, WorkerFails, registryVars
<1>6. EndedInv' /\ NoOrphan'  BY DEF Inv, EndedInv, TypeOK, NoOrphan, WorkerFails, registryVars
<1> QED  BY <1>2, <1>3, <1>4, <1>5, <1>6 DEF Inv

\* A worker whose dial was registered ends.
LEMMA WorkerSucceedsKeeps ==
    ASSUME Inv, NEW d \in Device, NEW w \in Worker, WorkerSucceeds(d, w)
    PROVE  Inv'
<1> DEFINE s == worker[d][w]
<1>1. s \in WorkerStates  BY DEF Inv, TypeOK
<1>2. Workers' /\ WorkerInv'
  <2> DEFINE r == [s EXCEPT !.at = "ending", !.conn = None]
  <2>1. r \in WorkerStates  BY <1>1, WorkerGoesOn DEF WorkerSucceeds
  <2>2. worker' = [worker EXCEPT ![d][w] = r]
    <3>1. worker' = [worker EXCEPT ![d][w].at = "ending", ![d][w].conn = None]
      BY DEF WorkerSucceeds
    <3>2. worker \in [Device -> [Worker -> WorkerStates]]  BY DEF Inv, TypeOK
    <3>3. worker' = [worker EXCEPT ![d] = [worker[d] EXCEPT ![w] = r]]  BY <3>1, <3>2
    <3> QED  BY <3>2, <3>3
  <2>3. r.at # "free"  BY <1>1, WorkerFields DEF WorkerRecords
  <2>4. Workers /\ WorkerInv /\ reconnectWorkers' = reconnectWorkers
    BY DEF Inv, TypeOK, Workers, WorkerSucceeds
  <2> HIDE DEF r
  <2> QED  BY <2>1, <2>2, <2>3, <2>4, WorkerMoves
<1>3. TypeOK'
  BY <1>2 DEF Inv, TypeOK, WireStates, Stages, Workers, WorkerSucceeds, handshakeVars,
     registryVars, historyVars
<1>4. HandshakeInv'  BY DEF Inv, TypeOK, HandshakeInv, Early, WorkerSucceeds, handshakeVars
<1>5. RegistryInv'  BY DEF Inv, TypeOK, RegistryInv, WorkerSucceeds, registryVars
<1>6. EndedInv' /\ NoOrphan'
  BY DEF Inv, EndedInv, TypeOK, NoOrphan, WorkerSucceeds, registryVars
<1> QED  BY <1>2, <1>3, <1>4, <1>5, <1>6 DEF Inv

\* A worker deletes the entry of its device, so that no entry is left without its worker.
LEMMA WorkerEndsKeeps ==
    ASSUME Inv, NEW d \in Device, NEW w \in Worker, WorkerEnds(d, w)
    PROVE  Inv'
<1>1. Idle \in WorkerStates  BY DEF WorkerStates
<1>2. Workers' /\ WorkerInv'
  <2>1. worker' = [worker EXCEPT ![d] = [worker[d] EXCEPT ![w] = Idle]]
    BY DEF Inv, TypeOK, WorkerEnds
  <2>2. Workers'  BY <1>1, <2>1 DEF Inv, TypeOK, Workers, WorkerEnds
  <2>3. WorkerInv'  BY <2>1 DEF Inv, TypeOK, WorkerInv, WorkerEnds
  <2> QED  BY <2>2, <2>3
<1>3. TypeOK'
  BY <1>2 DEF Inv, TypeOK, WireStates, Stages, Workers, WorkerEnds, handshakeVars,
     registryVars, historyVars
<1>4. HandshakeInv'  BY DEF Inv, TypeOK, HandshakeInv, Early, WorkerEnds, handshakeVars
<1>5. RegistryInv'  BY DEF Inv, TypeOK, RegistryInv, WorkerEnds, registryVars
<1>6. EndedInv' /\ NoOrphan'  BY DEF Inv, EndedInv, TypeOK, NoOrphan, WorkerEnds, registryVars
<1> QED  BY <1>2, <1>3, <1>4, <1>5, <1>6 DEF Inv

\* A user dials a connection that was never used.
LEMMA ConnectKeeps ==
    ASSUME Inv, NEW d \in Device, Connect(d)
    PROVE  Inv'
<1>1. PICK c \in Conn : dialer[c] = None /\ Open(c, d)  BY DEF Connect, Fresh
<1>2. WorkerInv'  BY DEF Inv, WorkerInv, Connect, workerVars
<1>3. TypeOK'
  BY <1>1 DEF Inv, TypeOK, WireStates, Connect, Open, Progress, registryVars, workerVars
<1>4. HandshakeInv'
  <2>1. \A e \in Device : stage[c][e] = "none"  BY <1>1 DEF Inv, TypeOK, HandshakeInv, Early
  <2> QED  BY <1>1, <2>1 DEF Inv, TypeOK, HandshakeInv, Connect, Open, Progress
<1>5. RegistryInv'  BY DEF Inv, RegistryInv, Connect, registryVars
<1>6. EndedInv' /\ NoOrphan'  BY DEF Inv, EndedInv, NoOrphan, Connect, registryVars
<1> QED  BY <1>2, <1>3, <1>4, <1>5, <1>6 DEF Inv

\* A manual disconnect closes the session.
LEMMA SendPeerDisconnectKeeps ==
    ASSUME Inv, NEW d \in Device, SendPeerDisconnect(d)
    PROVE  Inv'
<1>2. WorkerInv'  BY DEF Inv, WorkerInv, SendPeerDisconnect, workerVars
<1>3. TypeOK'
  <2>1. connections[d] \in Conn  BY DEF Inv, TypeOK, SendPeerDisconnect
  <2>2. closed' \in [Conn -> SUBSET Device]  BY <2>1 DEF Inv, TypeOK, SendPeerDisconnect, Close
  <2>3. acts' \in Nat  BY DEF Inv, TypeOK, SendPeerDisconnect
  <2> QED  BY <2>2, <2>3 DEF Inv, TypeOK, SendPeerDisconnect, handshakeVars, workerVars
<1>4. HandshakeInv'  BY DEF Inv, TypeOK, HandshakeInv, Early, SendPeerDisconnect, handshakeVars
<1>5. RegistryInv'  BY DEF Inv, TypeOK, RegistryInv, SendPeerDisconnect
<1>6. EndedInv' /\ NoOrphan'  BY DEF Inv, EndedInv, TypeOK, NoOrphan, SendPeerDisconnect, Close
<1> QED  BY <1>2, <1>3, <1>4, <1>5, <1>6 DEF Inv

\* A discovered peer gets a worker.
LEMMA DiscoverKeeps ==
    ASSUME Inv, NEW d \in Device, Discover(d)
    PROVE  Inv'
<1>2. Workers' /\ WorkerInv'
  BY StartReconnectKeeps DEF Inv, TypeOK, Workers, Discover, workerVars, WorkerInv
<1>3. TypeOK'
  <2>1. owed' \in [Device -> BOOLEAN]  BY DEF Inv, TypeOK, Discover
  <2>2. acts' \in Nat  BY DEF Inv, TypeOK, Discover
  <2> QED  BY <1>2, <2>1, <2>2 DEF Inv, TypeOK, Workers, Discover, handshakeVars, registryVars
<1>4. HandshakeInv'  BY DEF Inv, TypeOK, HandshakeInv, Early, Discover, handshakeVars
<1>5. RegistryInv'  BY DEF Inv, TypeOK, RegistryInv, Discover, registryVars
<1>6. EndedInv' /\ NoOrphan'  BY DEF Inv, EndedInv, TypeOK, NoOrphan, Discover, registryVars
<1> QED  BY <1>2, <1>3, <1>4, <1>5, <1>6 DEF Inv

\* Stop and Start: what the device had is closed and out of the registry.
LEMMA RestartKeeps ==
    ASSUME Inv, NEW d \in Device, NEW k \in Key, Restart(d, k)
    PROVE  Inv'
<1>1. Idle \in WorkerStates  BY DEF WorkerStates
<1>2. Workers' /\ WorkerInv'
  <2>1. CASE status'[d] = "online"
    <3>1. PICK w \in Worker :
            /\ worker' = [worker EXCEPT ![d] = [v \in Worker |->
                            IF v = w THEN [Idle EXCEPT !.at = "waiting"] ELSE Idle]]
            /\ reconnectWorkers' = [reconnectWorkers EXCEPT ![d] = w]
      BY <2>1 DEF Restart, Start
    <3>2. Workers'  BY <1>1, <3>1, WaitingIsState DEF Inv, TypeOK, Workers
    <3>3. [Idle EXCEPT !.at = "waiting"].at # "free"  BY DEF Idle
    <3>4. WorkerInv'  BY <3>1, <3>3 DEF Inv, TypeOK, WorkerInv
    <3> QED  BY <3>2, <3>4
  <2>2. CASE status'[d] # "online"
    <3>1. /\ worker' = [worker EXCEPT ![d] = [v \in Worker |-> Idle]]
          /\ reconnectWorkers' = [reconnectWorkers EXCEPT ![d] = None]
      BY <2>2 DEF Restart, Start
    <3>2. Workers'  BY <1>1, <3>1 DEF Inv, TypeOK, Workers
    <3>3. WorkerInv'  BY <3>1 DEF Inv, TypeOK, WorkerInv
    <3> QED  BY <3>2, <3>3
  <2> QED  BY <2>1, <2>2
<1>3. \A c \in Conn, e \in Device :
        stage'[c][e] = IF e # d THEN stage[c][e]
                       ELSE IF stage[c][e] \in {"none", "made"} THEN "none" ELSE "over"
  BY DEF Inv, TypeOK, Restart, Stop
<1>4. TypeOK'
  <2>1. closed' \in [Conn -> SUBSET Device]  BY DEF Inv, TypeOK, Restart, Stop
  <2>2. stage' \in [Conn -> [Device -> Stages]]  BY DEF Inv, TypeOK, Stages, Restart, Stop
  <2>3. status' \in [Device -> {"online", "offline"}]  BY DEF Inv, TypeOK, Restart, Stop
  <2>4. connections' \in [Device -> Conn \cup {None}] /\ suppressReconnect' \in [Device -> BOOLEAN]
    BY DEF Inv, TypeOK, Restart, Stop
  <2>5. owed' \in [Device -> BOOLEAN] /\ identity' \in [Device -> Key] /\ faults' \in Nat
    BY DEF Inv, TypeOK, Restart
  <2> QED  BY <1>2, <2>1, <2>2, <2>3, <2>4, <2>5 DEF Inv, TypeOK, Workers, Restart
<1>5. HandshakeInv'
  <2>1. dialer' = dialer /\ wire' = wire  BY DEF Restart
  <2>2. \A c \in Conn, e \in Device : stage[c][e] = "none" => stage'[c][e] = "none"
    BY <1>3
  <2> QED  BY <2>1, <2>2 DEF Inv, HandshakeInv
<1>6. RegistryInv'  BY <1>3 DEF Inv, TypeOK, RegistryInv, Restart, Stop
<1>7. EndedInv' /\ NoOrphan'
  <2>1. \A c \in Conn : closed[c] \subseteq closed'[c]  BY DEF Inv, TypeOK, Restart, Stop
  <2>2. \A e \in Device : e # d => connections'[e] = connections[e]
    BY DEF Inv, TypeOK, Restart, Stop
  <2>3. \A c \in Conn : stage'[c][d] = "over" => d \in closed'[c]
    <3> SUFFICES ASSUME NEW c \in Conn, stage[c][d] \notin {"none", "made"}
                 PROVE  d \in closed'[c]
      BY <1>3
    <3>1. dialer[c] = d \/ wire[c] \notin Early  BY DEF Inv, HandshakeInv
    <3> QED  BY <3>1 DEF Inv, TypeOK, Early, Restart, Stop
  <2> QED  BY <1>3, <2>1, <2>2, <2>3 DEF Inv, EndedInv, NoOrphan
<1> QED  BY <1>2, <1>4, <1>5, <1>6, <1>7 DEF Inv

-----------------------------------------------------------------------------
(* The invariant holds in every reachable state. *)

\* The invariant holds when both devices start.
LEMMA InitInv ==
    ASSUME Init
    PROVE  Inv
<1>1. Idle \in WorkerStates  BY DEF WorkerStates
<1>2. (CHOOSE k \in Key : TRUE) \in Key  BY SomeKey
<1>3. identity \in [Device -> Key]  BY <1>2 DEF Init
<1>4. pinned \in [Device -> Key]  BY <1>3, PeerIsTheOther DEF Init
<1>5. TypeOK  BY <1>1, <1>3, <1>4 DEF Init, TypeOK, WireStates, Stages
<1>6. HandshakeInv  BY DEF Init, HandshakeInv, Early
<1>7. RegistryInv /\ WorkerInv /\ EndedInv /\ NoOrphan
  BY DEF Init, RegistryInv, WorkerInv, EndedInv, NoOrphan
<1> QED  BY <1>5, <1>6, <1>7 DEF Inv

\* Every step of the two devices keeps it.
LEMMA NextInv ==
    ASSUME Inv, [Next]_vars
    PROVE  Inv'
<1>1. ASSUME NEW c \in Conn, Handshake(c)
      PROVE  Inv'
  BY <1>1, AcceptKeeps, RefuseKeeps, SendHandshakeKeeps, VerifyHandshakeKeeps,
     AnswerInboundKeeps, VerifyResponseKeeps, AnswerOutboundKeeps, DialFailsKeeps DEF Handshake
<1>2. ASSUME NEW c \in Conn, NEW d \in Device, Life(c, d)
      PROVE  Inv'
  BY <1>2, RegisterKeeps, PersistKeeps, SeeCloseKeeps, LoopEndsKeeps, MarkOfflineKeeps,
     DecideReconnectKeeps, GraceEndsKeeps DEF Life
<1>3. ASSUME NEW d \in Device, NEW w \in Worker, Reconnect(d, w)
      PROVE  Inv'
  BY <1>3, WorkerFiresKeeps, WorkerStopsKeeps, WorkerFailsKeeps, WorkerSucceedsKeeps,
     WorkerEndsKeeps DEF Reconnect
<1>4. ASSUME NEW d \in Device, Outside(d)
      PROVE  Inv'
  BY <1>4, ConnectKeeps, SendPeerDisconnectKeeps, DiscoverKeeps, LoseKeeps, RestartKeeps
     DEF Outside
<1>5. CASE UNCHANGED vars
  BY <1>5 DEF Inv, TypeOK, HandshakeInv, RegistryInv, WorkerInv, EndedInv, NoOrphan, vars,
              handshakeVars, registryVars, workerVars, historyVars
<1> QED  BY <1>1, <1>2, <1>3, <1>4, <1>5 DEF Next

\* The invariant holds in every reachable state.
THEOREM InvariantHolds == Spec => []Inv
<1>1. Init => Inv  BY InitInv
<1>2. Inv /\ [Next]_vars => Inv'  BY NextInv
<1> QED  BY <1>1, <1>2, PTL DEF Spec

\* The variables keep their types; in particular no worker waits or dials after
\* its last attempt (startReconnect).
THEOREM TypeCorrect == Spec => []TypeOK
<1>1. Inv => TypeOK  BY DEF Inv
<1> QED  BY <1>1, InvariantHolds, PTL

\* However dials, replacements, endings and restarts cross, a registered
\* connection that is open is the one in the registry (registerConnection,
\* connectionLoop).
THEOREM NoConnectionIsOrphaned == Spec => []NoOrphan
<1>1. Inv => NoOrphan  BY DEF Inv
<1> QED  BY <1>1, InvariantHolds, PTL

-----------------------------------------------------------------------------
(* A lost session is pursued. *)

\* A reconnect worker that will bring the device a connection, or use its
\* attempts up: what it dials is not registered yet.
Seeking(d, w) ==
    /\ ~ worker[d][w].canceled
    /\ \/ worker[d][w].at = "waiting"
       \/ worker[d][w].at = "dialing" /\ stage[worker[d][w].conn][d] \in {"none", "made"}

\* A connection that is out of the registry, and whose loop may start a worker.
Leaving(d) == \E c \in Conn : stage[c][d] \in {"unmapped", "offline", "grace"}

\* The worker that is registered seeks, so that nobody needs to start another;
\* and without any, the session is there or its loop has still to look.
Pursued(d) ==
    owed[d] =>
       /\ \A w \in Worker : reconnectWorkers[d] = w => Seeking(d, w)
       /\ \/ \E w \in Worker : Seeking(d, w)
          \/ ~ suppressReconnect[d] /\ (connections[d] # None \/ Leaving(d))

PursuitInv == \A d \in Device : Pursued(d)

\* A worker dials a connection.
LEMMA DialedIsConn ==
    ASSUME NEW s \in WorkerStates, s.at = "dialing"
    PROVE  s.conn \in Conn
BY DEF WorkerStates, Idle

\* A worker that is left alone seeks as long as its connection is not registered.
LEMMA StillSeeking ==
    ASSUME TypeOK, NEW d \in Device, NEW w \in Worker, worker'[d][w] = worker[d][w], Seeking(d, w),
           \A c \in Conn : stage[c][d] \in {"none", "made"} => stage'[c][d] \in {"none", "made"}
    PROVE  Seeking(d, w)'
<1>1. worker[d][w] \in WorkerStates  BY DEF TypeOK
<1> QED  BY <1>1, DialedIsConn DEF Seeking

\* A step that leaves the workers and the registry of a device alone, and takes
\* none of its connections out or on from the registry.
LEMMA PursuitStays ==
    ASSUME TypeOK, NEW d \in Device, Pursued(d), owed'[d] => owed[d],
           worker'[d] = worker[d], reconnectWorkers'[d] = reconnectWorkers[d],
           suppressReconnect'[d] = suppressReconnect[d],
           connections[d] # None \/ Leaving(d) => connections'[d] # None \/ Leaving(d)',
           \A c \in Conn : stage[c][d] \in {"none", "made"} => stage'[c][d] \in {"none", "made"}
    PROVE  Pursued(d)'
<1>1. \A w \in Worker : Seeking(d, w) => Seeking(d, w)'  BY StillSeeking
<1>2. reconnectWorkers[d] \in Worker \cup {None}  BY DEF TypeOK
<1> QED  BY <1>1, <1>2 DEF Pursued

\* The same of a device that has no part in the step.
LEMMA OtherDevice ==
    ASSUME TypeOK, NEW d \in Device, Pursued(d), owed'[d] = owed[d],
           worker'[d] = worker[d], reconnectWorkers'[d] = reconnectWorkers[d],
           suppressReconnect'[d] = suppressReconnect[d], connections'[d] = connections[d],
           \A c \in Conn : stage'[c][d] = stage[c][d]
    PROVE  Pursued(d)'
<1>1. Leaving(d) => Leaving(d)'  BY DEF Leaving
<1> QED  BY <1>1, PursuitStays

\* A device whose registered worker seeks.
LEMMA Registered ==
    ASSUME NEW d \in Device, NEW w \in Worker, reconnectWorkers'[d] = w, owed'[d] => Seeking(d, w)'
    PROVE  Pursued(d)'
<1>1. \A v \in Worker : reconnectWorkers'[d] = v => v = w  OBVIOUS
<1> QED  BY <1>1 DEF Pursued

\* A handshake makes a PeerConnection where there was none.
LEMMA HandshakePursues ==
    ASSUME Inv, PursuitInv, NEW c \in Conn, Handshake(c)
    PROVE  PursuitInv'
<1>1. dialer[c] \in Device /\ Listener(c) \in Device /\ Listener(c) # dialer[c]
  <2>1. wire[c] # "unused"
    BY DEF Handshake, Accept, Refuse, SendHandshake, VerifyHandshake, AnswerInbound,
           VerifyResponse, AnswerOutbound, DialFails
  <2> QED  BY <2>1, ListenerIsTheOther DEF Inv, TypeOK, HandshakeInv
<1>2. UNCHANGED <<connections, suppressReconnect, reconnectWorkers, worker, owed>>
  BY DEF Handshake, Accept, Refuse, SendHandshake, VerifyHandshake, AnswerInbound,
         VerifyResponse, AnswerOutbound, DialFails, registryVars, workerVars, historyVars
<1>3. \/ stage' = stage
      \/ stage' = [stage EXCEPT ![c][dialer[c]] = "made"] /\ wire[c] \in {"response", "asking"}
      \/ stage' = [stage EXCEPT ![c][Listener(c)] = "made"] /\ wire[c] \in {"hello", "asked"}
  BY DEF Handshake, Accept, Refuse, SendHandshake, VerifyHandshake, AnswerInbound,
         VerifyResponse, AnswerOutbound, DialFails, MoveTo
<1>4. \A b \in Conn, d \in Device :
        stage'[b][d] = stage[b][d] \/ (stage[b][d] = "none" /\ stage'[b][d] = "made")
  <2>1. wire[c] # "done" => stage[c][dialer[c]] = "none"
    BY <1>1 DEF Inv, HandshakeInv
  <2>2. wire[c] \in Early => stage[c][Listener(c)] = "none"
    BY <1>1 DEF Inv, HandshakeInv
  <2>3. CASE stage' = stage  BY <2>3
  <2>4. CASE stage' = [stage EXCEPT ![c][dialer[c]] = "made"] /\ wire[c] \in {"response", "asking"}
    BY <1>1, <2>1, <2>4 DEF Inv, TypeOK
  <2>5. CASE stage' = [stage EXCEPT ![c][Listener(c)] = "made"] /\ wire[c] \in {"hello", "asked"}
    <3>1. stage[c][Listener(c)] = "none"  BY <2>2, <2>5 DEF Early
    <3> QED  BY <1>1, <2>5, <3>1 DEF Inv, TypeOK
  <2> QED  BY <1>3, <2>3, <2>4, <2>5
<1>5. ASSUME NEW d \in Device  PROVE Pursued(d)'
  <2>1. Leaving(d) => Leaving(d)'  BY <1>4 DEF Leaving
  <2>2. \A b \in Conn : stage[b][d] \in {"none", "made"} => stage'[b][d] \in {"none", "made"}
    BY <1>4
  <2> QED  BY <1>2, <2>1, <2>2, PursuitStays DEF Inv, PursuitInv
<1> QED  BY <1>5 DEF PursuitInv

\* startReconnect leaves the device with a worker that seeks and is registered,
\* if it has none registered, and touches no other.
LEMMA StartSeeks ==
    ASSUME TypeOK, NEW d \in Device, StartReconnect(d)
    PROVE  /\ \A e \in Device \ {d} : worker'[e] = worker[e] /\ reconnectWorkers'[e] = reconnectWorkers[e]
           /\ reconnectWorkers[d] # None => worker' = worker /\ reconnectWorkers' = reconnectWorkers
           /\ reconnectWorkers[d] = None =>
                \E w \in Worker : reconnectWorkers'[d] = w /\ Seeking(d, w)'
<1>1. CASE reconnectWorkers[d] # None  BY <1>1 DEF StartReconnect, workerVars
<1>2. CASE reconnectWorkers[d] = None
  <2>1. PICK w \in Worker :
          /\ worker[d][w] = Idle
          /\ worker' = [worker EXCEPT ![d][w].at = "waiting"]
          /\ reconnectWorkers' = [reconnectWorkers EXCEPT ![d] = w]
    BY <1>2 DEF StartReconnect
  <2>2. /\ worker'[d][w] = [Idle EXCEPT !.at = "waiting"]
        /\ \A v \in Worker \ {w} : worker'[d][v] = worker[d][v]
        /\ \A e \in Device \ {d} : worker'[e] = worker[e]
    BY <2>1 DEF TypeOK
  <2>3. /\ reconnectWorkers'[d] = w
        /\ \A e \in Device \ {d} : reconnectWorkers'[e] = reconnectWorkers[e]
    BY <2>1 DEF TypeOK
  <2>4. Seeking(d, w)'  BY <2>2 DEF Seeking, Idle
  <2> QED  BY <1>2, <2>2, <2>3, <2>4
<1> QED  BY <1>1, <1>2

\* In the life of a registered connection the loop looks before it ends.
LEMMA LifePursues ==
    ASSUME Inv, PursuitInv, NEW c \in Conn, NEW d \in Device, Life(c, d)
    PROVE  PursuitInv'
<1>t. TypeOK  BY DEF Inv
<1>p. Pursued(d)  BY DEF PursuitInv
<1>s. \A b \in Conn, e \in Device : stage[b][e] \in Stages  BY <1>t DEF TypeOK
\* A step that moves the connection from one stage to another.
<1>m. ASSUME NEW s, MoveTo(c, d, s)
      PROVE  /\ stage'[c][d] = s
             /\ \A b \in Conn, e \in Device : b # c \/ e # d => stage'[b][e] = stage[b][e]
  BY <1>m, <1>t DEF MoveTo, TypeOK
\* The other device.
<1>o. ASSUME NEW e \in Device, e # d  PROVE Pursued(e)'
  <2>1. \A b \in Conn : stage'[b][e] = stage[b][e]
    BY <1>m, <1>o DEF Life, Register, Persist, SeeClose, LoopEnds, MarkOffline, DecideReconnect, GraceEnds
  <2>2. /\ connections'[e] = connections[e] /\ suppressReconnect'[e] = suppressReconnect[e]
        /\ owed'[e] = owed[e]
    BY <1>o, <1>t
    DEF Life, Register, Persist, SeeClose, LoopEnds, MarkOffline, DecideReconnect, GraceEnds,
        registryVars, historyVars, TypeOK
  <2>3. worker'[e] = worker[e] /\ reconnectWorkers'[e] = reconnectWorkers[e]
    <3>1. CASE Register(c, d)  BY <1>o, <1>t, <3>1 DEF Register, StopReconnect, workerVars, TypeOK
    <3>2. CASE GraceEnds(c, d)
      BY <1>o, <1>t, <3>2 DEF GraceEnds, StartReconnect, workerVars, TypeOK
    <3>3. CASE ~ Register(c, d) /\ ~ GraceEnds(c, d)
      BY <3>3 DEF Life, Persist, SeeClose, LoopEnds, MarkOffline, DecideReconnect, workerVars
    <3> QED  BY <3>1, <3>2, <3>3
  <2>4. Pursued(e)  BY DEF PursuitInv
  <2> QED  BY <1>t, <2>1, <2>2, <2>3, <2>4, OtherDevice
<1>d. SUFFICES Pursued(d)'  BY <1>o DEF PursuitInv
\* The device itself, when its workers are left alone.
<1>k. ASSUME NEW s \in Stages \ {"none", "made"}, MoveTo(c, d, s), stage[c][d] \notin {"none", "made"},
             UNCHANGED <<worker, reconnectWorkers, owed>>,
             suppressReconnect'[d] = suppressReconnect[d],
             connections[d] # None \/ Leaving(d) => connections'[d] # None \/ Leaving(d)'
      PROVE  Pursued(d)'
  <2>1. \A b \in Conn : stage[b][d] \in {"none", "made"} => stage'[b][d] \in {"none", "made"}
    BY <1>k, <1>m
  <2> QED  BY <1>k, <1>p, <1>t, <2>1, PursuitStays
<1>1. CASE Register(c, d)
  <2>1. connections'[d] = c /\ owed'[d] = ~ suppressReconnect[d] /\ suppressReconnect' = suppressReconnect
    BY <1>1, <1>t DEF Register, TypeOK
  <2>2. reconnectWorkers'[d] = None
    BY <1>1, <1>t DEF Register, StopReconnect, workerVars, TypeOK
  <2>3. c # None  OBVIOUS
  <2> QED  BY <2>1, <2>2, <2>3 DEF Pursued
<1>2. CASE Persist(c, d)
  <2>1. MoveTo(c, d, "open") /\ stage[c][d] = "mapped"  BY <1>2 DEF Persist
  <2>2. Leaving(d) => Leaving(d)'
    <3>1. ASSUME NEW b \in Conn, stage[b][d] \in {"unmapped", "offline", "grace"}
          PROVE  stage'[b][d] = stage[b][d]
      BY <1>m, <2>1, <3>1
    <3> QED  BY <3>1 DEF Leaving
  <2> QED  BY <1>2, <1>k, <2>1, <2>2 DEF Persist, workerVars, historyVars, Stages
<1>3. CASE SeeClose(c, d)
  <2>1. UNCHANGED <<stage, worker, reconnectWorkers, owed, suppressReconnect, connections>>
    BY <1>3 DEF SeeClose, registryVars, workerVars, historyVars
  <2> QED  BY <1>p, <1>t, <2>1, OtherDevice
<1>4. CASE LoopEnds(c, d)
  <2>1. stage[c][d] = "open" /\ UNCHANGED <<worker, reconnectWorkers, owed, suppressReconnect>>
    BY <1>4 DEF LoopEnds, workerVars, historyVars
  <2>2. CASE connections[d] = c
    <3>1. MoveTo(c, d, "unmapped")  BY <1>4, <2>2 DEF LoopEnds
    <3>2. Leaving(d)'  BY <1>m, <3>1 DEF Leaving
    <3> QED  BY <1>k, <2>1, <3>1, <3>2 DEF Stages
  <2>3. CASE connections[d] # c
    <3>1. MoveTo(c, d, "over") /\ connections' = connections  BY <1>4, <2>3 DEF LoopEnds
    <3>2. Leaving(d) => Leaving(d)'
      <4>1. ASSUME NEW b \in Conn, stage[b][d] \in {"unmapped", "offline", "grace"}
            PROVE  stage'[b][d] = stage[b][d]
        BY <1>m, <2>1, <3>1, <4>1
      <4> QED  BY <4>1 DEF Leaving
    <3> QED  BY <1>k, <2>1, <3>1, <3>2 DEF Stages
  <2> QED  BY <2>2, <2>3
<1>5. CASE MarkOffline(c, d)
  <2>1. MoveTo(c, d, "offline") /\ stage[c][d] = "unmapped"  BY <1>5 DEF MarkOffline
  <2>2. Leaving(d)'  BY <1>m, <2>1 DEF Leaving
  <2> QED  BY <1>5, <1>k, <2>1, <2>2 DEF MarkOffline, workerVars, historyVars, Stages
<1>6. CASE DecideReconnect(c, d)
  <2>1. /\ stage[c][d] = "offline" /\ suppressReconnect'[d] = FALSE
        /\ UNCHANGED <<worker, reconnectWorkers, owed, connections>>
    BY <1>6, <1>t DEF DecideReconnect, workerVars, historyVars, TypeOK
  <2>2. \A w \in Worker : Seeking(d, w) => Seeking(d, w)'
    <3>1. \A b \in Conn : stage[b][d] \in {"none", "made"} => stage'[b][d] \in {"none", "made"}
      BY <1>6, <1>m, <2>1 DEF DecideReconnect
    <3> QED  BY <1>t, <2>1, <3>1, StillSeeking
  <2>3. reconnectWorkers[d] \in Worker \cup {None}  BY <1>t DEF TypeOK
  <2>4. ~ suppressReconnect[d] => connections[d] # None \/ Leaving(d)'
    <3>1. ~ suppressReconnect[d] /\ connections[d] = None => MoveTo(c, d, "grace")
      BY <1>6 DEF DecideReconnect
    <3> QED  BY <1>m, <3>1 DEF Leaving
  <2> QED  BY <1>p, <2>1, <2>2, <2>3, <2>4 DEF Pursued
<1>7. CASE GraceEnds(c, d)
  <2>1. /\ MoveTo(c, d, "over") /\ stage[c][d] = "grace"
        /\ UNCHANGED <<owed, connections, suppressReconnect>>
    BY <1>7 DEF GraceEnds, registryVars, historyVars
  <2>2. CASE connections[d] # None
    <3>1. UNCHANGED <<worker, reconnectWorkers>>  BY <1>7, <2>2 DEF GraceEnds, workerVars
    <3> QED  BY <1>k, <2>1, <2>2, <3>1 DEF Stages
  <2>3. CASE connections[d] = None
    <3>1. StartReconnect(d)  BY <1>7, <2>3 DEF GraceEnds
    <3>2. \A b \in Conn : stage[b][d] \in {"none", "made"} => stage'[b][d] \in {"none", "made"}
      BY <1>m, <2>1
    <3>3. CASE reconnectWorkers[d] # None
      <4>1. PICK w \in Worker : reconnectWorkers[d] = w  BY <1>t, <3>3 DEF TypeOK
      <4>2. UNCHANGED <<worker, reconnectWorkers>>  BY <3>1, <3>3 DEF StartReconnect, workerVars
      <4>3. owed[d] => Seeking(d, w)  BY <1>p, <4>1 DEF Pursued
      <4>4. owed[d] => Seeking(d, w)'  BY <1>t, <3>2, <4>2, <4>3, StillSeeking
      <4> QED  BY <2>1, <4>1, <4>2, <4>4, Registered
    <3>4. CASE reconnectWorkers[d] = None
      <4>1. PICK w \in Worker : reconnectWorkers'[d] = w /\ Seeking(d, w)'
        BY <1>t, <3>1, <3>4, StartSeeks
      <4> QED  BY <4>1, Registered
    <3> QED  BY <3>3, <3>4
  <2> QED  BY <2>2, <2>3
<1> QED  BY <1>1, <1>2, <1>3, <1>4, <1>5, <1>6, <1>7 DEF Life

\* A worker goes on seeking until its connection is registered, or owes nothing
\* any more.
LEMMA ReconnectPursues ==
    ASSUME Inv, PursuitInv, NEW d \in Device, NEW w \in Worker, Reconnect(d, w)
    PROVE  PursuitInv'
<1>t. TypeOK  BY DEF Inv
<1>p. Pursued(d)  BY DEF PursuitInv
<1>1. /\ UNCHANGED <<connections, suppressReconnect, stage>>
      /\ \A e \in Device \ {d} : owed'[e] = owed[e] /\ worker'[e] = worker[e]
                                 /\ reconnectWorkers'[e] = reconnectWorkers[e]
      /\ \A v \in Worker \ {w} : worker'[d][v] = worker[d][v]
      /\ owed'[d] => owed[d]
      /\ reconnectWorkers'[d] \in {None, reconnectWorkers[d]}
  BY <1>t
  DEF Reconnect, WorkerFires, WorkerStops, WorkerFails, WorkerSucceeds, WorkerEnds,
      registryVars, historyVars, TypeOK
<1>2. ASSUME NEW e \in Device \ {d}  PROVE Pursued(e)'
  BY <1>1, <1>t, OtherDevice DEF PursuitInv
<1>3. \A v \in Worker \ {w} : Seeking(d, v) => Seeking(d, v)'  BY <1>1, <1>t, StillSeeking
<1>4. Seeking(d, w) /\ owed'[d] => Seeking(d, w)'
  <2>1. CASE WorkerFires(d, w)
    <3>1. PICK c \in Fresh :
            worker' = [worker EXCEPT ![d][w].at = "dialing", ![d][w].conn = c]
      BY <2>1 DEF WorkerFires
    <3>2. c \in Conn /\ dialer[c] = None  BY DEF Fresh
    <3>3. stage[c][d] = "none"  BY <3>2, NoneApart DEF Inv, HandshakeInv, Early
    <3>4. worker'[d][w] = [worker[d][w] EXCEPT !.at = "dialing", !.conn = c]
      BY <1>t, <3>1 DEF TypeOK
    <3>5. worker[d][w] \in WorkerRecords  BY <1>t, WorkerFields DEF TypeOK
    <3>6. /\ worker'[d][w].at = "dialing" /\ worker'[d][w].conn = c
          /\ worker'[d][w].canceled = worker[d][w].canceled
      BY <3>4, <3>5 DEF WorkerRecords
    <3> QED  BY <1>1, <3>3, <3>6 DEF Seeking
  <2>2. CASE WorkerStops(d, w)  BY <2>2 DEF WorkerStops, Seeking
  <2>3. CASE WorkerFails(d, w)
    <3> DEFINE n == worker[d][w].attempt + 1
    <3>1. worker'[d][w] = [worker[d][w] EXCEPT !.at = IF GivesUp(n) THEN "ending" ELSE "waiting",
                                               !.conn = None, !.attempt = n]
      BY <1>t, <2>3 DEF WorkerFails, TypeOK
    <3>2. owed'[d] => ~ GivesUp(n)  BY <1>t, <2>3 DEF WorkerFails, TypeOK
    <3>3. worker[d][w] \in WorkerRecords  BY <1>t, WorkerFields DEF TypeOK
    <3> HIDE DEF n
    <3>4. ~ GivesUp(n) => worker'[d][w].at = "waiting" /\ worker'[d][w].canceled = worker[d][w].canceled
      BY <3>1, <3>3 DEF WorkerRecords
    <3> QED  BY <3>2, <3>4 DEF Seeking
  <2>4. CASE WorkerSucceeds(d, w)  BY <2>4 DEF WorkerSucceeds, Seeking
  <2>5. CASE WorkerEnds(d, w)  BY <2>5 DEF WorkerEnds, Seeking
  <2> QED  BY <2>1, <2>2, <2>3, <2>4, <2>5 DEF Reconnect
<1>5. reconnectWorkers[d] \in Worker \cup {None}  BY <1>t DEF TypeOK
<1>6. Leaving(d)' <=> Leaving(d)  BY <1>1 DEF Leaving
<1>7. Pursued(d)'
  <2>1. CASE ~ owed'[d]  BY <2>1 DEF Pursued
  <2>2. CASE owed'[d]
    <3>1. \A v \in Worker : Seeking(d, v) => Seeking(d, v)'  BY <1>3, <1>4, <2>2
    <3>2. /\ \A v \in Worker : reconnectWorkers[d] = v => Seeking(d, v)
          /\ \/ \E v \in Worker : Seeking(d, v)
             \/ ~ suppressReconnect[d] /\ (connections[d] # None \/ Leaving(d))
      BY <1>1, <1>p, <2>2 DEF Pursued
    <3>3. \A v \in Worker : reconnectWorkers'[d] = v => reconnectWorkers[d] = v
      BY <1>1
    <3> QED  BY <1>1, <1>6, <3>1, <3>2, <3>3 DEF Pursued
  <2> QED  BY <2>1, <2>2
<1> QED  BY <1>2, <1>7 DEF PursuitInv

\* Users and discovery leave a device with a worker, or with nothing owed; so
\* does a restart.
LEMMA OutsidePursues ==
    ASSUME Inv, PursuitInv, NEW d \in Device, Outside(d)
    PROVE  PursuitInv'
<1>t. TypeOK  BY DEF Inv
<1>1. CASE Connect(d) \/ \E c \in Conn : Lose(c, d)
  <2>1. UNCHANGED <<connections, suppressReconnect, stage, worker, reconnectWorkers, owed>>
    BY <1>1 DEF Connect, Lose, registryVars, workerVars
  <2> QED  BY <1>t, <2>1, OtherDevice DEF PursuitInv
<1>2. CASE SendPeerDisconnect(d)
  <2>1. /\ UNCHANGED <<connections, stage, worker, reconnectWorkers>> /\ owed'[d] = FALSE
        /\ \A e \in Device \ {d} : owed'[e] = owed[e] /\ suppressReconnect'[e] = suppressReconnect[e]
    BY <1>2, <1>t DEF SendPeerDisconnect, workerVars, TypeOK
  <2>2. Pursued(d)'  BY <2>1 DEF Pursued
  <2>3. ASSUME NEW e \in Device \ {d}  PROVE Pursued(e)'
    BY <1>t, <2>1, OtherDevice DEF PursuitInv
  <2> QED  BY <2>2, <2>3 DEF PursuitInv
<1>3. CASE Discover(d)
  <2>1. /\ UNCHANGED <<connections, suppressReconnect, stage>> /\ StartReconnect(d)
        /\ \A e \in Device \ {d} : owed'[e] = owed[e]
        /\ owed'[d] => owed[d] \/ reconnectWorkers[d] = None
    BY <1>3, <1>t DEF Discover, registryVars, TypeOK
  <2>2. /\ \A e \in Device \ {d} : worker'[e] = worker[e] /\ reconnectWorkers'[e] = reconnectWorkers[e]
        /\ reconnectWorkers[d] # None => worker' = worker /\ reconnectWorkers' = reconnectWorkers
        /\ reconnectWorkers[d] = None =>
             \E w \in Worker : reconnectWorkers'[d] = w /\ Seeking(d, w)'
    BY <1>t, <2>1, StartSeeks
  <2>3. ASSUME NEW e \in Device \ {d}  PROVE Pursued(e)'
    BY <1>t, <2>1, <2>2, OtherDevice DEF PursuitInv
  <2>4. CASE reconnectWorkers[d] # None
    <3>1. Leaving(d) => Leaving(d)'  BY <2>1 DEF Leaving
    <3>2. Pursued(d)'  BY <1>t, <2>1, <2>2, <2>4, <3>1, PursuitStays DEF PursuitInv
    <3> QED  BY <2>3, <3>2 DEF PursuitInv
  <2>5. CASE reconnectWorkers[d] = None
    <3>1. Pursued(d)'  BY <2>2, <2>5, Registered
    <3> QED  BY <2>3, <3>1 DEF PursuitInv
  <2> QED  BY <2>4, <2>5
<1>4. ASSUME NEW k \in Key, Restart(d, k)  PROVE PursuitInv'
  <2>1. /\ \A e \in Device \ {d} : /\ owed'[e] = owed[e] /\ connections'[e] = connections[e]
                                   /\ suppressReconnect'[e] = suppressReconnect[e]
                                   /\ \A c \in Conn : stage'[c][e] = stage[c][e]
        /\ owed'[d] => status'[d] = "online"
    BY <1>4, <1>t DEF Restart, Stop, TypeOK
  <2>2. /\ \A e \in Device \ {d} : worker'[e] = worker[e] /\ reconnectWorkers'[e] = reconnectWorkers[e]
        /\ status'[d] = "online" => \E w \in Worker : reconnectWorkers'[d] = w /\ Seeking(d, w)'
    <3>1. CASE status'[d] = "online"
      <4>1. PICK w \in Worker :
              /\ worker' = [worker EXCEPT ![d] = [v \in Worker |->
                              IF v = w THEN [Idle EXCEPT !.at = "waiting"] ELSE Idle]]
              /\ reconnectWorkers' = [reconnectWorkers EXCEPT ![d] = w]
        BY <1>4, <3>1 DEF Restart, Start
      <4>2. worker'[d][w] = [Idle EXCEPT !.at = "waiting"] /\ reconnectWorkers'[d] = w
        BY <1>t, <4>1 DEF TypeOK
      <4>3. Seeking(d, w)'  BY <4>2 DEF Seeking, Idle
      <4> QED  BY <1>t, <4>1, <4>2, <4>3 DEF TypeOK
    <3>2. CASE status'[d] # "online"
      BY <1>4, <1>t, <3>2 DEF Restart, Start, TypeOK
    <3> QED  BY <3>1, <3>2
  <2>3. Pursued(d)'
    <3>1. CASE owed'[d]  BY <2>1, <2>2, <3>1, Registered
    <3>2. CASE ~ owed'[d]  BY <3>2 DEF Pursued
    <3> QED  BY <3>1, <3>2
  <2>4. ASSUME NEW e \in Device \ {d}  PROVE Pursued(e)'
    BY <1>t, <2>1, <2>2, OtherDevice DEF PursuitInv
  <2> QED  BY <2>3, <2>4 DEF PursuitInv
<1> QED  BY <1>1, <1>2, <1>3, <1>4 DEF Outside

\* A device that is to have a session and has none in hand has a worker that
\* seeks one: whatever order losses, replacements, endings of workers and
\* discoveries come in, neither is missing (startReconnect, stopReconnect, the
\* end of connectionLoop).
THEOREM LostSessionIsPursued == Spec => []LostIsPursued
<1>1. Init => PursuitInv  BY DEF Init, PursuitInv, Pursued
<1>2. Inv /\ PursuitInv /\ [Next]_vars => PursuitInv'
  <2> SUFFICES ASSUME Inv, PursuitInv, [Next]_vars PROVE PursuitInv'  OBVIOUS
  <2>1. CASE UNCHANGED vars
    <3>1. TypeOK  BY DEF Inv
    <3> QED  BY <2>1, <3>1, OtherDevice DEF PursuitInv, vars, registryVars, workerVars, historyVars
  <2> QED  BY <2>1, HandshakePursues, LifePursues, ReconnectPursues, OutsidePursues DEF Next
<1>3. Inv /\ PursuitInv => LostIsPursued
  <2> SUFFICES ASSUME Inv, PursuitInv, NEW d \in Device, owed[d]  PROVE InHand(d) \/ Pursues(d)
    BY DEF LostIsPursued
  <2>1. CASE \E w \in Worker : Seeking(d, w)  BY <2>1 DEF Seeking, Pursues
  <2>2. CASE connections[d] # None
    BY <2>2 DEF Inv, TypeOK, RegistryInv, InHand
  <2>3. CASE Leaving(d)  BY <2>3 DEF Leaving, InHand
  <2> QED  BY <2>1, <2>2, <2>3 DEF PursuitInv, Pursued
<1> QED  BY <1>1, <1>2, <1>3, InvariantHolds, PTL DEF Spec

-----------------------------------------------------------------------------
(* The registry implements Sessions. *)

\* The connections that are or were the session of a device, and those ended.
Used(d) == {c \in Conn : stage[c][d] \notin {"none", "made"}}
Ended(d) == {c \in Conn : stage[c][d] \notin {"none", "made"} /\ d \in closed[c]}

\* A step that registers nothing, takes nothing out and closes no registered
\* connection is invisible to Sessions.
LEMMA InvisibleStep ==
    ASSUME connections' = connections,
           \A d \in Device : Used(d)' = Used(d) /\ Ended(d)' = Ended(d)
    PROVE  UNCHANGED Promise!sessionVars
BY DEF Promise!sessionVars, Used, Ended

\* A step that closes at most one end of a connection, and registers nothing,
\* is End or invisible.
LEMMA EndStep ==
    ASSUME TypeOK, NEW c \in Conn, NEW d \in Device,
           closed' = [closed EXCEPT ![c] = @ \cup {d}],
           connections' = connections, \A e \in Device : Used(e)' = Used(e)
    PROVE  [Promise!Next]_(Promise!sessionVars)
<1>1. \A e \in Device : Ended(e)' = IF e = d /\ c \in Used(e) THEN Ended(e) \cup {c} ELSE Ended(e)
  BY DEF TypeOK, Used, Ended
<1>2. CASE c \notin Used(d)  BY <1>1, <1>2, InvisibleStep
<1>3. CASE c \in Used(d)
  <2>1. [e \in Device |-> Ended(e)]' = [[e \in Device |-> Ended(e)] EXCEPT ![d] = @ \cup {c}]
    BY <1>1, <1>3
  <2>2. [e \in Device |-> Used(e)]' = [e \in Device |-> Used(e)]  OBVIOUS
  <2>3. Promise!End(d, c)  BY <1>3, <2>1, <2>2 DEF Promise!End, Used, Ended
  <2> QED  BY <2>3 DEF Promise!Next
<1> QED  BY <1>2, <1>3

\* A new connection takes the place of the session, or there was none.
LEMMA RegisterAttaches ==
    ASSUME Inv, NEW c \in Conn, NEW d \in Device, Register(c, d)
    PROVE  Promise!Attach(d, c)
<1>1. connections[d] \in Conn \cup {None} /\ connections[d] # c
  BY DEF Inv, TypeOK, RegistryInv, Register
<1>2. c \notin Used(d)  BY DEF Register, Used
<1>3. [e \in Device |-> Used(e)]' = [[e \in Device |-> Used(e)] EXCEPT ![d] = @ \cup {c}]
  <2>1. \A e \in Device : Used(e)' = IF e = d THEN Used(e) \cup {c} ELSE Used(e)
    BY DEF Inv, TypeOK, Register, MoveTo, Used
  <2> QED  BY <2>1
<1> DEFINE gone == ({connections[d]} \ {None}) \cup {b \in {c} : d \in closed[c]}
<1>4. \A b \in Conn : closed'[b] = IF b = connections[d] THEN closed[b] \cup {d} ELSE closed[b]
  BY DEF Register
<1>5. \A e \in Device : Ended(e)' = IF e = d THEN Ended(e) \cup gone ELSE Ended(e)
  <2>1. \A b \in Conn, e \in Device :
          stage'[b][e] = IF b = c /\ e = d THEN "mapped" ELSE stage[b][e]
    BY DEF Inv, TypeOK, Register, MoveTo
  <2>2. connections[d] # None => stage[connections[d]][d] \notin {"none", "made"}
    BY DEF Inv, RegistryInv
  <2>3. stage[c][d] = "made"  BY DEF Register
  <2> DEFINE In(b, e) == stage[b][e] \notin {"none", "made"} /\ e \in closed[b]
  <2>4. ASSUME NEW b \in Conn, NEW e \in Device
        PROVE  In(b, e)' <=> In(b, e) \/ (e = d /\ b \in gone)
    <3>1. CASE b = c /\ e = d  BY <1>1, <1>4, <2>1, <2>3, <3>1
    <3>2. CASE b = connections[d] /\ e = d  BY <1>1, <1>4, <2>1, <2>2, <3>2
    <3>3. CASE e # d \/ b \notin {c, connections[d]}  BY <1>1, <1>4, <2>1, <3>3
    <3> QED  BY <3>1, <3>2, <3>3
  <2>5. gone \subseteq Conn  BY <1>1
  <2>6. \A e \in Device : Ended(e) = {b \in Conn : In(b, e)} /\ Ended(e)' = {b \in Conn : In(b, e)}'
    BY DEF Ended
  <2> HIDE DEF In, gone
  <2> QED  BY <2>4, <2>5, <2>6
<1>6. [e \in Device |-> Ended(e)]' = [[e \in Device |-> Ended(e)] EXCEPT ![d] = @ \cup gone]
  BY <1>5
<1>7. PICK o \in SUBSET {c} : gone = ({connections[d]} \ {None}) \cup o  OBVIOUS
<1>8. [e \in Device |-> Ended(e)]'
        = [[e \in Device |-> Ended(e)] EXCEPT ![d] = @ \cup ({connections[d]} \ {None}) \cup o]
  BY <1>5, <1>7
<1>9. connections' = [connections EXCEPT ![d] = c]  BY DEF Register
<1> QED  BY <1>2, <1>3, <1>8, <1>9 DEF Promise!Attach, Used, Ended

\* The session of a device is given up: whatever connection it registered is
\* closed by then.
LEMMA DetachStep ==
    ASSUME Inv, NEW d \in Device, connections' = [connections EXCEPT ![d] = None],
           connections[d] # None,
           \A e \in Device : Used(e)' = Used(e),
           Ended(d)' = Ended(d) \cup {connections[d]},
           \A e \in Device : e # d => Ended(e)' = Ended(e)
    PROVE  Promise!Detach(d)
<1>1. [e \in Device |-> Used(e)]' = [e \in Device |-> Used(e)]  OBVIOUS
<1>2. [e \in Device |-> Ended(e)]'
        = [[e \in Device |-> Ended(e)] EXCEPT ![d] = @ \cup {connections[d]}]
  OBVIOUS
<1> QED  BY <1>1, <1>2 DEF Promise!Detach, Used, Ended

\* The loop of the session ends, which gives it up; the loop of a connection
\* that was replaced changes nothing.
LEMMA LoopEndsRefines ==
    ASSUME Inv, NEW c \in Conn, NEW d \in Device, LoopEnds(c, d)
    PROVE  [Promise!Next]_(Promise!sessionVars)
<1>1. closed' = closed /\ stage[c][d] = "open" /\ d \in closed[c]  BY DEF LoopEnds
<1>2. \E s \in {"unmapped", "over"} : stage' = [stage EXCEPT ![c][d] = s]
  BY DEF LoopEnds, MoveTo
<1>3. \A b \in Conn, e \in Device :
        stage'[b][e] \in {"none", "made"} <=> stage[b][e] \in {"none", "made"}
  BY <1>1, <1>2 DEF Inv, TypeOK
<1>4. \A e \in Device : Used(e)' = Used(e) /\ Ended(e)' = Ended(e)
  BY <1>1, <1>3 DEF Used, Ended
<1>5. CASE connections[d] = c
  <2>1. c \in Ended(d) /\ c # None  BY <1>1 DEF Ended
  <2>2. Promise!Detach(d)  BY <1>4, <1>5, <2>1, DetachStep DEF LoopEnds
  <2> QED  BY <2>2 DEF Promise!Next
<1>6. CASE connections[d] # c  BY <1>4, <1>6, InvisibleStep DEF LoopEnds
<1> QED  BY <1>5, <1>6

\* The end of the process gives the session up, if there was one.
LEMMA RestartRefines ==
    ASSUME Inv, NEW d \in Device, NEW k \in Key, Restart(d, k)
    PROVE  [Promise!Next]_(Promise!sessionVars)
<1>1. \A c \in Conn, e \in Device :
        stage'[c][e] \in {"none", "made"} <=> stage[c][e] \in {"none", "made"}
  BY DEF Inv, TypeOK, Restart, Stop
<1>2. \A c \in Conn, e \in Device : e # d => (e \in closed'[c] <=> e \in closed[c])
  BY DEF Inv, TypeOK, Restart, Stop
<1>3. \A c \in Conn : stage[c][d] \notin {"none", "made"} => d \in closed'[c]
  <2> SUFFICES ASSUME NEW c \in Conn, stage[c][d] \notin {"none", "made"}
               PROVE  d \in closed'[c]
    OBVIOUS
  <2>1. dialer[c] = d \/ wire[c] \notin Early  BY DEF Inv, HandshakeInv
  <2> QED  BY <2>1 DEF Inv, TypeOK, Early, Restart, Stop
<1>4. \A c \in Conn :
        stage[c][d] \notin {"none", "made"} /\ d \notin closed[c] => connections[d] = c
  BY DEF Inv, TypeOK, Stages, EndedInv, NoOrphan
<1>5. \A e \in Device : Used(e)' = Used(e)  BY <1>1 DEF Used
<1>6. \A e \in Device : e # d => Ended(e)' = Ended(e)  BY <1>1, <1>2 DEF Ended
<1>7. connections' = [connections EXCEPT ![d] = None]  BY DEF Restart, Stop
<1>8. CASE connections[d] # None
  <2>1. connections[d] \in Conn /\ stage[connections[d]][d] \notin {"none", "made"}
    BY <1>8 DEF Inv, TypeOK, RegistryInv
  <2>2. Ended(d)' = Ended(d) \cup {connections[d]}
    <3>1. \A c \in Conn : stage[c][d] \notin {"none", "made"} /\ d \in closed'[c]
                         <=> \/ stage[c][d] \notin {"none", "made"} /\ d \in closed[c]
                             \/ c = connections[d]
      BY <1>3, <1>4, <2>1 DEF Inv, TypeOK, Restart, Stop
    <3> QED  BY <1>1, <2>1, <3>1 DEF Ended
  <2>3. Promise!Detach(d)  BY <1>5, <1>6, <1>7, <1>8, <2>2, DetachStep
  <2> QED  BY <2>3 DEF Promise!Next
<1>9. CASE connections[d] = None
  <2>1. connections' = connections  BY <1>7, <1>9 DEF Inv, TypeOK
  <2>2. Ended(d)' = Ended(d)
    <3>1. \A c \in Conn : stage[c][d] \notin {"none", "made"} => d \in closed[c]
      BY <1>4, <1>9
    <3> QED  BY <1>1, <1>3, <3>1 DEF Ended
  <2> QED  BY <1>5, <1>6, <2>1, <2>2, InvisibleStep
<1> QED  BY <1>8, <1>9

\* A step that leaves the registry alone, registers nothing and closes at most
\* one end is End or invisible.
LEMMA OutsideTheRegistry ==
    ASSUME TypeOK, connections' = connections,
           \A c \in Conn, d \in Device :
              stage'[c][d] \in {"none", "made"} <=> stage[c][d] \in {"none", "made"},
           \/ closed' = closed
           \/ \E c \in Conn, d \in Device : closed' = [closed EXCEPT ![c] = @ \cup {d}]
    PROVE  [Promise!Next]_(Promise!sessionVars)
<1>1. \A d \in Device : Used(d)' = Used(d)  BY DEF Used
<1>2. CASE closed' = closed
  <2>1. \A d \in Device : Ended(d)' = Ended(d)  BY <1>2 DEF Ended
  <2> QED  BY <1>1, <2>1, InvisibleStep
<1>3. CASE \E c \in Conn, d \in Device : closed' = [closed EXCEPT ![c] = @ \cup {d}]
  BY <1>1, <1>3, EndStep
<1> QED  BY <1>2, <1>3

\* The ends of a connection that a handshake step can make or close have
\* nothing registered, or are closed.
LEMMA HandshakeRefines ==
    ASSUME Inv, NEW c \in Conn, Handshake(c)
    PROVE  [Promise!Next]_(Promise!sessionVars)
<1>1. dialer[c] \in Device /\ Listener(c) \in Device /\ Listener(c) # dialer[c]
  <2>1. wire[c] # "unused"
    BY DEF Handshake, Accept, Refuse, SendHandshake, VerifyHandshake, AnswerInbound,
           VerifyResponse, AnswerOutbound, DialFails
  <2> QED  BY <2>1, ListenerIsTheOther DEF Inv, TypeOK, HandshakeInv
<1>2. connections' = connections
  BY DEF Handshake, Accept, Refuse, SendHandshake, VerifyHandshake, AnswerInbound,
         VerifyResponse, AnswerOutbound, DialFails, registryVars
<1>3. closed' = closed \/ \E b \in Conn, d \in Device : closed' = [closed EXCEPT ![b] = @ \cup {d}]
  BY <1>1 DEF Handshake, Accept, Refuse, SendHandshake, VerifyHandshake, AnswerInbound,
              VerifyResponse, AnswerOutbound, DialFails, Close
<1>4. \/ stage' = stage
      \/ stage' = [stage EXCEPT ![c][dialer[c]] = "made"] /\ wire[c] \in {"response", "asking"}
      \/ stage' = [stage EXCEPT ![c][Listener(c)] = "made"] /\ wire[c] \in {"hello", "asked"}
  BY DEF Handshake, Accept, Refuse, SendHandshake, VerifyHandshake, AnswerInbound,
         VerifyResponse, AnswerOutbound, DialFails, MoveTo
<1>5. \A b \in Conn, d \in Device :
        stage'[b][d] \in {"none", "made"} <=> stage[b][d] \in {"none", "made"}
  <2>1. wire[c] # "done" => stage[c][dialer[c]] = "none"
    BY <1>1 DEF Inv, HandshakeInv
  <2>2. wire[c] \in Early => stage[c][Listener(c)] = "none"
    BY <1>1 DEF Inv, HandshakeInv
  <2>3. CASE stage' = stage  BY <2>3
  <2>4. CASE stage' = [stage EXCEPT ![c][dialer[c]] = "made"] /\ wire[c] \in {"response", "asking"}
    BY <1>1, <2>1, <2>4 DEF Inv, TypeOK
  <2>5. CASE stage' = [stage EXCEPT ![c][Listener(c)] = "made"] /\ wire[c] \in {"hello", "asked"}
    <3>1. stage[c][Listener(c)] = "none"  BY <2>2, <2>5 DEF Early
    <3> QED  BY <1>1, <2>5, <3>1 DEF Inv, TypeOK
  <2> QED  BY <1>4, <2>3, <2>4, <2>5
<1> QED  BY <1>2, <1>3, <1>5, OutsideTheRegistry DEF Inv

\* The steps in the life of a registered connection.
LEMMA LifeRefines ==
    ASSUME Inv, NEW c \in Conn, NEW d \in Device, Life(c, d)
    PROVE  [Promise!Next]_(Promise!sessionVars)
<1>1. CASE Register(c, d)  BY <1>1, RegisterAttaches DEF Promise!Next
<1>2. CASE LoopEnds(c, d)  BY <1>2, LoopEndsRefines
<1>3. CASE SeeClose(c, d)
  BY <1>3, OutsideTheRegistry DEF Inv, SeeClose, Close, registryVars
<1>4. CASE Persist(c, d) \/ MarkOffline(c, d) \/ DecideReconnect(c, d) \/ GraceEnds(c, d)
  <2>1. connections' = connections /\ closed' = closed
    BY <1>4 DEF Persist, MarkOffline, DecideReconnect, GraceEnds, registryVars
  <2>2. /\ stage[c][d] \in {"mapped", "unmapped", "offline", "grace"}
        /\ \E s \in {"open", "offline", "over", "grace"} : stage' = [stage EXCEPT ![c][d] = s]
    BY <1>4 DEF Persist, MarkOffline, DecideReconnect, GraceEnds, MoveTo
  <2>3. \A b \in Conn, e \in Device :
          stage'[b][e] \in {"none", "made"} <=> stage[b][e] \in {"none", "made"}
    BY <2>2 DEF Inv, TypeOK
  <2> QED  BY <2>1, <2>3, OutsideTheRegistry DEF Inv
<1> QED  BY <1>1, <1>2, <1>3, <1>4 DEF Life

\* The reconnect workers dial; they register nothing themselves.
LEMMA ReconnectRefines ==
    ASSUME Inv, NEW d \in Device, NEW w \in Worker, Reconnect(d, w)
    PROVE  [Promise!Next]_(Promise!sessionVars)
<1>1. UNCHANGED <<connections, stage, closed>>
  BY DEF Reconnect, WorkerFires, WorkerStops, WorkerFails, WorkerSucceeds, WorkerEnds, registryVars
<1> QED  BY <1>1, OutsideTheRegistry DEF Inv

\* Users, discovery, the network and restarts.
LEMMA OutsideRefines ==
    ASSUME Inv, NEW d \in Device, Outside(d)
    PROVE  [Promise!Next]_(Promise!sessionVars)
<1>1. CASE Connect(d) \/ Discover(d)
  BY <1>1, OutsideTheRegistry DEF Inv, Connect, Discover, registryVars
<1>2. CASE SendPeerDisconnect(d)
  <2>1. connections[d] \in Conn  BY <1>2 DEF Inv, TypeOK, SendPeerDisconnect
  <2> QED  BY <1>2, <2>1, OutsideTheRegistry DEF Inv, SendPeerDisconnect, Close
<1>3. CASE \E c \in Conn : Lose(c, d)
  BY <1>3, OutsideTheRegistry DEF Inv, Lose, Close, registryVars
<1>4. CASE \E k \in Key : Restart(d, k)  BY <1>4, RestartRefines
<1> QED  BY <1>1, <1>2, <1>3, <1>4 DEF Outside

\* The registry of each device implements Sessions: a live session is never
\* dropped, none that is over comes back, and a session that is replaced is
\* ended (registerConnection, connectionLoop, Stop).
THEOREM ImplementsSessions == Spec => IsSession
<1>1. Init => Promise!Init  BY DEF Init, Promise!Init
<1>2. Inv /\ [Next]_vars => [Promise!Next]_(Promise!sessionVars)
  <2> SUFFICES ASSUME Inv, [Next]_vars
               PROVE  [Promise!Next]_(Promise!sessionVars)
    OBVIOUS
  <2>1. CASE UNCHANGED vars
    BY <2>1, OutsideTheRegistry DEF Inv, vars, registryVars
  <2> QED  BY <2>1, HandshakeRefines, LifeRefines, ReconnectRefines, OutsideRefines DEF Next
<1> QED  BY <1>1, <1>2, InvariantHolds, PTL DEF Spec, IsSession, Promise!Spec
=============================================================================
