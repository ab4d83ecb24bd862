---------------------------- MODULE Connections ----------------------------
(***************************************************************************)
(* How two devices that know one another come to hold a session: either    *)
(* dials (network/client.go), the listener limits and challenges           *)
(* (network/server.go), both compare the presented key with the pinned one *)
(* (network/handshake.go), and the PeerManager of each end registers the   *)
(* connection, runs its loop, notices its end and reconnects               *)
(* (network/peer_manager.go).  Each end of a connection is a thread of its *)
(* own: what the code does under one lock, or before anyone else can see   *)
(* it, is one step.                                                        *)
(***************************************************************************)
EXTENDS Naturals

CONSTANTS Device,      \* the two devices
          Conn,        \* the TCP connections that can be dialed, numbered
          Worker,      \* the reconnect goroutines a device can have at once
          Key,         \* identity keys
          None,        \* no connection, no worker, nobody
          MaxAttempts, \* MaxReconnectAttempts
          MaxActs,     \* bound on what users and discovery do
          MaxFaults    \* bound on lost connections and restarts

ASSUME TwoDevices == \E a, b \in Device : a # b /\ Device = {a, b}
ASSUME NoneApart == None \notin Device \cup Conn \cup Worker
ASSUME Numbers ==
    /\ Conn \subseteq Nat
    /\ MaxAttempts \in Nat \ {0}
ASSUME SomeKey == Key # {}

VARIABLES dialer,     \* who dialed a connection, None while it does not exist
          wire,       \* how far its handshake has come
          keys,       \* the identity key each end presents in it
          closed,     \* the ends that have closed their side
          stage,      \* what each end's PeerManager does with it
          connections,       \* the registry of each device
          status,            \* peers.status of the other device in each store
          suppressReconnect, \* the mark of a manual disconnect
          reconnectWorkers,  \* the cancellable worker of each device
          worker,     \* the reconnect goroutines of each device
          identity,   \* the identity key of each device
          pinned,     \* the key each device has pinned for the other
          owed,       \* whether a device is to reconnect when it has no connection
          acts,       \* what users and discovery have done
          faults      \* what has gone wrong

handshakeVars == <<dialer, wire, keys, identity, pinned>>
registryVars == <<connections, status, suppressReconnect>>
workerVars == <<reconnectWorkers, worker>>
historyVars == <<owed, acts, faults>>
vars == <<handshakeVars, registryVars, workerVars, historyVars, closed, stage>>

Peer(d) == CHOOSE e \in Device : e # d

Listener(c) == Peer(dialer[c])

WireStates == {"unused", "dialing", "challenge", "hello", "asked", "response",
               "asking", "done", "failed"}

\* none: no PeerConnection; made: waits to be registered; mapped: in the
\* registry; open: its loop runs; unmapped: the loop has taken it out;
\* offline: the loop has written the status; grace: waits to reconnect.
Stages == {"none", "made", "mapped", "open", "unmapped", "offline", "grace", "over"}

Idle == [at |-> "free", conn |-> None, attempt |-> 0, canceled |-> FALSE]

WorkerStates ==
    {Idle}
    \cup [at : {"waiting"}, conn : {None}, attempt : 0..(MaxAttempts - 1), canceled : BOOLEAN]
    \cup [at : {"dialing"}, conn : Conn, attempt : 0..(MaxAttempts - 1), canceled : BOOLEAN]
    \cup [at : {"ending"}, conn : {None}, attempt : 0..MaxAttempts, canceled : BOOLEAN]

Init ==
    /\ dialer = [c \in Conn |-> None]
    /\ wire = [c \in Conn |-> "unused"]
    /\ closed = [c \in Conn |-> {}]
    /\ stage = [c \in Conn |-> [d \in Device |-> "none"]]
    /\ connections = [d \in Device |-> None]
    /\ status = [d \in Device |-> "offline"]
    /\ suppressReconnect = [d \in Device |-> FALSE]
    /\ reconnectWorkers = [d \in Device |-> None]
    /\ worker = [d \in Device |-> [w \in Worker |-> Idle]]
    /\ identity \in [Device -> {CHOOSE k \in Key : TRUE}]
    /\ keys = [c \in Conn |-> identity]
    /\ pinned = [d \in Device |-> identity[Peer(d)]]
    /\ owed = [d \in Device |-> FALSE]
    /\ acts = 0
    /\ faults = 0

-----------------------------------------------------------------------------
(* Helpers.                                                                *)

Close(c, d) == closed' = [closed EXCEPT ![c] = @ \cup {d}]

MoveTo(c, d, s) == stage' = [stage EXCEPT ![c][d] = s]

Progress(c, s) == wire' = [wire EXCEPT ![c] = s]

\* The connection a dial opens: connections are used in the order of their numbers.
Fresh == {c \in Conn : dialer[c] = None /\ \A b \in Conn : b < c => dialer[b] # None}

\* Dial's TCP connect; the dialer will present its current key.
Open(c, d) ==
    /\ dialer' = [dialer EXCEPT ![c] = d]
    /\ Progress(c, "dialing")
    /\ keys' = [keys EXCEPT ![c][d] = identity[d]]

\* startReconnect: nothing if the registry of workers has one.
StartReconnect(d) ==
    IF reconnectWorkers[d] # None
    THEN UNCHANGED workerVars
    ELSE \E w \in Worker :
           /\ worker[d][w] = Idle
           /\ worker' = [worker EXCEPT ![d][w].at = "waiting"]
           /\ reconnectWorkers' = [reconnectWorkers EXCEPT ![d] = w]

\* Mutated form: the worker is cancelled but stays registered.
StopKeepsEntry(d) ==
    IF reconnectWorkers[d] = None
    THEN UNCHANGED workerVars
    ELSE /\ worker' = [worker EXCEPT ![d][reconnectWorkers[d]].canceled = TRUE]
         /\ UNCHANGED reconnectWorkers

\* stopReconnect: cancels the registered worker and forgets it.
StopReconnect(d) ==
    IF reconnectWorkers[d] = None
    THEN UNCHANGED workerVars
    ELSE /\ worker' = [worker EXCEPT ![d][reconnectWorkers[d]].canceled = TRUE]
         /\ reconnectWorkers' = [reconnectWorkers EXCEPT ![d] = None]

-----------------------------------------------------------------------------
(* The handshake.                                                          *)

\* acceptLoop hands the connection to handleInboundConn, which challenges.
Accept(c) ==
    LET l == Listener(c) IN
    /\ wire[c] = "dialing"
    /\ Progress(c, "challenge")
    /\ keys' = [keys EXCEPT ![c][l] = identity[l]]
    /\ UNCHANGED <<dialer, identity, pinned, closed, stage, registryVars, workerVars, historyVars>>

\* A connection over the limit of its address is closed at once; which ones
\* those are is left open.
Refuse(c) ==
    /\ wire[c] = "dialing"
    /\ Progress(c, "failed")
    /\ Close(c, Listener(c))
    /\ UNCHANGED <<dialer, keys, identity, pinned, stage, registryVars, workerVars, historyVars>>

\* The dialer reads the challenge and sends its handshake.
SendHandshake(c) ==
    /\ wire[c] = "challenge"
    /\ dialer[c] \notin closed[c]
    /\ Progress(c, "hello")
    /\ UNCHANGED <<dialer, keys, identity, pinned, closed, stage, registryVars,
                   workerVars, historyVars>>

\* evaluatePeerKey lets the key pass without asking.
KeyPasses(c, d) == pinned[d] = keys[c][Peer(d)]

\* handleKeyChangeDecision: the user trusts the presented key.
Trust(c, d) == pinned' = [pinned EXCEPT ![d] = keys[c][Peer(d)]]

\* The listener's evaluatePeerKey, and its response if the key passes.  The
\* write fails when the deadline has passed or the dialer is gone.
VerifyHandshake(c) ==
    LET l == Listener(c) IN
    /\ wire[c] = "hello"
    /\ l \notin closed[c]
    /\ \/ /\ ~ KeyPasses(c, l)
          /\ Progress(c, "asked")
          /\ UNCHANGED <<stage, closed>>
       \/ /\ KeyPasses(c, l)
          /\ Progress(c, "response")
          /\ MoveTo(c, l, "made")
          /\ UNCHANGED closed
       \/ /\ KeyPasses(c, l)
          /\ dialer[c] \in closed[c]
          /\ Progress(c, "failed")
          /\ Close(c, l)
          /\ UNCHANGED stage
    /\ UNCHANGED <<dialer, keys, identity, pinned, registryVars, workerVars, historyVars>>

\* The user answers the listener's key-change prompt; trust pins the key at
\* once, and the response can come too late for the dialer.
AnswerInbound(c) ==
    LET l == Listener(c) IN
    /\ wire[c] = "asked"
    /\ l \notin closed[c]
    /\ \/ /\ Trust(c, l)
          /\ Progress(c, "response")
          /\ MoveTo(c, l, "made")
          /\ UNCHANGED closed
       \/ /\ Trust(c, l)
          /\ Progress(c, "failed")
          /\ Close(c, l)
          /\ UNCHANGED stage
       \/ /\ Progress(c, "failed")
          /\ Close(c, l)
          /\ UNCHANGED <<pinned, stage>>
    /\ UNCHANGED <<dialer, keys, identity, registryVars, workerVars, historyVars>>

\* The dialer's evaluatePeerKey of the response.
VerifyResponse(c) ==
    LET d == dialer[c] IN
    /\ wire[c] = "response"
    /\ d \notin closed[c]
    /\ IF KeyPasses(c, d)
       THEN Progress(c, "done") /\ MoveTo(c, d, "made")
       ELSE Progress(c, "asking") /\ UNCHANGED stage
    /\ UNCHANGED <<dialer, keys, identity, pinned, closed, registryVars, workerVars,
                   historyVars>>

\* The user answers the dialer's key-change prompt.
AnswerOutbound(c) ==
    LET d == dialer[c] IN
    /\ wire[c] = "asking"
    /\ d \notin closed[c]
    /\ \/ /\ Trust(c, d)
          /\ Progress(c, "done")
          /\ MoveTo(c, d, "made")
          /\ UNCHANGED closed
       \/ /\ Progress(c, "failed")
          /\ Close(c, d)
          /\ UNCHANGED <<pinned, stage>>
    /\ UNCHANGED <<dialer, keys, identity, registryVars, workerVars, historyVars>>

\* Dial gives up before it has a response: refused, an error frame, the
\* deadline.  A listener that has the handshake goes on with it.
DialFails(c) ==
    /\ wire[c] \in {"dialing", "challenge", "hello", "asked", "response", "failed"}
    /\ dialer[c] \notin closed[c]
    /\ Close(c, dialer[c])
    /\ wire' = IF wire[c] \in {"dialing", "challenge"}
               THEN [wire EXCEPT ![c] = "failed"] ELSE wire
    /\ UNCHANGED <<dialer, keys, identity, pinned, stage, registryVars, workerVars,
                   historyVars>>

-----------------------------------------------------------------------------
(* The life of a registered connection.                                    *)

\* Mutated form: the replaced connection is left open.
RegisterBeside(c, d) ==
    /\ stage[c][d] = "made"
    /\ MoveTo(c, d, "mapped")
    /\ connections' = [connections EXCEPT ![d] = c]
    /\ StopReconnect(d)
    /\ owed' = [owed EXCEPT ![d] = ~ suppressReconnect[d]]
    /\ UNCHANGED <<handshakeVars, closed, status, suppressReconnect, acts, faults>>

\* registerConnection: the new connection replaces the old one in the map,
\* which is closed right after the unlock, and the worker is stopped.  A mark
\* that no loop has consumed yet will suppress the reconnect of this one.
Register(c, d) ==
    /\ stage[c][d] = "made"
    /\ MoveTo(c, d, "mapped")
    /\ connections' = [connections EXCEPT ![d] = c]
    /\ closed' = [b \in Conn |->
                    IF b = connections[d] THEN closed[b] \cup {d} ELSE closed[b]]
    /\ StopReconnect(d)
    /\ owed' = [owed EXCEPT ![d] = ~ suppressReconnect[d]]
    /\ UNCHANGED <<handshakeVars, status, suppressReconnect, acts, faults>>

\* persistPeerConnection writes online, then the connection's loop starts.
Persist(c, d) ==
    /\ stage[c][d] = "mapped"
    /\ MoveTo(c, d, "open")
    /\ status' = [status EXCEPT ![d] = "online"]
    /\ UNCHANGED <<handshakeVars, connections, suppressReconnect, workerVars, historyVars, closed>>

\* readLoop sees the end of the stream.
SeeClose(c, d) ==
    /\ stage[c][d] \in {"made", "mapped", "open"}
    /\ d \notin closed[c]
    /\ Peer(d) \in closed[c]
    /\ Close(c, d)
    /\ UNCHANGED <<handshakeVars, registryVars, workerVars, historyVars, stage>>

\* The network, or a missed pong, ends a connection.
Lose(c, d) ==
    /\ faults < MaxFaults
    /\ stage[c][d] \in {"made", "mapped", "open"}
    /\ d \notin closed[c]
    /\ Close(c, d)
    /\ faults' = faults + 1
    /\ UNCHANGED <<handshakeVars, registryVars, workerVars, owed, acts, stage>>

\* Mutated form: whatever connection is in the map is taken out.
LoopEndsAny(c, d) ==
    /\ stage[c][d] = "open"
    /\ d \in closed[c]
    /\ connections' = [connections EXCEPT ![d] = None]
    /\ MoveTo(c, d, "unmapped")
    /\ UNCHANGED <<handshakeVars, status, suppressReconnect, workerVars, historyVars, closed>>

\* The end of connectionLoop: out of the map if it is still the one there.
LoopEnds(c, d) ==
    /\ stage[c][d] = "open"
    /\ d \in closed[c]
    /\ IF connections[d] = c
       THEN /\ connections' = [connections EXCEPT ![d] = None]
            /\ MoveTo(c, d, "unmapped")
       ELSE /\ MoveTo(c, d, "over")
            /\ UNCHANGED connections
    /\ UNCHANGED <<handshakeVars, status, suppressReconnect, workerVars, historyVars, closed>>

\* The offline status is written under no lock that registerConnection takes.
MarkOffline(c, d) ==
    /\ stage[c][d] = "unmapped"
    /\ MoveTo(c, d, "offline")
    /\ status' = [status EXCEPT ![d] = "offline"]
    /\ UNCHANGED <<handshakeVars, connections, suppressReconnect, workerVars, historyVars, closed>>

\* consumeSuppressReconnect, and the first look for a newer connection.
DecideReconnect(c, d) ==
    /\ stage[c][d] = "offline"
    /\ suppressReconnect' = [suppressReconnect EXCEPT ![d] = FALSE]
    /\ MoveTo(c, d, IF suppressReconnect[d] \/ connections[d] # None THEN "over" ELSE "grace")
    /\ UNCHANGED <<handshakeVars, connections, status, workerVars, historyVars, closed>>

\* After the grace window: a worker, unless there is a newer connection.
GraceEnds(c, d) ==
    /\ stage[c][d] = "grace"
    /\ MoveTo(c, d, "over")
    /\ IF connections[d] # None THEN UNCHANGED workerVars ELSE StartReconnect(d)
    /\ UNCHANGED <<handshakeVars, registryVars, historyVars, closed>>

-----------------------------------------------------------------------------
(* The reconnect workers.                                                  *)

\* The backoff of the attempt ends.  The timer can be chosen even when the
\* worker has been cancelled meanwhile.
WorkerFires(d, w) ==
    /\ worker[d][w].at = "waiting"
    /\ \E c \in Fresh :
         /\ Open(c, d)
         /\ worker' = [worker EXCEPT ![d][w].at = "dialing", ![d][w].conn = c]
    /\ UNCHANGED <<identity, pinned, registryVars, reconnectWorkers, historyVars, closed,
                   stage>>

WorkerStops(d, w) ==
    /\ worker[d][w].at = "waiting"
    /\ worker[d][w].canceled
    /\ worker' = [worker EXCEPT ![d][w].at = "ending"]
    /\ UNCHANGED <<handshakeVars, registryVars, reconnectWorkers, historyVars, closed, stage>>

\* Mutated form: one attempt too many.
GivesUpLate(n) == n > MaxAttempts

GivesUp(n) == n >= MaxAttempts

\* The dial failed; after the last attempt the worker gives up.
WorkerFails(d, w) ==
    LET c == worker[d][w].conn
        n == worker[d][w].attempt + 1 IN
    /\ worker[d][w].at = "dialing"
    /\ d \in closed[c]
    /\ stage[c][d] = "none"
    /\ worker' = [worker EXCEPT ![d][w] =
                   [@ EXCEPT !.at = IF GivesUp(n) THEN "ending" ELSE "waiting",
                             !.conn = None, !.attempt = n]]
    /\ owed' = [owed EXCEPT ![d] = @ /\ ~ GivesUp(n)]
    /\ UNCHANGED <<handshakeVars, registryVars, reconnectWorkers, acts, faults, closed, stage>>

\* dialAndRegister has returned the registered connection.
WorkerSucceeds(d, w) ==
    /\ worker[d][w].at = "dialing"
    /\ stage[worker[d][w].conn][d] \notin {"none", "made", "mapped"}
    /\ worker' = [worker EXCEPT ![d][w].at = "ending", ![d][w].conn = None]
    /\ UNCHANGED <<handshakeVars, registryVars, reconnectWorkers, historyVars, closed, stage>>

\* The deferred cleanup deletes whatever entry the device has, also that of
\* a newer worker.
WorkerEnds(d, w) ==
    /\ worker[d][w].at = "ending"
    /\ worker' = [worker EXCEPT ![d][w] = Idle]
    /\ reconnectWorkers' = [reconnectWorkers EXCEPT ![d] = None]
    /\ UNCHANGED <<handshakeVars, registryVars, historyVars, closed, stage>>

-----------------------------------------------------------------------------
(* Users, discovery and restarts.                                          *)

\* Connect: a dial on behalf of the user.
Connect(d) ==
    /\ acts < MaxActs
    /\ \E c \in Fresh : Open(c, d)
    /\ acts' = acts + 1
    /\ UNCHANGED <<identity, pinned, registryVars, workerVars, owed, faults, closed, stage>>

SendPeerDisconnect(d) ==
    /\ acts < MaxActs
    /\ connections[d] # None
    /\ suppressReconnect' = [suppressReconnect EXCEPT ![d] = TRUE]
    /\ Close(connections[d], d)
    /\ status' = [status EXCEPT ![d] = "offline"]
    /\ owed' = [owed EXCEPT ![d] = FALSE]
    /\ acts' = acts + 1
    /\ UNCHANGED <<handshakeVars, connections, workerVars, faults, stage>>

\* NotifyPeerDiscoveredEndpoints, for a peer without a live connection.
Discover(d) ==
    /\ acts < MaxActs
    /\ connections[d] # None => d \in closed[connections[d]]
    /\ StartReconnect(d)
    /\ owed' = [owed EXCEPT ![d] = @ \/ reconnectWorkers[d] = None]
    /\ acts' = acts + 1
    /\ UNCHANGED <<handshakeVars, registryVars, faults, closed, stage>>

\* Stop, or a crash, ends everything the device had.  A loop that is about to
\* write offline may still do so; the others find the registry empty.
Stop(d) ==
    /\ closed' = [c \in Conn |-> IF dialer[c] = d \/ wire[c] \notin {"unused", "dialing"}
                                 THEN closed[c] \cup {d} ELSE closed[c]]
    /\ stage' = [c \in Conn |-> [stage[c] EXCEPT ![d] =
                   IF @ \in {"none", "made"} THEN "none" ELSE "over"]]
    /\ connections' = [connections EXCEPT ![d] = None]
    /\ suppressReconnect' = [suppressReconnect EXCEPT ![d] = FALSE]
    /\ \/ UNCHANGED status
       \/ /\ \E c \in Conn : stage[c][d] = "unmapped"
          /\ status' = [status EXCEPT ![d] = "offline"]

\* Start redials a peer whose row says online.
Start(d) ==
    IF status'[d] = "online"
    THEN \E w \in Worker :
           /\ worker' = [worker EXCEPT ![d] = [v \in Worker |->
                           IF v = w THEN [Idle EXCEPT !.at = "waiting"] ELSE Idle]]
           /\ reconnectWorkers' = [reconnectWorkers EXCEPT ![d] = w]
    ELSE /\ worker' = [worker EXCEPT ![d] = [v \in Worker |-> Idle]]
         /\ reconnectWorkers' = [reconnectWorkers EXCEPT ![d] = None]

\* The process of a device ends and is started again, perhaps with a new key.
Restart(d, k) ==
    /\ faults < MaxFaults
    /\ faults' = faults + 1
    /\ Stop(d)
    /\ Start(d)
    /\ owed' = [owed EXCEPT ![d] = status'[d] = "online"]
    /\ identity' = [identity EXCEPT ![d] = k]
    /\ UNCHANGED <<dialer, wire, keys, pinned, acts>>

-----------------------------------------------------------------------------
Handshake(c) ==
    \/ Accept(c)
    \/ Refuse(c)
    \/ SendHandshake(c)
    \/ VerifyHandshake(c)
    \/ AnswerInbound(c)
    \/ VerifyResponse(c)
    \/ AnswerOutbound(c)
    \/ DialFails(c)

Life(c, d) ==
    \/ Register(c, d)
    \/ Persist(c, d)
    \/ SeeClose(c, d)
    \/ LoopEnds(c, d)
    \/ MarkOffline(c, d)
    \/ DecideReconnect(c, d)
    \/ GraceEnds(c, d)

Reconnect(d, w) ==
    \/ WorkerFires(d, w)
    \/ WorkerStops(d, w)
    \/ WorkerFails(d, w)
    \/ WorkerSucceeds(d, w)
    \/ WorkerEnds(d, w)

Outside(d) ==
    \/ Connect(d)
    \/ SendPeerDisconnect(d)
    \/ Discover(d)
    \/ \E c \in Conn : Lose(c, d)
    \/ \E k \in Key : Restart(d, k)

Next ==
    \/ \E c \in Conn : Handshake(c)
    \/ \E c \in Conn, d \in Device : Life(c, d)
    \/ \E d \in Device, w \in Worker : Reconnect(d, w)
    \/ \E d \in Device : Outside(d)

Spec == Init /\ [][Next]_vars

-----------------------------------------------------------------------------
(* Properties.                                                             *)

\* Every variable stays in its domain; a worker that has used its attempts up
\* neither waits nor dials (the loop of startReconnect).
TypeOK ==
    /\ dialer \in [Conn -> Device \cup {None}]
    /\ wire \in [Conn -> WireStates]
    /\ keys \in [Conn -> [Device -> Key]]
    /\ closed \in [Conn -> SUBSET Device]
    /\ stage \in [Conn -> [Device -> Stages]]
    /\ connections \in [Device -> Conn \cup {None}]
    /\ status \in [Device -> {"online", "offline"}]
    /\ suppressReconnect \in [Device -> BOOLEAN]
    /\ reconnectWorkers \in [Device -> Worker \cup {None}]
    /\ worker \in [Device -> [Worker -> WorkerStates]]
    /\ identity \in [Device -> Key]
    /\ pinned \in [Device -> Key]
    /\ owed \in [Device -> BOOLEAN]
    /\ acts \in Nat
    /\ faults \in Nat

\* A registered connection that is still open is the one in the registry:
\* however dials, replacements and endings cross, none lives on beside it,
\* read by a loop but never written to (registerConnection, connectionLoop).
NoOrphan ==
    \A c \in Conn, d \in Device :
       stage[c][d] \in {"mapped", "open"} /\ d \notin closed[c] => connections[d] = c

\* A connection that is on its way to, or in, or just out of the registry.
InHand(d) == \E c \in Conn : stage[c][d] \notin {"none", "over"}

Pursues(d) == \E w \in Worker : worker[d][w].at \in {"waiting", "dialing"} /\ ~ worker[d][w].canceled

\* A device that lost its session without being asked to, and whose worker has
\* not used up its attempts, is after a new one: no crossing of an ending
\* worker, a stopped one, the grace window and a replaced connection leaves
\* it with neither (startReconnect, stopReconnect, the end of connectionLoop).
LostIsPursued ==
    \A d \in Device : owed[d] => InHand(d) \/ Pursues(d)

\* The registry keeps what Sessions promises.
Promise == INSTANCE Sessions WITH
    session <- connections,
    used <- [d \in Device |-> {c \in Conn : stage[c][d] \notin {"none", "made"}}],
    ended <- [d \in Device |-> {c \in Conn : stage[c][d] \notin {"none", "made"} /\ d \in closed[c]}]

\* The registry of each device implements the session Sessions describes: a
\* live session is never dropped from the map, none comes back, and a
\* replaced one is closed (registerConnection, connectionLoop, Stop).
IsSession == Promise!Spec

\* The README says the older session's close does not mark the peer offline
\* when a newer session is registered: with a session in service, no end of
\* another one in hand and nobody disconnecting, the peer is online.
HandoffKeepsOnline ==
    \A d \in Device, c \in Conn :
       /\ connections[d] = c
       /\ stage[c][d] = "open"
       /\ owed[d]
       /\ \A b \in Conn \ {c} : stage[b][d] \in {"none", "over"}
       => status[d] = "online"
=============================================================================
