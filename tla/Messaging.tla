------------------------------ MODULE Messaging ------------------------------
(***************************************************************************)
(* Text messages from one device (the sender) to one peer (the receiver):  *)
(* sendTextMessageWithID, the offline queue and its drain, the receiver's  *)
(* replay checks, acknowledgements and error replies, over a succession of *)
(* TCP connections that may close at any moment, with crashes of either    *)
(* process.  network/peer_manager.go, storage/messages.go,                 *)
(* storage/seen_ids.go.                                                    *)
(*                                                                         *)
(* Every goroutine is a thread of the model: one per SendTextMessage call  *)
(* (the UI starts one goroutine per message), one queue drain per          *)
(* connection, the sender's connectionLoop and the receiver's              *)
(* connectionLoop per connection.  A step is what one goroutine does       *)
(* between two points where another one can interfere (a database          *)
(* statement, a frame written, a lock released).                           *)
(***************************************************************************)
EXTENDS Naturals, Sequences, FiniteSets, FiniteSetsExt

CONSTANTS
  Messages,      \* message IDs (uuid.NewString); each is submitted at most once
  MaxConns,      \* bound: TCP connections the two devices ever establish
  MaxQueued,     \* maxQueuedMessages, per peer
  MaxBytes,      \* maxQueuedBytesPerPeer
  Size,          \* content length of each message
  Skew,          \* maxTimestampSkew, in clock ticks
  QueueAge,      \* maxQueueAge, in clock ticks
  SeenRetention, \* seenIDRetention, in clock ticks
  MaxClock,      \* bound: clock ticks
  MaxCrashes,    \* bound: process crashes, of either device
  Clearing,      \* whether the users clear the chat history
  Rekeying       \* whether rekeys may make a frame or a content undecryptable

ASSUME MessagingAssumption ==
  /\ IsFiniteSet(Messages)
  /\ {MaxConns, MaxQueued, MaxBytes, Skew, QueueAge, SeenRetention, MaxClock,
      MaxCrashes} \subseteq Nat
  /\ Size \in [Messages -> Nat]
  /\ Skew < QueueAge /\ QueueAge < SeenRetention
  /\ {Clearing, Rekeying} \subseteq BOOLEAN

VARIABLES
  clock,      \* time.Now of both devices (assumed synchronised)
  row,        \* sender's messages table: delivery_status of each message
  ts,         \* timestamp_sent of each message
  made,       \* connections established so far
  current,    \* sender's m.connections[peer]; 0 when absent
  sconn,      \* sender's end of each connection
  rconn,      \* receiver's end of each connection
  sendSeq,    \* sender's sendSequence, per connection
  lastSeen,   \* receiver's lastSeenSeq, per connection
  wire,       \* frames in flight to the receiver, per connection
  back,       \* replies in flight to the sender, per connection
  upc,        \* user goroutine of each message: program counter
  uconn,      \* the connection that goroutine got from getConnection
  useq,       \* the sequence number it put in the message
  ustatus,    \* the delivery status it will save
  victims,    \* rows an enforceQueueLimits call still has to fail, oldest first,
              \* per thread
  dpc,        \* queue drain of each connection: program counter
  todo,       \* the drain's snapshot of pending messages, oldest first
  dseq,       \* the sequence number of the message it is sending
  active,     \* m.activeDrains[peer]
  sloop,      \* sender's connectionLoop, per connection
  hpc,        \* receiver's connectionLoop, per connection: the message it is
              \* handling stays at the head of wire until the handler returns
  known,      \* whether the receiver has the sender in its peers table
  stored,     \* receiver's messages table
  seenAt,     \* receiver's seen_message_ids: received_at + 1, or 0
  crashes,    \* crashes so far
  everStored, \* history: messages the receiver ever stored
  notified,   \* history: OnMessageReceived calls per message
  writes,     \* history: times each message was written to a connection
  acked       \* history: messages whose ack the sender has handled

timeVars  == <<clock, crashes>>
rowVars   == <<row, ts>>
linkVars  == <<made, current, sconn, rconn, sendSeq, lastSeen>>
userVars  == <<upc, uconn, useq, ustatus>>
drainVars == <<dpc, todo, dseq, active>>
recvVars  == <<hpc, known, stored, seenAt, everStored, notified>>
vars == <<timeVars, rowVars, linkVars, wire, back, userVars, victims,
          drainVars, sloop, recvVars, writes, acked>>

Conns   == 1..MaxConns
Threads == [kind : {"user"}, of : Messages] \cup [kind : {"drain"}, of : Conns]
User(m)  == [kind |-> "user", of |-> m]
Drain(c) == [kind |-> "drain", of |-> c]

Statuses == {"none", "pending", "sent", "delivered", "failed", "deleted"}
HasRow(m) == row[m] \notin {"none", "deleted"}
Frame  == [id : Messages, seq : Nat]
Reply  == [kind : {"ack", "error"}, id : Messages]

Init ==
  /\ clock = 0 /\ crashes = 0
  /\ row = [m \in Messages |-> "none"]
  /\ ts = [m \in Messages |-> 0]
  /\ made = 0 /\ current = 0
  /\ sconn = [c \in Conns |-> "new"]
  /\ rconn = [c \in Conns |-> "new"]
  /\ sendSeq = [c \in Conns |-> 0]
  /\ lastSeen = [c \in Conns |-> 0]
  /\ wire = [c \in Conns |-> <<>>]
  /\ back = [c \in Conns |-> <<>>]
  /\ upc = [m \in Messages |-> "idle"]
  /\ uconn = [m \in Messages |-> 0]
  /\ useq = [m \in Messages |-> 0]
  /\ ustatus = [m \in Messages |-> "pending"]
  /\ victims = [t \in Threads |-> <<>>]
  /\ dpc = [c \in Conns |-> "off"]
  /\ todo = [c \in Conns |-> <<>>]
  /\ dseq = [c \in Conns |-> 0]
  /\ active = FALSE
  /\ sloop = [c \in Conns |-> "off"]
  /\ hpc = [c \in Conns |-> "off"]
  /\ known \in BOOLEAN
  /\ stored = {} /\ everStored = {}
  /\ seenAt = [m \in Messages |-> 0]
  /\ notified = [m \in Messages |-> 0]
  /\ writes = [m \in Messages |-> 0]
  /\ acked = {}

-----------------------------------------------------------------------------
(* Storage operators. *)

\* UpdateDeliveryStatus and MarkDelivered: an unconditional UPDATE of an
\* existing row; ErrNotFound is ignored by every caller.
UpdateDeliveryStatus(m, status) ==
  row' = IF HasRow(m) THEN [row EXCEPT ![m] = status] ELSE row

\* PruneExpiredQueue: pending rows older than the queue age become failed.
Expired(m) == ts[m] + QueueAge < clock
PruneExpiredQueue ==
  [m \in Messages |-> IF row[m] = "pending" /\ Expired(m) THEN "failed" ELSE row[m]]

\* GetPendingMessages: ORDER BY timestamp_sent, rows of the same millisecond in
\* any order.
Pending(r) == {m \in Messages : r[m] = "pending"}
OldestFirst(S) ==
  {s \in [1..Cardinality(S) -> S] :
     \A i, j \in DOMAIN s : i < j => s[i] # s[j] /\ ts[s[i]] <= ts[s[j]]}

\* The loop of enforceQueueLimits: it drops the oldest rows until the rest of
\* the snapshot s fits.
Bytes(S) == MapThenSumSet(LAMBDA m : Size[m], S)
Overflow(S) == Cardinality(S) > MaxQueued \/ Bytes(S) > MaxBytes
Rest(s, k) == {s[i] : i \in (k+1)..Len(s)}
\* Mutated form: the loop stops one message early.
DropsButOne(s, k) == ~Overflow(Rest(s, k + 1))
Drops(s, k) ==
  ~Overflow(Rest(s, k)) /\ \A j \in 0..(k-1) : Overflow(Rest(s, j))

\* enforceQueueLimits up to its first UPDATE: prune, read the pending rows and
\* decide which ones to drop.
EnforceQueueLimits(t) ==
  /\ row' = PruneExpiredQueue
  /\ \E s \in OldestFirst(Pending(row')) : \E k \in 0..Len(s) :
       /\ Drops(s, k)
       /\ victims' = [victims EXCEPT ![t] = SubSeq(s, 1, k)]

\* One UpdateDeliveryStatus(oldest, failed) of that loop.
FailVictim(t) ==
  /\ victims[t] # <<>>
  /\ UpdateDeliveryStatus(Head(victims[t]), "failed")
  /\ victims' = [victims EXCEPT ![t] = Tail(@)]

-----------------------------------------------------------------------------
(* SendTextMessage: one goroutine per message. *)

\* Take the timestamp, look the connection up and test its state.
Submit(m) ==
  /\ upc[m] = "idle"
  /\ ts' = [ts EXCEPT ![m] = clock]
  /\ IF current # 0 /\ sconn[current] = "open"
     THEN /\ upc' = [upc EXCEPT ![m] = "build"]
          /\ uconn' = [uconn EXCEPT ![m] = current]
     ELSE /\ upc' = [upc EXCEPT ![m] = "save"]
          /\ UNCHANGED uconn
  /\ UNCHANGED <<timeVars, row, linkVars, wire, back, useq, ustatus, victims,
                 drainVars, sloop, recvVars, writes, acked>>

\* buildEncryptedMessage takes the next sequence number of the connection.
BuildMessage(m) ==
  /\ upc[m] = "build"
  /\ sendSeq' = [sendSeq EXCEPT ![uconn[m]] = @ + 1]
  /\ useq' = [useq EXCEPT ![m] = sendSeq'[uconn[m]]]
  /\ upc' = [upc EXCEPT ![m] = "write"]
  /\ UNCHANGED <<timeVars, rowVars, made, current, sconn, rconn, lastSeen, wire,
                 back, uconn, ustatus, victims, drainVars, sloop, recvVars,
                 writes, acked>>

\* SendRaw of message m on connection c, with sequence number n.  A frame for a
\* receiver whose loop has ended is accepted by the kernel and never read.
WriteFrame(m, c, n) ==
  /\ sconn[c] = "open"
  /\ wire' = IF hpc[c] = "ended" THEN wire
             ELSE [wire EXCEPT ![c] = Append(@, [id |-> m, seq |-> n])]
  /\ writes' = [writes EXCEPT ![m] = @ + 1]

\* The goroutine is done with its connection and goes on to save the row.
ForgetConnection(m) ==
  /\ uconn' = [uconn EXCEPT ![m] = 0]
  /\ useq' = [useq EXCEPT ![m] = 0]
  /\ upc' = [upc EXCEPT ![m] = "save"]

\* conn.SendMessage succeeds: the row will be saved as sent.
SendMessage(m) ==
  /\ upc[m] = "write"
  /\ WriteFrame(m, uconn[m], useq[m])
  /\ ustatus' = [ustatus EXCEPT ![m] = "sent"]
  /\ ForgetConnection(m)
  /\ UNCHANGED <<timeVars, rowVars, linkVars, back, victims, drainVars, sloop,
                 recvVars, acked>>

\* conn.SendMessage fails (closed already, or the write closes it): the message
\* stays pending.
SendMessageFails(m) ==
  /\ upc[m] = "write"
  /\ sconn' = [sconn EXCEPT ![uconn[m]] = "closed"]
  /\ ForgetConnection(m)
  /\ UNCHANGED <<timeVars, rowVars, made, current, rconn, sendSeq, lastSeen, wire,
                 back, ustatus, victims, drainVars, sloop, recvVars, writes,
                 acked>>

\* Store.SaveMessage inserts the row with the status decided above.
SaveOutgoing(m) ==
  /\ upc[m] = "save"
  /\ row' = [row EXCEPT ![m] = ustatus[m]]
  /\ upc' = [upc EXCEPT ![m] = IF ustatus[m] = "pending" THEN "enforce" ELSE "done"]
  /\ UNCHANGED <<timeVars, ts, linkVars, wire, back, uconn, useq, ustatus, victims,
                 drainVars, sloop, recvVars, writes, acked>>

UserEnforce(m) ==
  /\ upc[m] = "enforce"
  /\ EnforceQueueLimits(User(m))
  /\ upc' = [upc EXCEPT ![m] = "drop"]
  /\ UNCHANGED <<timeVars, ts, linkVars, wire, back, uconn, useq, ustatus,
                 drainVars, sloop, recvVars, writes, acked>>

UserDrop(m) ==
  /\ upc[m] = "drop"
  /\ FailVictim(User(m))
  /\ UNCHANGED <<timeVars, ts, linkVars, wire, back, userVars, drainVars, sloop,
                 recvVars, writes, acked>>

UserReturn(m) ==
  /\ upc[m] = "drop" /\ victims[User(m)] = <<>>
  /\ upc' = [upc EXCEPT ![m] = "done"]
  /\ UNCHANGED <<timeVars, rowVars, linkVars, wire, back, uconn, useq, ustatus,
                 victims, drainVars, sloop, recvVars, writes, acked>>

-----------------------------------------------------------------------------
(* The queue drain started by registerConnection. *)

DrainEnforce(c) ==
  /\ dpc[c] = "enforce"
  /\ EnforceQueueLimits(Drain(c))
  /\ dpc' = [dpc EXCEPT ![c] = "drop"]
  /\ UNCHANGED <<timeVars, ts, linkVars, wire, back, userVars, todo, dseq, active,
                 sloop, recvVars, writes, acked>>

DrainDrop(c) ==
  /\ dpc[c] = "drop"
  /\ FailVictim(Drain(c))
  /\ UNCHANGED <<timeVars, ts, linkVars, wire, back, userVars, drainVars, sloop,
                 recvVars, writes, acked>>

\* GetPendingMessages: the snapshot the drain walks through.
DrainFetch(c) ==
  /\ dpc[c] = "drop" /\ victims[Drain(c)] = <<>>
  /\ todo' \in {[todo EXCEPT ![c] = s] : s \in OldestFirst(Pending(row))}
  /\ dpc' = [dpc EXCEPT ![c] = "next"]
  /\ UNCHANGED <<timeVars, rowVars, linkVars, wire, back, userVars, victims, dseq,
                 active, sloop, recvVars, writes, acked>>

\* The deferred delete(m.activeDrains, peerID).
StopDrain(c) ==
  /\ dpc' = [dpc EXCEPT ![c] = "off"]
  /\ todo' = [todo EXCEPT ![c] = <<>>]
  /\ dseq' = [dseq EXCEPT ![c] = 0]
  /\ active' = FALSE

\* The connection is still up: build the next message of the snapshot.
\* Mutated form: the loop does not test that a message is left.
SendsMoreUnchecked(c) == sconn[c] # "closed"
SendsMore(c) == todo[c] # <<>> /\ sconn[c] # "closed"
DrainBuild(c) ==
  /\ dpc[c] = "next" /\ SendsMore(c)
  /\ sendSeq' = [sendSeq EXCEPT ![c] = @ + 1]
  /\ dseq' = [dseq EXCEPT ![c] = sendSeq'[c]]
  /\ dpc' = [dpc EXCEPT ![c] = "write"]
  /\ UNCHANGED <<timeVars, rowVars, made, current, sconn, rconn, lastSeen, wire,
                 back, userVars, victims, todo, active, sloop, recvVars,
                 writes, acked>>

\* The snapshot is finished, or the connection is found disconnected.
DrainReturn(c) ==
  /\ dpc[c] = "next" /\ ~SendsMore(c)
  /\ StopDrain(c)
  /\ UNCHANGED <<timeVars, rowVars, linkVars, wire, back, userVars, victims, sloop,
                 recvVars, writes, acked>>

DrainSend(c) ==
  /\ dpc[c] = "write"
  /\ WriteFrame(Head(todo[c]), c, dseq[c])
  /\ dpc' = [dpc EXCEPT ![c] = "update"]
  /\ UNCHANGED <<timeVars, rowVars, linkVars, back, userVars, victims, todo, dseq,
                 active, sloop, recvVars, acked>>

\* sendPendingMessage returns the write error and the drain ends.
DrainSendFails(c) ==
  /\ dpc[c] = "write"
  /\ sconn' = [sconn EXCEPT ![c] = "closed"]
  /\ StopDrain(c)
  /\ UNCHANGED <<timeVars, rowVars, made, current, rconn, sendSeq, lastSeen, wire,
                 back, userVars, victims, sloop, recvVars, writes, acked>>

\* Where the drain goes on after a message.
\* Mutated form: the drain sends one message and stops.
RemainingNone(s) == <<>>
Remaining(s) == Tail(s)

\* UpdateDeliveryStatus(sent), after the frame has left.
DrainUpdate(c) ==
  /\ dpc[c] = "update"
  /\ UpdateDeliveryStatus(Head(todo[c]), "sent")
  /\ todo' = [todo EXCEPT ![c] = Remaining(@)]
  /\ dseq' = [dseq EXCEPT ![c] = 0]
  /\ dpc' = [dpc EXCEPT ![c] = "next"]
  /\ UNCHANGED <<timeVars, ts, linkVars, wire, back, userVars, victims, active,
                 sloop, recvVars, writes, acked>>

-----------------------------------------------------------------------------
(* The receiver's connectionLoop: handleIncomingEncryptedMessage. *)

Incoming(c) == Head(wire[c]).id
Receiving(c) == hpc[c] = "recv" /\ wire[c] # <<>>
FinishMessage(c) == wire' = [wire EXCEPT ![c] = Tail(@)]

\* A reply written on connection c: lost when the receiver's end is closed, or
\* when the sender's loop has ended and will not read it.
SendReply(c, kind) ==
  back' = IF rconn[c] = "open" /\ sloop[c] = "run"
          THEN [back EXCEPT ![c] = Append(@, [kind |-> kind, id |-> Incoming(c)])]
          ELSE back

TooOld(c) == ts[Incoming(c)] + Skew < clock
Replayed(c) == Head(wire[c]).seq <= lastSeen[c]
Seen(m) == seenAt[m] > 0

\* withinTimestampSkew fails: error reply timestamp_out_of_range.
RejectTimestamp(c) ==
  /\ Receiving(c) /\ TooOld(c)
  /\ SendReply(c, "error")
  /\ FinishMessage(c)
  /\ UNCHANGED <<timeVars, rowVars, linkVars, userVars, victims, drainVars, sloop,
                 recvVars, writes, acked>>

\* ValidateSequence fails: the message is dropped without a reply.
RejectSequence(c) ==
  /\ Receiving(c) /\ ~TooOld(c) /\ Replayed(c)
  /\ FinishMessage(c)
  /\ UNCHANGED <<timeVars, rowVars, linkVars, back, userVars, victims, drainVars,
                 sloop, recvVars, writes, acked>>

\* ValidateSequence succeeds and records the sequence number.
AcceptSequence(c) ==
  /\ Receiving(c) /\ ~TooOld(c) /\ ~Replayed(c)
  /\ lastSeen' = [lastSeen EXCEPT ![c] = Head(wire[c]).seq]
  /\ UNCHANGED <<made, current, sconn, rconn, sendSeq>>

\* HasSeenID: the message is dropped without a reply.
RejectSeen(c) ==
  /\ AcceptSequence(c) /\ Seen(Incoming(c))
  /\ FinishMessage(c)
  /\ UNCHANGED <<timeVars, rowVars, back, userVars, victims, drainVars, sloop,
                 recvVars, writes, acked>>

\* The content was encrypted with a session key the receiver no longer uses:
\* error reply decryption_failed.
RejectCiphertext(c) ==
  /\ Rekeying
  /\ AcceptSequence(c) /\ ~Seen(Incoming(c))
  /\ SendReply(c, "error")
  /\ FinishMessage(c)
  /\ UNCHANGED <<timeVars, rowVars, userVars, victims, drainVars, sloop, recvVars,
                 writes, acked>>

\* Every check passed and the content is decrypted.
AcceptMessage(c) ==
  /\ AcceptSequence(c) /\ ~Seen(Incoming(c))
  /\ hpc' = [hpc EXCEPT ![c] = "save"]
  /\ UNCHANGED <<timeVars, rowVars, wire, back, userVars, victims, drainVars, sloop,
                 known, stored, seenAt, everStored, notified, writes, acked>>

\* Store.SaveMessage: message_id is the primary key and from_device_id refers
\* to the peers table; on error the handler returns without an ack.
\* Mutated form: INSERT OR REPLACE.
CanReplace(m) == known
CanInsert(m) == m \notin stored /\ known

\* Mutated form: a failed insert is reported and the handler goes on.
SaveIncomingAckAnyway(c) ==
  /\ hpc[c] = "save"
  /\ LET S == IF CanInsert(Incoming(c)) THEN {Incoming(c)} ELSE {}
     IN  stored' = stored \cup S /\ everStored' = everStored \cup S
  /\ hpc' = [hpc EXCEPT ![c] = "seen"]
  /\ UNCHANGED <<timeVars, rowVars, linkVars, wire, back, userVars, victims,
                 drainVars, sloop, known, seenAt, notified, writes, acked>>

SaveIncoming(c) ==
  /\ hpc[c] = "save"
  /\ IF CanInsert(Incoming(c))
     THEN /\ stored' = stored \cup {Incoming(c)}
          /\ everStored' = everStored \cup {Incoming(c)}
          /\ hpc' = [hpc EXCEPT ![c] = "seen"]
          /\ UNCHANGED wire
     ELSE /\ hpc' = [hpc EXCEPT ![c] = "recv"]
          /\ FinishMessage(c)
          /\ UNCHANGED <<stored, everStored>>
  /\ UNCHANGED <<timeVars, rowVars, linkVars, back, userVars, victims, drainVars,
                 sloop, known, seenAt, notified, writes, acked>>

\* InsertSeenID and the OnMessageReceived callback.
InsertSeenID(c) ==
  /\ hpc[c] = "seen"
  /\ seenAt' = [seenAt EXCEPT ![Incoming(c)] = clock + 1]
  /\ notified' = [notified EXCEPT ![Incoming(c)] = @ + 1]
  /\ hpc' = [hpc EXCEPT ![c] = "ack"]
  /\ UNCHANGED <<timeVars, rowVars, linkVars, wire, back, userVars, victims,
                 drainVars, sloop, known, stored, everStored, writes, acked>>

\* The signed ack, last step of the handler.
SendAck(c) ==
  /\ hpc[c] = "ack"
  /\ SendReply(c, "ack")
  /\ FinishMessage(c)
  /\ hpc' = [hpc EXCEPT ![c] = "recv"]
  /\ UNCHANGED <<timeVars, rowVars, linkVars, userVars, victims, drainVars, sloop,
                 known, stored, seenAt, everStored, notified, writes, acked>>

\* readLoop discards a frame whose epoch it does not hold (see SecureSession).
DiscardFrame(c) ==
  /\ Rekeying /\ Receiving(c)
  /\ FinishMessage(c)
  /\ UNCHANGED <<timeVars, rowVars, linkVars, back, userVars, victims, drainVars,
                 sloop, recvVars, writes, acked>>

\* connectionLoop leaves when ReceiveMessage picks the closed channel; buffered
\* payloads may still be handled before that.
ReceiverLoopEnds(c) ==
  /\ hpc[c] = "recv" /\ rconn[c] = "closed"
  /\ hpc' = [hpc EXCEPT ![c] = "ended"]
  /\ wire' = [wire EXCEPT ![c] = <<>>]
  /\ UNCHANGED <<timeVars, rowVars, linkVars, back, userVars, victims, drainVars,
                 sloop, known, stored, seenAt, everStored, notified, writes,
                 acked>>

-----------------------------------------------------------------------------
(* The sender's connectionLoop: handleAck and handleProtocolError. *)

HandleReply(c, kind) ==
  /\ sloop[c] = "run" /\ back[c] # <<>> /\ Head(back[c]).kind = kind
  /\ back' = [back EXCEPT ![c] = Tail(@)]

\* An ack for a message without a row (ErrNotFound) is ignored.
HandleAck(c) ==
  /\ HandleReply(c, "ack")
  /\ UpdateDeliveryStatus(Head(back[c]).id, "delivered")
  /\ acked' = acked \cup {Head(back[c]).id}
  /\ UNCHANGED <<timeVars, ts, linkVars, wire, userVars, victims, drainVars, sloop,
                 recvVars, writes>>

HandleProtocolError(c) ==
  /\ HandleReply(c, "error")
  /\ UpdateDeliveryStatus(Head(back[c]).id, "failed")
  /\ UNCHANGED <<timeVars, ts, linkVars, wire, userVars, victims, drainVars, sloop,
                 recvVars, writes, acked>>

\* connectionLoop leaves and removes its connection if it is still registered.
SenderLoopEnds(c) ==
  /\ sloop[c] = "run" /\ sconn[c] = "closed"
  /\ sloop' = [sloop EXCEPT ![c] = "ended"]
  /\ back' = [back EXCEPT ![c] = <<>>]
  /\ current' = IF current = c THEN 0 ELSE current
  /\ UNCHANGED <<timeVars, rowVars, made, sconn, rconn, sendSeq, lastSeen, wire,
                 userVars, victims, drainVars, recvVars, writes, acked>>

-----------------------------------------------------------------------------
(* Connections, crashes, time and the users. *)

\* A handshake completes and both managers run registerConnection: the newest
\* connection replaces and closes the one before it, and the sender starts a
\* queue drain unless one is active.
Closed(conn) == [d \in Conns |-> IF conn[d] = "open" THEN "closed" ELSE conn[d]]
\* Mutated form: activeDrains is not tested.
StartQueueDrainAlways(c) ==
  /\ active' = TRUE
  /\ dpc' = [dpc EXCEPT ![c] = "enforce"]
  /\ UNCHANGED <<todo, dseq>>
StartQueueDrain(c) ==
  IF active
  THEN UNCHANGED drainVars
  ELSE /\ active' = TRUE
       /\ dpc' = [dpc EXCEPT ![c] = "enforce"]
       /\ UNCHANGED <<todo, dseq>>

RegisterConnection(c) ==
  /\ c = made + 1
  /\ made' = c /\ current' = c
  /\ sconn' = [Closed(sconn) EXCEPT ![c] = "open"]
  /\ rconn' = [Closed(rconn) EXCEPT ![c] = "open"]
  /\ sloop' = [sloop EXCEPT ![c] = "run"]
  /\ hpc' = [hpc EXCEPT ![c] = "recv"]
  /\ StartQueueDrain(c)
  /\ UNCHANGED <<timeVars, rowVars, sendSeq, lastSeen, wire, back, userVars, victims,
                 known, stored, seenAt, everStored, notified, writes, acked>>

\* closeWithError at either end: EOF, a failed write, the pong timeout, three
\* malformed frames, or the user.  What is in flight may be lost with it.
CloseSender(c) ==
  /\ sconn[c] = "open"
  /\ sconn' = [sconn EXCEPT ![c] = "closed"]
  /\ UNCHANGED <<timeVars, rowVars, made, current, rconn, sendSeq, lastSeen, wire,
                 back, userVars, victims, drainVars, sloop, recvVars, writes,
                 acked>>

CloseReceiver(c) ==
  /\ rconn[c] = "open"
  /\ rconn' = [rconn EXCEPT ![c] = "closed"]
  /\ UNCHANGED <<timeVars, rowVars, made, current, sconn, sendSeq, lastSeen, wire,
                 back, userVars, victims, drainVars, sloop, recvVars, writes,
                 acked>>

\* The sending process dies and restarts: only its database survives.
SenderCrashes ==
  /\ crashes < MaxCrashes
  /\ crashes' = crashes + 1
  /\ sconn' = Closed(sconn) /\ current' = 0
  /\ sloop' = [c \in Conns |-> IF sloop[c] = "run" THEN "ended" ELSE sloop[c]]
  /\ upc' = [m \in Messages |-> IF upc[m] = "idle" THEN "idle" ELSE "done"]
  /\ victims' = [t \in Threads |-> <<>>]
  /\ dpc' = [c \in Conns |-> "off"] /\ todo' = [c \in Conns |-> <<>>]
  /\ active' = FALSE /\ dseq' = [c \in Conns |-> 0]
  /\ uconn' = [m \in Messages |-> 0] /\ useq' = [m \in Messages |-> 0]
  /\ back' = [c \in Conns |-> <<>>]
  /\ UNCHANGED <<clock, rowVars, made, rconn, sendSeq, lastSeen, wire, ustatus,
                 recvVars, writes, acked>>

ReceiverCrashes ==
  /\ crashes < MaxCrashes
  /\ crashes' = crashes + 1
  /\ rconn' = Closed(rconn)
  /\ hpc' = [c \in Conns |-> IF hpc[c] = "off" THEN "off" ELSE "ended"]
  /\ wire' = [c \in Conns |-> <<>>]
  /\ UNCHANGED <<clock, rowVars, made, current, sconn, sendSeq, lastSeen, back,
                 userVars, victims, drainVars, sloop, known, stored, seenAt,
                 everStored, notified, writes, acked>>

Tick ==
  /\ clock < MaxClock
  /\ clock' = clock + 1
  /\ UNCHANGED <<crashes, rowVars, linkVars, wire, back, userVars, victims,
                 drainVars, sloop, recvVars, writes, acked>>

\* The add-peer flow gives the receiver a peers row for the sender.
AddPeer ==
  /\ ~known /\ known' = TRUE
  /\ UNCHANGED <<timeVars, rowVars, linkVars, wire, back, userVars, victims,
                 drainVars, sloop, hpc, stored, seenAt, everStored, notified,
                 writes, acked>>

\* DeleteMessagesForPeer (Clear History) on either device.
ClearSenderHistory ==
  /\ Clearing
  /\ row' = [m \in Messages |-> IF HasRow(m) THEN "deleted" ELSE row[m]]
  /\ UNCHANGED <<timeVars, ts, linkVars, wire, back, userVars, victims, drainVars,
                 sloop, recvVars, writes, acked>>

ClearReceiverHistory ==
  /\ Clearing
  /\ stored' = {}
  /\ UNCHANGED <<timeVars, rowVars, linkVars, wire, back, userVars, victims,
                 drainVars, sloop, hpc, known, seenAt, everStored, notified,
                 writes, acked>>

\* runMaintenanceCleanup: PruneOldEntries on the receiver.
PruneOldEntries ==
  /\ \E m \in Messages : Seen(m) /\ seenAt[m] - 1 + SeenRetention < clock
  /\ seenAt' = [m \in Messages |->
       IF Seen(m) /\ seenAt[m] - 1 + SeenRetention < clock THEN 0 ELSE seenAt[m]]
  /\ UNCHANGED <<timeVars, rowVars, linkVars, wire, back, userVars, victims,
                 drainVars, sloop, hpc, known, stored, everStored, notified,
                 writes, acked>>
-----------------------------------------------------------------------------
UserStep(m) ==
  \/ BuildMessage(m) \/ SendMessage(m) \/ SendMessageFails(m)
  \/ SaveOutgoing(m) \/ UserEnforce(m) \/ UserDrop(m) \/ UserReturn(m)

DrainStep(c) ==
  \/ DrainEnforce(c) \/ DrainDrop(c) \/ DrainFetch(c) \/ DrainBuild(c)
  \/ DrainReturn(c) \/ DrainSend(c) \/ DrainSendFails(c) \/ DrainUpdate(c)

ReceiverStep(c) ==
  \/ RejectTimestamp(c) \/ RejectSequence(c) \/ RejectSeen(c)
  \/ RejectCiphertext(c) \/ AcceptMessage(c) \/ SaveIncoming(c)
  \/ InsertSeenID(c) \/ SendAck(c) \/ DiscardFrame(c) \/ ReceiverLoopEnds(c)

SenderLoopStep(c) ==
  HandleAck(c) \/ HandleProtocolError(c) \/ SenderLoopEnds(c)

Environment ==
  \/ \E m \in Messages : Submit(m)
  \/ \E c \in Conns : RegisterConnection(c) \/ CloseSender(c) \/ CloseReceiver(c)
  \/ SenderCrashes \/ ReceiverCrashes
  \/ Tick \/ AddPeer
  \/ ClearSenderHistory \/ ClearReceiverHistory \/ PruneOldEntries

Next ==
  \/ \E m \in Messages : UserStep(m)
  \/ \E c \in Conns : DrainStep(c) \/ ReceiverStep(c) \/ SenderLoopStep(c)
  \/ Environment

Spec == Init /\ [][Next]_vars

\* Go runs every goroutine that can run: a drain takes its next step.  Nothing
\* is asked of the users, the network, the clock or the other goroutines.
Fairness == \A c \in Conns : WF_vars(DrainStep(c))

FairSpec == Spec /\ Fairness
-----------------------------------------------------------------------------
(* Properties. *)

UserStates  == {"idle", "build", "write", "save", "enforce", "drop", "done"}
DrainStates == {"off", "enforce", "drop", "next", "write", "update"}
LoopStates  == {"off", "recv", "save", "seen", "ack", "ended"}
ConnStates  == {"new", "open", "closed"}

TableOK ==
  /\ clock \in Nat /\ crashes \in Nat
  /\ row \in [Messages -> Statuses] /\ ts \in [Messages -> Nat]
  /\ writes \in [Messages -> Nat] /\ acked \subseteq Messages
LinkOK ==
  /\ made \in 0..MaxConns /\ current \in 0..MaxConns
  /\ sconn \in [Conns -> ConnStates] /\ rconn \in [Conns -> ConnStates]
  /\ sendSeq \in [Conns -> Nat] /\ lastSeen \in [Conns -> Nat]
  /\ sloop \in [Conns -> {"off", "run", "ended"}]
WireOK ==
  /\ wire \in [Conns -> Seq(Frame)] /\ back \in [Conns -> Seq(Reply)]
  /\ hpc \in [Conns -> LoopStates]
  /\ \A c \in Conns : hpc[c] \in {"save", "seen", "ack"} => wire[c] # <<>>
UserOK ==
  /\ upc \in [Messages -> UserStates] /\ uconn \in [Messages -> 0..MaxConns]
  /\ useq \in [Messages -> Nat] /\ ustatus \in [Messages -> {"pending", "sent"}]
  /\ \A m \in Messages : upc[m] \in {"build", "write"} => uconn[m] # 0
DrainOK ==
  /\ victims \in [Threads -> Seq(Messages)]
  /\ dpc \in [Conns -> DrainStates] /\ todo \in [Conns -> Seq(Messages)]
  /\ dseq \in [Conns -> Nat] /\ active \in BOOLEAN
  /\ \A c \in Conns : dpc[c] \in {"write", "update"} => todo[c] # <<>>
RecvOK ==
  /\ known \in BOOLEAN /\ stored \subseteq Messages /\ everStored \subseteq Messages
  /\ seenAt \in [Messages -> Nat] /\ notified \in [Messages -> Nat]

\* Every variable keeps its type; a receiver that is in the middle of a handler
\* has the message it handles at the head of the connection, and a drain that is
\* sending has a message to send (no index out of range in the drain loop).
TypeOK == TableOK /\ LinkOK /\ WireOK /\ UserOK /\ DrainOK /\ RecvOK

\* The double tick tells the truth: when the sender shows a message as
\* delivered, the receiver has stored it (handleIncomingEncryptedMessage acks
\* only after SaveMessage, whatever connections, crashes, rejections and queue
\* limits happened in between).
DeliveredWasStored ==
  \A m \in Messages : row[m] = "delivered" => m \in everStored

\* A message is announced to the receiver's user at most once, although a crash
\* of the sender makes it send the message again on another connection while
\* the handler of the first is still running.
AtMostOnce ==
  \A m \in Messages : notified[m] <= 1

\* Without a crash no message is transmitted twice: what the user's goroutine
\* wrote is never queued, and what one drain wrote the next one does not find
\* pending.
NoDuplicateTransmission ==
  crashes = 0 => \A m \in Messages : writes[m] <= 1

\* The queue limits hold whenever no enforceQueueLimits call is under way or
\* due, whichever way concurrent calls and drains read each other's rows.
Enforcing ==
  \/ \E m \in Messages : upc[m] \in {"enforce", "drop"}
  \/ \E c \in Conns : dpc[c] \in {"enforce", "drop"}
QueueBounded ==
  crashes = 0 /\ ~Enforcing => ~Overflow(Pending(row))

\* What a drain finds pending leaves the queue, unless the connection closes
\* first: the drain does not stop half way.
Fetching(c, m) == dpc[c] = "drop" /\ victims[Drain(c)] = <<>> /\ row[m] = "pending"
DrainEmptiesQueue ==
  \A c \in Conns, m \in Messages :
    Fetching(c, m) ~> (row[m] # "pending" \/ sconn[c] = "closed")

\* "If send succeeds immediately: status `sent` then `delivered` after `ack`":
\* once the ack is handled and the threads that write the row are done, the row
\* is delivered (or cleared).
Settled(m) ==
  /\ upc[m] = "done"
  /\ \A c \in Conns : dpc[c] = "update" => Head(todo[c]) # m
AckedIsDelivered ==
  \A m \in Messages :
    m \in acked /\ Settled(m) => row[m] \in {"delivered", "deleted"}
=============================================================================
