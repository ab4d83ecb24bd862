--------------------------- MODULE Messaging_proofs ---------------------------
(***************************************************************************)
(* Machine-checked proofs about Messaging, for every set of messages, every *)
(* number of connections, every limit and any number of crashes.           *)
(*                                                                         *)
(* TypeOK is inductive as it stands: the lemmas below show that each group  *)
(* of its conjuncts survives the updates the actions make, and the thread   *)
(* lemmas (UserType, DrainType, ReceiverType, SenderLoopType,              *)
(* EnvironmentType) have one case per action.                              *)
(*                                                                         *)
(* DeliveredWasStored is not inductive: the row becomes delivered when an  *)
(* ack is handled, long after the receiver stored the message.  The        *)
(* strengthening DeliveryInv follows the message back: an ack in flight,   *)
(* and a handler that is past SaveMessage, are about a stored message.     *)
(*                                                                         *)
(* AtMostOnce needs to know about every handler that is between SaveMessage *)
(* and the callback: its message is in the table, was not announced yet,   *)
(* and no other handler is there with the same one (AnnounceInv).          *)
(*                                                                         *)
(* NoDuplicateTransmission needs to know where a message that was never    *)
(* written can be.  TransmitInv follows it: before its row exists          *)
(* (EarlyOK), while its row is pending (PendingOK), and in the snapshot of *)
(* the one drain there is (AheadOK, OneDrain).                             *)
(*                                                                         *)
(* QueueBounded holds because the call that drops rows last has seen them  *)
(* all: QueueInv says that a call is due, or that one at work leaves the   *)
(* queue within its limits, or that it is within them.                     *)
(***************************************************************************)
EXTENDS Messaging, FiniteSetTheorems, WellFoundedInduction, TLAPS

-----------------------------------------------------------------------------
(* What the operators of the model return. *)

\* A snapshot of pending rows is a sequence of messages.
LEMMA OldestFirstType ==
  ASSUME NEW S \in SUBSET Messages, NEW s \in OldestFirst(S)
  PROVE  s \in Seq(Messages)
<1>1. IsFiniteSet(S)  BY FS_Subset, MessagingAssumption
<1>2. Cardinality(S) \in Nat  BY <1>1, FS_CardinalityType
<1> QED  BY <1>2 DEF OldestFirst

\* UpdateDeliveryStatus keeps the type of the messages table.
LEMMA UpdateType ==
  ASSUME row \in [Messages -> Statuses], NEW m, NEW s \in Statuses,
         UpdateDeliveryStatus(m, s)
  PROVE  row' \in [Messages -> Statuses]
BY DEF UpdateDeliveryStatus, Statuses

\* enforceQueueLimits keeps the type of the table and of its list of victims.
LEMMA EnforceType ==
  ASSUME TypeOK, NEW t \in Threads, EnforceQueueLimits(t)
  PROVE  row' \in [Messages -> Statuses] /\ victims' \in [Threads -> Seq(Messages)]
<1>1. row' \in [Messages -> Statuses]
  BY DEF EnforceQueueLimits, PruneExpiredQueue, TypeOK, TableOK, Statuses
<1>2. PICK s \in OldestFirst(Pending(row')) : \E k \in 0..Len(s) :
        victims' = [victims EXCEPT ![t] = SubSeq(s, 1, k)]
  BY DEF EnforceQueueLimits
<1>3. s \in Seq(Messages)  BY <1>2, OldestFirstType DEF Pending
<1>4. PICK k \in 0..Len(s) : victims' = [victims EXCEPT ![t] = SubSeq(s, 1, k)]
  BY <1>2
<1>5. SubSeq(s, 1, k) \in Seq(Messages)  BY <1>3, <1>4
<1> QED  BY <1>1, <1>4, <1>5 DEF TypeOK, DrainOK

\* So does one UPDATE of its loop.
LEMMA FailVictimType ==
  ASSUME TypeOK, NEW t \in Threads, FailVictim(t)
  PROVE  row' \in [Messages -> Statuses] /\ victims' \in [Threads -> Seq(Messages)]
<1>1. row' \in [Messages -> Statuses]
  BY UpdateType DEF FailVictim, TypeOK, TableOK, Statuses
<1>2. Tail(victims[t]) \in Seq(Messages)
  BY DEF FailVictim, TypeOK, DrainOK
<1> QED  BY <1>1, <1>2 DEF FailVictim, TypeOK, DrainOK

\* The message at the head of a connection is a frame.
LEMMA HeadFrame ==
  ASSUME TypeOK, NEW c \in Conns, wire[c] # <<>>
  PROVE  /\ Incoming(c) \in Messages /\ Head(wire[c]).seq \in Nat
         /\ Tail(wire[c]) \in Seq(Frame)
<1>1. wire[c] \in Seq(Frame)  BY DEF TypeOK, WireOK
<1>2. Head(wire[c]) \in Frame /\ Tail(wire[c]) \in Seq(Frame)  BY <1>1
<1> QED  BY <1>2 DEF Frame, Incoming

\* A reply to that message keeps the type of the replies in flight.
LEMMA ReplyType ==
  ASSUME TypeOK, NEW c \in Conns, wire[c] # <<>>, NEW k \in {"ack", "error"},
         SendReply(c, k)
  PROVE  back' \in [Conns -> Seq(Reply)]
<1>1. [kind |-> k, id |-> Incoming(c)] \in Reply  BY HeadFrame DEF Reply
<1>2. Append(back[c], [kind |-> k, id |-> Incoming(c)]) \in Seq(Reply)
  BY <1>1 DEF TypeOK, WireOK
<1> QED  BY <1>2 DEF SendReply, TypeOK, WireOK

\* A frame written keeps the type of the frames in flight and of the counts.
LEMMA WriteType ==
  ASSUME TypeOK, NEW m \in Messages, NEW c \in Conns, NEW n \in Nat,
         WriteFrame(m, c, n), UNCHANGED <<back, hpc>>
  PROVE  WireOK' /\ writes' \in [Messages -> Nat]
<1>1. [id |-> m, seq |-> n] \in Frame  BY DEF Frame
<1> DEFINE w == Append(wire[c], [id |-> m, seq |-> n])
<1>2. w \in Seq(Frame) /\ w # <<>>
  <2>1. wire[c] \in Seq(Frame)  BY DEF TypeOK, WireOK
  <2>2. w \in Seq(Frame) /\ Len(w) = Len(wire[c]) + 1  BY <2>1, <1>1
  <2> QED  BY <2>1, <2>2
<1>3. wire' = wire \/ wire' = [wire EXCEPT ![c] = w]  BY DEF WriteFrame
<1>4. WireOK'
  <2>1. CASE wire' = wire  BY <2>1 DEF TypeOK, WireOK
  <2>2. CASE wire' = [wire EXCEPT ![c] = w]
    <3> HIDE DEF w
    <3> QED  BY <2>2, <1>2 DEF TypeOK, WireOK
  <2> QED  BY <1>3, <2>1, <2>2
<1>5. writes' \in [Messages -> Nat]
  <2>1. writes[m] + 1 \in Nat  BY DEF TypeOK, TableOK
  <2> QED  BY <2>1 DEF WriteFrame, TypeOK, TableOK
<1> QED  BY <1>4, <1>5

\* Each SendTextMessage goroutine is a thread with a victim list of its own.
LEMMA UserThread == \A m \in Messages : User(m) \in Threads
BY DEF User, Threads

\* So is each queue drain.
LEMMA DrainThread == \A c \in Conns : Drain(c) \in Threads
BY DEF Drain, Threads

-----------------------------------------------------------------------------
(* How each group of conjuncts of TypeOK survives the updates made to it. *)

\* A group whose variables do not change still holds.
LEMMA Stable ==
  ASSUME TypeOK
  PROVE  /\ UNCHANGED <<timeVars, rowVars, writes, acked>> => TableOK'
         /\ UNCHANGED <<linkVars, sloop>> => LinkOK'
         /\ UNCHANGED <<wire, back, hpc>> => WireOK'
         /\ UNCHANGED userVars => UserOK'
         /\ UNCHANGED <<victims, drainVars>> => DrainOK'
         /\ UNCHANGED <<known, stored, everStored, seenAt, notified>> => RecvOK'
<1>1. UNCHANGED <<timeVars, rowVars, writes, acked>> => TableOK'
  BY DEF TypeOK, TableOK, timeVars, rowVars
<1>2. UNCHANGED <<linkVars, sloop>> => LinkOK'  BY DEF TypeOK, LinkOK, linkVars
<1>3. UNCHANGED <<wire, back, hpc>> => WireOK'  BY DEF TypeOK, WireOK
<1>4. UNCHANGED userVars => UserOK'  BY DEF TypeOK, UserOK, userVars
<1>5. UNCHANGED <<victims, drainVars>> => DrainOK'
  BY DEF TypeOK, DrainOK, drainVars
<1>6. UNCHANGED <<known, stored, everStored, seenAt, notified>> => RecvOK'
  BY DEF TypeOK, RecvOK
<1> QED  BY <1>1, <1>2, <1>3, <1>4, <1>5, <1>6

\* One drain moves.
LEMMA DrainMove ==
  ASSUME TypeOK, NEW c \in Conns, NEW p \in DrainStates, NEW s \in Seq(Messages),
         NEW q \in Nat, p \in {"write", "update"} => s # <<>>,
         dpc' = [dpc EXCEPT ![c] = p], todo' = [todo EXCEPT ![c] = s],
         dseq' = [dseq EXCEPT ![c] = q], active' \in BOOLEAN,
         victims' \in [Threads -> Seq(Messages)]
  PROVE  DrainOK'
BY DEF TypeOK, DrainOK

\* One receiver loop moves.
LEMMA ReceiverMove ==
  ASSUME TypeOK, NEW c \in Conns, NEW p \in LoopStates, NEW w \in Seq(Frame),
         p \in {"save", "seen", "ack"} => w # <<>>,
         hpc' = [hpc EXCEPT ![c] = p], wire' = [wire EXCEPT ![c] = w],
         back' \in [Conns -> Seq(Reply)]
  PROVE  WireOK'
BY DEF TypeOK, WireOK

\* The sender's end of a connection changes state.
LEMMA SenderConnType ==
  ASSUME TypeOK, NEW c \in Conns, sconn' = [sconn EXCEPT ![c] = "closed"],
         UNCHANGED <<made, current, rconn, sendSeq, lastSeen, sloop>>
  PROVE  LinkOK'
BY DEF TypeOK, LinkOK, ConnStates

\* NextSendSequence.
LEMMA NextSequence ==
  ASSUME TypeOK, NEW c \in Conns, sendSeq' = [sendSeq EXCEPT ![c] = @ + 1],
         UNCHANGED <<made, current, sconn, rconn, lastSeen, sloop>>
  PROVE  LinkOK' /\ sendSeq'[c] \in Nat
<1>1. sendSeq[c] + 1 \in Nat  BY DEF TypeOK, LinkOK
<1>2. sendSeq' \in [Conns -> Nat]  BY <1>1 DEF TypeOK, LinkOK
<1> QED  BY <1>2 DEF TypeOK, LinkOK

-----------------------------------------------------------------------------
(* TypeOK, one case per action. *)

\* The steps of sendTextMessageWithID keep TypeOK.
LEMMA UserType ==
  ASSUME TypeOK, NEW m \in Messages, UserStep(m)
  PROVE  TypeOK'
<1> USE DEF timeVars, rowVars, linkVars, userVars, drainVars, recvVars
<1>0. /\ m \in DOMAIN upc /\ m \in DOMAIN uconn /\ m \in DOMAIN useq
      /\ m \in DOMAIN ustatus /\ uconn[m] \in 0..MaxConns /\ useq[m] \in Nat
      /\ ustatus[m] \in {"pending", "sent"} /\ upc[m] \in UserStates
      /\ upc[m] \in {"build", "write"} => uconn[m] \in Conns
      /\ uconn = [uconn EXCEPT ![m] = uconn[m]] /\ useq = [useq EXCEPT ![m] = useq[m]]
      /\ ustatus = [ustatus EXCEPT ![m] = ustatus[m]]
  BY MessagingAssumption DEF TypeOK, UserOK, Conns
<1>1. CASE BuildMessage(m)
  <2>1. TableOK' /\ WireOK' /\ DrainOK' /\ RecvOK'  BY <1>1, Stable DEF BuildMessage
  <2>2. LinkOK' /\ sendSeq'[uconn[m]] \in Nat
    BY <1>0, <1>1, NextSequence DEF BuildMessage
  <2>3. UserOK'
    BY <1>0, <1>1, <2>2 DEF BuildMessage, TypeOK, UserOK, UserStates, Conns
  <2> QED  BY <2>1, <2>2, <2>3 DEF TypeOK
<1>2. CASE SendMessage(m)
  <2>1. LinkOK' /\ DrainOK' /\ RecvOK'  BY <1>2, Stable DEF SendMessage
  <2>2. WireOK' /\ writes' \in [Messages -> Nat]
    BY <1>0, <1>2, WriteType DEF SendMessage
  <2>3. UserOK'
    BY <1>0, <1>2, MessagingAssumption
    DEF SendMessage, ForgetConnection, TypeOK, UserOK, UserStates
  <2>4. TableOK'  BY <1>2, <2>2 DEF SendMessage, TypeOK, TableOK
  <2> QED  BY <2>1, <2>2, <2>3, <2>4 DEF TypeOK
<1>3. CASE SendMessageFails(m)
  <2>1. TableOK' /\ WireOK' /\ DrainOK' /\ RecvOK'
    BY <1>3, Stable DEF SendMessageFails
  <2>2. LinkOK'  BY <1>0, <1>3, SenderConnType DEF SendMessageFails
  <2>3. UserOK'
    BY <1>0, <1>3, MessagingAssumption
    DEF SendMessageFails, ForgetConnection, TypeOK, UserOK, UserStates
  <2> QED  BY <2>1, <2>2, <2>3 DEF TypeOK
<1>4. CASE SaveOutgoing(m)
  <2>1. LinkOK' /\ WireOK' /\ DrainOK' /\ RecvOK'  BY <1>4, Stable DEF SaveOutgoing
  <2>2. TableOK'  BY <1>0, <1>4 DEF SaveOutgoing, TypeOK, TableOK, Statuses
  <2>3. UserOK'  BY <1>0, <1>4 DEF SaveOutgoing, TypeOK, UserOK, UserStates
  <2> QED  BY <2>1, <2>2, <2>3 DEF TypeOK
<1>5. CASE UserEnforce(m)
  <2>1. LinkOK' /\ WireOK' /\ RecvOK'  BY <1>5, Stable DEF UserEnforce
  <2>2. row' \in [Messages -> Statuses] /\ victims' \in [Threads -> Seq(Messages)]
    BY <1>5, EnforceType, UserThread DEF UserEnforce
  <2>3. TableOK' /\ DrainOK'
    BY <1>5, <2>2 DEF UserEnforce, TypeOK, TableOK, DrainOK
  <2>4. UserOK'  BY <1>0, <1>5 DEF UserEnforce, TypeOK, UserOK, UserStates
  <2> QED  BY <2>1, <2>3, <2>4 DEF TypeOK
<1>6. CASE UserDrop(m)
  <2>1. LinkOK' /\ WireOK' /\ UserOK' /\ RecvOK'  BY <1>6, Stable DEF UserDrop
  <2>2. row' \in [Messages -> Statuses] /\ victims' \in [Threads -> Seq(Messages)]
    BY <1>6, FailVictimType, UserThread DEF UserDrop
  <2>3. TableOK' /\ DrainOK'
    BY <1>6, <2>2 DEF UserDrop, TypeOK, TableOK, DrainOK
  <2> QED  BY <2>1, <2>3 DEF TypeOK
<1>7. CASE UserReturn(m)
  <2>1. TableOK' /\ LinkOK' /\ WireOK' /\ DrainOK' /\ RecvOK'
    BY <1>7, Stable DEF UserReturn
  <2>2. UserOK'  BY <1>0, <1>7 DEF UserReturn, TypeOK, UserOK, UserStates
  <2> QED  BY <2>1, <2>2 DEF TypeOK
<1> QED  BY <1>1, <1>2, <1>3, <1>4, <1>5, <1>6, <1>7 DEF UserStep

\* The steps of drainPendingMessages keep TypeOK.
LEMMA DrainType ==
  ASSUME TypeOK, NEW c \in Conns, DrainStep(c)
  PROVE  TypeOK'
<1> USE DEF timeVars, rowVars, linkVars, userVars, drainVars, recvVars
<1>0. /\ todo[c] \in Seq(Messages) /\ dseq[c] \in Nat /\ active \in BOOLEAN
      /\ victims \in [Threads -> Seq(Messages)]
      /\ dpc[c] \in {"write", "update"} => todo[c] # <<>>
      /\ todo = [todo EXCEPT ![c] = todo[c]] /\ dseq = [dseq EXCEPT ![c] = dseq[c]]
  BY DEF TypeOK, DrainOK
<1>01. StopDrain(c) /\ UNCHANGED victims => DrainOK'
  <2> SUFFICES ASSUME StopDrain(c), UNCHANGED victims PROVE DrainOK'  OBVIOUS
  <2>1. <<>> \in Seq(Messages)  OBVIOUS
  <2> QED  BY <1>0, <2>1, DrainMove DEF StopDrain, DrainStates
<1>1. CASE DrainEnforce(c)
  <2>1. LinkOK' /\ WireOK' /\ UserOK' /\ RecvOK'  BY <1>1, Stable DEF DrainEnforce
  <2>2. row' \in [Messages -> Statuses] /\ victims' \in [Threads -> Seq(Messages)]
    BY <1>1, EnforceType, DrainThread DEF DrainEnforce
  <2>3. TableOK'  BY <1>1, <2>2 DEF DrainEnforce, TypeOK, TableOK
  <2>4. DrainOK'  BY <1>1, <2>2 DEF DrainEnforce, TypeOK, DrainOK, DrainStates
  <2> QED  BY <2>1, <2>3, <2>4 DEF TypeOK
<1>2. CASE DrainDrop(c)
  <2>1. LinkOK' /\ WireOK' /\ UserOK' /\ RecvOK'  BY <1>2, Stable DEF DrainDrop
  <2>2. row' \in [Messages -> Statuses] /\ victims' \in [Threads -> Seq(Messages)]
    BY <1>2, FailVictimType, DrainThread DEF DrainDrop
  <2>3. TableOK' /\ DrainOK'
    BY <1>2, <2>2 DEF DrainDrop, TypeOK, TableOK, DrainOK
  <2> QED  BY <2>1, <2>3 DEF TypeOK
<1>3. CASE DrainFetch(c)
  <2>1. TableOK' /\ LinkOK' /\ WireOK' /\ UserOK' /\ RecvOK'
    BY <1>3, Stable DEF DrainFetch
  <2>2. PICK s \in OldestFirst(Pending(row)) : todo' = [todo EXCEPT ![c] = s]
    BY <1>3 DEF DrainFetch
  <2>3. s \in Seq(Messages)  BY <2>2, OldestFirstType DEF Pending
  <2>4. DrainOK'  BY <1>0, <1>3, <2>2, <2>3, DrainMove DEF DrainFetch, DrainStates
  <2> QED  BY <2>1, <2>4 DEF TypeOK
<1>4. CASE DrainBuild(c)
  <2>1. TableOK' /\ WireOK' /\ UserOK' /\ RecvOK'  BY <1>4, Stable DEF DrainBuild
  <2>2. LinkOK' /\ sendSeq'[c] \in Nat  BY <1>4, NextSequence DEF DrainBuild
  <2>3. DrainOK'
    BY <1>0, <1>4, <2>2, DrainMove DEF DrainBuild, SendsMore, DrainStates
  <2> QED  BY <2>1, <2>2, <2>3 DEF TypeOK
<1>5. CASE DrainReturn(c)
  <2>1. TableOK' /\ LinkOK' /\ WireOK' /\ UserOK' /\ RecvOK'
    BY <1>5, Stable DEF DrainReturn
  <2> QED  BY <1>01, <1>5, <2>1 DEF TypeOK, DrainReturn
<1>6. CASE DrainSend(c)
  <2>1. LinkOK' /\ UserOK' /\ RecvOK'  BY <1>6, Stable DEF DrainSend
  <2>2. Head(todo[c]) \in Messages  BY <1>0, <1>6 DEF DrainSend
  <2>3. WireOK' /\ writes' \in [Messages -> Nat]
    BY <1>0, <1>6, <2>2, WriteType DEF DrainSend
  <2>4. TableOK'  BY <1>6, <2>3 DEF DrainSend, TypeOK, TableOK
  <2>5. DrainOK'  BY <1>0, <1>6, DrainMove DEF DrainSend, DrainStates
  <2> QED  BY <2>1, <2>3, <2>4, <2>5 DEF TypeOK
<1>7. CASE DrainSendFails(c)
  <2>1. TableOK' /\ WireOK' /\ UserOK' /\ RecvOK'  BY <1>7, Stable DEF DrainSendFails
  <2>2. LinkOK'  BY <1>7, SenderConnType DEF DrainSendFails
  <2> QED  BY <1>01, <1>7, <2>1, <2>2 DEF TypeOK, DrainSendFails
<1>8. CASE DrainUpdate(c)
  <2>1. LinkOK' /\ WireOK' /\ UserOK' /\ RecvOK'  BY <1>8, Stable DEF DrainUpdate
  <2>2. row' \in [Messages -> Statuses]
    BY <1>8, UpdateType DEF DrainUpdate, TypeOK, TableOK, Statuses
  <2>3. TableOK'  BY <1>8, <2>2 DEF DrainUpdate, TypeOK, TableOK
  <2>4. Tail(todo[c]) \in Seq(Messages)  BY <1>0, <1>8 DEF DrainUpdate
  <2>5. DrainOK'
    BY <1>0, <1>8, <2>4, DrainMove DEF DrainUpdate, Remaining, DrainStates
  <2> QED  BY <2>1, <2>3, <2>5 DEF TypeOK
<1> QED  BY <1>1, <1>2, <1>3, <1>4, <1>5, <1>6, <1>7, <1>8 DEF DrainStep

\* The steps of handleIncomingEncryptedMessage keep TypeOK.
LEMMA ReceiverType ==
  ASSUME TypeOK, NEW c \in Conns, ReceiverStep(c)
  PROVE  TypeOK'
<1> USE DEF timeVars, rowVars, linkVars, userVars, drainVars, recvVars
<1>0. hpc[c] \in {"save", "seen", "ack"} => wire[c] # <<>>  BY DEF TypeOK, WireOK
<1>1. CASE RejectTimestamp(c)
  <2>1. TableOK' /\ LinkOK' /\ UserOK' /\ DrainOK' /\ RecvOK'
    BY <1>1, Stable DEF RejectTimestamp
  <2>2. hpc[c] = "recv" /\ wire[c] # <<>>  BY <1>1 DEF RejectTimestamp, Receiving
  <2>3. back' \in [Conns -> Seq(Reply)]  BY <1>1, <2>2, ReplyType DEF RejectTimestamp
  <2>4. WireOK'
    BY <1>1, <2>2, <2>3, HeadFrame DEF RejectTimestamp, FinishMessage, TypeOK, WireOK, LoopStates
  <2> QED  BY <2>1, <2>4 DEF TypeOK
<1>2. CASE RejectSequence(c)
  <2>1. TableOK' /\ LinkOK' /\ UserOK' /\ DrainOK' /\ RecvOK'
    BY <1>2, Stable DEF RejectSequence
  <2>2. hpc[c] = "recv" /\ wire[c] # <<>>  BY <1>2 DEF RejectSequence, Receiving
  <2>3. WireOK'
    BY <1>2, <2>2, HeadFrame DEF RejectSequence, FinishMessage, TypeOK, WireOK, LoopStates
  <2> QED  BY <2>1, <2>3 DEF TypeOK
<1>3. CASE RejectSeen(c)
  <2>1. TableOK' /\ UserOK' /\ DrainOK' /\ RecvOK'
    BY <1>3, Stable DEF RejectSeen
  <2>2. hpc[c] = "recv" /\ wire[c] # <<>>  BY <1>3 DEF RejectSeen, AcceptSequence, Receiving
  <2>3. LinkOK'
    BY <1>3, <2>2, HeadFrame DEF RejectSeen, AcceptSequence, TypeOK, LinkOK
  <2>4. WireOK'
    BY <1>3, <2>2, HeadFrame DEF RejectSeen, FinishMessage, TypeOK, WireOK, LoopStates
  <2> QED  BY <2>1, <2>3, <2>4 DEF TypeOK
<1>4. CASE RejectCiphertext(c)
  <2>1. TableOK' /\ UserOK' /\ DrainOK' /\ RecvOK'
    BY <1>4, Stable DEF RejectCiphertext
  <2>2. hpc[c] = "recv" /\ wire[c] # <<>>  BY <1>4 DEF RejectCiphertext, AcceptSequence, Receiving
  <2>3. LinkOK'
    BY <1>4, <2>2, HeadFrame DEF RejectCiphertext, AcceptSequence, TypeOK, LinkOK
  <2>4. back' \in [Conns -> Seq(Reply)]  BY <1>4, <2>2, ReplyType DEF RejectCiphertext
  <2>5. WireOK'
    BY <1>4, <2>2, <2>4, HeadFrame DEF RejectCiphertext, FinishMessage, TypeOK, WireOK, LoopStates
  <2> QED  BY <2>1, <2>3, <2>5 DEF TypeOK
<1>5. CASE AcceptMessage(c)
  <2>1. TableOK' /\ UserOK' /\ DrainOK' /\ RecvOK'  BY <1>5, Stable DEF AcceptMessage
  <2>2. wire[c] # <<>>  BY <1>5 DEF AcceptMessage, AcceptSequence, Receiving
  <2>3. LinkOK'
    BY <1>5, <2>2, HeadFrame DEF AcceptMessage, AcceptSequence, TypeOK, LinkOK
  <2>4. WireOK'  BY <1>5, <2>2 DEF AcceptMessage, TypeOK, WireOK, LoopStates
  <2> QED  BY <2>1, <2>3, <2>4 DEF TypeOK
<1>6. CASE SaveIncoming(c)
  <2>1. TableOK' /\ LinkOK' /\ UserOK' /\ DrainOK'  BY <1>6, Stable DEF SaveIncoming
  <2>2. wire[c] # <<>>  BY <1>0, <1>6 DEF SaveIncoming
  <2>3. RecvOK'
    <3>1. Incoming(c) \in Messages  BY <2>2, HeadFrame
    <3> QED  BY <1>6, <3>1 DEF SaveIncoming, TypeOK, RecvOK
  <2>4. CASE CanInsert(Incoming(c))
    <3>1. WireOK'  BY <1>6, <2>2, <2>4 DEF SaveIncoming, TypeOK, WireOK, LoopStates
    <3> QED  BY <2>1, <2>3, <3>1 DEF TypeOK
  <2>5. CASE ~CanInsert(Incoming(c))
    <3>1. WireOK'
      BY <1>6, <2>2, <2>5, HeadFrame
      DEF SaveIncoming, FinishMessage, TypeOK, WireOK, LoopStates
    <3> QED  BY <2>1, <2>3, <3>1 DEF TypeOK
  <2> QED  BY <2>4, <2>5
<1>7. CASE InsertSeenID(c)
  <2>1. TableOK' /\ LinkOK' /\ UserOK' /\ DrainOK'  BY <1>7, Stable DEF InsertSeenID
  <2>2. wire[c] # <<>>  BY <1>0, <1>7 DEF InsertSeenID
  <2>3. WireOK'  BY <1>7, <2>2 DEF InsertSeenID, TypeOK, WireOK, LoopStates
  <2>4. RecvOK'
    <3>1. Incoming(c) \in Messages  BY <2>2, HeadFrame
    <3>2. clock + 1 \in Nat  BY DEF TypeOK, TableOK
    <3>3. notified[Incoming(c)] + 1 \in Nat  BY <3>1 DEF TypeOK, RecvOK
    <3> QED  BY <1>7, <3>1, <3>2, <3>3 DEF InsertSeenID, TypeOK, RecvOK
  <2> QED  BY <2>1, <2>3, <2>4 DEF TypeOK
<1>8. CASE SendAck(c)
  <2>1. TableOK' /\ LinkOK' /\ UserOK' /\ DrainOK' /\ RecvOK'  BY <1>8, Stable DEF SendAck
  <2>2. wire[c] # <<>>  BY <1>0, <1>8 DEF SendAck
  <2>3. back' \in [Conns -> Seq(Reply)]  BY <1>8, <2>2, ReplyType DEF SendAck
  <2>4. WireOK'
    BY <1>8, <2>2, <2>3, HeadFrame DEF SendAck, FinishMessage, TypeOK, WireOK, LoopStates
  <2> QED  BY <2>1, <2>4 DEF TypeOK
<1>9. CASE DiscardFrame(c)
  <2>1. TableOK' /\ LinkOK' /\ UserOK' /\ DrainOK' /\ RecvOK'
    BY <1>9, Stable DEF DiscardFrame
  <2>2. hpc[c] = "recv" /\ wire[c] # <<>>  BY <1>9 DEF DiscardFrame, Receiving
  <2>3. WireOK'
    BY <1>9, <2>2, HeadFrame DEF DiscardFrame, FinishMessage, TypeOK, WireOK, LoopStates
  <2> QED  BY <2>1, <2>3 DEF TypeOK
<1>10. CASE ReceiverLoopEnds(c)
  <2>1. TableOK' /\ LinkOK' /\ UserOK' /\ DrainOK' /\ RecvOK'
    BY <1>10, Stable DEF ReceiverLoopEnds
  <2>2. WireOK'
    <3>1. <<>> \in Seq(Frame)  OBVIOUS
    <3> QED  BY <1>10, <3>1 DEF ReceiverLoopEnds, TypeOK, WireOK, LoopStates
  <2> QED  BY <2>1, <2>2 DEF TypeOK
<1> QED
  BY <1>1, <1>2, <1>3, <1>4, <1>5, <1>6, <1>7, <1>8, <1>9, <1>10 DEF ReceiverStep

\* The reply the sender takes from the connection.
LEMMA TakenReply ==
  ASSUME TypeOK, NEW c \in Conns, NEW k, HandleReply(c, k)
  PROVE  /\ Head(back[c]) \in Reply /\ Head(back[c]).id \in Messages
         /\ back' \in [Conns -> Seq(Reply)]
<1>1. back[c] \in Seq(Reply) /\ back[c] # <<>>  BY DEF TypeOK, WireOK, HandleReply
<1>2. Head(back[c]) \in Reply /\ Tail(back[c]) \in Seq(Reply)  BY <1>1
<1> QED  BY <1>2 DEF HandleReply, Reply, TypeOK, WireOK

\* handleAck, handleProtocolError and the end of connectionLoop keep TypeOK.
LEMMA SenderLoopType ==
  ASSUME TypeOK, NEW c \in Conns, SenderLoopStep(c)
  PROVE  TypeOK'
<1> USE DEF timeVars, rowVars, linkVars, userVars, drainVars, recvVars
<1>1. CASE HandleAck(c)
  <2>1. LinkOK' /\ UserOK' /\ DrainOK' /\ RecvOK'  BY <1>1, Stable DEF HandleAck
  <2>2. Head(back[c]).id \in Messages /\ WireOK'
    BY <1>1, TakenReply DEF HandleAck, TypeOK, WireOK
  <2>3. row' \in [Messages -> Statuses]
    BY <1>1, UpdateType DEF HandleAck, TypeOK, TableOK, Statuses
  <2>4. TableOK'  BY <1>1, <2>2, <2>3 DEF HandleAck, TypeOK, TableOK
  <2> QED  BY <2>1, <2>2, <2>4 DEF TypeOK
<1>2. CASE HandleProtocolError(c)
  <2>1. LinkOK' /\ UserOK' /\ DrainOK' /\ RecvOK'
    BY <1>2, Stable DEF HandleProtocolError
  <2>2. WireOK'  BY <1>2, TakenReply DEF HandleProtocolError, TypeOK, WireOK
  <2>3. row' \in [Messages -> Statuses]
    BY <1>2, UpdateType DEF HandleProtocolError, TypeOK, TableOK, Statuses
  <2>4. TableOK'  BY <1>2, <2>3 DEF HandleProtocolError, TypeOK, TableOK
  <2> QED  BY <2>1, <2>2, <2>4 DEF TypeOK
<1>3. CASE SenderLoopEnds(c)
  <2>1. TableOK' /\ UserOK' /\ DrainOK' /\ RecvOK'  BY <1>3, Stable DEF SenderLoopEnds
  <2>2. LinkOK'
    BY <1>3, MessagingAssumption DEF SenderLoopEnds, TypeOK, LinkOK
  <2>3. WireOK'  BY <1>3 DEF SenderLoopEnds, TypeOK, WireOK
  <2> QED  BY <2>1, <2>2, <2>3 DEF TypeOK
<1> QED  BY <1>1, <1>2, <1>3 DEF SenderLoopStep

\* Connections, crashes, time, pruning and the users keep TypeOK.
LEMMA EnvironmentType ==
  ASSUME TypeOK, Environment
  PROVE  TypeOK'
<1> USE DEF timeVars, rowVars, linkVars, userVars, drainVars, recvVars
<1>1. ASSUME NEW m \in Messages, Submit(m)  PROVE TypeOK'
  <2>1. LinkOK' /\ WireOK' /\ DrainOK' /\ RecvOK'  BY <1>1, Stable DEF Submit
  <2>2. TableOK'  BY <1>1 DEF Submit, TypeOK, TableOK
  <2>3. UserOK'  BY <1>1 DEF Submit, TypeOK, UserOK, LinkOK, UserStates
  <2> QED  BY <2>1, <2>2, <2>3 DEF TypeOK
<1>2. ASSUME NEW c \in Conns, RegisterConnection(c)  PROVE TypeOK'
  <2>1. TableOK' /\ UserOK' /\ RecvOK'  BY <1>2, Stable DEF RegisterConnection
  <2>2. LinkOK'
    <3>1. c \in 0..MaxConns  BY MessagingAssumption DEF Conns
    <3>2. sconn' \in [Conns -> ConnStates] /\ rconn' \in [Conns -> ConnStates]
      BY <1>2 DEF RegisterConnection, Closed, TypeOK, LinkOK, ConnStates
    <3> QED  BY <1>2, <3>1, <3>2 DEF RegisterConnection, TypeOK, LinkOK
  <2>3. WireOK'  BY <1>2 DEF RegisterConnection, TypeOK, WireOK, LoopStates
  <2>4. DrainOK'
    BY <1>2 DEF RegisterConnection, StartQueueDrain, TypeOK, DrainOK, DrainStates
  <2> QED  BY <2>1, <2>2, <2>3, <2>4 DEF TypeOK
<1>3. ASSUME NEW c \in Conns, CloseSender(c)  PROVE TypeOK'
  <2>1. TableOK' /\ WireOK' /\ UserOK' /\ DrainOK' /\ RecvOK'
    BY <1>3, Stable DEF CloseSender
  <2>2. LinkOK'  BY <1>3, SenderConnType DEF CloseSender
  <2> QED  BY <2>1, <2>2 DEF TypeOK
<1>4. ASSUME NEW c \in Conns, CloseReceiver(c)  PROVE TypeOK'
  <2>1. TableOK' /\ WireOK' /\ UserOK' /\ DrainOK' /\ RecvOK'
    BY <1>4, Stable DEF CloseReceiver
  <2>2. LinkOK'  BY <1>4 DEF CloseReceiver, TypeOK, LinkOK, ConnStates
  <2> QED  BY <2>1, <2>2 DEF TypeOK
<1>5. CASE SenderCrashes
  <2>1. RecvOK'  BY <1>5, Stable DEF SenderCrashes
  <2>2. TableOK'  BY <1>5 DEF SenderCrashes, TypeOK, TableOK
  <2>3. LinkOK'
    BY <1>5, MessagingAssumption DEF SenderCrashes, Closed, TypeOK, LinkOK, ConnStates
  <2>4. WireOK'  BY <1>5 DEF SenderCrashes, TypeOK, WireOK
  <2>5. UserOK'
    BY <1>5, MessagingAssumption DEF SenderCrashes, TypeOK, UserOK, UserStates
  <2>6. DrainOK'
    <3>1. <<>> \in Seq(Messages)  OBVIOUS
    <3>2. todo' \in [Conns -> Seq(Messages)] /\ victims' \in [Threads -> Seq(Messages)]
      BY <1>5, <3>1 DEF SenderCrashes
    <3> QED  BY <1>5, <3>2 DEF SenderCrashes, TypeOK, DrainOK, DrainStates
  <2> QED  BY <2>1, <2>2, <2>3, <2>4, <2>5, <2>6 DEF TypeOK
<1>6. CASE ReceiverCrashes
  <2>1. UserOK' /\ DrainOK' /\ RecvOK'  BY <1>6, Stable DEF ReceiverCrashes
  <2>2. TableOK'  BY <1>6 DEF ReceiverCrashes, TypeOK, TableOK
  <2>3. LinkOK'  BY <1>6 DEF ReceiverCrashes, Closed, TypeOK, LinkOK, ConnStates
  <2>4. WireOK'  BY <1>6 DEF ReceiverCrashes, TypeOK, WireOK, LoopStates
  <2> QED  BY <2>1, <2>2, <2>3, <2>4 DEF TypeOK
<1>7. CASE Tick
  <2>1. LinkOK' /\ WireOK' /\ UserOK' /\ DrainOK' /\ RecvOK'  BY <1>7, Stable DEF Tick
  <2>2. TableOK'  BY <1>7 DEF Tick, TypeOK, TableOK
  <2> QED  BY <2>1, <2>2 DEF TypeOK
<1>8. CASE AddPeer
  <2>1. TableOK' /\ LinkOK' /\ WireOK' /\ UserOK' /\ DrainOK'  BY <1>8, Stable DEF AddPeer
  <2>2. RecvOK'  BY <1>8 DEF AddPeer, TypeOK, RecvOK
  <2> QED  BY <2>1, <2>2 DEF TypeOK
<1>9. CASE ClearSenderHistory
  <2>1. LinkOK' /\ WireOK' /\ UserOK' /\ DrainOK' /\ RecvOK'
    BY <1>9, Stable DEF ClearSenderHistory
  <2>2. TableOK'  BY <1>9 DEF ClearSenderHistory, TypeOK, TableOK, Statuses
  <2> QED  BY <2>1, <2>2 DEF TypeOK
<1>10. CASE ClearReceiverHistory
  <2>1. TableOK' /\ LinkOK' /\ WireOK' /\ UserOK' /\ DrainOK'
    BY <1>10, Stable DEF ClearReceiverHistory
  <2>2. RecvOK'  BY <1>10 DEF ClearReceiverHistory, TypeOK, RecvOK
  <2> QED  BY <2>1, <2>2 DEF TypeOK
<1>11. CASE PruneOldEntries
  <2>1. TableOK' /\ LinkOK' /\ WireOK' /\ UserOK' /\ DrainOK'
    BY <1>11, Stable DEF PruneOldEntries
  <2>2. RecvOK'  BY <1>11 DEF PruneOldEntries, TypeOK, RecvOK
  <2> QED  BY <2>1, <2>2 DEF TypeOK
<1> QED
  BY <1>1, <1>2, <1>3, <1>4, <1>5, <1>6, <1>7, <1>8, <1>9, <1>10, <1>11
  DEF Environment

\* Every reachable state of the two devices is well typed: a handler always has
\* the message it works on at the head of its connection, a drain that sends has
\* a message to send, and a goroutine that writes has a connection.
THEOREM TypeCorrect == Spec => []TypeOK
<1>1. Init => TypeOK
  <2> SUFFICES ASSUME Init PROVE TypeOK  OBVIOUS
  <2>1. TableOK  BY DEF Init, TableOK, Statuses
  <2>2. LinkOK  BY MessagingAssumption DEF Init, LinkOK, ConnStates
  <2>3. WireOK  BY DEF Init, WireOK, LoopStates
  <2>4. UserOK  BY MessagingAssumption DEF Init, UserOK, UserStates
  <2>5. DrainOK
    <3>1. <<>> \in Seq(Messages)  OBVIOUS
    <3>2. todo \in [Conns -> Seq(Messages)] /\ victims \in [Threads -> Seq(Messages)]
      BY <3>1 DEF Init
    <3> QED  BY <3>2 DEF Init, DrainOK, DrainStates
  <2>6. RecvOK  BY DEF Init, RecvOK
  <2> QED  BY <2>1, <2>2, <2>3, <2>4, <2>5, <2>6 DEF TypeOK
<1>2. TypeOK /\ [Next]_vars => TypeOK'
  <2> SUFFICES ASSUME TypeOK, [Next]_vars PROVE TypeOK'  OBVIOUS
  <2>1. CASE UNCHANGED vars
    <3>1. /\ UNCHANGED <<timeVars, rowVars, writes, acked>>
          /\ UNCHANGED <<linkVars, sloop>> /\ UNCHANGED <<wire, back, hpc>>
          /\ UNCHANGED userVars /\ UNCHANGED <<victims, drainVars>>
          /\ UNCHANGED <<known, stored, everStored, seenAt, notified>>
      BY <2>1 DEF vars, recvVars
    <3> QED  BY <3>1, Stable DEF TypeOK
  <2>2. CASE Next
    BY <2>2, UserType, DrainType, ReceiverType, SenderLoopType, EnvironmentType DEF Next
  <2> QED  BY <2>1, <2>2
<1> QED  BY <1>1, <1>2, PTL DEF Spec

-----------------------------------------------------------------------------
(* DeliveredWasStored. *)

\* A handler past SaveMessage works on a message that was stored.
HandledWasStored ==
  \A c \in Conns : hpc[c] \in {"seen", "ack"} => Incoming(c) \in everStored

\* An ack in flight is for a message that was stored.
AckWasStored ==
  \A c \in Conns : \A i \in 1..Len(back[c]) :
    back[c][i].kind = "ack" => back[c][i].id \in everStored

DeliveryInv == TypeOK /\ DeliveredWasStored /\ HandledWasStored /\ AckWasStored

\* Only handleAck writes the status delivered.
LEMMA NotDelivered ==
  ASSUME DeliveryInv, NEW m, NEW s, s # "delivered", UpdateDeliveryStatus(m, s),
         everStored \subseteq everStored'
  PROVE  DeliveredWasStored'
BY DEF DeliveryInv, TypeOK, TableOK, DeliveredWasStored, UpdateDeliveryStatus

\* The table only changes to a status other than delivered.
LEMMA RowsKept ==
  ASSUME DeliveryInv, everStored \subseteq everStored',
         \A m \in Messages : row'[m] = "delivered" => row[m] = "delivered"
  PROVE  DeliveredWasStored'
BY DEF DeliveryInv, DeliveredWasStored

\* A step that leaves the receiver's handlers alone and only appends frames.
LEMMA HandlersKept ==
  ASSUME DeliveryInv, UNCHANGED <<hpc, everStored>>,
         \A c \in Conns : wire[c] # <<>> => Head(wire'[c]) = Head(wire[c])
  PROVE  HandledWasStored'
BY DEF DeliveryInv, TypeOK, WireOK, HandledWasStored, Incoming

\* SendRaw appends: the message a receiver is handling stays at the head.
LEMMA WriteKeepsHead ==
  ASSUME TypeOK, NEW m \in Messages, NEW c \in Conns, NEW n \in Nat,
         WriteFrame(m, c, n)
  PROVE  \A d \in Conns : wire[d] # <<>> => Head(wire'[d]) = Head(wire[d])
<1>1. SUFFICES ASSUME NEW d \in Conns, wire[d] # <<>>
               PROVE  Head(wire'[d]) = Head(wire[d])
  OBVIOUS
<1>2. wire[c] \in Seq(Frame) /\ wire[d] \in Seq(Frame)  BY DEF TypeOK, WireOK
<1>3. [id |-> m, seq |-> n] \in Frame  BY DEF Frame
<1>4. CASE d = c
  <2>1. Head(Append(wire[c], [id |-> m, seq |-> n])) = Head(wire[c])
    BY <1>1, <1>2, <1>3, <1>4
  <2> QED  BY <1>4, <2>1 DEF WriteFrame, TypeOK, WireOK
<1>5. CASE d # c  BY <1>5 DEF WriteFrame, TypeOK, WireOK
<1> QED  BY <1>4, <1>5

\* sendTextMessageWithID never marks a message delivered, nor sends an ack.
LEMMA UserDelivery ==
  ASSUME DeliveryInv, NEW m \in Messages, UserStep(m)
  PROVE  DeliveredWasStored' /\ HandledWasStored' /\ AckWasStored'
<1> USE DEF timeVars, rowVars, linkVars, userVars, drainVars, recvVars
<1>0. TypeOK  BY DEF DeliveryInv
<1>1. UNCHANGED <<hpc, everStored, back>>
  BY DEF UserStep, BuildMessage, SendMessage, SendMessageFails, SaveOutgoing,
         UserEnforce, UserDrop, UserReturn
<1>2. \A c \in Conns : wire[c] # <<>> => Head(wire'[c]) = Head(wire[c])
  <2>1. CASE SendMessage(m)
    <3>1. uconn[m] \in Conns /\ useq[m] \in Nat
      BY <1>0, <2>1, MessagingAssumption DEF SendMessage, TypeOK, UserOK, Conns
    <3> QED  BY <1>0, <2>1, <3>1, WriteKeepsHead DEF SendMessage
  <2>2. CASE ~SendMessage(m)
    <3>1. UNCHANGED wire
      BY <2>2 DEF UserStep, BuildMessage, SendMessageFails, SaveOutgoing,
                  UserEnforce, UserDrop, UserReturn
    <3> QED  BY <3>1
  <2> QED  BY <2>1, <2>2
<1>3. DeliveredWasStored'
  <2>1. CASE UserDrop(m)
    BY <1>1, <2>1, NotDelivered DEF UserDrop, FailVictim
  <2>2. CASE ~UserDrop(m)
    <3>1. \A n \in Messages : row'[n] = "delivered" => row[n] = "delivered"
      BY <1>0, <2>2
      DEF UserStep, BuildMessage, SendMessage, SendMessageFails, SaveOutgoing,
          UserEnforce, UserReturn, EnforceQueueLimits, PruneExpiredQueue,
          TypeOK, TableOK, UserOK
    <3> QED  BY <1>1, <3>1, RowsKept
  <2> QED  BY <2>1, <2>2
<1>4. HandledWasStored'  BY <1>1, <1>2, HandlersKept
<1>5. AckWasStored'  BY <1>1 DEF DeliveryInv, AckWasStored
<1> QED  BY <1>3, <1>4, <1>5

\* Neither does a queue drain.
LEMMA DrainDelivery ==
  ASSUME DeliveryInv, NEW c \in Conns, DrainStep(c)
  PROVE  DeliveredWasStored' /\ HandledWasStored' /\ AckWasStored'
<1> USE DEF timeVars, rowVars, linkVars, userVars, drainVars, recvVars
<1>0. TypeOK  BY DEF DeliveryInv
<1>1. UNCHANGED <<hpc, everStored, back>>
  BY DEF DrainStep, DrainEnforce, DrainDrop, DrainFetch, DrainBuild, DrainReturn,
         DrainSend, DrainSendFails, DrainUpdate
<1>2. \A d \in Conns : wire[d] # <<>> => Head(wire'[d]) = Head(wire[d])
  <2>1. CASE DrainSend(c)
    <3>1. todo[c] \in Seq(Messages) /\ todo[c] # <<>> /\ dseq[c] \in Nat
      BY <1>0, <2>1 DEF DrainSend, TypeOK, DrainOK
    <3>2. Head(todo[c]) \in Messages  BY <3>1
    <3> QED  BY <1>0, <2>1, <3>1, <3>2, WriteKeepsHead DEF DrainSend
  <2>2. CASE ~DrainSend(c)
    <3>1. UNCHANGED wire
      BY <2>2 DEF DrainStep, DrainEnforce, DrainDrop, DrainFetch, DrainBuild,
                  DrainReturn, DrainSendFails, DrainUpdate
    <3> QED  BY <3>1
  <2> QED  BY <2>1, <2>2
<1>3. DeliveredWasStored'
  <2>1. CASE DrainDrop(c)
    BY <1>1, <2>1, NotDelivered DEF DrainDrop, FailVictim
  <2>2. CASE DrainUpdate(c)
    BY <1>1, <2>2, NotDelivered DEF DrainUpdate
  <2>3. CASE ~DrainDrop(c) /\ ~DrainUpdate(c)
    <3>1. \A n \in Messages : row'[n] = "delivered" => row[n] = "delivered"
      BY <1>0, <2>3
      DEF DrainStep, DrainEnforce, DrainFetch, DrainBuild, DrainReturn,
          DrainSend, DrainSendFails, EnforceQueueLimits, PruneExpiredQueue,
          TypeOK, TableOK
    <3> QED  BY <1>1, <3>1, RowsKept
  <2> QED  BY <2>1, <2>2, <2>3
<1>4. HandledWasStored'  BY <1>1, <1>2, HandlersKept
<1>5. AckWasStored'  BY <1>1 DEF DeliveryInv, AckWasStored
<1> QED  BY <1>3, <1>4, <1>5

\* A reply keeps AckWasStored when an ack is only sent for a stored message.
LEMMA ReplyKept ==
  ASSUME DeliveryInv, NEW c \in Conns, NEW k, SendReply(c, k),
         k = "ack" => Incoming(c) \in everStored, everStored \subseteq everStored'
  PROVE  AckWasStored'
<1>1. SUFFICES ASSUME NEW d \in Conns, NEW i \in 1..Len(back'[d]),
                      back'[d][i].kind = "ack"
               PROVE  back'[d][i].id \in everStored
  BY DEF AckWasStored
<1>2. back \in [Conns -> Seq(Reply)]  BY DEF DeliveryInv, TypeOK, WireOK
<1> DEFINE r == [kind |-> k, id |-> Incoming(c)]
<1>3. CASE back'[d] = back[d]  BY <1>1, <1>3 DEF DeliveryInv, AckWasStored
<1>4. CASE back'[d] = Append(back[d], r) /\ d = c
  <2>1. back[d] \in Seq(Reply)  BY <1>2
  <2>2. Len(back'[d]) = Len(back[d]) + 1 /\ back'[d][Len(back[d]) + 1] = r
    BY <1>4, <2>1
  <2>3. \A j \in 1..Len(back[d]) : back'[d][j] = back[d][j]  BY <1>4, <2>1
  <2>4. CASE i = Len(back[d]) + 1
    <3>1. back'[d][i] = r  BY <2>2, <2>4
    <3> QED  BY <1>1, <3>1
  <2>5. CASE i # Len(back[d]) + 1
    <3>1. i \in 1..Len(back[d])  BY <2>1, <2>2, <2>5
    <3> QED  BY <1>1, <2>3, <3>1 DEF DeliveryInv, AckWasStored
  <2> QED  BY <2>4, <2>5
<1>5. back'[d] = back[d] \/ (back'[d] = Append(back[d], r) /\ d = c)
  BY <1>2 DEF SendReply
<1> QED  BY <1>3, <1>4, <1>5

\* A handler of one connection moves; the others keep theirs.
LEMMA HandlerMoves ==
  ASSUME DeliveryInv, NEW c \in Conns, everStored \subseteq everStored',
         \A d \in Conns \ {c} : hpc'[d] = hpc[d] /\ wire'[d] = wire[d],
         hpc'[c] \in {"seen", "ack"} => Incoming(c)' \in everStored'
  PROVE  HandledWasStored'
BY DEF DeliveryInv, HandledWasStored, Incoming

\* handleIncomingEncryptedMessage acks only what it has stored.
LEMMA ReceiverDelivery ==
  ASSUME DeliveryInv, NEW c \in Conns, ReceiverStep(c)
  PROVE  DeliveredWasStored' /\ HandledWasStored' /\ AckWasStored'
<1> USE DEF timeVars, rowVars, linkVars, userVars, drainVars, recvVars
<1>0. TypeOK /\ hpc \in [Conns -> LoopStates] /\ wire \in [Conns -> Seq(Frame)]
  BY DEF DeliveryInv, TypeOK, WireOK
<1>1. UNCHANGED row /\ everStored \subseteq everStored'
  BY DEF ReceiverStep, RejectTimestamp, RejectSequence, RejectSeen,
         RejectCiphertext, AcceptMessage, SaveIncoming, InsertSeenID, SendAck,
         DiscardFrame, ReceiverLoopEnds
<1>2. DeliveredWasStored'  BY <1>1, RowsKept
<1>3. AckWasStored'
  <2>1. CASE RejectTimestamp(c) \/ RejectCiphertext(c)
    BY <1>1, <2>1, ReplyKept DEF RejectTimestamp, RejectCiphertext
  <2>2. CASE SendAck(c)
    <3>1. Incoming(c) \in everStored
      BY <2>2 DEF SendAck, DeliveryInv, HandledWasStored
    <3> QED  BY <1>1, <2>2, <3>1, ReplyKept DEF SendAck
  <2>3. CASE ~RejectTimestamp(c) /\ ~RejectCiphertext(c) /\ ~SendAck(c)
    <3>1. UNCHANGED back
      BY <2>3 DEF ReceiverStep, RejectSequence, RejectSeen, AcceptMessage,
                  SaveIncoming, InsertSeenID, DiscardFrame, ReceiverLoopEnds
    <3> QED  BY <1>1, <3>1 DEF DeliveryInv, AckWasStored
  <2> QED  BY <2>1, <2>2, <2>3
<1>4. \A d \in Conns \ {c} : hpc'[d] = hpc[d] /\ wire'[d] = wire[d]
  BY <1>0
  DEF ReceiverStep, RejectTimestamp, RejectSequence, RejectSeen,
      RejectCiphertext, AcceptMessage, SaveIncoming, InsertSeenID, SendAck,
      DiscardFrame, ReceiverLoopEnds, FinishMessage
<1>5. hpc'[c] \in {"seen", "ack"} => Incoming(c)' \in everStored'
  <2>1. CASE SaveIncoming(c)
    BY <1>0, <2>1 DEF SaveIncoming, Incoming, LoopStates
  <2>2. CASE InsertSeenID(c)
    <3>1. Incoming(c) \in everStored
      BY <2>2 DEF InsertSeenID, DeliveryInv, HandledWasStored
    <3> QED  BY <1>1, <2>2, <3>1 DEF InsertSeenID, Incoming
  <2>3. CASE ~SaveIncoming(c) /\ ~InsertSeenID(c)
    <3>1. hpc'[c] \in {"recv", "save", "ended"}
      BY <1>0, <2>3
      DEF ReceiverStep, RejectTimestamp, RejectSequence, RejectSeen,
          RejectCiphertext, AcceptMessage, AcceptSequence, SendAck,
          DiscardFrame, ReceiverLoopEnds, Receiving
    <3> QED  BY <3>1
  <2> QED  BY <2>1, <2>2, <2>3
<1>6. HandledWasStored'  BY <1>1, <1>4, <1>5, HandlerMoves
<1> QED  BY <1>2, <1>3, <1>6

\* handleAck marks delivered only what an ack in flight is about.
LEMMA SenderLoopDelivery ==
  ASSUME DeliveryInv, NEW c \in Conns, SenderLoopStep(c)
  PROVE  DeliveredWasStored' /\ HandledWasStored' /\ AckWasStored'
<1> USE DEF timeVars, rowVars, linkVars, userVars, drainVars, recvVars
<1>0. TypeOK /\ back \in [Conns -> Seq(Reply)]  BY DEF DeliveryInv, TypeOK, WireOK
<1>1. UNCHANGED <<hpc, everStored, wire>>
  BY DEF SenderLoopStep, HandleAck, HandleProtocolError, SenderLoopEnds
<1>2. HandledWasStored'  BY <1>1 DEF DeliveryInv, HandledWasStored, Incoming
<1>3. AckWasStored'
  <2>1. ASSUME NEW k, HandleReply(c, k)  PROVE AckWasStored'
    <3>1. back[c] \in Seq(Reply) /\ back[c] # <<>> /\ back' = [back EXCEPT ![c] = Tail(@)]
      BY <1>0, <2>1 DEF HandleReply
    <3>2. \A i \in 1..Len(Tail(back[c])) :
            i + 1 \in 1..Len(back[c]) /\ Tail(back[c])[i] = back[c][i + 1]
      BY <3>1
    <3> QED  BY <1>0, <1>1, <3>1, <3>2 DEF DeliveryInv, AckWasStored
  <2>2. CASE SenderLoopEnds(c)
    BY <1>0, <1>1, <2>2 DEF SenderLoopEnds, DeliveryInv, AckWasStored
  <2> QED  BY <2>1, <2>2 DEF SenderLoopStep, HandleAck, HandleProtocolError
<1>4. DeliveredWasStored'
  <2>1. CASE HandleAck(c)
    <3>1. back[c] \in Seq(Reply) /\ back[c] # <<>> /\ Head(back[c]).kind = "ack"
      BY <1>0, <2>1 DEF HandleAck, HandleReply
    <3>2. Head(back[c]) = back[c][1] /\ 1 \in 1..Len(back[c])  BY <3>1
    <3>3. Head(back[c]).id \in everStored
      BY <3>1, <3>2 DEF DeliveryInv, AckWasStored
    <3> QED
      BY <1>0, <1>1, <2>1, <3>3
      DEF HandleAck, UpdateDeliveryStatus, DeliveryInv, DeliveredWasStored,
          TypeOK, TableOK
  <2>2. CASE HandleProtocolError(c)
    BY <1>1, <2>2, NotDelivered DEF HandleProtocolError
  <2>3. CASE SenderLoopEnds(c)  BY <1>1, <2>3, RowsKept DEF SenderLoopEnds
  <2> QED  BY <2>1, <2>2, <2>3 DEF SenderLoopStep
<1> QED  BY <1>2, <1>3, <1>4

\* No connection, crash or cleanup makes up a delivery.
LEMMA EnvironmentDelivery ==
  ASSUME DeliveryInv, Environment
  PROVE  DeliveredWasStored' /\ HandledWasStored' /\ AckWasStored'
<1> USE DEF timeVars, rowVars, linkVars, userVars, drainVars, recvVars
<1> USE DEF Environment, Submit, RegisterConnection, CloseSender, CloseReceiver,
           SenderCrashes, ReceiverCrashes, Tick, AddPeer, ClearSenderHistory,
           ClearReceiverHistory, PruneOldEntries
<1>0. TypeOK /\ hpc \in [Conns -> LoopStates]  BY DEF DeliveryInv, TypeOK, WireOK
<1>1. UNCHANGED everStored  OBVIOUS
<1>2. \A m \in Messages : row'[m] = "delivered" => row[m] = "delivered"
  OBVIOUS
<1>3. DeliveredWasStored'  BY <1>1, <1>2, RowsKept
<1>4. \A c \in Conns : hpc'[c] \in {"seen", "ack"}
                       => hpc'[c] = hpc[c] /\ wire'[c] = wire[c]
  BY <1>0
<1>5. HandledWasStored'
  BY <1>1, <1>4 DEF DeliveryInv, HandledWasStored, Incoming
<1>6. \A c \in Conns : back'[c] = back[c] \/ back'[c] = <<>>  OBVIOUS
<1>7. AckWasStored'  BY <1>1, <1>6 DEF DeliveryInv, AckWasStored
<1> QED  BY <1>3, <1>5, <1>7

\* The double tick tells the truth, for any number of messages, connections and
\* crashes: a row marked delivered (handleAck) is a message the receiver stored
\* (handleIncomingEncryptedMessage), although the ack crosses connections that
\* close, drains and rejections in between.
THEOREM DeliveredIsTrue == Spec => []DeliveredWasStored
<1>1. Init /\ TypeOK => DeliveryInv
  BY DEF Init, DeliveryInv, DeliveredWasStored, HandledWasStored, AckWasStored
<1>2. DeliveryInv /\ TypeOK' /\ [Next]_vars => DeliveryInv'
  <2> SUFFICES ASSUME DeliveryInv, TypeOK', [Next]_vars PROVE DeliveryInv'  OBVIOUS
  <2>1. CASE UNCHANGED vars
    BY <2>1 DEF vars, timeVars, rowVars, recvVars, DeliveryInv, DeliveredWasStored,
                HandledWasStored, Incoming, AckWasStored
  <2>2. CASE Next
    <3>1. DeliveredWasStored' /\ HandledWasStored' /\ AckWasStored'
      BY <2>2, UserDelivery, DrainDelivery, ReceiverDelivery, SenderLoopDelivery,
         EnvironmentDelivery DEF Next
    <3> QED  BY <3>1 DEF DeliveryInv
  <2> QED  BY <2>1, <2>2
<1>3. DeliveryInv => DeliveredWasStored  BY DEF DeliveryInv
<1> QED  BY <1>1, <1>2, <1>3, TypeCorrect, PTL DEF Spec

-----------------------------------------------------------------------------
(* AtMostOnce. *)

\* A message that is not in the table was not announced.
AnnouncedIsStored == \A m \in Messages : m \notin stored => notified[m] = 0

\* A handler about to announce a message is the first and the only one.
AnnouncesFirst ==
  \A c \in Conns : hpc[c] = "seen"
    => Incoming(c) \in stored /\ notified[Incoming(c)] = 0
AnnouncesAlone ==
  \A c, d \in Conns : hpc[c] = "seen" /\ hpc[d] = "seen" /\ c # d
    => Incoming(c) # Incoming(d)

AnnounceInv == /\ TypeOK /\ AtMostOnce /\ AnnouncedIsStored
               /\ AnnouncesFirst /\ AnnouncesAlone

\* Steps that leave the receiver's table, its counts and its handlers alone.
LEMMA AnnounceKept ==
  ASSUME AnnounceInv, UNCHANGED <<stored, notified>>,
         \A c \in Conns : hpc'[c] = "seen"
                         => hpc[c] = "seen" /\ Head(wire'[c]) = Head(wire[c])
  PROVE  AtMostOnce' /\ AnnouncedIsStored' /\ AnnouncesFirst' /\ AnnouncesAlone'
<1>1. \A c \in Conns : hpc'[c] = "seen" => hpc[c] = "seen" /\ Incoming(c)' = Incoming(c)
  BY DEF Incoming
<1>2. AtMostOnce' /\ AnnouncedIsStored'
  BY DEF AnnounceInv, AtMostOnce, AnnouncedIsStored
<1>3. AnnouncesFirst'  BY <1>1 DEF AnnounceInv, AnnouncesFirst
<1>4. AnnouncesAlone'  BY <1>1 DEF AnnounceInv, AnnouncesAlone
<1> QED  BY <1>2, <1>3, <1>4

\* SaveMessage puts one more handler before its callback.
LEMMA SaveAnnounce ==
  ASSUME AnnounceInv, NEW c \in Conns, SaveIncoming(c), CanInsert(Incoming(c))
  PROVE  AtMostOnce' /\ AnnouncedIsStored' /\ AnnouncesFirst' /\ AnnouncesAlone'
<1>0. /\ TypeOK /\ hpc \in [Conns -> LoopStates] /\ wire[c] # <<>>
      /\ hpc' = [hpc EXCEPT ![c] = "seen"] /\ UNCHANGED <<wire, notified>>
      /\ stored' = stored \cup {Incoming(c)} /\ Incoming(c) \notin stored
  BY DEF AnnounceInv, SaveIncoming, CanInsert, TypeOK, WireOK
<1>1. Incoming(c) \in Messages  BY <1>0, HeadFrame
<1>2. \A d \in Conns : Incoming(d)' = Incoming(d)  BY <1>0 DEF Incoming
<1>3. AtMostOnce' /\ AnnouncedIsStored'
  BY <1>0 DEF AnnounceInv, AtMostOnce, AnnouncedIsStored
<1>4. notified[Incoming(c)] = 0  BY <1>0, <1>1 DEF AnnounceInv, AnnouncedIsStored
<1>5. \A d \in Conns \ {c} : hpc[d] = "seen" => Incoming(d) # Incoming(c)
  BY <1>0 DEF AnnounceInv, AnnouncesFirst
<1>6. AnnouncesFirst'
  BY <1>0, <1>2, <1>4 DEF AnnounceInv, AnnouncesFirst
<1>7. AnnouncesAlone'
  BY <1>0, <1>2, <1>5 DEF AnnounceInv, AnnouncesAlone
<1> QED  BY <1>3, <1>6, <1>7

\* The callback: the handler announces and leaves that place.
LEMMA InsertAnnounce ==
  ASSUME AnnounceInv, NEW c \in Conns, InsertSeenID(c)
  PROVE  AtMostOnce' /\ AnnouncedIsStored' /\ AnnouncesFirst' /\ AnnouncesAlone'
<1>0. /\ TypeOK /\ hpc \in [Conns -> LoopStates] /\ hpc[c] = "seen" /\ wire[c] # <<>>
      /\ hpc' = [hpc EXCEPT ![c] = "ack"] /\ UNCHANGED <<wire, stored>>
      /\ notified' = [notified EXCEPT ![Incoming(c)] = @ + 1]
      /\ notified \in [Messages -> Nat]
  BY DEF AnnounceInv, InsertSeenID, TypeOK, WireOK, RecvOK
<1>1. Incoming(c) \in Messages  BY <1>0, HeadFrame
<1>2. \A d \in Conns : Incoming(d)' = Incoming(d)  BY <1>0 DEF Incoming
<1>3. Incoming(c) \in stored /\ notified[Incoming(c)] = 0
  BY <1>0 DEF AnnounceInv, AnnouncesFirst
<1>4. \A d \in Conns \ {c} : hpc[d] = "seen" => Incoming(d) # Incoming(c)
  BY <1>0 DEF AnnounceInv, AnnouncesAlone
<1>5. AtMostOnce' /\ AnnouncedIsStored'
  BY <1>0, <1>1, <1>3 DEF AnnounceInv, AtMostOnce, AnnouncedIsStored
<1>6. AnnouncesFirst'
  <2>1. SUFFICES ASSUME NEW d \in Conns, hpc'[d] = "seen"
                 PROVE  Incoming(d) \in stored /\ notified'[Incoming(d)] = 0
    BY <1>0, <1>2 DEF AnnouncesFirst
  <2>2. d # c /\ hpc[d] = "seen"  BY <1>0, <2>1
  <2>3. Incoming(d) # Incoming(c)  BY <1>4, <2>2
  <2>4. Incoming(d) \in Messages
    <3>1. wire[d] # <<>>  BY <1>0, <2>2 DEF TypeOK, WireOK
    <3> QED  BY <1>0, <3>1, HeadFrame
  <2> QED  BY <1>0, <2>2, <2>3, <2>4 DEF AnnounceInv, AnnouncesFirst
<1>7. AnnouncesAlone'
  BY <1>0, <1>2 DEF AnnounceInv, AnnouncesAlone
<1> QED  BY <1>5, <1>6, <1>7

\* handleIncomingEncryptedMessage announces a message at most once.
LEMMA ReceiverAnnounce ==
  ASSUME AnnounceInv, NEW c \in Conns, ReceiverStep(c)
  PROVE  AtMostOnce' /\ AnnouncedIsStored' /\ AnnouncesFirst' /\ AnnouncesAlone'
<1> USE DEF timeVars, rowVars, linkVars, userVars, drainVars, recvVars
<1>0. hpc \in [Conns -> LoopStates] /\ wire \in [Conns -> Seq(Frame)]
  BY DEF AnnounceInv, TypeOK, WireOK
<1>1. CASE SaveIncoming(c) /\ CanInsert(Incoming(c))  BY <1>1, SaveAnnounce
<1>2. CASE InsertSeenID(c)  BY <1>2, InsertAnnounce
<1>3. CASE ~(SaveIncoming(c) /\ CanInsert(Incoming(c))) /\ ~InsertSeenID(c)
  <2>1. /\ UNCHANGED <<stored, notified>> /\ hpc'[c] # "seen"
        /\ \A d \in Conns \ {c} : hpc'[d] = hpc[d] /\ wire'[d] = wire[d]
    BY <1>0, <1>3
    DEF ReceiverStep, RejectTimestamp, RejectSequence, RejectSeen,
        RejectCiphertext, AcceptMessage, AcceptSequence, SaveIncoming, SendAck,
        DiscardFrame, ReceiverLoopEnds, FinishMessage, Receiving
  <2> QED  BY <2>1, AnnounceKept
<1> QED  BY <1>1, <1>2, <1>3

\* The other threads never touch a handler.
LEMMA OtherAnnounce ==
  ASSUME AnnounceInv, ~Clearing,
         \/ \E m \in Messages : UserStep(m)
         \/ \E c \in Conns : DrainStep(c) \/ SenderLoopStep(c)
         \/ Environment
  PROVE  AtMostOnce' /\ AnnouncedIsStored' /\ AnnouncesFirst' /\ AnnouncesAlone'
<1> USE DEF timeVars, rowVars, linkVars, userVars, drainVars, recvVars
<1>0. TypeOK  BY DEF AnnounceInv
<1>01. \A c \in Conns : hpc[c] = "seen" => wire[c] # <<>>  BY <1>0 DEF TypeOK, WireOK
<1>1. ASSUME NEW m \in Messages, UserStep(m)
      PROVE  /\ UNCHANGED <<stored, notified, hpc>>
             /\ \A c \in Conns : wire[c] # <<>> => Head(wire'[c]) = Head(wire[c])
  <2>1. UNCHANGED <<stored, notified, hpc>>
    BY <1>1 DEF UserStep, BuildMessage, SendMessage, SendMessageFails,
                SaveOutgoing, UserEnforce, UserDrop, UserReturn
  <2>2. CASE SendMessage(m)
    <3>1. uconn[m] \in Conns /\ useq[m] \in Nat
      BY <1>0, <2>2, MessagingAssumption DEF SendMessage, TypeOK, UserOK, Conns
    <3> QED  BY <1>0, <2>1, <2>2, <3>1, WriteKeepsHead DEF SendMessage
  <2>3. CASE ~SendMessage(m)
    <3>1. UNCHANGED wire
      BY <1>1, <2>3 DEF UserStep, BuildMessage, SendMessageFails, SaveOutgoing,
                        UserEnforce, UserDrop, UserReturn
    <3> QED  BY <2>1, <3>1
  <2> QED  BY <2>2, <2>3
<1>2. ASSUME NEW c \in Conns, DrainStep(c)
      PROVE  /\ UNCHANGED <<stored, notified, hpc>>
             /\ \A d \in Conns : wire[d] # <<>> => Head(wire'[d]) = Head(wire[d])
  <2>1. UNCHANGED <<stored, notified, hpc>>
    BY <1>2 DEF DrainStep, DrainEnforce, DrainDrop, DrainFetch, DrainBuild,
                DrainReturn, DrainSend, DrainSendFails, DrainUpdate
  <2>2. CASE DrainSend(c)
    <3>1. todo[c] \in Seq(Messages) /\ todo[c] # <<>> /\ dseq[c] \in Nat
      BY <1>0, <2>2 DEF DrainSend, TypeOK, DrainOK
    <3>2. Head(todo[c]) \in Messages  BY <3>1
    <3> QED  BY <1>0, <2>1, <2>2, <3>1, <3>2, WriteKeepsHead DEF DrainSend
  <2>3. CASE ~DrainSend(c)
    <3>1. UNCHANGED wire
      BY <1>2, <2>3 DEF DrainStep, DrainEnforce, DrainDrop, DrainFetch, DrainBuild,
                        DrainReturn, DrainSendFails, DrainUpdate
    <3> QED  BY <2>1, <3>1
  <2> QED  BY <2>2, <2>3
<1>3. ASSUME NEW c \in Conns, SenderLoopStep(c)
      PROVE  UNCHANGED <<stored, notified, hpc, wire>>
  BY <1>3 DEF SenderLoopStep, HandleAck, HandleProtocolError, SenderLoopEnds
<1>4. CASE Environment
  <2>1. UNCHANGED <<stored, notified>>
    BY <1>4 DEF Environment, Submit, RegisterConnection, CloseSender, CloseReceiver,
                SenderCrashes, ReceiverCrashes, Tick, AddPeer, ClearSenderHistory,
                ClearReceiverHistory, PruneOldEntries
  <2>2. \A c \in Conns : hpc'[c] = "seen" => hpc[c] = "seen" /\ wire'[c] = wire[c]
    <3>1. hpc \in [Conns -> LoopStates]  BY <1>0 DEF TypeOK, WireOK
    <3> QED
      BY <1>4, <3>1
      DEF Environment, Submit, RegisterConnection, CloseSender, CloseReceiver,
          SenderCrashes, ReceiverCrashes, Tick, AddPeer, ClearSenderHistory,
          ClearReceiverHistory, PruneOldEntries
  <2> QED  BY <2>1, <2>2, AnnounceKept
<1> QED  BY <1>01, <1>1, <1>2, <1>3, <1>4, AnnounceKept

\* OnMessageReceived runs at most once per message as long as the receiver does
\* not clear its history: the primary key of the messages table holds off a
\* message that is sent again, on another connection, while the handler of its
\* first copy has not reached InsertSeenID.
THEOREM AnnouncedAtMostOnce ==
  ASSUME ~Clearing
  PROVE  Spec => []AtMostOnce
<1>1. Init /\ TypeOK => AnnounceInv
  BY DEF Init, AnnounceInv, AtMostOnce, AnnouncedIsStored, AnnouncesFirst,
         AnnouncesAlone
<1>2. AnnounceInv /\ TypeOK' /\ [Next]_vars => AnnounceInv'
  <2> SUFFICES ASSUME AnnounceInv, TypeOK', [Next]_vars PROVE AnnounceInv'  OBVIOUS
  <2>1. CASE UNCHANGED vars
    <3>1. UNCHANGED <<stored, notified, hpc, wire>>  BY <2>1 DEF vars, recvVars
    <3> QED  BY <3>1, AnnounceKept DEF AnnounceInv
  <2>2. CASE Next
    <3>1. AtMostOnce' /\ AnnouncedIsStored' /\ AnnouncesFirst' /\ AnnouncesAlone'
      BY <2>2, ReceiverAnnounce, OtherAnnounce DEF Next
    <3> QED  BY <3>1 DEF AnnounceInv
  <2> QED  BY <2>1, <2>2
<1>3. AnnounceInv => AtMostOnce  BY DEF AnnounceInv
<1> QED  BY <1>1, <1>2, <1>3, TypeCorrect, PTL DEF Spec

-----------------------------------------------------------------------------
(* NoDuplicateTransmission. *)

\* The goroutine of message m has not saved its row yet.
Early == {"idle", "build", "write", "save"}

\* The row does not exist before the goroutine saves it, and the goroutine has not
\* written the message unless it is about to save it as sent.
EarlyOK(m) ==
  upc[m] \in Early =>
    /\ row[m] = "none"
    /\ upc[m] # "save" => ustatus[m] = "pending"
    /\ ustatus[m] = "pending" => writes[m] = 0

\* The drain of connection c has written m and its row is still to be updated.
Updating(c, m) == dpc[c] = "update" /\ Head(todo[c]) = m

\* A pending row is of a message that was never written, or that a drain has
\* just written and is about to mark as sent.
PendingOK(m) ==
  row[m] = "pending" => writes[m] = 0 \/ \E c \in Conns : Updating(c, m)

\* The positions of its snapshot that the drain of c has still to write.
Ahead(c) ==
  IF dpc[c] = "update" THEN 2..Len(todo[c])
  ELSE IF dpc[c] \in {"next", "write"} THEN 1..Len(todo[c]) ELSE {}

\* What a drain has still to write was never written, and its snapshot has no
\* message twice.
AheadOK(c) ==
  /\ \A i \in Ahead(c) : writes[todo[c][i]] = 0 /\ upc[todo[c][i]] \notin Early
  /\ \A i, j \in 1..Len(todo[c]) : i # j => todo[c][i] # todo[c][j]

\* There is one drain at a time, and activeDrains says so.
OneDrain ==
  /\ \A c \in Conns : dpc[c] # "off" => active
  /\ \A c, d \in Conns : dpc[c] # "off" /\ dpc[d] # "off" => c = d

\* The strengthening of NoDuplicateTransmission.
TransmitInv ==
  crashes = 0 =>
    /\ OneDrain
    /\ \A m \in Messages : EarlyOK(m) /\ PendingOK(m) /\ writes[m] <= 1
    /\ \A c \in Conns : AheadOK(c)

\* A snapshot of pending rows has no message twice, and all of them are pending.
LEMMA SnapshotOnce ==
  ASSUME TypeOK, NEW s \in OldestFirst(Pending(row))
  PROVE  /\ s \in Seq(Messages)
         /\ \A i \in 1..Len(s) : s[i] \in Messages /\ row[s[i]] = "pending"
         /\ \A i, j \in 1..Len(s) : i # j => s[i] # s[j]
<1>1. s \in Seq(Messages)  BY OldestFirstType DEF Pending
<1>2. PICK n \in Nat : s \in [1..n -> Pending(row)]
  <2>1. IsFiniteSet(Pending(row))  BY FS_Subset, MessagingAssumption DEF Pending
  <2>2. Cardinality(Pending(row)) \in Nat  BY <2>1, FS_CardinalityType
  <2> QED  BY <2>2 DEF OldestFirst
<1>3. DOMAIN s = 1..Len(s)  BY <1>1
<1>4. \A i \in 1..Len(s) : s[i] \in Pending(row)  BY <1>2, <1>3
<1>5. \A i, j \in 1..Len(s) : i < j => s[i] # s[j]  BY <1>3 DEF OldestFirst
<1>6. \A i, j \in 1..Len(s) : i # j => i < j \/ j < i  BY <1>1
<1> QED  BY <1>1, <1>4, <1>5, <1>6 DEF Pending

\* A step by which rows only stop being pending, and that no goroutine of a
\* message and no drain takes.
LEMMA TransmitKept ==
  ASSUME TypeOK, TransmitInv, UNCHANGED <<upc, ustatus, dpc, todo, active, writes>>,
         crashes' = 0 => crashes = 0,
         \A m \in Messages : /\ row'[m] = "pending" => row[m] = "pending"
                             /\ row[m] = "none" => row'[m] = "none"
  PROVE  TransmitInv'
<1>1. SUFFICES ASSUME crashes' = 0
               PROVE  /\ OneDrain'
                      /\ \A m \in Messages : EarlyOK(m)' /\ PendingOK(m)' /\ writes'[m] <= 1
                      /\ \A c \in Conns : AheadOK(c)'
  BY DEF TransmitInv
<1>2. /\ OneDrain /\ \A c \in Conns : AheadOK(c)
      /\ \A m \in Messages : EarlyOK(m) /\ PendingOK(m) /\ writes[m] <= 1
  BY <1>1 DEF TransmitInv
<1>3. OneDrain'  BY <1>2 DEF OneDrain
<1>4. \A c \in Conns : AheadOK(c)'  BY <1>2 DEF AheadOK, Ahead
<1>5. ASSUME NEW m \in Messages  PROVE EarlyOK(m)' /\ PendingOK(m)' /\ writes'[m] <= 1
  BY <1>2 DEF EarlyOK, PendingOK, Updating
<1> QED  BY <1>3, <1>4, <1>5

\* The goroutine of a message that is in no snapshot moves.
LEMMA UserMoves ==
  ASSUME TypeOK, TransmitInv, NEW m \in Messages, upc[m] \in Early,
         UNCHANGED <<dpc, todo, active, crashes>>,
         \A n \in Messages \ {m} :
           /\ upc'[n] = upc[n] /\ ustatus'[n] = ustatus[n]
           /\ writes'[n] = writes[n] /\ row'[n] = row[n],
         crashes = 0 => EarlyOK(m)' /\ PendingOK(m)' /\ writes'[m] <= 1
  PROVE  TransmitInv'
<1>1. SUFFICES ASSUME crashes = 0
               PROVE  /\ OneDrain'
                      /\ \A n \in Messages : EarlyOK(n)' /\ PendingOK(n)' /\ writes'[n] <= 1
                      /\ \A c \in Conns : AheadOK(c)'
  BY DEF TransmitInv
<1>2. /\ OneDrain /\ \A c \in Conns : AheadOK(c)
      /\ \A n \in Messages : EarlyOK(n) /\ PendingOK(n) /\ writes[n] <= 1
  BY <1>1 DEF TransmitInv
<1>3. OneDrain'  BY <1>2 DEF OneDrain
<1>4. ASSUME NEW c \in Conns  PROVE AheadOK(c)'
  <2>1. todo[c] \in Seq(Messages)  BY DEF TypeOK, DrainOK
  <2>2. Ahead(c)' = Ahead(c) /\ Ahead(c) \subseteq 1..Len(todo[c])
    BY <2>1 DEF Ahead
  <2>3. \A i \in Ahead(c) : todo[c][i] \in Messages \ {m}
    BY <1>2, <2>1, <2>2 DEF AheadOK
  <2> QED  BY <1>2, <2>2, <2>3 DEF AheadOK
<1>5. ASSUME NEW n \in Messages  PROVE EarlyOK(n)' /\ PendingOK(n)' /\ writes'[n] <= 1
  <2>1. CASE n = m  BY <1>1, <2>1
  <2>2. CASE n # m  BY <1>2, <2>2 DEF EarlyOK, PendingOK, Updating
  <2> QED  BY <2>1, <2>2
<1> QED  BY <1>3, <1>4, <1>5

\* sendTextMessageWithID writes a message that nobody wrote, and queues one that
\* it has not written.
LEMMA UserTransmit ==
  ASSUME TypeOK, TransmitInv, NEW m \in Messages, UserStep(m) \/ Submit(m)
  PROVE  TransmitInv'
<1> USE DEF timeVars, rowVars, linkVars, userVars, drainVars, recvVars
<1>0. /\ upc \in [Messages -> UserStates] /\ ustatus \in [Messages -> {"pending", "sent"}]
      /\ row \in [Messages -> Statuses] /\ writes \in [Messages -> Nat]
  BY DEF TypeOK, UserOK, TableOK
<1>1. crashes = 0 => EarlyOK(m) /\ PendingOK(m) /\ writes[m] <= 1
  BY DEF TransmitInv
<1>2. CASE BuildMessage(m) \/ SendMessageFails(m) \/ Submit(m)
  <2>1. /\ UNCHANGED <<dpc, todo, active, crashes, ustatus, writes, row>>
        /\ upc[m] \in {"idle", "build", "write"}
        /\ upc' = [upc EXCEPT ![m] = upc'[m]] /\ upc'[m] \in {"build", "write", "save"}
    BY <1>0, <1>2 DEF BuildMessage, SendMessageFails, ForgetConnection, Submit
  <2>2. crashes = 0 => EarlyOK(m)' /\ PendingOK(m)' /\ writes'[m] <= 1
    BY <1>0, <1>1, <2>1 DEF EarlyOK, PendingOK, Early
  <2> QED  BY <1>0, <2>1, <2>2, UserMoves DEF Early
<1>3. CASE SendMessage(m)
  <2>1. /\ UNCHANGED <<dpc, todo, active, crashes, row>>
        /\ upc[m] = "write" /\ upc' = [upc EXCEPT ![m] = "save"]
        /\ ustatus' = [ustatus EXCEPT ![m] = "sent"]
        /\ writes' = [writes EXCEPT ![m] = @ + 1]
    BY <1>3 DEF SendMessage, ForgetConnection, WriteFrame
  <2>2. crashes = 0 => EarlyOK(m)' /\ PendingOK(m)' /\ writes'[m] <= 1
    BY <1>0, <1>1, <2>1 DEF EarlyOK, PendingOK, Early
  <2> QED  BY <1>0, <2>1, <2>2, UserMoves DEF Early
<1>4. CASE SaveOutgoing(m)
  <2>1. /\ UNCHANGED <<dpc, todo, active, crashes, ustatus, writes>>
        /\ upc[m] = "save" /\ upc' = [upc EXCEPT ![m] = upc'[m]]
        /\ upc'[m] \in {"enforce", "done"} /\ row' = [row EXCEPT ![m] = ustatus[m]]
    BY <1>0, <1>4 DEF SaveOutgoing
  <2>2. crashes = 0 => EarlyOK(m)' /\ PendingOK(m)' /\ writes'[m] <= 1
    BY <1>0, <1>1, <2>1 DEF EarlyOK, PendingOK, Early
  <2> QED  BY <1>0, <2>1, <2>2, UserMoves DEF Early
<1>5. CASE UserEnforce(m) \/ UserDrop(m) \/ UserReturn(m)
  <2>1. /\ UNCHANGED <<dpc, todo, active, crashes, ustatus, writes>>
        /\ upc[m] \in {"enforce", "drop"}
        /\ upc' = [upc EXCEPT ![m] = upc'[m]] /\ upc'[m] \in {"drop", "done"}
    BY <1>0, <1>5 DEF UserEnforce, UserDrop, UserReturn, FailVictim
  <2>2. \A n \in Messages : /\ row'[n] = "pending" => row[n] = "pending"
                            /\ row[n] = "none" => row'[n] = "none"
    BY <1>0, <1>5 DEF UserEnforce, UserDrop, UserReturn, FailVictim, EnforceQueueLimits,
                      PruneExpiredQueue, UpdateDeliveryStatus, HasRow
  <2>3. SUFFICES ASSUME crashes = 0
                 PROVE  /\ OneDrain'
                        /\ \A n \in Messages :
                             EarlyOK(n)' /\ PendingOK(n)' /\ writes'[n] <= 1
                        /\ \A c \in Conns : AheadOK(c)'
    BY <2>1 DEF TransmitInv
  <2>4. /\ OneDrain /\ \A c \in Conns : AheadOK(c)
        /\ \A n \in Messages : EarlyOK(n) /\ PendingOK(n) /\ writes[n] <= 1
    BY <2>3 DEF TransmitInv
  <2>5. \A n \in Messages : upc'[n] \in Early => upc[n] \in Early /\ upc'[n] = upc[n]
    BY <1>0, <2>1 DEF Early
  <2>6. OneDrain'  BY <2>1, <2>4 DEF OneDrain
  <2>7. ASSUME NEW c \in Conns  PROVE AheadOK(c)'
    <3>1. todo[c] \in Seq(Messages)  BY DEF TypeOK, DrainOK
    <3>2. Ahead(c)' = Ahead(c) /\ Ahead(c) \subseteq 1..Len(todo[c])
      BY <2>1, <3>1 DEF Ahead
    <3>3. \A i \in Ahead(c) : todo[c][i] \in Messages  BY <3>1, <3>2
    <3> QED  BY <2>1, <2>4, <2>5, <3>2, <3>3 DEF AheadOK
  <2>8. \A n \in Messages : EarlyOK(n)' /\ PendingOK(n)' /\ writes'[n] <= 1
    BY <2>1, <2>2, <2>4, <2>5 DEF EarlyOK, PendingOK, Updating
  <2> QED  BY <2>6, <2>7, <2>8
<1> QED  BY <1>2, <1>3, <1>4, <1>5 DEF UserStep

\* The one drain moves: what it has still to write was not written, and a pending
\* row that was written is the one it is about to update.
LEMMA DrainMoves ==
  ASSUME TypeOK, TransmitInv, NEW c \in Conns, dpc[c] # "off", NEW p \in DrainStates,
         UNCHANGED <<upc, ustatus, crashes>>, dpc' = [dpc EXCEPT ![c] = p],
         p # "off" => active' = active,
         \A d \in Conns \ {c} : todo'[d] = todo[d],
         crashes = 0 => /\ AheadOK(c)'
                        /\ \A n \in Messages :
                             EarlyOK(n)' /\ PendingOK(n)' /\ writes'[n] <= 1
  PROVE  TransmitInv'
<1>1. SUFFICES ASSUME crashes = 0
               PROVE  OneDrain' /\ \A d \in Conns : AheadOK(d)'
  BY DEF TransmitInv
<1>2. OneDrain /\ \A d \in Conns : AheadOK(d)
  BY <1>1 DEF TransmitInv
<1>3. dpc \in [Conns -> DrainStates]  BY DEF TypeOK, DrainOK
<1>4. \A d \in Conns \ {c} : dpc[d] = "off" /\ dpc'[d] = "off"
  BY <1>2, <1>3 DEF OneDrain
<1>5. OneDrain'  BY <1>2, <1>3, <1>4 DEF OneDrain
<1>6. ASSUME NEW d \in Conns \ {c}  PROVE AheadOK(d)'
  <2>1. Ahead(d)' = {}  BY <1>4 DEF Ahead
  <2> QED  BY <1>2, <2>1 DEF AheadOK
<1> QED  BY <1>1, <1>5, <1>6

\* drainPendingMessages writes each message of its snapshot once, and nothing that
\* was written before.
LEMMA DrainTransmit ==
  ASSUME TypeOK, TransmitInv, NEW c \in Conns, DrainStep(c)
  PROVE  TransmitInv'
<1> USE DEF timeVars, rowVars, linkVars, userVars, drainVars, recvVars
<1>0. /\ dpc \in [Conns -> DrainStates] /\ todo \in [Conns -> Seq(Messages)]
      /\ row \in [Messages -> Statuses] /\ writes \in [Messages -> Nat]
      /\ todo[c] \in Seq(Messages)
      /\ dpc[c] \in {"write", "update"} => todo[c] # <<>>
  BY DEF TypeOK, DrainOK, TableOK
<1>1. /\ UNCHANGED <<upc, ustatus, crashes>> /\ dpc[c] # "off"
  BY DEF DrainStep, DrainEnforce, DrainDrop, DrainFetch, DrainBuild, DrainReturn,
         DrainSend, DrainSendFails, DrainUpdate, FailVictim
<1>2. crashes = 0 =>
        /\ OneDrain /\ \A d \in Conns : AheadOK(d)
        /\ \A n \in Messages : EarlyOK(n) /\ PendingOK(n) /\ writes[n] <= 1
  BY DEF TransmitInv
<1>3. \A d \in Conns \ {c} : crashes = 0 => dpc[d] = "off"
  BY <1>1, <1>2 DEF OneDrain
<1>4. dpc[c] # "update" => \A n \in Messages :
        crashes = 0 /\ row[n] = "pending" => writes[n] = 0
  BY <1>2, <1>3 DEF PendingOK, Updating
<1>5. ASSUME UNCHANGED writes,
             \A n \in Messages : /\ row'[n] = "pending" => row[n] = "pending"
                                 /\ row[n] = "none" => row'[n] = "none"
      PROVE  crashes = 0 => \A n \in Messages : EarlyOK(n)' /\ writes'[n] <= 1
  BY <1>1, <1>2, <1>5 DEF EarlyOK
<1>6. ASSUME UNCHANGED writes, dpc[c] # "update",
             \A n \in Messages : row'[n] = "pending" => row[n] = "pending"
      PROVE  crashes = 0 => \A n \in Messages : PendingOK(n)'
  BY <1>4, <1>6 DEF PendingOK
<1>7. CASE DrainEnforce(c)
  <2>1. /\ UNCHANGED <<writes, todo, active>> /\ dpc' = [dpc EXCEPT ![c] = "drop"]
        /\ dpc[c] = "enforce"
    BY <1>7 DEF DrainEnforce
  <2>2. \A n \in Messages : /\ row'[n] = "pending" => row[n] = "pending"
                            /\ row[n] = "none" => row'[n] = "none"
    BY <1>0, <1>7 DEF DrainEnforce, EnforceQueueLimits, PruneExpiredQueue
  <2>3. crashes = 0 => AheadOK(c)'
    BY <1>0, <1>2, <2>1 DEF AheadOK, Ahead
  <2> QED  BY <1>1, <1>5, <1>6, <2>1, <2>2, <2>3, DrainMoves DEF DrainStates
<1>8. CASE DrainDrop(c)
  <2>1. UNCHANGED <<upc, ustatus, dpc, todo, active, writes, crashes>>
    BY <1>8 DEF DrainDrop
  <2>2. \A n \in Messages : /\ row'[n] = "pending" => row[n] = "pending"
                            /\ row[n] = "none" => row'[n] = "none"
    BY <1>0, <1>8 DEF DrainDrop, FailVictim, UpdateDeliveryStatus, HasRow
  <2> QED  BY <2>1, <2>2, TransmitKept
<1>9. CASE DrainFetch(c)
  <2>1. PICK s \in OldestFirst(Pending(row)) : todo' = [todo EXCEPT ![c] = s]
    BY <1>9 DEF DrainFetch
  <2>2. /\ UNCHANGED <<writes, row, active>> /\ dpc' = [dpc EXCEPT ![c] = "next"]
        /\ dpc[c] = "drop" /\ todo'[c] = s /\ dpc'[c] = "next"
    BY <1>0, <1>9, <2>1 DEF DrainFetch
  <2>3. crashes = 0 => AheadOK(c)'
    <3>1. SUFFICES ASSUME crashes = 0
                   PROVE  /\ \A i \in 1..Len(s) : writes'[s[i]] = 0 /\ upc'[s[i]] \notin Early
                          /\ \A i, j \in 1..Len(s) : i # j => s[i] # s[j]
      BY <2>2 DEF AheadOK, Ahead
    <3>2. /\ \A i \in 1..Len(s) : s[i] \in Messages /\ row[s[i]] = "pending"
          /\ \A i, j \in 1..Len(s) : i # j => s[i] # s[j]
      BY SnapshotOnce
    <3>3. \A n \in Messages : row[n] = "pending" => writes[n] = 0 /\ upc[n] \notin Early
      BY <1>2, <1>4, <2>2, <3>1 DEF EarlyOK
    <3> QED  BY <1>1, <2>2, <3>2, <3>3
  <2>4. \A d \in Conns \ {c} : todo'[d] = todo[d]  BY <1>0, <2>1
  <2> QED  BY <1>1, <1>5, <1>6, <2>2, <2>3, <2>4, DrainMoves DEF DrainStates
<1>10. CASE DrainBuild(c)
  <2>1. /\ UNCHANGED <<writes, row, todo, active>> /\ dpc' = [dpc EXCEPT ![c] = "write"]
        /\ dpc[c] = "next" /\ dpc'[c] = "write"
    BY <1>0, <1>10 DEF DrainBuild
  <2>2. crashes = 0 => AheadOK(c)'
    BY <1>1, <1>2, <2>1 DEF AheadOK, Ahead
  <2> QED  BY <1>1, <1>5, <1>6, <2>1, <2>2, DrainMoves DEF DrainStates
<1>11. CASE DrainReturn(c) \/ DrainSendFails(c)
  <2>1. /\ UNCHANGED <<writes, row>> /\ dpc' = [dpc EXCEPT ![c] = "off"]
        /\ dpc[c] \in {"next", "write"} /\ dpc'[c] = "off"
        /\ todo' = [todo EXCEPT ![c] = <<>>] /\ todo'[c] = <<>>
    BY <1>0, <1>11 DEF DrainReturn, DrainSendFails, StopDrain
  <2>2. AheadOK(c)'
    <3>1. Ahead(c)' = {} /\ 1..Len(todo'[c]) = {}  BY <2>1 DEF Ahead
    <3> QED  BY <3>1 DEF AheadOK
  <2>3. \A d \in Conns \ {c} : todo'[d] = todo[d]  BY <1>0, <2>1
  <2> QED  BY <1>1, <1>5, <1>6, <2>1, <2>2, <2>3, DrainMoves DEF DrainStates
<1>12. CASE DrainSend(c)
  <2> DEFINE m == Head(todo[c])
  <2>1. /\ UNCHANGED <<row, todo, active>> /\ dpc' = [dpc EXCEPT ![c] = "update"]
        /\ dpc[c] = "write" /\ dpc'[c] = "update" /\ todo[c] # <<>>
        /\ writes' = [writes EXCEPT ![m] = @ + 1]
    BY <1>0, <1>12 DEF DrainSend, WriteFrame
  <2>2. m \in Messages /\ m = todo[c][1] /\ 1 \in 1..Len(todo[c])  BY <1>0, <2>1
  <2>3. crashes = 0 => writes[m] = 0 /\ upc[m] \notin Early
    BY <1>2, <2>1, <2>2 DEF AheadOK, Ahead
  <2> HIDE DEF m
  <2>4. crashes = 0 => AheadOK(c)'
    <3>1. SUFFICES ASSUME crashes = 0
                   PROVE  /\ \A i \in 2..Len(todo[c]) :
                               writes'[todo[c][i]] = 0 /\ upc'[todo[c][i]] \notin Early
                          /\ \A i, j \in 1..Len(todo[c]) : i # j => todo[c][i] # todo[c][j]
      BY <2>1 DEF AheadOK, Ahead
    <3>2. \A i \in 2..Len(todo[c]) : i \in 1..Len(todo[c]) /\ i # 1  BY <1>0
    <3>3. /\ \A i \in 1..Len(todo[c]) : writes[todo[c][i]] = 0 /\ upc[todo[c][i]] \notin Early
          /\ \A i, j \in 1..Len(todo[c]) : i # j => todo[c][i] # todo[c][j]
      BY <1>2, <2>1, <3>1 DEF AheadOK, Ahead
    <3>4. \A i \in 2..Len(todo[c]) : todo[c][i] # m /\ todo[c][i] \in Messages
      BY <1>0, <2>2, <3>2, <3>3
    <3> QED  BY <1>0, <1>1, <2>1, <3>2, <3>3, <3>4
  <2>5. ASSUME NEW n \in Messages, crashes = 0
        PROVE  EarlyOK(n)' /\ PendingOK(n)' /\ writes'[n] <= 1
    <3>1. CASE n = m
      <4>1. writes'[n] = 1 /\ upc'[n] \notin Early  BY <1>0, <1>1, <2>1, <2>3, <2>5, <3>1
      <4>2. Updating(c, n)'  BY <2>1, <3>1 DEF Updating, m
      <4> QED  BY <4>1, <4>2 DEF EarlyOK, PendingOK
    <3>2. CASE n # m
      <4>1. writes'[n] = writes[n]  BY <1>0, <2>1, <3>2
      <4> QED  BY <1>1, <1>2, <1>4, <2>1, <2>5, <4>1 DEF EarlyOK, PendingOK
    <3> QED  BY <3>1, <3>2
  <2> QED  BY <1>1, <2>1, <2>4, <2>5, DrainMoves DEF DrainStates
<1>13. CASE DrainUpdate(c)
  <2> DEFINE m == Head(todo[c])
  <2>1. /\ UNCHANGED <<writes, active>> /\ dpc' = [dpc EXCEPT ![c] = "next"]
        /\ dpc[c] = "update" /\ dpc'[c] = "next" /\ todo[c] # <<>>
        /\ todo' = [todo EXCEPT ![c] = Tail(@)] /\ todo'[c] = Tail(todo[c])
        /\ UpdateDeliveryStatus(m, "sent")
    BY <1>0, <1>13 DEF DrainUpdate, Remaining
  <2>2. m \in Messages  BY <1>0, <2>1
  <2> HIDE DEF m
  <2>3. \A n \in Messages : /\ row'[n] = "pending" => row[n] = "pending" /\ n # m
                            /\ row[n] = "none" => row'[n] = "none"
    BY <1>0, <2>1, <2>2 DEF UpdateDeliveryStatus, HasRow
  <2>4. crashes = 0 => AheadOK(c)'
    <3>1. Len(Tail(todo[c])) + 1 = Len(todo[c]) /\ Len(todo[c]) \in Nat
      BY <1>0, <2>1
    <3>2. \A i \in 1..Len(Tail(todo[c])) :
            i + 1 \in 2..Len(todo[c]) /\ Tail(todo[c])[i] = todo[c][i + 1]
      BY <1>0, <2>1, <3>1
    <3> DEFINE s == Tail(todo[c])
    <3>03. Ahead(c)' = 1..Len(s) /\ todo'[c] = s  BY <2>1 DEF Ahead
    <3> HIDE DEF s
    <3>3. SUFFICES ASSUME crashes = 0
                   PROVE  /\ \A i \in 1..Len(s) : writes[s[i]] = 0 /\ upc[s[i]] \notin Early
                          /\ \A i, j \in 1..Len(s) : i # j => s[i] # s[j]
      <4>1. AheadOK(c)' <=>
              /\ \A i \in 1..Len(s) : writes'[s[i]] = 0 /\ upc'[s[i]] \notin Early
              /\ \A i, j \in 1..Len(s) : i # j => s[i] # s[j]
        BY <3>03 DEF AheadOK
      <4> QED  BY <1>1, <2>1, <4>1
    <3> USE DEF s
    <3>4. /\ \A k \in 2..Len(todo[c]) : writes[todo[c][k]] = 0 /\ upc[todo[c][k]] \notin Early
          /\ \A k, j \in 1..Len(todo[c]) : k # j => todo[c][k] # todo[c][j]
      BY <1>2, <2>1, <3>3 DEF AheadOK, Ahead
    <3>5. \A i \in 1..Len(s) : writes[s[i]] = 0 /\ upc[s[i]] \notin Early
      BY <3>2, <3>4
    <3>6. ASSUME NEW i \in 1..Len(s), NEW j \in 1..Len(s), i # j  PROVE s[i] # s[j]
      <4>1. i + 1 \in 1..Len(todo[c]) /\ j + 1 \in 1..Len(todo[c]) /\ i + 1 # j + 1
        BY <3>1, <3>6
      <4>2. todo[c][i + 1] # todo[c][j + 1]  BY <3>4, <4>1
      <4> QED  BY <3>2, <4>2
    <3> QED  BY <3>5, <3>6
  <2>5. ASSUME NEW n \in Messages, crashes = 0  PROVE PendingOK(n)'
    <3>1. row'[n] = "pending" => writes[n] = 0
      <4>1. SUFFICES ASSUME row'[n] = "pending"  PROVE writes[n] = 0  OBVIOUS
      <4>2. row[n] = "pending" /\ n # m  BY <2>3, <4>1
      <4>3. \A d \in Conns : ~Updating(d, n)
        BY <1>3, <2>5, <4>2 DEF Updating, m
      <4> QED  BY <1>2, <2>5, <4>2, <4>3 DEF PendingOK
    <3> QED  BY <2>1, <3>1 DEF PendingOK
  <2>6. \A d \in Conns \ {c} : todo'[d] = todo[d]  BY <1>0, <2>1
  <2> QED  BY <1>1, <1>5, <2>1, <2>3, <2>4, <2>5, <2>6, DrainMoves DEF DrainStates
<1> QED  BY <1>7, <1>8, <1>9, <1>10, <1>11, <1>12, <1>13 DEF DrainStep

\* The connection loops write nothing and queue nothing: acks and errors only take
\* a row out of the queue.
LEMMA LoopTransmit ==
  ASSUME TypeOK, TransmitInv, NEW c \in Conns, ReceiverStep(c) \/ SenderLoopStep(c)
  PROVE  TransmitInv'
<1> USE DEF timeVars, rowVars, linkVars, userVars, drainVars, recvVars
<1>0. row \in [Messages -> Statuses]  BY DEF TypeOK, TableOK
<1>1. UNCHANGED <<upc, ustatus, dpc, todo, active, writes, crashes>>
  BY DEF ReceiverStep, SenderLoopStep, RejectTimestamp, RejectSequence, RejectSeen,
         RejectCiphertext, AcceptMessage, SaveIncoming, InsertSeenID, SendAck,
         DiscardFrame, ReceiverLoopEnds, HandleAck, HandleProtocolError, SenderLoopEnds
<1>2. \A n \in Messages : /\ row'[n] = "pending" => row[n] = "pending"
                          /\ row[n] = "none" => row'[n] = "none"
  <2>1. CASE ReceiverStep(c) \/ SenderLoopEnds(c)
    <3>1. UNCHANGED row
      BY <2>1 DEF ReceiverStep, RejectTimestamp, RejectSequence, RejectSeen,
                  RejectCiphertext, AcceptMessage, SaveIncoming, InsertSeenID, SendAck,
                  DiscardFrame, ReceiverLoopEnds, SenderLoopEnds
    <3> QED  BY <3>1
  <2>2. CASE HandleAck(c) \/ HandleProtocolError(c)
    BY <1>0, <2>2 DEF HandleAck, HandleProtocolError, UpdateDeliveryStatus, HasRow
  <2> QED  BY <2>1, <2>2 DEF SenderLoopStep
<1> QED  BY <1>1, <1>2, TransmitKept

\* registerConnection starts a drain only while there is none; nothing else in the
\* environment writes or queues a message.
LEMMA EnvironmentTransmit ==
  ASSUME TypeOK, TransmitInv, Environment
  PROVE  TransmitInv'
<1> USE DEF timeVars, rowVars, linkVars, userVars, drainVars, recvVars
<1>0. /\ row \in [Messages -> Statuses] /\ crashes \in Nat
      /\ dpc \in [Conns -> DrainStates] /\ todo \in [Conns -> Seq(Messages)]
  BY DEF TypeOK, TableOK, DrainOK
<1>1. ASSUME NEW m \in Messages, Submit(m)  PROVE TransmitInv'
  BY <1>1, UserTransmit
<1>2. ASSUME NEW c \in Conns, RegisterConnection(c)  PROVE TransmitInv'
  <2>1. UNCHANGED <<upc, ustatus, writes, row, crashes, todo>>
    BY <1>2 DEF RegisterConnection, StartQueueDrain
  <2>2. CASE active
    <3>1. UNCHANGED <<dpc, active>>  BY <1>2, <2>2 DEF RegisterConnection, StartQueueDrain
    <3> QED  BY <2>1, <3>1, TransmitKept
  <2>3. CASE ~active
    <3>1. active' /\ dpc' = [dpc EXCEPT ![c] = "enforce"]
      BY <1>2, <2>3 DEF RegisterConnection, StartQueueDrain
    <3>2. SUFFICES ASSUME crashes = 0
                   PROVE  /\ OneDrain'
                          /\ \A n \in Messages :
                               EarlyOK(n)' /\ PendingOK(n)' /\ writes'[n] <= 1
                          /\ \A d \in Conns : AheadOK(d)'
      BY <2>1 DEF TransmitInv
    <3>3. /\ OneDrain /\ \A d \in Conns : AheadOK(d)
          /\ \A n \in Messages : EarlyOK(n) /\ PendingOK(n) /\ writes[n] <= 1
      BY <3>2 DEF TransmitInv
    <3>4. \A d \in Conns : dpc[d] = "off"  BY <2>3, <3>3 DEF OneDrain
    <3>5. \A d \in Conns : dpc'[d] = IF d = c THEN "enforce" ELSE "off"
      BY <1>0, <3>1, <3>4
    <3>6. OneDrain'  BY <3>1, <3>5 DEF OneDrain
    <3>7. \A d \in Conns : AheadOK(d)'
      BY <2>1, <3>3, <3>5 DEF AheadOK, Ahead
    <3>8. ASSUME NEW n \in Messages  PROVE EarlyOK(n)' /\ PendingOK(n)' /\ writes'[n] <= 1
      <4>1. \A d \in Conns : ~Updating(d, n)  BY <3>4 DEF Updating
      <4> QED  BY <2>1, <3>3, <4>1 DEF EarlyOK, PendingOK
    <3> QED  BY <3>6, <3>7, <3>8
  <2> QED  BY <2>2, <2>3
<1>3. CASE SenderCrashes \/ ReceiverCrashes
  <2>1. crashes' # 0  BY <1>0, <1>3 DEF SenderCrashes, ReceiverCrashes
  <2> QED  BY <2>1 DEF TransmitInv
<1>4. ASSUME \/ \E c \in Conns : CloseSender(c) \/ CloseReceiver(c)
             \/ Tick \/ AddPeer \/ ClearSenderHistory
             \/ ClearReceiverHistory \/ PruneOldEntries
      PROVE  TransmitInv'
  <2>1. /\ UNCHANGED <<upc, ustatus, dpc, todo, active, writes, crashes>>
        /\ \A n \in Messages : /\ row'[n] = "pending" => row[n] = "pending"
                               /\ row[n] = "none" => row'[n] = "none"
    BY <1>0, <1>4
    DEF CloseSender, CloseReceiver, Tick, AddPeer, ClearSenderHistory,
        ClearReceiverHistory, PruneOldEntries, HasRow
  <2> QED  BY <2>1, TransmitKept
<1> QED  BY <1>1, <1>2, <1>3, <1>4 DEF Environment

\* Without a crash every message is written to a connection at most once, for any
\* number of messages, connections, drains and queue limits: what a goroutine wrote
\* it never queues, one drain runs at a time (activeDrains), and the next one reads
\* the rows after the last one has marked what it wrote (drainPendingMessages).
THEOREM TransmittedAtMostOnce == Spec => []NoDuplicateTransmission
<1>1. Init => TransmitInv
  BY DEF Init, TransmitInv, OneDrain, EarlyOK, PendingOK, AheadOK, Ahead, Early
<1>2. TransmitInv /\ TypeOK /\ [Next]_vars => TransmitInv'
  <2> SUFFICES ASSUME TransmitInv, TypeOK, [Next]_vars PROVE TransmitInv'  OBVIOUS
  <2>1. CASE UNCHANGED vars
    <3>1. UNCHANGED <<upc, ustatus, dpc, todo, active, writes, row, crashes>>
      BY <2>1 DEF vars, timeVars, rowVars, userVars, drainVars
    <3> QED  BY <3>1, TransmitKept
  <2>2. CASE Next
    BY <2>2, UserTransmit, DrainTransmit, LoopTransmit, EnvironmentTransmit DEF Next
  <2> QED  BY <2>1, <2>2
<1>3. TransmitInv => NoDuplicateTransmission
  BY DEF TransmitInv, NoDuplicateTransmission
<1> QED  BY <1>1, <1>2, <1>3, TypeCorrect, PTL DEF Spec

-----------------------------------------------------------------------------
(* QueueBounded. *)

\* Bytes is defined by recursion over a set.  Its value is the number of pairs of
\* a message of the set and a byte of that message, and this number can be
\* reasoned about without induction.
Cells(S) == {p \in Messages \X Nat : p[1] \in S /\ 1 <= p[2] /\ p[2] <= Size[p[1]]}
Picked(S) == CHOOSE x \in S : TRUE

\* One more message adds its length to the cells.
LEMMA CellsOfOne ==
  ASSUME NEW x \in Messages
  PROVE  IsFiniteSet(Cells({x})) /\ Cardinality(Cells({x})) = Size[x]
<1>1. Size[x] \in Nat  BY MessagingAssumption
<1>2. IsFiniteSet(1..Size[x]) /\ Cardinality(1..Size[x]) = Size[x]
  <2>1. 1 \in Int /\ Size[x] \in Int  BY <1>1
  <2>2. /\ IsFiniteSet(1..Size[x])
        /\ Cardinality(1..Size[x]) = IF 1 > Size[x] THEN 0 ELSE Size[x] - 1 + 1
    BY <2>1, FS_Interval, Zenon
  <2> QED  BY <1>1, <2>2
<1>3. IsFiniteSet({x}) /\ Cardinality({x}) = 1  BY FS_Singleton
<1>4. /\ IsFiniteSet({x} \X (1..Size[x]))
      /\ Cardinality({x} \X (1..Size[x])) = Cardinality({x}) * Cardinality(1..Size[x])
  BY <1>2, <1>3, FS_Product, Zenon
<1>5. Cells({x}) = {x} \X (1..Size[x])
  <2>1. ASSUME NEW p  PROVE p \in Cells({x}) <=> p \in {x} \X (1..Size[x])
    BY <1>1 DEF Cells
  <2> QED  BY <2>1
<1>6. Cardinality({x} \X (1..Size[x])) = Size[x]
  <2> DEFINE k == Cardinality({x})  n == Cardinality(1..Size[x])
  <2>1. k = 1 /\ n = Size[x]  BY <1>2, <1>3
  <2>2. Cardinality({x} \X (1..Size[x])) = k * n  BY <1>4
  <2> HIDE DEF k, n
  <2> QED  BY <1>1, <2>1, <2>2
<1> QED  BY <1>4, <1>5, <1>6

\* The cells of a finite set of messages are finite, and the lengths add up.
LEMMA CellsAdd ==
  ASSUME NEW S \in SUBSET Messages, NEW x \in S, IsFiniteSet(Cells(S \ {x}))
  PROVE  /\ IsFiniteSet(Cells(S))
         /\ Cardinality(Cells(S)) = Size[x] + Cardinality(Cells(S \ {x}))
<1>1. IsFiniteSet(Cells({x})) /\ Cardinality(Cells({x})) = Size[x]  BY CellsOfOne
<1>2. Cells(S) = Cells({x}) \cup Cells(S \ {x})  BY DEF Cells
<1>3. Cells({x}) \cap Cells(S \ {x}) = {}  BY DEF Cells
<1>4. /\ IsFiniteSet(Cells(S))
      /\ Cardinality(Cells(S)) = Cardinality(Cells({x})) + Cardinality(Cells(S \ {x}))
                                 - Cardinality(Cells({x}) \cap Cells(S \ {x}))
  BY <1>1, <1>2, FS_Union
<1>5. Cardinality(Cells({x}) \cap Cells(S \ {x})) = 0  BY <1>3, FS_EmptySet
<1>6. Size[x] \in Nat /\ Cardinality(Cells(S \ {x})) \in Nat
  BY MessagingAssumption, FS_CardinalityType
<1> QED  BY <1>1, <1>4, <1>5, <1>6

\* What holds of a set of messages whenever it holds of every smaller one holds of
\* all of them: there is no smallest counterexample.
LEMMA NoSmallest ==
  ASSUME NEW G \in SUBSET (SUBSET Messages),
         \A S \in SUBSET Messages :
           (\A U \in SUBSET S : U # S => U \in G) => S \in G
  PROVE  G = SUBSET Messages
<1>1. IsFiniteSet(Messages)  BY MessagingAssumption
<1> DEFINE R == StrictSubsetOrdering(Messages)  D == SUBSET Messages
<1>2. IsWellFoundedOn(R, D)
  BY <1>1, FS_StrictSubsetOrderingWellFounded, FS_FiniteSubsetsOfFinite, Zenon
<1> DEFINE T == (SUBSET Messages) \ G
<1>3. SUFFICES ASSUME T # {}  PROVE FALSE  OBVIOUS
<1>4. T \subseteq D  OBVIOUS
<1> HIDE DEF T, R, D
<1>5. \E x \in T : \A y \in T : ~ (<<y, x>> \in R)
  BY <1>2, <1>3, <1>4, WFMin
<1> USE DEF T, R, D
<1>7. PICK S \in T : \A U \in T : ~ (<<U, S>> \in R)  BY <1>5
<1>6. ASSUME NEW U \in SUBSET S, U # S  PROVE U \in G
  <2>1. <<U, S>> \in StrictSubsetOrdering(Messages)
    BY <1>7, <1>6 DEF StrictSubsetOrdering
  <2> QED  BY <1>7, <1>6, <2>1
<1> QED  BY <1>7, <1>6

\* Every set of messages has finitely many cells.
LEMMA CellsFinite ==
  ASSUME NEW S \in SUBSET Messages
  PROVE  IsFiniteSet(Cells(S)) /\ Cardinality(Cells(S)) \in Nat
<1> DEFINE G == {T \in SUBSET Messages : IsFiniteSet(Cells(T))}
<1>1. ASSUME NEW T \in SUBSET Messages, \A U \in SUBSET T : U # T => U \in G
      PROVE  T \in G
  <2>1. CASE T = {}
    <3>1. Cells(T) = {}  BY <2>1 DEF Cells
    <3> QED  BY <3>1, FS_EmptySet
  <2>2. CASE T # {}
    <3>1. PICK x \in T : TRUE  BY <2>2
    <3>2. T \ {x} \in G  BY <1>1, <3>1
    <3> QED  BY <3>1, <3>2, CellsAdd
  <2> QED  BY <2>1, <2>2
<1>2. G \in SUBSET (SUBSET Messages)  OBVIOUS
<1> HIDE DEF G
<1>3. G = SUBSET Messages  BY <1>1, <1>2, NoSmallest
<1>4. IsFiniteSet(Cells(S))  BY <1>3 DEF G
<1> QED  BY <1>4, FS_CardinalityType

\* A function that obeys the recursive definition counts the cells.
Sums(F, S) ==
  F = [s \in SUBSET S |-> IF s = {} THEN 0 ELSE Size[Picked(s)] + F[s \ {Picked(s)}]]

\* Its value at a set is the number of cells of the set.
LEMMA SumsCount ==
  ASSUME NEW S \in SUBSET Messages, NEW F, Sums(F, S)
  PROVE  F[S] = Cardinality(Cells(S))
<1> DEFINE G == {T \in SUBSET Messages : T \subseteq S => F[T] = Cardinality(Cells(T))}
<1>1. ASSUME NEW T \in SUBSET Messages, \A U \in SUBSET T : U # T => U \in G
      PROVE  T \in G
  <2>1. SUFFICES ASSUME T \subseteq S  PROVE F[T] = Cardinality(Cells(T))  OBVIOUS
  <2>2. F[T] = IF T = {} THEN 0 ELSE Size[Picked(T)] + F[T \ {Picked(T)}]
    BY <2>1 DEF Sums
  <2>3. CASE T = {}
    <3>1. Cells(T) = {}  BY <2>3 DEF Cells
    <3> QED  BY <2>2, <2>3, <3>1, FS_EmptySet
  <2>4. CASE T # {}
    <3>1. Picked(T) \in T  BY <2>4 DEF Picked
    <3>2. T \ {Picked(T)} \in G  BY <1>1, <3>1
    <3>3. F[T \ {Picked(T)}] = Cardinality(Cells(T \ {Picked(T)}))  BY <2>1, <3>2
    <3> QED  BY <2>2, <2>4, <3>1, <3>3, CellsAdd, CellsFinite
  <2> QED  BY <2>3, <2>4
<1>2. G \in SUBSET (SUBSET Messages)  OBVIOUS
<1> HIDE DEF G
<1>3. G = SUBSET Messages  BY <1>1, <1>2, NoSmallest
<1> QED  BY <1>3 DEF G

\* There is such a function.
LEMMA SumsExist ==
  ASSUME NEW S \in SUBSET Messages
  PROVE  \E F : Sums(F, S)
<1> DEFINE F == [s \in SUBSET S |-> Cardinality(Cells(s))]
<1>1. ASSUME NEW s \in SUBSET S
      PROVE  Cardinality(Cells(s))
               = IF s = {} THEN 0 ELSE Size[Picked(s)] + F[s \ {Picked(s)}]
  <2>1. CASE s = {}
    <3>1. Cells(s) = {}  BY <2>1 DEF Cells
    <3> QED  BY <2>1, <3>1, FS_EmptySet
  <2>2. CASE s # {}
    <3>1. Picked(s) \in s  BY <2>2 DEF Picked
    <3>2. F[s \ {Picked(s)}] = Cardinality(Cells(s \ {Picked(s)}))  OBVIOUS
    <3> QED  BY <2>2, <3>1, <3>2, CellsAdd, CellsFinite
  <2> QED  BY <2>1, <2>2
<1>2. F = [s \in SUBSET S |-> IF s = {} THEN 0 ELSE Size[Picked(s)] + F[s \ {Picked(s)}]]
  BY <1>1
<1>3. Sums(F, S)  BY <1>2 DEF Sums
<1> QED  BY <1>3

\* The bytes of a set of messages are its cells.
LEMMA BytesCount ==
  ASSUME NEW S \in SUBSET Messages
  PROVE  Bytes(S) = Cardinality(Cells(S))
<1> DEFINE F == CHOOSE F : Sums(F, S)
<1>1. Sums(F, S)  BY SumsExist
<1>2. Bytes(S) = F[S]
  BY DEF Bytes, MapThenSumSet, MapThenFoldSet, Sums, Picked
<1> HIDE DEF F
<1> QED  BY <1>1, <1>2, SumsCount

\* A queue that keeps its limits still does when a message leaves it.
LEMMA OverflowGrows ==
  ASSUME NEW S \in SUBSET Messages, NEW T \in SUBSET S, ~Overflow(S)
  PROVE  ~Overflow(T)
<1>1. IsFiniteSet(S)  BY MessagingAssumption, FS_Subset
<1>2. /\ Cardinality(T) <= Cardinality(S) /\ Cardinality(S) \in Nat
      /\ Cardinality(T) \in Nat
  BY <1>1, FS_Subset, FS_CardinalityType
<1>3. Cells(T) \subseteq Cells(S)  BY DEF Cells
<1>4. Bytes(T) <= Bytes(S) /\ Bytes(T) \in Nat /\ Bytes(S) \in Nat
  BY <1>3, BytesCount, CellsFinite, FS_Subset
<1> QED  BY <1>2, <1>4, MessagingAssumption DEF Overflow

\* A snapshot of the queue lists all of it.
LEMMA SnapshotWhole ==
  ASSUME NEW S \in SUBSET Messages, NEW s \in OldestFirst(S)
  PROVE  s \in Seq(Messages) /\ S = {s[i] : i \in 1..Len(s)}
<1>1. IsFiniteSet(S) /\ Cardinality(S) \in Nat
  BY FS_Subset, FS_CardinalityType, MessagingAssumption
<1> DEFINE n == Cardinality(S)
<1>2. s \in [1..n -> S] /\ n \in Nat  BY <1>1 DEF OldestFirst
<1>3. s \in Seq(Messages) /\ Len(s) = n  BY <1>2
<1>4. \A i, j \in 1..n : i # j => s[i] # s[j]
  <2>1. \A i, j \in 1..n : i < j => s[i] # s[j]  BY <1>2 DEF OldestFirst
  <2>2. \A i, j \in 1..n : i # j => i < j \/ j < i  BY <1>2
  <2> QED  BY <2>1, <2>2
<1>5. IsFiniteSet(1..n) /\ Cardinality(1..n) = n
  <2>1. 1 \in Int /\ n \in Int  BY <1>2
  <2>2. IsFiniteSet(1..n) /\ Cardinality(1..n) = IF 1 > n THEN 0 ELSE n - 1 + 1
    BY <2>1, FS_Interval, Zenon
  <2> QED  BY <1>2, <2>2
<1> HIDE DEF n
<1>6. s \in Injection(1..n, S)  BY <1>2, <1>4 DEF Injection, IsInjective
<1>7. n = Cardinality(S)  BY DEF n
<1>8. s \in Surjection(1..n, S)  BY <1>1, <1>5, <1>6, <1>7, FS_Injection
<1>9. \A m \in S : \E i \in 1..n : s[i] = m  BY <1>8 DEF Surjection
<1> QED  BY <1>2, <1>3, <1>9

\* The rows that are pending and not about to be dropped by thread t.
Left(t) == Pending(row) \ {victims[t][i] : i \in 1..Len(victims[t])}

\* Limits are due to be enforced, or a call that drops rows will leave the queue
\* within them, or it is within them.
QueueInv ==
  crashes = 0 =>
    \/ \E m \in Messages : upc[m] = "enforce"
    \/ \E c \in Conns : dpc[c] = "enforce"
    \/ \E m \in Messages : upc[m] = "drop" /\ ~Overflow(Left(User(m)))
    \/ \E c \in Conns : dpc[c] = "drop" /\ ~Overflow(Left(Drain(c)))
    \/ ~Overflow(Pending(row))

\* A call that has just decided what to drop leaves the queue within its limits.
LEMMA EnforceFits ==
  ASSUME TypeOK, NEW t \in Threads, EnforceQueueLimits(t)
  PROVE  ~Overflow(Left(t)')
<1>1. PICK s \in OldestFirst(Pending(row')) : \E k \in 0..Len(s) :
        Drops(s, k) /\ victims' = [victims EXCEPT ![t] = SubSeq(s, 1, k)]
  BY DEF EnforceQueueLimits
<1>2. PICK k \in 0..Len(s) :
        Drops(s, k) /\ victims' = [victims EXCEPT ![t] = SubSeq(s, 1, k)]
  BY <1>1
<1>3. Pending(row') \in SUBSET Messages  BY DEF Pending
<1>4. s \in Seq(Messages) /\ Pending(row') = {s[i] : i \in 1..Len(s)}
  BY <1>3, SnapshotWhole
<1>5. victims'[t] = SubSeq(s, 1, k)  BY <1>2 DEF TypeOK, DrainOK
<1>6. Len(victims'[t]) = k /\ \A i \in 1..k : victims'[t][i] = s[i]
  BY <1>2, <1>4, <1>5
<1>7. Pending(row') \ {victims'[t][i] : i \in 1..Len(victims'[t])} \subseteq Rest(s, k)
  <2>1. SUFFICES ASSUME NEW m \in Pending(row'), m \notin {victims'[t][i] : i \in 1..k}
                 PROVE  m \in Rest(s, k)
    BY <1>6
  <2>2. PICK i \in 1..Len(s) : m = s[i]  BY <1>4
  <2>3. i \notin 1..k  BY <1>6, <2>1, <2>2
  <2>4. i \in (k+1)..Len(s)  BY <1>2, <1>4, <2>2, <2>3
  <2> QED  BY <2>2, <2>4 DEF Rest
<1>8. Rest(s, k) \in SUBSET Messages
  <2>1. \A i \in (k+1)..Len(s) : s[i] \in Messages  BY <1>2, <1>4
  <2> QED  BY <2>1 DEF Rest
<1>9. ~Overflow(Rest(s, k))  BY <1>2 DEF Drops
<1> DEFINE L == Pending(row') \ {victims'[t][i] : i \in 1..Len(victims'[t])}
<1>10. L \in SUBSET Rest(s, k)  BY <1>7
<1>11. Left(t)' = L  BY DEF Left
<1> HIDE DEF L
<1>12. ~Overflow(L)  BY <1>8, <1>9, <1>10, OverflowGrows
<1> QED  BY <1>11, <1>12

\* One UPDATE of its loop takes a row out of the queue and out of its list.
LEMMA FailVictimFits ==
  ASSUME TypeOK, NEW t \in Threads, FailVictim(t)
  PROVE  /\ Pending(row') \in SUBSET Pending(row)
         /\ Left(t)' \in SUBSET Left(t)
         /\ \A u \in Threads : u # t => victims'[u] = victims[u]
<1> DEFINE v == victims[t]  m == Head(v)
<1>1. /\ v \in Seq(Messages) /\ v # <<>> /\ row \in [Messages -> Statuses]
      /\ victims'[t] = Tail(v) /\ \A u \in Threads : u # t => victims'[u] = victims[u]
  BY DEF TypeOK, DrainOK, TableOK, FailVictim
<1>2. UpdateDeliveryStatus(m, "failed")  BY DEF FailVictim
<1>3. m \in Messages /\ Len(Tail(v)) + 1 = Len(v) /\ Len(v) \in Nat  BY <1>1
<1>4. \A i \in 1..Len(v) : v[i] = m \/ \E j \in 1..Len(Tail(v)) : Tail(v)[j] = v[i]
  <2>1. SUFFICES ASSUME NEW i \in 1..Len(v), i # 1
                 PROVE  \E j \in 1..Len(Tail(v)) : Tail(v)[j] = v[i]
    BY <1>1
  <2>2. i - 1 \in 1..Len(Tail(v)) /\ Tail(v)[i - 1] = v[i]  BY <1>1, <1>3, <2>1
  <2> QED  BY <2>2
<1> HIDE DEF m
<1>5. Pending(row') = Pending(row) \ {m}
  BY <1>1, <1>2, <1>3 DEF UpdateDeliveryStatus, HasRow, Pending
<1>6. Left(t)' \in SUBSET Left(t)
  <2>1. Left(t)' = Pending(row') \ {Tail(v)[i] : i \in 1..Len(Tail(v))}
    BY <1>1 DEF Left
  <2> HIDE DEF v
  <2>2. {v[i] : i \in 1..Len(v)} \subseteq {m} \cup {Tail(v)[i] : i \in 1..Len(Tail(v))}
    BY <1>4
  <2>3. Left(t) = Pending(row) \ {v[i] : i \in 1..Len(v)}  BY DEF Left, v
  <2> QED  BY <1>5, <2>1, <2>2, <2>3
<1> QED  BY <1>1, <1>5, <1>6

\* Steps that no enforceQueueLimits call takes, and by which rows only leave the
\* queue.
LEMMA QueueKept ==
  ASSUME TypeOK, QueueInv, crashes' = 0 => crashes = 0, UNCHANGED victims,
         \A m \in Messages : upc[m] \in {"enforce", "drop"} => upc'[m] = upc[m],
         \A c \in Conns : dpc[c] \in {"enforce", "drop"} => dpc'[c] = dpc[c],
         \A m \in Messages : row'[m] = "pending" => row[m] = "pending"
  PROVE  QueueInv'
<1>1. Pending(row') \in SUBSET Pending(row) /\ Pending(row) \in SUBSET Messages
  BY DEF Pending
<1>2. ~Overflow(Pending(row)) => ~Overflow(Pending(row'))  BY <1>1, OverflowGrows
<1>3. ASSUME NEW t, ~Overflow(Left(t))  PROVE ~Overflow(Left(t)')
  <2>1. Left(t)' \in SUBSET Left(t) /\ Left(t) \in SUBSET Messages  BY <1>1 DEF Left
  <2> QED  BY <1>3, <2>1, OverflowGrows
<1>4. Overflow(Pending(row))' <=> Overflow(Pending(row'))  BY DEF Overflow, Pending
<1> QED  BY <1>2, <1>3, <1>4 DEF QueueInv

\* The threads of users and drains are different threads.
LEMMA ThreadsDiffer ==
  /\ \A m, n \in Messages : m # n => User(m) # User(n)
  /\ \A c, d \in Conns : c # d => Drain(c) # Drain(d)
  /\ \A m \in Messages, c \in Conns : User(m) # Drain(c)
  /\ \A m \in Messages : User(m) \in Threads
  /\ \A c \in Conns : Drain(c) \in Threads
BY DEF User, Drain, Threads

\* One UPDATE of a call's loop leaves every call the rows it means to drop.
LEMMA DropsKeep ==
  ASSUME TypeOK, QueueInv, NEW t \in Threads, UNCHANGED <<crashes, upc, dpc>>,
         Pending(row') \in SUBSET Pending(row), Left(t)' \in SUBSET Left(t),
         \A u \in Threads : u # t => victims'[u] = victims[u]
  PROVE  QueueInv'
<1>1. Pending(row) \in SUBSET Messages /\ Pending(row') \in SUBSET Pending(row)
      /\ Pending(row)' = Pending(row')
  BY DEF Pending
<1>2. ~Overflow(Pending(row)) => ~Overflow(Pending(row))'
  <2>1. ~Overflow(Pending(row)) => ~Overflow(Pending(row'))  BY <1>1, OverflowGrows
  <2> QED  BY <1>1, <2>1 DEF Overflow
<1>3. ASSUME NEW u \in Threads, ~Overflow(Left(u))  PROVE ~Overflow(Left(u)')
  <2>1. Left(u) \in SUBSET Messages  BY <1>1 DEF Left
  <2>2. Left(u)' \in SUBSET Left(u)
    <3>1. CASE u = t  BY <3>1
    <3>2. CASE u # t  BY <1>1, <3>2 DEF Left
    <3> QED  BY <3>1, <3>2
  <2> QED  BY <1>3, <2>1, <2>2, OverflowGrows
<1>4. /\ \A m \in Messages : User(m) \in Threads
      /\ \A c \in Conns : Drain(c) \in Threads
  BY ThreadsDiffer
<1>5. \A m \in Messages : ~Overflow(Left(User(m))) => ~Overflow(Left(User(m)))'
  BY <1>3, <1>4 DEF Overflow, User
<1>6. \A c \in Conns : ~Overflow(Left(Drain(c))) => ~Overflow(Left(Drain(c)))'
  BY <1>3, <1>4 DEF Overflow, Drain
<1> QED  BY <1>2, <1>5, <1>6 DEF QueueInv

\* sendTextMessageWithID enforces the limits after it has queued a message.
LEMMA UserQueue ==
  ASSUME TypeOK, QueueInv, NEW m \in Messages, UserStep(m) \/ Submit(m)
  PROVE  QueueInv'
<1> USE DEF timeVars, rowVars, linkVars, userVars, drainVars, recvVars
<1>0. /\ upc \in [Messages -> UserStates] /\ ustatus \in [Messages -> {"pending", "sent"}]
      /\ row \in [Messages -> Statuses] /\ User(m) \in Threads
  BY ThreadsDiffer DEF TypeOK, UserOK, TableOK
<1>1. CASE BuildMessage(m) \/ SendMessage(m) \/ SendMessageFails(m) \/ Submit(m)
  <2>1. /\ UNCHANGED <<crashes, victims, dpc, row>>
        /\ \A n \in Messages : upc[n] \in {"enforce", "drop"} => upc'[n] = upc[n]
    BY <1>0, <1>1 DEF BuildMessage, SendMessage, SendMessageFails, ForgetConnection, Submit
  <2> QED  BY <2>1, QueueKept
<1>2. CASE SaveOutgoing(m) /\ ustatus[m] = "pending"
  <2>1. upc'[m] = "enforce"  BY <1>0, <1>2 DEF SaveOutgoing
  <2> QED  BY <2>1 DEF QueueInv
<1>3. CASE SaveOutgoing(m) /\ ustatus[m] # "pending"
  <2>1. /\ UNCHANGED <<crashes, victims, dpc>>
        /\ \A n \in Messages : upc[n] \in {"enforce", "drop"} => upc'[n] = upc[n]
        /\ \A n \in Messages : row'[n] = "pending" => row[n] = "pending"
    BY <1>0, <1>3 DEF SaveOutgoing
  <2> QED  BY <2>1, QueueKept
<1>4. CASE UserEnforce(m)
  <2>1. upc'[m] = "drop"  BY <1>0, <1>4 DEF UserEnforce
  <2>2. ~Overflow(Left(User(m)))'  BY <1>0, <1>4, EnforceFits DEF UserEnforce
  <2> QED  BY <2>1, <2>2 DEF QueueInv
<1>5. CASE UserDrop(m)
  <2>1. UNCHANGED <<crashes, upc, dpc>> /\ FailVictim(User(m))  BY <1>5 DEF UserDrop
  <2>2. /\ Pending(row') \in SUBSET Pending(row)
        /\ Left(User(m))' \in SUBSET Left(User(m))
        /\ \A u \in Threads : u # User(m) => victims'[u] = victims[u]
    BY <1>0, <2>1, FailVictimFits
  <2> QED  BY <2>1, <2>2, <1>0, DropsKeep
<1>6. CASE UserReturn(m)
  <2>1. /\ UNCHANGED <<crashes, victims, dpc, row>> /\ victims[User(m)] = <<>>
        /\ \A n \in Messages \ {m} : upc'[n] = upc[n]
        /\ upc[m] = "drop"
    BY <1>0, <1>6 DEF UserReturn
  <2>2. Left(User(m)) = Pending(row)  BY <2>1 DEF Left
  <2>3. /\ Pending(row)' = Pending(row)
        /\ \A n \in Messages : Left(User(n))' = Left(User(n))
        /\ \A c \in Conns : Left(Drain(c))' = Left(Drain(c))
    BY <2>1 DEF Pending, Left, User, Drain
  <2>4. /\ Overflow(Pending(row))' <=> Overflow(Pending(row))
        /\ \A n \in Messages : Overflow(Left(User(n)))' <=> Overflow(Left(User(n)))
        /\ \A c \in Conns : Overflow(Left(Drain(c)))' <=> Overflow(Left(Drain(c)))
    BY <2>3 DEF Overflow
  <2> QED  BY <2>1, <2>2, <2>4 DEF QueueInv
<1> QED  BY <1>1, <1>2, <1>3, <1>4, <1>5, <1>6 DEF UserStep

\* So does a drain before it reads the queue.
LEMMA DrainQueue ==
  ASSUME TypeOK, QueueInv, NEW c \in Conns, DrainStep(c)
  PROVE  QueueInv'
<1> USE DEF timeVars, rowVars, linkVars, userVars, drainVars, recvVars
<1>0. /\ dpc \in [Conns -> DrainStates] /\ row \in [Messages -> Statuses]
      /\ Drain(c) \in Threads
  BY ThreadsDiffer DEF TypeOK, DrainOK, TableOK
<1>1. CASE DrainBuild(c) \/ DrainReturn(c) \/ DrainSend(c) \/ DrainSendFails(c) \/ DrainUpdate(c)
  <2>1. /\ UNCHANGED <<crashes, victims, upc>>
        /\ \A d \in Conns : dpc[d] \in {"enforce", "drop"} => dpc'[d] = dpc[d]
        /\ \A n \in Messages : row'[n] = "pending" => row[n] = "pending"
    BY <1>0, <1>1 DEF DrainBuild, DrainReturn, DrainSend, DrainSendFails, DrainUpdate,
                      StopDrain, UpdateDeliveryStatus
  <2> QED  BY <2>1, QueueKept
<1>2. CASE DrainEnforce(c)
  <2>1. dpc'[c] = "drop"  BY <1>0, <1>2 DEF DrainEnforce
  <2>2. ~Overflow(Left(Drain(c)))'  BY <1>0, <1>2, EnforceFits DEF DrainEnforce
  <2> QED  BY <2>1, <2>2 DEF QueueInv
<1>3. CASE DrainDrop(c)
  <2>1. UNCHANGED <<crashes, upc, dpc>> /\ FailVictim(Drain(c))  BY <1>3 DEF DrainDrop
  <2>2. /\ Pending(row') \in SUBSET Pending(row)
        /\ Left(Drain(c))' \in SUBSET Left(Drain(c))
        /\ \A u \in Threads : u # Drain(c) => victims'[u] = victims[u]
    BY <1>0, <2>1, FailVictimFits
  <2> QED  BY <2>1, <2>2, <1>0, DropsKeep
<1>4. CASE DrainFetch(c)
  <2>1. /\ UNCHANGED <<crashes, victims, upc, row>> /\ victims[Drain(c)] = <<>>
        /\ \A d \in Conns \ {c} : dpc'[d] = dpc[d]
        /\ dpc[c] = "drop"
    BY <1>0, <1>4 DEF DrainFetch
  <2>2. Left(Drain(c)) = Pending(row)  BY <2>1 DEF Left
  <2>3. /\ Pending(row)' = Pending(row)
        /\ \A n \in Messages : Left(User(n))' = Left(User(n))
        /\ \A d \in Conns : Left(Drain(d))' = Left(Drain(d))
    BY <2>1 DEF Pending, Left, User, Drain
  <2>4. /\ Overflow(Pending(row))' <=> Overflow(Pending(row))
        /\ \A n \in Messages : Overflow(Left(User(n)))' <=> Overflow(Left(User(n)))
        /\ \A d \in Conns : Overflow(Left(Drain(d)))' <=> Overflow(Left(Drain(d)))
    BY <2>3 DEF Overflow
  <2> QED  BY <2>1, <2>2, <2>4 DEF QueueInv
<1> QED  BY <1>1, <1>2, <1>3, <1>4 DEF DrainStep

\* Acks and errors take rows out of the queue, and the environment puts none in.
LEMMA OtherQueue ==
  ASSUME TypeOK, QueueInv,
         Environment \/ \E c \in Conns : ReceiverStep(c) \/ SenderLoopStep(c)
  PROVE  QueueInv'
<1> USE DEF timeVars, rowVars, linkVars, userVars, drainVars, recvVars
<1>0. /\ row \in [Messages -> Statuses] /\ crashes \in Nat
      /\ dpc \in [Conns -> DrainStates]
  BY DEF TypeOK, TableOK, DrainOK
<1>1. ASSUME NEW c \in Conns, ReceiverStep(c) \/ SenderLoopStep(c)  PROVE QueueInv'
  <2>1. /\ UNCHANGED <<crashes, victims, upc, dpc>>
        /\ \A n \in Messages : row'[n] = "pending" => row[n] = "pending"
    <3>1. CASE ReceiverStep(c) \/ SenderLoopEnds(c)
      BY <3>1 DEF ReceiverStep, RejectTimestamp, RejectSequence, RejectSeen,
                  RejectCiphertext, AcceptMessage, SaveIncoming, InsertSeenID, SendAck,
                  DiscardFrame, ReceiverLoopEnds, SenderLoopEnds
    <3>2. CASE HandleAck(c) \/ HandleProtocolError(c)
      BY <1>0, <3>2 DEF HandleAck, HandleProtocolError, UpdateDeliveryStatus
    <3> QED  BY <1>1, <3>1, <3>2 DEF SenderLoopStep
  <2> QED  BY <2>1, QueueKept
<1>2. ASSUME NEW m \in Messages, Submit(m)  PROVE QueueInv'
  BY <1>2, UserQueue
<1>3. ASSUME NEW c \in Conns, RegisterConnection(c)  PROVE QueueInv'
  <2>1. UNCHANGED <<crashes, victims, upc, row>>  BY <1>3 DEF RegisterConnection
  <2>2. CASE active
    <3>1. UNCHANGED dpc  BY <1>3, <2>2 DEF RegisterConnection, StartQueueDrain
    <3> QED  BY <2>1, <3>1, QueueKept
  <2>3. CASE ~active
    <3>1. dpc'[c] = "enforce"
      BY <1>0, <1>3, <2>3 DEF RegisterConnection, StartQueueDrain
    <3> QED  BY <3>1 DEF QueueInv
  <2> QED  BY <2>2, <2>3
<1>4. CASE SenderCrashes \/ ReceiverCrashes
  <2>1. crashes' # 0  BY <1>0, <1>4 DEF SenderCrashes, ReceiverCrashes
  <2> QED  BY <2>1 DEF QueueInv
<1>5. ASSUME \/ \E c \in Conns : CloseSender(c) \/ CloseReceiver(c)
             \/ Tick \/ AddPeer \/ ClearSenderHistory
             \/ ClearReceiverHistory \/ PruneOldEntries
      PROVE  QueueInv'
  <2>1. /\ UNCHANGED <<crashes, victims, upc, dpc>>
        /\ \A n \in Messages : row'[n] = "pending" => row[n] = "pending"
    BY <1>0, <1>5
    DEF CloseSender, CloseReceiver, Tick, AddPeer, ClearSenderHistory,
        ClearReceiverHistory, PruneOldEntries, HasRow
  <2> QED  BY <2>1, QueueKept
<1> QED  BY <1>1, <1>2, <1>3, <1>4, <1>5 DEF Environment

\* Without a crash the offline queue keeps its limits, for any number of messages,
\* of any length, and of connections: whenever no enforceQueueLimits call is under
\* way or due, the pending rows fit, although concurrent calls and drains decide
\* what to drop from snapshots that others change (drainPendingMessages,
\* sendTextMessageWithID).
THEOREM QueueKeepsLimits == Spec => []QueueBounded
<1>1. Init => QueueInv
  <2> SUFFICES ASSUME Init PROVE ~Overflow(Pending(row))  BY DEF QueueInv
  <2>1. Pending(row) = {}  BY DEF Init, Pending
  <2>2. {} \in SUBSET Messages  OBVIOUS
  <2>3. Cells({}) = {}  BY DEF Cells
  <2>4. Cardinality({}) = 0 /\ Bytes({}) = 0  BY <2>2, <2>3, BytesCount, FS_EmptySet
  <2> QED  BY <2>1, <2>4, MessagingAssumption DEF Overflow
<1>2. QueueInv /\ TypeOK /\ [Next]_vars => QueueInv'
  <2> SUFFICES ASSUME QueueInv, TypeOK, [Next]_vars PROVE QueueInv'  OBVIOUS
  <2>1. CASE UNCHANGED vars
    <3>1. UNCHANGED <<crashes, victims, upc, dpc, row>>
      BY <2>1 DEF vars, timeVars, rowVars, userVars, drainVars
    <3> QED  BY <3>1, QueueKept
  <2>2. CASE Next
    BY <2>2, UserQueue, DrainQueue, OtherQueue DEF Next
  <2> QED  BY <2>1, <2>2
<1>3. QueueInv => QueueBounded
  BY DEF QueueInv, QueueBounded, Enforcing
<1> QED  BY <1>1, <1>2, <1>3, TypeCorrect, PTL DEF Spec

===============================================================================
