-------------------------- MODULE FileTransfer_proofs --------------------------
(***************************************************************************)
(* Machine-checked proofs about FileTransfer, for any finite set of files, *)
(* any number of chunks, connections and retries, and any limits of        *)
(* restarts, requests, races lost and acts of the users.                   *)
(*                                                                         *)
(* TypeOK needs that attempts are left while a chunk is sent (RunInv).     *)
(* That a resumed transfer skips nothing (SkippedIsOnDisk, ResumeIsOnDisk) *)
(* needs that whatever either side, or a message between them, counts as   *)
(* received is in the .part file of a receiver that has not finished or    *)
(* deleted it (DiskInv), and the receiver's own checkpoints (ReceiverInv). *)
(* That a completed file is whole (CompleteIsDelivered) and stays so       *)
(* (FinishedStays) needs the same of every completion on its way, and of a *)
(* file between the checksum and the row (DeliveredInv).  That the slot is *)
(* held by one file that is being worked on (OneActive, SlotIsUsed) needs  *)
(* the flags of a transfer to agree with its goroutines (SlotOK), and      *)
(* nothing to be under way of a file never sent (UnsentInv).               *)
(***************************************************************************)
EXTENDS FileTransfer, FiniteSetTheorems, SequenceTheorems, WellFoundedInduction, TLAPS

-----------------------------------------------------------------------------
(* What the operators of the model return. *)

\* A set of naturals that is not empty has a least element.
LEMMA Least ==
  ASSUME NEW T \in SUBSET Nat, T # {}
  PROVE  \E n \in T : \A m \in T : n <= m
<1>1. IsWellFoundedOn(OpToRel(<, Nat), Nat)  BY NatLessThanWellFounded
<1>2. PICK n \in T : \A m \in T : <<m, n>> \notin OpToRel(<, Nat)
  BY <1>1, WFMin, Zenon
<1>3. \A m \in T : ~ (m < n)  BY <1>2 DEF OpToRel
<1> QED  BY <1>3

\* The bounds are numbers.
LEMMA Bounds ==
  /\ N \in Nat /\ N > 0 /\ MaxRetries \in Nat /\ MaxRetries > 0
  /\ OutEvery \in Nat /\ OutEvery > 0 /\ InEvery \in Nat /\ InEvery > 0
  /\ MaxConns \in Nat /\ MaxCrashes \in Nat /\ MaxUser \in Nat /\ MaxFaults \in Nat
  /\ MaxRequests \in Nat
BY TransferAssumption

\* The next chunk of an inbound transfer is the first one that is missing.
LEMMA NextChunkType ==
  ASSUME NEW S \in SUBSET Chunks
  PROVE  /\ NextChunk(S) \in 0 .. N /\ NextChunk(S) \notin S
         /\ 0 .. NextChunk(S) - 1 \subseteq S
<1> DEFINE T == {k \in 0 .. N : k \notin S}
           Q(k) == k \notin S /\ \A i \in 0 .. k - 1 : i \in S
<1>1. N \in T  BY Bounds DEF Chunks
<1>2. T \in SUBSET Nat  BY Bounds
<1>3. PICK n \in T : \A m \in T : n <= m  BY <1>1, <1>2, Least
<1>4. n \in 0 .. N /\ Q(n)
  <2>1. \A i \in 0 .. n - 1 : i \in 0 .. N /\ ~ (n <= i)  BY <1>3, Bounds
  <2> QED  BY <1>3, <2>1
<1>5. NextChunk(S) = CHOOSE k \in 0 .. N : Q(k)  BY DEF NextChunk
<1>6. NextChunk(S) \in 0 .. N /\ Q(NextChunk(S))  BY <1>4, <1>5
<1> QED  BY <1>6

\* A message sent keeps the type of the messages of every connection.
LEMMA SentType ==
  ASSUME NEW S, NEW L \in [Conns -> Seq(S)], NEW c, NEW m \in S
  PROVE  Sent(L, c, m) \in [Conns -> Seq(S)]
<1>1. \A d \in Conns : L[d] \in Seq(S) /\ Append(L[d], m) \in Seq(S)  OBVIOUS
<1> QED  BY <1>1 DEF Sent

\* Enqueue and Dequeue keep a queue a sequence of files.
LEMMA EnqueueType ==
  ASSUME NEW q \in Seq(Files), NEW f \in Files, NEW front \in BOOLEAN
  PROVE  Enqueue(q, f, front) \in Seq(Files)
BY DEF Enqueue

\* A file is taken out of the queue.
LEMMA DequeueType ==
  ASSUME NEW q \in Seq(Files), NEW f
  PROVE  Dequeue(q, f) \in Seq(Files)
<1>1. CASE f \notin Members(q)  BY <1>1 DEF Dequeue
<1>2. CASE f \in Members(q)
  <2> DEFINE i == CHOOSE i \in 1 .. Len(q) : q[i] = f
  <2>1. i \in 1 .. Len(q)  BY <1>2 DEF Members
  <2> HIDE DEF i
  <2>2. SubSeq(q, 1, i - 1) \in Seq(Files)
    <3>1. \A k \in 1 .. i - 1 : q[k] \in Files  BY <2>1
    <3> QED  BY <2>1, <3>1, SubSeqProperties
  <2>4. SubSeq(q, i + 1, Len(q)) \in Seq(Files)
    <3>1. \A k \in i + 1 .. Len(q) : q[k] \in Files  BY <2>1
    <3> QED  BY <2>1, <3>1, SubSeqProperties
  <2>3. SubSeq(q, 1, i - 1) \o SubSeq(q, i + 1, Len(q)) \in Seq(Files)  BY <2>2, <2>4
  <2> QED  BY <1>2, <2>3 DEF Dequeue, i
<1> QED  BY <1>1, <1>2

\* The slot after a file has left it.
LEMMA FinishType ==
  ASSUME NEW s \in Option(Files), NEW f
  PROVE  FinishOutboundTransfer(s, f) \in Option(Files)
BY DEF FinishOutboundTransfer, Option

\* Starting the next transfer keeps the types of the queue, the slot and the starts.
LEMMA StartNextType ==
  ASSUME NEW q \in Seq(Files), NEW s \in Option(Files),
         NEW st \in [Files -> {"no", "check", "begin"}], NEW c \in 0 .. MaxConns,
         QueueOK, StartNextQueuedTransfer(q, s, st, c)
  PROVE  QueueOK'
<1>1. CASE c = 0 \/ s # <<>> \/ q = <<>>
  BY <1>1 DEF StartNextQueuedTransfer, QueueOK
<1>2. CASE ~ (c = 0 \/ s # <<>> \/ q = <<>>)
  <2>1. Head(q) \in Files /\ Tail(q) \in Seq(Files)  BY <1>2
  <2> QED  BY <1>2, <2>1 DEF StartNextQueuedTransfer, QueueOK, Option
<1> QED  BY <1>1, <1>2

\* The connection of the moment is one of those made.
LEMMA CurrentType == LinkOK => Current \in 0 .. MaxConns
BY Bounds DEF LinkOK, Current

\* While a chunk is being sent attempts are left, and there is a chunk to acknowledge.
RunInv == \A f \in Files :
  /\ run[f] \in {"send", "ack"} => tries[f] < MaxRetries
  /\ run[f] = "ack" => out[f].next < N

Typed == TypeOK /\ RunInv

-----------------------------------------------------------------------------
(* Types.  First the heads of the queues, then what does not change.       *)

\* The next event of a run, and the next messages of a connection.
LEMMA EventType ==
  ASSUME LinkOK, NEW f \in Files, events[f] # <<>>
  PROVE  Head(events[f]) \in ToSender /\ [events EXCEPT ![f] = Tail(@)] \in [Files -> Seq(ToSender)]
<1>1. Head(events[f]) \in ToSender /\ Tail(events[f]) \in Seq(ToSender)  BY DEF LinkOK
<1> QED  BY <1>1 DEF LinkOK

\* Reading the oldest message to the sender.
LEMMA ToSenderType ==
  ASSUME LinkOK, NEW c \in Conns, toS[c] # <<>>
  PROVE  Head(toS[c]) \in ToSender /\ [toS EXCEPT ![c] = Tail(@)] \in [Conns -> Seq(ToSender)]
<1>1. Head(toS[c]) \in ToSender /\ Tail(toS[c]) \in Seq(ToSender)  BY DEF LinkOK
<1> QED  BY <1>1 DEF LinkOK

\* Reading the oldest message to the receiver.
LEMMA ToReceiverType ==
  ASSUME LinkOK, NEW c \in Conns, toR[c] # <<>>
  PROVE  /\ Head(toR[c]) \in ToReceiver
         /\ [toR EXCEPT ![c] = Tail(@)] \in [Conns -> Seq(ToReceiver)]
<1>1. Head(toR[c]) \in ToReceiver /\ Tail(toR[c]) \in Seq(ToReceiver)  BY DEF LinkOK
<1> QED  BY <1>1 DEF LinkOK

\* What one message in flight holds.
LEMMA SenderMessage ==
  ASSUME NEW m \in ToSender
  PROVE  /\ m.file \in Files
         /\ m.type = "response" => m \in Answer
         /\ m.type = "complete" => m \in Verdict
BY DEF ToSender, Answer, Verdict

\* What a message to the receiver carries, by its type.
LEMMA ReceiverMessage ==
  ASSUME NEW m \in ToReceiver
  PROVE  /\ m.file \in Files
         /\ m.type = "request" => m.n \in Nat
         /\ m.type = "data" => m.n \in Chunks
         /\ m.type = "complete" => m.status \in {"complete", "canceled"}
BY DEF ToReceiver

\* A group whose variables do not change still holds.
LEMMA Stable ==
  ASSUME Typed
  PROVE  /\ UNCHANGED rows => RowsOK'
         /\ UNCHANGED starting => QueueOK'
         /\ UNCHANGED <<out, running, history>> => RunOK'
         /\ UNCHANGED <<inbound, decision>> => InboundOK'
         /\ UNCHANGED disk => DiskOK'
         /\ UNCHANGED <<link, events, toR, toS, rpc, counters>> => LinkOK'
         /\ UNCHANGED <<out, run, tries>> => RunInv'
<1> USE DEF Typed, TypeOK
<1>1. UNCHANGED rows => RowsOK'  BY DEF RowsOK, rows
<1>2. UNCHANGED starting => QueueOK'  BY DEF QueueOK, starting
<1>3. UNCHANGED <<out, running, history>> => RunOK'  BY DEF RunOK, running, history
<1>4. UNCHANGED <<inbound, decision>> => InboundOK'  BY DEF InboundOK, inbound, decision
<1>5. UNCHANGED disk => DiskOK'  BY DEF DiskOK, disk
<1>6. UNCHANGED <<link, events, toR, toS, rpc, counters>> => LinkOK'
  BY DEF LinkOK, link, counters
<1>7. UNCHANGED <<out, run, tries>> => RunInv'  BY DEF RunInv
<1> QED  BY <1>1, <1>2, <1>3, <1>4, <1>5, <1>6, <1>7


-----------------------------------------------------------------------------
(* Types: the sender.                                                      *)

\* The queue and the slot.
LEMMA QueueType ==
  ASSUME Typed, NEW f \in Files,
         SendFile(f) \/ CheckStart(f) \/ BeginOutboundFileTransfer(f)
  PROVE  Typed'
<1> USE DEF Typed, TypeOK
<1>0. Current \in 0 .. MaxConns  BY CurrentType
<1>1. CASE SendFile(f)
  <2>1. /\ UNCHANGED <<scp, running, events, history, receiverVars, link, toR, toS, counters>>
        /\ srow' = [srow EXCEPT ![f] = "pending"] /\ out' = [out EXCEPT ![f] = Transfer(0)]
        /\ StartNextQueuedTransfer(Enqueue(queue, f, FALSE), slot, start, Current)
    BY <1>1 DEF SendFile
  <2>2. RowsOK'  BY <2>1 DEF RowsOK, Status
  <2>3. RunOK'
    <3>1. Transfer(0) \in Outbound  BY Bounds DEF Transfer, Outbound
    <3> QED  BY <2>1, <3>1 DEF RunOK, running, history
  <2>4. Enqueue(queue, f, FALSE) \in Seq(Files)  BY EnqueueType DEF QueueOK
  <2>5. QueueOK'  BY <1>0, <2>1, <2>4, StartNextType DEF QueueOK
  <2>6. RunInv'  BY <2>1, Bounds DEF RunInv, running, Transfer, RunOK
  <2> QED  BY <2>1, <2>2, <2>3, <2>5, <2>6, Stable DEF receiverVars
<1>2. CASE CheckStart(f)
  <2>1. UNCHANGED <<rows, out, running, events, history, receiverVars, link, toR, toS, counters>>
    BY <1>2 DEF CheckStart
  <2>2. [start EXCEPT ![f] = "no"] \in [Files -> {"no", "check", "begin"}]  BY DEF QueueOK
  <2>3. via[f] \in 0 .. MaxConns  BY DEF QueueOK
  <2>4. QueueOK'
    <3>1. CASE out[f].done \/ out[f].rejected \/ out[f].canceled
      <4>1. FinishOutboundTransfer(slot, f) \in Option(Files)  BY FinishType DEF QueueOK
      <4> QED  BY <1>2, <2>2, <2>3, <3>1, <4>1, StartNextType DEF CheckStart, QueueOK
    <3>2. CASE ~ (out[f].done \/ out[f].rejected \/ out[f].canceled)
      BY <1>2, <3>2 DEF CheckStart, QueueOK
    <3> QED  BY <3>1, <3>2
  <2> QED  BY <2>1, <2>4, Stable DEF receiverVars, running
<1>3. CASE BeginOutboundFileTransfer(f)
  <2>1. UNCHANGED <<rows, queue, slot, via, tries, asked, events, history, receiverVars, link,
                    toR, toS, counters>>
    BY <1>3 DEF BeginOutboundFileTransfer
  <2>2. QueueOK'  BY <1>3, <2>1 DEF BeginOutboundFileTransfer, QueueOK
  <2>3. RunOK'
    <3>1. [out EXCEPT ![f].running = TRUE] \in [Files -> Outbound]  BY DEF RunOK, Outbound
    <3> QED  BY <1>3, <2>1, <3>1 DEF BeginOutboundFileTransfer, RunOK, history
  <2>4. RunInv'  BY <1>3, <2>1 DEF BeginOutboundFileTransfer, RunInv, RunOK, Outbound
  <2> QED  BY <2>1, <2>2, <2>3, <2>4, Stable DEF receiverVars
<1> QED  BY <1>1, <1>2, <1>3


\* What is sent keeps the type of the messages in flight.
LEMMA SendTypes ==
  ASSUME LinkOK, NEW c
  PROVE  /\ \A m \in ToReceiver : SendToReceiver(c, m) => toR' \in [Conns -> Seq(ToReceiver)]
         /\ \A m \in ToSender : SendToSender(c, m) => toS' \in [Conns -> Seq(ToSender)]
<1>1. ASSUME NEW m \in ToReceiver, SendToReceiver(c, m)
      PROVE  toR' \in [Conns -> Seq(ToReceiver)]
  BY <1>1, SentType DEF SendToReceiver, LinkOK
<1>2. ASSUME NEW m \in ToSender, SendToSender(c, m)
      PROVE  toS' \in [Conns -> Seq(ToSender)]
  BY <1>2, SentType DEF SendToSender, LinkOK
<1> QED  BY <1>1, <1>2

\* The messages the sender sends are of their type.
LEMMA SenderMessages ==
  ASSUME NEW f \in Files
  PROVE  /\ \A n \in Nat : Request(f, n) \in ToReceiver
         /\ \A k \in Chunks : Data(f, k) \in ToReceiver
         /\ \A s \in {"complete", "canceled"} : Complete(f, s) \in ToReceiver
BY DEF Request, Data, Complete, ToReceiver

\* A run that sends.
LEMMA SendingType ==
  ASSUME Typed, NEW f \in Files,
         SendFileRequest(f) \/ SendChunk(f) \/ SendFileComplete(f)
  PROVE  Typed'
<1> USE DEF Typed, TypeOK
<1>1. CASE SendFileRequest(f)
  <2>1. /\ UNCHANGED <<rows, out, starting, stop, tries, history, receiverVars, link, toS, counters>>
        /\ run' = [run EXCEPT ![f] = IF Live(via[f]) THEN "await" ELSE "capture"]
        /\ asked' = [asked EXCEPT ![f] = @ + 1] /\ asked[f] < MaxRequests
        /\ events' = [events EXCEPT ![f] = <<>>]
        /\ SendToReceiver(via[f], Request(f, asked[f] + 1))
    BY <1>1 DEF SendFileRequest, Goto
  <2>2. RunOK'  BY <2>1, Bounds DEF RunOK, Waiting, history
  <2>3. Request(f, asked[f] + 1) \in ToReceiver
    <3>1. asked[f] + 1 \in Nat  BY Bounds DEF RunOK
    <3> QED  BY <3>1, SenderMessages
  <2>4. toR' \in [Conns -> Seq(ToReceiver)]  BY <2>1, <2>3, SendTypes
  <2>5. LinkOK'  BY <2>1, <2>4 DEF LinkOK, link, counters, receiverVars
  <2>6. RunInv'  BY <2>1 DEF RunInv, RunOK
  <2> QED  BY <2>1, <2>2, <2>5, <2>6, Stable DEF receiverVars
<1>2. CASE SendChunk(f)
  <2>1. /\ UNCHANGED <<rows, out, starting, stop, tries, asked, events, history, receiverVars,
                       link, toS, counters>>
        /\ run' = [run EXCEPT ![f] = IF Live(via[f]) THEN "ack" ELSE "capture"]
        /\ run[f] = "send" /\ out[f].next < N
        /\ SendToReceiver(via[f], Data(f, out[f].next))
    BY <1>2 DEF SendChunk, Goto
  <2>2. RunOK'  BY <2>1 DEF RunOK, Waiting, history
  <2>3. out[f].next \in Chunks  BY <2>1, Bounds DEF RunOK, Outbound, Chunks
  <2>4. toR' \in [Conns -> Seq(ToReceiver)]  BY <2>1, <2>3, SenderMessages, SendTypes
  <2>5. LinkOK'  BY <2>1, <2>4 DEF LinkOK, link, counters, receiverVars
  <2>6. RunInv'  BY <2>1 DEF RunInv, RunOK
  <2> QED  BY <2>1, <2>2, <2>5, <2>6, Stable DEF receiverVars
<1>3. CASE SendFileComplete(f)
  <2>1. /\ UNCHANGED <<rows, out, starting, stop, tries, asked, events, history, receiverVars,
                       link, toS, counters>>
        /\ run' = [run EXCEPT ![f] = IF Live(via[f]) THEN "verdict" ELSE "capture"]
        /\ SendToReceiver(via[f], Complete(f, "complete"))
    BY <1>3 DEF SendFileComplete, Goto
  <2>2. RunOK'  BY <2>1 DEF RunOK, Waiting, history
  <2>4. toR' \in [Conns -> Seq(ToReceiver)]  BY <2>1, SenderMessages, SendTypes
  <2>5. LinkOK'  BY <2>1, <2>4 DEF LinkOK, link, counters, receiverVars
  <2>6. RunInv'  BY <2>1 DEF RunInv, RunOK
  <2> QED  BY <2>1, <2>2, <2>5, <2>6, Stable DEF receiverVars
<1> QED  BY <1>1, <1>2, <1>3

\* A run that takes or drops an event.
LEMMA TakeType ==
  ASSUME LinkOK, NEW f \in Files, NEW step, NEW ok, Take(f, step, ok)
  PROVE  /\ ok /\ run[f] = step /\ Head(events[f]) \in ToSender
         /\ events' \in [Files -> Seq(ToSender)]
BY EventType DEF Take

\* A run takes an event out of its channel.
LEMMA TakingType ==
  ASSUME Typed, NEW f \in Files,
         \/ DropEvent(f) \/ TakeAccepted(f) \/ TakeRejected(f, "await") \/ TakeRejected(f, "ack")
         \/ TakeAck(f) \/ TakeNack(f) \/ TakeVerdict(f)
  PROVE  Typed'
<1> USE DEF Typed, TypeOK
<1> DEFINE e == Head(events[f])
<1>0. /\ srow \in [Files -> Status] /\ scp \in [Files -> Option(0 .. N)]
      /\ out[f].next \in 0 .. N /\ tries[f] \in 0 .. MaxRetries
  BY DEF RowsOK, RunOK, Outbound
<1>1. CASE DropEvent(f)
  <2>1. UNCHANGED <<rows, out, starting, running, history, receiverVars, link, toR, toS, counters>>
    BY <1>1 DEF DropEvent
  <2>2. events' \in [Files -> Seq(ToSender)]  BY <1>1, EventType DEF DropEvent
  <2>3. LinkOK'  BY <2>1, <2>2 DEF LinkOK, link, counters, receiverVars
  <2> QED  BY <2>1, <2>3, Stable DEF receiverVars, running
<1>2. CASE TakeAccepted(f)
  <2> DEFINE first == IF out[f].next > e.n THEN out[f].next ELSE e.n
  <2>1. /\ UNCHANGED <<starting, stop, asked, history, receiverVars, link, toR, toS, counters>>
        /\ srow' = [srow EXCEPT ![f] = "accepted"]
        /\ out' = [out EXCEPT ![f].next = first]
        /\ scp' = [scp EXCEPT ![f] = <<first>>]
        /\ tries' = [tries EXCEPT ![f] = 0] /\ run' = [run EXCEPT ![f] = "send"]
    BY <1>2 DEF TakeAccepted, Goto
  <2>2. /\ Matches(f, e) /\ run[f] = "await" /\ e \in ToSender
        /\ events' \in [Files -> Seq(ToSender)]
    BY <1>2, TakeType DEF TakeAccepted
  <2>3. e.n \in 0 .. N  BY <2>2, SenderMessage DEF Matches, Answer
  <2>4. first \in 0 .. N  BY <1>0, <2>3
  <2> HIDE DEF first
  <2>5. RowsOK'  BY <1>0, <2>1, <2>4 DEF RowsOK, Status, Option
  <2>6. RunOK'
    <3>1. [out EXCEPT ![f].next = first] \in [Files -> Outbound]  BY <2>4 DEF RunOK, Outbound
    <3> QED  BY <2>1, <3>1, Bounds DEF RunOK, history
  <2>7. LinkOK'  BY <2>1, <2>2 DEF LinkOK, link, counters, receiverVars
  <2>8. RunInv'  BY <2>1, Bounds DEF RunInv, RunOK
  <2> QED  BY <2>1, <2>5, <2>6, <2>7, <2>8, Stable DEF receiverVars
<1>3. ASSUME NEW step \in {"await", "ack"}, TakeRejected(f, step)  PROVE Typed'
  <2>1. /\ UNCHANGED <<starting, stop, tries, asked, history, receiverVars, link, toR, toS, counters>>
        /\ srow' = [srow EXCEPT ![f] = e.status]
        /\ out' = [out EXCEPT ![f].rejected = TRUE, ![f].canceled = @ \/ e.status = "canceled"]
        /\ scp' = [scp EXCEPT ![f] = <<>>] /\ run' = [run EXCEPT ![f] = "capture"]
    BY <1>3 DEF TakeRejected, Goto
  <2>2. e.status \in {"rejected", "canceled"} /\ events' \in [Files -> Seq(ToSender)]
    BY <1>3, TakeType DEF TakeRejected
  <2>5. RowsOK'  BY <1>0, <2>1, <2>2 DEF RowsOK, Status, Terminal, Option
  <2>6. RunOK'
    <3>1. out' \in [Files -> Outbound]  BY <2>1 DEF RunOK, Outbound
    <3> QED  BY <2>1, <3>1 DEF RunOK, history
  <2>7. LinkOK'  BY <2>1, <2>2 DEF LinkOK, link, counters, receiverVars
  <2>8. RunInv'  BY <2>1 DEF RunInv, RunOK
  <2> QED  BY <2>1, <2>5, <2>6, <2>7, <2>8, Stable DEF receiverVars
<1>4. CASE TakeAck(f)
  <2> DEFINE next == out[f].next + 1
  <2>1. /\ UNCHANGED <<srow, starting, stop, asked, history, receiverVars, link, toR, toS, counters>>
        /\ out' = [out EXCEPT ![f].next = next]
        /\ scp' = [scp EXCEPT ![f] = Persisted(@, next, OutEvery)]
        /\ tries' = [tries EXCEPT ![f] = 0] /\ run' = [run EXCEPT ![f] = "send"]
    BY <1>4 DEF TakeAck, Goto
  <2>2. run[f] = "ack" /\ events' \in [Files -> Seq(ToSender)]
    BY <1>4, TakeType DEF TakeAck
  <2>4. next \in 0 .. N  BY <1>0, <2>2, Bounds DEF RunInv
  <2> HIDE DEF next
  <2>5. RowsOK'  BY <1>0, <2>1, <2>4 DEF RowsOK, Persisted, Option
  <2>6. RunOK'
    <3>1. [out EXCEPT ![f].next = next] \in [Files -> Outbound]  BY <2>4 DEF RunOK, Outbound
    <3> QED  BY <2>1, <3>1, Bounds DEF RunOK, history
  <2>7. LinkOK'  BY <2>1, <2>2 DEF LinkOK, link, counters, receiverVars
  <2>8. RunInv'  BY <2>1, Bounds DEF RunInv, RunOK
  <2> QED  BY <2>1, <2>5, <2>6, <2>7, <2>8, Stable DEF receiverVars, rows
<1>5. CASE TakeNack(f)
  <2>1. /\ UNCHANGED <<rows, out, starting, stop, asked, history, receiverVars, link, toR, toS, counters>>
        /\ tries' = [tries EXCEPT ![f] = @ + 1]
        /\ run' = [run EXCEPT ![f] = IF tries[f] + 1 < MaxRetries THEN "send" ELSE "capture"]
    BY <1>5 DEF TakeNack, NextAttempt, Goto
  <2>2. run[f] = "ack" /\ events' \in [Files -> Seq(ToSender)]
    BY <1>5, TakeType DEF TakeNack
  <2>4. tries[f] + 1 \in 0 .. MaxRetries  BY <1>0, <2>2, Bounds DEF RunInv
  <2>6. RunOK'  BY <2>1, <2>4 DEF RunOK, history
  <2>7. LinkOK'  BY <2>1, <2>2 DEF LinkOK, link, counters, receiverVars
  <2>8. RunInv'  BY <2>1 DEF RunInv, RunOK
  <2> QED  BY <2>1, <2>6, <2>7, <2>8, Stable DEF receiverVars
<1>6. CASE TakeVerdict(f)
  <2> DEFINE r == out[f].running /\ e.status # "complete"
             d == out[f].canceled \/ e.status = "canceled"
  <2>1. /\ UNCHANGED <<starting, stop, tries, asked, history, receiverVars, link, toR, toS, counters>>
        /\ srow' = [srow EXCEPT ![f] = e.status]
        /\ out' = [out EXCEPT ![f].done = TRUE, ![f].running = r, ![f].canceled = d]
        /\ scp' = [scp EXCEPT ![f] = <<>>] /\ run' = [run EXCEPT ![f] = "capture"]
    BY <1>6 DEF TakeVerdict, Goto
  <2>2. /\ Matches(f, e) /\ run[f] = "verdict" /\ e \in ToSender
        /\ events' \in [Files -> Seq(ToSender)]
    BY <1>6, TakeType DEF TakeVerdict
  <2>3. e.status \in {"complete", "failed", "canceled"}
    BY <2>2, SenderMessage DEF Matches, Verdict
  <2>5. RowsOK'  BY <1>0, <2>1, <2>3 DEF RowsOK, Status, Terminal, Option
  <2>6. RunOK'
    <3>1. r \in BOOLEAN /\ d \in BOOLEAN  OBVIOUS
    <3> HIDE DEF r, d
    <3>2. \A o \in Outbound : [o EXCEPT !.done = TRUE, !.running = r, !.canceled = d] \in Outbound
      BY <3>1 DEF Outbound
    <3>3. out' = [out EXCEPT ![f] = [@ EXCEPT !.done = TRUE, !.running = r, !.canceled = d]]
      BY <2>1 DEF RunOK
    <3>4. out' \in [Files -> Outbound]  BY <3>2, <3>3 DEF RunOK
    <3> QED  BY <2>1, <3>4 DEF RunOK, history
  <2>7. LinkOK'  BY <2>1, <2>2 DEF LinkOK, link, counters, receiverVars
  <2>8. RunInv'  BY <2>1 DEF RunInv, RunOK
  <2> QED  BY <2>1, <2>5, <2>6, <2>7, <2>8, Stable DEF receiverVars
<1> QED  BY <1>1, <1>2, <1>3, <1>4, <1>5, <1>6

\* A run that is interrupted or whose timer fires, and the end of a run.
LEMMA EndingType ==
  ASSUME Typed, NEW f \in Files,
         \/ Interrupted(f) \/ Timeout(f) \/ CaptureOutcome(f) \/ RequeuePending(f)
         \/ RecordCanceled(f) \/ FinishRun(f)
  PROVE  Typed'
<1> USE DEF Typed, TypeOK
<1>1. CASE Interrupted(f)
  <2>1. /\ UNCHANGED <<rows, out, starting, stop, tries, asked, events, history, receiverVars,
                       link, toR, toS, counters>>
        /\ run' = [run EXCEPT ![f] = "capture"]
    BY <1>1 DEF Interrupted, Goto
  <2>2. RunOK'  BY <2>1 DEF RunOK, history
  <2>3. RunInv'  BY <2>1 DEF RunInv, RunOK
  <2> QED  BY <2>1, <2>2, <2>3, Stable DEF receiverVars
<1>2. CASE Timeout(f)
  <2>1. /\ UNCHANGED <<rows, out, starting, stop, asked, events, history, receiverVars,
                       link, toR, toS, crashes, users>>
        /\ run[f] \in {"ack", "verdict"}
        /\ Unlikely(InFlight(f))
        /\ \/ /\ run[f] = "ack"
              /\ tries' = [tries EXCEPT ![f] = @ + 1]
              /\ run' = [run EXCEPT ![f] = IF tries[f] + 1 < MaxRetries THEN "send" ELSE "capture"]
           \/ /\ run' = [run EXCEPT ![f] = "capture"] /\ tries' = tries
    BY <1>2 DEF Timeout, Goto, NextAttempt
  <2>2. run[f] = "ack" => tries[f] + 1 \in 0 .. MaxRetries  BY Bounds DEF RunInv, RunOK
  <2>3. RunOK'  BY <2>1, <2>2 DEF RunOK, history
  <2>4. LinkOK'  BY <2>1, Bounds DEF LinkOK, link, receiverVars, Unlikely
  <2>5. RunInv'  BY <2>1 DEF RunInv, RunOK
  <2> QED  BY <2>1, <2>3, <2>4, <2>5, Stable DEF receiverVars
<1>3. CASE CaptureOutcome(f)
  <2>1. /\ UNCHANGED <<rows, starting, stop, tries, asked, history, receiverVars, link, toR, toS, counters>>
        /\ out' = [out EXCEPT ![f].running = FALSE]
        /\ run' = [run EXCEPT ![f] = IF out[f].canceled THEN "canceled"
                     ELSE IF out[f].done \/ out[f].rejected THEN "finish" ELSE "pending"]
        /\ events' = [events EXCEPT ![f] = <<>>]
    BY <1>3 DEF CaptureOutcome, Goto
  <2>2. RunOK'
    <3>1. [out EXCEPT ![f].running = FALSE] \in [Files -> Outbound]  BY DEF RunOK, Outbound
    <3> QED  BY <2>1, <3>1 DEF RunOK, history
  <2>3. LinkOK'  BY <2>1 DEF LinkOK, link, counters, receiverVars
  <2>4. RunInv'  BY <2>1 DEF RunInv, RunOK
  <2> QED  BY <2>1, <2>2, <2>3, <2>4, Stable DEF receiverVars
<1>4. CASE RequeuePending(f)
  <2>1. /\ UNCHANGED <<scp, out, slot, start, via, stop, tries, asked, events, history,
                       receiverVars, link, toR, toS, counters>>
        /\ srow' = [srow EXCEPT ![f] = "pending"] /\ queue' = Enqueue(queue, f, TRUE)
        /\ run' = [run EXCEPT ![f] = "finish"]
    BY <1>4 DEF RequeuePending, Goto
  <2>2. RowsOK'  BY <2>1 DEF RowsOK, Status
  <2>3. QueueOK'  BY <2>1, EnqueueType DEF QueueOK
  <2>4. RunOK'  BY <2>1 DEF RunOK, history
  <2>5. RunInv'  BY <2>1 DEF RunInv, RunOK
  <2> QED  BY <2>1, <2>2, <2>3, <2>4, <2>5, Stable DEF receiverVars
<1>5. CASE RecordCanceled(f)
  <2>1. /\ UNCHANGED <<out, starting, stop, tries, asked, events, history, receiverVars,
                       link, toR, toS, counters>>
        /\ srow' = [srow EXCEPT ![f] = "canceled"] /\ scp' = [scp EXCEPT ![f] = <<>>]
        /\ run' = [run EXCEPT ![f] = "finish"]
    BY <1>5 DEF RecordCanceled, Goto
  <2>2. RowsOK'  BY <2>1 DEF RowsOK, Status, Terminal, Option
  <2>3. RunOK'  BY <2>1 DEF RunOK, history
  <2>4. RunInv'  BY <2>1 DEF RunInv, RunOK
  <2> QED  BY <2>1, <2>2, <2>3, <2>4, Stable DEF receiverVars
<1>6. CASE FinishRun(f)
  <2>1. /\ UNCHANGED <<rows, out, stop, tries, asked, events, history, receiverVars,
                       link, toR, toS, counters>>
        /\ run' = [run EXCEPT ![f] = "off"]
        /\ StartNextQueuedTransfer(queue, FinishOutboundTransfer(slot, f), start, Current)
    BY <1>6 DEF FinishRun, Goto
  <2>2. QueueOK'  BY <2>1, FinishType, CurrentType, StartNextType DEF QueueOK
  <2>3. RunOK'  BY <2>1 DEF RunOK, history
  <2>4. RunInv'  BY <2>1 DEF RunInv, RunOK
  <2> QED  BY <2>1, <2>2, <2>3, <2>4, Stable DEF receiverVars
<1> QED  BY <1>1, <1>2, <1>3, <1>4, <1>5, <1>6

\* The connection loop of the sender.
LEMMA SenderLoopType ==
  ASSUME Typed, NEW c \in Conns, SenderLoop(c)
  PROVE  Typed'
<1> USE DEF Typed, TypeOK
<1> DEFINE m == Head(toS[c])
           f == m.file
<1>0. ASSUME NEW t, ReceiveAtSender(c, t)
      PROVE  /\ m \in ToSender /\ f \in Files /\ m.type = t
             /\ toS' \in [Conns -> Seq(ToSender)]
  BY <1>0, ToSenderType, SenderMessage DEF ReceiveAtSender
<1>1. \A s \in Seq(ToSender), x \in ToSender : Append(s, x) \in Seq(ToSender)  OBVIOUS
<1>2. CASE HandleFileResponse(c)
  <2>1. /\ UNCHANGED <<rows, out, starting, running, history, receiverVars, link, toR, counters>>
        /\ ReceiveAtSender(c, "response")
        /\ events' = IF Registered(f) THEN [events EXCEPT ![f] = Append(@, m)] ELSE events
    BY <1>2 DEF HandleFileResponse
  <2>2. events' \in [Files -> Seq(ToSender)]  BY <1>0, <1>1, <2>1 DEF LinkOK
  <2>3. toS' \in [Conns -> Seq(ToSender)]  BY <1>0, <2>1
  <2>4. LinkOK'  BY <2>1, <2>2, <2>3 DEF LinkOK, link, counters, receiverVars
  <2> QED  BY <2>1, <2>4, Stable DEF receiverVars, running
<1>3. CASE HandleVerdict(c)
  <2> DEFINE overdue == /\ ~Registered(f) /\ m.status = "complete"
                        /\ out[f].known /\ out[f].next = N /\ ~out[f].done
  <2>1. /\ UNCHANGED <<starting, running, rushed, receiverVars, link, toR, counters>>
        /\ ReceiveAtSender(c, "complete")
        /\ events' = IF Registered(f) THEN [events EXCEPT ![f] = Append(@, m)] ELSE events
        /\ srow' = IF overdue \/ (~Registered(f) /\ m.status = "canceled")
                   THEN [srow EXCEPT ![f] = m.status] ELSE srow
        /\ out' = IF overdue THEN [out EXCEPT ![f].done = TRUE, ![f].running = FALSE] ELSE out
        /\ scp' = IF overdue THEN [scp EXCEPT ![f] = <<>>] ELSE scp
        /\ late' = IF overdue /\ start[f] = "begin" THEN late \cup {f} ELSE late
    BY <1>3 DEF HandleVerdict
  <2>2. m \in ToSender /\ f \in Files /\ m.status \in Status
    BY <1>0, <2>1, SenderMessage DEF Verdict, Status, Terminal
  <2> HIDE DEF overdue, f
  <2>3. events' \in [Files -> Seq(ToSender)]  BY <1>1, <2>1, <2>2 DEF LinkOK
  <2>4. toS' \in [Conns -> Seq(ToSender)]  BY <1>0, <2>1
  <2>5. LinkOK'  BY <2>1, <2>3, <2>4 DEF LinkOK, link, counters, receiverVars
  <2>6. RowsOK'  BY <2>1, <2>2 DEF RowsOK, Option
  <2>7. RunOK'
    <3>1. out' \in [Files -> Outbound]
      <4>1. [out EXCEPT ![f].done = TRUE, ![f].running = FALSE] \in [Files -> Outbound]
        BY DEF RunOK, Outbound
      <4> QED  BY <2>1, <4>1 DEF RunOK
    <3> QED  BY <2>1, <2>2, <3>1 DEF RunOK, running
  <2>8. RunInv'
    <3>1. \A g \in Files : out'[g].next = out[g].next  BY <2>1 DEF RunOK, Outbound
    <3> QED  BY <2>1, <3>1 DEF RunInv, running
  <2> QED  BY <2>1, <2>5, <2>6, <2>7, <2>8, Stable DEF receiverVars
<1> QED  BY <1>2, <1>3 DEF SenderLoop

\* The user of the sender.
LEMMA SenderUserType ==
  ASSUME Typed, NEW f \in Files,
         CancelRunning(f) \/ CancelQueued(f) \/ CancelForgotten(f) \/ RetryTransfer(f)
  PROVE  Typed'
<1> USE DEF Typed, TypeOK
<1>0. users < MaxUser /\ users' = users + 1 => users' \in 0 .. MaxUser  BY Bounds DEF LinkOK
<1>1. CASE CancelRunning(f)
  <2>1. /\ UNCHANGED <<rows, slot, start, via, run, tries, asked, events, history,
                       receiverVars, link, toS, crashes, faults>>
        /\ UserActs
        /\ out' = [out EXCEPT ![f].canceled = TRUE] /\ queue' = Dequeue(queue, f)
        /\ SendToReceiver(Current, Complete(f, "canceled"))
        /\ stop' = [stop EXCEPT ![f] = TRUE]
    BY <1>1 DEF CancelRunning
  <2>2. QueueOK'  BY <2>1, DequeueType DEF QueueOK
  <2>3. [out EXCEPT ![f].canceled = TRUE] \in [Files -> Outbound]  BY DEF RunOK, Outbound
  <2>4. RunOK'  BY <2>1, <2>3 DEF RunOK, history
  <2>5. toR' \in [Conns -> Seq(ToReceiver)]  BY <2>1, SenderMessages, SendTypes
  <2>6. LinkOK'  BY <1>0, <2>1, <2>5 DEF LinkOK, link, receiverVars, UserActs
  <2>7. \A g \in Files : out'[g].next = out[g].next  BY <2>1 DEF RunOK, Outbound
  <2>8. RunInv'  BY <2>1, <2>7 DEF RunInv
  <2> QED  BY <2>1, <2>2, <2>4, <2>6, <2>8, Stable DEF receiverVars
<1>2. CASE CancelQueued(f)
  <2>1. /\ UNCHANGED <<running, events, history, receiverVars, link, toR, toS, crashes, faults>>
        /\ UserActs
        /\ out' = [out EXCEPT ![f].canceled = TRUE, ![f].done = TRUE]
        /\ srow' = [srow EXCEPT ![f] = "canceled"] /\ scp' = [scp EXCEPT ![f] = <<>>]
        /\ StartNextQueuedTransfer(Dequeue(queue, f), FinishOutboundTransfer(slot, f), start,
                                   Current)
    BY <1>2 DEF CancelQueued
  <2>2. RowsOK'  BY <2>1 DEF RowsOK, Status, Terminal, Option
  <2>3. QueueOK'  BY <2>1, DequeueType, FinishType, CurrentType, StartNextType DEF QueueOK
  <2>4. RunOK'
    <3>1. [out EXCEPT ![f].canceled = TRUE, ![f].done = TRUE] \in [Files -> Outbound]
      BY DEF RunOK, Outbound
    <3> QED  BY <2>1, <3>1 DEF RunOK, running, history
  <2>5. LinkOK'  BY <1>0, <2>1 DEF LinkOK, link, receiverVars, UserActs
  <2>7. \A g \in Files : out'[g].next = out[g].next  BY <2>1 DEF RunOK, Outbound
  <2>8. RunInv'  BY <2>1, <2>7 DEF RunInv, running
  <2> QED  BY <2>1, <2>2, <2>3, <2>4, <2>5, <2>8, Stable DEF receiverVars
<1>3. CASE CancelForgotten(f)
  <2>1. /\ UNCHANGED <<scp, out, starting, running, events, history, receiverVars, link,
                       toR, toS, crashes, faults>>
        /\ UserActs /\ srow' = [srow EXCEPT ![f] = "canceled"]
    BY <1>3 DEF CancelForgotten
  <2>2. RowsOK'  BY <2>1 DEF RowsOK, Status, Terminal
  <2>3. LinkOK'  BY <1>0, <2>1 DEF LinkOK, link, receiverVars, UserActs
  <2> QED  BY <2>1, <2>2, <2>3, Stable DEF receiverVars, running
<1>4. CASE RetryTransfer(f)
  <2>1. /\ UNCHANGED <<running, events, late, receiverVars, link, toR, toS, crashes>>
        /\ UserActs /\ Unlikely(Busy(f))
        /\ rushed' = IF Busy(f) THEN rushed \cup {f} ELSE rushed
        /\ out' = [out EXCEPT ![f] = Transfer(0)]
        /\ srow' = [srow EXCEPT ![f] = "pending"] /\ scp' = [scp EXCEPT ![f] = <<>>]
        /\ StartNextQueuedTransfer(Enqueue(queue, f, FALSE), slot, start, Current)
    BY <1>4 DEF RetryTransfer
  <2>2. RowsOK'  BY <2>1 DEF RowsOK, Status, Option
  <2>3. QueueOK'  BY <2>1, EnqueueType, CurrentType, StartNextType DEF QueueOK
  <2>4. RunOK'
    <3>1. Transfer(0) \in Outbound  BY Bounds DEF Transfer, Outbound
    <3> HIDE DEF Typed, TypeOK
    <3>2. RunOK  BY DEF Typed, TypeOK
    <3> QED  BY <2>1, <3>1, <3>2 DEF RunOK, running
  <2>5. LinkOK'
    <3>1. faults' \in 0 .. MaxFaults  BY <2>1, Bounds DEF Unlikely, LinkOK
    <3> QED  BY <1>0, <2>1, <3>1 DEF LinkOK, link, receiverVars, UserActs
  <2>8. RunInv'  BY <2>1, Bounds DEF RunInv, running, Transfer, RunOK
  <2> QED  BY <2>1, <2>2, <2>3, <2>4, <2>5, <2>8, Stable DEF receiverVars
<1> QED  BY <1>1, <1>2, <1>3, <1>4

-----------------------------------------------------------------------------
(* Types: the receiver.                                                    *)

\* The messages the receiver sends are of their type.
LEMMA ReceiverMessages ==
  ASSUME NEW f \in Files
  PROVE  /\ \A s \in {"accepted", "rejected", "canceled", "chunk_ack", "chunk_nack"}, k \in 0 .. N :
              Response(f, s, k) \in ToSender
         /\ \A s \in {"complete", "failed", "canceled"} : Complete(f, s) \in ToSender
BY DEF Response, Complete, ToSender, Answer, Verdict

\* The outcome of a request.
LEMMA OutcomeType ==
  ASSUME Typed, NEW f \in Files, Accept(f) \/ Reject(f), policy' = policy,
         ask' \in [Files -> {"no", "asked", "ending"}]
  PROVE  InboundOK' /\ DiskOK' /\ toS' \in [Conns -> Seq(ToSender)]
<1> USE DEF Typed, TypeOK
<1>0. 0 \in 0 .. N /\ asked[f] \in 0 .. MaxRequests /\ 0 \in 0 .. MaxRequests
  BY Bounds DEF RunOK
<1>1. CASE Reject(f)
  <2>1. InboundOK'  BY <1>0, <1>1 DEF Reject, InboundOK, Status, Terminal
  <2>2. DiskOK'  BY <1>1, Stable DEF Reject
  <2>3. toS' \in [Conns -> Seq(ToSender)]  BY <1>0, <1>1, ReceiverMessages, SendTypes DEF Reject
  <2> QED  BY <2>1, <2>2, <2>3
<1>2. CASE Accept(f) /\ rrow[f] = "canceled"
  <2>1. InboundOK'  BY <1>0, <1>2 DEF Accept, InboundOK, inbound
  <2>2. DiskOK'  BY <1>2, Stable DEF Accept
  <2>3. toS' \in [Conns -> Seq(ToSender)]  BY <1>0, <1>2, ReceiverMessages, SendTypes DEF Accept
  <2> QED  BY <2>1, <2>2, <2>3
<1>3. CASE Accept(f) /\ rrow[f] # "canceled"
  <2>1. InboundOK'
    <3>1. <<0>> \in Option(0 .. N)  BY <1>0 DEF Option
    <3>2. rcp' \in [Files -> Option(0 .. N)]  BY <1>3, <3>1 DEF Accept, InboundOK
    <3>3. rrow' \in [Files -> Status]  BY <1>3 DEF Accept, InboundOK, Status
    <3>4. decided' \in [Files -> 0 .. MaxRequests]  BY <1>0, <1>3 DEF Accept, InboundOK
    <3>5. has' \in [Files -> BOOLEAN] /\ got' \in [Files -> SUBSET Chunks]
      BY <1>3 DEF Accept, InboundOK
    <3> QED  BY <3>2, <3>3, <3>4, <3>5 DEF InboundOK
  <2>2. DiskOK'
    <3>1. Created(part[f]) \in Option(SUBSET Chunks)  BY DEF DiskOK, Created, Option
    <3> QED  BY <1>3, <3>1 DEF Accept, DiskOK
  <2>3. toS' \in [Conns -> Seq(ToSender)]  BY <1>0, <1>3, ReceiverMessages, SendTypes DEF Accept
  <2> QED  BY <2>1, <2>2, <2>3
<1> QED  BY <1>1, <1>2, <1>3

\* The message the connection loop of the receiver takes.
LEMMA TakenType ==
  ASSUME LinkOK, NEW c \in Conns, NEW t, ReceiveAtReceiver(c, t)
  PROVE  /\ Head(toR[c]) \in ToReceiver /\ Head(toR[c]).file \in Files
         /\ Head(toR[c]).type = t /\ rpc[c] = <<>>
         /\ toR' \in [Conns -> Seq(ToReceiver)]
BY ToReceiverType, ReceiverMessage DEF ReceiveAtReceiver

\* Requests.
LEMMA RequestType ==
  ASSUME Typed, NEW c \in Conns,
         \/ HandleRequestLimited(c) \/ HandleRequestKnown(c) \/ HandleRequestDecided(c)
         \/ HandleRequestNew(c)
  PROVE  Typed'
<1> USE DEF Typed, TypeOK
<1> DEFINE f == Head(toR[c]).file
<1>0. f \in Files /\ toR' \in [Conns -> Seq(ToReceiver)]
  BY TakenType DEF HandleRequestLimited, HandleRequestKnown, HandleRequestDecided, HandleRequestNew
<1>1. got[f] \in SUBSET Chunks /\ NextChunk(got[f]) \in 0 .. N /\ 0 \in 0 .. N
  BY <1>0, NextChunkType, Bounds DEF InboundOK
<1> HIDE DEF f
<1>2. CASE HandleRequestLimited(c)
  <2>1. /\ UNCHANGED <<senderVars, receiverVars, link, counters>>
        /\ SendToSender(c, Response(f, "rejected", 0))
    BY <1>2 DEF HandleRequestLimited, f
  <2>2. toS' \in [Conns -> Seq(ToSender)]  BY <1>0, <1>1, <2>1, ReceiverMessages, SendTypes
  <2>3. LinkOK'  BY <1>0, <2>1, <2>2 DEF LinkOK, link, counters, receiverVars, senderVars
  <2> QED  BY <2>1, <2>3, Stable DEF senderVars, receiverVars, running
<1>3. CASE HandleRequestKnown(c)
  <2>1. /\ UNCHANGED <<senderVars, has, got, rcp, decision, rpc, disk, link, counters>>
        /\ rrow' = [rrow EXCEPT ![f] = "accepted"]
        /\ SendToSender(c, Response(f, "accepted", NextChunk(got[f])))
    BY <1>3 DEF HandleRequestKnown, f
  <2>2. toS' \in [Conns -> Seq(ToSender)]  BY <1>0, <1>1, <2>1, ReceiverMessages, SendTypes
  <2>3. LinkOK'  BY <1>0, <2>1, <2>2 DEF LinkOK, link, counters, senderVars
  <2>4. InboundOK'  BY <2>1 DEF InboundOK, decision, Status
  <2> QED  BY <2>1, <2>3, <2>4, Stable DEF senderVars, running
<1>4. CASE HandleRequestDecided(c)
  <2>1. /\ UNCHANGED <<senderVars, has, got, rcp, decision, rpc, disk, link, counters>>
        /\ rrow' = [rrow EXCEPT ![f] = "rejected"]
        /\ SendToSender(c, Response(f, "rejected", 0))
    BY <1>4 DEF HandleRequestDecided, f
  <2>2. toS' \in [Conns -> Seq(ToSender)]  BY <1>0, <1>1, <2>1, ReceiverMessages, SendTypes
  <2>3. LinkOK'  BY <1>0, <2>1, <2>2 DEF LinkOK, link, counters, senderVars
  <2>4. InboundOK'  BY <2>1 DEF InboundOK, decision, Status, Terminal
  <2> QED  BY <2>1, <2>3, <2>4, Stable DEF senderVars, running
<1>5. CASE HandleRequestNew(c)
  <2>1. /\ UNCHANGED <<senderVars, policy, rpc, link, counters>>
        /\ \/ (Accept(f) \/ Reject(f)) /\ ask' = ask
           \/ /\ ask' = [ask EXCEPT ![f] = IF @ = "no" THEN "asked" ELSE @]
              /\ decided' = [decided EXCEPT ![f] = 0]
              /\ UNCHANGED <<inbound, disk, toS>>
    <3>1. policy \in {"auto", "ask", "refuse"}  BY TransferAssumption DEF InboundOK
    <3> QED  BY <1>5, <3>1 DEF HandleRequestNew, f
  <2>2. InboundOK' /\ DiskOK' /\ toS' \in [Conns -> Seq(ToSender)]
    <3>1. CASE (Accept(f) \/ Reject(f)) /\ ask' = ask
      BY <1>0, <2>1, <3>1, OutcomeType DEF InboundOK
    <3>2. CASE /\ ask' = [ask EXCEPT ![f] = IF @ = "no" THEN "asked" ELSE @]
               /\ decided' = [decided EXCEPT ![f] = 0]
               /\ UNCHANGED <<inbound, disk, toS>>
      <4>1. ask' \in [Files -> {"no", "asked", "ending"}]  BY <3>2 DEF InboundOK
      <4>0. 0 \in 0 .. MaxRequests  BY Bounds
      <4>2. decided' \in [Files -> 0 .. MaxRequests]  BY <3>2, <4>0 DEF InboundOK
      <4>3. InboundOK'  BY <2>1, <3>2, <4>1, <4>2 DEF InboundOK, inbound
      <4>4. DiskOK' /\ toS' \in [Conns -> Seq(ToSender)]  BY <3>2, Stable DEF LinkOK
      <4> QED  BY <4>3, <4>4
    <3> QED  BY <2>1, <3>1, <3>2
  <2>3. LinkOK'  BY <1>0, <2>1, <2>2 DEF LinkOK, link, counters, senderVars
  <2> QED  BY <2>1, <2>2, <2>3, Stable DEF senderVars, running
<1> QED  BY <1>2, <1>3, <1>4, <1>5

\* The approval goroutine.
LEMMA ApprovalType ==
  ASSUME Typed, NEW f \in Files, Approval(f)
  PROVE  Typed'
<1> USE DEF Typed, TypeOK
<1>1. ASSUME NEW accept \in BOOLEAN, DecideRequest(f, accept)  PROVE Typed'
  <2>1. /\ UNCHANGED <<senderVars, policy, rpc, link, toR, counters>>
        /\ (Accept(f) \/ Reject(f)) /\ ask' = [ask EXCEPT ![f] = "ending"]
    BY <1>1 DEF DecideRequest
  <2>2. ask' \in [Files -> {"no", "asked", "ending"}]  BY <1>1 DEF DecideRequest, InboundOK
  <2>3. InboundOK' /\ DiskOK' /\ toS' \in [Conns -> Seq(ToSender)]
    BY <2>1, <2>2, OutcomeType
  <2>4. LinkOK'  BY <2>1, <2>3 DEF LinkOK, link, counters, senderVars
  <2> QED  BY <2>1, <2>3, <2>4, Stable DEF senderVars, running
<1>2. CASE DismissRequest(f) \/ EndApproval(f)
  <2>1. /\ UNCHANGED <<senderVars, inbound, policy, decided, rpc, disk, link, toR, toS, counters>>
        /\ \E a \in {"no", "ending"} : ask' = [ask EXCEPT ![f] = a]
    BY <1>2 DEF DismissRequest, EndApproval
  <2>2. InboundOK'  BY <2>1 DEF InboundOK, inbound
  <2> QED  BY <2>1, <2>2, Stable DEF senderVars, running
<1> QED  BY <1>1, <1>2 DEF Approval

\* The end of a transfer at the receiver.
LEMMA EndInboundType ==
  ASSUME InboundOK, NEW f \in Files, NEW s \in Status, EndInbound(f, s), UNCHANGED decision
  PROVE  InboundOK'
BY DEF EndInbound, InboundOK, decision, Option

\* Chunks and cancels.
LEMMA DataType ==
  ASSUME Typed, NEW c \in Conns,
         \/ NackFileData(c) \/ HandleFileData(c) \/ HandleCancel(c) \/ HandleCancelEarly(c)
         \/ IgnoreFileComplete(c)
  PROVE  Typed'
<1> USE DEF Typed, TypeOK
<1> DEFINE m == Head(toR[c])
           f == m.file
<1>0. m \in ToReceiver /\ f \in Files /\ toR' \in [Conns -> Seq(ToReceiver)]
  BY TakenType
  DEF NackFileData, HandleFileData, HandleCancel, HandleCancelEarly, IgnoreFileComplete
<1>1. m.type = "data" => m.n \in Chunks  BY <1>0, ReceiverMessage
<1>2. Chunks \subseteq 0 .. N  BY Bounds DEF Chunks
<1> HIDE DEF m
<1>3. CASE NackFileData(c)
  <2>1. /\ UNCHANGED <<senderVars, receiverVars, link, crashes, users>>
        /\ SendToSender(c, Response(f, "chunk_nack", m.n)) /\ m.type = "data"
        /\ Unlikely(has[f] /\ part[f] # <<>>)
    BY <1>3 DEF NackFileData, m, ReceiveAtReceiver
  <2>2. toS' \in [Conns -> Seq(ToSender)]  BY <1>0, <1>1, <1>2, <2>1, ReceiverMessages, SendTypes
  <2>3. faults' \in 0 .. MaxFaults  BY <2>1, Bounds DEF Unlikely, LinkOK
  <2>4. LinkOK'  BY <1>0, <2>1, <2>2, <2>3 DEF LinkOK, link, receiverVars, senderVars
  <2> QED  BY <2>1, <2>4, Stable DEF senderVars, receiverVars, running
<1>4. CASE HandleFileData(c)
  <2> DEFINE received == got[f] \cup {m.n}
  <2>1. /\ UNCHANGED <<senderVars, has, rrow, decision, rpc, final, purged, raced, link, counters>>
        /\ m.type = "data"
        /\ part' = [part EXCEPT ![f] = <<Content(@) \cup {m.n}>>]
        /\ got' = [got EXCEPT ![f] = received]
        /\ rcp' = [rcp EXCEPT ![f] = Persisted(@, NextChunk(received), InEvery)]
        /\ SendToSender(c, Response(f, "chunk_ack", m.n))
    BY <1>4 DEF HandleFileData, m, ReceiveAtReceiver
  <2>2. toS' \in [Conns -> Seq(ToSender)]  BY <1>0, <1>1, <1>2, <2>1, ReceiverMessages, SendTypes
  <2>3. LinkOK'  BY <1>0, <2>1, <2>2 DEF LinkOK, link, counters, senderVars
  <2>4. received \in SUBSET Chunks  BY <1>0, <1>1, <2>1 DEF InboundOK
  <2>5. NextChunk(received) \in 0 .. N  BY <2>4, NextChunkType
  <2>6. Persisted(rcp[f], NextChunk(received), InEvery) \in Option(0 .. N)
    BY <1>0, <2>5 DEF Persisted, InboundOK, Option
  <2>7. InboundOK'  BY <2>1, <2>4, <2>6 DEF InboundOK, decision
  <2>8. Content(part[f]) \cup {m.n} \in SUBSET Chunks
    BY <1>0, <1>1, <2>1 DEF DiskOK, Content, Option
  <2>9. DiskOK'  BY <2>1, <2>8 DEF DiskOK, Option
  <2> QED  BY <2>1, <2>3, <2>7, <2>9, Stable DEF senderVars, running
<1>5. CASE HandleCancel(c)
  <2>1. /\ UNCHANGED <<senderVars, decision, rpc, disk, link, counters>>
        /\ EndInbound(f, "canceled") /\ SendToSender(c, Complete(f, "canceled"))
    BY <1>5 DEF HandleCancel, m
  <2>2. toS' \in [Conns -> Seq(ToSender)]  BY <1>0, <2>1, ReceiverMessages, SendTypes
  <2>3. LinkOK'  BY <1>0, <2>1, <2>2 DEF LinkOK, link, counters, senderVars
  <2>4. InboundOK'  BY <1>0, <2>1, EndInboundType DEF Status, Terminal
  <2> QED  BY <2>1, <2>3, <2>4, Stable DEF senderVars, running
<1>6. CASE HandleCancelEarly(c)
  <2>1. /\ UNCHANGED <<senderVars, has, got, rcp, decision, rpc, disk, link, toS, counters>>
        /\ rrow' = [rrow EXCEPT ![f] = "canceled"]
    BY <1>6 DEF HandleCancelEarly, m
  <2>2. LinkOK'  BY <1>0, <2>1 DEF LinkOK, link, counters, senderVars
  <2>3. InboundOK'  BY <2>1 DEF InboundOK, decision, Status, Terminal
  <2> QED  BY <2>1, <2>2, <2>3, Stable DEF senderVars, running
<1>7. CASE IgnoreFileComplete(c)
  <2>1. UNCHANGED <<senderVars, receiverVars, link, toS, counters>>  BY <1>7 DEF IgnoreFileComplete
  <2>2. LinkOK'  BY <1>0, <2>1 DEF LinkOK, link, counters, receiverVars, senderVars
  <2> QED  BY <2>1, <2>2, Stable DEF senderVars, receiverVars, running
<1> QED  BY <1>3, <1>4, <1>5, <1>6, <1>7

\* The end of a transfer in the receiver's connection loop, and its user's cancel.
LEMMA CompleteType ==
  ASSUME Typed, NEW c \in Conns, VerifyFile(c) \/ RenameFile(c) \/ RecordComplete(c)
  PROVE  Typed'
<1> USE DEF Typed, TypeOK
<1>0. {"failed", "complete"} \subseteq Status  BY DEF Status, Terminal
<1>1. CASE VerifyFile(c)
  <2> DEFINE f == Head(toR[c]).file
  <2>1. /\ UNCHANGED <<senderVars, decision, disk, link, counters>>
        /\ \/ rpc' = [rpc EXCEPT ![c] = <<"rename", f>>] /\ UNCHANGED <<inbound, toS>>
           \/ EndInbound(f, "failed") /\ SendToSender(c, Complete(f, "failed")) /\ rpc' = rpc
    BY <1>1 DEF VerifyFile
  <2>2. f \in Files /\ toR' \in [Conns -> Seq(ToReceiver)]  BY <1>1, TakenType DEF VerifyFile
  <2> HIDE DEF f
  <2>3. toS' \in [Conns -> Seq(ToSender)]
    BY <2>1, <2>2, ReceiverMessages, SendTypes DEF LinkOK
  <2>4. rpc' \in [Conns -> {<<>>} \cup ({"rename", "record"} \X Files)]
    <3>1. <<"rename", f>> \in {"rename", "record"} \X Files  BY <2>2
    <3> QED  BY <2>1, <3>1 DEF LinkOK
  <2>5. LinkOK'  BY <2>1, <2>2, <2>3, <2>4 DEF LinkOK, link, counters, senderVars
  <2>6. InboundOK'  BY <1>0, <2>1, <2>2, EndInboundType, Stable
  <2> QED  BY <2>1, <2>5, <2>6, Stable DEF senderVars, running
<1>2. CASE RenameFile(c)
  <2> DEFINE f == rpc[c][2]
  <2>1. /\ UNCHANGED <<senderVars, decision, link, toR, counters>>
        /\ \/ /\ part' = [part EXCEPT ![f] = <<>>]
              /\ final' = [final EXCEPT ![f] = part[f]]
              /\ rpc' = [rpc EXCEPT ![c] = <<"record", f>>]
              /\ UNCHANGED <<inbound, purged, raced, toS>>
           \/ /\ EndInbound(f, "failed") /\ SendToSender(c, Complete(f, "failed"))
              /\ rpc' = [rpc EXCEPT ![c] = <<>>] /\ UNCHANGED disk
    BY <1>2 DEF RenameFile
  <2>2. f \in Files  BY <1>2 DEF RenameFile, LinkOK
  <2> HIDE DEF f
  <2>3. toS' \in [Conns -> Seq(ToSender)]
    BY <2>1, <2>2, ReceiverMessages, SendTypes DEF LinkOK
  <2>4. rpc' \in [Conns -> {<<>>} \cup ({"rename", "record"} \X Files)]
    <3>1. <<"record", f>> \in {"rename", "record"} \X Files  BY <2>2
    <3> QED  BY <2>1, <3>1 DEF LinkOK
  <2>5. LinkOK'  BY <2>1, <2>3, <2>4 DEF LinkOK, link, counters, senderVars
  <2>6. InboundOK'  BY <1>0, <2>1, <2>2, EndInboundType, Stable
  <2>7. DiskOK'  BY <2>1, <2>2 DEF DiskOK, Option, disk
  <2> QED  BY <2>1, <2>5, <2>6, <2>7, Stable DEF senderVars, running
<1>3. CASE RecordComplete(c)
  <2> DEFINE f == rpc[c][2]
  <2>1. /\ UNCHANGED <<senderVars, decision, disk, link, toR, counters>>
        /\ EndInbound(f, "complete") /\ SendToSender(c, Complete(f, "complete"))
        /\ rpc' = [rpc EXCEPT ![c] = <<>>]
    BY <1>3 DEF RecordComplete
  <2>2. f \in Files  BY <1>3 DEF RecordComplete, LinkOK
  <2> HIDE DEF f
  <2>3. toS' \in [Conns -> Seq(ToSender)]  BY <2>1, <2>2, ReceiverMessages, SendTypes
  <2>4. rpc' \in [Conns -> {<<>>} \cup ({"rename", "record"} \X Files)]  BY <2>1 DEF LinkOK
  <2>5. LinkOK'  BY <2>1, <2>3, <2>4 DEF LinkOK, link, counters, senderVars
  <2>6. InboundOK'  BY <1>0, <2>1, <2>2, EndInboundType
  <2> QED  BY <2>1, <2>5, <2>6, Stable DEF senderVars, running
<1> QED  BY <1>1, <1>2, <1>3

\* The receiver's user cancels a transfer.
LEMMA CancelInboundType ==
  ASSUME Typed, NEW f \in Files, CancelInbound(f)
  PROVE  Typed'
<1> USE DEF Typed, TypeOK
<1>1. /\ UNCHANGED <<senderVars, decision, rpc, final, raced, link, toR, crashes, faults>>
      /\ UserActs /\ EndInbound(f, "canceled")
      /\ part' = [part EXCEPT ![f] = <<>>] /\ purged' = purged \cup {f}
      /\ SendToSender(Current, Complete(f, "canceled"))
  BY DEF CancelInbound
<1>2. toS' \in [Conns -> Seq(ToSender)]  BY <1>1, ReceiverMessages, SendTypes
<1>3. LinkOK'  BY <1>1, <1>2, Bounds DEF LinkOK, link, UserActs, senderVars
<1>4. InboundOK'  BY <1>1, EndInboundType DEF Status, Terminal
<1>5. DiskOK'  BY <1>1 DEF DiskOK, Option
<1> QED  BY <1>1, <1>3, <1>4, <1>5, Stable DEF senderVars, running

-----------------------------------------------------------------------------
(* Types: connections and restarts.                                        *)

\* What is left of the messages of a connection is a sequence of them.
LEMMA CutType ==
  ASSUME NEW S, NEW L \in [Conns -> Seq(S)], NEW c \in Conns, NEW i \in 0 .. Len(L[c])
  PROVE  [L EXCEPT ![c] = Cut(@, i)] \in [Conns -> Seq(S)]
<1>1. L[c] \in Seq(S) /\ \A k \in 1 .. i : L[c][k] \in S  OBVIOUS
<1>2. SubSeq(L[c], 1, i) \in Seq(S)  BY <1>1, SubSeqProperties
<1> QED  BY <1>2 DEF Cut

\* A connection is made or lost.
LEMMA LinkType ==
  ASSUME Typed, Connect \/ Disconnect
  PROVE  Typed'
<1> USE DEF Typed, TypeOK
<1>1. CASE Connect
  <2>1. /\ UNCHANGED <<rows, out, running, events, history, receiverVars, toR, toS, counters>>
        /\ conn < MaxConns /\ conn' = conn + 1 /\ up' = TRUE
        /\ StartNextQueuedTransfer(queue, slot, start, conn + 1)
    BY <1>1 DEF Connect
  <2>2. conn + 1 \in 0 .. MaxConns  BY <2>1, Bounds DEF LinkOK
  <2>3. QueueOK'  BY <2>1, <2>2, StartNextType DEF QueueOK
  <2>4. LinkOK'  BY <2>1, <2>2 DEF LinkOK, counters, receiverVars
  <2> QED  BY <2>1, <2>3, <2>4, Stable DEF receiverVars, running
<1>2. CASE Disconnect
  <2>1. /\ UNCHANGED <<senderVars, receiverVars, conn, counters>> /\ up' = FALSE
        /\ \E i \in 0 .. Len(toR[conn]) : toR' = [toR EXCEPT ![conn] = Cut(@, i)]
        /\ \E i \in 0 .. Len(toS[conn]) : toS' = [toS EXCEPT ![conn] = Cut(@, i)]
    BY <1>2 DEF Disconnect
  <2>2. CASE conn \in Conns
    <3>1. toR \in [Conns -> Seq(ToReceiver)] /\ toS \in [Conns -> Seq(ToSender)]  BY DEF LinkOK
    <3>2. toR' \in [Conns -> Seq(ToReceiver)]
      <4>1. PICK i \in 0 .. Len(toR[conn]) : toR' = [toR EXCEPT ![conn] = Cut(@, i)]  BY <2>1
      <4> QED  BY <2>2, <3>1, <4>1, CutType
    <3>3. toS' \in [Conns -> Seq(ToSender)]
      <4>1. PICK i \in 0 .. Len(toS[conn]) : toS' = [toS EXCEPT ![conn] = Cut(@, i)]  BY <2>1
      <4> QED  BY <2>2, <3>1, <4>1, CutType
    <3>4. LinkOK'  BY <2>1, <3>2, <3>3 DEF LinkOK, counters, receiverVars, senderVars
    <3> QED  BY <2>1, <3>4, Stable DEF senderVars, receiverVars, running
  <2>3. CASE conn \notin Conns
    <3>1. toR' = toR /\ toS' = toS  BY <2>1, <2>3 DEF LinkOK
    <3>2. LinkOK'  BY <2>1, <3>1 DEF LinkOK, counters, receiverVars, senderVars
    <3> QED  BY <2>1, <3>2, Stable DEF senderVars, receiverVars, running
  <2> QED  BY <2>2, <2>3
<1> QED  BY <1>1, <1>2

\* The sender starts again, from its rows and checkpoints.
LEMMA SenderRestartType ==
  ASSUME Typed, SenderRestart
  PROVE  Typed'
<1> USE DEF Typed, TypeOK
<1> DEFINE S == {f \in Files : Resumable(scp, srow, f)}
<1>1. /\ Restart /\ UNCHANGED <<srow, asked, receiverVars>>
      /\ scp' = [f \in Files |-> IF f \in S THEN scp[f] ELSE <<>>]
      /\ out' = [f \in Files |-> IF f \in S THEN Transfer(scp[f][1]) ELSE NoTransfer]
      /\ queue' \in {q \in [1 .. Cardinality(S) -> S] : Members(q) = S}
      /\ slot' = <<>> /\ start' = [f \in Files |-> "no"]
      /\ run' = [f \in Files |-> "off"] /\ via' = [f \in Files |-> 0]
      /\ stop' = [f \in Files |-> FALSE] /\ tries' = [f \in Files |-> 0]
      /\ late' = {} /\ rushed' = {}
      /\ events' = [f \in Files |-> <<>>] /\ toS' = [c \in Conns |-> <<>>]
      /\ IF up THEN \E i \in 0 .. Len(toR[conn]) : toR' = [toR EXCEPT ![conn] = Cut(@, i)]
               ELSE UNCHANGED toR
  BY DEF SenderRestart
<1>2. \A f \in S : scp[f][1] \in 0 .. N  BY DEF RowsOK, Resumable, Option
<1>3. Cardinality(S) \in Nat
  BY TransferAssumption, FS_Subset, FS_CardinalityType
<1>4. S \subseteq Files  OBVIOUS
<1> HIDE DEF S
<1>5. RowsOK'  BY <1>1 DEF RowsOK, Option
<1>6. QueueOK'
  <2>1. queue' \in Seq(Files)  BY <1>1, <1>3, <1>4
  <2> QED  BY <1>1, <2>1, Bounds DEF QueueOK, Option
<1>7. RunOK'
  <2>1. \A k \in 0 .. N : Transfer(k) \in Outbound  BY DEF Transfer, Outbound
  <2>2. NoTransfer \in Outbound
    <3>1. Transfer(0) \in Outbound  BY <2>1, Bounds
    <3> QED  BY <3>1 DEF NoTransfer, Outbound
  <2>3. out' \in [Files -> Outbound]  BY <1>1, <1>2, <2>1, <2>2
  <2> QED  BY <1>1, <2>3, Bounds DEF RunOK
<1>8. LinkOK'
  <2>1. toR' \in [Conns -> Seq(ToReceiver)]
    <3>1. toR \in [Conns -> Seq(ToReceiver)]  BY DEF LinkOK
    <3>2. CASE up /\ conn \in Conns
      <4>1. PICK i \in 0 .. Len(toR[conn]) : toR' = [toR EXCEPT ![conn] = Cut(@, i)]
        BY <1>1, <3>2
      <4> QED  BY <3>1, <3>2, <4>1, CutType
    <3>3. CASE ~ (up /\ conn \in Conns)  BY <1>1, <3>1, <3>3
    <3> QED  BY <3>2, <3>3
  <2>2. crashes' \in 0 .. MaxCrashes  BY <1>1, Bounds DEF Restart, LinkOK
  <2>3. events' \in [Files -> Seq(ToSender)] /\ toS' \in [Conns -> Seq(ToSender)]  BY <1>1
  <2> QED  BY <1>1, <2>1, <2>2, <2>3 DEF LinkOK, Restart, receiverVars
<1>9. RunInv'  BY <1>1 DEF RunInv
<1> QED  BY <1>1, <1>5, <1>6, <1>7, <1>8, <1>9, Stable DEF receiverVars

\* The receiver starts again, from its rows and checkpoints.
LEMMA ReceiverRestartType ==
  ASSUME Typed, ReceiverRestart
  PROVE  Typed'
<1> USE DEF Typed, TypeOK
<1> DEFINE S == {f \in Files : Resumable(rcp, rrow, f)}
<1>1. /\ Restart /\ UNCHANGED <<senderVars, rrow, policy, final, purged, raced>>
      /\ rcp' = [f \in Files |-> IF f \in S THEN rcp[f] ELSE <<>>]
      /\ has' = [f \in Files |-> f \in S]
      /\ got' = [f \in Files |-> IF f \in S THEN 0 .. rcp[f][1] - 1 ELSE {}]
      /\ part' = [f \in Files |-> IF f \in S THEN Created(part[f]) ELSE part[f]]
      /\ ask' = [f \in Files |-> "no"] /\ decided' = [f \in Files |-> 0]
      /\ rpc' = [c \in Conns |-> <<>>] /\ toR' = [c \in Conns |-> <<>>]
      /\ IF up THEN \E i \in 0 .. Len(toS[conn]) : toS' = [toS EXCEPT ![conn] = Cut(@, i)]
               ELSE UNCHANGED toS
  BY DEF ReceiverRestart
<1>2. \A f \in S : 0 .. rcp[f][1] - 1 \in SUBSET Chunks
  BY Bounds DEF InboundOK, Resumable, Option, Chunks
<1>3. \A f \in Files : Created(part[f]) \in Option(SUBSET Chunks) /\ part[f] \in Option(SUBSET Chunks)
  BY DEF DiskOK, Created, Option
<1> HIDE DEF S
<1>4. InboundOK'
  <2>1. got' \in [Files -> SUBSET Chunks]  BY <1>1, <1>2
  <2>2. rcp' \in [Files -> Option(0 .. N)]  BY <1>1 DEF InboundOK, Option
  <2>3. has' \in [Files -> BOOLEAN]  BY <1>1
  <2> QED  BY <1>1, <2>1, <2>2, <2>3, Bounds DEF InboundOK
<1>5. DiskOK'  BY <1>1, <1>3 DEF DiskOK
<1>6. LinkOK'
  <2>1. toS' \in [Conns -> Seq(ToSender)]
    <3>1. toS \in [Conns -> Seq(ToSender)]  BY DEF LinkOK
    <3>2. CASE up /\ conn \in Conns
      <4>1. PICK i \in 0 .. Len(toS[conn]) : toS' = [toS EXCEPT ![conn] = Cut(@, i)]
        BY <1>1, <3>2
      <4> QED  BY <3>1, <3>2, <4>1, CutType
    <3>3. CASE ~ (up /\ conn \in Conns)  BY <1>1, <3>1, <3>3
    <3> QED  BY <3>2, <3>3
  <2>2. crashes' \in 0 .. MaxCrashes  BY <1>1, Bounds DEF Restart, LinkOK
  <2>3. toR' \in [Conns -> Seq(ToReceiver)]  BY <1>1
  <2>4. rpc' \in [Conns -> {<<>>} \cup ({"rename", "record"} \X Files)]  BY <1>1
  <2> QED  BY <1>1, <2>1, <2>2, <2>3, <2>4 DEF LinkOK, Restart, senderVars
<1> QED  BY <1>1, <1>4, <1>5, <1>6, Stable DEF senderVars, running

-----------------------------------------------------------------------------
(* Types, of every behaviour.                                              *)

\* The types hold initially.
LEMMA InitType == Init => Typed
<1> SUFFICES ASSUME Init PROVE Typed
  OBVIOUS
<1> USE Bounds
<1>1. RowsOK  BY DEF Init, RowsOK, Status, Option
<1>2. QueueOK
  <2>1. <<>> \in Seq(Files)  OBVIOUS
  <2> QED  BY <2>1 DEF Init, QueueOK, Option
<1>3. RunOK
  <2>1. Transfer(0) \in Outbound  BY DEF Transfer, Outbound
  <2>2. NoTransfer \in Outbound  BY <2>1 DEF NoTransfer, Outbound
  <2> QED  BY <2>2 DEF Init, RunOK
<1>4. InboundOK  BY DEF Init, InboundOK, Status, Option
<1>5. DiskOK  BY DEF Init, DiskOK, Option
<1>6. LinkOK
  <2>1. /\ events \in [Files -> Seq(ToSender)] /\ toR \in [Conns -> Seq(ToReceiver)]
        /\ toS \in [Conns -> Seq(ToSender)]
    BY DEF Init
  <2>2. rpc \in [Conns -> {<<>>} \cup ({"rename", "record"} \X Files)]  BY DEF Init
  <2>3. /\ conn \in 0 .. MaxConns /\ up \in BOOLEAN /\ crashes \in 0 .. MaxCrashes
        /\ users \in 0 .. MaxUser /\ faults \in 0 .. MaxFaults
    <3>1. \A n \in Nat : 0 \in 0 .. n  OBVIOUS
    <3>2. conn = 0 /\ up = FALSE /\ crashes = 0 /\ users = 0 /\ faults = 0  BY DEF Init
    <3> QED  BY <3>1, <3>2
  <2> QED  BY <2>1, <2>2, <2>3 DEF LinkOK
<1>7. RunInv  BY DEF Init, RunInv
<1> QED  BY <1>1, <1>2, <1>3, <1>4, <1>5, <1>6, <1>7 DEF Typed, TypeOK

\* The types, one step per action.
LEMMA NextType == Typed /\ [Next]_vars => Typed'
<1> SUFFICES ASSUME Typed, [Next]_vars PROVE Typed'
  OBVIOUS
<1>1. CASE UNCHANGED vars
  BY <1>1, Stable DEF vars, senderVars, receiverVars, running, Typed, TypeOK
<1>2. ASSUME NEW f \in Files, RunStep(f)  PROVE Typed'
  BY <1>2, QueueType, SendingType, TakingType, EndingType DEF RunStep
<1>3. ASSUME NEW f \in Files, Approval(f)  PROVE Typed'
  BY <1>3, ApprovalType
<1>4. ASSUME NEW f \in Files, User(f)  PROVE Typed'
  BY <1>4, QueueType, SenderUserType, CancelInboundType DEF User
<1>5. ASSUME NEW c \in Conns, SenderLoop(c)  PROVE Typed'
  BY <1>5, SenderLoopType
<1>6. ASSUME NEW c \in Conns, ReceiverLoop(c)  PROVE Typed'
  BY <1>6, RequestType, DataType, CompleteType DEF ReceiverLoop
<1>7. CASE Connect \/ Disconnect  BY <1>7, LinkType
<1>8. CASE SenderRestart  BY <1>8, SenderRestartType
<1>9. CASE ReceiverRestart  BY <1>9, ReceiverRestartType
<1> QED  BY <1>1, <1>2, <1>3, <1>4, <1>5, <1>6, <1>7, <1>8, <1>9 DEF Next

\* The variables of both devices have the values the code's types and counters allow
\* in every state: no chunk beyond the last one, no attempt beyond MaxChunkRetries.
THEOREM TypeCorrect == Spec => []TypeOK
<1>1. Spec => []Typed  BY InitType, NextType, PTL DEF Spec
<1>2. Typed => TypeOK  BY DEF Typed
<1> QED  BY <1>1, <1>2, PTL

-----------------------------------------------------------------------------
(* What the steps of either device leave alone.                            *)

SenderStep ==
  \/ \E f \in Files :
       \/ RunStep(f) \/ SendFile(f) \/ CancelRunning(f) \/ CancelQueued(f)
       \/ CancelForgotten(f) \/ RetryTransfer(f)
  \/ \E c \in Conns : SenderLoop(c)
  \/ Connect \/ Disconnect \/ SenderRestart
ReceiverStep ==
  \/ \E f \in Files : Approval(f) \/ CancelInbound(f)
  \/ \E c \in Conns : ReceiverLoop(c)
  \/ ReceiverRestart

\* A step is the sender's, which leaves the receiver alone, or the receiver's.
LEMMA OneSide ==
  /\ Next <=> SenderStep \/ ReceiverStep
  /\ SenderStep => UNCHANGED receiverVars
  /\ ReceiverStep => UNCHANGED senderVars
<1>1. Next <=> SenderStep \/ ReceiverStep  BY Zenon DEF Next, User, SenderStep, ReceiverStep
<1>2. SenderStep => UNCHANGED receiverVars
  <2>1. ASSUME NEW f \in Files, RunStep(f)  PROVE UNCHANGED receiverVars
    BY <2>1, Zenon
    DEF RunStep, CheckStart, BeginOutboundFileTransfer, SendFileRequest, DropEvent, TakeAccepted,
        TakeRejected, SendChunk, TakeAck, TakeNack, SendFileComplete, TakeVerdict, Interrupted,
        Timeout, CaptureOutcome, RequeuePending, RecordCanceled, FinishRun
  <2>2. ASSUME NEW f \in Files,
               SendFile(f) \/ CancelRunning(f) \/ CancelQueued(f) \/ CancelForgotten(f)
                 \/ RetryTransfer(f)
        PROVE UNCHANGED receiverVars
    BY <2>2, Zenon DEF SendFile, CancelRunning, CancelQueued, CancelForgotten, RetryTransfer
  <2>3. ASSUME NEW c \in Conns, SenderLoop(c)  PROVE UNCHANGED receiverVars
    BY <2>3, Zenon DEF SenderLoop, HandleFileResponse, HandleVerdict
  <2>4. Connect \/ Disconnect \/ SenderRestart => UNCHANGED receiverVars
    BY Zenon DEF Connect, Disconnect, SenderRestart
  <2> QED  BY <2>1, <2>2, <2>3, <2>4, Zenon DEF SenderStep
<1>3. ReceiverStep => UNCHANGED senderVars
  <2>1. ASSUME NEW f \in Files, Approval(f) \/ CancelInbound(f)  PROVE UNCHANGED senderVars
    BY <2>1, Zenon DEF Approval, DecideRequest, DismissRequest, EndApproval, CancelInbound
  <2>2. ASSUME NEW c \in Conns, ReceiverLoop(c)  PROVE UNCHANGED senderVars
    BY <2>2, Zenon
    DEF ReceiverLoop, HandleRequestLimited, HandleRequestKnown, HandleRequestDecided,
        HandleRequestNew, NackFileData, HandleFileData, HandleCancel, HandleCancelEarly,
        IgnoreFileComplete, VerifyFile, RenameFile, RecordComplete
  <2>3. ReceiverRestart => UNCHANGED senderVars  BY Zenon DEF ReceiverRestart
  <2> QED  BY <2>1, <2>2, <2>3, Zenon DEF ReceiverStep
<1> QED  BY <1>1, <1>2, <1>3, Zenon

\* What a step of the receiver may do to its transfers and files: nothing but rows and
\* prompts, ...
AskStep ==
  /\ policy' = policy
  /\ \A g \in Files :
       \/ ask'[g] = ask[g] \/ ask'[g] = "no"
       \/ ask[g] = "asked" /\ ask'[g] = "ending"
       \/ policy = "ask" /\ ~has[g]
Quietly ==
  /\ UNCHANGED <<has, got, rcp, rpc, disk>> /\ AskStep
  /\ \A g \in Files : rrow'[g] = rrow[g] \/ rrow'[g] # "complete"
\* ... or start a transfer, ...
Opens(f) ==
  /\ Accept(f) /\ rrow[f] # "canceled" /\ rpc' = rpc /\ policy' = policy
  /\ \/ policy # "ask" /\ ask' = ask
     \/ ask[f] = "asked" /\ ask' = [ask EXCEPT ![f] = "ending"]
\* ... or end one, which may end a connection's handler, ...
Ends(f) ==
  /\ EndInbound(f, "canceled") \/ EndInbound(f, "failed")
  /\ rpc' = rpc \/ \E c \in Conns : rpc' = [rpc EXCEPT ![c] = <<>>]
  /\ UNCHANGED <<disk, ask, policy>>
\* ... or take a file from .part to its place in two steps.
Verifies(c, f) ==
  /\ ChecksumMatches(f) /\ rpc' = [rpc EXCEPT ![c] = <<"rename", f>>]
  /\ UNCHANGED <<inbound, disk, ask, policy>>
Renames(c, f) ==
  /\ rpc[c] = <<"rename", f>> /\ part[f] # <<>>
  /\ part' = [part EXCEPT ![f] = <<>>] /\ final' = [final EXCEPT ![f] = part[f]]
  /\ rpc' = [rpc EXCEPT ![c] = <<"record", f>>]
  /\ UNCHANGED <<inbound, purged, raced, ask, policy>>
Records(c, f) ==
  /\ rpc[c] = <<"record", f>> /\ rpc' = [rpc EXCEPT ![c] = <<>>]
  /\ EndInbound(f, "complete") /\ UNCHANGED <<disk, ask, policy>>

\* The steps of the receiver, by their effect.
LEMMA Effects ==
  ASSUME Typed, ReceiverStep
  PROVE  \/ Quietly
         \/ \E f \in Files : Opens(f) \/ Ends(f) \/ CancelInbound(f)
         \/ \E c \in Conns : HandleFileData(c)
         \/ \E c \in Conns, f \in Files : Verifies(c, f) \/ Renames(c, f) \/ Records(c, f)
         \/ ReceiverRestart
<1> DEFINE Goal ==
      \/ Quietly
      \/ \E f \in Files : Opens(f) \/ Ends(f) \/ CancelInbound(f)
      \/ \E c \in Conns : HandleFileData(c)
      \/ \E c \in Conns, f \in Files : Verifies(c, f) \/ Renames(c, f) \/ Records(c, f)
      \/ ReceiverRestart
<1>0. LinkOK /\ InboundOK  BY DEF Typed, TypeOK
<1>q. UNCHANGED <<ask, policy>> => AskStep  BY DEF AskStep
<1>1. ASSUME NEW f \in Files, Reject(f), UNCHANGED <<policy, rpc>>,
             ask' = ask \/ (ask[f] = "asked" /\ ask' = [ask EXCEPT ![f] = "ending"])
      PROVE  Quietly
  <2>1. AskStep  BY <1>0, <1>1 DEF AskStep, InboundOK
  <2>2. \A g \in Files : rrow'[g] = rrow[g] \/ rrow'[g] # "complete"
    BY <1>0, <1>1 DEF Reject, InboundOK
  <2> QED  BY <1>1, <2>1, <2>2 DEF Reject, Quietly
<1>2. ASSUME NEW f \in Files, Accept(f), UNCHANGED <<policy, rpc>>,
             (policy # "ask" /\ ask' = ask)
               \/ (ask[f] = "asked" /\ ask' = [ask EXCEPT ![f] = "ending"])
      PROVE  Quietly \/ Opens(f)
  <2>1. CASE rrow[f] = "canceled"
    <3>1. AskStep  BY <1>0, <1>2 DEF AskStep, InboundOK
    <3> QED  BY <1>2, <2>1, <3>1 DEF Accept, Quietly, inbound
  <2>2. CASE rrow[f] # "canceled"  BY <1>2, <2>2 DEF Opens
  <2> QED  BY <2>1, <2>2
<1>3. ASSUME NEW f \in Files, Approval(f)  PROVE Goal
  <2>1. CASE DismissRequest(f) \/ EndApproval(f)
    <3>1. AskStep  BY <1>0, <2>1 DEF AskStep, InboundOK, DismissRequest, EndApproval
    <3>2. UNCHANGED <<inbound, rpc, disk>>  BY <2>1 DEF DismissRequest, EndApproval
    <3> QED  BY <3>1, <3>2 DEF Quietly, inbound
  <2>2. ASSUME NEW accept \in BOOLEAN, DecideRequest(f, accept)  PROVE Goal
    <3>1. UNCHANGED <<policy, rpc>> /\ ask[f] = "asked" /\ ask' = [ask EXCEPT ![f] = "ending"]
      BY <2>2 DEF DecideRequest
    <3>2. Accept(f) \/ Reject(f)  BY <2>2 DEF DecideRequest
    <3> QED  BY <1>1, <1>2, <3>1, <3>2
  <2> QED  BY <1>3, <2>1, <2>2 DEF Approval
<1>4. ASSUME NEW c \in Conns, ReceiverLoop(c)  PROVE Goal
  <2> DEFINE f == Head(toR[c]).file
  <2>0. ASSUME NEW t, ReceiveAtReceiver(c, t)  PROVE f \in Files
    BY <1>0, <2>0, TakenType
  <2>1. CASE HandleRequestLimited(c) \/ NackFileData(c) \/ IgnoreFileComplete(c)
    <3>1. UNCHANGED receiverVars
      BY <2>1 DEF HandleRequestLimited, NackFileData, IgnoreFileComplete
    <3> QED  BY <1>q, <3>1 DEF Quietly, receiverVars, inbound, decision
  <2>2. CASE HandleRequestKnown(c) \/ HandleRequestDecided(c) \/ HandleCancelEarly(c)
    <3>1. UNCHANGED <<has, got, rcp, decision, rpc, disk>>
      BY <2>2 DEF HandleRequestKnown, HandleRequestDecided, HandleCancelEarly
    <3>2. \E r \in {"accepted", "rejected", "canceled"} : rrow' = [rrow EXCEPT ![f] = r]
      BY <2>2 DEF HandleRequestKnown, HandleRequestDecided, HandleCancelEarly
    <3>3. \A g \in Files : rrow'[g] = rrow[g] \/ rrow'[g] # "complete"
      BY <1>0, <3>2 DEF InboundOK
    <3> QED  BY <1>q, <3>1, <3>3 DEF Quietly, decision
  <2>3. CASE HandleRequestNew(c)
    <3> HIDE DEF Goal
    <3>0. f \in Files /\ UNCHANGED <<policy, rpc>> /\ ~has[f]
      BY <2>0, <2>3 DEF HandleRequestNew
    <3>1. policy \in {"auto", "ask", "refuse"}  BY <1>0, TransferAssumption DEF InboundOK
    <3>2. CASE policy = "auto"
      <4>1. Accept(f) /\ ask' = ask  BY <2>3, <3>2 DEF HandleRequestNew
      <4> QED  BY <1>2, <3>0, <3>2, <4>1 DEF Goal
    <3>3. CASE policy = "refuse"
      <4>1. Reject(f) /\ ask' = ask  BY <2>3, <3>3 DEF HandleRequestNew
      <4> QED  BY <1>1, <3>0, <4>1 DEF Goal
    <3>4. CASE policy = "ask"
      <4>1. /\ ask' = [ask EXCEPT ![f] = IF @ = "no" THEN "asked" ELSE @]
            /\ UNCHANGED <<inbound, disk>>
        BY <2>3, <3>4 DEF HandleRequestNew
      <4>2. AskStep  BY <1>0, <3>0, <3>4, <4>1 DEF AskStep, InboundOK
      <4> QED  BY <3>0, <4>1, <4>2 DEF Goal, Quietly, inbound
    <3> QED  BY <3>1, <3>2, <3>3, <3>4
  <2>4. CASE HandleFileData(c)  BY <2>4
  <2>5. CASE HandleCancel(c)
    <3>1. f \in Files /\ EndInbound(f, "canceled") /\ UNCHANGED <<decision, rpc, disk>>
      BY <2>0, <2>5 DEF HandleCancel
    <3> QED  BY <3>1 DEF Ends, decision
  <2>6. CASE VerifyFile(c)
    <3>1. f \in Files /\ UNCHANGED <<decision, disk>>  BY <2>0, <2>6 DEF VerifyFile
    <3>2. CASE ChecksumMatches(f)
      <4>1. rpc' = [rpc EXCEPT ![c] = <<"rename", f>>] /\ UNCHANGED inbound
        BY <2>6, <3>2 DEF VerifyFile
      <4>2. Verifies(c, f)  BY <3>1, <3>2, <4>1 DEF Verifies, decision
      <4> QED  BY <3>1, <4>2
    <3>3. CASE ~ChecksumMatches(f)
      <4>1. EndInbound(f, "failed") /\ rpc' = rpc  BY <2>6, <3>3 DEF VerifyFile
      <4> QED  BY <3>1, <4>1 DEF Ends, decision
    <3> QED  BY <3>2, <3>3
  <2>7. CASE RenameFile(c)
    <3> DEFINE g == rpc[c][2]
    <3>1. g \in Files /\ rpc[c] = <<"rename", g>> /\ UNCHANGED decision
      BY <1>0, <2>7 DEF RenameFile, LinkOK
    <3>2. CASE part[g] # <<>>
      <4>1. Renames(c, g)  BY <2>7, <3>1, <3>2 DEF RenameFile, Renames, decision
      <4> QED  BY <3>1, <4>1
    <3>3. CASE part[g] = <<>>
      <4>1. EndInbound(g, "failed") /\ rpc' = [rpc EXCEPT ![c] = <<>>] /\ UNCHANGED disk
        BY <2>7, <3>3 DEF RenameFile
      <4>2. Ends(g)  BY <3>1, <4>1 DEF Ends, decision
      <4> QED  BY <3>1, <4>2
    <3> QED  BY <3>2, <3>3
  <2>8. CASE RecordComplete(c)
    <3> DEFINE g == rpc[c][2]
    <3>1. g \in Files /\ rpc[c] = <<"record", g>>  BY <1>0, <2>8 DEF RecordComplete, LinkOK
    <3>2. Records(c, g)  BY <2>8, <3>1 DEF RecordComplete, Records, decision
    <3> QED  BY <3>1, <3>2
  <2> QED  BY <1>4, <2>1, <2>2, <2>3, <2>4, <2>5, <2>6, <2>7, <2>8 DEF ReceiverLoop
<1> QED  BY <1>3, <1>4 DEF ReceiverStep

-----------------------------------------------------------------------------
(* The receiver's transfers and their checkpoints.                         *)

Below(k) == 0 .. k - 1

\* A transfer has a checkpoint as long as it is in memory, and the chunks below it are
\* counted as received; a prompt is shown only when there is no transfer yet.
ReceiverInv == \A f \in Files :
  /\ has[f] <=> rcp[f] # <<>>
  /\ has[f] => Below(rcp[f][1]) \subseteq got[f]
  /\ ask[f] # "no" => policy = "ask"
  /\ ask[f] = "asked" => ~has[f]

\* What the receiver knows of a transfer agrees with its checkpoint after every step.
LEMMA ReceiverInvNext ==
  ASSUME Typed, ReceiverInv, [Next]_vars
  PROVE  ReceiverInv'
<1>0. InboundOK /\ Typed'  BY NextType DEF Typed, TypeOK
<1>1. CASE UNCHANGED vars \/ SenderStep
  <2>1. UNCHANGED <<has, rcp, got, ask, policy>>
    BY <1>1, OneSide DEF vars, receiverVars, inbound, decision
  <2> QED  BY <2>1 DEF ReceiverInv
<1>2. CASE ReceiverStep
  <2>1. CASE Quietly  BY <2>1 DEF Quietly, AskStep, ReceiverInv
  <2>2. ASSUME NEW f \in Files, Opens(f)  PROVE ReceiverInv'
    <3>1. /\ has' = [has EXCEPT ![f] = TRUE] /\ got' = [got EXCEPT ![f] = {}]
          /\ rcp' = [rcp EXCEPT ![f] = <<0>>] /\ policy' = policy
          /\ \/ policy # "ask" /\ ask' = ask
             \/ ask[f] = "asked" /\ ask' = [ask EXCEPT ![f] = "ending"]
      BY <2>2 DEF Opens, Accept
    <3>2. Below(0) = {}  BY DEF Below
    <3>3. <<0>>[1] = 0 /\ <<0>> # <<>>  OBVIOUS
    <3> QED  BY <1>0, <3>1, <3>2, <3>3 DEF ReceiverInv, InboundOK
  <2>3. ASSUME NEW f \in Files, NEW s \in Status, EndInbound(f, s), UNCHANGED <<ask, policy>>
        PROVE ReceiverInv'
    BY <1>0, <2>3 DEF EndInbound, ReceiverInv, InboundOK
  <2>4. ASSUME NEW f \in Files, Ends(f) \/ CancelInbound(f)  PROVE ReceiverInv'
    BY <2>3, <2>4 DEF Ends, CancelInbound, decision, Status, Terminal
  <2>5. ASSUME NEW c \in Conns, HandleFileData(c)  PROVE ReceiverInv'
    <3> DEFINE m == Head(toR[c])
               f == m.file
               received == got[f] \cup {m.n}
    <3>1. /\ f \in Files /\ m.n \in Chunks
      BY <2>5, TakenType, ReceiverMessage DEF HandleFileData, Typed, TypeOK
    <3>2. /\ has[f] /\ got' = [got EXCEPT ![f] = received]
          /\ rcp' = [rcp EXCEPT ![f] = Persisted(@, NextChunk(received), InEvery)]
          /\ UNCHANGED <<has, ask, policy>>
      BY <2>5 DEF HandleFileData, decision
    <3> HIDE DEF f, m
    <3>3. received \in SUBSET Chunks  BY <1>0, <3>1 DEF InboundOK
    <3>4. Below(NextChunk(received)) \subseteq received  BY <3>3, NextChunkType DEF Below
    <3> HIDE DEF received
    <3>5. \/ rcp'[f] = rcp[f]
          \/ rcp'[f] = <<NextChunk(received)>>
      BY <1>0, <3>1, <3>2 DEF InboundOK, Persisted
    <3>6. got'[f] = received /\ got[f] \subseteq received
      BY <1>0, <3>1, <3>2 DEF InboundOK, received
    <3>7. rcp'[f] # <<>> /\ Below(rcp'[f][1]) \subseteq got'[f]
      BY <3>1, <3>2, <3>4, <3>5, <3>6 DEF ReceiverInv
    <3>8. \A g \in Files : g # f => rcp'[g] = rcp[g] /\ got'[g] = got[g]
      BY <1>0, <3>2 DEF InboundOK
    <3> QED  BY <3>1, <3>2, <3>7, <3>8 DEF ReceiverInv
  <2>6. ASSUME NEW c \in Conns, NEW f \in Files, Verifies(c, f) \/ Renames(c, f)
        PROVE ReceiverInv'
    BY <2>6 DEF Verifies, Renames, inbound, ReceiverInv
  <2>7. ASSUME NEW c \in Conns, NEW f \in Files, Records(c, f)  PROVE ReceiverInv'
    BY <2>3, <2>7 DEF Records, Status, Terminal
  <2>8. CASE ReceiverRestart
    <3> DEFINE S == {f \in Files : Resumable(rcp, rrow, f)}
    <3>1. /\ rcp' = [f \in Files |-> IF f \in S THEN rcp[f] ELSE <<>>]
          /\ has' = [f \in Files |-> f \in S]
          /\ got' = [f \in Files |-> IF f \in S THEN 0 .. rcp[f][1] - 1 ELSE {}]
          /\ ask' = [f \in Files |-> "no"]
      BY <2>8 DEF ReceiverRestart
    <3>2. \A f \in S : rcp[f] # <<>>  BY DEF Resumable
    <3> HIDE DEF S
    <3> QED  BY <3>1, <3>2 DEF ReceiverInv, Below
  <2> QED  BY <1>2, <2>1, <2>2, <2>4, <2>5, <2>6, <2>7, <2>8, Effects
<1> QED  BY <1>1, <1>2, OneSide

-----------------------------------------------------------------------------
(* Messages on their way to the sender.                                    *)

\* What a queue holds after its ends have changed.
LEMMA TailMembers ==
  ASSUME NEW S, NEW s \in Seq(S), s # <<>>
  PROVE  Head(s) \in Members(s) /\ Members(Tail(s)) \subseteq Members(s)
<1>1. Head(s) = s[1] /\ 1 \in 1 .. Len(s)  OBVIOUS
<1>2. \A i \in 1 .. Len(Tail(s)) : Tail(s)[i] = s[i + 1] /\ i + 1 \in 1 .. Len(s)  OBVIOUS
<1> QED  BY <1>1, <1>2 DEF Members

\* The members of a sequence to which one is appended.
LEMMA AppendMembers ==
  ASSUME NEW S, NEW s \in Seq(S), NEW m \in S
  PROVE  Members(Append(s, m)) = Members(s) \cup {m}
<1>1. Len(Append(s, m)) = Len(s) + 1  OBVIOUS
<1>2. \A i \in 1 .. Len(s) : Append(s, m)[i] = s[i]  OBVIOUS
<1>3. Append(s, m)[Len(s) + 1] = m  OBVIOUS
<1>4. 1 .. Len(s) + 1 = (1 .. Len(s)) \cup {Len(s) + 1}  OBVIOUS
<1> QED  BY <1>1, <1>2, <1>3, <1>4 DEF Members

\* What is left of a channel that is cut was on it.
LEMMA CutMembers ==
  ASSUME NEW S, NEW s \in Seq(S), NEW i \in 0 .. Len(s)
  PROVE  Members(Cut(s, i)) \subseteq Members(s)
<1>1. SubSeq(s, 1, i) \in Seq(S) /\ Len(SubSeq(s, 1, i)) = i
  <2>1. \A k \in 1 .. i : s[k] \in S  OBVIOUS
  <2> QED  BY <2>1, SubSeqProperties
<1>2. \A k \in 1 .. i : SubSeq(s, 1, i)[k] = s[k] /\ k \in 1 .. Len(s)  OBVIOUS
<1> QED  BY <1>1, <1>2 DEF Members, Cut

\* An empty sequence has no members.
LEMMA EmptyMembers == Members(<<>>) = {}
BY DEF Members

\* A message sent is the only new one.
LEMMA SentMembers ==
  ASSUME NEW S, NEW L \in [Conns -> Seq(S)], NEW c, NEW m \in S, NEW d \in Conns
  PROVE  Members(Sent(L, c, m)[d]) \subseteq Members(L[d]) \cup {m}
<1>1. L[d] \in Seq(S)  OBVIOUS
<1>2. Members(Append(L[d], m)) = Members(L[d]) \cup {m}  BY <1>1, AppendMembers
<1>3. Sent(L, c, m)[d] = L[d] \/ Sent(L, c, m)[d] = Append(L[d], m)  BY DEF Sent
<1> QED  BY <1>2, <1>3

\* What the receiver may say of a file in a step.
Founded(m) ==
  /\ m.type = "response" /\ m.status = "accepted"
       => m.n = 0 \/ (has[m.file] /\ m.n = NextChunk(got[m.file]))
  /\ m.type = "response" /\ m.status = "chunk_ack" => m.n \in Content(part'[m.file])
  /\ m.type = "complete" /\ m.status = "complete"
       => \E c \in Conns : rpc[c] = <<"record", m.file>>

\* A new message to the sender is founded.
LEMMA NewMessages ==
  ASSUME Typed, [Next]_vars, NEW d \in Conns, NEW m \in Members(toS'[d])
  PROVE  m \in Members(toS[d]) \/ Founded(m)
<1>0. LinkOK /\ InboundOK /\ DiskOK /\ toS \in [Conns -> Seq(ToSender)]
  BY DEF Typed, TypeOK, LinkOK
<1>a. ASSUME UNCHANGED toS  PROVE m \in Members(toS[d])
  BY <1>a
<1>s. ASSUME NEW c, NEW x \in ToSender, SendToSender(c, x)
      PROVE  m \in Members(toS[d]) \/ m = x
  <2>1. toS' = Sent(toS, c, x)  BY <1>s DEF SendToSender
  <2>2. Members(Sent(toS, c, x)[d]) \subseteq Members(toS[d]) \cup {x}
    BY <1>0, <1>s, SentMembers
  <2> QED  BY <2>1, <2>2
<1>r. ASSUME NEW f \in Files, NEW c, NEW t, NEW k \in 0 .. N,
             t \in {"accepted", "rejected", "canceled", "chunk_ack", "chunk_nack"},
             SendToSender(c, Response(f, t, k)),
             t = "accepted" => k = 0 \/ (has[f] /\ k = NextChunk(got[f])),
             t = "chunk_ack" => k \in Content(part'[f])
      PROVE  m \in Members(toS[d]) \/ Founded(m)
  <2>1. Response(f, t, k) \in ToSender  BY <1>r, ReceiverMessages
  <2>2. Founded(Response(f, t, k))  BY <1>r DEF Founded, Response
  <2> QED  BY <1>r, <1>s, <2>1, <2>2
<1>c. ASSUME NEW f \in Files, NEW c, NEW t \in {"complete", "failed", "canceled"},
             SendToSender(c, Complete(f, t)),
             t = "complete" => \E b \in Conns : rpc[b] = <<"record", f>>
      PROVE  m \in Members(toS[d]) \/ Founded(m)
  <2>1. Complete(f, t) \in ToSender  BY <1>c, ReceiverMessages
  <2>2. Founded(Complete(f, t))  BY <1>c DEF Founded, Complete
  <2> QED  BY <1>c, <1>s, <2>1, <2>2
<1>1. CASE UNCHANGED vars  BY <1>1, <1>a DEF vars
<1>2. CASE SenderStep
  <2>1. CASE UNCHANGED toS  BY <2>1
  <2>2. ASSUME NEW c \in Conns, NEW t, ReceiveAtSender(c, t)  PROVE m \in Members(toS[d])
    <3>1. toS[c] # <<>> /\ toS' = [toS EXCEPT ![c] = Tail(@)]  BY <2>2 DEF ReceiveAtSender
    <3>2. Members(Tail(toS[c])) \subseteq Members(toS[c])  BY <1>0, <3>1, TailMembers
    <3> QED  BY <1>0, <3>1, <3>2
  <2>3. ASSUME NEW i \in 0 .. Len(toS[conn]), toS' = [toS EXCEPT ![conn] = Cut(@, i)]
        PROVE m \in Members(toS[d])
    <3>1. CASE d = conn
      <4>1. toS[d] \in Seq(ToSender) /\ toS'[d] = Cut(toS[d], i)  BY <1>0, <2>3, <3>1
      <4> QED  BY <2>3, <3>1, <4>1, CutMembers
    <3>2. CASE d # conn  BY <1>0, <2>3, <3>2
    <3> QED  BY <3>1, <3>2
  <2>4. CASE toS' = [c \in Conns |-> <<>>]  BY <2>4, EmptyMembers
  <2>5. ASSUME NEW f \in Files,
               RunStep(f) \/ SendFile(f) \/ CancelRunning(f) \/ CancelQueued(f)
                 \/ CancelForgotten(f) \/ RetryTransfer(f)
        PROVE UNCHANGED toS
    BY <2>5, Zenon
    DEF RunStep, CheckStart, BeginOutboundFileTransfer, SendFileRequest, DropEvent, TakeAccepted,
        TakeRejected, SendChunk, TakeAck, TakeNack, SendFileComplete, TakeVerdict, Interrupted,
        Timeout, CaptureOutcome, RequeuePending, RecordCanceled, FinishRun, SendFile,
        CancelRunning, CancelQueued, CancelForgotten, RetryTransfer
  <2>6. ASSUME NEW c \in Conns, SenderLoop(c)  PROVE \E t : ReceiveAtSender(c, t)
    BY <2>6, Zenon DEF SenderLoop, HandleFileResponse, HandleVerdict
  <2>7. Connect => UNCHANGED toS  BY DEF Connect
  <2>8. Disconnect => \E i \in 0 .. Len(toS[conn]) : toS' = [toS EXCEPT ![conn] = Cut(@, i)]
    BY Zenon DEF Disconnect
  <2>9. SenderRestart => toS' = [c \in Conns |-> <<>>]  BY Zenon DEF SenderRestart
  <2> QED  BY <1>2, <2>1, <2>2, <2>3, <2>4, <2>5, <2>6, <2>7, <2>8, <2>9 DEF SenderStep
<1>3. ASSUME NEW f \in Files, Reject(f)  PROVE m \in Members(toS[d]) \/ Founded(m)
  BY <1>3, <1>r, Bounds DEF Reject
<1>4. ASSUME NEW f \in Files, Accept(f)  PROVE m \in Members(toS[d]) \/ Founded(m)
  <2>1. 0 \in 0 .. N  BY Bounds
  <2>2. \/ SendToSender(Current, Response(f, "canceled", 0))
        \/ SendToSender(Current, Response(f, "accepted", 0))
    BY <1>4 DEF Accept
  <2> QED  BY <1>r, <2>1, <2>2
<1>5. ASSUME NEW f \in Files, Approval(f)  PROVE m \in Members(toS[d]) \/ Founded(m)
  <2>1. CASE DismissRequest(f) \/ EndApproval(f)
    <3>1. UNCHANGED toS  BY <2>1 DEF DismissRequest, EndApproval
    <3> QED  BY <1>a, <3>1
  <2>2. ASSUME NEW a \in BOOLEAN, DecideRequest(f, a)  PROVE m \in Members(toS[d]) \/ Founded(m)
    <3>1. Accept(f) \/ Reject(f)  BY <2>2 DEF DecideRequest
    <3> QED  BY <1>3, <1>4, <3>1
  <2> QED  BY <1>5, <2>1, <2>2 DEF Approval
<1>6. ASSUME NEW f \in Files, CancelInbound(f)  PROVE m \in Members(toS[d]) \/ Founded(m)
  <2>1. SendToSender(Current, Complete(f, "canceled"))  BY <1>6 DEF CancelInbound
  <2> QED  BY <1>c, <2>1
<1>7. ASSUME NEW c \in Conns, ReceiverLoop(c)  PROVE m \in Members(toS[d]) \/ Founded(m)
  <2> DEFINE x == Head(toR[c])
             f == x.file
  <2>0. ASSUME NEW t, ReceiveAtReceiver(c, t)  PROVE x \in ToReceiver /\ f \in Files /\ x.type = t
    BY <1>0, <2>0, TakenType
  <2>z. 0 \in 0 .. N  BY Bounds
  <2>1. CASE HandleRequestLimited(c) \/ HandleRequestDecided(c)
    <3>1. f \in Files /\ SendToSender(c, Response(f, "rejected", 0))
      BY <2>0, <2>1 DEF HandleRequestLimited, HandleRequestDecided
    <3> QED  BY <1>r, <2>z, <3>1
  <2>2. CASE HandleRequestKnown(c)
    <3>1. f \in Files /\ has[f] /\ SendToSender(c, Response(f, "accepted", NextChunk(got[f])))
      BY <2>0, <2>2 DEF HandleRequestKnown
    <3>2. NextChunk(got[f]) \in 0 .. N  BY <1>0, <3>1, NextChunkType DEF InboundOK
    <3> QED  BY <1>r, <3>1, <3>2
  <2>3. CASE HandleRequestNew(c)
    <3>1. f \in Files /\ policy \in {"auto", "ask", "refuse"}
      BY <1>0, <2>0, <2>3, TransferAssumption DEF HandleRequestNew, InboundOK
    <3>2. Accept(f) \/ Reject(f) \/ UNCHANGED toS  BY <2>3, <3>1 DEF HandleRequestNew
    <3> QED  BY <1>3, <1>4, <1>a, <3>1, <3>2
  <2>4. CASE NackFileData(c)
    <3>1. x.n \in 0 .. N /\ f \in Files
      BY <2>0, <2>4, ReceiverMessage, Bounds DEF NackFileData, Chunks
    <3>2. SendToSender(c, Response(f, "chunk_nack", x.n))  BY <2>4 DEF NackFileData
    <3> QED  BY <1>r, <3>1, <3>2
  <2>5. CASE HandleFileData(c)
    <3>1. x.n \in 0 .. N /\ f \in Files
      BY <2>0, <2>5, ReceiverMessage, Bounds DEF HandleFileData, Chunks
    <3>2. /\ SendToSender(c, Response(f, "chunk_ack", x.n))
          /\ part' = [part EXCEPT ![f] = <<Content(@) \cup {x.n}>>]
      BY <2>5 DEF HandleFileData
    <3>3. x.n \in Content(part'[f])  BY <1>0, <3>1, <3>2 DEF Content, DiskOK
    <3> QED  BY <1>r, <3>1, <3>2, <3>3
  <2>6. CASE HandleCancel(c)
    <3>1. f \in Files /\ SendToSender(c, Complete(f, "canceled"))
      BY <2>0, <2>6 DEF HandleCancel
    <3> QED  BY <1>c, <3>1
  <2>7. CASE HandleCancelEarly(c) \/ IgnoreFileComplete(c)
    <3>1. UNCHANGED toS  BY <2>7 DEF HandleCancelEarly, IgnoreFileComplete
    <3> QED  BY <1>a, <3>1
  <2>8. CASE VerifyFile(c)
    <3>1. f \in Files /\ (UNCHANGED toS \/ SendToSender(c, Complete(f, "failed")))
      BY <2>0, <2>8 DEF VerifyFile
    <3> QED  BY <1>a, <1>c, <3>1
  <2>9. CASE RenameFile(c)
    <3>1. rpc[c][2] \in Files  BY <1>0, <2>9 DEF RenameFile, LinkOK
    <3>2. UNCHANGED toS \/ SendToSender(c, Complete(rpc[c][2], "failed"))
      BY <2>9 DEF RenameFile
    <3> QED  BY <1>a, <1>c, <3>1, <3>2
  <2>10. CASE RecordComplete(c)
    <3>1. rpc[c][2] \in Files /\ rpc[c] = <<"record", rpc[c][2]>>
      BY <1>0, <2>10 DEF RecordComplete, LinkOK
    <3>2. SendToSender(c, Complete(rpc[c][2], "complete"))  BY <2>10 DEF RecordComplete
    <3> QED  BY <1>c, <3>1, <3>2
  <2> QED  BY <1>7, <2>1, <2>2, <2>3, <2>4, <2>5, <2>6, <2>7, <2>8, <2>9, <2>10 DEF ReceiverLoop
<1>8. CASE ReceiverRestart
  <2>1. \/ UNCHANGED toS
        \/ \E i \in 0 .. Len(toS[conn]) : toS' = [toS EXCEPT ![conn] = Cut(@, i)]
    BY <1>8 DEF ReceiverRestart
  <2>2. ASSUME NEW i \in 0 .. Len(toS[conn]), toS' = [toS EXCEPT ![conn] = Cut(@, i)]
        PROVE m \in Members(toS[d])
    <3>1. CASE d = conn
      <4>1. toS[d] \in Seq(ToSender) /\ toS'[d] = Cut(toS[d], i)  BY <1>0, <2>2, <3>1
      <4> QED  BY <2>2, <3>1, <4>1, CutMembers
    <3>2. CASE d # conn  BY <1>0, <2>2, <3>2
    <3> QED  BY <3>1, <3>2
  <2> QED  BY <1>a, <2>1, <2>2
<1> QED  BY <1>1, <1>2, <1>5, <1>6, <1>7, <1>8, OneSide DEF ReceiverStep

\* A new event of a run is a message that was on its way, about the run's file.
LEMMA NewEvents ==
  ASSUME Typed, [Next]_vars, NEW f \in Files, NEW e \in Members(events'[f])
  PROVE  \/ e \in Members(events[f])
         \/ e.file = f /\ \E c \in Conns : e \in Members(toS[c])
<1> DEFINE Goal == \/ e \in Members(events[f])
                   \/ e.file = f /\ \E c \in Conns : e \in Members(toS[c])
<1>0. LinkOK /\ events \in [Files -> Seq(ToSender)]  BY DEF Typed, TypeOK, LinkOK
<1>1. CASE UNCHANGED events  BY <1>1
<1>2. ASSUME NEW g \in Files, events' = [events EXCEPT ![g] = <<>>]  PROVE Goal
  BY <1>0, <1>2, EmptyMembers
<1>3. ASSUME NEW g \in Files, events[g] # <<>>, events' = [events EXCEPT ![g] = Tail(@)]
      PROVE  Goal
  <2>1. Members(Tail(events[g])) \subseteq Members(events[g])  BY <1>0, <1>3, TailMembers
  <2> QED  BY <1>0, <1>3, <2>1
<1>4. CASE events' = [g \in Files |-> <<>>]  BY <1>4, EmptyMembers
<1>5. ASSUME NEW c \in Conns, SenderLoop(c)  PROVE Goal
  <2> DEFINE m == Head(toS[c])
  <2>1. PICK t : ReceiveAtSender(c, t)  BY <1>5, Zenon DEF SenderLoop, HandleFileResponse, HandleVerdict
  <2>2. toS[c] # <<>>  BY <2>1 DEF ReceiveAtSender
  <2>3. m \in ToSender /\ m.file \in Files  BY <1>0, <2>2, ToSenderType, SenderMessage
  <2>4. m \in Members(toS[c])  BY <1>0, <2>2, TailMembers DEF LinkOK
  <2>5. events' = events \/ events' = [events EXCEPT ![m.file] = Append(@, m)]
    BY <1>5 DEF SenderLoop, HandleFileResponse, HandleVerdict
  <2> HIDE DEF m
  <2>6. CASE events' = [events EXCEPT ![m.file] = Append(@, m)]
    <3>1. Members(Append(events[m.file], m)) = Members(events[m.file]) \cup {m}
      <4>1. events[m.file] \in Seq(ToSender)  BY <1>0, <2>3
      <4> QED  BY <2>3, <4>1, AppendMembers
    <3>2. CASE f = m.file  BY <1>0, <2>3, <2>4, <2>6, <3>1, <3>2
    <3>3. CASE f # m.file  BY <1>0, <2>6, <3>3
    <3> QED  BY <3>2, <3>3
  <2> QED  BY <1>1, <2>5, <2>6
<1>6. ASSUME NEW g \in Files, RunStep(g)  PROVE Goal
  <2>1. CASE \/ CheckStart(g) \/ BeginOutboundFileTransfer(g) \/ SendChunk(g)
             \/ SendFileComplete(g) \/ Interrupted(g) \/ Timeout(g) \/ RequeuePending(g)
             \/ RecordCanceled(g) \/ FinishRun(g)
    <3>1. UNCHANGED events
      BY <2>1, Zenon
      DEF CheckStart, BeginOutboundFileTransfer, SendChunk, SendFileComplete, Interrupted,
          Timeout, RequeuePending, RecordCanceled, FinishRun
    <3> QED  BY <1>1, <3>1
  <2>2. CASE SendFileRequest(g) \/ CaptureOutcome(g)
    <3>1. events' = [events EXCEPT ![g] = <<>>]  BY <2>2 DEF SendFileRequest, CaptureOutcome
    <3> QED  BY <1>2, <3>1
  <2>3. CASE \/ DropEvent(g) \/ TakeAccepted(g) \/ TakeRejected(g, "await")
             \/ TakeRejected(g, "ack") \/ TakeAck(g) \/ TakeNack(g) \/ TakeVerdict(g)
    <3>1. events[g] # <<>> /\ events' = [events EXCEPT ![g] = Tail(@)]
      BY <2>3, Zenon DEF DropEvent, TakeAccepted, TakeRejected, TakeAck, TakeNack, TakeVerdict, Take
    <3> QED  BY <1>3, <3>1
  <2> QED  BY <1>6, <2>1, <2>2, <2>3, Zenon DEF RunStep
<1>7. ASSUME NEW g \in Files,
             SendFile(g) \/ CancelRunning(g) \/ CancelQueued(g) \/ CancelForgotten(g)
               \/ RetryTransfer(g)
      PROVE  UNCHANGED events
  BY <1>7, Zenon DEF SendFile, CancelRunning, CancelQueued, CancelForgotten, RetryTransfer
<1>8. Connect \/ Disconnect \/ ReceiverStep \/ UNCHANGED vars => UNCHANGED events
  BY OneSide, Zenon DEF Connect, Disconnect, senderVars, vars
<1>9. SenderRestart => events' = [g \in Files |-> <<>>]  BY Zenon DEF SenderRestart
<1> QED  BY <1>1, <1>4, <1>5, <1>6, <1>7, <1>8, <1>9, OneSide DEF SenderStep

-----------------------------------------------------------------------------
(* What the sender skips is on the receiver's disk.                        *)

\* The chunks S of f are in its .part file, unless that file has been finished or
\* deleted by the receiving user.
Kept(f, S) == final[f] # <<>> \/ f \in purged \/ S \subseteq Content(part[f])

\* An answer says only what the disk has.
MessageKept(m) ==
  m.type = "response" =>
    /\ m.status = "accepted" => Kept(m.file, Below(m.n))
    /\ m.status = "chunk_ack" => Kept(m.file, {m.n})

DiskInv ==
  /\ \A f \in Files : has[f] => final[f] # <<>> \/ got[f] \subseteq Content(part[f])
  /\ \A f \in Files : Kept(f, Below(out[f].next))
  /\ \A f \in Files : scp[f] # <<>> => Kept(f, Below(scp[f][1]))
  /\ \A f \in Files : \A e \in Members(events[f]) : e.file = f /\ MessageKept(e)
  /\ \A c \in Conns : \A m \in Members(toS[c]) : MessageKept(m)

\* What is readable in a file that has just been created, or written.
LEMMA Contents ==
  /\ \A x : Content(<<x>>) = x
  /\ \A file : Content(Created(file)) = Content(file)
<1>1. \A x : <<x>> # <<>> /\ <<x>>[1] = x  OBVIOUS
<1> QED  BY <1>1 DEF Content, Created

\* What is on the disk stays there.
LEMMA KeptStays ==
  ASSUME Typed, [Next]_vars, NEW f \in Files, NEW S, Kept(f, S)
  PROVE  Kept(f, S)'
<1>0. DiskOK  BY DEF Typed, TypeOK
<1>1. CASE UNCHANGED disk  BY <1>1 DEF disk, Kept
<1>2. ASSUME NEW g \in Files, part' = [part EXCEPT ![g] = Created(@)], UNCHANGED <<final, purged>>
      PROVE  Kept(f, S)'
  <2>1. Content(part'[f]) = Content(part[f])  BY <1>0, <1>2, Contents DEF DiskOK
  <2> QED  BY <1>2, <2>1 DEF Kept
<1>3. CASE ReceiverStep
  <2>1. CASE Quietly  BY <1>1, <2>1 DEF Quietly
  <2>2. ASSUME NEW g \in Files, Opens(g) \/ Ends(g) \/ CancelInbound(g)  PROVE Kept(f, S)'
    <3>1. CASE Opens(g)
      <4>1. part' = [part EXCEPT ![g] = Created(@)] /\ UNCHANGED <<final, purged>>
        BY <3>1 DEF Opens, Accept
      <4> QED  BY <1>2, <4>1
    <3>2. CASE Ends(g)  BY <1>1, <3>2 DEF Ends
    <3>3. CASE CancelInbound(g)
      <4>1. /\ part' = [part EXCEPT ![g] = <<>>] /\ purged' = purged \cup {g}
            /\ UNCHANGED final
        BY <3>3 DEF CancelInbound
      <4>2. f # g => part'[f] = part[f]  BY <1>0, <4>1 DEF DiskOK
      <4> QED  BY <4>1, <4>2 DEF Kept
    <3> QED  BY <2>2, <3>1, <3>2, <3>3
  <2>3. ASSUME NEW c \in Conns, HandleFileData(c)  PROVE Kept(f, S)'
    <3> DEFINE m == Head(toR[c])
    <3>1. part' = [part EXCEPT ![m.file] = <<Content(@) \cup {m.n}>>] /\ UNCHANGED <<final, purged>>
      BY <2>3 DEF HandleFileData
    <3> HIDE DEF m
    <3>2. part'[f] = part[f] \/ part'[f] = <<Content(part[f]) \cup {m.n}>>
      BY <1>0, <3>1 DEF DiskOK
    <3>3. Content(part[f]) \subseteq Content(part'[f])  BY <3>2, Contents
    <3> QED  BY <3>1, <3>3 DEF Kept
  <2>4. ASSUME NEW c \in Conns, NEW g \in Files, Verifies(c, g) \/ Renames(c, g) \/ Records(c, g)
        PROVE Kept(f, S)'
    <3>1. CASE Verifies(c, g) \/ Records(c, g)  BY <1>1, <3>1 DEF Verifies, Records
    <3>2. CASE Renames(c, g)
      <4>1. /\ part' = [part EXCEPT ![g] = <<>>] /\ final' = [final EXCEPT ![g] = part[g]]
            /\ part[g] # <<>> /\ UNCHANGED purged
        BY <3>2 DEF Renames
      <4> QED  BY <1>0, <4>1 DEF Kept, DiskOK
    <3> QED  BY <2>4, <3>1, <3>2
  <2>5. CASE ReceiverRestart
    <3>1. /\ \A g \in Files : part'[g] = part[g] \/ part'[g] = Created(part[g])
          /\ UNCHANGED <<final, purged>>
      BY <2>5 DEF ReceiverRestart
    <3>2. Content(part[f]) = Content(part'[f])  BY <3>1, Contents
    <3> QED  BY <3>1, <3>2 DEF Kept
  <2> QED  BY <1>3, <2>1, <2>2, <2>3, <2>4, <2>5, Effects
<1>4. SenderStep \/ UNCHANGED vars => UNCHANGED disk
  BY OneSide, Zenon DEF receiverVars, vars
<1> QED  BY <1>1, <1>3, <1>4, OneSide

\* Two parts that are kept are kept together.
LEMMA KeptUnion ==
  ASSUME NEW f, NEW S, NEW T, Kept(f, S), Kept(f, T)
  PROVE  Kept(f, S \cup T)
BY DEF Kept

\* A message about which the disk agrees keeps agreeing with it.
LEMMA MessageKeptStays ==
  ASSUME Typed, [Next]_vars, NEW m, m.file \in Files, MessageKept(m)
  PROVE  MessageKept(m)'
<1>1. \A S : Kept(m.file, S) => Kept(m.file, S)'  BY KeptStays
<1> QED  BY <1>1 DEF MessageKept

\* Every step keeps the chunks that are counted on the disk.
LEMMA DiskInvNext ==
  ASSUME Typed, ReceiverInv, DiskInv, [Next]_vars
  PROVE  DiskInv'
<1>0. RowsOK /\ RunOK /\ InboundOK /\ DiskOK /\ LinkOK  BY DEF Typed, TypeOK
<1>m. \A m : m.file \in Files /\ MessageKept(m) => MessageKept(m)'  BY MessageKeptStays
<1>k. \A f \in Files : \A S : Kept(f, S) => Kept(f, S)'  BY KeptStays
\* The receiver counts only what is on its disk.
<1>1. \A f \in Files : has'[f] => final'[f] # <<>> \/ got'[f] \subseteq Content(part'[f])
  <2> DEFINE Counted(f) == has[f] => final[f] # <<>> \/ got[f] \subseteq Content(part[f])
             Goal == \A f \in Files : Counted(f)'
  <2>0. \A f \in Files : Counted(f)  BY DEF DiskInv
  <2>1. CASE UNCHANGED <<has, got, disk>>  BY <2>0, <2>1 DEF disk
  <2>2. CASE ReceiverStep
    <3>1. CASE Quietly  BY <2>1, <3>1 DEF Quietly
    <3>2. ASSUME NEW f \in Files, Opens(f)  PROVE Goal
      <4>1. /\ has' = [has EXCEPT ![f] = TRUE] /\ got' = [got EXCEPT ![f] = {}]
            /\ part' = [part EXCEPT ![f] = Created(@)] /\ final' = final
        BY <3>2 DEF Opens, Accept
      <4>2. \A g \in Files : g # f => has'[g] = has[g] /\ got'[g] = got[g] /\ part'[g] = part[g]
        BY <1>0, <4>1 DEF InboundOK, DiskOK
      <4>3. got'[f] = {}  BY <1>0, <4>1 DEF InboundOK
      <4> QED  BY <2>0, <4>1, <4>2, <4>3
    <3>3. ASSUME NEW f \in Files, EndInbound(f, "canceled") \/ EndInbound(f, "failed")
                   \/ EndInbound(f, "complete"),
                 final' = final, \A g \in Files \ {f} : part'[g] = part[g]
          PROVE Goal
      <4>1. has' = [has EXCEPT ![f] = FALSE] /\ got' = [got EXCEPT ![f] = {}]
        BY <3>3 DEF EndInbound
      <4>2. \A g \in Files : g # f => has'[g] = has[g] /\ got'[g] = got[g] /\ part'[g] = part[g]
        BY <1>0, <3>3, <4>1 DEF InboundOK
      <4>3. ~has'[f]  BY <1>0, <4>1 DEF InboundOK
      <4> QED  BY <2>0, <3>3, <4>2, <4>3
    <3>4. ASSUME NEW f \in Files, Ends(f) \/ CancelInbound(f)  PROVE Goal
      <4>1. CASE Ends(f)  BY <3>3, <4>1 DEF Ends, disk
      <4>2. CASE CancelInbound(f)
        <5>1. EndInbound(f, "canceled") /\ final' = final /\ part' = [part EXCEPT ![f] = <<>>]
          BY <4>2 DEF CancelInbound
        <5>2. \A g \in Files \ {f} : part'[g] = part[g]  BY <1>0, <5>1 DEF DiskOK
        <5> QED  BY <3>3, <5>1, <5>2
      <4> QED  BY <3>4, <4>1, <4>2
    <3>5. ASSUME NEW c \in Conns, HandleFileData(c)  PROVE Goal
      <4> DEFINE m == Head(toR[c])
                 f == m.file
      <4>1. f \in Files  BY <1>0, <3>5, TakenType DEF HandleFileData
      <4>2. /\ got' = [got EXCEPT ![f] = @ \cup {m.n}] /\ UNCHANGED <<has, final>>
            /\ part' = [part EXCEPT ![f] = <<Content(@) \cup {m.n}>>]
        BY <3>5 DEF HandleFileData
      <4> HIDE DEF m, f
      <4>3. \A g \in Files : g # f => got'[g] = got[g] /\ part'[g] = part[g]
        BY <1>0, <4>2 DEF InboundOK, DiskOK
      <4>4. got'[f] = got[f] \cup {m.n} /\ Content(part'[f]) = Content(part[f]) \cup {m.n}
        BY <1>0, <4>1, <4>2, Contents DEF InboundOK, DiskOK
      <4> QED  BY <2>0, <4>2, <4>3, <4>4
    <3>6. ASSUME NEW c \in Conns, NEW f \in Files,
                 Verifies(c, f) \/ Renames(c, f) \/ Records(c, f)
          PROVE Goal
      <4>1. CASE Verifies(c, f)  BY <2>1, <4>1 DEF Verifies, inbound
      <4>2. CASE Renames(c, f)
        <5>1. /\ part' = [part EXCEPT ![f] = <<>>] /\ final' = [final EXCEPT ![f] = part[f]]
              /\ part[f] # <<>> /\ UNCHANGED <<has, got>>
          BY <4>2 DEF Renames, inbound
        <5>2. final'[f] # <<>> /\ \A g \in Files : g # f => final'[g] = final[g] /\ part'[g] = part[g]
          BY <1>0, <5>1 DEF DiskOK
        <5> QED  BY <2>0, <5>1, <5>2
      <4>3. CASE Records(c, f)  BY <3>3, <4>3 DEF Records, disk
      <4> QED  BY <3>6, <4>1, <4>2, <4>3
    <3>7. CASE ReceiverRestart
      <4> DEFINE S == {f \in Files : Resumable(rcp, rrow, f)}
      <4>1. /\ has' = [f \in Files |-> f \in S]
            /\ got' = [f \in Files |-> IF f \in S THEN 0 .. rcp[f][1] - 1 ELSE {}]
            /\ part' = [f \in Files |-> IF f \in S THEN Created(part[f]) ELSE part[f]]
            /\ final' = final
        BY <3>7 DEF ReceiverRestart
      <4>2. ASSUME NEW f \in S  PROVE Counted(f)'
        <5>1. has[f] /\ Below(rcp[f][1]) \subseteq got[f]  BY DEF ReceiverInv, Resumable
        <5>2. got'[f] = Below(rcp[f][1]) /\ Content(part'[f]) = Content(part[f])
          BY <4>1, Contents DEF Below
        <5> QED  BY <2>0, <4>1, <5>1, <5>2
      <4>3. ASSUME NEW f \in Files \ S  PROVE Counted(f)'
        BY <4>1
      <4> QED  BY <4>2, <4>3
    <3> QED  BY <2>2, <3>1, <3>2, <3>4, <3>5, <3>6, <3>7, Effects
  <2>3. SenderStep \/ UNCHANGED vars => UNCHANGED <<has, got, disk>>
    BY OneSide, Zenon DEF receiverVars, inbound, vars
  <2>4. Goal  BY <2>1, <2>2, <2>3, OneSide
  <2> QED  BY <2>4
\* Where the sender goes on from, and its checkpoint, are kept.
<1>2. /\ \A f \in Files : Kept(f, Below(out'[f].next))
      /\ \A f \in Files : scp'[f] # <<>> => Kept(f, Below(scp'[f][1]))
  <2> DEFINE Goal == /\ \A f \in Files : Kept(f, Below(out'[f].next))
                     /\ \A f \in Files : scp'[f] # <<>> => Kept(f, Below(scp'[f][1]))
  <2>0. \A f \in Files : Kept(f, Below(0))  BY DEF Kept, Below
  <2>1. ASSUME \A f \in Files : out'[f].next = out[f].next \/ out'[f].next = 0,
               \A f \in Files : scp'[f] = scp[f] \/ scp'[f] = <<>>
        PROVE Goal
    BY <2>0, <2>1 DEF DiskInv
  <2>2. ASSUME NEW f \in Files, TakeAccepted(f)  PROVE Goal
    <3> DEFINE e == Head(events[f])
               first == IF out[f].next > e.n THEN out[f].next ELSE e.n
    <3>1. /\ out' = [out EXCEPT ![f].next = first] /\ scp' = [scp EXCEPT ![f] = <<first>>]
          /\ events[f] # <<>> /\ Matches(f, e) /\ run[f] = "await" /\ e.status = "accepted"
      BY <2>2 DEF TakeAccepted, Take
    <3>2. e \in Members(events[f])  BY <1>0, <3>1, TailMembers DEF LinkOK
    <3>3. Kept(f, Below(e.n))  BY <3>1, <3>2 DEF DiskInv, MessageKept, Matches
    <3>4. Kept(f, Below(first))  BY <3>3 DEF DiskInv
    <3> HIDE DEF first
    <3>5. out'[f].next = first /\ \A g \in Files : g # f => out'[g].next = out[g].next
      BY <1>0, <3>1 DEF RunOK, Outbound
    <3>6. scp'[f] = <<first>> /\ \A g \in Files : g # f => scp'[g] = scp[g]
      BY <1>0, <3>1 DEF RowsOK
    <3> QED  BY <3>4, <3>5, <3>6 DEF DiskInv
  <2>3. ASSUME NEW f \in Files, TakeAck(f)  PROVE Goal
    <3> DEFINE e == Head(events[f])
               next == out[f].next + 1
    <3>1. /\ out' = [out EXCEPT ![f].next = next]
          /\ scp' = [scp EXCEPT ![f] = Persisted(@, next, OutEvery)]
          /\ events[f] # <<>> /\ Matches(f, e) /\ run[f] = "ack" /\ e.status = "chunk_ack"
      BY <2>3 DEF TakeAck, Take
    <3>2. e \in Members(events[f])  BY <1>0, <3>1, TailMembers DEF LinkOK
    <3>3. e.type = "response" /\ e.n = out[f].next  BY <3>1 DEF Matches
    <3>4. Kept(f, {out[f].next}) /\ Kept(f, Below(out[f].next))
      BY <3>1, <3>2, <3>3 DEF DiskInv, MessageKept
    <3>5. Below(next) = Below(out[f].next) \cup {out[f].next}
      <4>1. out[f].next \in Nat  BY <1>0, Bounds DEF RunOK, Outbound
      <4> QED  BY <4>1 DEF Below
    <3>6. Kept(f, Below(next))  BY <3>4, <3>5, KeptUnion
    <3> HIDE DEF next
    <3>7. out'[f].next = next /\ \A g \in Files : g # f => out'[g].next = out[g].next
      BY <1>0, <3>1 DEF RunOK, Outbound
    <3>8. /\ scp'[f] = scp[f] \/ scp'[f] = <<next>>
          /\ \A g \in Files : g # f => scp'[g] = scp[g]
      BY <1>0, <3>1 DEF RowsOK, Persisted
    <3> QED  BY <3>6, <3>7, <3>8 DEF DiskInv
  <2>4. CASE SenderRestart
    <3> DEFINE S == {f \in Files : Resumable(scp, srow, f)}
    <3>1. /\ scp' = [f \in Files |-> IF f \in S THEN scp[f] ELSE <<>>]
          /\ out' = [f \in Files |-> IF f \in S THEN Transfer(scp[f][1]) ELSE NoTransfer]
      BY <2>4 DEF SenderRestart
    <3>2. \A k : Transfer(k).next = k  BY DEF Transfer
    <3>3. NoTransfer.next = 0  BY DEF NoTransfer, Transfer
    <3>4. \A f \in S : scp[f] # <<>>  BY DEF Resumable
    <3> HIDE DEF S
    <3> QED  BY <2>0, <3>1, <3>2, <3>3, <3>4 DEF DiskInv
  <2>5. ASSUME NEW f \in Files, SendFile(f) \/ RetryTransfer(f)  PROVE Goal
    <3>1. /\ out' = [out EXCEPT ![f] = Transfer(0)]
          /\ scp' = scp \/ scp' = [scp EXCEPT ![f] = <<>>]
      BY <2>5 DEF SendFile, RetryTransfer
    <3>2. \A g \in Files : out'[g] = out[g] \/ out'[g] = Transfer(0)  BY <1>0, <3>1 DEF RunOK
    <3>3. Transfer(0).next = 0  BY DEF Transfer
    <3>4. \A g \in Files : scp'[g] = scp[g] \/ scp'[g] = <<>>  BY <1>0, <3>1 DEF RowsOK
    <3> QED  BY <2>1, <3>2, <3>3, <3>4
  <2>6. ASSUME NEW f \in Files, RunStep(f), ~TakeAccepted(f), ~TakeAck(f)  PROVE Goal
    <3>1. scp' = scp \/ scp' = [scp EXCEPT ![f] = <<>>]
      BY <2>6, Zenon
      DEF RunStep, CheckStart, BeginOutboundFileTransfer, SendFileRequest, DropEvent,
          TakeRejected, SendChunk, TakeNack, SendFileComplete, TakeVerdict, Interrupted,
          Timeout, CaptureOutcome, RequeuePending, RecordCanceled, FinishRun, rows
    <3>2. \A g \in Files : scp'[g] = scp[g] \/ scp'[g] = <<>>  BY <1>0, <3>1 DEF RowsOK
    <3>3. CASE UNCHANGED out  BY <2>1, <3>2, <3>3
    <3>4. CASE \/ BeginOutboundFileTransfer(f) \/ TakeRejected(f, "await")
               \/ TakeRejected(f, "ack") \/ TakeVerdict(f) \/ CaptureOutcome(f)
      <4>1. \A g \in Files : out'[g].next = out[g].next
        <5>1. CASE BeginOutboundFileTransfer(f) \/ CaptureOutcome(f)
          <6>1. \E b \in BOOLEAN : out' = out \/ out' = [out EXCEPT ![f].running = b]
            BY <5>1 DEF BeginOutboundFileTransfer, CaptureOutcome
          <6> QED  BY <1>0, <6>1 DEF RunOK, Outbound
        <5>2. CASE TakeRejected(f, "await") \/ TakeRejected(f, "ack")
          <6>1. \E b : out' = [out EXCEPT ![f].rejected = TRUE, ![f].canceled = b]
            BY <5>2 DEF TakeRejected
          <6> QED  BY <1>0, <6>1 DEF RunOK, Outbound
        <5>3. CASE TakeVerdict(f)
          <6>1. \E b, d : out' = [out EXCEPT ![f].done = TRUE, ![f].running = b, ![f].canceled = d]
            BY <5>3 DEF TakeVerdict
          <6> QED  BY <1>0, <6>1 DEF RunOK, Outbound
        <5> QED  BY <3>4, <5>1, <5>2, <5>3
      <4> QED  BY <2>1, <3>2, <4>1
    <3>5. UNCHANGED out \/ BeginOutboundFileTransfer(f) \/ TakeRejected(f, "await")
               \/ TakeRejected(f, "ack") \/ TakeVerdict(f) \/ CaptureOutcome(f)
      BY <2>6, Zenon
      DEF RunStep, CheckStart, SendFileRequest, DropEvent, SendChunk, TakeNack,
          SendFileComplete, Interrupted, Timeout, RequeuePending, RecordCanceled, FinishRun
    <3> QED  BY <3>3, <3>4, <3>5
  <2>7. ASSUME NEW f \in Files, CancelRunning(f) \/ CancelQueued(f) \/ CancelForgotten(f)
        PROVE Goal
    <3>1. \A g \in Files : out'[g].next = out[g].next
      <4>1. CASE CancelRunning(f)
        <5>1. out' = [out EXCEPT ![f].canceled = TRUE]  BY <4>1 DEF CancelRunning
        <5> QED  BY <1>0, <5>1 DEF RunOK, Outbound
      <4>2. CASE CancelQueued(f)
        <5>1. out' = [out EXCEPT ![f].canceled = TRUE, ![f].done = TRUE]  BY <4>2 DEF CancelQueued
        <5> QED  BY <1>0, <5>1 DEF RunOK, Outbound
      <4>3. CASE CancelForgotten(f)  BY <4>3 DEF CancelForgotten
      <4> QED  BY <2>7, <4>1, <4>2, <4>3
    <3>2. scp' = scp \/ scp' = [scp EXCEPT ![f] = <<>>]
      BY <2>7 DEF CancelRunning, CancelQueued, CancelForgotten, rows
    <3>3. \A g \in Files : scp'[g] = scp[g] \/ scp'[g] = <<>>  BY <1>0, <3>2 DEF RowsOK
    <3> QED  BY <2>1, <3>1, <3>3
  <2>8. ASSUME NEW c \in Conns, SenderLoop(c)  PROVE Goal
    <3>1. CASE HandleFileResponse(c)
      BY <2>1, <3>1 DEF HandleFileResponse, rows
    <3>2. CASE HandleVerdict(c)
      <4> DEFINE f == Head(toS[c]).file
      <4>1. /\ out' = out \/ out' = [out EXCEPT ![f].done = TRUE, ![f].running = FALSE]
            /\ scp' = scp \/ scp' = [scp EXCEPT ![f] = <<>>]
        BY <3>2 DEF HandleVerdict
      <4> HIDE DEF f
      <4>2. \A g \in Files : out'[g].next = out[g].next
        <5>1. out \in [Files -> Outbound]  BY <1>0 DEF RunOK
        <5>2. \A g \in Files : out'[g] = out[g] \/ out'[g] = [out[g] EXCEPT !.done = TRUE, !.running = FALSE]
          BY <4>1, <5>1
        <5> QED  BY <5>1, <5>2 DEF Outbound
      <4>3. \A g \in Files : scp'[g] = scp[g] \/ scp'[g] = <<>>  BY <1>0, <4>1 DEF RowsOK
      <4> QED  BY <2>1, <4>2, <4>3
    <3> QED  BY <2>8, <3>1, <3>2 DEF SenderLoop
  <2>9. Connect \/ Disconnect \/ ReceiverStep \/ UNCHANGED vars => UNCHANGED <<out, scp>>
    BY OneSide, Zenon DEF Connect, Disconnect, senderVars, vars, rows
  <2>10. Goal
    BY <2>1, <2>2, <2>3, <2>4, <2>5, <2>6, <2>7, <2>8, <2>9, OneSide DEF SenderStep
  <2> QED  BY <2>10
<1>3. \A f \in Files : \A e \in Members(events'[f]) : e.file = f /\ MessageKept(e)'
  <2> SUFFICES ASSUME NEW f \in Files, NEW e \in Members(events'[f])
               PROVE  e.file = f /\ MessageKept(e)'
    OBVIOUS
  <2>1. e.file = f /\ MessageKept(e)  BY NewEvents DEF DiskInv
  <2> QED  BY <1>m, <2>1
<1>4. \A c \in Conns : \A m \in Members(toS'[c]) : MessageKept(m)'
  <2> SUFFICES ASSUME NEW c \in Conns, NEW m \in Members(toS'[c])  PROVE MessageKept(m)'
    OBVIOUS
  <2>0. m.file \in Files
    <3>1. toS' \in [Conns -> Seq(ToSender)]  BY NextType DEF Typed, TypeOK, LinkOK
    <3>2. m \in ToSender  BY <3>1 DEF Members
    <3> QED  BY <3>2, SenderMessage
  <2>1. CASE m \in Members(toS[c])
    <3>1. MessageKept(m)  BY <2>1 DEF DiskInv
    <3> QED  BY <1>m, <2>0, <3>1
  <2>2. CASE Founded(m)
    <3>1. m.type = "response" /\ m.status = "accepted" => Kept(m.file, Below(m.n))'
      <4>1. Kept(m.file, Below(0))'  BY DEF Kept, Below
      <4>2. ASSUME has[m.file], m.n = NextChunk(got[m.file])
            PROVE  Kept(m.file, Below(m.n))'
        <5>1. Below(m.n) \subseteq got[m.file]
          BY <1>0, <2>0, <4>2, NextChunkType DEF InboundOK, Below
        <5>2. Kept(m.file, Below(m.n))  BY <2>0, <4>2, <5>1 DEF DiskInv, Kept
        <5> QED  BY <1>k, <2>0, <5>2
      <4> QED  BY <2>2, <4>1, <4>2 DEF Founded
    <3>2. m.type = "response" /\ m.status = "chunk_ack" => Kept(m.file, {m.n})'
      BY <2>2 DEF Founded, Kept
    <3> QED  BY <3>1, <3>2 DEF MessageKept
  <2> QED  BY <2>1, <2>2, NewMessages
<1>5. /\ \A f \in Files : Kept(f, Below(out[f].next))'
      /\ \A f \in Files : scp'[f] # <<>> => Kept(f, Below(scp[f][1]))'
  BY <1>2, <1>k DEF Kept
<1> QED  BY <1>1, <1>3, <1>4, <1>5 DEF DiskInv

-----------------------------------------------------------------------------
(* What is reported complete is delivered.                                 *)

\* The finished file is whole, unless it was accepted anew while it was being finished.
Whole(f) == f \in raced \/ final[f] = <<Chunks>>
MessageTrue(m) == m.type = "complete" /\ m.status = "complete" => Whole(m.file)

DeliveredInv ==
  /\ \A f \in Files : "complete" \in {srow[f], rrow[f]} => Whole(f)
  /\ \A f \in Files : f \in raced \/ final[f] \in {<<>>, <<Chunks>>}
  /\ \A f \in Files : \A e \in Members(events[f]) : MessageTrue(e)
  /\ \A c \in Conns : \A m \in Members(toS[c]) : MessageTrue(m)
  /\ \A c \in Conns, f \in Files :
       /\ rpc[c] = <<"rename", f>> => f \in raced \/ part[f] \in {<<>>, <<Chunks>>}
       /\ rpc[c] = <<"record", f>> => Whole(f)

\* What the receiver has put in place is whole, and stays so.
LEMMA ReceiverDelivers ==
  ASSUME Typed, DeliveredInv, [Next]_vars
  PROVE  /\ \A f \in Files : Whole(f) => Whole(f)'
         /\ \A f \in Files : f \in raced' \/ final'[f] \in {<<>>, <<Chunks>>}
         /\ \A f \in Files : rrow'[f] = "complete" => Whole(f)'
         /\ \A c \in Conns, f \in Files :
              /\ rpc'[c] = <<"rename", f>> => f \in raced' \/ part'[f] \in {<<>>, <<Chunks>>}
              /\ rpc'[c] = <<"record", f>> => Whole(f)'
<1> DEFINE Goal == /\ \A f \in Files : Whole(f) => Whole(f)'
                   /\ \A f \in Files : f \in raced' \/ final'[f] \in {<<>>, <<Chunks>>}
                   /\ \A f \in Files : rrow'[f] = "complete" => Whole(f)'
                   /\ \A c \in Conns, f \in Files :
                        /\ rpc'[c] = <<"rename", f>> => f \in raced' \/ part'[f] \in {<<>>, <<Chunks>>}
                        /\ rpc'[c] = <<"record", f>> => Whole(f)'
<1>0. InboundOK /\ DiskOK /\ LinkOK  BY DEF Typed, TypeOK
<1>p. rpc \in [Conns -> {<<>>} \cup ({"rename", "record"} \X Files)]  BY <1>0 DEF LinkOK
<1>n. <<"rename", 0>>[1] # <<"record", 0>>[1]  OBVIOUS
\* Nothing but rows that do not say complete, or handlers that end.
<1>1. ASSUME UNCHANGED disk,
             \A f \in Files : rrow'[f] = "complete" => Whole(f),
             \A c \in Conns : rpc'[c] = rpc[c] \/ rpc'[c] = <<>>
      PROVE  Goal
  <2>1. \A f : Whole(f) => Whole(f)'  BY <1>1 DEF Whole, disk
  <2>2. \A c \in Conns, f \in Files :
          /\ rpc'[c] = <<"rename", f>> => rpc[c] = <<"rename", f>>
          /\ rpc'[c] = <<"record", f>> => rpc[c] = <<"record", f>>
    <3>1. \A x, f : <<x, f>> # <<>>  OBVIOUS
    <3> QED  BY <1>1, <3>1
  <2> QED  BY <1>1, <2>1, <2>2 DEF DeliveredInv, disk
<1>2. CASE SenderStep \/ UNCHANGED vars
  <2>1. UNCHANGED receiverVars  BY <1>2, OneSide, Zenon DEF vars
  <2> QED  BY <1>1, <2>1 DEF receiverVars, inbound, DeliveredInv
<1>3. ASSUME ReceiverStep  PROVE Goal
  <2>1. CASE Quietly
    <3>1. UNCHANGED <<disk, rpc>> /\ \A f \in Files : rrow'[f] = "complete" => Whole(f)
      BY <2>1 DEF Quietly, DeliveredInv
    <3> QED  BY <1>1, <3>1
  <2>2. ASSUME NEW f \in Files, Opens(f)  PROVE Goal
    <3>1. /\ part' = [part EXCEPT ![f] = Created(@)] /\ rrow' = [rrow EXCEPT ![f] = "accepted"]
          /\ raced' = IF Finishing(f) THEN raced \cup {f} ELSE raced
          /\ final' = final /\ rpc' = rpc
      BY <2>2 DEF Opens, Accept
    <3>2. \A g : Whole(g) => Whole(g)'  BY <3>1 DEF Whole
    <3>3. \A g \in Files : rrow'[g] = "complete" => rrow[g] = "complete"
      BY <1>0, <3>1 DEF InboundOK
    <3>4. ASSUME NEW c \in Conns, NEW g \in Files, rpc[c] = <<"rename", g>>
          PROVE  g \in raced' \/ part'[g] \in {<<>>, <<Chunks>>}
      <4>1. CASE g = f
        <5>1. rpc[c] # <<>> /\ rpc[c][2] = f  BY <3>4, <4>1
        <5>2. Finishing(f)  BY <5>1 DEF Finishing
        <5> QED  BY <3>1, <4>1, <5>2
      <4>2. CASE g # f
        <5>1. part'[g] = part[g]  BY <1>0, <3>1, <4>2 DEF DiskOK
        <5> QED  BY <3>1, <3>4, <5>1 DEF DeliveredInv
      <4> QED  BY <4>1, <4>2
    <3> QED  BY <3>1, <3>2, <3>3, <3>4 DEF DeliveredInv
  <2>3. ASSUME NEW f \in Files, Ends(f)  PROVE Goal
    <3>1. \A g \in Files : rrow'[g] = "complete" => rrow[g] = "complete"
      BY <1>0, <2>3 DEF Ends, EndInbound, InboundOK
    <3>2. \A c \in Conns : rpc'[c] = rpc[c] \/ rpc'[c] = <<>>  BY <1>p, <2>3 DEF Ends
    <3>3. UNCHANGED disk  BY <2>3 DEF Ends
    <3> QED  BY <1>1, <3>1, <3>2, <3>3 DEF DeliveredInv
  <2>4. ASSUME NEW f \in Files, CancelInbound(f)  PROVE Goal
    <3>1. /\ part' = [part EXCEPT ![f] = <<>>] /\ rrow' = [rrow EXCEPT ![f] = "canceled"]
          /\ UNCHANGED <<final, raced, rpc>>
      BY <2>4 DEF CancelInbound, EndInbound
    <3>2. \A g \in Files : rrow'[g] = "complete" => rrow[g] = "complete"
      BY <1>0, <3>1 DEF InboundOK
    <3>3. \A g \in Files : part'[g] = part[g] \/ part'[g] = <<>>  BY <1>0, <3>1 DEF DiskOK
    <3>4. \A g : Whole(g) => Whole(g)'  BY <3>1 DEF Whole
    <3> QED  BY <3>1, <3>2, <3>3, <3>4 DEF DeliveredInv
  <2>5. ASSUME NEW c \in Conns, HandleFileData(c)  PROVE Goal
    <3> DEFINE m == Head(toR[c])
               f == m.file
    <3>1. f \in Files /\ m.n \in Chunks
      BY <1>0, <2>5, TakenType, ReceiverMessage DEF HandleFileData
    <3>2. /\ part' = [part EXCEPT ![f] = <<Content(@) \cup {m.n}>>] /\ part[f] # <<>>
          /\ UNCHANGED <<final, raced, rrow, rpc>>
      BY <2>5 DEF HandleFileData
    <3> HIDE DEF m, f
    <3>3. ASSUME NEW g \in Files, part[g] \in {<<>>, <<Chunks>>}
          PROVE  part'[g] \in {<<>>, <<Chunks>>}
      <4>1. CASE g = f
        <5>1. Content(part[f]) = Chunks  BY <3>2, <3>3, <4>1, Contents
        <5>2. Content(part[f]) \cup {m.n} = Chunks  BY <3>1, <5>1
        <5>3. part'[f] = <<Content(part[f]) \cup {m.n}>>  BY <1>0, <3>1, <3>2 DEF DiskOK
        <5> QED  BY <4>1, <5>2, <5>3
      <4>2. CASE g # f  BY <1>0, <3>2, <3>3, <4>2 DEF DiskOK
      <4> QED  BY <4>1, <4>2
    <3>4. \A g : Whole(g) => Whole(g)'  BY <3>2 DEF Whole
    <3> QED  BY <3>2, <3>3, <3>4 DEF DeliveredInv
  <2>6. ASSUME NEW c \in Conns, NEW f \in Files, Verifies(c, f)  PROVE Goal
    <3>1. /\ Content(part[f]) = Chunks /\ rpc' = [rpc EXCEPT ![c] = <<"rename", f>>]
          /\ UNCHANGED <<rrow, part, final, raced>>
      BY <2>6 DEF Verifies, ChecksumMatches, inbound, disk
    <3>2. part[f] = <<Chunks>>
      <4>1. Chunks # {}  BY Bounds DEF Chunks
      <4>2. part[f] \in Option(SUBSET Chunks)  BY <1>0 DEF DiskOK
      <4> QED  BY <3>1, <4>1, <4>2, Contents DEF Option, Content
    <3>3. \A g : Whole(g) => Whole(g)'  BY <3>1 DEF Whole
    <3>4. ASSUME NEW d \in Conns, NEW g \in Files
          PROVE  /\ rpc'[d] = <<"rename", g>> => rpc[d] = <<"rename", g>> \/ g = f
                 /\ rpc'[d] = <<"record", g>> => rpc[d] = <<"record", g>>
      <4>1. rpc'[d] = rpc[d] \/ rpc'[d] = <<"rename", f>>  BY <1>p, <3>1
      <4> QED  BY <4>1
    <3> QED  BY <3>1, <3>2, <3>3, <3>4 DEF DeliveredInv
  <2>7. ASSUME NEW c \in Conns, NEW f \in Files, Renames(c, f)  PROVE Goal
    <3>1. /\ rpc[c] = <<"rename", f>> /\ part[f] # <<>>
          /\ part' = [part EXCEPT ![f] = <<>>] /\ final' = [final EXCEPT ![f] = part[f]]
          /\ rpc' = [rpc EXCEPT ![c] = <<"record", f>>]
          /\ UNCHANGED <<rrow, raced>>
      BY <2>7 DEF Renames, inbound
    <3>2. f \in raced \/ part[f] = <<Chunks>>  BY <3>1 DEF DeliveredInv
    <3>3. final'[f] = part[f] /\ \A g \in Files : g # f => final'[g] = final[g]
      BY <1>0, <3>1 DEF DiskOK
    <3>4. Whole(f)'  BY <3>1, <3>2, <3>3 DEF Whole
    <3>5. \A g \in Files : Whole(g) => Whole(g)'  BY <3>1, <3>3, <3>4 DEF Whole
    <3>6. \A g \in Files : part'[g] = part[g] \/ part'[g] = <<>>  BY <1>0, <3>1 DEF DiskOK
    <3>7. ASSUME NEW d \in Conns, NEW g \in Files
          PROVE  /\ rpc'[d] = <<"rename", g>> => rpc[d] = <<"rename", g>>
                 /\ rpc'[d] = <<"record", g>> => rpc[d] = <<"record", g>> \/ g = f
      <4>1. rpc'[d] = rpc[d] \/ rpc'[d] = <<"record", f>>  BY <1>p, <3>1
      <4> QED  BY <4>1
    <3>8. \A g \in Files : g \in raced' \/ final'[g] \in {<<>>, <<Chunks>>}
      BY <3>1, <3>2, <3>3 DEF DeliveredInv
    <3>9. \A g \in Files : rrow'[g] = "complete" => Whole(g)'  BY <3>1, <3>5 DEF DeliveredInv
    <3>10. \A d \in Conns, g \in Files :
             /\ rpc'[d] = <<"rename", g>> => g \in raced' \/ part'[g] \in {<<>>, <<Chunks>>}
             /\ rpc'[d] = <<"record", g>> => Whole(g)'
      BY <3>1, <3>4, <3>5, <3>6, <3>7 DEF DeliveredInv
    <3> QED  BY <3>5, <3>8, <3>9, <3>10
  <2>8. ASSUME NEW c \in Conns, NEW f \in Files, Records(c, f)  PROVE Goal
    <3>1. /\ rpc[c] = <<"record", f>> /\ rpc' = [rpc EXCEPT ![c] = <<>>]
          /\ rrow' = [rrow EXCEPT ![f] = "complete"] /\ UNCHANGED disk
      BY <2>8 DEF Records, EndInbound
    <3>2. \A g \in Files : rrow'[g] = "complete" => rrow[g] = "complete" \/ g = f
      BY <1>0, <3>1 DEF InboundOK
    <3>3. \A d \in Conns : rpc'[d] = rpc[d] \/ rpc'[d] = <<>>  BY <1>p, <3>1
    <3>4. \A g \in Files : rrow'[g] = "complete" => Whole(g)  BY <3>1, <3>2 DEF DeliveredInv
    <3> QED  BY <1>1, <3>1, <3>3, <3>4
  <2>9. CASE ReceiverRestart
    <3>1. rpc' = [c \in Conns |-> <<>>] /\ UNCHANGED <<rrow, final, raced>>
      BY <2>9 DEF ReceiverRestart
    <3>2. \A g : Whole(g) => Whole(g)'  BY <3>1 DEF Whole
    <3>3. \A c \in Conns : \A x, f : rpc'[c] # <<x, f>>  BY <3>1
    <3> QED  BY <3>1, <3>2, <3>3 DEF DeliveredInv
  <2> HIDE DEF Goal
  <2> QED  BY <1>3, <2>1, <2>2, <2>3, <2>4, <2>5, <2>6, <2>7, <2>8, <2>9, Effects
<1> QED  BY <1>2, <1>3, OneSide

\* The sender's row says complete only of an answer that does.
LEMMA SenderRows ==
  ASSUME Typed, [Next]_vars, NEW f \in Files, srow'[f] = "complete"
  PROVE  \/ srow[f] = "complete"
         \/ \E m \in Members(events[f]) : m.type = "complete" /\ m.status = "complete"
         \/ \E c \in Conns : \E m \in Members(toS[c]) :
              m.file = f /\ m.type = "complete" /\ m.status = "complete"
<1> DEFINE Goal ==
      \/ srow[f] = "complete"
      \/ \E m \in Members(events[f]) : m.type = "complete" /\ m.status = "complete"
      \/ \E c \in Conns : \E m \in Members(toS[c]) :
           m.file = f /\ m.type = "complete" /\ m.status = "complete"
<1>0. LinkOK /\ srow \in [Files -> Status]  BY DEF Typed, TypeOK, RowsOK
<1>1. CASE UNCHANGED srow  BY <1>1
<1>2. ASSUME NEW g \in Files, NEW s, s # "complete", srow' = [srow EXCEPT ![g] = s]
      PROVE  Goal
  <2>1. srow'[f] = srow[f] \/ srow'[f] = s  BY <1>0, <1>2
  <2> QED  BY <1>2, <2>1
<1>3. ASSUME NEW g \in Files, TakeVerdict(g)  PROVE Goal
  <2> DEFINE e == Head(events[g])
  <2>1. /\ srow' = [srow EXCEPT ![g] = e.status] /\ events[g] # <<>>
        /\ Matches(g, e) /\ run[g] = "verdict"
    BY <1>3 DEF TakeVerdict, Take
  <2>2. e.type = "complete"  BY <2>1 DEF Matches
  <2>3. e \in Members(events[g])  BY <1>0, <2>1, TailMembers DEF LinkOK
  <2>4. srow'[f] = srow[f] \/ (g = f /\ srow'[f] = e.status)  BY <1>0, <2>1
  <2> QED  BY <2>2, <2>3, <2>4
<1>4. ASSUME NEW c \in Conns, SenderLoop(c)  PROVE Goal
  <2>1. CASE HandleFileResponse(c)  BY <1>1, <2>1 DEF HandleFileResponse, rows
  <2>2. CASE HandleVerdict(c)
    <3> DEFINE m == Head(toS[c])
    <3>1. toS[c] # <<>> /\ m.type = "complete"  BY <2>2 DEF HandleVerdict, ReceiveAtSender
    <3>2. m \in Members(toS[c])  BY <1>0, <3>1, TailMembers DEF LinkOK
    <3>3. srow' = srow \/ srow' = [srow EXCEPT ![m.file] = m.status]  BY <2>2 DEF HandleVerdict
    <3>4. srow'[f] = srow[f] \/ (m.file = f /\ srow'[f] = m.status)  BY <1>0, <3>3
    <3> QED  BY <3>1, <3>2, <3>4
  <2> QED  BY <1>4, <2>1, <2>2 DEF SenderLoop
<1>5. ASSUME NEW g \in Files, RunStep(g), ~TakeVerdict(g)  PROVE Goal
  <2>1. \/ UNCHANGED srow
        \/ \E s \in {"accepted", "pending", "rejected", "canceled"} : srow' = [srow EXCEPT ![g] = s]
    BY <1>5, Zenon
    DEF RunStep, CheckStart, BeginOutboundFileTransfer, SendFileRequest, DropEvent, TakeAccepted,
        TakeRejected, SendChunk, TakeAck, TakeNack, SendFileComplete, Interrupted, Take,
        Timeout, CaptureOutcome, RequeuePending, RecordCanceled, FinishRun, rows
  <2> QED  BY <1>1, <1>2, <2>1
<1>6. ASSUME NEW g \in Files,
             SendFile(g) \/ CancelRunning(g) \/ CancelQueued(g) \/ CancelForgotten(g)
               \/ RetryTransfer(g)
      PROVE  Goal
  <2>1. UNCHANGED srow \/ \E s \in {"pending", "canceled"} : srow' = [srow EXCEPT ![g] = s]
    BY <1>6, Zenon DEF SendFile, CancelRunning, CancelQueued, CancelForgotten, RetryTransfer, rows
  <2> QED  BY <1>1, <1>2, <2>1
<1>7. Connect \/ Disconnect \/ SenderRestart \/ ReceiverStep \/ UNCHANGED vars => UNCHANGED srow
  BY OneSide, Zenon DEF Connect, Disconnect, SenderRestart, senderVars, vars, rows
<1> QED  BY <1>1, <1>3, <1>4, <1>5, <1>6, <1>7, OneSide DEF SenderStep

\* A file accepted anew while it was being finished is remembered as such.
LEMMA RacedGrows ==
  ASSUME Typed, [Next]_vars
  PROVE  raced \subseteq raced'
<1>1. CASE SenderStep \/ UNCHANGED vars
  <2>1. UNCHANGED receiverVars  BY <1>1, OneSide, Zenon DEF vars
  <2> QED  BY <2>1 DEF receiverVars, disk
<1>2. CASE ReceiverStep
  <2>1. CASE Quietly  BY <2>1 DEF Quietly, disk
  <2>2. ASSUME NEW f \in Files, Opens(f) \/ Ends(f) \/ CancelInbound(f)
        PROVE raced \subseteq raced'
    BY <2>2 DEF Opens, Accept, Ends, CancelInbound, disk
  <2>3. ASSUME NEW c \in Conns, HandleFileData(c)  PROVE raced \subseteq raced'
    BY <2>3 DEF HandleFileData
  <2>4. ASSUME NEW c \in Conns, NEW f \in Files,
               Verifies(c, f) \/ Renames(c, f) \/ Records(c, f)
        PROVE raced \subseteq raced'
    BY <2>4 DEF Verifies, Renames, Records, disk
  <2>5. CASE ReceiverRestart  BY <2>5 DEF ReceiverRestart
  <2> QED  BY <1>2, <2>1, <2>2, <2>3, <2>4, <2>5, Effects
<1> QED  BY <1>1, <1>2, OneSide

\* A row becomes complete only when the whole file is on the disk.
LEMMA DeliveredInvNext ==
  ASSUME Typed, DeliveredInv, DiskInv, [Next]_vars
  PROVE  DeliveredInv'
<1>1. \A f \in Files : "complete" \in {srow'[f], rrow'[f]} => Whole(f)'
  <2> SUFFICES ASSUME NEW f \in Files, srow'[f] = "complete"  PROVE Whole(f)'
    BY ReceiverDelivers
  <2>1. Whole(f)
    <3>1. CASE srow[f] = "complete"  BY <3>1 DEF DeliveredInv
    <3>2. ASSUME NEW m \in Members(events[f]), m.type = "complete", m.status = "complete"
          PROVE Whole(f)
      BY <3>2 DEF DeliveredInv, DiskInv, MessageTrue
    <3>3. ASSUME NEW c \in Conns, NEW m \in Members(toS[c]),
                 m.file = f, m.type = "complete", m.status = "complete"
          PROVE Whole(f)
      BY <3>3 DEF DeliveredInv, MessageTrue
    <3> QED  BY <3>1, <3>2, <3>3, SenderRows
  <2> QED  BY <2>1, ReceiverDelivers
<1>2. \A m : m.file \in Files /\ MessageTrue(m) => MessageTrue(m)'
  BY ReceiverDelivers DEF MessageTrue
<1>3. \A f \in Files : \A e \in Members(events'[f]) : MessageTrue(e)'
  <2> SUFFICES ASSUME NEW f \in Files, NEW e \in Members(events'[f])  PROVE MessageTrue(e)'
    OBVIOUS
  <2>1. e.file = f /\ MessageTrue(e)  BY NewEvents DEF DeliveredInv, DiskInv
  <2> QED  BY <1>2, <2>1
<1>4. \A c \in Conns : \A m \in Members(toS'[c]) : MessageTrue(m)'
  <2> SUFFICES ASSUME NEW c \in Conns, NEW m \in Members(toS'[c])  PROVE MessageTrue(m)'
    OBVIOUS
  <2>0. m.file \in Files
    <3>1. toS' \in [Conns -> Seq(ToSender)]  BY NextType DEF Typed, TypeOK, LinkOK
    <3>2. m \in ToSender  BY <3>1 DEF Members
    <3> QED  BY <3>2, SenderMessage
  <2>1. MessageTrue(m)
    <3>1. CASE m \in Members(toS[c])  BY <3>1 DEF DeliveredInv
    <3>2. CASE Founded(m)  BY <2>0, <3>2 DEF Founded, MessageTrue, DeliveredInv
    <3> QED  BY <3>1, <3>2, NewMessages
  <2> QED  BY <1>2, <2>0, <2>1
<1> QED  BY <1>1, <1>3, <1>4, ReceiverDelivers DEF DeliveredInv, Whole

-----------------------------------------------------------------------------
(* The theorems about the data.                                            *)

\* The invariants about the data hold initially.
LEMMA DataInit == Init => ReceiverInv /\ DiskInv /\ DeliveredInv
<1> SUFFICES ASSUME Init PROVE ReceiverInv /\ DiskInv /\ DeliveredInv
  OBVIOUS
<1>0. Below(0) = {} /\ NoTransfer.next = 0  BY DEF Below, NoTransfer, Transfer
<1>1. ReceiverInv  BY DEF Init, ReceiverInv
<1>2. DiskInv  BY <1>0, EmptyMembers DEF Init, DiskInv, Kept
<1>3. DeliveredInv
  <2>1. \A x, f : <<x, f>> # <<>>  OBVIOUS
  <2> QED  BY <2>1, EmptyMembers DEF Init, DeliveredInv
<1> QED  BY <1>1, <1>2, <1>3

DataInv == Typed /\ ReceiverInv /\ DiskInv /\ DeliveredInv

\* They are inductive together.
LEMMA DataInvHolds == Spec => []DataInv
<1>1. Init => DataInv  BY InitType, DataInit DEF DataInv
<1>2. DataInv /\ [Next]_vars => DataInv'
  <2> SUFFICES ASSUME DataInv, [Next]_vars PROVE DataInv'
    OBVIOUS
  <2> QED  BY NextType, ReceiverInvNext, DiskInvNext, DeliveredInvNext DEF DataInv
<1> QED  BY <1>1, <1>2, PTL DEF Spec

\* A file that either side reports as complete is on the receiver's disk, whole, after
\* any restarts, cancels, retries and late messages, unless it was accepted anew while
\* its handler was between the checksum and the row (handleFileComplete).
THEOREM CompletedIsDelivered == Spec => []CompleteIsDelivered
<1>1. DataInv => CompleteIsDelivered
  BY DEF DataInv, DeliveredInv, CompleteIsDelivered, Whole
<1> QED  BY <1>1, DataInvHolds, PTL

\* A file in place is never replaced by anything but itself, by any step, unless it was
\* accepted anew while a handler was finishing it (handleFileComplete).
THEOREM FinishedFilesStay == Spec => FinishedStays
<1> DEFINE Stays == \A f \in Files \ raced' : final[f] # <<>> => final'[f] = final[f]
<1>1. ASSUME DataInv, [Next]_vars  PROVE Stays
  <2> SUFFICES ASSUME NEW f \in Files, f \notin raced', final[f] # <<>>
               PROVE  final'[f] = final[f]
    OBVIOUS
  <2>1. f \notin raced  BY <1>1, RacedGrows DEF DataInv
  <2>2. final[f] = <<Chunks>>  BY <1>1, <2>1 DEF DataInv, DeliveredInv
  <2>3. Whole(f)'  BY <1>1, <2>2, ReceiverDelivers DEF DataInv, Whole
  <2> QED  BY <2>2, <2>3 DEF Whole
<1>2. DataInv /\ [Next]_vars => [Stays]_vars  BY <1>1
<1> QED  BY <1>2, DataInvHolds, PTL DEF Spec, FinishedStays

\* The chunks below the position from which the sender goes on are in the .part file of
\* a receiver that has neither finished nor deleted it (runOutboundFileTransfer).
THEOREM SkippedChunksOnDisk == Spec => []SkippedIsOnDisk
<1>1. DataInv => SkippedIsOnDisk
  BY DEF DataInv, DiskInv, SkippedIsOnDisk, Kept, Below
<1> QED  BY <1>1, DataInvHolds, PTL

\* The chunks the receiver counts as received, from which it computes where to resume,
\* are in its .part file unless the file is in place (restoreInboundTransfer).
THEOREM ResumedChunksOnDisk == Spec => []ResumeIsOnDisk
<1>1. DataInv => ResumeIsOnDisk  BY DEF DataInv, DiskInv, ResumeIsOnDisk
<1> QED  BY <1>1, DataInvHolds, PTL

-----------------------------------------------------------------------------
(* The slot.                                                               *)

\* What the slot s, the step st of the start and the step r of the run of f say of each
\* other and of the transfer o; l says that a late completion has come between the tests of its start.
SlotOK(f, o, r, s, st, l) ==
  /\ r \in {"request", "send"} \cup Waiting
       => s = <<f>> /\ (o.running \/ o.done) /\ st = "no"
  /\ r = "capture" => o.running \/ o.done
  /\ r # "off" => s = <<f>> \/ o.done
  /\ st # "no" => s = <<f>> \/ o.done
  /\ st # "no" /\ r # "off" => o.done
  /\ o.running => r \in {"request", "send", "capture"} \cup Waiting
  /\ st = "begin" /\ (o.rejected \/ o.canceled) => o.done
  /\ st = "begin" /\ o.done /\ s = <<f>> => l
  /\ s = <<f>> => r # "off" \/ st # "no" \/ l

\* Of a file that has never been sent nothing is under way.
UnsentInv == \A f \in Files :
  srow[f] = "none" =>
    run[f] = "off" /\ start[f] = "no" /\ f \notin Members(queue) /\ scp[f] = <<>>

SlotInv ==
  /\ UnsentInv
  /\ \A f \in Files \ rushed : SlotOK(f, out[f], run[f], slot, start[f], f \in late)

\* The queue after a file has been put in it or taken out.
LEMMA EnqueueMembers ==
  ASSUME NEW q \in Seq(Files), NEW f \in Files, NEW front \in BOOLEAN
  PROVE  Members(Enqueue(q, f, front)) = Members(q) \cup {f}
<1>1. CASE f \in Members(q)  BY <1>1 DEF Enqueue
<1>2. CASE f \notin Members(q) /\ front = FALSE
  <2>1. Enqueue(q, f, front) = Append(q, f)  BY <1>2 DEF Enqueue
  <2> QED  BY <2>1, AppendMembers
<1>3. CASE f \notin Members(q) /\ front = TRUE
  <2> DEFINE r == <<f>> \o q
  <2>1. Enqueue(q, f, front) = r  BY <1>3 DEF Enqueue
  <2>2. Len(r) = Len(q) + 1 /\ r[1] = f  OBVIOUS
  <2>3. \A i \in 1 .. Len(q) : r[i + 1] = q[i]  OBVIOUS
  <2>4. \A i \in 1 .. Len(q) + 1 : i = 1 \/ (i - 1 \in 1 .. Len(q) /\ (i - 1) + 1 = i)  OBVIOUS
  <2>5. \A i \in 1 .. Len(q) : i + 1 \in 1 .. Len(q) + 1  OBVIOUS
  <2>6. 1 \in 1 .. Len(q) + 1  OBVIOUS
  <2> HIDE DEF r
  <2>7. Members(r) \subseteq Members(q) \cup {f}
    <3>1. ASSUME NEW i \in 1 .. Len(q) + 1  PROVE r[i] \in Members(q) \cup {f}
      <4>1. CASE i = 1  BY <2>2, <4>1
      <4>2. CASE i # 1
        <5>1. r[i] = q[i - 1] /\ i - 1 \in 1 .. Len(q)  BY <2>3, <2>4, <4>2
        <5> QED  BY <5>1 DEF Members
      <4> QED  BY <4>1, <4>2
    <3> QED  BY <2>2, <3>1 DEF Members
  <2>8. Members(q) \cup {f} \subseteq Members(r)  BY <2>2, <2>3, <2>5, <2>6 DEF Members
  <2> QED  BY <2>1, <2>7, <2>8
<1> QED  BY <1>1, <1>2, <1>3

\* What is left in the queue was there.
LEMMA DequeueMembers ==
  ASSUME NEW q \in Seq(Files), NEW f
  PROVE  Members(Dequeue(q, f)) \subseteq Members(q)
<1>1. CASE f \notin Members(q)  BY <1>1 DEF Dequeue
<1>2. CASE f \in Members(q)
  <2> DEFINE i == CHOOSE i \in 1 .. Len(q) : q[i] = f
             a == SubSeq(q, 1, i - 1)
             b == SubSeq(q, i + 1, Len(q))
  <2>1. i \in 1 .. Len(q)  BY <1>2 DEF Members
  <2> HIDE DEF i
  <2>2. a \in Seq(Files) /\ Len(a) = i - 1 /\ \A k \in 1 .. i - 1 : a[k] = q[k]
    <3>1. \A k \in 1 .. i - 1 : q[k] \in Files  BY <2>1
    <3> QED  BY <2>1, <3>1, SubSeqProperties
  <2>3. b \in Seq(Files) /\ Len(b) = Len(q) - i /\ \A k \in 1 .. Len(q) - i : b[k] = q[k + i]
    <3>1. \A k \in i + 1 .. Len(q) : q[k] \in Files  BY <2>1
    <3>2. b \in Seq(Files)  BY <2>1, <3>1, SubSeqProperties
    <3>3. Len(b) = Len(q) - i
      <4>1. CASE i + 1 <= Len(q) + 1  BY <2>1, <3>1, <4>1, SubSeqProperties
      <4> QED  BY <2>1, <4>1
    <3>4. \A k \in 1 .. Len(q) - i : b[k] = q[k + i]  BY <2>1
    <3> QED  BY <3>2, <3>3, <3>4
  <2> HIDE DEF a, b
  <2>4. ASSUME NEW k \in 1 .. Len(a \o b)  PROVE (a \o b)[k] \in Members(q)
    <3>1. Len(a \o b) = Len(a) + Len(b)  BY <2>2, <2>3
    <3>2. CASE k <= Len(a)
      <4>1. (a \o b)[k] = a[k]  BY <2>2, <2>3, <3>2
      <4>2. a[k] = q[k] /\ k \in 1 .. Len(q)  BY <2>1, <2>2, <3>2
      <4> QED  BY <4>1, <4>2 DEF Members
    <3>3. CASE k > Len(a)
      <4>1. (a \o b)[k] = b[k - Len(a)]  BY <2>2, <2>3, <3>1, <3>3
      <4>2. k - Len(a) \in 1 .. Len(q) - i /\ k - Len(a) + i \in 1 .. Len(q)
        BY <2>1, <2>2, <2>3, <3>1, <3>3
      <4>3. b[k - Len(a)] = q[k - Len(a) + i]  BY <2>3, <4>2
      <4> QED  BY <4>1, <4>2, <4>3 DEF Members
    <3> QED  BY <2>2, <3>2, <3>3
  <2>5. Dequeue(q, f) = a \o b  BY <1>2 DEF Dequeue, a, b, i
  <2> QED  BY <2>4, <2>5 DEF Members
<1> QED  BY <1>1, <1>2

\* What startNextQueuedTransfer does: nothing, or it gives a free slot to a queued file.
LEMMA StartNextEffect ==
  ASSUME NEW q \in Seq(Files), NEW s, NEW st, NEW c, StartNextQueuedTransfer(q, s, st, c)
  PROVE  /\ Members(queue') \subseteq Members(q)
         /\ \/ slot' = s /\ start' = st
            \/ /\ s = <<>>
               /\ \E g \in Members(q) : slot' = <<g>> /\ start' = [st EXCEPT ![g] = "check"]
<1>1. CASE c = 0 \/ s # <<>> \/ q = <<>>  BY <1>1 DEF StartNextQueuedTransfer
<1>2. CASE ~ (c = 0 \/ s # <<>> \/ q = <<>>)
  BY <1>2, TailMembers DEF StartNextQueuedTransfer
<1> QED  BY <1>1, <1>2

\* A slot that is freed by one file may be given to any other.
LEMMA SlotFreed ==
  ASSUME NEW f, NEW h, f # h, NEW o, NEW r, NEW s, NEW st, NEW l, SlotOK(f, o, r, s, st, l)
  PROVE  SlotOK(f, o, r, FinishOutboundTransfer(s, h), st, l)
<1>1. <<h>> # <<f>> /\ <<>> # <<f>>  OBVIOUS
<1> QED  BY <1>1 DEF SlotOK, FinishOutboundTransfer

\* A file that is started next has the slot.
LEMMA SlotStarts ==
  ASSUME QueueOK, NEW q \in Seq(Files), NEW s, NEW st \in [Files -> {"no", "check", "begin"}],
         NEW c, NEW O, NEW R, NEW L, NEW S \in SUBSET Files,
         StartNextQueuedTransfer(q, s, st, c),
         \A f \in S : SlotOK(f, O[f], R[f], s, st[f], f \in L)
  PROVE  \A f \in S : SlotOK(f, O[f], R[f], slot', start'[f], f \in L)
<1>1. CASE slot' = s /\ start' = st  BY <1>1
<1>2. ASSUME NEW g, s = <<>>, slot' = <<g>>, start' = [st EXCEPT ![g] = "check"],
             NEW f \in S
      PROVE  SlotOK(f, O[f], R[f], slot', start'[f], f \in L)
  <2>0. SlotOK(f, O[f], R[f], <<>>, st[f], f \in L)  BY <1>2
  <2>1. CASE f = g
    <3>1. start'[f] = "check" /\ slot' = <<f>>  BY <1>2, <2>1
    <3>2. <<>> # <<f>>  OBVIOUS
    <3>3. SlotOK(f, O[f], R[f], <<f>>, "check", f \in L)  BY <2>0, <3>2 DEF SlotOK
    <3> QED  BY <3>1, <3>3
  <2>2. CASE f # g
    <3>1. start'[f] = st[f] /\ slot' # <<f>>  BY <1>2, <2>2
    <3>2. <<>> # <<f>>  OBVIOUS
    <3> HIDE DEF SlotOK
    <3>3. SlotOK(f, O[f], R[f], slot', st[f], f \in L)  BY <2>0, <3>1, <3>2 DEF SlotOK
    <3> QED  BY <3>1, <3>3
  <2> QED  BY <2>1, <2>2
<1> QED  BY <1>1, <1>2, StartNextEffect

-----------------------------------------------------------------------------
(* The steps of a run and the slot.                                        *)

\* A step that leaves the slot, the starts and the late completions alone, and f's run
\* and transfer in order.
LEMMA SlotSame ==
  ASSUME SlotInv, NEW h \in Files, UNCHANGED <<slot, start, late, rushed>>,
         \A f \in Files \ {h} : out'[f] = out[f] /\ run'[f] = run[f],
         h \notin rushed => SlotOK(h, out'[h], run'[h], slot, start[h], h \in late)
  PROVE  \A f \in Files \ rushed' : SlotOK(f, out'[f], run'[f], slot', start'[f], f \in late')
BY DEF SlotInv

\* A run that is under way.
LEMMA SlotRunning ==
  ASSUME Typed, SlotInv, NEW h \in Files,
         \/ SendFileRequest(h) \/ DropEvent(h) \/ TakeAccepted(h) \/ TakeRejected(h, "await")
         \/ TakeRejected(h, "ack") \/ SendChunk(h) \/ TakeAck(h) \/ TakeNack(h)
         \/ SendFileComplete(h) \/ TakeVerdict(h) \/ Interrupted(h) \/ Timeout(h)
         \/ CaptureOutcome(h) \/ RequeuePending(h) \/ RecordCanceled(h)
  PROVE  \A f \in Files \ rushed' : SlotOK(f, out'[f], run'[f], slot', start'[f], f \in late')
<1>a. PICK Steps : run \in [Files -> Steps]  BY DEF Typed, TypeOK, RunOK
<1>0. /\ out \in [Files -> Outbound] /\ run \in [Files -> Steps]
      /\ SlotOK(h, out[h], run[h], slot, start[h], h \in late) \/ h \in rushed
  BY <1>a DEF Typed, TypeOK, RunOK, SlotInv
<1> DEFINE Moving == {"send", "capture", "await", "ack", "verdict"}
           Goal == \A f \in Files \ rushed' :
                     SlotOK(f, out'[f], run'[f], slot', start'[f], f \in late')
<1>1. CASE \/ SendFileRequest(h) \/ SendChunk(h) \/ TakeNack(h) \/ SendFileComplete(h)
           \/ Interrupted(h) \/ Timeout(h)
  <2>1. /\ run[h] \in {"request", "send"} \cup Waiting /\ UNCHANGED <<out, starting, history>>
        /\ \E r \in Moving : run' = [run EXCEPT ![h] = r]
    BY <1>1, Zenon
    DEF SendFileRequest, SendChunk, TakeNack, SendFileComplete, Interrupted, Timeout, Goto,
        NextAttempt, Take, Waiting
  <2>2. run'[h] \in Moving /\ \A f \in Files \ {h} : run'[f] = run[f]  BY <1>0, <2>1
  <2>3. h \notin rushed => SlotOK(h, out'[h], run'[h], slot, start[h], h \in late)
    BY <1>0, <2>1, <2>2 DEF SlotOK, Waiting
  <2> QED  BY <2>1, <2>2, <2>3, SlotSame DEF starting, history
<1>2. CASE TakeAccepted(h) \/ TakeAck(h)
  <2>1. /\ run[h] \in Waiting /\ UNCHANGED <<starting, history>>
        /\ run' = [run EXCEPT ![h] = "send"]
        /\ \E n : out' = [out EXCEPT ![h].next = n]
    BY <1>2 DEF TakeAccepted, TakeAck, Goto, Take, Waiting
  <2>2. run'[h] = "send" /\ \A f \in Files \ {h} : run'[f] = run[f] /\ out'[f] = out[f]
    BY <1>0, <2>1
  <2>3. /\ out'[h].running = out[h].running /\ out'[h].done = out[h].done
        /\ out'[h].rejected = out[h].rejected /\ out'[h].canceled = out[h].canceled
    BY <1>0, <2>1 DEF Outbound
  <2>4. h \notin rushed => SlotOK(h, out'[h], run'[h], slot, start[h], h \in late)
    BY <1>0, <2>1, <2>2, <2>3 DEF SlotOK, Waiting
  <2> QED  BY <2>1, <2>2, <2>4, SlotSame DEF starting, history
<1>3. CASE DropEvent(h)
  <2>1. UNCHANGED <<out, running, starting, history>>  BY <1>3 DEF DropEvent
  <2> QED  BY <2>1 DEF running, starting, history, SlotInv
<1>4. CASE TakeRejected(h, "await") \/ TakeRejected(h, "ack")
  <2>1. /\ run[h] \in Waiting /\ UNCHANGED <<starting, history>>
        /\ run' = [run EXCEPT ![h] = "capture"]
        /\ \E b : out' = [out EXCEPT ![h].rejected = TRUE, ![h].canceled = b]
    BY <1>4 DEF TakeRejected, Goto, Take, Waiting
  <2>2. run'[h] = "capture" /\ \A f \in Files \ {h} : run'[f] = run[f] /\ out'[f] = out[f]
    BY <1>0, <2>1
  <2>3. out'[h].running = out[h].running /\ out'[h].done = out[h].done
    BY <1>0, <2>1 DEF Outbound
  <2>4. h \notin rushed => SlotOK(h, out'[h], run'[h], slot, start[h], h \in late)
    BY <1>0, <2>1, <2>2, <2>3 DEF SlotOK, Waiting
  <2> QED  BY <2>1, <2>2, <2>4, SlotSame DEF starting, history
<1>5. CASE TakeVerdict(h)
  <2> DEFINE b == out[h].running /\ Head(events[h]).status # "complete"
             d == out[h].canceled \/ Head(events[h]).status = "canceled"
  <2>1. /\ run[h] \in Waiting /\ UNCHANGED <<starting, history>>
        /\ run' = [run EXCEPT ![h] = "capture"]
        /\ out' = [out EXCEPT ![h].done = TRUE, ![h].running = b, ![h].canceled = d]
    BY <1>5 DEF TakeVerdict, Goto, Take, Waiting
  <2> HIDE DEF b, d
  <2>2. run'[h] = "capture" /\ \A f \in Files \ {h} : run'[f] = run[f] /\ out'[f] = out[f]
    BY <1>0, <2>1
  <2>3. out'[h].done = TRUE  BY <1>0, <2>1 DEF Outbound
  <2>4. h \notin rushed => SlotOK(h, out'[h], run'[h], slot, start[h], h \in late)
    BY <1>0, <2>1, <2>2, <2>3 DEF SlotOK, Waiting
  <2> QED  BY <2>1, <2>2, <2>4, SlotSame DEF starting, history
<1>6. CASE CaptureOutcome(h)
  <2>1. /\ run[h] = "capture" /\ UNCHANGED <<starting, history>>
        /\ \E r \in {"canceled", "finish", "pending"} : run' = [run EXCEPT ![h] = r]
        /\ out' = [out EXCEPT ![h].running = FALSE]
    BY <1>6 DEF CaptureOutcome, Goto
  <2>2. /\ run'[h] \in {"canceled", "finish", "pending"}
        /\ \A f \in Files \ {h} : run'[f] = run[f] /\ out'[f] = out[f]
    BY <1>0, <2>1
  <2>3. /\ out'[h].running = FALSE /\ out'[h].done = out[h].done
        /\ out'[h].rejected = out[h].rejected /\ out'[h].canceled = out[h].canceled
    BY <1>0, <2>1 DEF Outbound
  <2>4. h \notin rushed => SlotOK(h, out'[h], run'[h], slot, start[h], h \in late)
    BY <1>0, <2>1, <2>2, <2>3 DEF SlotOK, Waiting
  <2> QED  BY <2>1, <2>2, <2>4, SlotSame DEF starting, history
<1>7. CASE RequeuePending(h) \/ RecordCanceled(h)
  <2>1. /\ run[h] \in {"pending", "canceled"} /\ UNCHANGED <<out, slot, start, history>>
        /\ run' = [run EXCEPT ![h] = "finish"]
    BY <1>7 DEF RequeuePending, RecordCanceled, Goto, starting
  <2>2. run'[h] = "finish" /\ \A f \in Files \ {h} : run'[f] = run[f]  BY <1>0, <2>1
  <2>3. h \notin rushed => SlotOK(h, out'[h], run'[h], slot, start[h], h \in late)
    BY <1>0, <2>1, <2>2 DEF SlotOK, Waiting
  <2> QED  BY <2>1, <2>2, <2>3, SlotSame DEF history
<1> QED  BY <1>1, <1>2, <1>3, <1>4, <1>5, <1>6, <1>7

\* The start and the end of a run, and the user's steps.
LEMMA SlotGiven ==
  ASSUME Typed, SlotInv, NEW h \in Files,
         \/ SendFile(h) \/ CheckStart(h) \/ BeginOutboundFileTransfer(h) \/ FinishRun(h)
         \/ CancelRunning(h) \/ CancelQueued(h) \/ CancelForgotten(h) \/ RetryTransfer(h)
  PROVE  \A f \in Files \ rushed' : SlotOK(f, out'[f], run'[f], slot', start'[f], f \in late')
<1>a. PICK Steps : run \in [Files -> Steps]  BY DEF Typed, TypeOK, RunOK
<1>0. /\ out \in [Files -> Outbound] /\ run \in [Files -> Steps]
      /\ QueueOK /\ queue \in Seq(Files) /\ start \in [Files -> {"no", "check", "begin"}]
      /\ SlotOK(h, out[h], run[h], slot, start[h], h \in late) \/ h \in rushed
      /\ \A f \in Files \ rushed : SlotOK(f, out[f], run[f], slot, start[f], f \in late)
  BY <1>a DEF Typed, TypeOK, RunOK, QueueOK, SlotInv
<1> DEFINE Goal == \A f \in Files \ rushed' :
                     SlotOK(f, out'[f], run'[f], slot', start'[f], f \in late')
\* It is enough to look at h before the slot is given away.
<1>1. ASSUME NEW q \in Seq(Files), NEW s \in {slot, FinishOutboundTransfer(slot, h)},
             NEW st \in {start, [start EXCEPT ![h] = "no"]}, NEW c,
             StartNextQueuedTransfer(q, s, st, c),
             \A f \in Files \ {h} : out'[f] = out[f] /\ run'[f] = run[f],
             late' = late, rushed \subseteq rushed',
             h \notin rushed' => SlotOK(h, out'[h], run'[h], s, st[h], h \in late)
      PROVE  Goal
  <2> DEFINE S == Files \ rushed'
  <2>1. st \in [Files -> {"no", "check", "begin"}]  BY <1>0, <1>1
  <2>2. ASSUME NEW f \in S  PROVE SlotOK(f, out'[f], run'[f], s, st[f], f \in late')
    <3>1. CASE f = h  BY <1>1, <3>1
    <3>2. CASE f # h
      <4>1. SlotOK(f, out'[f], run'[f], slot, start[f], f \in late')  BY <1>0, <1>1, <3>2
      <4>2. SlotOK(f, out'[f], run'[f], s, start[f], f \in late')
        BY <1>1, <3>2, <4>1, SlotFreed
      <4>3. st[f] = start[f]  BY <1>0, <1>1, <3>2
      <4> QED  BY <4>2, <4>3
    <3> QED  BY <3>1, <3>2
  <2>3. S \in SUBSET Files  OBVIOUS
  <2> DEFINE O == out'
             R == run'
             L == late'
  <2>4. \A f \in S : SlotOK(f, O[f], R[f], s, st[f], f \in L)  BY <2>2
  <2> HIDE DEF S, O, R, L
  <2>6. QueueOK /\ StartNextQueuedTransfer(q, s, st, c)  BY <1>0, <1>1
  <2>5. \A f \in S : SlotOK(f, O[f], R[f], slot', start'[f], f \in L)
    BY <2>1, <2>3, <2>4, <2>6, SlotStarts, Zenon
  <2> QED  BY <2>5 DEF S, O, R, L
<1>q. /\ Enqueue(queue, h, FALSE) \in Seq(Files) /\ Dequeue(queue, h) \in Seq(Files)
  BY <1>0, EnqueueType, DequeueType
<1>t. /\ Transfer(0).running = FALSE /\ Transfer(0).done = FALSE
      /\ Transfer(0).rejected = FALSE /\ Transfer(0).canceled = FALSE
  BY DEF Transfer
\* A transfer that starts afresh, of a file of which nothing is under way.
<1>2. ASSUME run[h] = "off", start[h] = "no",
             SlotOK(h, out[h], run[h], slot, start[h], h \in late)
      PROVE  SlotOK(h, Transfer(0), run[h], slot, start[h], h \in late)
  BY <1>2, <1>t DEF SlotOK, Waiting
<1>f. <<>> # <<h>> /\ FinishOutboundTransfer(slot, h) # <<h>>  BY DEF FinishOutboundTransfer
<1>3. CASE SendFile(h)
  <2>1. /\ StartNextQueuedTransfer(Enqueue(queue, h, FALSE), slot, start, Current)
        /\ out' = [out EXCEPT ![h] = Transfer(0)] /\ UNCHANGED <<run, late, rushed>>
    BY <1>3 DEF SendFile, running, history
  <2>2. run[h] = "off" /\ start[h] = "no"  BY <1>3 DEF SendFile, SlotInv, UnsentInv
  <2>3. out'[h] = Transfer(0) /\ \A f \in Files \ {h} : out'[f] = out[f]  BY <1>0, <2>1
  <2>4. h \notin rushed' => SlotOK(h, out'[h], run'[h], slot, start[h], h \in late)
    BY <1>0, <1>2, <2>1, <2>2, <2>3
  <2> QED  BY <1>1, <1>q, <2>1, <2>3, <2>4
<1>4. CASE CheckStart(h)
  <2>1. start[h] = "check" /\ UNCHANGED <<out, run, late, rushed>>
    BY <1>4 DEF CheckStart, running, history
  <2>2. CASE out[h].done \/ out[h].rejected \/ out[h].canceled
    <3> DEFINE st == [start EXCEPT ![h] = "no"]
               s == FinishOutboundTransfer(slot, h)
    <3>1. StartNextQueuedTransfer(queue, s, st, via[h])  BY <1>4, <2>2 DEF CheckStart
    <3>2. st[h] = "no"  BY <1>0
    <3>3. h \notin rushed' => SlotOK(h, out'[h], run'[h], s, "no", h \in late)
      <4> HIDE DEF s
      <4>1. s # <<h>>  BY <1>f DEF s
      <4> QED  BY <1>0, <2>1, <4>1 DEF SlotOK, Waiting
    <3> HIDE DEF st, s
    <3>4. st \in {start, [start EXCEPT ![h] = "no"]} /\ s \in {slot, FinishOutboundTransfer(slot, h)}
      BY DEF st, s
    <3> QED  BY <1>0, <1>1, <2>1, <3>1, <3>2, <3>3, <3>4
  <2>3. CASE ~ (out[h].done \/ out[h].rejected \/ out[h].canceled)
    <3>1. start' = [start EXCEPT ![h] = "begin"] /\ slot' = slot  BY <1>4, <2>3 DEF CheckStart
    <3>2. start'[h] = "begin" /\ \A f \in Files \ {h} : start'[f] = start[f]  BY <1>0, <3>1
    <3>3. h \notin rushed => SlotOK(h, out[h], run[h], slot, "begin", h \in late)
      BY <1>0, <2>1, <2>3 DEF SlotOK, Waiting
    <3>4. ASSUME NEW f \in Files \ rushed
          PROVE  SlotOK(f, out'[f], run'[f], slot', start'[f], f \in late')
      BY <1>0, <2>1, <3>1, <3>2, <3>3
    <3> QED  BY <2>1, <3>4
  <2> QED  BY <2>2, <2>3
<1>5. CASE BeginOutboundFileTransfer(h)
  <2>1. /\ start[h] = "begin" /\ start' = [start EXCEPT ![h] = "no"]
        /\ UNCHANGED <<slot, late, rushed>>
    BY <1>5 DEF BeginOutboundFileTransfer, history
  <2>2. start'[h] = "no" /\ \A f \in Files \ {h} : start'[f] = start[f]  BY <1>0, <2>1
  <2>3. CASE out[h].running \/ out[h].done \/ out[h].rejected \/ out[h].canceled
    <3>1. UNCHANGED <<out, run>>  BY <1>5, <2>3 DEF BeginOutboundFileTransfer
    <3>2. h \notin rushed => SlotOK(h, out[h], run[h], slot, "no", h \in late)
      BY <1>0, <2>1, <2>3 DEF SlotOK, Waiting
    <3>3. ASSUME NEW f \in Files \ rushed
          PROVE  SlotOK(f, out'[f], run'[f], slot', start'[f], f \in late')
      BY <1>0, <2>1, <2>2, <3>1, <3>2
    <3> QED  BY <2>1, <3>3
  <2>4. CASE ~ (out[h].running \/ out[h].done \/ out[h].rejected \/ out[h].canceled)
    <3>1. out' = [out EXCEPT ![h].running = TRUE] /\ run' = [run EXCEPT ![h] = "request"]
      BY <1>5, <2>4 DEF BeginOutboundFileTransfer
    <3>2. /\ out'[h].running = TRUE /\ run'[h] = "request"
          /\ \A f \in Files \ {h} : out'[f] = out[f] /\ run'[f] = run[f]
      BY <1>0, <3>1 DEF Outbound
    <3>3. h \notin rushed => SlotOK(h, out'[h], "request", slot, "no", h \in late)
      BY <1>0, <2>1, <2>4, <3>2 DEF SlotOK, Waiting
    <3>4. ASSUME NEW f \in Files \ rushed
          PROVE  SlotOK(f, out'[f], run'[f], slot', start'[f], f \in late')
      BY <1>0, <2>1, <2>2, <3>2, <3>3
    <3> QED  BY <2>1, <3>4
  <2> QED  BY <2>3, <2>4
<1>6. CASE FinishRun(h)
  <2> DEFINE s == FinishOutboundTransfer(slot, h)
  <2>1. /\ run[h] = "finish" /\ run' = [run EXCEPT ![h] = "off"]
        /\ StartNextQueuedTransfer(queue, s, start, Current) /\ UNCHANGED <<out, late, rushed>>
    BY <1>6 DEF FinishRun, Goto, history
  <2>2. run'[h] = "off" /\ \A f \in Files \ {h} : run'[f] = run[f]  BY <1>0, <2>1
  <2>3. h \notin rushed => SlotOK(h, out[h], "off", s, start[h], h \in late)
    <3> HIDE DEF s
    <3>1. s # <<h>>  BY <1>f DEF s
    <3> QED  BY <1>0, <2>1, <3>1 DEF SlotOK, Waiting
  <2>4. s \in {slot, FinishOutboundTransfer(slot, h)}  OBVIOUS
  <2> HIDE DEF s
  <2> QED  BY <1>0, <1>1, <2>1, <2>2, <2>3, <2>4
<1>7. CASE CancelRunning(h)
  <2>1. /\ out[h].running /\ ~out[h].done /\ out' = [out EXCEPT ![h].canceled = TRUE]
        /\ UNCHANGED <<slot, start, run, late, rushed>>
    BY <1>7 DEF CancelRunning, history
  <2>2. /\ out'[h].running = out[h].running /\ out'[h].done = out[h].done
        /\ \A f \in Files \ {h} : out'[f] = out[f]
    BY <1>0, <2>1 DEF Outbound
  <2>3. h \notin rushed => SlotOK(h, out'[h], run'[h], slot, start[h], h \in late)
    BY <1>0, <2>1, <2>2 DEF SlotOK, Waiting
  <2> QED  BY <2>1, <2>2, <2>3, SlotSame
<1>8. CASE CancelQueued(h)
  <2> DEFINE s == FinishOutboundTransfer(slot, h)
  <2>1. /\ ~out[h].running /\ ~out[h].done
        /\ out' = [out EXCEPT ![h].canceled = TRUE, ![h].done = TRUE]
        /\ StartNextQueuedTransfer(Dequeue(queue, h), s, start, Current)
        /\ UNCHANGED <<run, late, rushed>>
    BY <1>8 DEF CancelQueued, running, history
  <2>2. /\ out'[h].running = out[h].running /\ out'[h].done = TRUE
        /\ \A f \in Files \ {h} : out'[f] = out[f]
    BY <1>0, <2>1 DEF Outbound
  <2>3. h \notin rushed => SlotOK(h, out'[h], run[h], s, start[h], h \in late)
    <3> HIDE DEF s
    <3>1. s # <<h>>  BY <1>f DEF s
    <3> QED  BY <1>0, <2>1, <2>2, <3>1 DEF SlotOK, Waiting
  <2>4. s \in {slot, FinishOutboundTransfer(slot, h)}  OBVIOUS
  <2> HIDE DEF s
  <2> QED  BY <1>1, <1>q, <2>1, <2>2, <2>3, <2>4
<1>9. CASE CancelForgotten(h)
  <2>1. UNCHANGED <<out, run, slot, start, late, rushed>>
    BY <1>9 DEF CancelForgotten, running, starting, history
  <2> QED  BY <1>0, <2>1
<1>10. CASE RetryTransfer(h)
  <2>1. /\ StartNextQueuedTransfer(Enqueue(queue, h, FALSE), slot, start, Current)
        /\ out' = [out EXCEPT ![h] = Transfer(0)] /\ UNCHANGED <<run, late>>
        /\ rushed' = IF Busy(h) THEN rushed \cup {h} ELSE rushed
    BY <1>10 DEF RetryTransfer, running
  <2>2. out'[h] = Transfer(0) /\ \A f \in Files \ {h} : out'[f] = out[f]  BY <1>0, <2>1
  <2>3. h \notin rushed' => h \notin rushed /\ run[h] = "off" /\ start[h] = "no"
    BY <2>1 DEF Busy
  <2>4. h \notin rushed' => SlotOK(h, out'[h], run'[h], slot, start[h], h \in late)
    BY <1>0, <1>2, <2>1, <2>2, <2>3
  <2>5. rushed \subseteq rushed'  BY <2>1
  <2> QED  BY <1>1, <1>q, <2>1, <2>2, <2>4, <2>5
<1> HIDE DEF Goal
<1> QED  BY <1>3, <1>4, <1>5, <1>6, <1>7, <1>8, <1>9, <1>10 DEF Goal

\* A completion that comes late.
LEMMA SlotLate ==
  ASSUME Typed, SlotInv, NEW c \in Conns, SenderLoop(c)
  PROVE  \A f \in Files \ rushed' : SlotOK(f, out'[f], run'[f], slot', start'[f], f \in late')
<1> DEFINE h == Head(toS[c]).file
<1>0. /\ out \in [Files -> Outbound] /\ LinkOK
      /\ \A f \in Files \ rushed : SlotOK(f, out[f], run[f], slot, start[f], f \in late)
  BY DEF Typed, TypeOK, RunOK, SlotInv
<1>1. UNCHANGED <<run, slot, start, rushed>>
  BY DEF SenderLoop, HandleFileResponse, HandleVerdict, running, starting, history
<1>2. CASE UNCHANGED <<out, late>>  BY <1>0, <1>1, <1>2
<1>3. CASE ~UNCHANGED <<out, late>>
  <2>1. HandleVerdict(c)  BY <1>3 DEF SenderLoop, HandleFileResponse, history
  <2>2. h \in Files
    BY <1>0, <2>1, ToSenderType, SenderMessage DEF HandleVerdict, ReceiveAtSender
  <2>3. /\ ~Registered(h) /\ late' = IF start[h] = "begin" THEN late \cup {h} ELSE late
        /\ out' = [out EXCEPT ![h].done = TRUE, ![h].running = FALSE]
    BY <1>3, <2>1 DEF HandleVerdict
  <2> HIDE DEF h
  <2>4. /\ out'[h].done = TRUE /\ out'[h].running = FALSE
        /\ \A f \in Files \ {h} : out'[f] = out[f]
    BY <1>0, <2>2, <2>3 DEF Outbound
  <2>5. h \notin rushed => SlotOK(h, out'[h], run[h], slot, start[h], h \in late \/ start[h] = "begin")
    BY <1>0, <2>2, <2>3, <2>4 DEF SlotOK, Registered, Waiting
  <2>6. ASSUME NEW f \in Files \ rushed
        PROVE  SlotOK(f, out'[f], run'[f], slot', start'[f], f \in late')
    <3>1. CASE f = h
      <4>1. (h \in late') = (h \in late \/ start[h] = "begin")  BY <2>3
      <4> QED  BY <1>1, <2>5, <2>6, <3>1, <4>1
    <3>2. CASE f # h
      <4>1. (f \in late') <=> (f \in late)  BY <2>3, <3>2
      <4>2. out'[f] = out[f] /\ SlotOK(f, out[f], run[f], slot, start[f], f \in late)
        BY <1>0, <2>4, <2>6, <3>2
      <4> QED  BY <1>1, <4>1, <4>2 DEF SlotOK
    <3> QED  BY <3>1, <3>2
  <2> QED  BY <1>1, <2>6
<1> QED  BY <1>2, <1>3

\* Connections and restarts.
LEMMA SlotLink ==
  ASSUME Typed, SlotInv,
         Connect \/ Disconnect \/ SenderRestart \/ ReceiverStep \/ UNCHANGED vars
  PROVE  \A f \in Files \ rushed' : SlotOK(f, out'[f], run'[f], slot', start'[f], f \in late')
<1>0. /\ QueueOK /\ queue \in Seq(Files) /\ start \in [Files -> {"no", "check", "begin"}]
      /\ \A f \in Files \ rushed : SlotOK(f, out[f], run[f], slot, start[f], f \in late)
  BY DEF Typed, TypeOK, QueueOK, SlotInv
<1>1. CASE Connect
  <2>1. /\ StartNextQueuedTransfer(queue, slot, start, conn + 1)
        /\ UNCHANGED <<out, run, late, rushed>>
    BY <1>1 DEF Connect, running, history
  <2>2. Files \ rushed \in SUBSET Files  OBVIOUS
  <2>3. \A f \in Files \ rushed : SlotOK(f, out[f], run[f], slot', start'[f], f \in late)
    BY <1>0, <2>1, <2>2, SlotStarts
  <2> QED  BY <2>1, <2>3
<1>2. CASE SenderRestart
  <2> DEFINE S == {f \in Files : Resumable(scp, srow, f)}
  <2>1. /\ slot' = <<>> /\ start' = [f \in Files |-> "no"] /\ run' = [f \in Files |-> "off"]
        /\ out' = [f \in Files |-> IF f \in S THEN Transfer(scp[f][1]) ELSE NoTransfer]
    BY <1>2 DEF SenderRestart
  <2>2. \A k : Transfer(k).running = FALSE  BY DEF Transfer
  <2>3. NoTransfer.running = FALSE  BY DEF NoTransfer, Transfer
  <2> HIDE DEF S
  <2>4. \A f \in Files :
          run'[f] = "off" /\ start'[f] = "no" /\ out'[f].running = FALSE /\ slot' # <<f>>
    BY <2>1, <2>2, <2>3
  <2> QED  BY <2>4 DEF SlotOK, Waiting
<1>3. CASE Disconnect \/ ReceiverStep \/ UNCHANGED vars
  <2>1. UNCHANGED senderVars  BY <1>3, OneSide, Zenon DEF Disconnect, vars
  <2>2. UNCHANGED <<out, run, slot, start, late, rushed>>
    BY <2>1 DEF senderVars, starting, running, history
  <2> QED  BY <1>0, <2>2
<1> QED  BY <1>1, <1>2, <1>3

\* A file that has never been sent stays untouched.
LEMMA Untouched ==
  ASSUME UnsentInv,
         \A f \in Files : srow'[f] = "none" =>
           /\ srow[f] = "none" /\ run'[f] = run[f]
           /\ scp'[f] = scp[f] \/ scp'[f] = <<>>
           /\ start'[f] = start[f] \/ f \in Members(queue)
           /\ f \in Members(queue') => f \in Members(queue)
  PROVE  UnsentInv'
BY DEF UnsentInv

\* A step that is only about a file that has been sent.
LEMMA UntouchedByOne ==
  ASSUME Typed, UnsentInv, NEW h \in Files, srow[h] # "none",
         run' = run \/ \E r : run' = [run EXCEPT ![h] = r],
         srow' = srow \/ \E s : s # "none" /\ srow' = [srow EXCEPT ![h] = s],
         scp' = scp \/ \E k : scp' = [scp EXCEPT ![h] = k],
         \A f \in Files \ {h} :
           /\ start'[f] = start[f] \/ f \in Members(queue)
           /\ f \in Members(queue') => f \in Members(queue)
  PROVE  UnsentInv'
<1>a. PICK Steps : run \in [Files -> Steps]  BY DEF Typed, TypeOK, RunOK
<1>b. PICK Points : scp \in [Files -> Points]  BY DEF Typed, TypeOK, RowsOK
<1>c. PICK Rows : srow \in [Files -> Rows]  BY DEF Typed, TypeOK, RowsOK
<1>1. srow'[h] # "none"  BY <1>c
<1>2. \A f \in Files \ {h} : srow'[f] = srow[f] /\ run'[f] = run[f] /\ scp'[f] = scp[f]
  BY <1>a, <1>b, <1>c
<1> QED  BY <1>1, <1>2, Untouched

\* Of a file that has not been sent nothing is under way, after every step.
LEMMA UnsentNext ==
  ASSUME Typed, UnsentInv, [Next]_vars
  PROVE  UnsentInv'
<1>0. /\ LinkOK /\ QueueOK /\ queue \in Seq(Files)
      /\ start \in [Files -> {"no", "check", "begin"}] /\ srow \in [Files -> Status]
  BY DEF Typed, TypeOK, QueueOK, RowsOK
\* Starting the next transfer touches queued files only.
<1>1. ASSUME NEW h \in Files, NEW q \in Seq(Files), Members(q) \subseteq Members(queue) \cup {h},
             NEW s, NEW st \in {start, [start EXCEPT ![h] = "no"]}, NEW c,
             StartNextQueuedTransfer(q, s, st, c)
      PROVE  \A f \in Files \ {h} :
               /\ start'[f] = start[f] \/ f \in Members(queue)
               /\ f \in Members(queue') => f \in Members(queue)
  <2>1. \A f \in Files \ {h} : st[f] = start[f]  BY <1>0, <1>1
  <2>2. Members(queue') \subseteq Members(q)  BY <1>1, StartNextEffect, Zenon
  <2>3. start' = st \/ \E g \in Members(q) : start' = [st EXCEPT ![g] = "check"]
    BY <1>1, StartNextEffect, Zenon
  <2>4. st \in [Files -> {"no", "check", "begin"}]  BY <1>0, <1>1
  <2> QED  BY <1>1, <2>1, <2>2, <2>3, <2>4
<1>2. ASSUME NEW h \in Files, NEW q \in Seq(Files), Members(q) \subseteq Members(queue) \cup {h},
             start' = start, queue' = q
      PROVE  \A f \in Files \ {h} :
               /\ start'[f] = start[f] \/ f \in Members(queue)
               /\ f \in Members(queue') => f \in Members(queue)
  BY <1>2
<1>e. ASSUME NEW h \in Files, NEW front \in BOOLEAN
      PROVE  /\ Enqueue(queue, h, front) \in Seq(Files)
             /\ Members(Enqueue(queue, h, front)) \subseteq Members(queue) \cup {h}
             /\ Dequeue(queue, h) \in Seq(Files)
             /\ Members(Dequeue(queue, h)) \subseteq Members(queue) \cup {h}
  BY <1>0, EnqueueType, EnqueueMembers, DequeueType, DequeueMembers
<1>3. ASSUME NEW h \in Files, RunStep(h)  PROVE UnsentInv'
  <2>0. srow[h] # "none"
    <3>1. run[h] # "off" \/ start[h] # "no"
      BY <1>3
      DEF RunStep, CheckStart, BeginOutboundFileTransfer, SendFileRequest, DropEvent,
          TakeAccepted, TakeRejected, SendChunk, TakeAck, TakeNack, SendFileComplete,
          TakeVerdict, Interrupted, Take, Timeout, CaptureOutcome, RequeuePending,
          RecordCanceled, FinishRun, Waiting
    <3> QED  BY <3>1 DEF UnsentInv
  <2>1. run' = run \/ \E r : run' = [run EXCEPT ![h] = r]
    BY <1>3, Zenon
    DEF RunStep, CheckStart, BeginOutboundFileTransfer, SendFileRequest, DropEvent,
        TakeAccepted, TakeRejected, SendChunk, TakeAck, TakeNack, SendFileComplete,
        TakeVerdict, Interrupted, Timeout, CaptureOutcome, RequeuePending,
        RecordCanceled, FinishRun, running, Goto, NextAttempt
  <2>2. scp' = scp \/ \E k : scp' = [scp EXCEPT ![h] = k]
    <3>1. CASE TakeAck(h)  BY <3>1 DEF TakeAck
    <3>2. CASE ~TakeAck(h)
      BY <1>3, <3>2, Zenon
      DEF RunStep, CheckStart, BeginOutboundFileTransfer, SendFileRequest, DropEvent,
          TakeAccepted, TakeRejected, SendChunk, TakeNack, SendFileComplete,
          TakeVerdict, Interrupted, Timeout, CaptureOutcome, RequeuePending,
          RecordCanceled, FinishRun, rows
    <3> QED  BY <3>1, <3>2
  <2>3. srow' = srow \/ \E s : s # "none" /\ srow' = [srow EXCEPT ![h] = s]
    <3>1. CASE TakeVerdict(h)
      <4>1. /\ srow' = [srow EXCEPT ![h] = Head(events[h]).status]
            /\ Matches(h, Head(events[h])) /\ run[h] = "verdict" /\ Head(events[h]) \in ToSender
        BY <1>0, <3>1, TakeType DEF TakeVerdict
      <4>2. Head(events[h]).status # "none"  BY <4>1, SenderMessage DEF Matches, Verdict
      <4> QED  BY <4>1, <4>2
    <3>2. CASE ~TakeVerdict(h)
      <4>1. \/ srow' = srow
            \/ \E s \in {"accepted", "pending", "rejected", "canceled"} : srow' = [srow EXCEPT ![h] = s]
        BY <1>3, <3>2, Zenon
        DEF RunStep, CheckStart, BeginOutboundFileTransfer, SendFileRequest, DropEvent,
            TakeAccepted, TakeRejected, SendChunk, TakeAck, TakeNack, SendFileComplete,
            Interrupted, Take, Timeout, CaptureOutcome, RequeuePending, RecordCanceled,
            FinishRun, rows
      <4> QED  BY <4>1
    <3> QED  BY <3>1, <3>2
  <2>4. \A f \in Files \ {h} :
          /\ start'[f] = start[f] \/ f \in Members(queue)
          /\ f \in Members(queue') => f \in Members(queue)
    <3>1. CASE CheckStart(h)
      <4>1. CASE out[h].done \/ out[h].rejected \/ out[h].canceled
        BY <1>0, <1>1, <3>1, <4>1 DEF CheckStart
      <4>2. CASE ~ (out[h].done \/ out[h].rejected \/ out[h].canceled)
        BY <1>0, <3>1, <4>2 DEF CheckStart
      <4> QED  BY <4>1, <4>2
    <3>2. CASE BeginOutboundFileTransfer(h)
      BY <1>0, <3>2 DEF BeginOutboundFileTransfer
    <3>3. CASE RequeuePending(h)
      <4>1. start' = start /\ queue' = Enqueue(queue, h, TRUE)  BY <3>3 DEF RequeuePending
      <4> QED  BY <1>2, <1>e, <4>1
    <3>4. CASE FinishRun(h)
      <4>1. StartNextQueuedTransfer(queue, FinishOutboundTransfer(slot, h), start, Current)
        BY <3>4 DEF FinishRun
      <4> QED  BY <1>0, <1>1, <4>1
    <3>5. CASE ~ (CheckStart(h) \/ BeginOutboundFileTransfer(h) \/ RequeuePending(h) \/ FinishRun(h))
      <4>1. UNCHANGED starting
        BY <1>3, <3>5, Zenon
        DEF RunStep, SendFileRequest, DropEvent, TakeAccepted, TakeRejected, SendChunk, TakeAck,
            TakeNack, SendFileComplete, TakeVerdict, Interrupted, Timeout, CaptureOutcome,
            RecordCanceled, starting
      <4> QED  BY <4>1 DEF starting
    <3> QED  BY <3>1, <3>2, <3>3, <3>4, <3>5
  <2> QED  BY <2>0, <2>1, <2>2, <2>3, <2>4, UntouchedByOne
<1>4. ASSUME NEW h \in Files, SendFile(h)  PROVE UnsentInv'
  <2>1. /\ srow' = [srow EXCEPT ![h] = "pending"] /\ UNCHANGED <<run, scp>>
        /\ StartNextQueuedTransfer(Enqueue(queue, h, FALSE), slot, start, Current)
    BY <1>4 DEF SendFile, running
  <2>2. srow'[h] # "none" /\ \A f \in Files \ {h} : srow'[f] = srow[f]  BY <1>0, <2>1
  <2>3. \A f \in Files \ {h} :
          /\ start'[f] = start[f] \/ f \in Members(queue)
          /\ f \in Members(queue') => f \in Members(queue)
    BY <1>1, <1>e, <2>1
  <2> QED  BY <2>1, <2>2, <2>3, Untouched
<1>5. ASSUME NEW h \in Files,
             CancelRunning(h) \/ CancelQueued(h) \/ CancelForgotten(h) \/ RetryTransfer(h)
      PROVE  UnsentInv'
  <2>1. srow[h] # "none"
    BY <1>5 DEF CancelRunning, CancelQueued, CancelForgotten, RetryTransfer
  <2>2. /\ run' = run
        /\ srow' = srow \/ \E s \in {"pending", "canceled"} : srow' = [srow EXCEPT ![h] = s]
        /\ scp' = scp \/ scp' = [scp EXCEPT ![h] = <<>>]
    BY <1>5, Zenon DEF CancelRunning, CancelQueued, CancelForgotten, RetryTransfer, running, rows
  <2>3. \A f \in Files \ {h} :
          /\ start'[f] = start[f] \/ f \in Members(queue)
          /\ f \in Members(queue') => f \in Members(queue)
    <3>1. CASE CancelRunning(h)
      <4>1. start' = start /\ queue' = Dequeue(queue, h)  BY <3>1 DEF CancelRunning
      <4> QED  BY <1>2, <1>e, <4>1
    <3>2. CASE CancelQueued(h)
      <4>1. StartNextQueuedTransfer(Dequeue(queue, h), FinishOutboundTransfer(slot, h), start,
                                    Current)
        BY <3>2 DEF CancelQueued
      <4> QED  BY <1>1, <1>e, <4>1
    <3>3. CASE CancelForgotten(h)  BY <3>3 DEF CancelForgotten, starting
    <3>4. CASE RetryTransfer(h)
      <4>1. StartNextQueuedTransfer(Enqueue(queue, h, FALSE), slot, start, Current)
        BY <3>4 DEF RetryTransfer
      <4> QED  BY <1>1, <1>e, <4>1
    <3> QED  BY <1>5, <3>1, <3>2, <3>3, <3>4
  <2>4. srow' = srow \/ \E s : s # "none" /\ srow' = [srow EXCEPT ![h] = s]  BY <2>2
  <2>5. scp' = scp \/ \E k : scp' = [scp EXCEPT ![h] = k]  BY <2>2
  <2> QED  BY <2>1, <2>2, <2>3, <2>4, <2>5, UntouchedByOne
<1>6. ASSUME NEW c \in Conns, SenderLoop(c)  PROVE UnsentInv'
  <2> DEFINE m == Head(toS[c])
             h == m.file
  <2>1. UNCHANGED <<run, queue, start>>
    BY <1>6 DEF SenderLoop, HandleFileResponse, HandleVerdict, running, starting
  <2>2. CASE UNCHANGED rows  BY <2>1, <2>2, Untouched DEF rows
  <2>3. CASE ~UNCHANGED rows
    <3>1. HandleVerdict(c)  BY <1>6, <2>3 DEF SenderLoop, HandleFileResponse
    <3>2. /\ srow' = [srow EXCEPT ![h] = m.status] /\ m.status \in {"complete", "canceled"}
          /\ scp' = scp \/ scp' = [scp EXCEPT ![h] = <<>>]
      BY <2>3, <3>1 DEF HandleVerdict, rows
    <3> HIDE DEF m, h
    <3>3. \A f \in Files : srow'[f] = "none" => srow[f] = "none"  BY <1>0, <3>2
    <3>4. \A f \in Files : scp'[f] = scp[f] \/ scp'[f] = <<>>
      BY <3>2 DEF Typed, TypeOK, RowsOK
    <3> QED  BY <2>1, <3>3, <3>4, Untouched
  <2> QED  BY <2>2, <2>3
<1>7. CASE Connect
  <2>1. /\ StartNextQueuedTransfer(queue, slot, start, conn + 1)
        /\ UNCHANGED <<run, rows>>
    BY <1>7 DEF Connect, running
  <2>2. \A f \in Files : /\ start'[f] = start[f] \/ f \in Members(queue)
                         /\ f \in Members(queue') => f \in Members(queue)
    <3>1. Members(queue') \subseteq Members(queue)  BY <1>0, <2>1, StartNextEffect, Zenon
    <3>2. start' = start \/ \E g \in Members(queue) : start' = [start EXCEPT ![g] = "check"]
      BY <1>0, <2>1, StartNextEffect, Zenon
    <3> QED  BY <1>0, <3>1, <3>2
  <2> QED  BY <2>1, <2>2, Untouched DEF rows
<1>8. CASE SenderRestart
  <2> DEFINE S == {f \in Files : Resumable(scp, srow, f)}
  <2>1. /\ srow' = srow /\ start' = [f \in Files |-> "no"] /\ run' = [f \in Files |-> "off"]
        /\ scp' = [f \in Files |-> IF f \in S THEN scp[f] ELSE <<>>] /\ Members(queue') = S
    BY <1>8 DEF SenderRestart
  <2>2. \A f \in S : srow[f] # "none"  BY DEF Resumable, UnsentInv
  <2> HIDE DEF S
  <2> QED  BY <2>1, <2>2 DEF UnsentInv
<1>9. CASE Disconnect \/ ReceiverStep \/ UNCHANGED vars
  <2>1. UNCHANGED senderVars  BY <1>9, OneSide, Zenon DEF Disconnect, vars
  <2> QED  BY <2>1, Untouched DEF senderVars, rows, starting, running
<1> QED  BY <1>3, <1>4, <1>5, <1>6, <1>7, <1>8, <1>9, OneSide DEF SenderStep

\* The slot is held for a file that uses it, after every step.
LEMMA SlotInvNext ==
  ASSUME Typed, SlotInv, [Next]_vars
  PROVE  SlotInv'
<1>1. UnsentInv'  BY UnsentNext DEF SlotInv
<1>2. \A f \in Files \ rushed' : SlotOK(f, out'[f], run'[f], slot', start'[f], f \in late')
  <2>1. ASSUME NEW h \in Files,
               RunStep(h) \/ SendFile(h) \/ CancelRunning(h) \/ CancelQueued(h)
                 \/ CancelForgotten(h) \/ RetryTransfer(h)
        PROVE \A f \in Files \ rushed' : SlotOK(f, out'[f], run'[f], slot', start'[f], f \in late')
    BY <2>1, SlotRunning, SlotGiven, Zenon DEF RunStep
  <2>2. ASSUME NEW c \in Conns, SenderLoop(c)
        PROVE \A f \in Files \ rushed' : SlotOK(f, out'[f], run'[f], slot', start'[f], f \in late')
    BY <2>2, SlotLate, Zenon
  <2>3. ASSUME Connect \/ Disconnect \/ SenderRestart \/ ReceiverStep \/ UNCHANGED vars
        PROVE \A f \in Files \ rushed' : SlotOK(f, out'[f], run'[f], slot', start'[f], f \in late')
    BY <2>3, SlotLink, Zenon
  <2> QED  BY <2>1, <2>2, <2>3, OneSide, Zenon DEF SenderStep
<1> QED  BY <1>1, <1>2, Zenon DEF SlotInv

\* The types and the invariant of the slot are inductive together.
LEMMA SlotInvHolds == Spec => [](Typed /\ SlotInv)
<1>1. Init => Typed /\ SlotInv
  <2> SUFFICES ASSUME Init PROVE SlotInv
    BY InitType
  <2>1. NoTransfer.running = FALSE  BY DEF NoTransfer, Transfer
  <2>2. \A f : <<>> # <<f>>  OBVIOUS
  <2>3. UnsentInv  BY EmptyMembers DEF Init, UnsentInv
  <2>4. \A f \in Files : SlotOK(f, out[f], run[f], slot, start[f], f \in late)
    BY <2>1, <2>2 DEF Init, SlotOK, Waiting
  <2> QED  BY <2>3, <2>4 DEF SlotInv
<1>2. Typed /\ SlotInv /\ [Next]_vars => (Typed /\ SlotInv)'
  <2> SUFFICES ASSUME Typed, SlotInv, [Next]_vars PROVE Typed' /\ SlotInv'
    OBVIOUS
  <2> QED  BY NextType, SlotInvNext
<1> QED  BY <1>1, <1>2, PTL DEF Spec

\* At most one file of the peer's queue is being sent at a time, whatever users cancel
\* and retry (activeOutboundTransfer), not counting a file retried before the goroutines
\* of its last attempt had ended.
THEOREM OneActiveTransfer == Spec => []OneActive
<1>1. Typed /\ SlotInv => OneActive
  <2> SUFFICES ASSUME SlotInv PROVE OneActive
    OBVIOUS
  <2> DEFINE A == {f \in Files \ rushed : Active(f)}
  <2>1. \A f \in A : slot = <<f>>  BY DEF SlotInv, SlotOK, Active
  <2>2. \A f, g \in A : f = g
    <3> SUFFICES ASSUME NEW f \in A, NEW g \in A PROVE f = g
      OBVIOUS
    <3>1. <<f>> = <<g>>  BY <2>1
    <3>2. <<f>>[1] = f /\ <<g>>[1] = g  OBVIOUS
    <3> QED  BY <3>1, <3>2
  <2> HIDE DEF A
  <2>3. CASE A = {}
    <3>1. Cardinality(A) = 0  BY <2>3, FS_EmptySet
    <3> QED  BY <3>1 DEF OneActive, A
  <2>4. CASE A # {}
    <3>1. PICK f \in A : A = {f}  BY <2>2, <2>4
    <3>2. Cardinality(A) = 1  BY <3>1, FS_Singleton
    <3> QED  BY <3>2 DEF OneActive, A
  <2> QED  BY <2>3, <2>4
<1> QED  BY <1>1, SlotInvHolds, PTL

\* The slot is held only by a file some goroutine is working on, whatever users cancel
\* and retry and whenever a completion comes; except by a file that a late completion
\* ended between the test of startNextQueuedTransfer and that of
\* beginOutboundFileTransfer, which leaves the slot taken, or one retried before the
\* goroutines of its last attempt had ended.
THEOREM SlotInUse == Spec => []SlotIsUsed
<1>1. Typed /\ SlotInv => SlotIsUsed  BY DEF SlotInv, SlotOK, SlotIsUsed
<1> QED  BY <1>1, SlotInvHolds, PTL
=============================================================================
