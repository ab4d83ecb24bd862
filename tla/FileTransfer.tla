---------------------------- MODULE FileTransfer ----------------------------
(***************************************************************************)
(* Files from one device (the sender) to one peer (the receiver):          *)
(* network/file_transfer.go, over successive connections.                  *)
(*                                                                         *)
(* The sender has a queue and one active slot; the transfer in the slot is *)
(* run by a goroutine that asks, sends chunk after chunk, announces the    *)
(* end and waits for the verdict, and then tidies up.  The receiver        *)
(* handles messages in the connectionLoop of each connection, decides in a *)
(* goroutine when a person must be asked, and writes chunks to a .part     *)
(* file.  Rows, checkpoints and files survive a restart; nothing else.     *)
(***************************************************************************)
EXTENDS Naturals, Sequences, FiniteSets

CONSTANTS
  Files,       \* the files the user sends to the peer
  N,           \* TotalChunks of a file
  MaxRetries,  \* MaxChunkRetries
  OutEvery,    \* outbound checkpoint interval in chunks
  InEvery,     \* inbound checkpoint interval in chunks
  Policies,    \* the receive policies a run starts from
  Limiting,    \* whether allowFileRequest may refuse a request
  MaxConns,    \* bound: connections
  MaxCrashes,  \* bound: restarts of either process
  MaxUser,     \* bound: cancels and retries by the users
  MaxFaults,   \* bound: timeouts, users faster than goroutines, undecryptable chunks
  MaxRequests  \* bound: file_requests sent for one file

ASSUME TransferAssumption ==
  /\ IsFiniteSet(Files)
  /\ {N, MaxRetries, OutEvery, InEvery} \subseteq Nat \ {0}
  /\ {MaxConns, MaxCrashes, MaxUser, MaxFaults, MaxRequests} \subseteq Nat
  /\ Policies \subseteq {"auto", "ask", "refuse"}
  /\ Limiting \in BOOLEAN

Chunks == 0 .. N - 1
Conns == 1 .. MaxConns

VARIABLES
  (* the sender *)
  srow,    \* transfer_status in its files table, "none" before SendFile
  scp,     \* next_chunk of its checkpoint: <<>> or <<chunk>>
  out,     \* outboundFileTransfers: the flags and NextChunk
  queue,   \* outboundTransferQueue of the peer
  slot,    \* activeOutboundTransfer of the peer: <<>> or <<file>>
  start,   \* where startNextQueuedTransfer is with a file it put in the slot
  run,     \* program counter of the goroutine running a transfer
  via,     \* the connection that goroutine was given
  stop,    \* its context is cancelled
  tries,   \* attempts already made at the current chunk
  events,  \* the transfer's event channel
  asked,   \* file_requests sent, which orders their timestamps
  late,    \* history: files a late completion ended between the two tests of their start
  rushed,  \* history: files retried before the goroutines of the last attempt ended
  (* the receiver *)
  policy,  \* what its settings say of the peer's files
  rrow,    \* transfer_status in its files table
  rcp,     \* next_chunk of its checkpoint
  has,     \* inboundFileTransfers has the file
  got,     \* ReceivedChunks
  ask,     \* pendingFileApprovals, and whether the decision has been applied
  decided, \* recentFileDecisions: requests sent when it was rejected, or 0
  rpc,     \* step of handleFileComplete on each connection: <<>> or <<step, file>>
  part,    \* the .part file: <<>> or <<the chunks written to it>>
  final,   \* the finished file
  purged,  \* history: files whose .part file the receiving user has deleted
  raced,   \* history: files accepted anew while a handler finished them
  (* between them *)
  conn,    \* the last connection made
  up,      \* whether it is open
  toR,     \* messages of each connection not yet handled by the receiver
  toS,     \* messages of each connection not yet handled by the sender
  crashes, users, faults  \* counters for the bounds

rows     == <<srow, scp>>
starting == <<queue, slot, start, via>>
running  == <<run, stop, tries, asked>>
history  == <<late, rushed>>
senderVars == <<rows, out, starting, running, events, history>>
decision == <<policy, ask, decided>>
inbound  == <<has, got, rrow, rcp>>
disk     == <<part, final, purged, raced>>
receiverVars == <<inbound, decision, rpc, disk>>
link     == <<conn, up>>
counters == <<crashes, users, faults>>
vars == <<senderVars, receiverVars, link, toR, toS, counters>>

Terminal == {"complete", "rejected", "failed", "canceled"}
Status == {"none", "pending", "accepted"} \cup Terminal

\* A transfer in memory, and the absence of one.
Transfer(k) ==
  [known |-> TRUE, running |-> FALSE, done |-> FALSE, rejected |-> FALSE,
   canceled |-> FALSE, next |-> k]
NoTransfer == [Transfer(0) EXCEPT !.known = FALSE]

\* Messages.  A rejected response and a failed completion may carry the text
\* that stands for a cancellation.
Request(f, n) == [type |-> "request", file |-> f, n |-> n]
Data(f, k) == [type |-> "data", file |-> f, n |-> k]
Complete(f, status) == [type |-> "complete", file |-> f, n |-> 0, status |-> status]
Response(f, status, k) == [type |-> "response", file |-> f, n |-> k, status |-> status]

Init ==
  /\ srow = [f \in Files |-> "none"]
  /\ scp = [f \in Files |-> <<>>]
  /\ out = [f \in Files |-> NoTransfer]
  /\ queue = <<>>
  /\ slot = <<>>
  /\ start = [f \in Files |-> "no"]
  /\ run = [f \in Files |-> "off"]
  /\ via = [f \in Files |-> 0]
  /\ stop = [f \in Files |-> FALSE]
  /\ tries = [f \in Files |-> 0]
  /\ events = [f \in Files |-> <<>>]
  /\ asked = [f \in Files |-> 0]
  /\ late = {}
  /\ rushed = {}
  /\ policy \in Policies
  /\ rrow = [f \in Files |-> "none"]
  /\ rcp = [f \in Files |-> <<>>]
  /\ has = [f \in Files |-> FALSE]
  /\ got = [f \in Files |-> {}]
  /\ ask = [f \in Files |-> "no"]
  /\ decided = [f \in Files |-> 0]
  /\ rpc = [c \in Conns |-> <<>>]
  /\ part = [f \in Files |-> <<>>]
  /\ final = [f \in Files |-> <<>>]
  /\ purged = {}
  /\ raced = {}
  /\ conn = 0
  /\ up = FALSE
  /\ toR = [c \in Conns |-> <<>>]
  /\ toS = [c \in Conns |-> <<>>]
  /\ crashes = 0
  /\ users = 0
  /\ faults = 0

-----------------------------------------------------------------------------
(* Operations the actions share. *)

\* getConnection, with State() # DISCONNECTED: the number of the connection or 0.
Current == IF up THEN conn ELSE 0
Live(c) == c # 0 /\ c = Current

\* SendMessage on connection c; on a closed one it fails and nothing is sent.
Sent(link_, c, m) == IF Live(c) THEN [link_ EXCEPT ![c] = Append(@, m)] ELSE link_
SendToReceiver(c, m) == toR' = Sent(toR, c, m)
SendToSender(c, m) == toS' = Sent(toS, c, m)

\* The elements of a queue.
Members(q) == {q[i] : i \in 1 .. Len(q)}

\* enqueueOutboundTransfer: a file is queued once.
Enqueue(q, f, front) ==
  IF f \in Members(q) THEN q ELSE IF front THEN <<f>> \o q ELSE Append(q, f)

\* removeQueuedOutboundTransfer, of a queue that has the file once.
Dequeue(q, f) ==
  IF f \notin Members(q) THEN q
  ELSE LET i == CHOOSE i \in 1 .. Len(q) : q[i] = f
       IN  SubSeq(q, 1, i - 1) \o SubSeq(q, i + 1, Len(q))

\* Mutated form: the slot is never released.
FinishKeepsSlot(s, f) == s

\* finishOutboundTransfer: the slot is released only by the file in it.
FinishOutboundTransfer(s, f) == IF s = <<f>> THEN <<>> ELSE s

\* Mutated form: the slot is not looked at.
StartNextRegardless(q, s, st, c) ==
  IF c = 0 \/ q = <<>>
  THEN queue' = q /\ slot' = s /\ start' = st /\ UNCHANGED via
  ELSE /\ queue' = Tail(q)
       /\ slot' = <<Head(q)>>
       /\ start' = [st EXCEPT ![Head(q)] = "check"]
       /\ via' = [via EXCEPT ![Head(q)] = c]

\* startNextQueuedTransfer up to the release of transferQueueMu, from a queue, a
\* slot and the start steps as the caller leaves them; c is the connection read.
StartNextQueuedTransfer(q, s, st, c) ==
  IF c = 0 \/ s # <<>> \/ q = <<>>
  THEN queue' = q /\ slot' = s /\ start' = st /\ UNCHANGED via
  ELSE /\ queue' = Tail(q)
       /\ slot' = <<Head(q)>>
       /\ start' = [st EXCEPT ![Head(q)] = "check"]
       /\ via' = [via EXCEPT ![Head(q)] = c]

\* Mutated form: one chunk too many.
PersistedAhead(cp, next, every) ==
  IF next - (IF cp = <<>> THEN 0 ELSE cp[1]) >= every THEN <<next + 1>> ELSE cp

\* maybePersistOutboundCheckpoint, maybePersistInboundCheckpoint: not forced.
\* checkpointChunk is the checkpoint's chunk, or 0.
Persisted(cp, next, every) ==
  IF next - (IF cp = <<>> THEN 0 ELSE cp[1]) >= every THEN <<next>> ELSE cp

\* NextChunk of an inbound transfer that has received chunks s.
NextChunk(s) == CHOOSE k \in 0 .. N : k \notin s /\ \A i \in 0 .. k - 1 : i \in s

\* What is unlikely but possible, if b, counts towards MaxFaults.
Unlikely(b) ==
  IF b THEN faults < MaxFaults /\ faults' = faults + 1 ELSE UNCHANGED faults

\* What is readable in a file.
Content(file) == IF file = <<>> THEN {} ELSE file[1]

\* Mutated form: opened with O_TRUNC.
CreatedEmpty(file) == <<{}>>

\* The file after O_CREATE and Truncate to its full size.
Created(file) == IF file = <<>> THEN <<{}>> ELSE file

-----------------------------------------------------------------------------
(* The sender: queue and slot. *)

\* sendFileWithOptions.
SendFile(f) ==
  /\ srow[f] = "none"
  /\ srow' = [srow EXCEPT ![f] = "pending"]
  /\ out' = [out EXCEPT ![f] = Transfer(0)]
  /\ StartNextQueuedTransfer(Enqueue(queue, f, FALSE), slot, start, Current)
  /\ UNCHANGED <<scp, running, events, history, receiverVars, link, toR, toS, counters>>

\* startNextQueuedTransfer: the skip test; a skipped file frees the slot and
\* the loop goes on with the connection it has.
CheckStart(f) ==
  /\ start[f] = "check"
  /\ IF out[f].done \/ out[f].rejected \/ out[f].canceled
     THEN StartNextQueuedTransfer(queue, FinishOutboundTransfer(slot, f),
                                  [start EXCEPT ![f] = "no"], via[f])
     ELSE start' = [start EXCEPT ![f] = "begin"] /\ UNCHANGED <<queue, slot, via>>
  /\ UNCHANGED <<rows, out, running, events, history, receiverVars, link, toR, toS,
                 counters>>

\* beginOutboundFileTransfer: it returns without a run, and without freeing the
\* slot, if the transfer has ended in the meantime.
BeginOutboundFileTransfer(f) ==
  /\ start[f] = "begin"
  /\ start' = [start EXCEPT ![f] = "no"]
  /\ IF out[f].running \/ out[f].done \/ out[f].rejected \/ out[f].canceled
     THEN UNCHANGED <<out, run, stop>>
     ELSE /\ out' = [out EXCEPT ![f].running = TRUE]
          /\ run' = [run EXCEPT ![f] = "request"]
          /\ stop' = [stop EXCEPT ![f] = FALSE]
  /\ UNCHANGED <<rows, queue, slot, via, tries, asked, events, history, receiverVars,
                 link, toR, toS, counters>>

-----------------------------------------------------------------------------
(* The sender: runOutboundFileTransfer. *)

\* The run of f goes to step s; nothing else of the goroutine changes.
Goto(f, s) == run' = [run EXCEPT ![f] = s]

\* The event channel is registered and the file_request sent.
SendFileRequest(f) ==
  /\ run[f] = "request" /\ asked[f] < MaxRequests
  /\ events' = [events EXCEPT ![f] = <<>>]
  /\ asked' = [asked EXCEPT ![f] = @ + 1]
  /\ Goto(f, IF Live(via[f]) THEN "await" ELSE "capture")
  /\ SendToReceiver(via[f], Request(f, asked[f] + 1))
  /\ UNCHANGED <<rows, out, starting, stop, tries, history, receiverVars, link, toS,
                 counters>>

\* The steps of the run at which it selects on its event channel.
Waiting == {"await", "ack", "verdict"}
Registered(f) == run[f] \in Waiting \cup {"send"}

\* The run takes the next event of its channel, which satisfies ok.
Take(f, step, ok) ==
  /\ run[f] = step
  /\ events[f] # <<>>
  /\ ok
  /\ events' = [events EXCEPT ![f] = Tail(@)]

\* What ends the wait of a step.
Matches(f, e) ==
  CASE run[f] = "await" ->
         e.type = "response" /\ e.status \in {"accepted", "rejected", "canceled"}
    [] run[f] = "ack" ->
         /\ e.type = "response"
         /\ \/ e.status \in {"rejected", "canceled"}
            \/ e.status \in {"chunk_ack", "chunk_nack"} /\ e.n = out[f].next
    [] run[f] = "verdict" -> e.type = "complete"
    [] OTHER -> FALSE

\* The goroutine drops an event it does not wait for.
DropEvent(f) ==
  /\ run[f] \in Waiting /\ events[f] # <<>>
  /\ ~Matches(f, Head(events[f]))
  /\ events' = [events EXCEPT ![f] = Tail(@)]
  /\ UNCHANGED <<rows, out, starting, running, history, receiverVars, link, toR, toS,
                 counters>>

\* An accepted response: resume from the larger of both positions, and write
\* the first checkpoint.
TakeAccepted(f) ==
  LET e == Head(events[f])
      first == IF out[f].next > e.n THEN out[f].next ELSE e.n
  IN /\ Take(f, "await", Matches(f, e) /\ e.status = "accepted")
     /\ srow' = [srow EXCEPT ![f] = "accepted"]
     /\ out' = [out EXCEPT ![f].next = first]
     /\ scp' = [scp EXCEPT ![f] = <<first>>]
     /\ tries' = [tries EXCEPT ![f] = 0]
     /\ Goto(f, "send")
     /\ UNCHANGED <<starting, stop, asked, history, receiverVars, link, toR, toS,
                    counters>>

\* A rejected response, to the request or to a chunk.
TakeRejected(f, step) ==
  LET e == Head(events[f])
  IN /\ Take(f, step, Matches(f, e) /\ e.status \in {"rejected", "canceled"})
     /\ srow' = [srow EXCEPT ![f] = e.status]
     /\ out' = [out EXCEPT ![f].rejected = TRUE,
                           ![f].canceled = @ \/ e.status = "canceled"]
     /\ scp' = [scp EXCEPT ![f] = <<>>]
     /\ Goto(f, "capture")
     /\ UNCHANGED <<starting, stop, tries, asked, history, receiverVars, link, toR, toS,
                    counters>>

\* The top of the chunk loop looks at the context; a further attempt does not.
SendChunk(f) ==
  /\ run[f] = "send" /\ out[f].next < N
  /\ ~stop[f] \/ tries[f] > 0
  /\ SendToReceiver(via[f], Data(f, out[f].next))
  /\ Goto(f, IF Live(via[f]) THEN "ack" ELSE "capture")
  /\ UNCHANGED <<rows, out, starting, stop, tries, asked, events, history, receiverVars,
                 link, toS, counters>>

\* Mutated form: one attempt too many.
NextAttemptBeyond(f) ==
  /\ tries' = [tries EXCEPT ![f] = @ + 1]
  /\ Goto(f, IF tries[f] + 1 <= MaxRetries THEN "send" ELSE "capture")

\* After a nack or a timeout: try the chunk again, or give up.
NextAttempt(f) ==
  /\ tries' = [tries EXCEPT ![f] = @ + 1]
  /\ Goto(f, IF tries[f] + 1 < MaxRetries THEN "send" ELSE "capture")

TakeAck(f) ==
  LET e == Head(events[f])
      next == out[f].next + 1
  IN /\ Take(f, "ack", Matches(f, e) /\ e.status = "chunk_ack")
     /\ out' = [out EXCEPT ![f].next = next]
     /\ scp' = [scp EXCEPT ![f] = Persisted(@, next, OutEvery)]
     /\ tries' = [tries EXCEPT ![f] = 0]
     /\ Goto(f, "send")
     /\ UNCHANGED <<srow, starting, stop, asked, history, receiverVars, link, toR, toS,
                    counters>>

TakeNack(f) ==
  LET e == Head(events[f])
  IN /\ Take(f, "ack", Matches(f, e) /\ e.status = "chunk_nack")
     /\ NextAttempt(f)
     /\ UNCHANGED <<rows, out, starting, stop, asked, history, receiverVars, link, toR,
                    toS, counters>>

\* Every chunk is acknowledged: file_complete.
SendFileComplete(f) ==
  /\ run[f] = "send" /\ out[f].next = N
  /\ SendToReceiver(via[f], Complete(f, "complete"))
  /\ Goto(f, IF Live(via[f]) THEN "verdict" ELSE "capture")
  /\ UNCHANGED <<rows, out, starting, stop, tries, asked, events, history, receiverVars,
                 link, toS, counters>>

\* The receiver's file_complete.
TakeVerdict(f) ==
  LET e == Head(events[f])
  IN /\ Take(f, "verdict", Matches(f, e))
     /\ srow' = [srow EXCEPT ![f] = e.status]
     /\ out' = [out EXCEPT ![f].done = TRUE,
                           ![f].running = @ /\ e.status # "complete",
                           ![f].canceled = @ \/ e.status = "canceled"]
     /\ scp' = [scp EXCEPT ![f] = <<>>]
     /\ Goto(f, "capture")
     /\ UNCHANGED <<starting, stop, tries, asked, history, receiverVars, link, toR, toS,
                    counters>>

\* Mutated form: the wait for the answer to the request does not watch the connection.
InterruptedByUser(f) ==
  /\ \/ run[f] \in Waiting /\ stop[f]
     \/ run[f] = "send" /\ out[f].next < N /\ stop[f] /\ tries[f] = 0
  /\ Goto(f, "capture")
  /\ UNCHANGED <<rows, out, starting, stop, tries, asked, events, history, receiverVars,
                 link, toR, toS, counters>>

\* The context is cancelled, or the connection closes before there is an answer
\* to the request.
Interrupted(f) ==
  /\ \/ run[f] \in Waiting /\ stop[f]
     \/ run[f] = "send" /\ out[f].next < N /\ stop[f] /\ tries[f] = 0
     \/ run[f] = "await" /\ ~Live(via[f])
  /\ Goto(f, "capture")
  /\ UNCHANGED <<rows, out, starting, stop, tries, asked, events, history, receiverVars,
                 link, toR, toS, counters>>

\* A message about f is on its way, or being handled.
InFlight(f) ==
  \/ events[f] # <<>>
  \/ \E c \in Conns :
       \/ \E i \in 1 .. Len(toR[c]) : toR[c][i].file = f
       \/ \E i \in 1 .. Len(toS[c]) : toS[c][i].file = f
       \/ rpc[c] # <<>> /\ rpc[c][2] = f

\* FileResponseTimeout or FileCompleteTimeout passes.  Nothing comes any more,
\* or the timer beats what comes.
Timeout(f) ==
  /\ run[f] \in {"ack", "verdict"}
  /\ Unlikely(InFlight(f))
  /\ IF run[f] = "ack" THEN NextAttempt(f) ELSE Goto(f, "capture") /\ UNCHANGED tries
  /\ UNCHANGED <<rows, out, starting, stop, asked, events, history, receiverVars, link,
                 toR, toS, crashes, users>>

\* The end of the goroutine.  The channel is already unregistered; Running is
\* cleared and the outcome read under the lock, ...
CaptureOutcome(f) ==
  /\ run[f] = "capture"
  /\ out' = [out EXCEPT ![f].running = FALSE]
  /\ Goto(f, IF out[f].canceled THEN "canceled"
             ELSE IF out[f].done \/ out[f].rejected THEN "finish" ELSE "pending")
  /\ events' = [events EXCEPT ![f] = <<>>]
  /\ UNCHANGED <<rows, starting, stop, tries, asked, history, receiverVars, link, toR,
                 toS, counters>>

\* ... and acted on after it: the file is queued again, or recorded as canceled.
RequeuePending(f) ==
  /\ run[f] = "pending"
  /\ srow' = [srow EXCEPT ![f] = "pending"]
  /\ queue' = Enqueue(queue, f, TRUE)
  /\ Goto(f, "finish")
  /\ UNCHANGED <<scp, out, slot, start, via, stop, tries, asked, events, history,
                 receiverVars, link, toR, toS, counters>>

RecordCanceled(f) ==
  /\ run[f] = "canceled"
  /\ srow' = [srow EXCEPT ![f] = "canceled"]
  /\ scp' = [scp EXCEPT ![f] = <<>>]
  /\ Goto(f, "finish")
  /\ UNCHANGED <<out, starting, stop, tries, asked, events, history, receiverVars, link,
                 toR, toS, counters>>

FinishRun(f) ==
  /\ run[f] = "finish"
  /\ Goto(f, "off")
  /\ StartNextQueuedTransfer(queue, FinishOutboundTransfer(slot, f), start, Current)
  /\ UNCHANGED <<rows, out, stop, tries, asked, events, history, receiverVars, link,
                 toR, toS, counters>>

-----------------------------------------------------------------------------
(* The sender: its connectionLoop and its user. *)

\* The next message of connection c for the sender, of type t.
ReceiveAtSender(c, t) ==
  /\ toS[c] # <<>> /\ Head(toS[c]).type = t
  /\ toS' = [toS EXCEPT ![c] = Tail(@)]

\* handleFileResponse: to the event channel, if there is one.
HandleFileResponse(c) ==
  LET m == Head(toS[c])
  IN /\ ReceiveAtSender(c, "response")
     /\ events' = IF Registered(m.file) THEN [events EXCEPT ![m.file] = Append(@, m)]
                                        ELSE events
     /\ UNCHANGED <<rows, out, starting, running, history, receiverVars, link, toR,
                    counters>>

\* handleFileComplete at the sender.  Without a channel a cancellation is only
\* recorded, and a completion that comes late is applied if everything was sent.
HandleVerdict(c) ==
  LET m == Head(toS[c])
      f == m.file
      overdue ==
        /\ ~Registered(f) /\ m.status = "complete"
        /\ out[f].known /\ out[f].next = N /\ ~out[f].done
  IN /\ ReceiveAtSender(c, "complete")
     /\ events' = IF Registered(f) THEN [events EXCEPT ![f] = Append(@, m)] ELSE events
     /\ srow' = IF overdue \/ (~Registered(f) /\ m.status = "canceled")
                THEN [srow EXCEPT ![f] = m.status] ELSE srow
     /\ out' = IF overdue THEN [out EXCEPT ![f].done = TRUE, ![f].running = FALSE] ELSE out
     /\ scp' = IF overdue THEN [scp EXCEPT ![f] = <<>>] ELSE scp
     /\ late' = IF overdue /\ start[f] = "begin" THEN late \cup {f} ELSE late
     /\ UNCHANGED <<starting, running, rushed, receiverVars, link, toR, counters>>

\* handleFileComplete is working on f.
Finishing(f) == \E c \in Conns : rpc[c] # <<>> /\ rpc[c][2] = f

\* A goroutine of either side is in the middle of an attempt at f.
Busy(f) == run[f] # "off" \/ start[f] # "no" \/ Finishing(f)

\* One more cancel or retry.  The buttons are offered by the status shown.
UserActs == users < MaxUser /\ users' = users + 1

\* CancelTransfer of a transfer that is running: the run's goroutine does the rest.
CancelRunning(f) ==
  /\ UserActs
  /\ srow[f] \in {"pending", "accepted"} /\ out[f].running
  /\ ~(out[f].done \/ out[f].rejected \/ out[f].canceled)
  /\ out' = [out EXCEPT ![f].canceled = TRUE]
  /\ queue' = Dequeue(queue, f)
  /\ SendToReceiver(Current, Complete(f, "canceled"))
  /\ stop' = [stop EXCEPT ![f] = TRUE]
  /\ UNCHANGED <<rows, slot, start, via, run, tries, asked, events, history,
                 receiverVars, link, toS, crashes, faults>>

\* CancelTransfer of a transfer that is not running.
CancelQueued(f) ==
  /\ UserActs
  /\ srow[f] \in {"pending", "accepted"} /\ out[f].known /\ ~out[f].running
  /\ ~(out[f].done \/ out[f].rejected \/ out[f].canceled)
  /\ out' = [out EXCEPT ![f].canceled = TRUE, ![f].done = TRUE]
  /\ srow' = [srow EXCEPT ![f] = "canceled"]
  /\ scp' = [scp EXCEPT ![f] = <<>>]
  /\ StartNextQueuedTransfer(Dequeue(queue, f), FinishOutboundTransfer(slot, f), start,
                             Current)
  /\ UNCHANGED <<running, events, history, receiverVars, link, toR, toS, crashes,
                 faults>>

\* CancelTransfer of a file that a restart has forgotten.
CancelForgotten(f) ==
  /\ UserActs
  /\ srow[f] \in {"pending", "accepted"} /\ ~out[f].known
  /\ srow' = [srow EXCEPT ![f] = "canceled"]
  /\ UNCHANGED <<scp, out, starting, running, events, history, receiverVars, link, toR,
                 toS, crashes, faults>>

\* RetryTransfer.  A user is seldom faster than the goroutines of the last attempt.
RetryTransfer(f) ==
  /\ UserActs
  /\ srow[f] \in {"failed", "rejected", "canceled"} /\ ~out[f].running
  /\ Unlikely(Busy(f))
  /\ rushed' = IF Busy(f) THEN rushed \cup {f} ELSE rushed
  /\ out' = [out EXCEPT ![f] = Transfer(0)]
  /\ scp' = [scp EXCEPT ![f] = <<>>]
  /\ srow' = [srow EXCEPT ![f] = "pending"]
  /\ StartNextQueuedTransfer(Enqueue(queue, f, FALSE), slot, start, Current)
  /\ UNCHANGED <<running, events, late, receiverVars, link, toR, toS, crashes>>

-----------------------------------------------------------------------------
(* The receiver. *)

\* Its connectionLoop takes the next message of connection c, of type t.
ReceiveAtReceiver(c, t) ==
  /\ rpc[c] = <<>>
  /\ toR[c] # <<>> /\ Head(toR[c]).type = t
  /\ toR' = [toR EXCEPT ![c] = Tail(@)]

\* finalizeInboundFileRequest, not accepted: remembered, recorded, answered on
\* the connection of the moment.
Reject(f) ==
  /\ decided' = [decided EXCEPT ![f] = asked[f]]
  /\ rrow' = [rrow EXCEPT ![f] = "rejected"]
  /\ SendToSender(Current, Response(f, "rejected", 0))
  /\ UNCHANGED <<has, got, rcp, disk>>

\* finalizeInboundFileRequest, accepted: unless its row says canceled, the
\* transfer starts from nothing received, over whatever the .part file holds.
Accept(f) ==
  /\ decided' = [decided EXCEPT ![f] = 0]
  /\ IF rrow[f] = "canceled"
     THEN /\ SendToSender(Current, Response(f, "canceled", 0))
          /\ UNCHANGED <<inbound, disk>>
     ELSE /\ part' = [part EXCEPT ![f] = Created(@)]
          /\ has' = [has EXCEPT ![f] = TRUE]
          /\ got' = [got EXCEPT ![f] = {}]
          /\ rcp' = [rcp EXCEPT ![f] = <<0>>]
          /\ rrow' = [rrow EXCEPT ![f] = "accepted"]
          /\ SendToSender(Current, Response(f, "accepted", 0))
          /\ raced' = IF Finishing(f) THEN raced \cup {f} ELSE raced
          /\ UNCHANGED <<final, purged>>

\* handleFileRequest, refused by allowFileRequest.
HandleRequestLimited(c) ==
  /\ Limiting
  /\ ReceiveAtReceiver(c, "request")
  /\ SendToSender(c, Response(Head(toR[c]).file, "rejected", 0))
  /\ UNCHANGED <<senderVars, receiverVars, link, counters>>

\* handleFileRequest for a transfer that is under way: resume.
HandleRequestKnown(c) ==
  LET f == Head(toR[c]).file
  IN /\ ReceiveAtReceiver(c, "request")
     /\ has[f]
     /\ rrow' = [rrow EXCEPT ![f] = "accepted"]
     /\ SendToSender(c, Response(f, "accepted", NextChunk(got[f])))
     /\ UNCHANGED <<senderVars, has, got, rcp, decision, rpc, disk, link, counters>>

\* handleFileRequest sent before the file was rejected.
HandleRequestDecided(c) ==
  LET m == Head(toR[c])
      f == m.file
  IN /\ ReceiveAtReceiver(c, "request")
     /\ ~has[f] /\ m.n <= decided[f]
     /\ rrow' = [rrow EXCEPT ![f] = "rejected"]
     /\ SendToSender(c, Response(f, "rejected", 0))
     /\ UNCHANGED <<senderVars, has, got, rcp, decision, rpc, disk, link, counters>>

\* handleFileRequest for a new file: the policy decides, or a person is asked.  A
\* request that comes while the approval is pending is ignored.
HandleRequestNew(c) ==
  LET m == Head(toR[c])
      f == m.file
  IN /\ ReceiveAtReceiver(c, "request")
     /\ ~has[f] /\ m.n > decided[f]
     /\ CASE policy = "auto" -> Accept(f) /\ UNCHANGED ask
          [] policy = "refuse" -> Reject(f) /\ UNCHANGED ask
          [] policy = "ask" ->
               /\ ask' = [ask EXCEPT ![f] = IF @ = "no" THEN "asked" ELSE @]
               /\ decided' = [decided EXCEPT ![f] = 0]
               /\ UNCHANGED <<inbound, disk, toS>>
     /\ UNCHANGED <<senderVars, policy, rpc, link, counters>>

\* The approval goroutine: the person decides, ...
DecideRequest(f, accept) ==
  /\ ask[f] = "asked"
  /\ IF accept THEN Accept(f) ELSE Reject(f)
  /\ ask' = [ask EXCEPT ![f] = "ending"]
  /\ UNCHANGED <<senderVars, policy, rpc, link, toR, counters>>

\* ... or the prompt is dismissed because the sender has cancelled, ...
DismissRequest(f) ==
  /\ ask[f] = "asked" /\ rrow[f] = "canceled"
  /\ ask' = [ask EXCEPT ![f] = "ending"]
  /\ UNCHANGED <<senderVars, inbound, policy, decided, rpc, disk, link, toR, toS, counters>>

\* ... and endPendingFileApproval runs when the goroutine returns.
EndApproval(f) ==
  /\ ask[f] = "ending"
  /\ ask' = [ask EXCEPT ![f] = "no"]
  /\ UNCHANGED <<senderVars, inbound, policy, decided, rpc, disk, link, toR, toS, counters>>

\* handleFileData that ends in a nack: no such transfer, no .part file, or a
\* chunk that does not decrypt because the session was rekeyed.
NackFileData(c) ==
  LET m == Head(toR[c])
  IN /\ ReceiveAtReceiver(c, "data")
     /\ Unlikely(has[m.file] /\ part[m.file] # <<>>)
     /\ SendToSender(c, Response(m.file, "chunk_nack", m.n))
     /\ UNCHANGED <<senderVars, receiverVars, link, crashes, users>>

\* handleFileData: write, count, checkpoint, ack.
HandleFileData(c) ==
  LET m == Head(toR[c])
      f == m.file
      received == got[f] \cup {m.n}
  IN /\ ReceiveAtReceiver(c, "data")
     /\ has[f] /\ part[f] # <<>>
     /\ part' = [part EXCEPT ![f] = <<Content(@) \cup {m.n}>>]
     /\ got' = [got EXCEPT ![f] = received]
     /\ rcp' = [rcp EXCEPT ![f] = Persisted(@, NextChunk(received), InEvery)]
     /\ SendToSender(c, Response(f, "chunk_ack", m.n))
     /\ UNCHANGED <<senderVars, has, rrow, decision, rpc, final, purged, raced, link,
                    counters>>

\* The transfer of f is over at the receiver.
EndInbound(f, status) ==
  /\ rrow' = [rrow EXCEPT ![f] = status]
  /\ has' = [has EXCEPT ![f] = FALSE]
  /\ got' = [got EXCEPT ![f] = {}]
  /\ rcp' = [rcp EXCEPT ![f] = <<>>]

\* handleFileComplete: the sender has cancelled a transfer that is under way.
HandleCancel(c) ==
  LET m == Head(toR[c])
  IN /\ ReceiveAtReceiver(c, "complete")
     /\ m.status = "canceled" /\ has[m.file]
     /\ EndInbound(m.file, "canceled")
     /\ SendToSender(c, Complete(m.file, "canceled"))
     /\ UNCHANGED <<senderVars, decision, rpc, disk, link, counters>>

\* recordInboundCanceledBeforeApproval: there is none; a row is made or overwritten.
HandleCancelEarly(c) ==
  LET m == Head(toR[c])
  IN /\ ReceiveAtReceiver(c, "complete")
     /\ m.status = "canceled" /\ ~has[m.file]
     /\ rrow' = [rrow EXCEPT ![m.file] = "canceled"]
     /\ UNCHANGED <<senderVars, has, got, rcp, decision, rpc, disk, link, toS, counters>>

\* handleFileComplete of a transfer the receiver does not have: no answer.
IgnoreFileComplete(c) ==
  /\ ReceiveAtReceiver(c, "complete")
  /\ Head(toR[c]).status = "complete" /\ ~has[Head(toR[c]).file]
  /\ UNCHANGED <<senderVars, receiverVars, link, toS, counters>>

\* Mutated form: not compared.
ChecksumIgnored(f) == TRUE

\* The checksum of the .part file is that of the source.
ChecksumMatches(f) == Content(part[f]) = Chunks

\* handleFileComplete: the checksum, ...
VerifyFile(c) ==
  LET f == Head(toR[c]).file
  IN /\ ReceiveAtReceiver(c, "complete")
     /\ Head(toR[c]).status = "complete" /\ has[f]
     /\ IF ChecksumMatches(f)
        THEN /\ rpc' = [rpc EXCEPT ![c] = <<"rename", f>>]
             /\ UNCHANGED <<inbound, toS>>
        ELSE /\ EndInbound(f, "failed")
             /\ SendToSender(c, Complete(f, "failed"))
             /\ UNCHANGED rpc
     /\ UNCHANGED <<senderVars, decision, disk, link, counters>>

\* ... the rename, which fails if the .part file has been removed, ...
RenameFile(c) ==
  /\ rpc[c] # <<>> /\ rpc[c][1] = "rename"
  /\ LET f == rpc[c][2]
     IN IF part[f] # <<>>
        THEN /\ part' = [part EXCEPT ![f] = <<>>]
             /\ final' = [final EXCEPT ![f] = part[f]]
             /\ rpc' = [rpc EXCEPT ![c] = <<"record", f>>]
             /\ UNCHANGED <<inbound, purged, raced, toS>>
        ELSE /\ EndInbound(f, "failed")
             /\ SendToSender(c, Complete(f, "failed"))
             /\ rpc' = [rpc EXCEPT ![c] = <<>>]
             /\ UNCHANGED disk
  /\ UNCHANGED <<senderVars, decision, link, toR, counters>>

\* ... and the row and the answer.
RecordComplete(c) ==
  /\ rpc[c] # <<>> /\ rpc[c][1] = "record"
  /\ EndInbound(rpc[c][2], "complete")
  /\ SendToSender(c, Complete(rpc[c][2], "complete"))
  /\ rpc' = [rpc EXCEPT ![c] = <<>>]
  /\ UNCHANGED <<senderVars, decision, disk, link, toR, counters>>

\* CancelTransfer by the receiving user.
CancelInbound(f) ==
  /\ UserActs
  /\ rrow[f] \in {"pending", "accepted"} /\ has[f]
  /\ EndInbound(f, "canceled")
  /\ part' = [part EXCEPT ![f] = <<>>]
  /\ purged' = purged \cup {f}
  /\ SendToSender(Current, Complete(f, "canceled"))
  /\ UNCHANGED <<senderVars, decision, rpc, final, raced, link, toR, crashes, faults>>

-----------------------------------------------------------------------------
(* Connections and restarts. *)

\* registerConnection of a new connection, which starts the queue.
Connect ==
  /\ ~up /\ conn < MaxConns
  /\ conn' = conn + 1
  /\ up' = TRUE
  /\ StartNextQueuedTransfer(queue, slot, start, conn + 1)
  /\ UNCHANGED <<rows, out, running, events, history, receiverVars, toR, toS, counters>>

\* A queue of messages after its connection closed: those that had arrived may
\* still be handled (ReceiveMessage selects), the rest are lost.
Cut(q, i) == SubSeq(q, 1, i)

Disconnect ==
  /\ up
  /\ up' = FALSE
  /\ \E i \in 0 .. Len(toR[conn]) : toR' = [toR EXCEPT ![conn] = Cut(@, i)]
  /\ \E i \in 0 .. Len(toS[conn]) : toS' = [toS EXCEPT ![conn] = Cut(@, i)]
  /\ UNCHANGED <<senderVars, receiverVars, conn, counters>>

\* A process stops and is started again; the connection goes with it.
Restart ==
  /\ crashes < MaxCrashes
  /\ crashes' = crashes + 1
  /\ up' = FALSE
  /\ UNCHANGED <<conn, users, faults>>

\* restoreOutboundTransfer: what has a checkpoint and is not over is queued, the
\* most recently checkpointed first; any order stands for that.
Resumable(cp, row, f) == cp[f] # <<>> /\ row[f] \notin Terminal

SenderRestart ==
  LET S == {f \in Files : Resumable(scp, srow, f)}
  IN /\ Restart
     /\ scp' = [f \in Files |-> IF f \in S THEN scp[f] ELSE <<>>]
     /\ out' = [f \in Files |-> IF f \in S THEN Transfer(scp[f][1]) ELSE NoTransfer]
     /\ queue' \in {q \in [1 .. Cardinality(S) -> S] : Members(q) = S}
     /\ slot' = <<>>
     /\ start' = [f \in Files |-> "no"]
     /\ run' = [f \in Files |-> "off"]
     /\ via' = [f \in Files |-> 0]
     /\ stop' = [f \in Files |-> FALSE]
     /\ tries' = [f \in Files |-> 0]
     /\ events' = [f \in Files |-> <<>>]
     /\ late' = {} /\ rushed' = {}
     /\ toS' = [c \in Conns |-> <<>>]
     /\ IF up THEN \E i \in 0 .. Len(toR[conn]) : toR' = [toR EXCEPT ![conn] = Cut(@, i)]
              ELSE UNCHANGED toR
     /\ UNCHANGED <<srow, asked, receiverVars>>

\* restoreInboundTransfer: the chunks below the checkpoint count as received.
ReceiverRestart ==
  LET S == {f \in Files : Resumable(rcp, rrow, f)}
  IN /\ Restart
     /\ rcp' = [f \in Files |-> IF f \in S THEN rcp[f] ELSE <<>>]
     /\ has' = [f \in Files |-> f \in S]
     /\ got' = [f \in Files |-> IF f \in S THEN 0 .. rcp[f][1] - 1 ELSE {}]
     /\ part' = [f \in Files |-> IF f \in S THEN Created(part[f]) ELSE part[f]]
     /\ ask' = [f \in Files |-> "no"]
     /\ decided' = [f \in Files |-> 0]
     /\ rpc' = [c \in Conns |-> <<>>]
     /\ toR' = [c \in Conns |-> <<>>]
     /\ IF up THEN \E i \in 0 .. Len(toS[conn]) : toS' = [toS EXCEPT ![conn] = Cut(@, i)]
              ELSE UNCHANGED toS
     /\ UNCHANGED <<senderVars, rrow, policy, final, purged, raced>>

-----------------------------------------------------------------------------
(* The specification. *)

\* The goroutines of the sender working on f.
RunStep(f) ==
  \/ CheckStart(f) \/ BeginOutboundFileTransfer(f)
  \/ SendFileRequest(f) \/ DropEvent(f) \/ TakeAccepted(f)
  \/ TakeRejected(f, "await") \/ TakeRejected(f, "ack")
  \/ SendChunk(f) \/ TakeAck(f) \/ TakeNack(f) \/ SendFileComplete(f)
  \/ TakeVerdict(f) \/ Interrupted(f) \/ Timeout(f)
  \/ CaptureOutcome(f) \/ RequeuePending(f) \/ RecordCanceled(f) \/ FinishRun(f)

SenderLoop(c) == HandleFileResponse(c) \/ HandleVerdict(c)

ReceiverLoop(c) ==
  \/ HandleRequestLimited(c) \/ HandleRequestKnown(c) \/ HandleRequestDecided(c)
  \/ HandleRequestNew(c) \/ NackFileData(c) \/ HandleFileData(c) \/ HandleCancel(c)
  \/ HandleCancelEarly(c) \/ IgnoreFileComplete(c) \/ VerifyFile(c) \/ RenameFile(c)
  \/ RecordComplete(c)

Approval(f) ==
  \/ \E accept \in BOOLEAN : DecideRequest(f, accept)
  \/ DismissRequest(f) \/ EndApproval(f)

User(f) ==
  \/ SendFile(f) \/ CancelRunning(f) \/ CancelQueued(f) \/ CancelForgotten(f)
  \/ RetryTransfer(f) \/ CancelInbound(f)

Next ==
  \/ \E f \in Files : RunStep(f) \/ Approval(f) \/ User(f)
  \/ \E c \in Conns : SenderLoop(c) \/ ReceiverLoop(c)
  \/ Connect \/ Disconnect \/ SenderRestart \/ ReceiverRestart

\* Goroutines run, timers fire and people answer; nothing is asked of the
\* network, the processes, or what users choose to do.
Fairness ==
  /\ \A f \in Files : WF_vars(RunStep(f)) /\ WF_vars(Approval(f))
  /\ \A c \in Conns : WF_vars(SenderLoop(c)) /\ WF_vars(ReceiverLoop(c))

Spec == Init /\ [][Next]_vars /\ Fairness
-----------------------------------------------------------------------------
(* Properties. *)

Option(S) == {<<>>} \cup {<<x>> : x \in S}
Outbound ==
  [known : BOOLEAN, running : BOOLEAN, done : BOOLEAN, rejected : BOOLEAN,
   canceled : BOOLEAN, next : 0 .. N]
ToReceiver ==
  [type : {"request"}, file : Files, n : Nat] \cup [type : {"data"}, file : Files, n : Chunks]
    \cup [type : {"complete"}, file : Files, n : {0}, status : {"complete", "canceled"}]
Verdict ==
  [type : {"complete"}, file : Files, n : {0}, status : {"complete", "failed", "canceled"}]
Answer ==
  [type : {"response"}, file : Files, n : 0 .. N,
   status : {"accepted", "rejected", "canceled", "chunk_ack", "chunk_nack"}]
ToSender == Verdict \cup Answer

RowsOK == srow \in [Files -> Status] /\ scp \in [Files -> Option(0 .. N)]
QueueOK ==
  /\ queue \in Seq(Files) /\ slot \in Option(Files)
  /\ start \in [Files -> {"no", "check", "begin"}]
  /\ via \in [Files -> 0 .. MaxConns]
RunOK ==
  /\ out \in [Files -> Outbound]
  /\ run \in [Files -> {"off", "request", "send", "capture", "pending", "canceled",
                        "finish"} \cup Waiting]
  /\ stop \in [Files -> BOOLEAN] /\ tries \in [Files -> 0 .. MaxRetries]
  /\ asked \in [Files -> 0 .. MaxRequests]
  /\ late \subseteq Files /\ rushed \subseteq Files
InboundOK ==
  /\ rrow \in [Files -> Status] /\ rcp \in [Files -> Option(0 .. N)]
  /\ has \in [Files -> BOOLEAN] /\ got \in [Files -> SUBSET Chunks]
  /\ policy \in Policies
  /\ ask \in [Files -> {"no", "asked", "ending"}]
  /\ decided \in [Files -> 0 .. MaxRequests]
DiskOK ==
  /\ part \in [Files -> Option(SUBSET Chunks)] /\ final \in [Files -> Option(SUBSET Chunks)]
  /\ purged \subseteq Files /\ raced \subseteq Files
LinkOK ==
  /\ conn \in 0 .. MaxConns /\ up \in BOOLEAN
  /\ events \in [Files -> Seq(ToSender)]
  /\ toR \in [Conns -> Seq(ToReceiver)] /\ toS \in [Conns -> Seq(ToSender)]
  /\ rpc \in [Conns -> {<<>>} \cup ({"rename", "record"} \X Files)]
  /\ crashes \in 0 .. MaxCrashes /\ users \in 0 .. MaxUser /\ faults \in 0 .. MaxFaults

\* The variables have the values the code's types and counters allow: no chunk
\* beyond the last one, no attempt beyond MaxRetries.
TypeOK == RowsOK /\ QueueOK /\ RunOK /\ InboundOK /\ DiskOK /\ LinkOK

\* A file either side reports as complete is on the receiver's disk, whole, whatever
\* restarts, cancels, retries and late messages came before (handleFileComplete),
\* unless it was accepted anew while a connection's handler was between the checksum
\* and the row.
CompleteIsDelivered ==
  \A f \in Files \ raced :
    "complete" \in {srow[f], rrow[f]} => final[f] = <<Chunks>>

\* What the sender will not send again, because it resumes from the larger of the
\* two positions (runOutboundFileTransfer), is in the .part file of a receiver that
\* has not finished it, even if a restart or a failure has lost its count; unless
\* the receiving user has deleted that file by a cancel.
SkippedIsOnDisk ==
  \A f \in Files :
    out[f].known /\ final[f] = <<>> /\ f \notin purged
      => 0 .. out[f].next - 1 \subseteq Content(part[f])

\* Chunks the receiver would not ask for again are in its .part file, unless
\* the file is already in place.
ResumeIsOnDisk ==
  \A f \in Files : has[f] /\ final[f] = <<>> => got[f] \subseteq Content(part[f])

\* A file in place stays in place as it is: no restart, cancel, retry, late message or
\* second transfer of it replaces it with anything else (handleFileComplete), unless
\* it was accepted anew while a handler was finishing it.
FinishedStays ==
  [][\A f \in Files \ raced' : final[f] # <<>> => final'[f] = final[f]]_vars

\* At most one file of the peer's queue is being sent at a time, whatever users
\* cancel and retry meanwhile (activeOutboundTransfer), not counting a file retried
\* before the goroutines of its last attempt had ended.
Active(f) == run[f] \in {"request", "send"} \cup Waiting
OneActive == Cardinality({f \in Files \ rushed : Active(f)}) <= 1

\* The slot is held only by a file some goroutine is working on, whatever users cancel
\* and retry and whenever a completion comes; except by a file that a late completion
\* ended after startNextQueuedTransfer had found it unfinished and before
\* beginOutboundFileTransfer looked again, which then starts nothing and leaves the
\* slot taken, or one retried before the goroutines of its last attempt had ended.
SlotIsUsed ==
  \A f \in Files \ (late \cup rushed) :
    slot = <<f>> => run[f] # "off" \/ start[f] # "no"

\* While the peers are connected every file in the sender's memory reaches a
\* verdict, unless a user interferes or a timer beats an answer (the runs, the
\* requeueing, the drain of the queue on a new connection).
Settles ==
  \A f \in Files :
    out[f].known ~>
      srow[f] \in Terminal \/ ~up \/ ~out[f].known \/ users > 0 \/ faults > 0

\* A file that no user has canceled and the sender reports as failed has not been
\* delivered.
FailedIsNotDelivered ==
  \A f \in Files : users = 0 /\ srow[f] = "failed" => final[f] = <<>>
=============================================================================
