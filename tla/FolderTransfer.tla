--------------------------- MODULE FolderTransfer ---------------------------
(***************************************************************************)
(* A folder sent to a peer, from the drop on the chat to the cards of its  *)
(* files: one thread of the sender's user interface sends the envelope,    *)
(* waits for the answer, queues the files and then makes their cards       *)
(* (SendFolder in network/file_transfer.go, queuePathsForPeer in           *)
(* ui/chat_window.go); the receiver asks its user inside the connection    *)
(* loop, and later takes the files on the strength of the envelope it has  *)
(* in memory; goroutines at the sender run the files, write rows and tell  *)
(* the cards, as do the clicks of the user and the connection loops.  The  *)
(* chunks of a file, its event channel and its verdict on disk are in      *)
(* module FileTransfer; here a file is one chunk.                          *)
(***************************************************************************)
EXTENDS TransferCards, Sequences, FiniteSets, SequencesExt

CONSTANTS FileCount,   \* files in the folder, in the order of their paths
          Limit,       \* FileRequestRateLimit
          Task,        \* the sender's goroutines that run files, a bound on those alive at once
          MaxClicks,   \* bound on cancels, retries and clears
          MaxFaults,   \* bound on lost connections, restarts of the receiver, runs given up
          MaxWindows   \* bound on steps of the rate limiter's window

\* The files of the manifest.
File == 1..FileCount

\* The connections of the two devices, one after the other.
Conn == 1..(MaxFaults + 1)

\* Where a goroutine is, having been given a connection (via), and what it is
\* telling the card of its file.
Stage == {"begun", "asked", "sending", "progress", "sent", "told", "over",
          "requeue", "record", "recorded", "finish"}
Work == [file : File, at : Stage, via : Conn, tells : Card \cup {None}]

\* What a connection loop is telling the card of a file.
News == [file : File, entry : Card]

ASSUME FolderAssumption ==
    /\ FileCount \in Nat /\ Limit \in Nat \ {0}
    /\ {MaxClicks, MaxFaults, MaxWindows} \subseteq Nat
    /\ None \notin Card \cup Work \cup News

VARIABLES conn, up,   \* the last connection made, and whether it is open
          toReceiver, toSender, \* the messages of each connection still to be handled
          phase,    \* queuePathsForPeer: idle, waiting, queueing, showing, returned
          next,     \* the file it is at
          envelope, \* the sender's row of the folder
          row,      \* the sender's rows of the files
          queue, slot, \* outboundTransferQueue and activeOutboundTransfer (0: none) of the peer
          task,     \* what each goroutine of beginOutboundFileTransfer is at, or None
          running,  \* the files with Running
          done, rejected, canceled, \* the files with Done, with Rejected, with Canceled
          sent,     \* the files whose bytes have all been sent
          card,     \* the live entries
          heard,    \* what each connection loop of the sender is telling a card, or None
          click,    \* what the user's clicks on a file have still to tell its card
          late,     \* history: files called pending by the interface after their end
          crossed,  \* history: files whose end crossed a requeue, a new run or a retry
          prompt,   \* the receiver's connection loop that waits for its user, or 0
          folder,   \* the receiver's inboundFolderTransfers: none, full, or empty
          answer,   \* the receiver's row of the folder
          inbound,  \* the receiver's state of each file
          admitted, recent, \* fileRequestHistory and fileRequestSeenIDs
          limited, forgot, \* the files refused while others had the slots; whether a restart lost the envelope
          clicks, faults, windows

wire == <<conn, up, toReceiver, toSender>>
thread == <<phase, next, envelope>>
line == <<queue, slot>>
flags == <<running, done, rejected, canceled, sent>>
runs == <<row, line, task, flags>>
cards == <<card, heard, click, late>>
receiver == <<prompt, folder, answer, inbound>>
limiter == <<admitted, recent, limited>>
bounds == <<clicks, faults, windows>>
vars == <<wire, thread, runs, cards, crossed, receiver, limiter, forgot, bounds>>

Init ==
    /\ conn = 1
    /\ up = TRUE
    /\ toReceiver = [c \in Conn |-> <<>>]
    /\ toSender = [c \in Conn |-> <<>>]
    /\ phase = "idle"
    /\ next = 1
    /\ envelope = "none"
    /\ row = [f \in File |-> "none"]
    /\ queue = <<>>
    /\ slot = 0
    /\ task = [t \in Task |-> None]
    /\ running = {}
    /\ done = {}
    /\ rejected = {}
    /\ canceled = {}
    /\ sent = {}
    /\ card = [f \in File |-> None]
    /\ heard = [c \in Conn |-> None]
    /\ click = [f \in File |-> <<>>]
    /\ late = {}
    /\ crossed = {}
    /\ prompt = 0
    /\ folder = "none"
    /\ answer = "none"
    /\ inbound = [f \in File |-> "none"]
    /\ admitted = <<>>
    /\ recent = {}
    /\ limited = {}
    /\ forgot = FALSE
    /\ clicks = 0
    /\ faults = 0
    /\ windows = 0

\* A message, by type, of a file or (0) of the folder.
Message(type, f) == [type |-> type, file |-> f]

\* getConnection: the open connection, or 0.
Current == IF up THEN conn ELSE 0
Live(c) == c # 0 /\ c = Current

\* SendMessage on connection c: what is sent on a lost one is lost.
Sent(channels, c, type, f) ==
    IF Live(c) THEN [channels EXCEPT ![c] = Append(@, Message(type, f))] ELSE channels
Send(c, type, f) == toReceiver' = Sent(toReceiver, c, type, f)
Reply(c, type, f) == toSender' = Sent(toSender, c, type, f)

\* The sender's connection loop takes its next message, unless it is still
\* telling a card of the last one.
Hears(c, type, f) ==
    /\ heard[c] = None
    /\ toSender[c] # <<>>
    /\ Head(toSender[c]) = Message(type, f)
    /\ toSender' = [toSender EXCEPT ![c] = Tail(@)]

\* The receiver's takes its next, unless it waits for its user.
Takes(c, type, f) ==
    /\ prompt # c
    /\ toReceiver[c] # <<>>
    /\ Head(toReceiver[c]) = Message(type, f)
    /\ toReceiver' = [toReceiver EXCEPT ![c] = Tail(@)]

-----------------------------------------------------------------------------
(* The thread of the drop.                                                 *)

\* SendFolder up to the wait for the answer.
SendFolder ==
    /\ phase = "idle"
    /\ up
    /\ phase' = "waiting"
    /\ envelope' = "pending"
    /\ Send(conn, "folder_request", 0)
    /\ UNCHANGED <<conn, up, toSender, next, runs, cards, crossed, receiver, limiter, forgot, bounds>>

\* Mutated form: no answer counts as an acceptance.
GoesOnUnanswered ==
    /\ phase = "waiting"
    /\ phase' = "queueing"
    /\ envelope' = "accepted"
    /\ UNCHANGED <<wire, next, runs, cards, crossed, receiver, limiter, forgot, bounds>>

\* waitForFolderResponse times out: the row of the folder stays pending.
FolderTimesOut ==
    /\ phase = "waiting"
    /\ phase' = "returned"
    /\ UNCHANGED <<wire, next, envelope, runs, cards, crossed, receiver, limiter, forgot, bounds>>

\* handleFolderTransferResponse, and SendFolder with the answer; nobody waits
\* for a late one.
HandleFolderResponse(c, status) ==
    /\ Hears(c, status, 0)
    /\ IF phase = "waiting"
       THEN /\ envelope' = IF status = "accepted" /\ FileCount = 0 THEN "complete" ELSE status
            /\ phase' = IF status = "accepted" /\ FileCount > 0 THEN "queueing" ELSE "returned"
       ELSE UNCHANGED <<envelope, phase>>
    /\ UNCHANGED <<conn, up, toReceiver, next, runs, cards, crossed, receiver, limiter, forgot, bounds>>

\* Mutated form: the count of the last loop is not reset for the next.
AdvanceOnly(then) ==
    /\ next' = next + 1
    /\ phase' = IF next < FileCount THEN phase ELSE then

\* The thread moves to the next file, or on to what follows the last.
Advance(then) ==
    /\ next' = IF next < FileCount THEN next + 1 ELSE 1
    /\ phase' = IF next < FileCount THEN phase ELSE then

\* enqueueOutboundTransfer: a file is queued once.
Enqueue(f, front) ==
    IF f \in ToSet(queue) THEN queue ELSE IF front THEN <<f>> \o queue ELSE Append(queue, f)

\* removeQueuedOutboundTransfer, of a queue that has the file once.
Dequeue(f) ==
    IF f \notin ToSet(queue) THEN queue ELSE RemoveAt(queue, CHOOSE i \in DOMAIN queue : queue[i] = f)

\* finishOutboundTransfer: the slot is released only by the file in it.
FinishOutboundTransfer(f) == IF slot = f THEN 0 ELSE slot

\* sendFileWithOptions for one file of the folder.
QueueFile ==
    /\ phase = "queueing"
    /\ row' = [row EXCEPT ![next] = "pending"]
    /\ queue' = Enqueue(next, FALSE)
    /\ Advance("showing")
    /\ UNCHANGED <<wire, envelope, slot, task, flags, cards, crossed, receiver, limiter, forgot, bounds>>

\* A file cannot be read any more: the files queued before it get no entry here.
QueueFails ==
    /\ phase = "queueing"
    /\ phase' = "returned"
    /\ UNCHANGED <<wire, next, envelope, runs, cards, crossed, receiver, limiter, forgot, bounds>>

\* The interface says pending of a file it has queued, or queued again; that
\* is late when its run has ended.
CallPending(f) == late' = IF row[f] \in Terminal THEN late \cup {f} ELSE late

\* queuePathsForPeer, once SendFolder has returned: the entry of one file.
ShowQueued ==
    /\ phase = "showing"
    /\ card' = [card EXCEPT ![next] = UpsertFileTransfer(@, Entry("pending", 0))]
    /\ CallPending(next)
    /\ Advance("returned")
    /\ UNCHANGED <<wire, envelope, runs, heard, click, crossed, receiver, limiter, forgot, bounds>>

-----------------------------------------------------------------------------
(* The runs of the files at the sender.                                    *)

\* The outcome of a file is known: beginOutboundFileTransfer does not start it.
Ended(f) == f \in done \cup rejected \cup canceled

\* Some goroutine is at work on f; its run has its event channel registered.
At(t, f, stages) == task[t] # None /\ task[t].file = f /\ task[t].at \in stages
Busy(f) == \E t \in Task : At(t, f, Stage)
Registered == {"asked", "sending", "progress", "sent", "told"}
Listening(f) == \E t \in Task : At(t, f, Registered)

\* BytesSent, of a file that is one chunk.
Bytes(f) == IF f \in sent THEN 1 ELSE 0

\* Goroutine t goes to another step, and may have something to tell the card.
Goto(t, stage) == task' = [task EXCEPT ![t].at = stage, ![t].tells = None]
Tell(t, stage, event, rowThen) ==
    task' = [task EXCEPT ![t].at = stage, ![t].tells = HandleFileProgress(event, rowThen)]

\* startNextQueuedTransfer, which follows each change of the queue, the slot or
\* the connection, and beginOutboundFileTransfer up to the goroutine: a file that
\* has ended meanwhile is passed over, one that still runs keeps the slot.
StartNext(t) ==
    /\ task[t] = None
    /\ queue # <<>>
    /\ slot = 0
    /\ up
    /\ queue' = Tail(queue)
    /\ LET f == Head(queue) IN
       IF Ended(f)
       THEN UNCHANGED <<slot, running, task>>
       ELSE /\ slot' = f
            /\ running' = running \cup {f}
            /\ task' = IF f \in running THEN task
                       ELSE [task EXCEPT ![t] = [file |-> f, at |-> "begun", via |-> conn, tells |-> None]]
    /\ UNCHANGED <<wire, thread, row, done, rejected, canceled, sent, cards, crossed, receiver, limiter, forgot, bounds>>

\* runOutboundFileTransfer: the event channel and the request.
AskFile(t) ==
    /\ task[t] # None /\ task[t].at = "begun"
    /\ Send(task[t].via, "file_request", task[t].file)
    /\ Goto(t, IF Live(task[t].via) THEN "asked" ELSE "over")
    /\ UNCHANGED <<conn, up, toSender, thread, row, line, flags, cards, crossed, receiver, limiter, forgot, bounds>>

\* The answer is an acceptance, whichever connection it comes on.
HandleAccepted(c, f) ==
    /\ Hears(c, "accepted", f)
    /\ \/ \E t \in Task : /\ At(t, f, {"asked"})
                          /\ Goto(t, "sending")
                          /\ row' = [row EXCEPT ![f] = "accepted"]
       \/ /\ ~ \E t \in Task : At(t, f, {"asked"})
          /\ UNCHANGED <<row, task>>
    /\ UNCHANGED <<conn, up, toReceiver, thread, line, flags, cards, crossed, receiver, limiter, forgot, bounds>>

\* It is a refusal, which may say that the transfer has been canceled, and ends
\* the wait for the answer to a chunk as well.
HandleRefused(c, f, status) ==
    /\ Hears(c, status, f)
    /\ \/ \E t \in Task : /\ At(t, f, {"asked", "sending"})
                          /\ Tell(t, "told", Entry(status, 0), status)
                          /\ row' = [row EXCEPT ![f] = status]
                          /\ rejected' = rejected \cup {f}
                          /\ canceled' = IF status = "canceled" THEN canceled \cup {f} ELSE canceled
       \/ /\ ~ \E t \in Task : At(t, f, {"asked"})
          /\ UNCHANGED <<row, task, rejected, canceled>>
    /\ UNCHANGED <<conn, up, toReceiver, thread, line, running, done, sent, cards, crossed, receiver, limiter, forgot,
                   bounds>>

\* The chunk is sent and acknowledged, if an earlier run has not seen to it.
SendData(t) ==
    /\ task[t] # None /\ task[t].at = "sending"
    /\ LET f == task[t].file IN
       /\ f \notin sent
       /\ Live(task[t].via)
       /\ sent' = sent \cup {f}
       /\ Tell(t, "progress", Entry("accepted", 1), row[f])
    /\ UNCHANGED <<wire, thread, row, line, running, done, rejected, canceled, cards, crossed, receiver, limiter, forgot,
                   bounds>>

\* The run announces the end of the file.
SendComplete(t) ==
    /\ task[t] # None /\ task[t].at = "sending"
    /\ task[t].file \in sent
    /\ Send(task[t].via, "file_complete", task[t].file)
    /\ Goto(t, IF Live(task[t].via) THEN "sent" ELSE "over")
    /\ UNCHANGED <<conn, up, toSender, thread, row, line, flags, cards, crossed, receiver, limiter, forgot, bounds>>

\* The receiver's verdict, or its reply to an earlier cancel, when the run
\* waits for a verdict.
HandleVerdict(c, f, type, status) ==
    /\ Hears(c, type, f)
    /\ \E t \in Task : At(t, f, {"sent"}) /\ Tell(t, "told", Entry(status, 1), status)
    /\ row' = [row EXCEPT ![f] = status]
    /\ running' = IF status = "complete" THEN running \ {f} ELSE running
    /\ done' = done \cup {f}
    /\ canceled' = IF status = "canceled" THEN canceled \cup {f} ELSE canceled
    /\ UNCHANGED <<conn, up, toReceiver, thread, line, rejected, sent, cards, crossed, receiver, limiter, forgot, bounds>>

\* One that comes while the run waits for something else is dropped; one that
\* comes just before the wait stays in the event channel.
DropVerdict(c, f, type) ==
    /\ Hears(c, type, f)
    /\ \E t \in Task : At(t, f, {"asked", "sending", "told"})
    /\ UNCHANGED <<conn, up, toReceiver, thread, runs, cards, crossed, receiver, limiter, forgot, bounds>>

\* runOutboundFileTransfer returns without an outcome: it is canceled, or its
\* connection is lost (that ends the wait for the verdict by its timer, since
\* waitForFileComplete does not watch the connection), ...
RunStops(t) ==
    /\ task[t] # None /\ task[t].at \in {"asked", "sending", "sent"}
    /\ task[t].file \in canceled \/ ~ Live(task[t].via)
    /\ Goto(t, "over")
    /\ UNCHANGED <<wire, thread, row, line, flags, cards, crossed, receiver, limiter, forgot, bounds>>

\* ... or it gives a chunk up, or its timer runs out.
RunGivesUp(t) ==
    /\ task[t] # None /\ task[t].at \in {"sending", "sent"}
    /\ faults < MaxFaults
    /\ faults' = faults + 1
    /\ Goto(t, "over")
    /\ UNCHANGED <<wire, thread, row, line, flags, cards, crossed, receiver, limiter, forgot, clicks, windows>>

\* The end of the goroutine: under the lock of the transfer, Running is cleared
\* and the outcome read, ...
CaptureOutcome(t) ==
    /\ task[t] # None /\ task[t].at = "over"
    /\ LET f == task[t].file IN
       /\ running' = running \ {f}
       /\ Goto(t, IF f \in canceled THEN "record" ELSE IF Ended(f) THEN "finish" ELSE "requeue")
    /\ UNCHANGED <<wire, thread, row, line, done, rejected, canceled, sent, cards, crossed, receiver, limiter, forgot,
                   bounds>>

\* ... and acted on after it: the file is queued again, even if a cancel or a
\* late completion has ended it meanwhile, ...
RequeuePending(t) ==
    /\ task[t] # None /\ task[t].at = "requeue"
    /\ LET f == task[t].file IN
       /\ row' = [row EXCEPT ![f] = "pending"]
       /\ queue' = Enqueue(f, TRUE)
       /\ crossed' = IF Ended(f) THEN crossed \cup {f} ELSE crossed
    /\ Goto(t, "finish")
    /\ UNCHANGED <<wire, thread, slot, flags, cards, receiver, limiter, forgot, bounds>>

\* Mutated form: the card is not told.
RecordUntold(t) ==
    /\ task[t] # None /\ task[t].at = "record"
    /\ row' = [row EXCEPT ![task[t].file] = "canceled"]
    /\ Goto(t, "finish")
    /\ UNCHANGED <<wire, thread, line, flags, cards, crossed, receiver, limiter, forgot, bounds>>

\* ... or recorded as canceled, and told so.
RecordCanceled(t) ==
    /\ task[t] # None /\ task[t].at = "record"
    /\ LET f == task[t].file IN
       /\ row' = [row EXCEPT ![f] = "canceled"]
       /\ Tell(t, "recorded", Entry("canceled", Bytes(f)), "canceled")
    /\ UNCHANGED <<wire, thread, line, flags, cards, crossed, receiver, limiter, forgot, bounds>>

\* The last of the goroutine: it releases the slot.
FinishRun(t) ==
    /\ task[t] # None /\ task[t].at = "finish"
    /\ slot' = FinishOutboundTransfer(task[t].file)
    /\ task' = [task EXCEPT ![t] = None]
    /\ UNCHANGED <<wire, thread, row, queue, flags, cards, crossed, receiver, limiter, forgot, bounds>>

\* The end of handleFileProgress for a goroutine: the card of its file changes,
\* and it goes on.
Then(stage) ==
    CASE stage = "progress" -> "sending" [] stage = "told" -> "over" [] stage = "recorded" -> "finish"

Show(t) ==
    /\ task[t] # None /\ task[t].at \in {"progress", "told", "recorded"}
    /\ card' = [card EXCEPT ![task[t].file] = UpsertFileTransfer(@, task[t].tells)]
    /\ Goto(t, Then(task[t].at))
    /\ UNCHANGED <<wire, thread, row, line, flags, heard, click, late, crossed, receiver, limiter, forgot, bounds>>

\* handleFileComplete without an event channel: a late success is still
\* recorded, if all was sent and nothing else was; a run that has not yet
\* registered its channel is not held up by it.
HandleLateVerdict(c, f, status) ==
    /\ Hears(c, status, f)
    /\ ~ Listening(f)
    /\ IF status = "complete" /\ f \in sent \ done
       THEN /\ row' = [row EXCEPT ![f] = "complete"]
            /\ done' = done \cup {f}
            /\ running' = running \ {f}
            /\ heard' = [heard EXCEPT ![c] =
                 [file |-> f, entry |-> HandleFileProgress(Entry("complete", 1), "complete")]]
            /\ crossed' = IF \E t \in Task : At(t, f, {"begun"}) THEN crossed \cup {f} ELSE crossed
       ELSE UNCHANGED <<row, done, running, heard, crossed>>
    /\ UNCHANGED <<conn, up, toReceiver, thread, line, task, rejected, canceled, sent, card, click, late,
                   receiver, limiter, forgot, bounds>>

\* The receiver's reply to a cancel reaches a sender that no longer runs the
\* file: recordInboundCanceledBeforeApproval takes the sender's own row.
HandleCancelReply(c, f) ==
    /\ Hears(c, "cancel", f)
    /\ ~ Listening(f)
    /\ row' = [row EXCEPT ![f] = "canceled"]
    /\ heard' = [heard EXCEPT ![c] =
         [file |-> f, entry |-> HandleFileProgress(Entry("canceled", 0), "canceled")]]
    /\ UNCHANGED <<conn, up, toReceiver, thread, line, task, flags, card, click, late, crossed,
                   receiver, limiter, forgot, bounds>>

ShowHeard(c) ==
    /\ heard[c] # None
    /\ card' = [card EXCEPT ![heard[c].file] = UpsertFileTransfer(@, heard[c].entry)]
    /\ heard' = [heard EXCEPT ![c] = None]
    /\ UNCHANGED <<wire, thread, runs, click, late, crossed, receiver, limiter, forgot, bounds>>

-----------------------------------------------------------------------------
(* The user of the sender.                                                 *)

\* The card as the chat shows it.
Display(f) == MergeChatFileEntry(row[f], card[f])

Clickable(f) == row[f] # "none" /\ click[f] = <<>> /\ clicks < MaxClicks

\* cancelTransferFromUI, CancelTransfer of a file that does not run, whether it
\* waits in the queue or its goroutine is about to queue it again.
CancelQueued(f) ==
    /\ Clickable(f)
    /\ CanCancel(Display(f))
    /\ f \notin running
    /\ ~ Ended(f)
    /\ clicks' = clicks + 1
    /\ queue' = Dequeue(f)
    /\ slot' = FinishOutboundTransfer(f)
    /\ row' = [row EXCEPT ![f] = "canceled"]
    /\ done' = done \cup {f}
    /\ canceled' = canceled \cup {f}
    /\ click' = [click EXCEPT ![f] = <<HandleFileProgress(Entry("canceled", Bytes(f)), "canceled"),
                                       Entry("canceled", 0)>>]
    /\ UNCHANGED <<wire, thread, task, running, rejected, sent, card, heard, late, crossed, receiver, limiter, forgot, faults, windows>>

\* The same of a file that runs: the peer is told, and the run ends at its next
\* wait.
CancelRunning(f) ==
    /\ Clickable(f)
    /\ CanCancel(Display(f))
    /\ f \in running
    /\ ~ Ended(f)
    /\ clicks' = clicks + 1
    /\ queue' = Dequeue(f)
    /\ canceled' = canceled \cup {f}
    /\ Send(Current, "cancel", f)
    /\ click' = [click EXCEPT ![f] = <<Entry("canceled", 0)>>]
    /\ UNCHANGED <<conn, up, toSender, thread, row, slot, task, running, done, rejected, sent, card, heard, late, crossed,
                   receiver, limiter, forgot, faults, windows>>

\* The same of a file that has ended: only the card is told.
CancelEnded(f) ==
    /\ Clickable(f)
    /\ CanCancel(Display(f))
    /\ Ended(f)
    /\ clicks' = clicks + 1
    /\ click' = [click EXCEPT ![f] = <<Entry("canceled", 0)>>]
    /\ UNCHANGED <<wire, thread, runs, card, heard, late, crossed, receiver, limiter, forgot, faults, windows>>

\* retryTransferFromUI and RetryTransfer, which refuses while the file runs, and
\* does not wait for a goroutine that has cleared Running to end.
RetryTransfer(f) ==
    /\ Clickable(f)
    /\ CanRetry(Display(f))
    /\ f \notin running
    /\ clicks' = clicks + 1
    /\ row' = [row EXCEPT ![f] = "pending"]
    /\ queue' = Enqueue(f, FALSE)
    /\ done' = done \ {f}
    /\ rejected' = rejected \ {f}
    /\ canceled' = canceled \ {f}
    /\ sent' = sent \ {f}
    /\ late' = late \ {f}
    /\ crossed' = IF Busy(f) THEN crossed \cup {f} ELSE crossed
    /\ click' = [click EXCEPT ![f] = <<Entry("pending", 0)>>]
    /\ UNCHANGED <<wire, thread, slot, task, running, card, heard, receiver, limiter, forgot, faults, windows>>

\* The thread of the click tells the card.
ShowClick(f) ==
    /\ click[f] # <<>>
    /\ card' = [card EXCEPT ![f] = UpsertFileTransfer(@, Head(click[f]))]
    /\ click' = [click EXCEPT ![f] = Tail(@)]
    /\ IF Head(click[f]).status = "pending" THEN CallPending(f) ELSE UNCHANGED late
    /\ UNCHANGED <<wire, thread, runs, heard, crossed, receiver, limiter, forgot, bounds>>

\* clearCompletedTransfers.
ClearCompleted ==
    /\ clicks < MaxClicks
    /\ clicks' = clicks + 1
    /\ \E f \in File : card[f] # None /\ card[f].status = "complete"
    /\ card' = [f \in File |-> IF card[f] # None /\ card[f].status = "complete" /\ card[f].completed
                               THEN None ELSE card[f]]
    /\ UNCHANGED <<wire, thread, runs, heard, click, late, crossed, receiver, limiter, forgot, faults, windows>>

-----------------------------------------------------------------------------
(* The receiver.                                                           *)

\* The end of handleFolderTransferRequest, on the connection the envelope came
\* from: an accepted envelope is kept in memory with its manifest; a folder that
\* cannot be created is refused without a row.
AnswerFolder(c, status) ==
    \/ /\ answer' = status
       /\ folder' = IF status = "accepted" THEN "full" ELSE folder
       /\ Reply(c, status, 0)
    \/ /\ status = "accepted"
       /\ Reply(c, "rejected", 0)
       /\ UNCHANGED <<answer, folder>>

\* handleFolderTransferRequest: too large, accepted by the settings of the peer,
\* or a question to the user (promptFileRequestDecision).
HandleFolderRequest(c) ==
    /\ Takes(c, "folder_request", 0)
    /\ \/ \E status \in {"accepted", "rejected"} : AnswerFolder(c, status) /\ UNCHANGED prompt
       \/ prompt' = c /\ UNCHANGED <<answer, folder, toSender>>
    /\ UNCHANGED <<conn, up, thread, runs, cards, crossed, inbound, limiter, forgot, bounds>>

\* The user answers, and the rest of the handler runs, on a connection that may
\* have been lost meanwhile.
DecideFolder(status) ==
    /\ prompt # 0
    /\ prompt' = 0
    /\ AnswerFolder(prompt, status)
    /\ UNCHANGED <<conn, up, toReceiver, thread, runs, cards, crossed, inbound, limiter, forgot, bounds>>

\* Mutated form: a request that is repeated needs a slot again.
AllowOnce(f) == Len(admitted) < Limit

\* allowFileRequest: a request seen in the window takes no slot of its own.
Allowed(f) == f \in recent \/ Len(admitted) < Limit

AllowFileRequest(f) ==
    /\ admitted' = IF Allowed(f) /\ f \notin recent THEN Append(admitted, f) ELSE admitted
    /\ recent' = IF Allowed(f) THEN recent \cup {f} ELSE recent
    /\ limited' = IF Allowed(f) \/ f \in ToSet(admitted) THEN limited ELSE limited \cup {f}

\* The envelope in memory covers a file if it lists it, or if it has been
\* restored without its manifest.
Covers(f) == folder # "none"

\* handleFileRequest and finalizeInboundFileRequest for a file of a folder: no
\* question is asked, and a file that is new is answered on the open connection.
HandleFileRequest(c, f) ==
    /\ Takes(c, "file_request", f)
    /\ AllowFileRequest(f)
    /\ IF ~ Allowed(f) \/ ~ Covers(f)
       THEN Reply(c, "rejected", f) /\ UNCHANGED inbound
       ELSE IF inbound[f] = "canceled"
       THEN Reply(Current, "canceled", f) /\ UNCHANGED inbound
       ELSE /\ Reply(IF inbound[f] = "accepted" THEN c ELSE Current, "accepted", f)
            /\ inbound' = [inbound EXCEPT ![f] = "accepted"]
    /\ UNCHANGED <<conn, up, thread, runs, cards, crossed, prompt, folder, answer, forgot, bounds>>

\* handleFileComplete, the sender having sent all: the checksum decides.
HandleFileComplete(c, f) ==
    /\ Takes(c, "file_complete", f)
    /\ IF inbound[f] = "accepted"
       THEN \E status \in {"complete", "failed"} :
              inbound' = [inbound EXCEPT ![f] = status] /\ Reply(c, status, f)
       ELSE UNCHANGED <<inbound, toSender>>
    /\ UNCHANGED <<conn, up, thread, runs, cards, crossed, prompt, folder, answer, limiter, forgot, bounds>>

\* handleFileComplete with a cancel: of a transfer it has, which it answers, or
\* of one it has not (recordInboundCanceledBeforeApproval).
HandleCancel(c, f) ==
    /\ Takes(c, "cancel", f)
    /\ inbound' = [inbound EXCEPT ![f] = "canceled"]
    /\ IF inbound[f] = "accepted" THEN Reply(c, "cancel", f) ELSE UNCHANGED toSender
    /\ UNCHANGED <<conn, up, thread, runs, cards, crossed, prompt, folder, answer, limiter, forgot, bounds>>

\* The window slides past the oldest request admitted, and past the last sight
\* of one, which is no earlier.
WindowPasses ==
    /\ windows < MaxWindows
    /\ windows' = windows + 1
    /\ \/ /\ admitted # <<>>
          /\ admitted' = Tail(admitted)
          /\ UNCHANGED recent
       \/ \E f \in recent \ ToSet(admitted) :
            recent' = recent \ {f} /\ UNCHANGED admitted
    /\ UNCHANGED <<wire, thread, runs, cards, crossed, receiver, limited, forgot, clicks, faults>>

-----------------------------------------------------------------------------
(* Faults.                                                                 *)

\* The connection is lost: of its messages, those that have arrived may still be
\* handled (ReceiveMessage selects).
Lose ==
    /\ up
    /\ faults < MaxFaults
    /\ faults' = faults + 1
    /\ up' = FALSE
    /\ \E i \in 0..Len(toReceiver[conn]) : toReceiver' = [toReceiver EXCEPT ![conn] = SubSeq(@, 1, i)]
    /\ \E i \in 0..Len(toSender[conn]) : toSender' = [toSender EXCEPT ![conn] = SubSeq(@, 1, i)]
    /\ UNCHANGED <<conn, thread, runs, cards, crossed, receiver, limiter, forgot, clicks, windows>>

Reconnect ==
    /\ ~ up
    /\ up' = TRUE
    /\ conn' = conn + 1
    /\ UNCHANGED <<toReceiver, toSender, thread, runs, cards, crossed, receiver, limiter, forgot, bounds>>

\* The receiver starts again: restoreInboundTransferFromCheckpoint brings the
\* envelope back, without its manifest, if a file of it was under way.
Restart ==
    /\ faults < MaxFaults
    /\ faults' = faults + 1
    /\ up' = FALSE
    /\ toReceiver' = [c \in Conn |-> <<>>]
    /\ IF up
       THEN \E i \in 0..Len(toSender[conn]) : toSender' = [toSender EXCEPT ![conn] = SubSeq(@, 1, i)]
       ELSE UNCHANGED toSender
    /\ prompt' = 0
    /\ LET restored == \E f \in File : inbound[f] = "accepted" IN
       /\ folder' = IF restored THEN "empty" ELSE "none"
       /\ forgot' = (forgot \/ (folder # "none" /\ ~ restored))
    /\ admitted' = <<>>
    /\ recent' = {}
    /\ UNCHANGED <<conn, thread, runs, cards, crossed, answer, inbound, limited, clicks, windows>>

-----------------------------------------------------------------------------
Folder ==
    \/ SendFolder
    \/ FolderTimesOut
    \/ \E status \in {"accepted", "rejected"} :
         DecideFolder(status) \/ \E c \in Conn : HandleFolderResponse(c, status)
    \/ \E c \in Conn : HandleFolderRequest(c)
    \/ QueueFile
    \/ QueueFails
    \/ ShowQueued

\* A goroutine of the sender.
Run(t) ==
    \/ StartNext(t)
    \/ AskFile(t)
    \/ SendData(t)
    \/ SendComplete(t)
    \/ RunStops(t)
    \/ RunGivesUp(t)
    \/ CaptureOutcome(t)
    \/ RequeuePending(t)
    \/ RecordCanceled(t)
    \/ FinishRun(t)
    \/ Show(t)

\* Its connection loops.
Hear(c, f) ==
    \/ HandleAccepted(c, f)
    \/ \E status \in {"rejected", "canceled"} : HandleRefused(c, f, status)
    \/ \E status \in {"complete", "failed"} :
         HandleVerdict(c, f, status, status) \/ HandleLateVerdict(c, f, status)
    \/ HandleVerdict(c, f, "cancel", "canceled")
    \/ \E type \in {"complete", "failed", "cancel"} : DropVerdict(c, f, type)
    \/ HandleCancelReply(c, f)

User(f) ==
    \/ CancelQueued(f)
    \/ CancelRunning(f)
    \/ CancelEnded(f)
    \/ RetryTransfer(f)
    \/ ShowClick(f)

Peer(c, f) ==
    \/ HandleFileRequest(c, f)
    \/ HandleFileComplete(c, f)
    \/ HandleCancel(c, f)

Next ==
    \/ Folder
    \/ ClearCompleted
    \/ \E t \in Task : Run(t)
    \/ \E c \in Conn : ShowHeard(c)
    \/ \E c \in Conn, f \in File : Hear(c, f) \/ Peer(c, f)
    \/ \E f \in File : User(f)
    \/ WindowPasses
    \/ Lose
    \/ Reconnect
    \/ Restart

Spec == Init /\ [][Next]_vars

-----------------------------------------------------------------------------
(* Properties.                                                             *)

FolderStatus == {"none", "pending", "accepted", "rejected", "complete"}

Channel == [Conn -> Seq([type : {"folder_request", "file_request", "file_complete", "accepted", "rejected",
                                 "canceled", "complete", "failed", "cancel"}, file : 0..FileCount])]

\* Every variable stays in its domain, and a file is in the queue of the peer at
\* most once, whoever queues it, and when (enqueueOutboundTransfer).
TypeOK ==
    /\ conn \in Conn /\ up \in BOOLEAN
    /\ {toReceiver, toSender} \subseteq Channel
    /\ phase \in {"idle", "waiting", "queueing", "showing", "returned"}
    /\ next \in 1..FileCount \cup {1}
    /\ {envelope, answer} \subseteq FolderStatus
    /\ row \in [File -> Active \cup Terminal \cup {"none"}]
    /\ queue \in Seq(File) /\ slot \in 0..FileCount
    /\ \A i, j \in DOMAIN queue : queue[i] = queue[j] => i = j
    /\ task \in [Task -> Work \cup {None}]
    /\ running \cup done \cup rejected \cup canceled \cup sent \cup late \cup crossed \cup recent \cup limited \subseteq File
    /\ forgot \in BOOLEAN
    /\ card \in [File -> Card \cup {None}]
    /\ heard \in [Conn -> News \cup {None}]
    /\ click \in [File -> Seq(Card)]
    /\ prompt \in 0..(MaxFaults + 1)
    /\ folder \in {"none", "full", "empty"}
    /\ inbound \in [File -> {"none", "accepted", "complete", "failed", "canceled"}]
    /\ admitted \in Seq(File)

\* What the sender records of the envelope is what the receiver recorded, or the
\* refusal of one it could not unpack, through lost connections, restarts and
\* answers that come too late (SendFolder, handleFolderTransferRequest).
EnvelopeAgrees ==
    /\ envelope = "accepted" => answer = "accepted"
    /\ envelope = "rejected" => answer \in {"rejected", "none"}

\* A file of an accepted folder is refused because requests of other files had
\* the slots of the window, or by a receiver that a restart made forget the
\* envelope, and for no other reason: a request that is repeated is one with the
\* first, and an envelope restored from a checkpoint still covers the files to
\* come (allowFileRequest, handleFileRequest, restoreInboundTransferFromCheckpoint).
RefusedForReason == \A f \in File : row[f] = "rejected" => f \in limited \/ forgot

\* f is not in the queue, nobody is at work on it, and no click and no connection
\* loop has anything left to tell its card.
AtRest(f) ==
    /\ row[f] # "none"
    /\ f \notin ToSet(queue)
    /\ ~ Busy(f)
    /\ click[f] = <<>>
    /\ \A c \in Conn : heard[c] = None \/ heard[c].file # f

\* A file the sender has queued and that is at rest has ended, and its card shows
\* how, and all its bytes if it is complete, whichever of its goroutines, the
\* connection loops, the clicks and the drop spoke last (upsertFileTransfer,
\* mergeChatFileEntry, handleFileProgress) - unless the interface called it
\* pending after its end, or its end crossed the steps of a goroutine of
\* beginOutboundFileTransfer that had not seen it (RequeuePending,
\* HandleLateVerdict) or had not finished when it was retried (RetryTransfer).
CardFollowsRow ==
    \A f \in File \ (late \cup crossed) :
       AtRest(f) => /\ row[f] \in Terminal
                    /\ Display(f).status = row[f]
                    /\ Display(f).completed
                    /\ row[f] = "complete" => Display(f).bytes = 1
=============================================================================
