# Verification of GoSend

TLA+ models of [GoSend](../src/README.md), a peer-to-peer LAN chat and file
transfer program in Go, with TLC configurations that check them and TLAPS
proofs of their main properties. Paths below are relative to `src/`; `pm` is
`network/peer_manager.go` and `ft` is `network/file_transfer.go`.

## 1. The system

| Part | Code | State it keeps | Operations | What makes it correct |
|---|---|---|---|---|
| Text messaging, offline queue | `pm`, `storage/messages.go`, `storage/seen_ids.go` | `messages` table (status pending, sent, delivered, failed), `seen_message_ids`, `activeDrains`, per-connection send sequence and last seen sequence | `SendTextMessage`, `drainPendingMessages`, `enforceQueueLimits`, `handleIncomingEncryptedMessage`, `handleAck`, `handleProtocolError` | delivered means stored; the user is told once; the queue keeps its limits and empties |
| Secure session, rekeying | `network/connection.go`, `pm`, `network/handshake.go` | session key, epoch, previous key, `rekeyInProgress`, `pendingRekeyWaiters` | `SendRaw`, `readLoop`, `RotateSessionKey`, `initiateRekey`, `handleRekeyRequest`, `handleRekeyResponse` | one key per epoch; ends at most one epoch apart and converging |
| Handshake | `network/handshake.go`, `client.go`, `server.go` | challenge, presented keys, connection windows | `Dial`, `handleInboundConn`, `evaluatePeerKey` | both ends know the key of the other, or their user has been asked |
| Registry, reconnection | `pm` | `connections`, `reconnectWorkers`, `suppressReconnect`, peer status | `registerConnection`, end of `connectionLoop`, `startReconnect`, `stopReconnect`, `SendPeerDisconnect`, `Start`, `Stop` | one live session is kept and none lives on beside it; a lost one is redialled |
| Keep-alive, connection state | `network/connection.go` | `ConnectionState`, `waitingPong`, `pongDeadline`, `lastActivity` | `keepAliveLoop`, `readLoop`, `closeWithError` | a live peer is not timed out; a closed connection reads as disconnected |
| Peer add and remove | `pm`, `storage/peers.go`, `ui/main_window.go` | `outboundAddPending`, `inboundAddPending`, cooldowns, peers table, prompt | `SendPeerAddRequest`, `ApprovePeerAdd`, `handlePeerAdd*`, `SendPeerRemove`, `handlePeerRemove` | nobody is stored unasked; an accepted request is mutual; the loop is not stuck in a question |
| File transfer | `ft`, `storage/files.go` | outbound and inbound transfers, queues, active slot, event channels, pending approvals, checkpoints, `files` table | `SendFile`, `runOutboundFileTransfer`, `handleFileRequest`, `finalizeInboundFileRequest`, `handleFileData`, `handleFileComplete`, `CancelTransfer`, `RetryTransfer`, restore | a complete file is the sender's file; what either side skips is on disk; the queue never stops |
| Folder transfer, cards | `ft`, `ui/chat_window.go` | `inboundFolderTransfers`, folder rows, request window, live entries of the chat | `SendFolder`, `handleFolderTransferRequest`, `allowFileRequest`, `handleFileProgress`, `upsertFileTransfer`, `mergeChatFileEntry` | both sides agree on the envelope; its files are admitted; a card ends up showing how its file ended |
| Discovery | `discovery/`, `ui/main_window.go` | advertisements, cache, event channel, list of the interface | scan, refresh, `applySnapshot`, `emitEvent`, `discoveryEventLoop` | the list follows the cache; known devices are told by their token |
| Storage, crypto, config, UI | `storage/`, `crypto/`, `config/`, `ui/` | tables, keys, settings, widgets | single statements, library calls | support the above |

**How the parts interact.** A `PeerManager` owns everything on a device. A TCP
connection whose handshake succeeds becomes a `PeerConnection` with two
goroutines of its own (`readLoop`, `keepAliveLoop`); `registerConnection` puts
it in the registry, replacing and closing the previous one, starts a queue
drain, starts the next queued file and a `connectionLoop`, which takes payloads
from the `inbound` channel and runs one handler after another. User calls come
from goroutines the UI starts; discovery reports endpoints, which start
reconnect workers. All of them share the database, the registry and the
`sendMu` of the connection. Nothing but the database and the `.part` files
survives a restart.

**What is hard.** Goroutines of both devices interleave between a frame and the
database row it is about; connections close at any point and replace one
another; either process can die; acks, errors, rekey responses, add responses
and completions arrive late, on another connection or not at all; timeouts race
them; a question to the user holds up a connection loop, and its answer can come
when nobody waits for it any more; keys change while messages encrypted under
the old one are in flight; queues, channels and request windows have limits;
the user interface hears of a transfer from several goroutines in any order.
`PROJECT.json` lists each hazard at its line.

## 2. Modules

| Module | Models | Runs | Proofs |
|---|---|---|---|
| `Messaging` | text messages from one device to one peer, over successive connections | `MCMessaging*.cfg` | `Messaging_proofs` |
| `Ratchet` | abstract: what rekeying promises of a connection's session key | | |
| `SecureSession` | the two ends of one connection: keys, epochs, rekeying; implements `Ratchet` | `MCSecureSession.cfg` | `SecureSession_proofs` |
| `Sessions` | abstract: what the registry promises about a device's session | | |
| `Connections` | two devices: handshake, registry, reconnection, restarts; implements `Sessions` | `MCConnections*.cfg` | `Connections_proofs` |
| `PeerAdd` | two connected devices that add and remove one another | `MCPeerAdd.cfg` | `PeerAdd_proofs` |
| `Discovery` | one device's scanner, its event loop and its list, and who advertises | `MCDiscovery.cfg` | `Discovery_proofs` |
| `FileTransfer` | files from one device to one peer, over successive connections and restarts | `MCFileTransfer*.cfg` | `FileTransfer_proofs` |
| `TransferCards` | pure: how the chat's entry of a file is changed and displayed | | |
| `FolderTransfer` | a folder from the drop on the chat to the cards of its files; extends `TransferCards` | `MCFolderTransfer.cfg` | `FolderTransfer_proofs` |

Each `MC*` module extends the module it is named after and adds what its
configurations need (a size for every message, a symmetry set).

### Messaging

One device (the sender) and one peer (the receiver). Each goroutine is a thread
with a program counter; an action is what it does between two points where
another can interfere: a database statement, a frame written, a lock released.

* `upc` is the goroutine the UI starts per message: `Submit` (take the
  timestamp, look up the connection), `BuildMessage` (the sequence number),
  `SendMessage` or `SendMessageFails`, `SaveOutgoing` (the row is inserted only
  now), then `enforceQueueLimits` if the message stayed pending.
* `dpc` is the drain of a connection: enforce the limits, read the pending rows
  (`DrainFetch`), then for each row take a sequence number, write the frame and
  update the row.
* `enforceQueueLimits` is not atomic: it prunes and reads in one step and fails
  its victims one `UPDATE` at a time.
* `hpc` is the receiver's `connectionLoop`: the timestamp, sequence and
  seen-ID checks, decryption, `SaveMessage`, `InsertSeenID` with the callback,
  the ack. The message being handled stays at the head of `wire` until the
  handler returns.
* `sloop` is the sender's `connectionLoop`, with `handleAck` and
  `handleProtocolError`.
* The environment establishes and closes connections, crashes a process (only
  its database survives), ticks the clock, clears histories, prunes seen IDs.

Abstractions: two devices with one clock; the peers are honest, so signatures
verify; a message is its ID; the database statements succeed except for the
primary and foreign key of `messages`. What rekeying can do to a message
(drop its frame, or make its content undecryptable) is a free choice when
`Rekeying` is TRUE; `SecureSession` shows when it happens. `writes`,
`everStored`, `notified` and `acked` are history variables of the properties.

### SecureSession and Ratchet

Both ends of one connection. `text` is a goroutine sending messages, `loop` the
`connectionLoop`, `rekey1` and `rekey2` the goroutines of the rekey callback. A
session key is the epoch and the two X25519 shares it came from, so two keys
are equal exactly when both ends derived them from the same exchange. `SendRaw`
is two steps, because it encrypts before it takes `sendMu`; the content of a
text carries the key it was encrypted with when it was built. `readLoop` moves
what decrypts into the bounded `inbound` channel and counts what does not.
`triggerRekeyIfNeeded` is two steps too (it tests whether a rekey is due before
it takes the lock). A timeout, a failed write or a disconnect can happen
wherever the code allows it. The handshake counts as key pair number 0 of
either end.

`Ratchet` states what this is for: the epoch of each end and the shares its key
was derived from. From equal epochs one end may lead, to a key to which every
end has given a share newer than the one before; the other then follows to that
very key, and nobody leads until it has. `IsRatchet` is that `SecureSession`
implements it, with `key[e].shares` for the secret of `e`.

### Connections and Sessions

Two devices that know one another. A connection `c` is a number, used once, in
order; `dialer[c]` is who dialled it, `wire[c]` how far its handshake has come,
`stage[c][d]` what the `PeerManager` of the end `d` does with it.

* *Handshake.* One action per message of `Dial` and `handleInboundConn`.
  `KeyPasses` is `evaluatePeerKey` without a question: the presented key is the
  pinned one. Otherwise the user is asked (`asked`, `asking`) and may trust it,
  which pins it. The listener does not notice that a dialer gave up until it
  writes. That a connection is refused for the limit of its address is left
  open (`Refuse`).
* *Registry.* `Register` is `registerConnection`: put in the map, the replaced
  connection closed, the worker stopped. The code closes the replaced one right
  after the unlock; nothing in between looks at it, so it is one step. `Persist`
  writes `online` and starts the loop. The end of `connectionLoop` is four
  steps, as the code has no lock over them: `LoopEnds` (out of the map if it is
  the one there), `MarkOffline`, `DecideReconnect` (the suppression mark and a
  newer connection), `GraceEnds`.
* *Workers.* A goroutine of `startReconnect` waits, dials and waits again until
  `MaxAttempts`; `reconnectWorkers` holds the one that can be cancelled. A
  cancelled one can still dial once, since `select` may choose its timer;
  `WorkerEnds` deletes whatever entry there is, also that of a newer worker.
* *Outside.* `Connect`, `SendPeerDisconnect`, `Discover`
  (`NotifyPeerDiscoveredEndpoints`), a lost connection (`Lose`, a missed pong
  among them), a restart, perhaps with another identity key.

`Sessions` is the abstract specification: a device has at most one session; a
new connection may take its place, which ends it; it is given up only when it
has ended or with its ending; no connection becomes the session twice.
`IsSession` is `INSTANCE Sessions WITH` the registry as the session, the
connections that have ever been in it as `used`, and those of them whose end is
closed as `ended`. `owed` is a history variable: whether the device has lost a
session without being asked to.

### PeerAdd

Two devices and one connection at a time, because what replacement does is the
subject of `Connections`. `add` is the caller of `SendPeerAddRequest` (marked
pending, request written, waiting, storing), `response` its channel of capacity
one, `handler` the loop's `handlePeerAddRequest` (deciding, accepting,
storing), `decision` the channel of the question. While `handler` is not idle
the loop takes no message (`Receives`). `prompt` and `addRequests` are
`pendingAddRequestLoop` of the user interface, which shows one question after
another and does not take a question back when its request has timed out, so
that `AnswerPrompt` decides whichever request of the peer waits now. A response
carries no request ID: `TakeResponse` accepts that of an earlier request.
`consented` and `forgot` are history variables. `Crash` is a process that ends
and starts again with its store.

### Discovery

The broadcasters of all devices (`advert`, with the token of the hour in which
each was started, `StartBroadcaster`), the scanner of one (`scan`, `collected`,
`peers`), the event channel (`events`, of capacity `Capacity`, from which an
event is dropped when it is full) and the interface (`discovered`, with
`HandleEvent`, and `refresh` with its two locks, `SyncRead` and `SyncWrite`). A
known device is listed under its ID, any other under its name and endpoint,
which change with its `face`. `raced` is a history variable: an event has been
dropped, or has come or been handled between `SyncRead` and `SyncWrite`; both
make the list differ from the cache until the next refresh.

### FileTransfer

One sender and one receiver of files, over successive connections.

* *Queue and slot.* `queue` and `slot` are `outboundTransferQueue` and
  `activeOutboundTransfer`. `startNextQueuedTransfer` is three steps, as its
  locks make it: take a file (`StartNextQueuedTransfer`), look whether it is
  over (`CheckStart`), start its goroutine (`BeginOutboundFileTransfer`).
* *The run.* `run[f]` is the program counter of `runOutboundFileTransfer` and
  the goroutine around it: request, await, send, ack, verdict, and then
  `CaptureOutcome` under the lock and `RequeuePending` or `RecordCanceled`
  after it, `FinishRun`. `events[f]` is its event channel, which exists while
  `Registered(f)`.
* *The receiver.* One action per way through a handler. `handleFileComplete`
  is three (`VerifyFile`, `RenameFile`, `RecordComplete`, with `rpc[c]`),
  because a file can be changed between them; the other handlers are one step
  each. A `file_request` for which a person must be asked starts the approval
  goroutine (`ask[f]`: `DecideRequest`, `DismissRequest`, `EndApproval`).
* *The disk.* `part` is the set of chunks that have been written to the `.part`
  file, `final` that of the finished file, `srow`, `scp`, `rrow` and `rcp` the
  rows and checkpoints. The checksum matches when every chunk is there.
* *Users and environment.* Sends, cancels and retries with the guards of the
  buttons in `ui/chat_window.go`; connections close with a prefix of their
  messages still to be handled (`Cut`) and are established again; either
  process restarts from its checkpoints.

Abstractions: the two devices are honest and file names do not collide; the
clock is the count of requests sent, so a recent decision does not expire; the
rate limit may refuse any request when `Limiting` is TRUE; the source file does
not change. `Unlikely` events count towards `MaxFaults`: a timer that beats an
answer in flight, a retry before the goroutines of the last attempt are done, a
chunk that a rekey makes undecryptable. A timer that fires when nothing is in
flight is always possible. `purged`, `raced`, `late` (a late completion was applied
between `CheckStart` and `BeginOutboundFileTransfer`) and `rushed` (retried before the
goroutines of the last attempt ended) are history variables of the properties.
`BeginOutboundFileTransfer` puts the new run in the place of the old one; in the
code the two goroutines of a rushed file live side by side for a while. The folder
of a file belongs to `FolderTransfer`.

### TransferCards and FolderTransfer

`TransferCards` are the pure functions by which the chat shows a file: an entry
upserted over an earlier one, progress corrected by the row, the entry merged
with the row for display, and whether the card can be cancelled or retried. Of
an entry it keeps the status, whether it is completed and whether all bytes
have been transferred.

`FolderTransfer` is one folder from the drop on the chat to the cards, with
these threads, each with the steps at which another can come between:

* *The drop* (`phase`, `next`) sends the envelope, waits for the answer, queues
  the files one by one (`QueueFile`) and only then makes their cards
  (`ShowQueued`).
* *The goroutines of `beginOutboundFileTransfer`* (`task[t]`, a set of them, with
  the file, the step and the connection each was given; `queue` and `slot` as in
  `FileTransfer`). A run asks, sends its chunk, announces the end, waits for the
  verdict, and stops when its file is canceled or its connection is lost, when it
  gives a chunk up or when its timer runs out. The end of the goroutine is three
  steps, as in `FileTransfer` and in the code: `CaptureOutcome` clears `Running`
  and reads the outcome under the lock; after it, `RequeuePending` writes
  `pending` and queues the file, or `RecordCanceled` writes `canceled`;
  `FinishRun` releases the slot. A cancel, a retry or a late completion can come
  between any two.
* *What a goroutine tells the interface* is two steps: the row is read with the
  event (`tells`), and the card changes in `Show`.
* *The sender's connection loops*, one per connection. A lost connection keeps the
  messages that have arrived (a prefix), and its loop goes on handling them while
  the next connection is up, so an answer or a completion of an earlier run can
  reach a later one, or none. A loop that tells a card (`heard[c]`, `ShowHeard`)
  takes no message meanwhile.
* *The user's clicks* (`click`) cancel or retry a file under the guards of the
  buttons and then tell its card. `RetryTransfer` is refused only while the file
  has `Running`, so it can come while a goroutine that has cleared it is ending.
* *The receiver* asks its user about the envelope inside the loop (`prompt` is the
  connection whose loop waits), keeps an accepted envelope in memory (`folder`:
  `full` with its manifest, `empty` after a restart that restored it from a
  checkpoint), admits requests by the window of `allowFileRequest` (`admitted`,
  `recent`) and accepts, completes or refuses the files.

Abstractions: a file is one chunk, sent and acknowledged in one step, because
`FileTransfer` has the chunks, the checksum and the disk; the event channel of a
run is left out (a message for a run waits at the head of its connection or is
dropped); `startNextQueuedTransfer` is one step here and three there.
`handleFileProgress` reads the row in the step in which the goroutine writes it,
as one follows the other; a retry while the old goroutine is ending is where two
goroutines of a file could share a channel, and such a file is in `crossed`.
History variables: `limited` (refused while other files had the slots),
`forgot` (a restart lost the envelope), `late` (the interface called the file
pending after its end) and `crossed` (the end of the file and a goroutine that
had not seen it crossed: it was queued again after its end, a late completion
was applied before its run had registered its channel, or it was retried before
its last goroutine was done).

## 3. Runs

| Run | Result | Shows |
|---|---|---|
| `messaging_delivery` | holds | `TypeOK`, `DeliveredWasStored`, `AtMostOnce`, `NoDuplicateTransmission` with one message, two connections, one crash, rekeys, clock 0..3 |
| `messaging_queue` | holds | `QueueBounded`, `DrainEmptiesQueue` with two messages over a limit of one and histories cleared |
| `messaging_ack` | violated | `AckedIsDelivered`: the ack is handled before `SaveMessage` and the row stays `sent` |
| `session` | holds | `TypeOK`, `KeyAgreement`, `OneEpochApart`, `HeldEpochDecrypts`, `EpochsConverge` and the refinement `IsRatchet` with a rekey due at both ends and a text of either |
| `connections` | holds | `TypeOK`, `NoOrphan`, `LostIsPursued` and the refinement `IsSession` with two connections, two workers, two keys, two acts of users or discovery, one loss or restart |
| `connections_handoff` | violated | `HandoffKeepsOnline`: the loop of the replaced session writes `offline` over the `online` of the newer one |
| `peer_add` | holds | `TypeOK`, `StoredWithConsent`, `AcceptedIsMutual`, `LoopUnblocks` with two connections, two requests of either or both devices, a removal or a crash |
| `discovery` | holds | `TypeOK`, `ListFollowsCache` with one other device, two hours, a change of name or port, a tick of age, a refresh |
| `transfer` | holds | `TypeOK`, `CompleteIsDelivered`, `SkippedIsOnDisk`, `ResumeIsOnDisk` and the action property `FinishedStays` with one file of two chunks, two connections, a restart of either side, a cancel or retry, a fault |
| `transfer_queue` | holds | `OneActive`, `SlotIsUsed`, `Settles` with two files of one chunk in the queue, two connections, a cancel or retry |
| `transfer_verdict` | violated | `FailedIsNotDelivered`: a completion lost with the connection turns a delivered file into a failed one |
| `folder` | holds | `TypeOK`, `EnvelopeAgrees`, `RefusedForReason`, `CardFollowsRow` with a folder of two files and two goroutines, a request limit of one and a step of its window, a cancel or retry, a lost connection, a restart of the receiver or a run given up |

The three violated properties state sentences of the repository's README; the
`findings` of `PROJECT.json` quote them.

**Other divergences.** These follow from the models too, at the named lines,
but contradict no sentence exactly enough to be a finding of their own, or are
a loss the design tolerates:

* A message that has waited in the queue for longer than the five-minute skew
  is rejected by the receiver and fails, although the queue keeps messages for
  seven days (`pm:1066`, `README.md:33`; `RejectTimestamp`).
* The queue limit is enforced from a snapshot of the pending rows: a message that
  the drain delivers after the snapshot is overwritten with `failed`, although
  the peer has it (`pm:1523`, `FailVictim`). `sent`, written by the drain after
  the acknowledgement, overwrites `delivered` likewise (`pm:1491`).
* A rekey that falls due at the device with the larger ID alone is not started:
  the callback returns and its flag is cleared (`pm:1239`, `README.md:223`;
  `RekeySkipped`). One that falls due again before the callback of the
  first has returned finds its waiter, returns, and leaves the flag set for ever
  (`pm:1257`; `RekeySkipped`, seen with `MaxEpoch` 2).
* A text that was built before a rotation of the other end and is handled
  after it does not decrypt (`pm:1117`, `README.md:26`; `HandleText`).
* A completion handled between `CaptureOutcome` and `RequeuePending` is
  overwritten with `pending`; the file is then queued as done and its row stays
  so (`ft:421`, `README.md:309`; `RequeuePending` of `FileTransfer` and of
  `FolderTransfer`, where the card says complete or canceled beside it). A cancel
  in that window does the same.
* The discovery token is computed once per broadcaster, so that a peer that has
  been up for two hours is listed among the unknown (`discovery/mdns.go:149`,
  `README.md:254`; `TokenHolds`).
* A receiver whose user accepts a folder after the sender's ten seconds keeps an
  accepted folder of which no file will come (`ft:1445`; `DecideFolder`).
* A file of an accepted folder is refused when other requests of the minute
  have used the limit up (`ft:1034`, `README.md:41`; `limited`).

**What the properties leave out.** Each exception in a property is a behaviour
of the code that TLC shows when it is dropped:

* `CompleteIsDelivered` and `FinishedStays` except files in `raced`. The loops of an old and of a
  new connection can be in `handleFileComplete` for the same file at once. If
  the first renames it and a request still queued on its connection is then
  accepted into a fresh `.part` file, the second renames that one, unverified,
  over the delivered file. It takes a sender that restarts, or whose timer
  passes, while the receiver computes the checksum.
* `SkippedIsOnDisk` excepts files whose `.part` file the receiving user deleted
  by a cancel (`purged`): a sender that still counts them as sent resumes
  beyond them, and the checksum refuses the result. A change of the
  download directory between two requests of a file is not modelled.
* `SlotIsUsed` excepts one window (`late`): a late completion that is applied between
  `CheckStart` (`ft:553`) and `BeginOutboundFileTransfer` (`ft:389`). Begin then returns
  without a run, the slot is never released and the queue of the peer stops. A
  late completion at any other time, before the file is taken from the queue or
  while its run or end is under way, is not excepted.
* `SlotIsUsed` and `OneActive` except a file retried while a goroutine of its
  last attempt is still running (`rushed`): the retry takes its flags away from
  under that goroutine, which then ends the run, or frees the slot, of the new
  attempt.
* `Settles` excepts what users and early timers do. A cancel between
  `CaptureOutcome` and `RequeuePending` leaves the row `pending` for ever. It
  is checked for a receiver that accepts automatically: when a person is asked,
  a rejection sent on a closed connection and a new request that arrives while
  the approval goroutine is ending (and is ignored) leave the sender waiting.
* `LostIsPursued` holds for a device that `owed` says is to reconnect: one
  whose user has not disconnected, whose suppression mark is not left over from
  a disconnect that no loop has consumed, and whose worker has attempts left. What
  such a mark suppresses is therefore outside it.
* `AcceptedIsMutual` excepts a device that has since removed the peer, been
  removed or crashed (`forgot`). Its converse does not hold: an acceptance that
  arrives after the requester has given up leaves the peer stored on one side.
* `ListFollowsCache` speaks of each ID by itself: what the list shows of it, once
  the last event about it in the channel is applied, is what the cache has. Events
  about different IDs do not disturb one another. It excepts `raced`,
  described with `Discovery`.
* `EnvelopeAgrees` lets a rejection stand without a row at the receiver, which
  records none when it cannot make the folder's directory, and says nothing of a
  sender that gave up and whose row stays `pending`: the receiver may have accepted.
* `RefusedForReason` excepts `limited` files and a receiver whose restart
  restored no file of the folder and so forgot the envelope (`forgot`).
* `CardFollowsRow` excepts the files in `late`, which the drop or a retry calls
  pending after their run has ended: the card then shows `pending` with a
  cancel button for a file that is over. And it excepts those in `crossed`: when
  a cancel or a late completion comes between `CaptureOutcome` and
  `RequeuePending`, the row says `pending` for ever, the file is queued and passed
  over, and the card says canceled or complete; a completion applied before the
  run has registered its channel, or a retry before the last goroutine is done,
  lets two writers of the row overtake one another in the same way. It compares
  card and row, not either with the receiver: a cancel recorded over a completion
  (`ft:1898`) changes both.

**Bounds.** *Delivery*: one message is enough, since messages only meet in the
queue limits and in the sequence numbers, which the second run exercises; two
connections give a replacement while the first one's drain, handler and replies
are alive; a crash at any point gives the repeated transmission; the clock
passes the skew (0), the queue age (1) and the seen retention (2), in the order
of the real values. *Queue*: two messages over a limit of one make every
enforcement drop something, and the clock stays at 0 because age is the first
run's subject. *Session*: a rekey falls due in epoch 0 at both ends
(`MaxEpoch` 1), one text may be in flight from either, the inbound channel
holds one payload so that `readLoop` blocks, and two malformed frames close the
connection (three in the code), so that the limit is reached; the same properties hold with
`MaxEpoch` 2 (852,418 states), where a second rekey meets the remains of the
first. *Connections*:
two connections are the least that replace one another, both ways and both
pending at once; two workers let an ending one meet a newer one; two keys let a
restart change one; two acts let a disconnect meet a dial or a discovery; a
worker that fails its first attempt has a second (`MaxAttempts` 2). Devices and
workers are symmetric, which is sound here because every property of this run
is a safety property and the one `CHOOSE` over devices, `Peer`, is a function of
the device it is applied to. *Peer add*: two requests are one of either device, crossing, or two of
one, the second of which can meet the answer to the first; two connections let
a late handler outlive the one it came on. *Discovery*: the scanning device
and one other; two slots of the channel are the removal of an old name and the
upsert of a new one, and a third event is dropped. *Transfer*: two
chunks are the least for which a checkpoint can lag behind (`InEvery` 2) and a
transfer resume in the middle; two connections, one restart, one act of a user
and one fault were also raised, one at a time or together for a file of one
chunk, to three connections and two restarts (5.9 million states) with the same
result. *Transfer queue*: two files are the least that wait for one another;
one chunk and one attempt, because the queue does not look inside a transfer,
and no faults, because the liveness check is the expensive part (`OneActive`
and `SlotIsUsed` hold with one fault as well, in 2.3 million states).
`MaxRequests` is above the number of requests these bounds allow. *Folder*: two
files over a limit of one let one file use up the window of the other; one
click crosses every step of the goroutines, and two goroutines let one end while
the next file runs; a fault is a lost connection, a restart or a run given up, and
with one of them there are two connections, an old loop beside the new one, and a
file that repeats its request (2.7 million states). The same properties hold of
these larger instances: two files with two faults, a step of the window counted
among them (14.9 million states); one file with three clicks and a fault (2.2
million); one file with two clicks and two faults, without the window (8.7
million). Without `crossed` TLC finds the cancel between capture and requeue.
Every run has `CHECK_DEADLOCK FALSE`: users may send nothing more and
a closed connection stays closed.

**Fairness.** `Messaging!Fairness` asks only that a drain goroutine that can
run does (the Go scheduler); nothing is asked of users, the network or the
clock. `SecureSession!Fairness` asks the same of `connectionLoop`, the rekey
goroutines (whose timer fires) and the keep-alive ticker; a `SendRaw` that
fails is one of their steps. `PeerAdd!FairSpec` asks it of the callers of
`SendPeerAddRequest` and of the connection loops, whose timers fire; the user
need never answer. `FileTransfer!Fairness` asks that the goroutines
of a run, the approval goroutines (a person answers) and the connection loops
run and that timers fire when nothing comes; nothing is asked of the network,
of the processes or of what users choose to send, cancel and retry.
`Connections`, `Discovery` and `FolderTransfer` state safety only and no
fairness.

## 4. Proofs

`Messaging_proofs` proves, for every set of messages, number of connections,
limits and number of crashes (assumption `MessagingAssumption`: the constants
are naturals, the set of messages is finite, skew < queue age < retention):

* `TypeCorrect`: `Spec => []TypeOK`. `TypeOK` is inductive as it stands,
  because it says where the threads keep the message they are working on.
* `DeliveredIsTrue`: `Spec => []DeliveredWasStored`. A row becomes delivered
  long after the message was stored, so `DeliveryInv` follows it: a handler past
  `SaveMessage` handles a stored message, and every ack in flight is about one.
* `AnnouncedAtMostOnce`: `Spec => []AtMostOnce` while no history is cleared.
  `AnnounceInv` adds that the message of a handler between `SaveMessage` and
  the callback is in the table, has not been announced, and is handled there by
  no other connection.
* `TransmittedAtMostOnce`: `Spec => []NoDuplicateTransmission`. `TransmitInv` says
  where a message that has not been written can be: with its goroutine before
  the row exists, pending, or ahead in the snapshot of the one drain there is.
  A row that is pending has not been written unless that drain is about to
  mark it, so the next snapshot has nothing of what the last one sent.
* `QueueKeepsLimits`: `Spec => []QueueBounded`. Two calls of `enforceQueueLimits`
  may drop rows from snapshots taken at different times. `QueueInv`: a call is
  due, or the rows that some call will leave fit (they were chosen so, and no
  other step makes a row pending without being due itself), or they fit already.

`Connections_proofs` proves, for any set of connections, workers and keys and
any bounds (assumptions `TwoDevices`, `NoneApart`, `Numbers`, `SomeKey`):

* `TypeCorrect`: `Spec => []TypeOK`.
* `NoConnectionIsOrphaned`: `Spec => []NoOrphan`. `NoOrphan` is not inductive:
  `Register` must not meet an older connection that is open and not in the
  registry, `Persist` and the end of the loop must know what the registry holds.
* `ImplementsSessions`: `Spec => IsSession`. `Init` maps to the initial state;
  each action maps to `Attach` (`Register`), `Detach` (`LoopEnds`, `Restart`),
  `End` (a close) or to a stutter. That a connection is attached once comes from
  its stage, which never returns to `made`; that a detached one has ended comes
  from the guard of the loop's end and from `EndedInv`.

* `LostSessionIsPursued`: `Spec => []LostIsPursued`. What the code does after a loss
  takes four steps without a lock, and workers end in any order. `PursuitInv`: the
  worker that is registered, if there is one, seeks (it waits, or dials a
  connection whose handshake is not over); and some worker seeks, or there is no
  suppression mark and the session is registered or its loop has still to look.

The first three rest on `Inv`, the conjunction of `TypeOK`, `HandshakeInv` (who can have a
`PeerConnection` at which point of the handshake), `RegistryInv` (what the
registry holds is mapped or open), `WorkerInv` (the entry of
`reconnectWorkers` is a running worker),
`EndedInv` (an end past its loop is closed) and `NoOrphan`; the last on `Inv` and
`PursuitInv`.

`PeerAdd_proofs` proves, for any number of connections, requests and faults
(assumptions `TwoDevices`, `Bounds`):

* `TypeCorrect`: `Spec => []TypeOK`, so both channels keep their capacity.
* `ConsentIsNeeded`: `Spec => []StoredWithConsent`. `ConsentInv` follows the
  consent: a decision to accept, a handler past the question and a pending
  request of the device's own all come after it.
* `AcceptanceIsMutual`: `Spec => []AcceptedIsMutual`. `MutualInv` says the same
  of every acceptance still on its way: on the link, in the response channel or
  in the caller that is about to store.

`SecureSession_proofs` proves, for any number of rekeys and texts and any
capacity of the inbound channel (assumption `SessionAssumption`: the bounds are
naturals):

* `TypeCorrect`: `Spec => []TypeOK`, with two callbacks at the initiator enough.
* `KeysAgree`: `Spec => []KeyAgreement`.
* `EpochsStayTogether`: `Spec => []OneEpochApart`.
* `HeldFramesDecrypt`: `Spec => []HeldEpochDecrypts`.
* `ImplementsRatchet`: `Spec => IsRatchet`, step by step: a rotation of either
  end leads or follows, every other step stutters.

None of the first four is inductive. The argument follows the one exchange that can
be under way. `TokenInv`: the request, or the response to it, is in at most one
of seven places (the goroutine that sends it, the wire, the inbound channel, the
loop that answers, the wire back, the inbound channel back, the waiter's
channel), and while it is past the first the goroutine that asked still waits
or the initiator has closed the connection; so a second exchange cannot begin
before the first is over. `EpochInv`: the response is out exactly when the
other end is one epoch ahead or about to rotate, and only the initiator can get
ahead of an end that has still to rotate. `ExchangeInv`: the request is the one
the goroutine has in hand, and the key derived from the response is the one the
other end rotates to. `KeyInv` and `FrameInv` relate the keys of both ends, and
the key of every frame, to the epochs. `ThreadInv` (only the initiator's
callbacks register, one at a time) and `KindInv` (who sends what) carry the
rest. `Flow` says of a step where its frames, payloads and bodies come from, and
`Calm` that it does not advance the exchange: all but eight of the actions are
calm, and those eight have a lemma each. For the refinement `ShareInv` adds
that the shares in the keys are generated, that a request under way offers a
share newer than the initiator's in its key, and that the key the other end has
agreed to is of newer shares of both than the key it holds.

`FileTransfer_proofs` proves, for any finite set of files, any number of chunks,
attempts, connections, restarts, acts of users and faults and any cadence of
the checkpoints (assumption `TransferAssumption`):

* `TypeCorrect`: `Spec => []TypeOK`, with `RunInv` (what a run that is under way
  knows of its transfer).
* `SkippedChunksOnDisk`: `Spec => []SkippedIsOnDisk`, and `ResumedChunksOnDisk`:
  `Spec => []ResumeIsOnDisk`. The two sides count apart from one another and lose
  their counts apart from one another. `DiskInv` says the same of all the places
  that count: the set of received chunks, the sender's next chunk and its
  checkpoint, every answer on a link and in an event channel. Whatever any of
  them counts is in the `.part` file, unless the file is in place or the user
  deleted it (`Kept`). `ReceiverInv` ties the receiver's memory to its
  checkpoint.
* `CompletedIsDelivered`: `Spec => []CompleteIsDelivered`. `DeliveredInv`: a
  finished file is absent or whole, the handler between the checksum and the row
  has a whole file in its hands, and every completion in a row, on a link or in
  an event channel is about a whole file, `raced` files apart.
* `FinishedFilesStay`: `Spec => FinishedStays`, an action property: once in place, a
  file is not replaced by anything else. `ReceiverDelivers` says what a step keeps
  of `DeliveredInv` on the receiver's disk, and `RacedGrows` that the history
  variable forgets nothing.
* `OneActiveTransfer`: `Spec => []OneActive`, and `SlotInUse`:
  `Spec => []SlotIsUsed`. `SlotInv` relates, per file, the slot, the step of
  `startNextQueuedTransfer`, the step of the run and the flags of the transfer:
  a run before its verdict holds the slot, one that no longer does is over, and
  a slot without a run has a start in progress. So nothing but the window of
  `late` and a `rushed` retry can strand the slot; that those two do is §3.

`Discovery_proofs` proves, for any finite set of devices, any capacity of the
channel, any age limit and any bounds (assumptions `SelfAdvertises`, `Sizes`,
`Bounds`):

* `TypeCorrect`: `Spec => []TypeOK`.
* `ListIsCache`: `Spec => []ListFollowsCache`. Its main lemma, `NewsTold`, is about
  `applySnapshot`: in whatever order the maps are walked, the events of a scan
  are about different IDs, what each says is true of the new cache, and of an ID
  without an event the cache has what it had. `CacheRead`: what a refresh has
  read is the cache as long as no event came since.

`FolderTransfer_proofs` proves, for any number of files and of goroutines, any limit
of the window, and any number of clicks, losses and restarts (assumption
`FolderAssumption`):

* `TypeCorrect`: `Spec => []TypeOK`, by which a file is in the queue at most once.
* `EnvelopesAgree`: `Spec => []EnvelopeAgrees`. `EnvelopeInv` follows the question,
  which is on the wire, before the user or answered on the wire, at one of the
  three at a time; nothing else is sent before it is answered.
* `RefusalsHaveReason`: `Spec => []RefusedForReason`, from `RefusalInv`: a refusal
  on the wire has its reason already.
* `CardsFollowRows`: `Spec => []CardFollowsRow`. That a file at rest has ended is
  `FlowInv`; that its card is not active is `CardInv`; a lemma on
  `MergeChatFileEntry` turns both into what is displayed.

None of the last three is inductive. Besides `Types`, `EnvelopeInv` and
`RefusalInv` the invariant has three parts. `QueueInv`: nothing is known of a file,
and no message is about it, before the drop has reached it, which is after the
receiver has accepted. `FlowInv`, for every file outside `crossed`: at most one
goroutine works on it; it holds the slot unless the file has ended; the row and
the flags say at which step it is, so that one about to queue the file again and
one about to record a cancel cannot be taken for one another; a file without a
goroutine is in the queue or its row has ended. `CardInv`, outside `late` and
`crossed`: when the row has ended and the card has not, a goroutine, a connection
loop or a click still has an end to tell. A lemma says of every step which file
it is about and that all it leaves alone of the others (`RunFrame`, `HearFrame`,
`UserFrame`) keeps `FlowInv` and `CardInv` of them (`Framed`).

Every invariant the proofs use was checked by TLC before it was proved.

So every invariant and both refinements that a passing run checks are theorems.
Only model-checked is the liveness (`DrainEmptiesQueue`, `EpochsConverge`,
`Settles`, `LoopUnblocks`): it needs fairness, whose `ENABLED` the prover cannot
handle. The three violated properties are counterexamples and need no proof.

## 5. Not modelled

Signature failures and other dishonest peers; JSON and framing; the
cryptographic primitives; database errors other than the constraints;
configuration and migrations; layout, rendering and dialogs of the user
interface. Of `PeerConnection`, the ping deadline and the `ConnectionState`
values: `Lose` stands for whatever ends a connection. Of `Connections`, what the
two sides' queues do on a replacement (`Messaging` and `FileTransfer` have it).
More than one connection at a time in `PeerAdd`, a person at the receiver's end
in `transfer_queue`, and more than one other device in `Discovery` are outside
the runs. `PROJECT.json` gives the status of each component and names, under
`hazards`, those no property covers and why.

## 6. Plan

1. Done: the ten modules of §2, their runs, the refinements of `Sessions` by
   `Connections` and of `Ratchet` by `SecureSession`, the theorems of §4.
2. `PeerConnection`: ping, pong and the state values against `closeWithError`.
3. Abstract specifications: what a message's row and a file promise its sender
   (offered, transferring, done, refused), as far as the late acks and
   completions of §3 allow; then their refinement as theorems.
4. Theorems about more action properties (`FinishedStays` is one): what no step
   may undo.
