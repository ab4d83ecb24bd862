---------------------------- MODULE SecureSession ----------------------------
(***************************************************************************)
(* The encrypted session of one PeerConnection pair and its rekeying:      *)
(* SendRaw, encryptPayload, decryptPayload, readLoop, RotateSessionKey and *)
(* triggerRekeyIfNeeded of network/connection.go, with initiateRekey,      *)
(* handleRekeyRequest and handleRekeyResponse of network/peer_manager.go.  *)
(*                                                                         *)
(* Both ends run the same code: a goroutine that sends text, the           *)
(* connectionLoop, and the goroutines started by the rekey callback.       *)
(* SendRaw encrypts before it takes sendMu, so a rotation may come between *)
(* the encryption of a frame and its write.                                *)
(***************************************************************************)
EXTENDS Naturals, Sequences

CONSTANTS
  MaxEpoch,     \* bound: a rekey falls due only below this epoch
  MaxTexts,     \* bound: texts the two ends send
  InboundCap,   \* capacity of the inbound channel
  MaxMalformed  \* maxMalformedFrames

ASSUME SessionAssumption ==
  {MaxEpoch, MaxTexts, InboundCap, MaxMalformed} \subseteq Nat

\* "lo" is the device with the smaller DeviceID.
Ends == {"lo", "hi"}
Other(e) == IF e = "lo" THEN "hi" ELSE "lo"

\* The goroutines of an end that call SendRaw.  rekeyInProgress is cleared by
\* the rotation, so a second callback can start while the first one returns; two
\* are enough for the initiator (TypeOK), and a bound for the other end, whose
\* callbacks return at once.
RekeyThreads == {"rekey1", "rekey2"}
Threads == {"text", "loop"} \cup RekeyThreads

\* An X25519 public key, fresh at each generation; a session key is determined
\* by the epoch and the two public keys (deriveRekeySessionKey).
Share == Ends \X Nat
Key == [epoch : Nat, shares : SUBSET Share]
Payload == [kind : {"text"}, inner : Key]
             \cup [kind : {"request", "response"}, epoch : Nat, share : Share]
Frame == [epoch : Nat, key : Key, body : Payload]

VARIABLES
  open,      \* whether each end is connected (its closed channel is open)
  epoch,     \* sessionEpoch
  key,       \* sessionKey
  prev,      \* previousSessionKey: <<>> or <<key>>
  due,       \* rekeyInterval or rekeyAfterBytes is reached
  checked,   \* a triggerRekeyIfNeeded read that and is about to take the lock
  rekeying,  \* rekeyInProgress
  waiter,    \* pendingRekeyWaiters[peer]: the goroutine waiting, or "none"
  answer,    \* the waiter's channel, capacity one
  pc,        \* program counter of each thread of each end
  body,      \* the payload each thread is sending: <<>> or <<payload>>
  sealed,    \* that payload encrypted: <<>> or <<frame>>
  agreed,    \* the key handleRekeyRequest will rotate to: <<>> or <<key>>
  generated, \* key pairs each end has generated
  texts,     \* texts each end has started to send
  wire,      \* frames in flight to each end
  inbound,   \* payloads readLoop passed to connectionLoop
  bad,       \* consecutiveMalformedFrames
  discarded  \* history: why readLoop or the text handler dropped something

keyVars   == <<epoch, key, prev>>
rekeyVars == <<due, checked, rekeying, waiter, answer>>
sendVars  == <<pc, body, sealed, agreed, generated, texts>>
readVars  == <<wire, inbound, bad, discarded>>
vars == <<open, keyVars, rekeyVars, sendVars, readVars>>

\* The handshake derives its key from a key pair of either end, too.
HandshakeKey == [epoch |-> 0, shares |-> Ends \X {0}]

Init ==
  /\ open = [e \in Ends |-> TRUE]
  /\ epoch = [e \in Ends |-> 0]
  /\ key = [e \in Ends |-> HandshakeKey]
  /\ prev = [e \in Ends |-> <<>>]
  /\ due = [e \in Ends |-> FALSE]
  /\ checked = [e \in Ends |-> FALSE]
  /\ rekeying = [e \in Ends |-> FALSE]
  /\ waiter = [e \in Ends |-> "none"]
  /\ answer = [e \in Ends |-> <<>>]
  /\ pc = [e \in Ends |-> [t \in Threads |-> "idle"]]
  /\ body = [e \in Ends |-> [t \in Threads |-> <<>>]]
  /\ sealed = [e \in Ends |-> [t \in Threads |-> <<>>]]
  /\ agreed = [e \in Ends |-> <<>>]
  /\ generated = [e \in Ends |-> 0]
  /\ texts = [e \in Ends |-> 0]
  /\ wire = [e \in Ends |-> <<>>]
  /\ inbound = [e \in Ends |-> <<>>]
  /\ bad = [e \in Ends |-> 0]
  /\ discarded = {}

-----------------------------------------------------------------------------
(* Operations of PeerConnection the actions share. *)

\* closeWithError.
CloseWithError(e) ==
  /\ open' = [open EXCEPT ![e] = FALSE]
  /\ rekeying' = [rekeying EXCEPT ![e] = FALSE]

\* A thread hands payload p to SendMessage.
StartSend(e, t, p) ==
  /\ pc' = [pc EXCEPT ![e][t] = "encrypt"]
  /\ body' = [body EXCEPT ![e][t] = <<p>>]

\* encryptPayload: current key and epoch, before sendMu.
EncryptPayload(e, t) ==
  /\ pc[e][t] = "encrypt" /\ open[e]
  /\ sealed' = [sealed EXCEPT ![e][t] =
       <<[epoch |-> epoch[e], key |-> key[e], body |-> Head(body[e][t])]>>]
  /\ pc' = [pc EXCEPT ![e][t] = "write"]
  /\ UNCHANGED <<open, keyVars, rekeyVars, body, agreed, generated, texts, readVars>>

\* The thread leaves SendRaw and goes to step next.
EndSend(e, t, next) ==
  /\ pc' = [pc EXCEPT ![e][t] = next]
  /\ sealed' = [sealed EXCEPT ![e][t] = <<>>]

\* WriteFrame and the trailing triggerRekeyIfNeeded, which reads whether a rekey
\* is due before it takes rekeyStateMu.
WriteFrame(e, t) ==
  /\ pc[e][t] = "write" /\ open[e]
  /\ wire' = [wire EXCEPT ![Other(e)] =
                IF open[Other(e)] THEN Append(@, Head(sealed[e][t])) ELSE @]
  /\ checked' = [checked EXCEPT ![e] = @ \/ due[e]]

\* SendRaw returns an error: the connection is closed, or the write closes it.
SendFails(e, t) == pc[e][t] \in {"encrypt", "write"}

\* RotateSessionKey accepts the next epoch only.
\* Mutated form: the epoch is counted twice.
RotateTwice(e, k, n) ==
  /\ n = epoch[e] + 1
  /\ prev' = [prev EXCEPT ![e] = <<key[e]>>]
  /\ key' = [key EXCEPT ![e] = k]
  /\ epoch' = [epoch EXCEPT ![e] = n + 1]
  /\ due' = [due EXCEPT ![e] = FALSE]
  /\ rekeying' = [rekeying EXCEPT ![e] = FALSE]
\* Mutated form: the previous key is taken after the switch.
RotateForgets(e, k, n) ==
  /\ n = epoch[e] + 1
  /\ prev' = [prev EXCEPT ![e] = <<k>>]
  /\ key' = [key EXCEPT ![e] = k]
  /\ epoch' = [epoch EXCEPT ![e] = n]
  /\ due' = [due EXCEPT ![e] = FALSE]
  /\ rekeying' = [rekeying EXCEPT ![e] = FALSE]
RotateSessionKey(e, k, n) ==
  /\ n = epoch[e] + 1
  /\ prev' = [prev EXCEPT ![e] = <<key[e]>>]
  /\ key' = [key EXCEPT ![e] = k]
  /\ epoch' = [epoch EXCEPT ![e] = n]
  /\ due' = [due EXCEPT ![e] = FALSE]
  /\ rekeying' = [rekeying EXCEPT ![e] = FALSE]

-----------------------------------------------------------------------------
(* Text: the content is encrypted with the session key when the message is   *)
(* built (buildEncryptedMessage), the frame when it is sent.                 *)

SendText(e) ==
  /\ pc[e]["text"] = "idle" /\ open[e] /\ texts["lo"] + texts["hi"] < MaxTexts
  /\ texts' = [texts EXCEPT ![e] = @ + 1]
  /\ StartSend(e, "text", [kind |-> "text", inner |-> key[e]])
  /\ UNCHANGED <<open, keyVars, rekeyVars, sealed, agreed, generated, readVars>>

WriteText(e) ==
  /\ WriteFrame(e, "text")
  /\ EndSend(e, "text", "idle")
  /\ body' = [body EXCEPT ![e]["text"] = <<>>]
  /\ UNCHANGED <<open, keyVars, due, rekeying, waiter, answer, agreed, generated,
                 texts, inbound, bad, discarded>>

TextFails(e) ==
  /\ SendFails(e, "text")
  /\ CloseWithError(e)
  /\ EndSend(e, "text", "idle")
  /\ body' = [body EXCEPT ![e]["text"] = <<>>]
  /\ UNCHANGED <<keyVars, due, checked, waiter, answer, agreed, generated, texts,
                 readVars>>

-----------------------------------------------------------------------------
(* triggerRekeyIfNeeded and initiateRekey. *)

\* An hour or a gibibyte after the last rotation.
RekeyDue(e) ==
  /\ open[e] /\ ~due[e] /\ epoch[e] < MaxEpoch
  /\ due' = [due EXCEPT ![e] = TRUE]
  /\ UNCHANGED <<open, keyVars, checked, rekeying, waiter, answer, sendVars, readVars>>

\* keepAliveLoop's call of triggerRekeyIfNeeded finds a rekey due.
KeepAliveChecks(e) ==
  /\ open[e] /\ due[e] /\ ~checked[e]
  /\ checked' = [checked EXCEPT ![e] = TRUE]
  /\ UNCHANGED <<open, keyVars, due, rekeying, waiter, answer, sendVars, readVars>>

\* The second half of triggerRekeyIfNeeded: start the callback, unless one runs.
\* Mutated form: rekeyInProgress is tested and not set.
TriggerUnmarked(e) ==
  /\ checked[e] /\ ~rekeying[e]
  /\ checked' = [checked EXCEPT ![e] = FALSE]
  /\ \E g \in RekeyThreads : /\ pc[e][g] = "idle"
                             /\ pc' = [pc EXCEPT ![e][g] = "start"]
  /\ UNCHANGED <<open, keyVars, due, rekeying, waiter, answer, body, sealed, agreed,
                 generated, texts, readVars>>
TriggerRekey(e) ==
  /\ checked[e]
  /\ checked' = [checked EXCEPT ![e] = FALSE]
  /\ \/ /\ rekeying[e]
        /\ UNCHANGED <<rekeying, pc>>
     \/ /\ ~rekeying[e]
        /\ rekeying' = [rekeying EXCEPT ![e] = TRUE]
        /\ \E g \in RekeyThreads : /\ pc[e][g] = "idle"
                                   /\ pc' = [pc EXCEPT ![e][g] = "start"]
  /\ UNCHANGED <<open, keyVars, due, waiter, answer, body, sealed, agreed, generated,
                 texts, readVars>>

\* The deterministic initiator rule: the device with the smaller ID.
Initiates(e) == e = "lo"

\* onConnectionRekeyNeeded returns at once: disconnected, not the initiator, or
\* another goroutine is still registered as the waiter.
RekeySkipped(e, g) ==
  /\ pc[e][g] = "start"
  /\ ~open[e] \/ ~Initiates(e) \/ waiter[e] # "none"
  /\ pc' = [pc EXCEPT ![e][g] = "idle"]
  /\ rekeying' = IF open[e] /\ ~Initiates(e)
                 THEN [rekeying EXCEPT ![e] = FALSE] ELSE rekeying
  /\ UNCHANGED <<open, keyVars, due, checked, waiter, answer, body, sealed, agreed,
                 generated, texts, readVars>>

\* initiateRekey registers its channel, generates a key pair and builds the
\* request for the next epoch.
InitiateRekey(e, g) ==
  /\ pc[e][g] = "start" /\ open[e] /\ Initiates(e) /\ waiter[e] = "none"
  /\ waiter' = [waiter EXCEPT ![e] = g]
  /\ answer' = [answer EXCEPT ![e] = <<>>]
  /\ generated' = [generated EXCEPT ![e] = @ + 1]
  /\ StartSend(e, g, [kind |-> "request", epoch |-> epoch[e] + 1,
                      share |-> <<e, generated'[e]>>])
  /\ UNCHANGED <<open, keyVars, due, checked, rekeying, sealed, agreed, texts, readVars>>

WriteRequest(e, g) ==
  /\ WriteFrame(e, g)
  /\ EndSend(e, g, "wait")
  /\ UNCHANGED <<open, keyVars, due, rekeying, waiter, answer, body, agreed,
                 generated, texts, inbound, bad, discarded>>

\* The deferred delete of initiateRekey.
Unregister(e, g) ==
  waiter' = IF waiter[e] = g THEN [waiter EXCEPT ![e] = "none"] ELSE waiter

Received(e) == Head(answer[e])

\* A failed send, the timeout (which may win over a response that is there), a
\* closed connection, a response for another epoch or a rotation refused:
\* initiateRekey returns an error and the callback closes the connection.
\* Mutated form: the error is reported and the connection stays.
RekeyFailsOpen(e, g) ==
  /\ SendFails(e, g) \/ pc[e][g] = "wait"
  /\ rekeying' = [rekeying EXCEPT ![e] = FALSE]
  /\ Unregister(e, g)
  /\ EndSend(e, g, "idle")
  /\ body' = [body EXCEPT ![e][g] = <<>>]
  /\ UNCHANGED <<open, keyVars, due, checked, answer, agreed, generated, texts, readVars>>
RekeyFails(e, g) ==
  /\ SendFails(e, g) \/ pc[e][g] = "wait"
  /\ CloseWithError(e)
  /\ Unregister(e, g)
  /\ EndSend(e, g, "idle")
  /\ body' = [body EXCEPT ![e][g] = <<>>]
  /\ UNCHANGED <<keyVars, due, checked, answer, agreed, generated, texts, readVars>>

\* The response arrived in time: derive the key and rotate.
\* Mutated form: the key pairs of the handshake are used again.
DerivedOfHandshake(n, own, peer) == [epoch |-> n, shares |-> HandshakeKey.shares]
DerivedKey(n, own, peer) == [epoch |-> n, shares |-> {own, peer}]
RekeyRotates(e, g) ==
  /\ pc[e][g] = "wait" /\ answer[e] # <<>>
  /\ Received(e).epoch = Head(body[e][g]).epoch
  /\ LET n == Received(e).epoch
     IN  RotateSessionKey(e, DerivedKey(n, Head(body[e][g]).share, Received(e).share), n)
  /\ pc' = [pc EXCEPT ![e][g] = "return"]
  /\ UNCHANGED <<open, checked, waiter, answer, body, sealed, agreed, generated, texts,
                 readVars>>

\* initiateRekey returns: only now does the waiter leave the map.
RekeyReturns(e, g) ==
  /\ pc[e][g] = "return"
  /\ Unregister(e, g)
  /\ pc' = [pc EXCEPT ![e][g] = "idle"]
  /\ body' = [body EXCEPT ![e][g] = <<>>]
  /\ UNCHANGED <<open, keyVars, due, checked, rekeying, answer, sealed, agreed,
                 generated, texts, readVars>>

-----------------------------------------------------------------------------
(* readLoop and decryptPayload. *)

Arrived(e) == Head(wire[e])
\* The key decryptPayload chooses: <<>> for an epoch it does not hold.
KeyFor(e, n) ==
  CASE n = epoch[e] -> <<key[e]>>
    [] n # epoch[e] /\ prev[e] # <<>> /\ n + 1 = epoch[e] -> prev[e]
    [] OTHER -> <<>>
Decrypts(e) == KeyFor(e, Arrived(e).epoch) = <<Arrived(e).key>>

ReadPayload(e) ==
  /\ open[e] /\ wire[e] # <<>> /\ Decrypts(e)
  /\ Len(inbound[e]) < InboundCap
  /\ inbound' = [inbound EXCEPT ![e] = Append(@, Arrived(e).body)]
  /\ wire' = [wire EXCEPT ![e] = Tail(@)]
  /\ bad' = [bad EXCEPT ![e] = 0]
  /\ UNCHANGED <<open, keyVars, rekeyVars, sendVars, discarded>>

\* A frame that does not decrypt is dropped; the third in a row disconnects.
ReadMalformed(e) ==
  /\ open[e] /\ wire[e] # <<>> /\ ~Decrypts(e)
  /\ wire' = [wire EXCEPT ![e] = Tail(@)]
  /\ bad' = [bad EXCEPT ![e] = @ + 1]
  /\ discarded' = discarded \cup
       {IF KeyFor(e, Arrived(e).epoch) = <<>> THEN "epoch" ELSE "key"}
  /\ IF bad'[e] >= MaxMalformed
     THEN CloseWithError(e)
     ELSE UNCHANGED <<open, rekeying>>
  /\ UNCHANGED <<keyVars, due, checked, waiter, answer, sendVars, inbound>>

\* EOF once the other end has closed and everything it sent was read.
ReadEOF(e) ==
  /\ open[e] /\ wire[e] = <<>> /\ ~open[Other(e)]
  /\ CloseWithError(e)
  /\ UNCHANGED <<keyVars, due, checked, waiter, answer, sendVars, readVars>>

\* The network fails, the pong times out, or the user disconnects.
Disconnect(e) ==
  /\ open[e]
  /\ CloseWithError(e)
  /\ UNCHANGED <<keyVars, due, checked, waiter, answer, sendVars, readVars>>

-----------------------------------------------------------------------------
(* connectionLoop. *)

NextPayload(e, kind) ==
  /\ pc[e]["loop"] = "idle" /\ inbound[e] # <<>> /\ Head(inbound[e]).kind = kind
  /\ inbound' = [inbound EXCEPT ![e] = Tail(@)]
  /\ UNCHANGED <<wire, bad>>

\* handleIncomingEncryptedMessage: the content must decrypt with the key of now.
HandleText(e) ==
  /\ NextPayload(e, "text")
  /\ discarded' = IF Head(inbound[e]).inner = key[e] THEN discarded
                  ELSE discarded \cup {"content"}
  /\ UNCHANGED <<open, keyVars, rekeyVars, sendVars>>

\* handleRekeyRequest: generate a key pair, derive the key, build the response.
HandleRekeyRequest(e) ==
  /\ NextPayload(e, "request")
  /\ generated' = [generated EXCEPT ![e] = @ + 1]
  /\ LET r == Head(inbound[e])
         own == <<e, generated'[e]>>
     IN  /\ agreed' = [agreed EXCEPT ![e] = <<DerivedKey(r.epoch, own, r.share)>>]
         /\ StartSend(e, "loop",
                      [kind |-> "response", epoch |-> r.epoch, share |-> own])
  /\ UNCHANGED <<open, keyVars, rekeyVars, sealed, texts, discarded>>

WriteResponse(e) ==
  /\ WriteFrame(e, "loop")
  /\ EndSend(e, "loop", "rotate")
  /\ body' = [body EXCEPT ![e]["loop"] = <<>>]
  /\ UNCHANGED <<open, keyVars, due, rekeying, waiter, answer, agreed, generated,
                 texts, inbound, bad, discarded>>

\* The handler's last step, after the response has left.
\* Mutated form: the responder does not rotate.
LoopStays(e) ==
  /\ pc[e]["loop"] = "rotate"
  /\ pc' = [pc EXCEPT ![e]["loop"] = "idle"]
  /\ agreed' = [agreed EXCEPT ![e] = <<>>]
  /\ UNCHANGED <<open, keyVars, rekeyVars, body, sealed, generated, texts, readVars>>
LoopRotates(e) ==
  /\ pc[e]["loop"] = "rotate"
  /\ RotateSessionKey(e, Head(agreed[e]), Head(agreed[e]).epoch)
  /\ pc' = [pc EXCEPT ![e]["loop"] = "idle"]
  /\ agreed' = [agreed EXCEPT ![e] = <<>>]
  /\ UNCHANGED <<open, checked, waiter, answer, body, sealed, generated, texts, readVars>>

\* The response cannot be sent, or the rotation is refused: conn.Close.
LoopFails(e) ==
  /\ \/ SendFails(e, "loop")
     \/ pc[e]["loop"] = "rotate" /\ Head(agreed[e]).epoch # epoch[e] + 1
  /\ CloseWithError(e)
  /\ EndSend(e, "loop", "idle")
  /\ body' = [body EXCEPT ![e]["loop"] = <<>>]
  /\ agreed' = [agreed EXCEPT ![e] = <<>>]
  /\ UNCHANGED <<keyVars, due, checked, waiter, answer, generated, texts, readVars>>

\* handleRekeyResponse: pass it to the waiter, if there is one and its channel
\* is empty.
HandleRekeyResponse(e) ==
  /\ NextPayload(e, "response")
  /\ answer' = IF waiter[e] # "none" /\ answer[e] = <<>>
               THEN [answer EXCEPT ![e] = <<Head(inbound[e])>>] ELSE answer
  /\ UNCHANGED <<open, keyVars, due, checked, rekeying, waiter, sendVars, discarded>>
-----------------------------------------------------------------------------
TextStep(e) == EncryptPayload(e, "text") \/ WriteText(e) \/ TextFails(e)

RekeyStep(e, g) ==
  \/ RekeySkipped(e, g) \/ InitiateRekey(e, g) \/ EncryptPayload(e, g)
  \/ WriteRequest(e, g) \/ RekeyFails(e, g) \/ RekeyRotates(e, g) \/ RekeyReturns(e, g)

LoopStep(e) ==
  \/ HandleText(e) \/ HandleRekeyRequest(e) \/ HandleRekeyResponse(e)
  \/ EncryptPayload(e, "loop") \/ WriteResponse(e) \/ LoopRotates(e) \/ LoopFails(e)

ReadStep(e) == ReadPayload(e) \/ ReadMalformed(e) \/ ReadEOF(e)

TriggerStep(e) == KeepAliveChecks(e) \/ TriggerRekey(e)

Next ==
  \E e \in Ends :
    \/ SendText(e) \/ RekeyDue(e) \/ Disconnect(e)
    \/ TextStep(e) \/ LoopStep(e) \/ ReadStep(e) \/ TriggerStep(e)
    \/ \E g \in RekeyThreads : RekeyStep(e, g)

Spec == Init /\ [][Next]_vars

\* Go runs every goroutine that can run, and timers fire.
Fairness ==
  \A e \in Ends : /\ WF_vars(LoopStep(e)) /\ WF_vars(TriggerStep(e))
                  /\ \A g \in RekeyThreads : WF_vars(RekeyStep(e, g))
FairSpec == Spec /\ Fairness
-----------------------------------------------------------------------------
(* Properties. *)

Optional(S) == {s \in Seq(S) : Len(s) <= 1}
Steps == {"idle", "start", "encrypt", "write", "wait", "rotate", "return"}

KeysOK ==
  /\ open \in [Ends -> BOOLEAN] /\ epoch \in [Ends -> Nat]
  /\ key \in [Ends -> Key] /\ prev \in [Ends -> Optional(Key)]
RekeyOK ==
  /\ due \in [Ends -> BOOLEAN] /\ checked \in [Ends -> BOOLEAN]
  /\ rekeying \in [Ends -> BOOLEAN]
  /\ waiter \in [Ends -> RekeyThreads \cup {"none"}]
  /\ answer \in [Ends -> Optional(Payload)]
SendOK ==
  /\ pc \in [Ends -> [Threads -> Steps]]
  /\ body \in [Ends -> [Threads -> Optional(Payload)]]
  /\ sealed \in [Ends -> [Threads -> Optional(Frame)]]
  /\ agreed \in [Ends -> Optional(Key)]
  /\ generated \in [Ends -> Nat] /\ texts \in [Ends -> Nat]
ReadOK ==
  /\ wire \in [Ends -> Seq(Frame)] /\ inbound \in [Ends -> Seq(Payload)]
  /\ bad \in [Ends -> Nat] /\ discarded \subseteq {"epoch", "key", "content"}

\* Every variable keeps its type; a thread inside SendRaw has a payload, one at
\* the write has a frame, a handler that is to rotate has the key for it, and
\* the initiator has never more than two callbacks running.
TypeOK ==
  /\ KeysOK /\ RekeyOK /\ SendOK /\ ReadOK
  /\ \A e \in Ends, t \in Threads :
       /\ pc[e][t] \in {"encrypt", "write", "wait"} => body[e][t] # <<>>
       /\ pc[e][t] = "write" => sealed[e][t] # <<>>
  /\ \A e \in Ends :
       /\ pc[e]["loop"] \in {"encrypt", "write", "rotate"} => agreed[e] # <<>>
       /\ Initiates(e) /\ ~rekeying[e] /\ open[e] => \E g \in RekeyThreads : pc[e][g] = "idle"

\* Whenever the two ends are in the same epoch they use the same key and keep the
\* same previous key: "Deterministic initiator rule avoids simultaneous
\* cross-initiated rekeys that could otherwise derive different epoch keys".
KeyAgreement ==
  epoch["lo"] = epoch["hi"] => key["lo"] = key["hi"] /\ prev["lo"] = prev["hi"]

\* The ends are never more than one epoch apart, whichever of them rotates first
\* and whatever the timing of requests, responses, timeouts and goroutines: one
\* previous key is enough for every frame encrypted after the last rotation.
OneEpochApart ==
  epoch["lo"] <= epoch["hi"] + 1 /\ epoch["hi"] <= epoch["lo"] + 1

\* A frame of an epoch the receiver still holds decrypts: frames are only
\* dropped because of their epoch, never because the keys differ.
HeldEpochDecrypts == "key" \notin discarded

\* Epochs that differ become equal again, or the connection ends: the responder
\* is never left alone in its new epoch.
EpochsConverge ==
  epoch["lo"] # epoch["hi"] ~>
    (epoch["lo"] = epoch["hi"] \/ ~open["lo"] \/ ~open["hi"])

\* What a session key is derived from is its secret.
Promise == INSTANCE Ratchet WITH End <- Ends, secret <- [e \in Ends |-> key[e].shares]

\* The session keys implement the ratchet of Ratchet: whichever end rotates first, and
\* whatever requests, responses, timeouts and callbacks cross, the other end can only
\* follow to the same key, no end rotates back or ahead again before it has, and every
\* key has a new share of both ends (initiateRekey, handleRekeyRequest,
\* deriveRekeySessionKey, RotateSessionKey).
IsRatchet == Promise!Spec
=============================================================================
