------------------------ MODULE SecureSession_proofs ------------------------
(***************************************************************************)
(* Proofs about SecureSession: for any number of rekeys and texts and any  *)
(* capacity of the inbound channel, the state is well typed, the two ends  *)
(* are never more than one epoch apart, hold the same keys in the same     *)
(* epoch, no frame of an epoch the receiver holds fails to decrypt, and    *)
(* the session keys implement the ratchet of Ratchet.                      *)
(*                                                                         *)
(* The argument follows the one exchange that can be under way: its        *)
(* request, or the response to it, is in at most one place at a time, and  *)
(* as long as it is somewhere the goroutine that sent the request is in    *)
(* initiateRekey, or the initiator has closed the connection.              *)
(***************************************************************************)
EXTENDS SecureSession, SequenceTheorems, TLAPS

Sending == {"encrypt", "write"}
Engaged == {"start", "encrypt", "write", "wait"}
Registered == {"encrypt", "write", "wait", "return"}

\* The parts of TypeOK about threads: each has what it is about to use, and
\* the initiator has a goroutine to spare.
Equipped ==
  /\ \A e \in Ends, t \in Threads :
       /\ pc[e][t] \in {"encrypt", "write", "wait"} => body[e][t] # <<>>
       /\ pc[e][t] = "write" => sealed[e][t] # <<>>
  /\ \A e \in Ends : pc[e]["loop"] \in {"encrypt", "write", "rotate"} => agreed[e] # <<>>
Spare ==
  \A e \in Ends :
    Initiates(e) /\ ~rekeying[e] /\ open[e] => \E g \in RekeyThreads : pc[e][g] = "idle"

Typed == KeysOK /\ RekeyOK /\ SendOK /\ ReadOK /\ Equipped

\* Who does what: only the initiator's callbacks register, one at a time, and
\* only the other end's loop answers.
ThreadInv ==
  /\ waiter["hi"] = "none"
  /\ answer["hi"] = <<>>
  /\ pc["lo"]["loop"] = "idle"
  /\ pc["hi"]["loop"] \in {"idle", "encrypt", "write", "rotate"}
  /\ \A e \in Ends : pc[e]["text"] \in {"idle", "encrypt", "write"}
  /\ \A g \in RekeyThreads :
       /\ pc["hi"][g] \in {"idle", "start"}
       /\ pc["lo"][g] # "rotate"
       /\ pc["lo"][g] \in Registered <=> waiter["lo"] = g
       /\ open["lo"] /\ pc["lo"][g] \in Engaged =>
            /\ rekeying["lo"]
            /\ \A h \in RekeyThreads : pc["lo"][h] \in Engaged => h = g

\* The goroutine in initiateRekey waits for its response.
Awaits == waiter["lo"] # "none" /\ pc["lo"][waiter["lo"]] = "wait"

Mine == Head(body["lo"][waiter["lo"]])

\* What each thread sends, and what is sent in which direction.
Kind(e) == IF e = "lo" THEN "request" ELSE "response"

KindInv ==
  /\ \A e \in Ends, t \in Threads :
       /\ pc[e][t] \in Sending =>
            Head(body[e][t]).kind = IF t = "text" THEN "text" ELSE Kind(e)
       /\ pc[e][t] = "write" => Head(sealed[e][t]).body = Head(body[e][t])
  /\ Awaits => Mine.kind = "request"
  /\ \A e \in Ends :
       /\ \A i \in 1..Len(wire[e]) : wire[e][i].body.kind \in {"text", Kind(Other(e))}
       /\ \A i \in 1..Len(inbound[e]) : inbound[e][i].kind \in {"text", Kind(Other(e))}
  /\ \A i \in 1..Len(answer["lo"]) : answer["lo"][i].kind = "response"

\* Where the request, or the response to it, can be.
Places == {"request", "requestOnWire", "requestInbound",
           "response", "responseOnWire", "responseInbound", "answer"}

TokenFrames(e) == {f \in Frame : f.body.kind = Kind(e)}
Tokens(e) == {p \in Payload : p.kind = Kind(e)}

Carries(q, T) == \E i \in 1..Len(q) : q[i] \in T

At(place) ==
  \/ place = "request" /\ \E g \in RekeyThreads : pc["lo"][g] \in Sending
  \/ place = "requestOnWire" /\ Carries(wire["hi"], TokenFrames("lo"))
  \/ place = "requestInbound" /\ Carries(inbound["hi"], Tokens("lo"))
  \/ place = "response" /\ pc["hi"]["loop"] \in Sending
  \/ place = "responseOnWire" /\ Carries(wire["lo"], TokenFrames("hi"))
  \/ place = "responseInbound" /\ Carries(inbound["lo"], Tokens("hi"))
  \/ place = "answer" /\ Awaits /\ answer["lo"] # <<>>

OneOf(q, T) == \A i, j \in 1..Len(q) : q[i] \in T /\ q[j] \in T => i = j

\* There is one of them, and then the goroutine has not returned; nothing is in
\* its channel before the request has left.
TokenInv ==
  /\ \A p, q \in Places : At(p) /\ At(q) => p = q
  /\ \A e \in Ends : OneOf(wire[e], TokenFrames(Other(e))) /\ OneOf(inbound[e], Tokens(Other(e)))
  /\ \A p \in Places \ {"request"} : At(p) => Awaits \/ ~ open["lo"]
  /\ At("request") => answer["lo"] = <<>>

\* The other end has answered.
Answered ==
  \/ epoch["hi"] = epoch["lo"] + 1
  \/ epoch["hi"] = epoch["lo"] /\ pc["hi"]["loop"] = "rotate"

EpochInv ==
  /\ \/ epoch["hi"] = epoch["lo"]
     \/ epoch["hi"] = epoch["lo"] + 1
     \/ epoch["lo"] = epoch["hi"] + 1 /\ pc["hi"]["loop"] = "rotate"
  /\ pc["hi"]["loop"] # "idle" =>
       Head(agreed["hi"]).epoch = epoch["hi"] + 1 /\ epoch["hi"] <= epoch["lo"]
  /\ Answered =>
       /\ Awaits \/ ~ open["lo"]
       /\ \A p \in {"request", "requestOnWire", "requestInbound", "response"} : ~ At(p)
  /\ \A p \in {"responseOnWire", "responseInbound", "answer"} : At(p) => Answered
  /\ At("response") => epoch["hi"] = epoch["lo"]

\* The key the other end answers with.
Target == IF epoch["hi"] = epoch["lo"] + 1 THEN key["hi"] ELSE Head(agreed["hi"])

RequestOK(p) ==
  p.kind = "request" => p.epoch = epoch["lo"] + 1 /\ (Awaits => p = Mine)
ResponseOK(p) ==
  p.kind = "response" =>
    /\ p.epoch = epoch["lo"] + 1
    /\ Awaits => DerivedKey(p.epoch, Mine.share, p.share) = Target

\* What the messages say.
ExchangeInv ==
  /\ \A g \in RekeyThreads :
       pc["lo"][g] \in {"encrypt", "write", "wait"} => Head(body["lo"][g]).epoch = epoch["lo"] + 1
  /\ \A i \in 1..Len(wire["hi"]) : RequestOK(wire["hi"][i].body)
  /\ \A i \in 1..Len(inbound["hi"]) : RequestOK(inbound["hi"][i])
  /\ pc["hi"]["loop"] \in Sending => ResponseOK(Head(body["hi"]["loop"]))
  /\ \A i \in 1..Len(wire["lo"]) : ResponseOK(wire["lo"][i].body)
  /\ \A i \in 1..Len(inbound["lo"]) : ResponseOK(inbound["lo"][i])
  /\ Awaits => \A i \in 1..Len(answer["lo"]) : ResponseOK(answer["lo"][i])

KeyInv ==
  /\ epoch["lo"] = epoch["hi"] => key["lo"] = key["hi"] /\ prev["lo"] = prev["hi"]
  /\ epoch["lo"] = epoch["hi"] + 1 =>
       prev["lo"] = <<key["hi"]>> /\ key["lo"] = Head(agreed["hi"])
  /\ epoch["hi"] = epoch["lo"] + 1 => prev["hi"] = <<key["lo"]>>

\* A frame from one end: what its epoch says of the keys of both.
FrameOK(f, s, r) ==
  /\ f.epoch <= epoch[s]
  /\ f.epoch = epoch[s] => f.key = key[s]
  /\ f.epoch + 1 = epoch[s] => prev[s] = <<f.key>>
  /\ f.epoch = epoch[r] => f.key = key[r]
  /\ f.epoch + 1 = epoch[r] => prev[r] = <<f.key>>

FrameInv ==
  \A e \in Ends :
    /\ \A i \in 1..Len(wire[e]) : FrameOK(wire[e][i], Other(e), e)
    /\ \A t \in Threads : pc[e][t] = "write" => FrameOK(Head(sealed[e][t]), e, Other(e))

\* The inductive invariant.
Inv == /\ TypeOK /\ ThreadInv /\ KindInv /\ TokenInv /\ EpochInv /\ ExchangeInv
       /\ KeyInv /\ FrameInv /\ HeldEpochDecrypts

-----------------------------------------------------------------------------
(* Sequences: what may be absent, and what is on a channel. *)

\* What is in an optional value.
LEMMA OptionalCases ==
  ASSUME NEW S, NEW s \in Optional(S), s # <<>>
  PROVE  Head(s) \in S /\ s = <<Head(s)>> /\ Len(s) = 1
<1>1. s \in Seq(S) /\ Len(s) <= 1 /\ Len(s) \in Nat  BY DEF Optional
<1>2. Len(s) = 1
  <2>1. Len(s) # 0  BY <1>1, EmptySeq
  <2>2. \A n \in Nat : n <= 1 /\ n # 0 => n = 1  OBVIOUS
  <2> QED  BY <1>1, <2>1, <2>2
<1> QED  BY <1>1, <1>2

\* The optional values.
LEMMA OptionalValues ==
  ASSUME NEW S
  PROVE  /\ <<>> \in Optional(S)
         /\ \A x \in S : <<x>> \in Optional(S) /\ <<x>> # <<>> /\ Head(<<x>>) = x
BY DEF Optional

\* The two ends are one another's other end.
LEMMA TwoEnds ==
  ASSUME NEW e \in Ends
  PROVE  Other(e) \in Ends /\ Other(e) # e /\ Other(Other(e)) = e
BY DEF Ends, Other

\* What a channel carries after an element is appended, or the first is taken.
LEMMA Channel ==
  ASSUME NEW S, NEW q \in Seq(S)
  PROVE  /\ \A f \in S, T \in SUBSET S :
              /\ Append(q, f) \in Seq(S)
              /\ Carries(Append(q, f), T) <=> Carries(q, T) \/ f \in T
              /\ OneOf(q, T) /\ (f \in T => ~ Carries(q, T)) => OneOf(Append(q, f), T)
         /\ q # <<>> =>
              /\ Head(q) \in S /\ Tail(q) \in Seq(S)
              /\ \A i \in 1..Len(Tail(q)) : i + 1 \in 1..Len(q) /\ Tail(q)[i] = q[i + 1]
              /\ 1 \in 1..Len(q) /\ Head(q) = q[1]
              /\ \A T \in SUBSET S :
                   /\ Carries(Tail(q), T) => Carries(q, T)
                   /\ OneOf(q, T) => OneOf(Tail(q), T)
                   /\ OneOf(q, T) /\ Head(q) \in T => Carries(q, T) /\ ~ Carries(Tail(q), T)
<1>1. ASSUME NEW f \in S, NEW T \in SUBSET S
      PROVE  /\ Append(q, f) \in Seq(S)
             /\ Carries(Append(q, f), T) <=> Carries(q, T) \/ f \in T
             /\ OneOf(q, T) /\ (f \in T => ~ Carries(q, T)) => OneOf(Append(q, f), T)
  <2> DEFINE r == Append(q, f)
  <2>1. /\ r \in Seq(S) /\ Len(r) = Len(q) + 1 /\ Len(q) \in Nat
        /\ r[Len(r)] = f /\ \A i \in 1..Len(q) : r[i] = q[i]
    OBVIOUS
  <2> HIDE DEF r
  <2>2. \A i \in 1..Len(r) : i \in 1..Len(q) \/ i = Len(r)  BY <2>1
  <2>3. \A i \in 1..Len(q) : i \in 1..Len(r)  BY <2>1
  <2>4. Len(r) \in 1..Len(r)  BY <2>1
  <2>5. Carries(r, T) <=> Carries(q, T) \/ f \in T
    BY <2>1, <2>2, <2>3, <2>4 DEF Carries
  <2>6. OneOf(q, T) /\ (f \in T => ~ Carries(q, T)) => OneOf(r, T)
    BY <2>1, <2>2 DEF Carries, OneOf
  <2> QED  BY <2>1, <2>5, <2>6 DEF r
<1>2. ASSUME q # <<>>
      PROVE  /\ Head(q) \in S /\ Tail(q) \in Seq(S)
             /\ \A i \in 1..Len(Tail(q)) : i + 1 \in 1..Len(q) /\ Tail(q)[i] = q[i + 1]
             /\ 1 \in 1..Len(q) /\ Head(q) = q[1]
             /\ \A T \in SUBSET S :
                  /\ Carries(Tail(q), T) => Carries(q, T)
                  /\ OneOf(q, T) => OneOf(Tail(q), T)
                  /\ OneOf(q, T) /\ Head(q) \in T => Carries(q, T) /\ ~ Carries(Tail(q), T)
  <2> DEFINE r == Tail(q)
  <2>1. /\ Head(q) \in S /\ r \in Seq(S) /\ Len(r) = Len(q) - 1 /\ Len(q) \in Nat \ {0}
        /\ Head(q) = q[1] /\ \A i \in 1..Len(r) : r[i] = q[i + 1]
    BY <1>2
  <2> HIDE DEF r
  <2>2. \A i \in 1..Len(r) : i + 1 \in 1..Len(q) /\ i + 1 # 1  BY <2>1
  <2>3. 1 \in 1..Len(q)  BY <2>1
  <2>4. ASSUME NEW T \in SUBSET S
        PROVE  /\ Carries(r, T) => Carries(q, T)
               /\ OneOf(q, T) => OneOf(r, T)
               /\ OneOf(q, T) /\ Head(q) \in T => Carries(q, T) /\ ~ Carries(r, T)
    <3>1. Carries(r, T) => Carries(q, T)  BY <2>1, <2>2 DEF Carries
    <3>2. ASSUME OneOf(q, T), NEW i \in 1..Len(r), NEW j \in 1..Len(r),
                 r[i] \in T, r[j] \in T
          PROVE  i = j
      <4>1. i + 1 = j + 1  BY <2>1, <2>2, <3>2 DEF OneOf
      <4> QED  BY <4>1, <2>1
    <3>3. OneOf(q, T) /\ Head(q) \in T => Carries(q, T) /\ ~ Carries(r, T)
      BY <2>1, <2>2, <2>3 DEF Carries, OneOf
    <3> QED  BY <3>1, <3>2, <3>3 DEF OneOf
  <2> QED  BY <2>1, <2>2, <2>3, <2>4 DEF r
<1> QED  BY <1>1, <1>2

-----------------------------------------------------------------------------
(* Types. *)

\* TypeOK is the conjunction of its parts.
LEMMA TypeParts == TypeOK <=> Typed /\ Spare
BY DEF TypeOK, Typed, Equipped, Spare

\* What a thread has in hand when it needs it.
LEMMA InHand ==
  ASSUME Typed, NEW e \in Ends, NEW t \in Threads
  PROVE  /\ pc[e][t] \in Steps
         /\ pc[e][t] \in {"encrypt", "write", "wait"} =>
              body[e][t] # <<>> /\ Head(body[e][t]) \in Payload
         /\ pc[e][t] = "write" => sealed[e][t] # <<>> /\ Head(sealed[e][t]) \in Frame
         /\ pc[e]["loop"] \in {"encrypt", "write", "rotate"} =>
              agreed[e] # <<>> /\ Head(agreed[e]) \in Key
<1>1. pc[e][t] \in Steps  BY DEF Typed, SendOK
<1>2. /\ body[e][t] \in Optional(Payload) /\ sealed[e][t] \in Optional(Frame)
      /\ agreed[e] \in Optional(Key)
  BY DEF Typed, SendOK
<1> QED  BY <1>1, <1>2, OptionalCases DEF Typed, Equipped

\* A payload that is sent, by what it is.
LEMMA Sendable ==
  ASSUME NEW k \in Key, NEW n \in Nat, NEW h \in Share, NEW j \in Share
  PROVE  /\ [kind |-> "text", inner |-> k] \in Payload
         /\ [kind |-> "request", epoch |-> n, share |-> h] \in Payload
         /\ [kind |-> "response", epoch |-> n, share |-> h] \in Payload
         /\ DerivedKey(n, h, j) \in Key
BY DEF Payload, Key, DerivedKey

\* What the parts of an exchange hold.
LEMMA ExchangeFields ==
  ASSUME NEW p \in Payload, p.kind \in {"request", "response"}
  PROVE  p.epoch \in Nat /\ p.share \in Share
BY DEF Payload

\* A step that leaves the threads and the channels as they are.
LEMMA QuietTypes ==
  ASSUME Typed, KeysOK', RekeyOK', UNCHANGED <<sendVars, wire, inbound>>,
         bad' \in [Ends -> Nat], discarded' \subseteq {"epoch", "key", "content"}
  PROVE  Typed'
BY DEF Typed, SendOK, ReadOK, Equipped, sendVars

\* What one thread works on is replaced, or stays.
Becomes(new, old, e, t, S) ==
  /\ new \in [Ends -> [Threads -> S]]
  /\ \A d \in Ends, u \in Threads : d # e \/ u # t => new[d][u] = old[d][u]

\* It stays, it is gone, or it is something else.
LEMMA Replaced ==
  ASSUME NEW S, NEW e \in Ends, NEW t \in Threads, NEW old \in [Ends -> [Threads -> S]]
  PROVE  /\ Becomes(old, old, e, t, S)
         /\ \A x \in S : /\ Becomes([old EXCEPT ![e][t] = x], old, e, t, S)
                         /\ [old EXCEPT ![e][t] = x][e][t] = x
BY DEF Becomes

\* A step of one thread, which may get or lose what it works on.
LEMMA ThreadTypes ==
  ASSUME Typed, NEW e \in Ends, NEW t \in Threads, NEW s \in Steps,
         pc' = [pc EXCEPT ![e][t] = s],
         Becomes(body', body, e, t, Optional(Payload)),
         Becomes(sealed', sealed, e, t, Optional(Frame)),
         agreed' \in [Ends -> Optional(Key)],
         \A d \in Ends : d # e \/ t # "loop" => agreed'[d] = agreed[d],
         s \in {"encrypt", "write", "wait"} => body'[e][t] # <<>>,
         s = "write" => sealed'[e][t] # <<>>,
         t = "loop" /\ s \in {"encrypt", "write", "rotate"} => agreed'[e] # <<>>,
         generated' \in [Ends -> Nat], texts' \in [Ends -> Nat]
  PROVE  SendOK' /\ Equipped'
<1>1. pc \in [Ends -> [Threads -> Steps]]  BY DEF Typed, SendOK
<1>2. pc' \in [Ends -> [Threads -> Steps]] /\ pc'[e][t] = s  BY <1>1
<1>3. \A d \in Ends, u \in Threads : d # e \/ u # t => pc'[d][u] = pc[d][u]  BY <1>1
<1>4. SendOK'  BY <1>2 DEF SendOK, Becomes
<1>5. ASSUME NEW d \in Ends, NEW u \in Threads
      PROVE  /\ pc'[d][u] \in {"encrypt", "write", "wait"} => body'[d][u] # <<>>
             /\ pc'[d][u] = "write" => sealed'[d][u] # <<>>
  <2>1. CASE d = e /\ u = t  BY <1>2, <2>1
  <2>2. CASE d # e \/ u # t
    <3>1. pc'[d][u] = pc[d][u] /\ body'[d][u] = body[d][u] /\ sealed'[d][u] = sealed[d][u]
      BY <1>3, <2>2 DEF Becomes
    <3> QED  BY <3>1 DEF Typed, Equipped
  <2> QED  BY <2>1, <2>2
<1>6. ASSUME NEW d \in Ends, pc'[d]["loop"] \in {"encrypt", "write", "rotate"}
      PROVE  agreed'[d] # <<>>
  <2>1. CASE d = e /\ t = "loop"  BY <1>2, <1>6, <2>1
  <2>2. CASE d # e \/ t # "loop"
    <3>1. pc'[d]["loop"] = pc[d]["loop"] /\ agreed'[d] = agreed[d]  BY <1>3, <2>2 DEF Threads
    <3> QED  BY <1>6, <3>1 DEF Typed, Equipped
  <2> QED  BY <2>1, <2>2
<1> QED  BY <1>4, <1>5, <1>6 DEF Equipped

\* A thread goes where it needs nothing.
LEMMA ThreadRests ==
  ASSUME Typed, NEW e \in Ends, NEW t \in Threads,
         \/ pc' = [pc EXCEPT ![e][t] = "idle"]
         \/ pc' = [pc EXCEPT ![e][t] = "start"]
         \/ pc' = [pc EXCEPT ![e][t] = "return"],
         body' = body \/ body' = [body EXCEPT ![e][t] = <<>>],
         sealed' = sealed \/ sealed' = [sealed EXCEPT ![e][t] = <<>>],
         agreed' = agreed \/ (t = "loop" /\ agreed' = [agreed EXCEPT ![e] = <<>>]),
         UNCHANGED <<generated, texts>>
  PROVE  SendOK' /\ Equipped'
<1>1. SendOK  BY DEF Typed
<1>2. Becomes(body', body, e, t, Optional(Payload))  BY <1>1, Replaced, OptionalValues DEF SendOK
<1>3. Becomes(sealed', sealed, e, t, Optional(Frame))  BY <1>1, Replaced, OptionalValues DEF SendOK
<1>4. agreed' \in [Ends -> Optional(Key)]
  <2>1. <<>> \in Optional(Key)  BY OptionalValues
  <2> QED  BY <1>1, <2>1 DEF SendOK
<1>5. \A d \in Ends : d # e \/ t # "loop" => agreed'[d] = agreed[d]  BY <1>1 DEF SendOK
<1>6. generated' \in [Ends -> Nat] /\ texts' \in [Ends -> Nat]  BY <1>1 DEF SendOK
<1>7. ASSUME NEW s \in {"idle", "start", "return"}, pc' = [pc EXCEPT ![e][t] = s]
      PROVE  SendOK' /\ Equipped'
  <2>1. s \in Steps /\ s \notin {"encrypt", "write", "wait", "rotate"}  BY DEF Steps
  <2> QED  BY <1>2, <1>3, <1>4, <1>5, <1>6, <1>7, <2>1, ThreadTypes
<1> QED  BY <1>7

\* Every step keeps the types.
LEMMA TypedStep ==
  ASSUME Typed, ThreadInv, KindInv, Next
  PROVE  Typed'
<1> USE DEF Typed
<1>0. /\ <<>> \in Optional(Payload) /\ <<>> \in Optional(Frame) /\ <<>> \in Optional(Key)
      /\ "text" \in Threads /\ "loop" \in Threads
      /\ \A g \in RekeyThreads : g \in Threads /\ g # "loop" /\ g # "text"
      /\ body \in [Ends -> [Threads -> Optional(Payload)]]
      /\ sealed \in [Ends -> [Threads -> Optional(Frame)]]
      /\ agreed \in [Ends -> Optional(Key)]
      /\ texts \in [Ends -> Nat] /\ generated \in [Ends -> Nat]
  BY OptionalValues DEF Threads, RekeyThreads, SendOK
<1>1. ASSUME NEW e \in Ends, SendText(e)  PROVE Typed'
  <2>1. key[e] \in Key  BY DEF KeysOK
  <2> DEFINE p == [kind |-> "text", inner |-> key[e]]
  <2>2. p \in Payload  BY <2>1 DEF Payload
  <2>3. <<p>> \in Optional(Payload) /\ <<p>> # <<>>  BY <2>2, OptionalValues
  <2> HIDE DEF p
  <2>4. /\ pc' = [pc EXCEPT ![e]["text"] = "encrypt"]
        /\ body' = [body EXCEPT ![e]["text"] = <<p>>]
        /\ texts' = [texts EXCEPT ![e] = @ + 1]
        /\ UNCHANGED <<open, keyVars, rekeyVars, sealed, agreed, generated, readVars>>
    BY <1>1 DEF SendText, StartSend, p
  <2>5. KeysOK' /\ RekeyOK' /\ ReadOK'
    BY <2>4 DEF KeysOK, RekeyOK, ReadOK, keyVars, rekeyVars, readVars
  <2>6. texts' \in [Ends -> Nat]  BY <1>0, <2>4
  <2>7. /\ Becomes(body', body, e, "text", Optional(Payload)) /\ body'[e]["text"] # <<>>
        /\ Becomes(sealed', sealed, e, "text", Optional(Frame))
    BY <1>0, <2>3, <2>4 DEF Becomes
  <2>8. SendOK' /\ Equipped'  BY <1>0, <2>4, <2>6, <2>7, ThreadTypes DEF Steps
  <2> QED  BY <2>5, <2>8
<1>2. ASSUME NEW e \in Ends, RekeyDue(e) \/ Disconnect(e) \/ KeepAliveChecks(e) \/ ReadEOF(e)
      PROVE  Typed'
  BY <1>2, QuietTypes DEF RekeyDue, Disconnect, KeepAliveChecks, ReadEOF, CloseWithError,
     KeysOK, RekeyOK, ReadOK, keyVars, readVars, sendVars
<1>3. ASSUME NEW e \in Ends, NEW t \in Threads, EncryptPayload(e, t)  PROVE Typed'
  <2>1. Head(body[e][t]) \in Payload  BY <1>3, InHand DEF EncryptPayload
  <2> DEFINE f == [epoch |-> epoch[e], key |-> key[e], body |-> Head(body[e][t])]
  <2>2. f \in Frame  BY <2>1 DEF Frame, KeysOK
  <2>3. <<f>> \in Optional(Frame) /\ <<f>> # <<>>  BY <2>2, OptionalValues
  <2> HIDE DEF f
  <2> QED
    BY <1>3, <2>3 DEF EncryptPayload, f, KeysOK, RekeyOK, SendOK, ReadOK, Equipped, keyVars,
       rekeyVars, readVars, Steps
\* A frame is written, and the thread goes on.
<1>4. ASSUME NEW e \in Ends, NEW t \in Threads, NEW s \in Steps \ {"encrypt", "write"},
             s = "wait" => body' = body, s = "rotate" => t = "loop",
             WriteFrame(e, t), EndSend(e, t, s),
             body' = body \/ body' = [body EXCEPT ![e][t] = <<>>],
             UNCHANGED <<open, keyVars, due, rekeying, waiter, answer, agreed, generated, texts,
                         inbound, bad, discarded>>
      PROVE  Typed'
  <2>1. /\ Head(sealed[e][t]) \in Frame /\ body[e][t] # <<>>
        /\ t = "loop" => agreed[e] # <<>>
    BY <1>4, InHand DEF WriteFrame
  <2>2. wire' \in [Ends -> Seq(Frame)]  BY <1>4, <2>1, TwoEnds DEF WriteFrame, ReadOK
  <2>3. KeysOK' /\ RekeyOK' /\ ReadOK'
    BY <1>4, <2>2 DEF WriteFrame, KeysOK, RekeyOK, ReadOK, keyVars
  <2>4. /\ pc' = [pc EXCEPT ![e][t] = s] /\ sealed' = [sealed EXCEPT ![e][t] = <<>>]
        /\ agreed' = agreed
    BY <1>4 DEF EndSend
  <2>5. s = "wait" => body'[e][t] # <<>>  BY <1>4, <2>1
  <2>6. /\ Becomes(body', body, e, t, Optional(Payload))
        /\ Becomes(sealed', sealed, e, t, Optional(Frame))
    <3>1. CASE body' = body  BY <1>0, <2>4, <3>1 DEF Becomes
    <3>2. CASE body' = [body EXCEPT ![e][t] = <<>>]  BY <1>0, <2>4, <3>2 DEF Becomes
    <3> QED  BY <1>4, <3>1, <3>2
  <2>7. SendOK' /\ Equipped'  BY <1>0, <1>4, <2>1, <2>4, <2>5, <2>6, ThreadTypes
  <2> QED  BY <2>3, <2>7
<1>5. ASSUME NEW e \in Ends, WriteText(e)  PROVE Typed'
  BY <1>0, <1>4, <1>5 DEF WriteText, Steps
<1>6. ASSUME NEW e \in Ends, NEW g \in RekeyThreads, WriteRequest(e, g)  PROVE Typed'
  BY <1>0, <1>4, <1>6 DEF WriteRequest, Steps
<1>7. ASSUME NEW e \in Ends, WriteResponse(e)  PROVE Typed'
  BY <1>0, <1>4, <1>7 DEF WriteResponse, Steps
<1>8. ASSUME NEW e \in Ends, NEW t \in Threads,
             \/ t = "text" /\ TextFails(e)
             \/ t = "loop" /\ LoopFails(e)
             \/ t \in RekeyThreads /\ RekeyFails(e, t)
      PROVE  Typed'
  <2>1. KeysOK' /\ RekeyOK' /\ ReadOK'
    BY <1>8 DEF TextFails, LoopFails, RekeyFails, Unregister, CloseWithError, KeysOK, RekeyOK,
       ReadOK, keyVars, readVars
  <2>2. /\ pc' = [pc EXCEPT ![e][t] = "idle"] /\ sealed' = [sealed EXCEPT ![e][t] = <<>>]
        /\ body' = [body EXCEPT ![e][t] = <<>>]
        /\ agreed' = agreed \/ (t = "loop" /\ agreed' = [agreed EXCEPT ![e] = <<>>])
        /\ UNCHANGED <<generated, texts>>
    <3>1. CASE t = "text" /\ TextFails(e)  BY <3>1 DEF TextFails, EndSend
    <3>2. CASE t = "loop" /\ LoopFails(e)  BY <3>2 DEF LoopFails, EndSend
    <3>3. CASE t \in RekeyThreads /\ RekeyFails(e, t)  BY <3>3 DEF RekeyFails, EndSend
    <3> QED  BY <1>8, <3>1, <3>2, <3>3
  <2>3. SendOK' /\ Equipped'  BY <1>0, <2>2, ThreadRests
  <2> QED  BY <2>1, <2>3
<1>9. ASSUME NEW e \in Ends, NEW g \in RekeyThreads, RekeySkipped(e, g)  PROVE Typed'
  <2>1. KeysOK' /\ RekeyOK' /\ ReadOK'
    BY <1>9 DEF RekeySkipped, KeysOK, RekeyOK, ReadOK, keyVars, readVars
  <2>2. pc' = [pc EXCEPT ![e][g] = "idle"] /\ UNCHANGED <<body, sealed, agreed, generated, texts>>
    BY <1>9 DEF RekeySkipped
  <2>3. SendOK' /\ Equipped'  BY <1>0, <2>2, ThreadRests
  <2> QED  BY <2>1, <2>3
<1>10. ASSUME NEW e \in Ends, TriggerRekey(e)  PROVE Typed'
  <2>1. KeysOK' /\ RekeyOK' /\ ReadOK'
    BY <1>10 DEF TriggerRekey, KeysOK, RekeyOK, ReadOK, keyVars, readVars
  <2>2. CASE pc' = pc
    BY <1>10, <2>1, <2>2, QuietTypes DEF TriggerRekey, ReadOK, readVars, sendVars
  <2>3. ASSUME NEW g \in RekeyThreads, pc' = [pc EXCEPT ![e][g] = "start"]  PROVE Typed'
    <3>1. UNCHANGED <<body, sealed, agreed, generated, texts>>  BY <1>10 DEF TriggerRekey
    <3>2. g # "loop"  BY DEF RekeyThreads
    <3>3. SendOK' /\ Equipped'  BY <1>0, <2>3, <3>1, <3>2, ThreadRests
    <3> QED  BY <2>1, <3>3
  <2> QED  BY <1>10, <2>2, <2>3 DEF TriggerRekey
<1>11. ASSUME NEW e \in Ends, NEW g \in RekeyThreads, InitiateRekey(e, g)  PROVE Typed'
  <2> DEFINE p == [kind |-> "request", epoch |-> epoch[e] + 1, share |-> <<e, generated'[e]>>]
  <2>1. generated' = [generated EXCEPT ![e] = @ + 1]  BY <1>11 DEF InitiateRekey
  <2>2. generated' \in [Ends -> Nat]  BY <1>0, <2>1
  <2>3. p \in Payload  BY <2>2 DEF Payload, Share, KeysOK
  <2>4. <<p>> \in Optional(Payload) /\ <<p>> # <<>>  BY <2>3, OptionalValues
  <2> HIDE DEF p
  <2>5. /\ pc' = [pc EXCEPT ![e][g] = "encrypt"] /\ body' = [body EXCEPT ![e][g] = <<p>>]
        /\ waiter' = [waiter EXCEPT ![e] = g] /\ answer' = [answer EXCEPT ![e] = <<>>]
        /\ UNCHANGED <<open, keyVars, due, checked, rekeying, sealed, agreed, texts, readVars>>
    BY <1>11 DEF InitiateRekey, StartSend, p
  <2>6. KeysOK' /\ RekeyOK' /\ ReadOK'
    BY <1>0, <2>5 DEF KeysOK, RekeyOK, ReadOK, keyVars, readVars
  <2>7. /\ Becomes(body', body, e, g, Optional(Payload)) /\ body'[e][g] # <<>>
        /\ Becomes(sealed', sealed, e, g, Optional(Frame)) /\ g # "loop"
    BY <1>0, <2>4, <2>5 DEF Becomes, RekeyThreads
  <2>8. SendOK' /\ Equipped'  BY <1>0, <2>2, <2>5, <2>7, ThreadTypes DEF Steps
  <2> QED  BY <2>6, <2>8
<1>12. ASSUME NEW e \in Ends, NEW k \in Key, NEW n, RotateSessionKey(e, k, n)
       PROVE  /\ KeysOK' \/ open' # open
              /\ due' \in [Ends -> BOOLEAN] /\ rekeying' \in [Ends -> BOOLEAN]
  <2>1. <<key[e]>> \in Optional(Key)  BY OptionalValues DEF KeysOK
  <2>2. n \in Nat  BY <1>12 DEF RotateSessionKey, KeysOK
  <2> QED  BY <1>12, <2>1, <2>2 DEF RotateSessionKey, KeysOK, RekeyOK
<1>13. ASSUME NEW e \in Ends, NEW g \in RekeyThreads, RekeyRotates(e, g)  PROVE Typed'
  <2>1. e = "lo" /\ waiter["lo"] = g
    BY <1>13 DEF RekeyRotates, ThreadInv, Registered, Ends
  <2>2. Awaits  BY <1>13, <2>1 DEF RekeyRotates, Awaits, RekeyThreads
  <2>3. Head(body[e][g]) \in Payload /\ Head(body[e][g]).kind = "request"
    BY <1>0, <1>13, <2>1, <2>2, InHand DEF RekeyRotates, KindInv, Mine
  <2>4. Received(e) \in Payload /\ Received(e).kind = "response"
    <3>1. answer[e] \in Optional(Payload) /\ answer[e] # <<>>  BY <1>13 DEF RekeyRotates, RekeyOK
    <3>2. Head(answer[e]) \in Payload /\ Len(answer[e]) = 1 /\ answer[e] = <<Head(answer[e])>>
      BY <3>1, OptionalCases
    <3>3. answer[e][1].kind = "response"  BY <2>1, <3>2 DEF KindInv
    <3>4. answer[e][1] = Head(answer[e])  BY <3>2
    <3> QED  BY <3>2, <3>3, <3>4 DEF Received
  <2> DEFINE n == Received(e).epoch
             k == DerivedKey(n, Head(body[e][g]).share, Received(e).share)
  <2>5. k \in Key
    <3>1. /\ n \in Nat /\ Received(e).share \in Share /\ Head(body[e][g]).share \in Share
      BY <2>3, <2>4, ExchangeFields
    <3> QED  BY <3>1 DEF Key, DerivedKey
  <2>6. RotateSessionKey(e, k, n)  BY <1>13 DEF RekeyRotates
  <2> HIDE DEF n, k
  <2>7. KeysOK' /\ RekeyOK' /\ ReadOK'
    BY <1>12, <1>13, <2>5, <2>6 DEF RekeyRotates, KeysOK, RekeyOK, ReadOK, readVars
  <2>8. pc' = [pc EXCEPT ![e][g] = "return"] /\ UNCHANGED <<body, sealed, agreed, generated, texts>>
    BY <1>13 DEF RekeyRotates
  <2>9. SendOK' /\ Equipped'  BY <1>0, <2>8, ThreadRests
  <2> QED  BY <2>7, <2>9
<1>14. ASSUME NEW e \in Ends, NEW g \in RekeyThreads, RekeyReturns(e, g)  PROVE Typed'
  <2>1. KeysOK' /\ RekeyOK' /\ ReadOK'
    BY <1>14 DEF RekeyReturns, Unregister, KeysOK, RekeyOK, ReadOK, keyVars, readVars
  <2>2. /\ pc' = [pc EXCEPT ![e][g] = "idle"] /\ body' = [body EXCEPT ![e][g] = <<>>]
        /\ UNCHANGED <<sealed, agreed, generated, texts>>
    BY <1>14 DEF RekeyReturns
  <2>3. SendOK' /\ Equipped'  BY <1>0, <2>2, ThreadRests
  <2> QED  BY <2>1, <2>3
<1>15. ASSUME NEW e \in Ends, ReadPayload(e)  PROVE Typed'
  <2>1. wire[e] \in Seq(Frame) /\ wire[e] # <<>>  BY <1>15 DEF ReadPayload, ReadOK
  <2>2. Head(wire[e]) \in Frame /\ Tail(wire[e]) \in Seq(Frame)  BY <2>1, Channel
  <2>3. Arrived(e).body \in Payload  BY <2>2 DEF Arrived, Frame
  <2>4. ReadOK'  BY <1>15, <2>2, <2>3 DEF ReadPayload, ReadOK
  <2> QED
    BY <1>15, <2>4 DEF ReadPayload, KeysOK, RekeyOK, SendOK, Equipped, keyVars, rekeyVars, sendVars
<1>16. ASSUME NEW e \in Ends, ReadMalformed(e)  PROVE Typed'
  <2>1. wire[e] \in Seq(Frame) /\ wire[e] # <<>>  BY <1>16 DEF ReadMalformed, ReadOK
  <2>2. Tail(wire[e]) \in Seq(Frame)  BY <2>1, Channel
  <2>3. ReadOK'  BY <1>16, <2>2 DEF ReadMalformed, ReadOK
  <2>4. KeysOK' /\ RekeyOK'
    BY <1>16 DEF ReadMalformed, CloseWithError, KeysOK, RekeyOK, keyVars
  <2> QED  BY <1>16, <2>3, <2>4 DEF ReadMalformed, SendOK, Equipped, sendVars
<1>17. ASSUME NEW e \in Ends, NEW kind, NextPayload(e, kind)
       PROVE  /\ Head(inbound[e]) \in Payload /\ Head(inbound[e]).kind = kind
              /\ discarded' = discarded \/ discarded' = discarded \cup {"content"} => ReadOK'
  <2>1. inbound[e] \in Seq(Payload) /\ inbound[e] # <<>>  BY <1>17 DEF NextPayload, ReadOK
  <2>2. Head(inbound[e]) \in Payload /\ Tail(inbound[e]) \in Seq(Payload)  BY <2>1, Channel
  <2> QED  BY <1>17, <2>2 DEF NextPayload, ReadOK
<1>18. ASSUME NEW e \in Ends, HandleText(e)  PROVE Typed'
  <2>1. ReadOK'  BY <1>17, <1>18 DEF HandleText
  <2> QED
    BY <1>18, <2>1 DEF HandleText, KeysOK, RekeyOK, SendOK, Equipped, keyVars, rekeyVars, sendVars
<1>19. ASSUME NEW e \in Ends, HandleRekeyRequest(e)  PROVE Typed'
  <2> DEFINE r == Head(inbound[e])
             own == <<e, generated'[e]>>
             k == DerivedKey(r.epoch, own, r.share)
             p == [kind |-> "response", epoch |-> r.epoch, share |-> own]
  <2>1. ReadOK' /\ r \in Payload /\ r.kind = "request"  BY <1>17, <1>19 DEF HandleRekeyRequest
  <2>2. generated' \in [Ends -> Nat]  BY <1>0, <1>19 DEF HandleRekeyRequest
  <2>3. own \in Share  BY <2>2 DEF Share
  <2>4. k \in Key /\ p \in Payload
    <3>1. r.epoch \in Nat /\ r.share \in Share  BY <2>1, ExchangeFields
    <3> QED  BY <2>3, <3>1 DEF Key, Payload, DerivedKey
  <2>5. <<k>> \in Optional(Key) /\ <<k>> # <<>> /\ <<p>> \in Optional(Payload) /\ <<p>> # <<>>
    BY <2>4, OptionalValues
  <2>6. /\ pc' = [pc EXCEPT ![e]["loop"] = "encrypt"] /\ body' = [body EXCEPT ![e]["loop"] = <<p>>]
        /\ agreed' = [agreed EXCEPT ![e] = <<k>>]
        /\ UNCHANGED <<open, keyVars, rekeyVars, sealed, texts>>
    BY <1>19 DEF HandleRekeyRequest, StartSend
  <2> HIDE DEF k, p
  <2>7. /\ Becomes(body', body, e, "loop", Optional(Payload)) /\ body'[e]["loop"] # <<>>
        /\ Becomes(sealed', sealed, e, "loop", Optional(Frame))
        /\ agreed' \in [Ends -> Optional(Key)] /\ agreed'[e] # <<>>
        /\ \A d \in Ends : d # e => agreed'[d] = agreed[d]
    BY <1>0, <2>5, <2>6 DEF Becomes
  <2>8. SendOK' /\ Equipped'  BY <1>0, <2>2, <2>6, <2>7, ThreadTypes DEF Steps
  <2> QED  BY <2>1, <2>6, <2>8 DEF KeysOK, RekeyOK, keyVars, rekeyVars
<1>20. ASSUME NEW e \in Ends, HandleRekeyResponse(e)  PROVE Typed'
  <2>1. ReadOK' /\ Head(inbound[e]) \in Payload  BY <1>17, <1>20 DEF HandleRekeyResponse
  <2>2. <<Head(inbound[e])>> \in Optional(Payload)  BY <2>1, OptionalValues
  <2>3. RekeyOK'  BY <1>20, <2>2 DEF HandleRekeyResponse, RekeyOK
  <2> QED  BY <1>20, <2>1, <2>3 DEF HandleRekeyResponse, KeysOK, SendOK, Equipped, keyVars, sendVars
<1>21. ASSUME NEW e \in Ends, LoopRotates(e)  PROVE Typed'
  <2> DEFINE k == Head(agreed[e])
  <2>1. k \in Key  BY <1>0, <1>21, InHand DEF LoopRotates
  <2>2. RotateSessionKey(e, k, k.epoch)  BY <1>21 DEF LoopRotates
  <2> HIDE DEF k
  <2>3. KeysOK' /\ RekeyOK' /\ ReadOK'
    BY <1>12, <1>21, <2>1, <2>2 DEF LoopRotates, KeysOK, RekeyOK, ReadOK, readVars
  <2>4. /\ pc' = [pc EXCEPT ![e]["loop"] = "idle"] /\ agreed' = [agreed EXCEPT ![e] = <<>>]
        /\ UNCHANGED <<body, sealed, generated, texts>>
    BY <1>21 DEF LoopRotates
  <2>5. SendOK' /\ Equipped'  BY <1>0, <2>4, ThreadRests
  <2> QED  BY <2>3, <2>5
<1> HIDE DEF Typed
<1>22. ASSUME NEW e \in Ends, TextStep(e) \/ LoopStep(e) \/ ReadStep(e) \/ TriggerStep(e)
       PROVE  Typed'
  BY <1>0, <1>2, <1>3, <1>5, <1>7, <1>8, <1>10, <1>15, <1>16, <1>18, <1>19, <1>20, <1>21, <1>22
     DEF TextStep, LoopStep, ReadStep, TriggerStep
<1>23. ASSUME NEW e \in Ends, NEW g \in RekeyThreads, RekeyStep(e, g)  PROVE Typed'
  BY <1>0, <1>3, <1>6, <1>8, <1>9, <1>11, <1>13, <1>14, <1>23 DEF RekeyStep
<1> QED  BY <1>1, <1>2, <1>22, <1>23 DEF Next

-----------------------------------------------------------------------------
(* Who does what. *)

\* The end at which a step of an exchange is taken.
LEMMA Roles ==
  ASSUME Typed, ThreadInv, KindInv, NEW e \in Ends
  PROVE  /\ \A g \in RekeyThreads :
              /\ pc[e][g] \in {"encrypt", "write", "wait", "return"} => e = "lo" /\ waiter["lo"] = g
              /\ pc[e][g] = "wait" => Awaits /\ g = waiter["lo"]
              /\ InitiateRekey(e, g) => e = "lo"
         /\ pc[e]["loop"] # "idle" => e = "hi"
         /\ HandleRekeyRequest(e) => e = "hi"
         /\ HandleRekeyResponse(e) => e = "lo"
<1>1. e = "lo" \/ e = "hi"  BY DEF Ends
<1>2. ASSUME NEW g \in RekeyThreads, pc[e][g] \in {"encrypt", "write", "wait", "return"}
      PROVE  e = "lo" /\ waiter["lo"] = g
  BY <1>1, <1>2 DEF ThreadInv, Registered
<1>3. ASSUME NEW g \in RekeyThreads, pc[e][g] = "wait"  PROVE Awaits /\ g = waiter["lo"]
  BY <1>2, <1>3 DEF Awaits, RekeyThreads
<1>4. ASSUME NEW kind, NextPayload(e, kind)
      PROVE  kind \in {"text", Kind(Other(e))}
  <2>1. inbound[e] \in Seq(Payload) /\ inbound[e] # <<>>  BY <1>4 DEF NextPayload, Typed, ReadOK
  <2>2. 1 \in 1..Len(inbound[e]) /\ Head(inbound[e]) = inbound[e][1]  BY <2>1, Channel
  <2> QED  BY <1>4, <2>2 DEF NextPayload, KindInv
<1>5. HandleRekeyRequest(e) => e = "hi"
  BY <1>1, <1>4 DEF HandleRekeyRequest, Kind, Other
<1>6. HandleRekeyResponse(e) => e = "lo"
  BY <1>1, <1>4 DEF HandleRekeyResponse, Kind, Other
<1> QED  BY <1>1, <1>2, <1>3, <1>5, <1>6 DEF InitiateRekey, Initiates, ThreadInv

\* A step of a thread that is not one of the initiator's callbacks.
LEMMA OtherThread ==
  ASSUME Typed, ThreadInv, NEW e \in Ends, NEW t \in Threads, NEW s \in Steps,
         pc' = [pc EXCEPT ![e][t] = s],
         e = "lo" => t = "text",
         t = "text" => s \in {"idle", "encrypt", "write"},
         t = "loop" => s \in {"idle", "encrypt", "write", "rotate"},
         t \in RekeyThreads => s \in {"idle", "start"},
         UNCHANGED waiter, answer'["hi"] = <<>>,
         open'["lo"] => open["lo"] /\ (rekeying["lo"] => rekeying'["lo"])
  PROVE  ThreadInv'
<1>1. pc \in [Ends -> [Threads -> Steps]]  BY DEF Typed, SendOK
<1>2. \A g \in RekeyThreads : pc'["lo"][g] = pc["lo"][g]
  BY <1>1 DEF Ends, Threads, RekeyThreads
<1>3. pc'["lo"]["loop"] = pc["lo"]["loop"]
  BY <1>1 DEF Ends, Threads, RekeyThreads
<1>4. pc'["hi"]["loop"] \in {"idle", "encrypt", "write", "rotate"}
  BY <1>1 DEF ThreadInv, Ends, Threads, RekeyThreads
<1>5. \A d \in Ends : pc'[d]["text"] \in {"idle", "encrypt", "write"}
  BY <1>1 DEF ThreadInv, Ends, Threads, RekeyThreads
<1>6. \A g \in RekeyThreads : pc'["hi"][g] \in {"idle", "start"}
  BY <1>1 DEF ThreadInv, Ends, Threads, RekeyThreads
<1> QED  BY <1>2, <1>3, <1>4, <1>5, <1>6 DEF ThreadInv

\* A step that no thread takes, or that changes no place in one.
LEMMA NoThread ==
  ASSUME ThreadInv, UNCHANGED <<pc, waiter>>, answer'["hi"] = <<>>,
         open'["lo"] => open["lo"] /\ (rekeying["lo"] => rekeying'["lo"])
  PROVE  ThreadInv'
BY DEF ThreadInv

\* A callback of the initiator goes on.
LEMMA CallbackGoes ==
  ASSUME Typed, ThreadInv, NEW g \in RekeyThreads, NEW s \in Steps \ {"rotate"},
         pc' = [pc EXCEPT !["lo"][g] = s],
         answer'["hi"] = <<>>, waiter'["hi"] = "none",
         waiter'["lo"] \in RekeyThreads \cup {"none"},
         s \in Registered <=> waiter'["lo"] = g,
         \A h \in RekeyThreads \ {g} : waiter'["lo"] = h <=> waiter["lo"] = h,
         open'["lo"] => /\ open["lo"]
                        /\ s \in Engaged => /\ rekeying'["lo"]
                                            /\ \/ pc["lo"][g] \in Engaged
                                               \/ \A h \in RekeyThreads : pc["lo"][h] \notin Engaged
                        /\ rekeying["lo"] /\ ~ rekeying'["lo"] => pc["lo"][g] \in Engaged
  PROVE  ThreadInv'
<1>1. pc \in [Ends -> [Threads -> Steps]]  BY DEF Typed, SendOK
<1>2. pc'["lo"][g] = s /\ \A h \in RekeyThreads \ {g} : pc'["lo"][h] = pc["lo"][h]
  BY <1>1 DEF Ends, Threads
<1>3. \A t \in Threads : pc'["hi"][t] = pc["hi"][t]
  BY <1>1 DEF Ends
<1>4. \A t \in {"text", "loop"} : pc'["lo"][t] = pc["lo"][t]
  BY <1>1 DEF Ends, Threads, RekeyThreads
<1>5. \A h \in RekeyThreads : pc'["lo"][h] \in Registered <=> waiter'["lo"] = h
  BY <1>2 DEF ThreadInv
<1>6. ASSUME NEW h \in RekeyThreads, open'["lo"], pc'["lo"][h] \in Engaged
      PROVE  rekeying'["lo"] /\ \A k \in RekeyThreads : pc'["lo"][k] \in Engaged => k = h
  BY <1>2, <1>6 DEF ThreadInv
<1> QED  BY <1>2, <1>3, <1>4, <1>5, <1>6 DEF ThreadInv, Threads, Ends

\* Every step keeps the roles.
LEMMA ThreadStep ==
  ASSUME Typed, ThreadInv, KindInv, Next
  PROVE  ThreadInv'
<1>0. /\ open \in [Ends -> BOOLEAN] /\ rekeying \in [Ends -> BOOLEAN]
      /\ waiter \in [Ends -> RekeyThreads \cup {"none"}] /\ answer["hi"] = <<>>
      /\ waiter["hi"] = "none"
      /\ "lo" \in Ends /\ "hi" \in Ends /\ "text" \in Threads /\ "loop" \in Threads
      /\ \A g \in RekeyThreads : g \in Threads /\ g # "loop" /\ g # "text" /\ g # "none"
  BY DEF Typed, KeysOK, RekeyOK, ThreadInv, Ends, Threads, RekeyThreads
<1>1. ASSUME NEW e \in Ends, SendText(e)  PROVE ThreadInv'
  BY <1>0, <1>1, OtherThread DEF SendText, StartSend, rekeyVars, Steps
<1>2. ASSUME NEW e \in Ends,
             \/ RekeyDue(e) \/ Disconnect(e) \/ KeepAliveChecks(e) \/ ReadEOF(e)
             \/ ReadPayload(e) \/ ReadMalformed(e) \/ HandleText(e)
      PROVE  ThreadInv'
  <2>1. UNCHANGED <<pc, waiter, answer>>
    BY <1>2 DEF RekeyDue, Disconnect, KeepAliveChecks, ReadEOF, ReadPayload, ReadMalformed,
       HandleText, sendVars, rekeyVars
  <2>2. \/ open' = open /\ rekeying' = rekeying
        \/ open' = [open EXCEPT ![e] = FALSE] /\ rekeying' = [rekeying EXCEPT ![e] = FALSE]
    BY <1>2 DEF RekeyDue, Disconnect, KeepAliveChecks, ReadEOF, ReadPayload, ReadMalformed,
       HandleText, rekeyVars, CloseWithError
  <2> QED  BY <1>0, <2>1, <2>2, NoThread
<1>3. ASSUME NEW e \in Ends, NEW t \in Threads, EncryptPayload(e, t)  PROVE ThreadInv'
  <2>1. /\ pc' = [pc EXCEPT ![e][t] = "write"] /\ pc[e][t] = "encrypt"
        /\ UNCHANGED <<open, rekeying, waiter, answer>>
    BY <1>3 DEF EncryptPayload, rekeyVars
  <2>2. CASE t \in RekeyThreads
    <3>1. e = "lo" /\ waiter["lo"] = t  BY <2>1, <2>2, Roles
    <3>2. open["lo"] => rekeying["lo"]  BY <2>1, <2>2, <3>1 DEF ThreadInv, Engaged
    <3> QED  BY <1>0, <2>1, <2>2, <3>1, <3>2, CallbackGoes DEF Registered, Engaged, Steps
  <2>3. CASE t \notin RekeyThreads
    <3>1. e = "lo" => t = "text"  BY <2>1, <2>3, Roles DEF Threads
    <3>2. t \in {"text", "loop"}  BY <2>3 DEF Threads
    <3> QED  BY <1>0, <2>1, <3>1, <3>2, OtherThread DEF Steps
  <2> QED  BY <2>2, <2>3
<1>4. ASSUME NEW e \in Ends, WriteText(e) \/ TextFails(e)  PROVE ThreadInv'
  <2>1. pc' = [pc EXCEPT ![e]["text"] = "idle"] /\ UNCHANGED <<waiter, answer>>
    BY <1>4 DEF WriteText, TextFails, EndSend
  <2>2. open'["lo"] => open["lo"] /\ (rekeying["lo"] => rekeying'["lo"])
    BY <1>0, <1>4 DEF WriteText, TextFails, CloseWithError
  <2> QED  BY <1>0, <2>1, <2>2, OtherThread DEF Steps
<1>5. ASSUME NEW e \in Ends, WriteResponse(e) \/ LoopFails(e) \/ LoopRotates(e)  PROVE ThreadInv'
  <2>1. e = "hi"
    BY <1>5, Roles DEF WriteResponse, LoopFails, LoopRotates, WriteFrame, SendFails
  <2>2. /\ pc' = [pc EXCEPT ![e]["loop"] = "rotate"] \/ pc' = [pc EXCEPT ![e]["loop"] = "idle"]
        /\ UNCHANGED <<waiter, answer>>
    BY <1>5 DEF WriteResponse, LoopFails, LoopRotates, EndSend
  <2>3. open'["lo"] => open["lo"] /\ (rekeying["lo"] => rekeying'["lo"])
    BY <1>0, <1>5, <2>1 DEF WriteResponse, LoopFails, LoopRotates, CloseWithError, RotateSessionKey
  <2> QED  BY <1>0, <2>1, <2>2, <2>3, OtherThread DEF Steps
<1>6. ASSUME NEW e \in Ends, HandleRekeyRequest(e)  PROVE ThreadInv'
  <2>1. e = "hi"  BY <1>6, Roles
  <2> QED
    BY <1>0, <1>6, <2>1, OtherThread DEF HandleRekeyRequest, StartSend, rekeyVars, Steps
<1>7. ASSUME NEW e \in Ends, HandleRekeyResponse(e)  PROVE ThreadInv'
  <2>1. e = "lo"  BY <1>7, Roles
  <2>2. answer'["hi"] = answer["hi"]
    BY <2>1, <1>7 DEF HandleRekeyResponse, Typed, RekeyOK, Ends
  <2> QED  BY <1>0, <1>7, <2>2, NoThread DEF HandleRekeyResponse, sendVars
<1>8. ASSUME NEW e \in Ends, TriggerRekey(e)  PROVE ThreadInv'
  <2>1. UNCHANGED <<open, waiter, answer>>  BY <1>8 DEF TriggerRekey
  <2>2. CASE rekeying' = rekeying /\ pc' = pc  BY <1>0, <2>1, <2>2, NoThread
  <2>3. ASSUME NEW g \in RekeyThreads, ~ rekeying[e], rekeying' = [rekeying EXCEPT ![e] = TRUE],
               pc[e][g] = "idle", pc' = [pc EXCEPT ![e][g] = "start"]
        PROVE  ThreadInv'
    <3>1. CASE e = "hi"  BY <1>0, <2>1, <2>3, <3>1, OtherThread DEF Steps
    <3>2. CASE e = "lo"
      <4>1. waiter["lo"] # g  BY <2>3, <3>2 DEF ThreadInv, Registered
      <4>2. open["lo"] => \A h \in RekeyThreads : pc["lo"][h] \notin Engaged
        BY <2>3, <3>2 DEF ThreadInv
      <4>3. rekeying'["lo"]  BY <1>0, <2>3, <3>2
      <4> QED  BY <1>0, <2>1, <2>3, <3>2, <4>1, <4>2, <4>3, CallbackGoes DEF Steps, Registered
    <3> QED  BY <3>1, <3>2 DEF Ends
  <2> QED  BY <1>8, <2>2, <2>3 DEF TriggerRekey
<1>9. ASSUME NEW e \in Ends, NEW g \in RekeyThreads, RekeySkipped(e, g)  PROVE ThreadInv'
  <2>1. /\ pc' = [pc EXCEPT ![e][g] = "idle"] /\ pc[e][g] = "start"
        /\ UNCHANGED <<open, waiter, answer>>
        /\ e = "lo" => rekeying' = rekeying
    BY <1>9 DEF RekeySkipped, Initiates
  <2>2. rekeying'["lo"] = rekeying["lo"]  BY <1>0, <1>9 DEF RekeySkipped, Initiates, Ends
  <2>3. CASE e = "hi"  BY <1>0, <2>1, <2>2, <2>3, OtherThread DEF Steps
  <2>4. CASE e = "lo"
    <3>1. waiter["lo"] # g  BY <2>1, <2>4 DEF ThreadInv, Registered
    <3> QED  BY <1>0, <2>1, <2>4, <3>1, CallbackGoes DEF Steps, Registered, Engaged
  <2> QED  BY <2>3, <2>4 DEF Ends
<1>10. ASSUME NEW e \in Ends, NEW g \in RekeyThreads, InitiateRekey(e, g)  PROVE ThreadInv'
  <2>1. e = "lo"  BY <1>10, Roles
  <2>2. /\ pc' = [pc EXCEPT !["lo"][g] = "encrypt"] /\ pc["lo"][g] = "start" /\ open["lo"]
        /\ waiter["lo"] = "none" /\ waiter' = [waiter EXCEPT !["lo"] = g]
        /\ answer' = [answer EXCEPT !["lo"] = <<>>] /\ UNCHANGED <<open, rekeying>>
    BY <1>10, <2>1 DEF InitiateRekey, StartSend
  <2>3. waiter'["lo"] = g /\ waiter'["hi"] = "none" /\ answer'["hi"] = <<>>
    BY <1>0, <2>2 DEF Typed, RekeyOK, Ends
  <2>4. rekeying["lo"]  BY <2>2 DEF ThreadInv, Engaged
  <2> QED  BY <1>0, <2>2, <2>3, <2>4, CallbackGoes DEF Steps, Registered, Engaged
<1>11. ASSUME NEW e \in Ends, NEW g \in RekeyThreads, WriteRequest(e, g)  PROVE ThreadInv'
  <2>1. e = "lo" /\ waiter["lo"] = g  BY <1>11, Roles DEF WriteRequest, WriteFrame
  <2>2. /\ pc' = [pc EXCEPT !["lo"][g] = "wait"] /\ pc["lo"][g] = "write"
        /\ UNCHANGED <<open, rekeying, waiter, answer>>
    BY <1>11, <2>1 DEF WriteRequest, WriteFrame, EndSend
  <2>3. open["lo"] => rekeying["lo"]  BY <2>2 DEF ThreadInv, Engaged
  <2> QED  BY <1>0, <2>1, <2>2, <2>3, CallbackGoes DEF Steps, Registered, Engaged
<1>12. ASSUME NEW e \in Ends, NEW g \in RekeyThreads, RekeyFails(e, g)  PROVE ThreadInv'
  <2>1. e = "lo" /\ waiter["lo"] = g  BY <1>12, Roles DEF RekeyFails, SendFails
  <2>2. /\ pc' = [pc EXCEPT !["lo"][g] = "idle"] /\ waiter' = [waiter EXCEPT !["lo"] = "none"]
        /\ ~ open'["lo"] /\ answer' = answer
    BY <1>0, <1>12, <2>1 DEF RekeyFails, EndSend, Unregister, CloseWithError
  <2>3. waiter'["lo"] = "none" /\ waiter'["hi"] = "none"  BY <1>0, <2>2
  <2> QED  BY <1>0, <2>1, <2>2, <2>3, CallbackGoes DEF Steps, Registered
<1>13. ASSUME NEW e \in Ends, NEW g \in RekeyThreads, RekeyRotates(e, g)  PROVE ThreadInv'
  <2>1. e = "lo" /\ waiter["lo"] = g  BY <1>13, Roles DEF RekeyRotates
  <2>2. /\ pc' = [pc EXCEPT !["lo"][g] = "return"] /\ pc["lo"][g] = "wait"
        /\ UNCHANGED <<open, waiter, answer>>
    BY <1>13, <2>1 DEF RekeyRotates
  <2> QED  BY <1>0, <2>1, <2>2, CallbackGoes DEF Steps, Registered, Engaged
<1>14. ASSUME NEW e \in Ends, NEW g \in RekeyThreads, RekeyReturns(e, g)  PROVE ThreadInv'
  <2>1. e = "lo" /\ waiter["lo"] = g  BY <1>14, Roles DEF RekeyReturns
  <2>2. /\ pc' = [pc EXCEPT !["lo"][g] = "idle"] /\ waiter' = [waiter EXCEPT !["lo"] = "none"]
        /\ UNCHANGED <<open, rekeying, answer>>
    BY <1>14, <2>1 DEF RekeyReturns, Unregister
  <2>3. waiter'["lo"] = "none" /\ waiter'["hi"] = "none"  BY <1>0, <2>2
  <2> QED  BY <1>0, <2>1, <2>2, <2>3, CallbackGoes DEF Steps, Registered, Engaged
<1>15. ASSUME NEW e \in Ends, TextStep(e) \/ LoopStep(e) \/ ReadStep(e) \/ TriggerStep(e)
       PROVE  ThreadInv'
  BY <1>0, <1>2, <1>3, <1>4, <1>5, <1>6, <1>7, <1>8, <1>15
     DEF TextStep, LoopStep, ReadStep, TriggerStep
<1>16. ASSUME NEW e \in Ends, NEW g \in RekeyThreads, RekeyStep(e, g)  PROVE ThreadInv'
  BY <1>0, <1>3, <1>9, <1>10, <1>11, <1>12, <1>13, <1>14, <1>16 DEF RekeyStep
<1> QED  BY <1>1, <1>2, <1>15, <1>16 DEF Next
-----------------------------------------------------------------------------
(* Where things come from.  The definitions speak of a step. *)

\* A frame in flight was in flight, or one thread had sealed it.
FramesFlow ==
  \A e \in Ends : \A i \in 1..Len(wire'[e]) :
    \/ \E j \in 1..Len(wire[e]) : wire'[e][i] = wire[e][j]
    \/ \E t \in Threads :
         pc[Other(e)][t] = "write" /\ wire'[e][i] = Head(sealed[Other(e)][t])

\* A payload on the inbound channel was there, or its frame has arrived.
PayloadsFlow ==
  \A e \in Ends : \A i \in 1..Len(inbound'[e]) :
    \/ \E j \in 1..Len(inbound[e]) : inbound'[e][i] = inbound[e][j]
    \/ \E j \in 1..Len(wire[e]) : inbound'[e][i] = wire[e][j].body

\* What a thread sends it keeps until it has sent it.
ThreadFlow(e, t) ==
  /\ pc'[e][t] = "encrypt" =>
       \/ pc[e][t] = "encrypt" /\ body'[e][t] = body[e][t]
       \/ Head(body'[e][t]).kind = IF t = "text" THEN "text" ELSE Kind(e)
  /\ pc'[e][t] = "write" =>
       /\ body'[e][t] = body[e][t]
       /\ \/ pc[e][t] = "write" /\ sealed'[e][t] = sealed[e][t]
          \/ pc[e][t] = "encrypt" /\ Head(sealed'[e][t]) =
               [epoch |-> epoch[e], key |-> key[e], body |-> Head(body[e][t])]
  /\ pc'[e][t] = "wait" => pc[e][t] \in {"write", "wait"} /\ body'[e][t] = body[e][t]
ThreadsFlow == \A e \in Ends, t \in Threads : ThreadFlow(e, t)

AnswerFlow ==
  \A i \in 1..Len(answer'["lo"]) :
    \/ answer' = answer
    \/ \E j \in 1..Len(inbound["lo"]) :
         answer'["lo"][i] = inbound["lo"][j] /\ inbound["lo"][j].kind = "response"

Flow == FramesFlow /\ PayloadsFlow /\ ThreadsFlow /\ AnswerFlow

\* A step that leaves both channels.
LEMMA ChannelsStay ==
  ASSUME UNCHANGED <<wire, inbound>>
  PROVE  FramesFlow /\ PayloadsFlow
BY DEF FramesFlow, PayloadsFlow

\* A step that leaves the threads.
LEMMA ThreadsStay ==
  ASSUME UNCHANGED <<pc, body, sealed>>
  PROVE  ThreadsFlow
BY DEF ThreadsFlow, ThreadFlow

\* A step of one thread.
LEMMA OneThread ==
  ASSUME Typed, NEW e \in Ends, NEW t \in Threads, NEW s \in Steps,
         pc' = [pc EXCEPT ![e][t] = s],
         \A d \in Ends, u \in Threads : d # e \/ u # t =>
           body'[d][u] = body[d][u] /\ sealed'[d][u] = sealed[d][u],
         ThreadFlow(e, t)
  PROVE  ThreadsFlow
<1>1. pc \in [Ends -> [Threads -> Steps]]  BY DEF Typed, SendOK
<1>2. ASSUME NEW d \in Ends, NEW u \in Threads, d # e \/ u # t  PROVE ThreadFlow(d, u)
  <2>1. pc'[d][u] = pc[d][u]  BY <1>1, <1>2
  <2>2. body'[d][u] = body[d][u] /\ sealed'[d][u] = sealed[d][u]  BY <1>2
  <2> QED  BY <2>1, <2>2 DEF ThreadFlow
<1> QED  BY <1>2 DEF ThreadsFlow

\* A frame that a thread has sealed is written.
LEMMA FrameFlows ==
  ASSUME Typed, NEW e \in Ends, NEW t \in Threads, WriteFrame(e, t), UNCHANGED inbound
  PROVE  FramesFlow /\ PayloadsFlow
<1>1. wire \in [Ends -> Seq(Frame)] /\ Head(sealed[e][t]) \in Frame
  BY InHand DEF Typed, ReadOK, WriteFrame
<1>2. ASSUME NEW d \in Ends, NEW i \in 1..Len(wire'[d])
      PROVE  \/ \E j \in 1..Len(wire[d]) : wire'[d][i] = wire[d][j]
             \/ \E u \in Threads :
                  pc[Other(d)][u] = "write" /\ wire'[d][i] = Head(sealed[Other(d)][u])
  <2>1. CASE wire'[d] = wire[d]  BY <1>2, <2>1
  <2>2. CASE wire'[d] # wire[d]
    <3>1. d = Other(e) /\ wire'[d] = Append(wire[d], Head(sealed[e][t])) /\ pc[e][t] = "write"
      BY <1>1, <2>2, TwoEnds DEF WriteFrame
    <3>2. Other(d) = e  BY <3>1, TwoEnds
    <3>3. wire[d] \in Seq(Frame)  BY <1>1
    <3>4. \/ i \in 1..Len(wire[d]) /\ wire'[d][i] = wire[d][i]
          \/ wire'[d][i] = Head(sealed[e][t])
      BY <1>1, <1>2, <3>1, <3>3
    <3> QED  BY <3>1, <3>2, <3>4
  <2> QED  BY <2>1, <2>2
<1> QED  BY <1>2 DEF FramesFlow, PayloadsFlow

\* The first frame is taken, and its payload passed on or not.
LEMMA FirstFrame ==
  ASSUME Typed, NEW e \in Ends, wire[e] # <<>>, wire' = [wire EXCEPT ![e] = Tail(@)],
         \/ inbound' = inbound
         \/ inbound' = [inbound EXCEPT ![e] = Append(@, Arrived(e).body)]
  PROVE  /\ FramesFlow /\ PayloadsFlow
         /\ Arrived(e) \in Frame /\ 1 \in 1..Len(wire[e]) /\ Arrived(e) = wire[e][1]
<1>1. wire \in [Ends -> Seq(Frame)] /\ inbound \in [Ends -> Seq(Payload)]
  BY DEF Typed, ReadOK
<1>2. wire[e] \in Seq(Frame)  BY <1>1
<1>3. /\ Arrived(e) \in Frame /\ Arrived(e) = wire[e][1] /\ 1 \in 1..Len(wire[e])
      /\ \A i \in 1..Len(Tail(wire[e])) :
           i + 1 \in 1..Len(wire[e]) /\ Tail(wire[e])[i] = wire[e][i + 1]
  BY <1>2, Channel DEF Arrived
<1>4. FramesFlow
  <2> SUFFICES ASSUME NEW d \in Ends, NEW i \in 1..Len(wire'[d])
               PROVE  \E j \in 1..Len(wire[d]) : wire'[d][i] = wire[d][j]
    BY DEF FramesFlow
  <2>1. CASE d = e  BY <1>1, <1>3, <2>1
  <2>2. CASE d # e  BY <1>1, <2>2
  <2> QED  BY <2>1, <2>2
<1>5. PayloadsFlow
  <2> SUFFICES ASSUME NEW d \in Ends, NEW i \in 1..Len(inbound'[d])
               PROVE  \/ \E j \in 1..Len(inbound[d]) : inbound'[d][i] = inbound[d][j]
                      \/ \E j \in 1..Len(wire[d]) : inbound'[d][i] = wire[d][j].body
    BY DEF PayloadsFlow
  <2>1. CASE inbound'[d] = inbound[d]  BY <2>1
  <2>2. CASE inbound'[d] # inbound[d]
    <3>1. d = e /\ inbound'[d] = Append(inbound[d], Arrived(e).body)  BY <1>1, <2>2
    <3>2. inbound[d] \in Seq(Payload) /\ Arrived(e).body \in Payload  BY <1>1, <1>3 DEF Frame
    <3>3. \/ i \in 1..Len(inbound[d]) /\ inbound'[d][i] = inbound[d][i]
          \/ inbound'[d][i] = Arrived(e).body
      BY <3>1, <3>2
    <3> QED  BY <1>3, <3>1, <3>3
  <2> QED  BY <2>1, <2>2
<1> QED  BY <1>3, <1>4, <1>5

\* The first payload is taken.
LEMMA FirstPayload ==
  ASSUME Typed, NEW e \in Ends, NEW kind, NextPayload(e, kind)
  PROVE  /\ FramesFlow /\ PayloadsFlow
         /\ Head(inbound[e]) \in Payload /\ Head(inbound[e]).kind = kind
         /\ 1 \in 1..Len(inbound[e]) /\ Head(inbound[e]) = inbound[e][1]
<1>1. inbound \in [Ends -> Seq(Payload)]  BY DEF Typed, ReadOK
<1>2. inbound[e] \in Seq(Payload) /\ inbound[e] # <<>>  BY <1>1 DEF NextPayload
<1>3. /\ Head(inbound[e]) \in Payload
      /\ Head(inbound[e]) = inbound[e][1] /\ 1 \in 1..Len(inbound[e])
      /\ \A i \in 1..Len(Tail(inbound[e])) :
           i + 1 \in 1..Len(inbound[e]) /\ Tail(inbound[e])[i] = inbound[e][i + 1]
  BY <1>2, Channel
<1>4. inbound' = [inbound EXCEPT ![e] = Tail(@)] /\ UNCHANGED wire  BY DEF NextPayload
<1>5. PayloadsFlow
  <2> SUFFICES ASSUME NEW d \in Ends, NEW i \in 1..Len(inbound'[d])
               PROVE  \E j \in 1..Len(inbound[d]) : inbound'[d][i] = inbound[d][j]
    BY DEF PayloadsFlow
  <2>1. CASE d = e  BY <1>1, <1>3, <1>4, <2>1
  <2>2. CASE d # e  BY <1>1, <1>4, <2>2
  <2> QED  BY <2>1, <2>2
<1> QED  BY <1>3, <1>4, <1>5 DEF FramesFlow, NextPayload

\* Every step is such a flow.
LEMMA FlowStep ==
  ASSUME Typed, ThreadInv, KindInv, Next
  PROVE  Flow
<1>0. /\ "text" \in Threads /\ "loop" \in Threads
      /\ \A g \in RekeyThreads : g \in Threads /\ g # "loop" /\ g # "text"
      /\ body \in [Ends -> [Threads -> Optional(Payload)]]
      /\ sealed \in [Ends -> [Threads -> Optional(Frame)]]
      /\ pc \in [Ends -> [Threads -> Steps]]
  BY DEF Threads, RekeyThreads, Typed, SendOK
<1>1. UNCHANGED answer => AnswerFlow  BY DEF AnswerFlow
\* The steps of a thread that leaves SendRaw, or that has not called it.
<1>2. ASSUME NEW e \in Ends, NEW t \in Threads, NEW s \in {"idle", "start", "rotate", "return"},
             pc' = [pc EXCEPT ![e][t] = s],
             body' = body \/ body' = [body EXCEPT ![e][t] = <<>>],
             sealed' = sealed \/ sealed' = [sealed EXCEPT ![e][t] = <<>>]
      PROVE  ThreadsFlow
  <2>1. pc'[e][t] = s /\ s \in Steps  BY <1>0, <1>2 DEF Steps
  <2>2. ThreadFlow(e, t)  BY <2>1 DEF ThreadFlow
  <2>3. \A d \in Ends, u \in Threads : d # e \/ u # t =>
          body'[d][u] = body[d][u] /\ sealed'[d][u] = sealed[d][u]
    BY <1>0, <1>2
  <2> QED  BY <1>2, <2>1, <2>2, <2>3, OneThread
\* The steps of a thread that gets a payload to send.
<1>3. ASSUME NEW e \in Ends, NEW t \in Threads, NEW p, StartSend(e, t, p), UNCHANGED sealed,
             p.kind = IF t = "text" THEN "text" ELSE Kind(e)
      PROVE  ThreadsFlow
  <2>1. /\ pc'[e][t] = "encrypt" /\ body'[e][t] = <<p>>
        /\ \A d \in Ends, u \in Threads : d # e \/ u # t => body'[d][u] = body[d][u]
    BY <1>0, <1>3 DEF StartSend
  <2>2. Head(<<p>>) = p  OBVIOUS
  <2>3. ThreadFlow(e, t)  BY <1>3, <2>1, <2>2 DEF ThreadFlow
  <2> QED  BY <1>3, <2>1, <2>3, OneThread DEF StartSend, Steps
<1>4. ASSUME NEW e \in Ends,
             RekeyDue(e) \/ Disconnect(e) \/ KeepAliveChecks(e) \/ ReadEOF(e)
      PROVE  Flow
  BY <1>1, <1>4, ChannelsStay, ThreadsStay
     DEF RekeyDue, Disconnect, KeepAliveChecks, ReadEOF, sendVars, readVars, Flow
<1>5. ASSUME NEW e \in Ends, SendText(e)  PROVE Flow
  <2>1. ThreadsFlow  BY <1>0, <1>3, <1>5 DEF SendText
  <2> QED  BY <1>1, <1>5, <2>1, ChannelsStay DEF SendText, rekeyVars, readVars, Flow
<1>6. ASSUME NEW e \in Ends, NEW t \in Threads, EncryptPayload(e, t)  PROVE Flow
  <2> DEFINE f == [epoch |-> epoch[e], key |-> key[e], body |-> Head(body[e][t])]
  <2>1. /\ pc' = [pc EXCEPT ![e][t] = "write"] /\ pc'[e][t] = "write" /\ pc[e][t] = "encrypt"
        /\ sealed' = [sealed EXCEPT ![e][t] = <<f>>] /\ sealed'[e][t] = <<f>>
        /\ UNCHANGED <<body, answer, wire, inbound>>
    BY <1>0, <1>6 DEF EncryptPayload, rekeyVars, readVars
  <2>2. Head(<<f>>) = f  OBVIOUS
  <2>3. ThreadFlow(e, t)  BY <2>1, <2>2 DEF ThreadFlow
  <2>4. \A d \in Ends, u \in Threads : d # e \/ u # t => sealed'[d][u] = sealed[d][u]
    BY <1>0, <2>1
  <2>5. ThreadsFlow  BY <2>1, <2>3, <2>4, OneThread DEF Steps
  <2> QED  BY <1>1, <2>1, <2>5, ChannelsStay DEF Flow
<1>7. ASSUME NEW e \in Ends, WriteText(e)  PROVE Flow
  <2>1. ThreadsFlow  BY <1>0, <1>2, <1>7 DEF WriteText, EndSend
  <2> QED  BY <1>0, <1>1, <1>7, <2>1, FrameFlows DEF WriteText, Flow
<1>8. ASSUME NEW e \in Ends, WriteResponse(e)  PROVE Flow
  <2>1. ThreadsFlow  BY <1>0, <1>2, <1>8 DEF WriteResponse, EndSend
  <2> QED  BY <1>0, <1>1, <1>8, <2>1, FrameFlows DEF WriteResponse, Flow
<1>9. ASSUME NEW e \in Ends, NEW g \in RekeyThreads, WriteRequest(e, g)  PROVE Flow
  <2>1. /\ pc' = [pc EXCEPT ![e][g] = "wait"] /\ pc'[e][g] = "wait" /\ pc[e][g] = "write"
        /\ body' = body /\ sealed' = [sealed EXCEPT ![e][g] = <<>>]
    BY <1>0, <1>9 DEF WriteRequest, WriteFrame, EndSend
  <2>2. ThreadFlow(e, g)  BY <2>1 DEF ThreadFlow
  <2>3. \A d \in Ends, u \in Threads : d # e \/ u # g => sealed'[d][u] = sealed[d][u]
    BY <1>0, <2>1
  <2>4. ThreadsFlow  BY <1>0, <2>1, <2>2, <2>3, OneThread DEF Steps
  <2> QED  BY <1>0, <1>1, <1>9, <2>4, FrameFlows DEF WriteRequest, Flow
<1>10. ASSUME NEW e \in Ends, TextFails(e) \/ LoopFails(e) \/ LoopRotates(e)  PROVE Flow
  <2>1. ThreadsFlow
    BY <1>0, <1>2, <1>10 DEF TextFails, LoopFails, LoopRotates, EndSend
  <2> QED  BY <1>1, <1>10, <2>1, ChannelsStay DEF TextFails, LoopFails, LoopRotates, readVars, Flow
<1>11. ASSUME NEW e \in Ends, NEW g \in RekeyThreads,
              RekeyFails(e, g) \/ RekeySkipped(e, g) \/ RekeyRotates(e, g) \/ RekeyReturns(e, g)
       PROVE  Flow
  <2>1. ThreadsFlow
    BY <1>0, <1>2, <1>11 DEF RekeyFails, RekeySkipped, RekeyRotates, RekeyReturns, EndSend
  <2> QED
    BY <1>1, <1>11, <2>1, ChannelsStay
       DEF RekeyFails, RekeySkipped, RekeyRotates, RekeyReturns, readVars, Flow
<1>12. ASSUME NEW e \in Ends, TriggerRekey(e)  PROVE Flow
  <2>1. ThreadsFlow
    <3>1. UNCHANGED <<body, sealed>>  BY <1>12 DEF TriggerRekey
    <3>2. CASE pc' = pc  BY <3>1, <3>2, ThreadsStay
    <3>3. ASSUME NEW g \in RekeyThreads, pc' = [pc EXCEPT ![e][g] = "start"]  PROVE ThreadsFlow
      BY <1>0, <1>2, <3>1, <3>3
    <3> QED  BY <1>12, <3>2, <3>3 DEF TriggerRekey
  <2> QED  BY <1>1, <1>12, <2>1, ChannelsStay DEF TriggerRekey, readVars, Flow
<1>13. ASSUME NEW e \in Ends, NEW g \in RekeyThreads, InitiateRekey(e, g)  PROVE Flow
  <2>1. e = "lo"  BY <1>13, Roles
  <2>2. ThreadsFlow  BY <1>0, <1>3, <1>13, <2>1 DEF InitiateRekey, Kind
  <2>3. answer'["lo"] = <<>>
    BY <1>13, <2>1 DEF InitiateRekey, Typed, RekeyOK, Ends
  <2>4. AnswerFlow  BY <2>3 DEF AnswerFlow
  <2> QED  BY <1>13, <2>2, <2>4, ChannelsStay DEF InitiateRekey, readVars, Flow
<1>14. ASSUME NEW e \in Ends, ReadPayload(e) \/ ReadMalformed(e)  PROVE Flow
  <2>1. FramesFlow /\ PayloadsFlow  BY <1>14, FirstFrame DEF ReadPayload, ReadMalformed
  <2> QED
    BY <1>1, <1>14, <2>1, ThreadsStay DEF ReadPayload, ReadMalformed, rekeyVars, sendVars, Flow
<1>15. ASSUME NEW e \in Ends, HandleText(e)  PROVE Flow
  <2>1. FramesFlow /\ PayloadsFlow  BY <1>15, FirstPayload DEF HandleText
  <2> QED  BY <1>1, <1>15, <2>1, ThreadsStay DEF HandleText, rekeyVars, sendVars, Flow
<1>16. ASSUME NEW e \in Ends, HandleRekeyRequest(e)  PROVE Flow
  <2>1. e = "hi"  BY <1>16, Roles
  <2>2. ThreadsFlow  BY <1>0, <1>3, <1>16, <2>1 DEF HandleRekeyRequest, Kind
  <2>3. FramesFlow /\ PayloadsFlow  BY <1>16, FirstPayload DEF HandleRekeyRequest
  <2> QED  BY <1>1, <1>16, <2>2, <2>3 DEF HandleRekeyRequest, rekeyVars, Flow
<1>17. ASSUME NEW e \in Ends, HandleRekeyResponse(e)  PROVE Flow
  <2>1. e = "lo"  BY <1>17, Roles
  <2>2. /\ FramesFlow /\ PayloadsFlow
        /\ 1 \in 1..Len(inbound["lo"]) /\ Head(inbound["lo"]) = inbound["lo"][1]
        /\ Head(inbound["lo"]).kind = "response"
    BY <1>17, <2>1, FirstPayload DEF HandleRekeyResponse
  <2>3. AnswerFlow
    <3>1. CASE answer' = answer  BY <1>1, <3>1
    <3>2. CASE answer' # answer
      <4>1. answer'["lo"] = <<inbound["lo"][1]>>
        BY <1>17, <2>1, <2>2, <3>2 DEF HandleRekeyResponse, Typed, RekeyOK, Ends
      <4>2. \A i \in 1..Len(answer'["lo"]) : answer'["lo"][i] = inbound["lo"][1]  BY <4>1
      <4> QED  BY <2>2, <4>2 DEF AnswerFlow
    <3> QED  BY <3>1, <3>2
  <2> QED  BY <1>17, <2>2, <2>3, ThreadsStay DEF HandleRekeyResponse, sendVars, Flow
<1>18. ASSUME NEW e \in Ends, TextStep(e) \/ LoopStep(e) \/ ReadStep(e) \/ TriggerStep(e)
       PROVE  Flow
  BY <1>0, <1>4, <1>6, <1>7, <1>8, <1>10, <1>12, <1>14, <1>15, <1>16, <1>17, <1>18
     DEF TextStep, LoopStep, ReadStep, TriggerStep
<1>19. ASSUME NEW e \in Ends, NEW g \in RekeyThreads, RekeyStep(e, g)  PROVE Flow
  BY <1>0, <1>6, <1>9, <1>11, <1>13, <1>19 DEF RekeyStep
<1> QED  BY <1>4, <1>5, <1>18, <1>19 DEF Next

\* Every step keeps the kinds.
LEMMA KindStep ==
  ASSUME Typed, ThreadInv, KindInv, Flow, Typed', ThreadInv'
  PROVE  KindInv'
<1>0. Kind("lo") = "request" /\ Kind("hi") = "response" /\ "lo" \in Ends /\ Other("lo") = "hi"
  BY DEF Kind, Ends, Other
<1>1. ASSUME NEW e \in Ends, NEW t \in Threads
      PROVE  /\ pc'[e][t] \in Sending =>
                  Head(body'[e][t]).kind = IF t = "text" THEN "text" ELSE Kind(e)
             /\ pc'[e][t] = "write" => Head(sealed'[e][t]).body = Head(body'[e][t])
  <2>1. ThreadFlow(e, t)  BY DEF Flow, ThreadsFlow
  <2>2. CASE pc'[e][t] = "encrypt"  BY <2>1, <2>2 DEF ThreadFlow, KindInv, Sending
  <2>3. CASE pc'[e][t] = "write"  BY <2>1, <2>3 DEF ThreadFlow, KindInv, Sending
  <2> QED  BY <2>2, <2>3 DEF Sending
<1>2. ASSUME Awaits'  PROVE Mine'.kind = "request"
  <2> DEFINE g == waiter'["lo"]
  <2>1. g \in RekeyThreads /\ pc'["lo"][g] = "wait" /\ Mine' = Head(body'["lo"][g])
    BY <1>0, <1>2 DEF Awaits, Mine, Typed, RekeyOK
  <2> HIDE DEF g
  <2>2. g \in Threads /\ g # "text"  BY <2>1 DEF Threads, RekeyThreads
  <2>3. pc["lo"][g] \in {"write", "wait"} /\ body'["lo"][g] = body["lo"][g]
    BY <1>0, <2>1, <2>2 DEF Flow, ThreadsFlow, ThreadFlow
  <2>4. CASE pc["lo"][g] = "write"  BY <1>0, <2>1, <2>2, <2>3, <2>4 DEF KindInv, Sending
  <2>5. CASE pc["lo"][g] = "wait"
    <3>1. Awaits /\ g = waiter["lo"]
      BY <1>0, <2>1, <2>5 DEF ThreadInv, Registered, Awaits, RekeyThreads
    <3> QED  BY <2>1, <2>3, <3>1 DEF KindInv, Mine
  <2> QED  BY <2>3, <2>4, <2>5
<1>3. ASSUME NEW e \in Ends, NEW i \in 1..Len(wire'[e])
      PROVE  wire'[e][i].body.kind \in {"text", Kind(Other(e))}
  <2>1. CASE \E j \in 1..Len(wire[e]) : wire'[e][i] = wire[e][j]  BY <2>1 DEF KindInv
  <2>2. ASSUME NEW t \in Threads, pc[Other(e)][t] = "write",
               wire'[e][i] = Head(sealed[Other(e)][t])
        PROVE  wire'[e][i].body.kind \in {"text", Kind(Other(e))}
    BY <2>2, TwoEnds DEF KindInv, Sending
  <2> QED  BY <1>3, <2>1, <2>2 DEF Flow, FramesFlow
<1>4. ASSUME NEW e \in Ends, NEW i \in 1..Len(inbound'[e])
      PROVE  inbound'[e][i].kind \in {"text", Kind(Other(e))}
  BY <1>4 DEF Flow, PayloadsFlow, KindInv
<1>5. ASSUME NEW i \in 1..Len(answer'["lo"])  PROVE answer'["lo"][i].kind = "response"
  <2>1. CASE answer' = answer  BY <1>5, <2>1 DEF KindInv
  <2>2. CASE answer' # answer  BY <1>5, <2>2 DEF Flow, AnswerFlow
  <2> QED  BY <2>1, <2>2
<1> QED  BY <1>1, <1>2, <1>3, <1>4, <1>5 DEF KindInv

\* A step that leaves the keys of both ends keeps what frames say of them.
LEMMA FramesStay ==
  ASSUME Typed, EpochInv, KeyInv, FrameInv, Flow, UNCHANGED keyVars
  PROVE  FrameInv'
<1>1. \A f, s, r : FrameOK(f, s, r) => FrameOK(f, s, r)'  BY DEF FrameOK, keyVars
<1>2. ASSUME NEW e \in Ends, NEW i \in 1..Len(wire'[e])
      PROVE  FrameOK(wire'[e][i], Other(e), e)
  <2>1. CASE \E j \in 1..Len(wire[e]) : wire'[e][i] = wire[e][j]  BY <2>1 DEF FrameInv
  <2>2. ASSUME NEW t \in Threads, pc[Other(e)][t] = "write",
               wire'[e][i] = Head(sealed[Other(e)][t])
        PROVE  FrameOK(wire'[e][i], Other(e), e)
    BY <2>2, TwoEnds DEF FrameInv
  <2> QED  BY <1>2, <2>1, <2>2 DEF Flow, FramesFlow
<1>3. ASSUME NEW e \in Ends, NEW f, f.epoch = epoch[e], f.key = key[e]
      PROVE  FrameOK(f, e, Other(e))
  <2>1. epoch["lo"] \in Nat /\ epoch["hi"] \in Nat /\ epoch[e] \in Nat
    BY DEF Typed, KeysOK, Ends
  <2>2. (e = "lo" /\ Other(e) = "hi") \/ (e = "hi" /\ Other(e) = "lo")  BY DEF Ends, Other
  <2>3. CASE e = "lo"  BY <1>3, <2>1, <2>2, <2>3 DEF EpochInv, KeyInv, FrameOK
  <2>4. CASE e = "hi"  BY <1>3, <2>1, <2>2, <2>4 DEF EpochInv, KeyInv, FrameOK
  <2> QED  BY <2>2, <2>3, <2>4
<1>4. ASSUME NEW e \in Ends, NEW t \in Threads, pc'[e][t] = "write"
      PROVE  FrameOK(Head(sealed'[e][t]), e, Other(e))
  <2>1. ThreadFlow(e, t)  BY DEF Flow, ThreadsFlow
  <2>2. CASE pc[e][t] = "write" /\ sealed'[e][t] = sealed[e][t]  BY <2>2 DEF FrameInv
  <2>3. CASE Head(sealed'[e][t]) =
               [epoch |-> epoch[e], key |-> key[e], body |-> Head(body[e][t])]
    BY <1>3, <2>3
  <2> QED  BY <1>4, <2>1, <2>2, <2>3 DEF ThreadFlow
<1> QED  BY <1>1, <1>2, <1>4 DEF FrameInv

-----------------------------------------------------------------------------
(* Steps that do not advance the exchange. *)

\* The channels hold at most one message of the exchange each, and none that
\* was not there.
NoNewToken ==
  \A e \in Ends :
    /\ OneOf(wire'[e], TokenFrames(Other(e))) /\ OneOf(inbound'[e], Tokens(Other(e)))
    /\ \A i \in 1..Len(wire'[e]) :
         wire'[e][i].body.kind = "text" \/ \E j \in 1..Len(wire[e]) : wire'[e][i] = wire[e][j]
    /\ \A i \in 1..Len(inbound'[e]) :
         \/ inbound'[e][i].kind = "text"
         \/ \E j \in 1..Len(inbound[e]) : inbound'[e][i] = inbound[e][j]

\* The goroutine in initiateRekey still waits, unless the connection is closed.
StillAwaits ==
  /\ open'["lo"] => open["lo"] /\ (Awaits => Awaits')
  /\ Awaits' => Awaits /\ Mine' = Mine
  /\ \A g \in RekeyThreads :
       /\ pc'["lo"][g] \in Sending => pc["lo"][g] \in Sending
       /\ pc'["lo"][g] \in {"encrypt", "write", "wait"} =>
            pc["lo"][g] \in {"encrypt", "write", "wait"} /\ body'["lo"][g] = body["lo"][g]

\* The other end's loop still answers, or has closed the connection.
StillAnswers ==
  /\ pc'["hi"]["loop"] = "rotate" <=> pc["hi"]["loop"] = "rotate"
  /\ pc'["hi"]["loop"] \in Sending =>
       pc["hi"]["loop"] \in Sending /\ body'["hi"]["loop"] = body["hi"]["loop"]
  /\ pc'["hi"]["loop"] # "idle" => agreed'["hi"] = agreed["hi"]

Calm == NoNewToken /\ StillAwaits /\ StillAnswers /\ UNCHANGED <<keyVars, answer>>

\* Nothing of the exchange is anywhere it was not.
LEMMA CalmPlaces ==
  ASSUME Typed, ThreadInv, Calm, NEW p \in Places, At(p)'
  PROVE  At(p)
<1>0. "lo" \in Ends /\ "hi" \in Ends /\ Other("lo") = "hi" /\ Other("hi") = "lo"
  BY DEF Ends, Other
<1>1. ASSUME NEW e \in Ends
      PROVE  /\ Carries(wire'[e], TokenFrames(Other(e))) => Carries(wire[e], TokenFrames(Other(e)))
             /\ Carries(inbound'[e], Tokens(Other(e))) => Carries(inbound[e], Tokens(Other(e)))
  <2>1. ASSUME NEW i \in 1..Len(wire'[e]), wire'[e][i] \in TokenFrames(Other(e))
        PROVE  Carries(wire[e], TokenFrames(Other(e)))
    <3>1. wire'[e][i].body.kind # "text"  BY <2>1 DEF TokenFrames, Kind
    <3>2. PICK j \in 1..Len(wire[e]) : wire'[e][i] = wire[e][j]
      BY <2>1, <3>1 DEF Calm, NoNewToken
    <3> QED  BY <2>1, <3>2 DEF Carries
  <2>2. ASSUME NEW i \in 1..Len(inbound'[e]), inbound'[e][i] \in Tokens(Other(e))
        PROVE  Carries(inbound[e], Tokens(Other(e)))
    <3>1. inbound'[e][i].kind # "text"  BY <2>2 DEF Tokens, Kind
    <3>2. PICK j \in 1..Len(inbound[e]) : inbound'[e][i] = inbound[e][j]
      BY <2>2, <3>1 DEF Calm, NoNewToken
    <3> QED  BY <2>2, <3>2 DEF Carries
  <2> QED  BY <2>1, <2>2 DEF Carries
<1>2. CASE p = "request"  BY <1>2 DEF At, Calm, StillAwaits
<1>3. CASE p = "requestOnWire"  BY <1>0, <1>1, <1>3 DEF At
<1>4. CASE p = "requestInbound"  BY <1>0, <1>1, <1>4 DEF At
<1>5. CASE p = "response"  BY <1>5 DEF At, Calm, StillAnswers
<1>6. CASE p = "responseOnWire"  BY <1>0, <1>1, <1>6 DEF At
<1>7. CASE p = "responseInbound"  BY <1>0, <1>1, <1>7 DEF At
<1>8. CASE p = "answer"  BY <1>8 DEF At, Calm, StillAwaits
<1> QED  BY <1>2, <1>3, <1>4, <1>5, <1>6, <1>7, <1>8 DEF Places

\* Such a step keeps the invariants of the exchange.
LEMMA CalmStep ==
  ASSUME Typed, ThreadInv, KindInv, TokenInv, EpochInv, ExchangeInv, KeyInv,
         Typed', ThreadInv', KindInv', Calm
  PROVE  TokenInv' /\ EpochInv' /\ ExchangeInv' /\ KeyInv'
<1>0. "lo" \in Ends /\ "hi" \in Ends /\ Other("lo") = "hi" /\ Other("hi") = "lo"
  BY DEF Ends, Other
<1>1. \A p \in Places : At(p)' => At(p)  BY CalmPlaces
<1>2. TokenInv'
  <2>1. \A p, q \in Places : At(p)' /\ At(q)' => p = q  BY <1>1 DEF TokenInv
  <2>2. \A p \in Places \ {"request"} : At(p)' => (Awaits \/ ~ open["lo"])'
    BY <1>1 DEF TokenInv, Calm, StillAwaits
  <2>3. At("request")' => answer'["lo"] = <<>>  BY <1>1 DEF TokenInv, Calm, Places
  <2> QED  BY <2>1, <2>2, <2>3 DEF TokenInv, Calm, NoNewToken
<1>3. UNCHANGED <<epoch, key, prev>>  BY DEF Calm, keyVars
<1>4. Answered' <=> Answered  BY <1>3 DEF Answered, Calm, StillAnswers
<1>5. EpochInv'
  <2>1. /\ {"request", "requestOnWire", "requestInbound", "response"} \subseteq Places
        /\ {"responseOnWire", "responseInbound", "answer"} \subseteq Places
    BY DEF Places
  <2>2. pc'["hi"]["loop"] # "idle" => pc["hi"]["loop"] # "idle" /\ agreed'["hi"] = agreed["hi"]
    BY DEF Calm, StillAnswers, ThreadInv, Sending
  <2>3. (pc'["hi"]["loop"] = "rotate") = (pc["hi"]["loop"] = "rotate")
    BY DEF Calm, StillAnswers
  <2>4. Answered' =>
          /\ (Awaits \/ ~ open["lo"])'
          /\ \A p \in {"request", "requestOnWire", "requestInbound", "response"} : ~ At(p)'
    BY <1>1, <1>4, <2>1 DEF EpochInv, Calm, StillAwaits
  <2>5. \A p \in {"responseOnWire", "responseInbound", "answer"} : At(p)' => Answered'
    BY <1>1, <1>4, <2>1 DEF EpochInv
  <2>6. At("response")' => epoch'["hi"] = epoch'["lo"]
    BY <1>1, <1>3, <2>1 DEF EpochInv
  <2> QED  BY <1>3, <2>2, <2>3, <2>4, <2>5, <2>6 DEF EpochInv
<1>6. Answered \/ pc'["hi"]["loop"] \in Sending => Target' = Target
  BY <1>3 DEF Answered, Target, Calm, StillAnswers, Sending
<1>7. ExchangeInv'
  <2> DEFINE reqOK(p) == p.kind = "request" =>
                           p.epoch = epoch'["lo"] + 1 /\ (Awaits' => p = Mine')
             respOK(p) == p.kind = "response" =>
                            /\ p.epoch = epoch'["lo"] + 1
                            /\ Awaits' => DerivedKey(p.epoch, Mine'.share, p.share) = Target'
  <2>1. \A p : RequestOK(p) => reqOK(p)  BY <1>3 DEF RequestOK, Calm, StillAwaits
  <2>2. \A p : ResponseOK(p) /\ (Answered \/ pc'["hi"]["loop"] \in Sending) => respOK(p)
    BY <1>3, <1>6 DEF ResponseOK, Calm, StillAwaits
  <2>3. \A p : p.kind = "text" => reqOK(p) /\ respOK(p)  OBVIOUS
  <2> HIDE DEF reqOK, respOK
  <2>4. \A g \in RekeyThreads : pc'["lo"][g] \in {"encrypt", "write", "wait"} =>
          Head(body'["lo"][g]).epoch = epoch'["lo"] + 1
    BY <1>3 DEF ExchangeInv, Calm, StillAwaits
  <2>5. \A i \in 1..Len(wire'["hi"]) : reqOK(wire'["hi"][i].body)
    BY <1>0, <2>1, <2>3 DEF ExchangeInv, Calm, NoNewToken
  <2>6. \A i \in 1..Len(inbound'["hi"]) : reqOK(inbound'["hi"][i])
    BY <1>0, <2>1, <2>3 DEF ExchangeInv, Calm, NoNewToken
  <2>7. pc'["hi"]["loop"] \in Sending => respOK(Head(body'["hi"]["loop"]))
    BY <2>2 DEF ExchangeInv, Calm, StillAnswers
  <2>8. ASSUME NEW i \in 1..Len(wire'["lo"])  PROVE respOK(wire'["lo"][i].body)
    <3>1. CASE wire'["lo"][i].body.kind = "text"  BY <2>3, <3>1
    <3>2. ASSUME NEW j \in 1..Len(wire["lo"]), wire'["lo"][i] = wire["lo"][j],
                 wire'["lo"][i].body.kind # "text"
          PROVE  respOK(wire'["lo"][i].body)
      <4>1. wire["lo"][j] \in Frame  BY <1>0 DEF Typed, ReadOK
      <4>2. wire["lo"][j] \in TokenFrames("hi")  BY <1>0, <3>2, <4>1 DEF KindInv, TokenFrames
      <4>3. At("responseOnWire")  BY <4>2 DEF At, Carries
      <4>4. ResponseOK(wire["lo"][j].body) /\ Answered  BY <4>3 DEF ExchangeInv, EpochInv
      <4> QED  BY <2>2, <3>2, <4>4
    <3> QED  BY <1>0, <2>8, <3>1, <3>2 DEF Calm, NoNewToken
  <2>9. ASSUME NEW i \in 1..Len(inbound'["lo"])  PROVE respOK(inbound'["lo"][i])
    <3>1. CASE inbound'["lo"][i].kind = "text"  BY <2>3, <3>1
    <3>2. ASSUME NEW j \in 1..Len(inbound["lo"]), inbound'["lo"][i] = inbound["lo"][j],
                 inbound'["lo"][i].kind # "text"
          PROVE  respOK(inbound'["lo"][i])
      <4>1. inbound["lo"][j] \in Payload  BY <1>0 DEF Typed, ReadOK
      <4>2. inbound["lo"][j] \in Tokens("hi")  BY <1>0, <3>2, <4>1 DEF KindInv, Tokens
      <4>3. At("responseInbound")  BY <4>2 DEF At, Carries
      <4>4. ResponseOK(inbound["lo"][j]) /\ Answered  BY <4>3 DEF ExchangeInv, EpochInv
      <4> QED  BY <2>2, <3>2, <4>4
    <3> QED  BY <1>0, <2>9, <3>1, <3>2 DEF Calm, NoNewToken
  <2>10. ASSUME Awaits', NEW i \in 1..Len(answer'["lo"])  PROVE respOK(answer'["lo"][i])
    <3>1. Awaits /\ answer' = answer  BY <2>10 DEF Calm, StillAwaits
    <3>2. answer["lo"] # <<>>  BY <2>10, <3>1
    <3>3. At("answer")  BY <3>1, <3>2 DEF At
    <3>4. ResponseOK(answer["lo"][i]) /\ Answered  BY <2>10, <3>1, <3>3 DEF ExchangeInv, EpochInv
    <3> QED  BY <2>2, <3>1, <3>4
  <2> QED  BY <2>4, <2>5, <2>6, <2>7, <2>8, <2>9, <2>10
           DEF ExchangeInv, RequestOK, ResponseOK, reqOK, respOK
<1>8. KeyInv'
  <2>0. epoch["lo"] \in Nat /\ epoch["hi"] \in Nat  BY <1>0 DEF Typed, KeysOK
  <2>1. epoch["lo"] = epoch["hi"] + 1 => agreed'["hi"] = agreed["hi"]
    BY <2>0 DEF EpochInv, Calm, StillAnswers
  <2> QED  BY <1>3, <2>1 DEF KeyInv
<1> QED  BY <1>2, <1>5, <1>7, <1>8

\* A channel that stays carries nothing new.
LEMMA NoChannel ==
  ASSUME TokenInv, UNCHANGED <<wire, inbound>>
  PROVE  NoNewToken
BY DEF TokenInv, NoNewToken

\* A step of a thread that takes no part in the exchange, or stays in SendRaw.
LEMMA StillSteps ==
  ASSUME Typed, NEW e \in Ends, NEW t \in Threads, NEW s \in Steps,
         pc' = [pc EXCEPT ![e][t] = s],
         \A d \in Ends, u \in Threads : d # e \/ u # t => body'[d][u] = body[d][u],
         \/ t = "text"
         \/ pc[e][t] \in {"idle", "start"} /\ s \in {"idle", "start"} /\ t \in RekeyThreads
         \/ pc[e][t] = "encrypt" /\ s = "write" /\ body'[e][t] = body[e][t],
         UNCHANGED <<waiter, agreed>>, open'["lo"] => open["lo"]
  PROVE  StillAwaits /\ StillAnswers
<1>0. /\ pc \in [Ends -> [Threads -> Steps]] /\ "lo" \in Ends /\ "hi" \in Ends
      /\ waiter["lo"] \in RekeyThreads \cup {"none"}
      /\ "loop" \in Threads /\ "text" \notin RekeyThreads /\ "loop" \notin RekeyThreads
      /\ \A g \in RekeyThreads : g \in Threads
  BY DEF Typed, SendOK, RekeyOK, Threads, RekeyThreads, Ends
<1>1. /\ pc'[e][t] = s
      /\ \A d \in Ends, u \in Threads : d # e \/ u # t => pc'[d][u] = pc[d][u]
  BY <1>0
<1>2. ASSUME NEW g \in RekeyThreads
      PROVE  \/ pc'["lo"][g] = pc["lo"][g] /\ body'["lo"][g] = body["lo"][g]
             \/ pc["lo"][g] \in {"idle", "start"} /\ pc'["lo"][g] \in {"idle", "start"}
             \/ pc["lo"][g] = "encrypt" /\ pc'["lo"][g] = "write" /\ body'["lo"][g] = body["lo"][g]
  BY <1>0, <1>1
<1>3. \/ pc'["hi"]["loop"] = pc["hi"]["loop"] /\ body'["hi"]["loop"] = body["hi"]["loop"]
      \/ /\ pc["hi"]["loop"] = "encrypt" /\ pc'["hi"]["loop"] = "write"
         /\ body'["hi"]["loop"] = body["hi"]["loop"]
  BY <1>0, <1>1
<1>4. Awaits' <=> Awaits  BY <1>0, <1>2 DEF Awaits
<1>5. Awaits => Mine' = Mine  BY <1>0, <1>2 DEF Awaits, Mine
<1>6. StillAwaits  BY <1>2, <1>4, <1>5 DEF StillAwaits, Sending
<1>7. StillAnswers  BY <1>3 DEF StillAnswers, Sending
<1> QED  BY <1>6, <1>7

\* A step that no thread takes.
LEMMA StillThere ==
  ASSUME UNCHANGED <<pc, waiter, body, agreed>>, open'["lo"] => open["lo"]
  PROVE  StillAwaits /\ StillAnswers
<1>1. Awaits' <=> Awaits  BY DEF Awaits
<1>2. Mine' = Mine  BY DEF Mine
<1> QED  BY <1>1, <1>2 DEF StillAwaits, StillAnswers

\* The first payload leaves its channel.
LEMMA TakenPayload ==
  ASSUME Typed, TokenInv, NEW e \in Ends, NEW kind, NextPayload(e, kind)
  PROVE  /\ NoNewToken /\ wire' = wire
         /\ \A d \in Ends : d # e => inbound'[d] = inbound[d]
         /\ Head(inbound[e]) \in Payload /\ Head(inbound[e]).kind = kind
         /\ Head(inbound[e]) = inbound[e][1] /\ 1 \in 1..Len(inbound[e])
         /\ kind = Kind(Other(e)) =>
              Carries(inbound[e], Tokens(Other(e))) /\ ~ Carries(inbound'[e], Tokens(Other(e)))
<1>0. inbound \in [Ends -> Seq(Payload)] /\ inbound[e] \in Seq(Payload) /\ inbound[e] # <<>>
  BY DEF Typed, ReadOK, NextPayload
<1>1. wire' = wire /\ inbound' = [inbound EXCEPT ![e] = Tail(@)]  BY DEF NextPayload
<1>2. Head(inbound[e]) \in Payload /\ Head(inbound[e]).kind = kind
  BY <1>0, Channel DEF NextPayload
<1>3. \A d \in Ends : Tokens(Other(d)) \in SUBSET Payload  BY DEF Tokens
<1>4. ASSUME NEW d \in Ends
      PROVE  /\ OneOf(inbound'[d], Tokens(Other(d)))
             /\ \A i \in 1..Len(inbound'[d]) :
                  \E j \in 1..Len(inbound[d]) : inbound'[d][i] = inbound[d][j]
  <2>1. CASE d # e  BY <1>0, <1>1, <2>1 DEF TokenInv
  <2>2. CASE d = e
    <3>1. inbound'[d] = Tail(inbound[d])  BY <1>0, <1>1, <2>2
    <3> QED  BY <1>0, <1>3, <2>2, <3>1, Channel DEF TokenInv
  <2> QED  BY <2>1, <2>2
<1>5. ASSUME kind = Kind(Other(e))
      PROVE  Carries(inbound[e], Tokens(Other(e))) /\ ~ Carries(inbound'[e], Tokens(Other(e)))
  <2>1. Head(inbound[e]) \in Tokens(Other(e))  BY <1>2, <1>5 DEF Tokens
  <2>2. inbound'[e] = Tail(inbound[e]) /\ OneOf(inbound[e], Tokens(Other(e)))
    BY <1>0, <1>1 DEF TokenInv
  <2> QED  BY <1>0, <1>3, <2>1, <2>2, Channel
<1>6. NoNewToken  BY <1>1, <1>4 DEF NoNewToken, TokenInv
<1>7. Head(inbound[e]) = inbound[e][1] /\ 1 \in 1..Len(inbound[e])  BY <1>0, Channel
<1> QED  BY <1>0, <1>1, <1>2, <1>5, <1>6, <1>7

\* The steps of the text goroutine, of the timers and of the reading of text.
LEMMA CalmText ==
  ASSUME Typed, ThreadInv, KindInv, TokenInv, EpochInv, NEW e \in Ends,
         \/ SendText(e) \/ RekeyDue(e) \/ Disconnect(e) \/ KeepAliveChecks(e) \/ ReadEOF(e)
         \/ WriteText(e) \/ TextFails(e) \/ TriggerRekey(e)
         \/ HandleText(e) \/ ReadMalformed(e)
         \/ ReadPayload(e) /\ Arrived(e).body.kind = "text"
  PROVE  Calm
<1>0. /\ open \in [Ends -> BOOLEAN] /\ "lo" \in Ends /\ "hi" \in Ends
      /\ "text" \in Threads /\ "loop" \in Threads
      /\ \A g \in RekeyThreads : g \in Threads /\ g # "loop" /\ g # "text"
      /\ body \in [Ends -> [Threads -> Optional(Payload)]]
      /\ sealed \in [Ends -> [Threads -> Optional(Frame)]]
      /\ wire \in [Ends -> Seq(Frame)] /\ inbound \in [Ends -> Seq(Payload)]
  BY DEF Threads, RekeyThreads, Typed, KeysOK, SendOK, ReadOK, Ends
\* The steps of the text goroutine take no part in the exchange.
<1>8. ASSUME NEW s \in {"idle", "encrypt"}, pc' = [pc EXCEPT ![e]["text"] = s],
             \A d \in Ends, u \in Threads : d # e \/ u # "text" => body'[d][u] = body[d][u],
             UNCHANGED <<waiter, agreed>>, open'["lo"] => open["lo"]
      PROVE  StillAwaits /\ StillAnswers
  <2>1. s \in Steps /\ "text" \in Threads  BY <1>0 DEF Steps
  <2> QED  BY <1>8, <2>1, StillSteps
<1>1. CASE SendText(e)
  <2>1. \A d \in Ends, u \in Threads : d # e \/ u # "text" => body'[d][u] = body[d][u]
    BY <1>0, <1>1 DEF SendText, StartSend
  <2>2. StillAwaits /\ StillAnswers
    <3>1. pc' = [pc EXCEPT ![e]["text"] = "encrypt"] /\ UNCHANGED <<open, waiter, agreed>>
      BY <1>1 DEF SendText, StartSend, rekeyVars
    <3> QED  BY <1>8, <2>1, <3>1
  <2> QED  BY <1>1, <2>2, NoChannel DEF SendText, rekeyVars, readVars, Calm
<1>2. CASE RekeyDue(e) \/ Disconnect(e) \/ KeepAliveChecks(e) \/ ReadEOF(e)
  <2>1. open'["lo"] => open["lo"]
    BY <1>0, <1>2 DEF RekeyDue, Disconnect, KeepAliveChecks, ReadEOF, CloseWithError
  <2> QED
    BY <1>2, <2>1, StillThere, NoChannel DEF RekeyDue, Disconnect, KeepAliveChecks, ReadEOF,
       rekeyVars, sendVars, readVars, Calm
<1>3. CASE TextFails(e)
  <2>1. \A d \in Ends, u \in Threads : d # e \/ u # "text" => body'[d][u] = body[d][u]
    BY <1>0, <1>3 DEF TextFails
  <2>2. open'["lo"] => open["lo"]  BY <1>0, <1>3 DEF TextFails, CloseWithError
  <2>3. StillAwaits /\ StillAnswers
    BY <1>3, <1>8, <2>1, <2>2 DEF TextFails, EndSend
  <2> QED  BY <1>3, <2>3, NoChannel DEF TextFails, readVars, Calm
<1>4. CASE WriteText(e)
  <2>1. \A d \in Ends, u \in Threads : d # e \/ u # "text" => body'[d][u] = body[d][u]
    BY <1>0, <1>4 DEF WriteText
  <2>2. StillAwaits /\ StillAnswers
    <3>1. pc' = [pc EXCEPT ![e]["text"] = "idle"] /\ UNCHANGED <<open, waiter, agreed>>
      BY <1>4 DEF WriteText, EndSend
    <3> QED  BY <1>8, <2>1, <3>1
  <2> DEFINE f == Head(sealed[e]["text"])
  <2>3. f \in Frame /\ f.body.kind = "text"
    <3>1. pc[e]["text"] = "write"  BY <1>4 DEF WriteText, WriteFrame
    <3> QED  BY <1>0, <3>1, InHand DEF KindInv, Sending
  <2>4. \A d \in Ends : wire'[d] = wire[d] \/ wire'[d] = Append(wire[d], f)
    BY <1>0, <1>4, TwoEnds DEF WriteText, WriteFrame
  <2>5. f \notin TokenFrames("lo") /\ f \notin TokenFrames("hi")
    BY <2>3 DEF TokenFrames, Kind
  <2> HIDE DEF f
  <2>6. ASSUME NEW d \in Ends
        PROVE  /\ OneOf(wire'[d], TokenFrames(Other(d)))
               /\ \A i \in 1..Len(wire'[d]) :
                    \/ wire'[d][i].body.kind = "text"
                    \/ \E j \in 1..Len(wire[d]) : wire'[d][i] = wire[d][j]
    <3>1. CASE wire'[d] = wire[d]  BY <3>1 DEF TokenInv
    <3>2. CASE wire'[d] = Append(wire[d], f)
      <4>1. wire[d] \in Seq(Frame)  BY <1>0
      <4>2. TokenFrames(Other(d)) \in SUBSET Frame /\ f \notin TokenFrames(Other(d))
        BY <2>5 DEF TokenFrames, Other
      <4>3. OneOf(wire'[d], TokenFrames(Other(d)))
        BY <2>3, <3>2, <4>1, <4>2, Channel DEF TokenInv
      <4>4. \A i \in 1..Len(wire'[d]) :
              wire'[d][i] = f \/ (i \in 1..Len(wire[d]) /\ wire'[d][i] = wire[d][i])
        BY <2>3, <3>2, <4>1
      <4> QED  BY <2>3, <4>3, <4>4
    <3> QED  BY <2>4, <3>1, <3>2
  <2>7. UNCHANGED <<keyVars, answer, inbound>>  BY <1>4 DEF WriteText
  <2>8. NoNewToken  BY <2>6, <2>7 DEF NoNewToken, TokenInv
  <2> QED  BY <2>2, <2>7, <2>8 DEF Calm
<1>5. CASE TriggerRekey(e)
  <2>1. UNCHANGED <<open, keyVars, waiter, answer, body, agreed, readVars>>
    BY <1>5 DEF TriggerRekey
  <2>2. CASE pc' = pc  BY <2>1, <2>2, StillThere, NoChannel DEF readVars, Calm
  <2>3. ASSUME NEW g \in RekeyThreads, pc[e][g] = "idle", pc' = [pc EXCEPT ![e][g] = "start"]
        PROVE  Calm
    <3>1. StillAwaits /\ StillAnswers  BY <1>0, <2>1, <2>3, StillSteps DEF Steps
    <3> QED  BY <2>1, <3>1, NoChannel DEF readVars, Calm
  <2> QED  BY <1>5, <2>2, <2>3 DEF TriggerRekey
\* The first frame is taken, and its payload is text or is dropped.
<1>6. CASE ReadMalformed(e) \/ (ReadPayload(e) /\ Arrived(e).body.kind = "text")
  <2> DEFINE p == Arrived(e).body
  <2>1. /\ wire[e] # <<>> /\ wire' = [wire EXCEPT ![e] = Tail(@)]
        /\ \/ inbound' = inbound
           \/ p.kind = "text" /\ inbound' = [inbound EXCEPT ![e] = Append(@, p)]
        /\ UNCHANGED <<keyVars, answer, pc, waiter, body, agreed>>
    BY <1>6 DEF ReadMalformed, ReadPayload, rekeyVars, sendVars
  <2>2. open'["lo"] => open["lo"]
    BY <1>0, <1>6 DEF ReadMalformed, ReadPayload, CloseWithError
  <2>3. p \in Payload  BY <2>1, FirstFrame DEF Frame
  <2> HIDE DEF p
  <2>4. ASSUME NEW d \in Ends
        PROVE  /\ OneOf(wire'[d], TokenFrames(Other(d)))
               /\ \A i \in 1..Len(wire'[d]) : \E j \in 1..Len(wire[d]) : wire'[d][i] = wire[d][j]
    <3>1. CASE d # e  BY <1>0, <2>1, <3>1 DEF TokenInv
    <3>2. CASE d = e
      <4>1. wire[d] \in Seq(Frame) /\ wire[d] # <<>> /\ wire'[d] = Tail(wire[d])
        BY <1>0, <2>1, <3>2
      <4>2. TokenFrames(Other(d)) \in SUBSET Frame  BY DEF TokenFrames
      <4> QED  BY <4>1, <4>2, Channel DEF TokenInv
    <3> QED  BY <3>1, <3>2
  <2>5. ASSUME NEW d \in Ends
        PROVE  /\ OneOf(inbound'[d], Tokens(Other(d)))
               /\ \A i \in 1..Len(inbound'[d]) :
                    \/ inbound'[d][i].kind = "text"
                    \/ \E j \in 1..Len(inbound[d]) : inbound'[d][i] = inbound[d][j]
    <3>1. CASE inbound'[d] = inbound[d]  BY <3>1 DEF TokenInv
    <3>2. CASE inbound'[d] # inbound[d]
      <4>1. inbound'[d] = Append(inbound[d], p) /\ p.kind = "text"  BY <1>0, <2>1, <3>2
      <4>2. inbound[d] \in Seq(Payload)  BY <1>0
      <4>3. Tokens(Other(d)) \in SUBSET Payload /\ p \notin Tokens(Other(d))
        BY <4>1 DEF Tokens, Kind
      <4>4. OneOf(inbound'[d], Tokens(Other(d)))
        BY <2>3, <4>1, <4>2, <4>3, Channel DEF TokenInv
      <4>5. \A i \in 1..Len(inbound'[d]) :
              inbound'[d][i] = p \/ (i \in 1..Len(inbound[d]) /\ inbound'[d][i] = inbound[d][i])
        BY <2>3, <4>1, <4>2
      <4> QED  BY <4>1, <4>4, <4>5
    <3> QED  BY <3>1, <3>2
  <2>6. NoNewToken  BY <2>4, <2>5 DEF NoNewToken
  <2> QED  BY <2>1, <2>2, <2>6, StillThere DEF Calm
<1>7. CASE HandleText(e)
  <2>1. NoNewToken  BY <1>7, TakenPayload DEF HandleText
  <2> QED
    BY <1>7, <2>1, StillThere DEF HandleText, rekeyVars, sendVars, Calm
<1> QED  BY <1>1, <1>2, <1>3, <1>4, <1>5, <1>6, <1>7

\* The steps of SendRaw, of a goroutine or handler that gives up or is done,
\* and of a response nobody waits for.
LEMMA CalmRekey ==
  ASSUME Typed, ThreadInv, KindInv, TokenInv, EpochInv, Typed', NEW e \in Ends,
         \/ \E t \in Threads : EncryptPayload(e, t)
         \/ \E g \in RekeyThreads : RekeySkipped(e, g) \/ RekeyFails(e, g) \/ RekeyReturns(e, g)
         \/ LoopFails(e)
         \/ HandleRekeyResponse(e) /\ answer' = answer
  PROVE  Calm
<1>0. /\ open \in [Ends -> BOOLEAN] /\ "lo" \in Ends /\ "hi" \in Ends
      /\ "text" \in Threads /\ "loop" \in Threads
      /\ \A g \in RekeyThreads : g \in Threads /\ g # "loop" /\ g # "text" /\ g # "none"
      /\ pc \in [Ends -> [Threads -> Steps]]
      /\ body \in [Ends -> [Threads -> Optional(Payload)]]
      /\ agreed \in [Ends -> Optional(Key)]
      /\ waiter \in [Ends -> RekeyThreads \cup {"none"}]
  BY DEF Threads, RekeyThreads, Typed, KeysOK, RekeyOK, SendOK, ReadOK, Ends
<1>1. ASSUME NEW t \in Threads, EncryptPayload(e, t)  PROVE Calm
  <2>1. /\ pc' = [pc EXCEPT ![e][t] = "write"] /\ pc[e][t] = "encrypt"
        /\ UNCHANGED <<open, keyVars, waiter, answer, body, agreed, wire, inbound>>
    BY <1>1 DEF EncryptPayload, rekeyVars, readVars
  <2>2. StillAwaits /\ StillAnswers  BY <2>1, StillSteps DEF Steps
  <2> QED  BY <2>1, <2>2, NoChannel DEF Calm
<1>2. ASSUME NEW g \in RekeyThreads, RekeySkipped(e, g)  PROVE Calm
  <2>1. /\ pc' = [pc EXCEPT ![e][g] = "idle"] /\ pc[e][g] = "start"
        /\ UNCHANGED <<open, keyVars, waiter, answer, body, agreed, wire, inbound>>
    BY <1>2 DEF RekeySkipped, readVars
  <2>2. StillAwaits /\ StillAnswers  BY <1>0, <2>1, StillSteps DEF Steps
  <2> QED  BY <2>1, <2>2, NoChannel DEF Calm
<1>3. ASSUME NEW g \in RekeyThreads, RekeyFails(e, g) \/ RekeyReturns(e, g)  PROVE Calm
  <2>1. pc[e][g] \in {"encrypt", "write", "wait", "return"}
    BY <1>3 DEF RekeyFails, SendFails, RekeyReturns
  <2>2. e = "lo" /\ waiter["lo"] = g  BY <2>1, Roles
  <2>3. /\ pc' = [pc EXCEPT !["lo"][g] = "idle"] /\ body' = [body EXCEPT !["lo"][g] = <<>>]
        /\ waiter' = [waiter EXCEPT !["lo"] = "none"]
        /\ UNCHANGED <<keyVars, answer, agreed, wire, inbound>>
    BY <1>3, <2>2 DEF RekeyFails, RekeyReturns, EndSend, Unregister, readVars
  <2>4. (pc["lo"][g] = "return" /\ open' = open) \/ ~ open'["lo"]
    BY <1>0, <1>3, <2>2 DEF RekeyFails, RekeyReturns, CloseWithError
  <2>5. pc'["lo"][g] = "idle" /\ \A h \in RekeyThreads \ {g} :
          pc'["lo"][h] = pc["lo"][h] /\ body'["lo"][h] = body["lo"][h]
    BY <1>0, <2>3
  <2>6. pc'["hi"]["loop"] = pc["hi"]["loop"] /\ body'["hi"]["loop"] = body["hi"]["loop"]
    BY <1>0, <2>3 DEF Ends
  <2>7. waiter'["lo"] = "none"  BY <1>0, <2>3
  <2>8. ~ Awaits'  BY <2>7 DEF Awaits
  <2>9. pc["lo"][g] = "return" => ~ Awaits  BY <2>2 DEF Awaits
  <2>10. StillAwaits  BY <2>4, <2>5, <2>8, <2>9 DEF StillAwaits, Sending
  <2>11. StillAnswers  BY <2>3, <2>6 DEF StillAnswers
  <2> QED  BY <2>3, <2>10, <2>11, NoChannel DEF Calm
<1>4. CASE LoopFails(e)
  <2>1. e = "hi"  BY <1>4, Roles DEF LoopFails, SendFails
  <2>2. /\ pc' = [pc EXCEPT !["hi"]["loop"] = "idle"]
        /\ body' = [body EXCEPT !["hi"]["loop"] = <<>>]
        /\ UNCHANGED <<keyVars, waiter, answer, wire, inbound>>
    BY <1>4, <2>1 DEF LoopFails, EndSend, readVars
  <2>3. open'["lo"] = open["lo"]  BY <1>0, <1>4, <2>1 DEF LoopFails, CloseWithError
  <2>4. pc["hi"]["loop"] # "rotate"
    BY <1>4, <2>1 DEF LoopFails, SendFails, EpochInv
  <2>5. /\ pc'["hi"]["loop"] = "idle"
        /\ \A g \in RekeyThreads : pc'["lo"][g] = pc["lo"][g] /\ body'["lo"][g] = body["lo"][g]
    BY <1>0, <2>2 DEF Ends
  <2>6. Awaits' <=> Awaits  BY <1>0, <2>2, <2>5 DEF Awaits
  <2>7. Awaits => Mine' = Mine  BY <1>0, <2>2, <2>5 DEF Awaits, Mine
  <2>8. StillAwaits  BY <2>3, <2>5, <2>6, <2>7 DEF StillAwaits
  <2>9. StillAnswers  BY <2>4, <2>5 DEF StillAnswers, Sending
  <2> QED  BY <2>2, <2>8, <2>9, NoChannel DEF Calm
<1>5. CASE HandleRekeyResponse(e) /\ answer' = answer
  <2>1. NoNewToken  BY <1>5, TakenPayload DEF HandleRekeyResponse
  <2> QED  BY <1>5, <2>1, StillThere DEF HandleRekeyResponse, sendVars, Calm
<1> QED  BY <1>1, <1>2, <1>3, <1>4, <1>5

-----------------------------------------------------------------------------
(* Steps that advance the exchange. *)

\* The request or response moves to one place, or is gone.
LEMMA PlacesFlow ==
  ASSUME TokenInv, NEW p \in Places, At(p), NEW q \in Places, p = q \/ ~ At(p)',
         \/ q = "request"
         \/ \A g \in RekeyThreads : pc'["lo"][g] \in Sending => pc["lo"][g] \in Sending,
         \/ q = "requestOnWire"
         \/ Carries(wire'["hi"], TokenFrames("lo")) => Carries(wire["hi"], TokenFrames("lo")),
         \/ q = "requestInbound"
         \/ Carries(inbound'["hi"], Tokens("lo")) => Carries(inbound["hi"], Tokens("lo")),
         q = "response" \/ (pc'["hi"]["loop"] \in Sending => pc["hi"]["loop"] \in Sending),
         \/ q = "responseOnWire"
         \/ Carries(wire'["lo"], TokenFrames("hi")) => Carries(wire["lo"], TokenFrames("hi")),
         \/ q = "responseInbound"
         \/ Carries(inbound'["lo"], Tokens("hi")) => Carries(inbound["lo"], Tokens("hi")),
         q = "answer" \/ ((Awaits' /\ answer'["lo"] # <<>>) => Awaits /\ answer["lo"] # <<>>)
  PROVE  \A r \in Places : At(r)' => r = q
<1> SUFFICES ASSUME NEW r \in Places, At(r)', r # q  PROVE FALSE  OBVIOUS
<1>1. At(r)
  <2>1. CASE r = "request"  BY <2>1 DEF At
  <2>2. CASE r = "requestOnWire"  BY <2>2 DEF At
  <2>3. CASE r = "requestInbound"  BY <2>3 DEF At
  <2>4. CASE r = "response"  BY <2>4 DEF At
  <2>5. CASE r = "responseOnWire"  BY <2>5 DEF At
  <2>6. CASE r = "responseInbound"  BY <2>6 DEF At
  <2>7. CASE r = "answer"  BY <2>7 DEF At
  <2> QED  BY <2>1, <2>2, <2>3, <2>4, <2>5, <2>6, <2>7 DEF Places
<1>2. r = p  BY <1>1 DEF TokenInv
<1> QED  BY <1>2

\* What is at a place is in order.
GoodAt(q) ==
  /\ q = "requestOnWire" => \A i \in 1..Len(wire["hi"]) : RequestOK(wire["hi"][i].body)
  /\ q = "requestInbound" => \A i \in 1..Len(inbound["hi"]) : RequestOK(inbound["hi"][i])
  /\ q = "response" => (pc["hi"]["loop"] \in Sending => ResponseOK(Head(body["hi"]["loop"])))
  /\ q = "responseOnWire" => \A i \in 1..Len(wire["lo"]) : ResponseOK(wire["lo"][i].body)
  /\ q = "responseInbound" => \A i \in 1..Len(inbound["lo"]) : ResponseOK(inbound["lo"][i])
  /\ q = "answer" => (Awaits => \A i \in 1..Len(answer["lo"]) : ResponseOK(answer["lo"][i]))

\* The bodies the initiator's goroutines work on are for the next epoch.
BodiesNext ==
  \A g \in RekeyThreads :
    pc["lo"][g] \in {"encrypt", "write", "wait"} => Head(body["lo"][g]).epoch = epoch["lo"] + 1

\* After a step the request or response is in one place, if anywhere.
LEMMA OnlyPlace ==
  ASSUME Typed', KindInv', NEW q \in Places, \A p \in Places : At(p)' => p = q,
         \A e \in Ends :
           OneOf(wire'[e], TokenFrames(Other(e))) /\ OneOf(inbound'[e], Tokens(Other(e))),
         q # "request" => (Awaits \/ ~ open["lo"])' \/ ~ At(q)',
         q = "request" => answer'["lo"] = <<>>,
         BodiesNext', GoodAt(q)'
  PROVE  TokenInv' /\ ExchangeInv'
<1>0. "lo" \in Ends /\ "hi" \in Ends /\ Other("lo") = "hi" /\ Other("hi") = "lo"
  BY DEF Ends, Other
<1>1. TokenInv'
  <2>1. \A p, r \in Places : At(p)' /\ At(r)' => p = r  OBVIOUS
  <2>2. \A p \in Places \ {"request"} : At(p)' => (Awaits \/ ~ open["lo"])'  OBVIOUS
  <2>3. At("request")' => answer'["lo"] = <<>>  BY DEF Places
  <2> QED  BY <2>1, <2>2, <2>3 DEF TokenInv
<1>2. ASSUME NEW i \in 1..Len(wire'["hi"])  PROVE RequestOK(wire["hi"][i].body)'
  <2>1. CASE q = "requestOnWire"  BY <1>2, <2>1 DEF GoodAt
  <2>2. CASE q # "requestOnWire"
    <3>1. ~ At("requestOnWire")'  BY <2>2 DEF Places
    <3>2. wire'["hi"][i] \in Frame  BY <1>0 DEF Typed, ReadOK
    <3>3. wire'["hi"][i] \notin TokenFrames("lo")  BY <1>2, <3>1 DEF At, Carries
    <3> QED  BY <3>2, <3>3 DEF TokenFrames, Kind, RequestOK
  <2> QED  BY <2>1, <2>2
<1>3. ASSUME NEW i \in 1..Len(inbound'["hi"])  PROVE RequestOK(inbound["hi"][i])'
  <2>1. CASE q = "requestInbound"  BY <1>3, <2>1 DEF GoodAt
  <2>2. CASE q # "requestInbound"
    <3>1. ~ At("requestInbound")'  BY <2>2 DEF Places
    <3>2. inbound'["hi"][i] \in Payload  BY <1>0 DEF Typed, ReadOK
    <3>3. inbound'["hi"][i] \notin Tokens("lo")  BY <1>3, <3>1 DEF At, Carries
    <3> QED  BY <3>2, <3>3 DEF Tokens, Kind, RequestOK
  <2> QED  BY <2>1, <2>2
<1>4. (pc["hi"]["loop"] \in Sending => ResponseOK(Head(body["hi"]["loop"])))'
  <2>1. CASE q = "response"  BY <2>1 DEF GoodAt
  <2>2. CASE q # "response"
    <3>1. ~ At("response")'  BY <2>2 DEF Places
    <3> QED  BY <3>1 DEF At
  <2> QED  BY <2>1, <2>2
<1>5. ASSUME NEW i \in 1..Len(wire'["lo"])  PROVE ResponseOK(wire["lo"][i].body)'
  <2>1. CASE q = "responseOnWire"  BY <1>5, <2>1 DEF GoodAt
  <2>2. CASE q # "responseOnWire"
    <3>1. ~ At("responseOnWire")'  BY <2>2 DEF Places
    <3>2. wire'["lo"][i] \in Frame  BY <1>0 DEF Typed, ReadOK
    <3>3. wire'["lo"][i] \notin TokenFrames("hi")  BY <1>5, <3>1 DEF At, Carries
    <3> QED  BY <3>2, <3>3 DEF TokenFrames, Kind, ResponseOK
  <2> QED  BY <2>1, <2>2
<1>6. ASSUME NEW i \in 1..Len(inbound'["lo"])  PROVE ResponseOK(inbound["lo"][i])'
  <2>1. CASE q = "responseInbound"  BY <1>6, <2>1 DEF GoodAt
  <2>2. CASE q # "responseInbound"
    <3>1. ~ At("responseInbound")'  BY <2>2 DEF Places
    <3>2. inbound'["lo"][i] \in Payload  BY <1>0 DEF Typed, ReadOK
    <3>3. inbound'["lo"][i] \notin Tokens("hi")  BY <1>6, <3>1 DEF At, Carries
    <3> QED  BY <3>2, <3>3 DEF Tokens, Kind, ResponseOK
  <2> QED  BY <2>1, <2>2
<1>7. ASSUME Awaits', NEW i \in 1..Len(answer'["lo"])  PROVE ResponseOK(answer["lo"][i])'
  <2>1. answer'["lo"] # <<>>  BY <1>7
  <2>2. At("answer")'  BY <1>7, <2>1 DEF At
  <2>3. q = "answer"  BY <2>2 DEF Places
  <2> QED  BY <1>7, <2>3 DEF GoodAt
<1>8. ExchangeInv'
  BY <1>2, <1>3, <1>4, <1>5, <1>6, <1>7 DEF ExchangeInv, BodiesNext
<1> QED  BY <1>1, <1>8

\* What a channel carries after a thread has written its frame.
LEMMA WrittenFrame ==
  ASSUME Typed, KindInv, TokenInv, NEW e \in Ends, NEW t \in Threads, t # "text",
         WriteFrame(e, t), ~ Carries(wire[Other(e)], TokenFrames(e)), inbound' = inbound
  PROVE  /\ \A d \in Ends :
              OneOf(wire'[d], TokenFrames(Other(d))) /\ OneOf(inbound'[d], Tokens(Other(d)))
         /\ wire'[e] = wire[e]
         /\ \A i \in 1..Len(wire'[Other(e)]) :
              \/ i \in 1..Len(wire[Other(e)]) /\ wire'[Other(e)][i] = wire[Other(e)][i]
              \/ wire'[Other(e)][i].body = Head(body[e][t])
<1> DEFINE f == Head(sealed[e][t])
           o == Other(e)
<1>1. f \in Frame /\ f.body = Head(body[e][t])  BY InHand DEF WriteFrame, KindInv, Sending
<1>2. o \in Ends /\ o # e /\ Other(o) = e /\ \A d \in Ends : d = e \/ d = o
  BY TwoEnds DEF Ends, Other
<1>3. wire \in [Ends -> Seq(Frame)]  BY DEF Typed, ReadOK
<1>4. wire' = [wire EXCEPT ![o] = IF open[o] THEN Append(@, f) ELSE @]  BY DEF WriteFrame
<1> HIDE DEF f, o
<1>5. wire'[e] = wire[e] /\ (wire'[o] = wire[o] \/ wire'[o] = Append(wire[o], f))
  BY <1>2, <1>3, <1>4
<1>6. OneOf(wire'[o], TokenFrames(e))
  <2>1. CASE wire'[o] = wire[o]  BY <1>2, <2>1 DEF TokenInv
  <2>2. CASE wire'[o] = Append(wire[o], f)
    <3>1. wire[o] \in Seq(Frame) /\ TokenFrames(e) \in SUBSET Frame  BY <1>2, <1>3 DEF TokenFrames
    <3>2. OneOf(wire[o], TokenFrames(e)) /\ ~ Carries(wire[o], TokenFrames(e))
      BY <1>2 DEF TokenInv, o
    <3> QED  BY <1>1, <2>2, <3>1, <3>2, Channel
  <2> QED  BY <1>5, <2>1, <2>2
<1>7. \A i \in 1..Len(wire'[o]) :
        (i \in 1..Len(wire[o]) /\ wire'[o][i] = wire[o][i]) \/ wire'[o][i] = f
  <2>1. wire[o] \in Seq(Frame)  BY <1>2, <1>3
  <2>2. CASE wire'[o] = wire[o]  BY <2>2
  <2>3. CASE wire'[o] = Append(wire[o], f)  BY <1>1, <2>1, <2>3
  <2> QED  BY <1>5, <2>2, <2>3
<1>8. OneOf(wire'[e], TokenFrames(o))  BY <1>5 DEF TokenInv, o
<1>9. \A d \in Ends : OneOf(wire'[d], TokenFrames(Other(d)))  BY <1>2, <1>6, <1>8 DEF o
<1>10. \A d \in Ends : OneOf(inbound'[d], Tokens(Other(d)))  BY DEF TokenInv
<1> QED  BY <1>1, <1>5, <1>7, <1>9, <1>10 DEF o

\* The state before the exchange advances, as its steps need it.
LEMMA Before ==
  ASSUME Typed, ThreadInv, EpochInv
  PROVE  /\ "lo" \in Ends /\ "hi" \in Ends /\ Other("lo") = "hi" /\ Other("hi") = "lo"
         /\ "text" \in Threads /\ "loop" \in Threads
         /\ \A g \in RekeyThreads : g \in Threads /\ g # "loop" /\ g # "text" /\ g # "none"
         /\ open \in [Ends -> BOOLEAN] /\ epoch \in [Ends -> Nat] /\ key \in [Ends -> Key]
         /\ prev \in [Ends -> Optional(Key)]
         /\ waiter \in [Ends -> RekeyThreads \cup {"none"}]
         /\ answer \in [Ends -> Optional(Payload)]
         /\ pc \in [Ends -> [Threads -> Steps]]
         /\ body \in [Ends -> [Threads -> Optional(Payload)]]
         /\ agreed \in [Ends -> Optional(Key)] /\ generated \in [Ends -> Nat]
         /\ wire \in [Ends -> Seq(Frame)] /\ inbound \in [Ends -> Seq(Payload)]
         /\ epoch["lo"] \in Nat /\ epoch["hi"] \in Nat
BY DEF Typed, KeysOK, RekeyOK, SendOK, ReadOK, Ends, Other, Threads, RekeyThreads

\* The keys of both ends stay, and the other end's loop neither starts nor ends
\* a rotation.
LEMMA SameEpochs ==
  ASSUME Typed, EpochInv, KeyInv, UNCHANGED keyVars,
         pc'["hi"]["loop"] = "rotate" <=> pc["hi"]["loop"] = "rotate",
         pc'["hi"]["loop"] # "idle" =>
           pc["hi"]["loop"] # "idle" /\ agreed'["hi"] = agreed["hi"],
         \A p \in {"request", "requestOnWire", "requestInbound", "response"} :
           At(p)' => ~ Answered,
         \A p \in {"responseOnWire", "responseInbound", "answer"} : At(p)' => Answered,
         At("response")' => epoch["hi"] = epoch["lo"],
         Answered => (Awaits \/ ~ open["lo"])'
  PROVE  EpochInv' /\ KeyInv'
<1>1. epoch["lo"] \in Nat /\ epoch["hi"] \in Nat  BY DEF Typed, KeysOK, Ends
<1>2. UNCHANGED <<epoch, key, prev>>  BY DEF keyVars
<1>3. Answered' <=> Answered  BY <1>2 DEF Answered
<1>4. (pc'["hi"]["loop"] = "rotate") = (pc["hi"]["loop"] = "rotate")  OBVIOUS
<1>5. EpochInv'  BY <1>2, <1>3, <1>4 DEF EpochInv
<1>6. epoch["lo"] = epoch["hi"] + 1 => agreed'["hi"] = agreed["hi"]  BY <1>1, <1>4 DEF EpochInv
<1>7. KeyInv'  BY <1>2, <1>6 DEF KeyInv
<1> QED  BY <1>5, <1>7

\* A goroutine of the initiator begins an exchange: nothing is under way.
LEMMA InitiateStep ==
  ASSUME Typed, ThreadInv, KindInv, TokenInv, EpochInv, ExchangeInv, KeyInv,
         Typed', ThreadInv', KindInv',
         NEW e \in Ends, NEW g \in RekeyThreads, InitiateRekey(e, g)
  PROVE  TokenInv' /\ EpochInv' /\ ExchangeInv' /\ KeyInv'
<1> DEFINE p == [kind |-> "request", epoch |-> epoch["lo"] + 1,
                 share |-> <<"lo", generated'["lo"]>>]
<1>1. e = "lo"  BY Roles
<1>2. /\ open["lo"] /\ waiter["lo"] = "none" /\ pc["lo"][g] = "start"
      /\ pc' = [pc EXCEPT !["lo"][g] = "encrypt"] /\ body' = [body EXCEPT !["lo"][g] = <<p>>]
      /\ waiter' = [waiter EXCEPT !["lo"] = g] /\ answer' = [answer EXCEPT !["lo"] = <<>>]
      /\ UNCHANGED <<open, keyVars, agreed, wire, inbound>>
  BY <1>1 DEF InitiateRekey, StartSend, readVars
<1> HIDE DEF p
<1>3. /\ pc'["lo"][g] = "encrypt" /\ body'["lo"][g] = <<p>> /\ answer'["lo"] = <<>>
      /\ pc'["hi"]["loop"] = pc["hi"]["loop"] /\ waiter'["lo"] = g
  BY <1>2, Before
<1>4. ~ Awaits /\ \A h \in RekeyThreads : pc["lo"][h] \notin Registered
  BY <1>2, Before DEF Awaits, ThreadInv
<1>5. \A r \in Places : ~ At(r)
  <2>1. ~ At("request")  BY <1>4 DEF At, Sending, Registered
  <2> QED  BY <1>2, <1>4, <2>1 DEF TokenInv
<1>6. ~ Answered  BY <1>2, <1>4 DEF EpochInv
<1>7. ASSUME NEW r \in Places, At(r)'  PROVE r = "request"
  <2>1. r # "answer"  BY <1>3, <1>7 DEF At
  <2>2. r # "response"  BY <1>3, <1>5, <1>7 DEF At, Places
  <2>3. r \notin {"requestOnWire", "requestInbound", "responseOnWire", "responseInbound"}
    BY <1>2, <1>5, <1>7 DEF At, Places
  <2> QED  BY <2>1, <2>2, <2>3 DEF Places
<1>8. BodiesNext'
  <2>1. epoch'["lo"] = epoch["lo"]  BY <1>2 DEF keyVars
  <2>2. Head(body'["lo"][g]).epoch = epoch["lo"] + 1
    <3>1. Head(<<p>>) = p  OBVIOUS
    <3>2. p.epoch = epoch["lo"] + 1  BY DEF p
    <3> QED  BY <1>3, <3>1, <3>2
  <2>3. \A h \in RekeyThreads \ {g} : pc'["lo"][h] \notin Registered
    BY <1>3 DEF ThreadInv
  <2> QED  BY <2>1, <2>2, <2>3 DEF BodiesNext, Registered
<1>9. "request" \in Places /\ GoodAt("request")'  BY DEF Places, GoodAt
<1>10. \A d \in Ends :
          OneOf(wire'[d], TokenFrames(Other(d))) /\ OneOf(inbound'[d], Tokens(Other(d)))
  BY <1>2 DEF TokenInv
<1>11. TokenInv' /\ ExchangeInv'  BY <1>3, <1>7, <1>8, <1>9, <1>10, OnlyPlace
<1>12. EpochInv' /\ KeyInv'
  <2>1. \A r \in {"responseOnWire", "responseInbound", "answer", "response"} :
          r \in Places /\ ~ At(r)'
    BY <1>7 DEF Places
  <2> QED  BY <1>2, <1>3, <1>6, <2>1, SameEpochs
<1> QED  BY <1>11, <1>12

\* The request leaves.
LEMMA RequestStep ==
  ASSUME Typed, ThreadInv, KindInv, TokenInv, EpochInv, ExchangeInv, KeyInv,
         Typed', ThreadInv', KindInv',
         NEW e \in Ends, NEW g \in RekeyThreads, WriteRequest(e, g)
  PROVE  TokenInv' /\ EpochInv' /\ ExchangeInv' /\ KeyInv'
<1>1. pc[e][g] = "write" /\ e = "lo" /\ waiter["lo"] = g
  BY Roles DEF WriteRequest, WriteFrame
<1>2. /\ pc' = [pc EXCEPT !["lo"][g] = "wait"]
      /\ UNCHANGED <<open, keyVars, waiter, answer, body, agreed, inbound>>
      /\ WriteFrame("lo", g)
  BY <1>1 DEF WriteRequest, EndSend
<1>3. /\ pc'["lo"][g] = "wait" /\ pc'["hi"]["loop"] = pc["hi"]["loop"]
      /\ \A h \in RekeyThreads : h # g => pc'["lo"][h] = pc["lo"][h]
  BY <1>2, Before
<1>4. At("request") /\ "request" \in Places /\ "requestOnWire" \in Places
  BY <1>1 DEF At, Sending, Places
<1>5. ~ At("requestOnWire") /\ ~ Answered  BY <1>4 DEF TokenInv, EpochInv
<1>6. /\ \A d \in Ends :
           OneOf(wire'[d], TokenFrames(Other(d))) /\ OneOf(inbound'[d], Tokens(Other(d)))
      /\ wire'["lo"] = wire["lo"]
      /\ \A i \in 1..Len(wire'["hi"]) :
           \/ i \in 1..Len(wire["hi"]) /\ wire'["hi"][i] = wire["hi"][i]
           \/ wire'["hi"][i].body = Head(body["lo"][g])
  <2>1. ~ Carries(wire[Other("lo")], TokenFrames("lo"))  BY <1>5, Before DEF At
  <2>2. "lo" \in Ends /\ g \in Threads /\ g # "text" /\ Other("lo") = "hi"  BY Before
  <2>3. WriteFrame("lo", g) /\ inbound' = inbound  BY <1>2
  <2> QED  BY <2>1, <2>2, <2>3, WrittenFrame
<1>7. Awaits' /\ Mine' = Head(body["lo"][g])
  BY <1>1, <1>2, <1>3, Before DEF Awaits, Mine
<1>8. \A h \in RekeyThreads : pc'["lo"][h] \notin Sending
  <2>1. \A h \in RekeyThreads : pc'["lo"][h] \in Registered => h = g
    BY <1>1, <1>2 DEF ThreadInv
  <2> QED  BY <1>3, <2>1 DEF Registered, Sending
<1>9. \A r \in Places : At(r)' => r = "requestOnWire"
  <2>1. ~ At("request")'  BY <1>8 DEF At
  <2>2. answer'["lo"] = <<>>  BY <1>2, <1>4 DEF TokenInv
  <2> QED  BY <1>2, <1>3, <1>4, <1>6, <1>8, <2>1, <2>2, PlacesFlow
<1>10. epoch'["lo"] = epoch["lo"] /\ epoch'["hi"] = epoch["hi"]  BY <1>2 DEF keyVars
<1>11. BodiesNext'
  BY <1>1, <1>2, <1>3, <1>10 DEF BodiesNext, ExchangeInv
<1>12. GoodAt("requestOnWire")'
  <2> SUFFICES ASSUME NEW i \in 1..Len(wire'["hi"])  PROVE RequestOK(wire["hi"][i].body)'
    BY DEF GoodAt
  <2>1. CASE i \in 1..Len(wire["hi"]) /\ wire'["hi"][i] = wire["hi"][i]
    <3>1. wire["hi"][i] \in Frame  BY <2>1, Before
    <3>2. wire["hi"][i] \notin TokenFrames("lo")  BY <1>5, <2>1 DEF At, Carries
    <3> QED  BY <2>1, <3>1, <3>2 DEF TokenFrames, Kind, RequestOK
  <2>2. CASE wire'["hi"][i].body = Head(body["lo"][g])
    <3>1. Head(body["lo"][g]).epoch = epoch["lo"] + 1  BY <1>1 DEF ExchangeInv
    <3> QED  BY <1>7, <1>10, <2>2, <3>1 DEF RequestOK
  <2> QED  BY <1>6, <2>1, <2>2
<1>13. TokenInv' /\ ExchangeInv'
  BY <1>4, <1>6, <1>7, <1>9, <1>11, <1>12, OnlyPlace
<1>14. EpochInv' /\ KeyInv'
  <2>1. \A r \in {"responseOnWire", "responseInbound", "answer", "response"} :
          r \in Places /\ ~ At(r)'
    BY <1>9 DEF Places
  <2> QED  BY <1>2, <1>3, <1>5, <2>1, SameEpochs
<1> QED  BY <1>13, <1>14

\* The other end answers the request.
LEMMA AnswerStep ==
  ASSUME Typed, ThreadInv, KindInv, TokenInv, EpochInv, ExchangeInv, KeyInv,
         Typed', ThreadInv', KindInv', NEW e \in Ends, HandleRekeyRequest(e)
  PROVE  TokenInv' /\ EpochInv' /\ ExchangeInv' /\ KeyInv'
<1> DEFINE r == Head(inbound["hi"])
           own == <<"hi", generated'["hi"]>>
           k == DerivedKey(r.epoch, own, r.share)
           p == [kind |-> "response", epoch |-> r.epoch, share |-> own]
<1>1. e = "hi"  BY Roles
<1>2. /\ NextPayload("hi", "request") /\ pc["hi"]["loop"] = "idle"
      /\ pc' = [pc EXCEPT !["hi"]["loop"] = "encrypt"]
      /\ body' = [body EXCEPT !["hi"]["loop"] = <<p>>]
      /\ agreed' = [agreed EXCEPT !["hi"] = <<k>>]
      /\ UNCHANGED <<open, keyVars, waiter, answer>>
  BY <1>1 DEF HandleRekeyRequest, NextPayload, StartSend, rekeyVars
<1>3. /\ NoNewToken /\ wire' = wire /\ inbound'["lo"] = inbound["lo"]
      /\ r \in Payload /\ r.kind = "request" /\ r = inbound["hi"][1] /\ 1 \in 1..Len(inbound["hi"])
      /\ Carries(inbound["hi"], Tokens("lo")) /\ ~ Carries(inbound'["hi"], Tokens("lo"))
  <2>1. Kind(Other("hi")) = "request"  BY Before DEF Kind
  <2> QED  BY <1>2, <2>1, Before, TakenPayload
<1>4. r.epoch = epoch["lo"] + 1 /\ (Awaits => r = Mine)
  <2>1. RequestOK(r)  BY <1>3 DEF ExchangeInv
  <2> QED  BY <1>3, <2>1 DEF RequestOK
<1>5. /\ pc'["hi"]["loop"] = "encrypt" /\ body'["hi"]["loop"] = <<p>> /\ agreed'["hi"] = <<k>>
      /\ \A g \in RekeyThreads : pc'["lo"][g] = pc["lo"][g] /\ body'["lo"][g] = body["lo"][g]
  BY <1>2, Before
<1>6. Head(body'["hi"]["loop"]) = p /\ Head(agreed'["hi"]) = k
  <2>1. Head(<<p>>) = p /\ Head(<<k>>) = k  OBVIOUS
  <2> QED  BY <1>5, <2>1
<1>7. p.kind = "response" /\ p.epoch = r.epoch /\ p.share = own
  OBVIOUS
<1>8. k.epoch = r.epoch /\ k = DerivedKey(r.epoch, r.share, own)  BY DEF DerivedKey
<1> HIDE DEF k, p, r, own
<1>9. At("requestInbound") /\ "requestInbound" \in Places /\ "response" \in Places
  BY <1>3 DEF At, Places
<1>10. ~ Answered /\ (Awaits \/ ~ open["lo"])  BY <1>9 DEF EpochInv, TokenInv
<1>11. epoch["hi"] = epoch["lo"]  BY <1>2, <1>10, Before DEF Answered, EpochInv
<1>12. UNCHANGED <<epoch, key, prev>>  BY <1>2 DEF keyVars
<1>13. (Awaits' <=> Awaits) /\ (Awaits => Mine' = Mine)  BY <1>2, <1>5, Before DEF Awaits, Mine
<1>14. \A q \in Places : At(q)' => q = "response"
  <2>1. ~ At("requestInbound")'  BY <1>3 DEF At
  <2> QED  BY <1>2, <1>3, <1>5, <1>9, <1>13, <2>1, PlacesFlow
<1>15. BodiesNext'  BY <1>5, <1>12 DEF BodiesNext, ExchangeInv
<1>16. GoodAt("response")'
  <2>1. Target' = k  BY <1>6, <1>11, <1>12, Before DEF Target
  <2>2. ResponseOK(Head(body["hi"]["loop"]))'
    BY <1>4, <1>6, <1>7, <1>8, <1>12, <1>13, <2>1 DEF ResponseOK
  <2> QED  BY <2>2 DEF GoodAt
<1>17. TokenInv' /\ ExchangeInv'
  <2>1. (Awaits \/ ~ open["lo"])'  BY <1>2, <1>10, <1>13
  <2> QED  BY <1>3, <1>9, <1>14, <1>15, <1>16, <2>1, OnlyPlace DEF NoNewToken
<1>18. EpochInv'
  <2>1. ~ Answered'  BY <1>5, <1>11, <1>12, Before DEF Answered
  <2>2. \A q \in {"responseOnWire", "responseInbound", "answer"} : ~ At(q)'
    BY <1>14 DEF Places
  <2>3. Head(agreed'["hi"]).epoch = epoch'["hi"] + 1 /\ epoch'["hi"] <= epoch'["lo"]
    BY <1>4, <1>6, <1>8, <1>11, <1>12, Before
  <2> QED  BY <1>11, <1>12, <2>1, <2>2, <2>3 DEF EpochInv
<1>19. KeyInv'  BY <1>11, <1>12, Before DEF KeyInv
<1> QED  BY <1>17, <1>18, <1>19

\* The response leaves.
LEMMA ResponseStep ==
  ASSUME Typed, ThreadInv, KindInv, TokenInv, EpochInv, ExchangeInv, KeyInv,
         Typed', ThreadInv', KindInv', NEW e \in Ends, WriteResponse(e)
  PROVE  TokenInv' /\ EpochInv' /\ ExchangeInv' /\ KeyInv'
<1>1. pc[e]["loop"] = "write" /\ e = "hi"  BY Roles DEF WriteResponse, WriteFrame
<1>2. /\ pc' = [pc EXCEPT !["hi"]["loop"] = "rotate"]
      /\ body' = [body EXCEPT !["hi"]["loop"] = <<>>]
      /\ UNCHANGED <<open, keyVars, waiter, answer, agreed, inbound>>
      /\ WriteFrame("hi", "loop")
  BY <1>1 DEF WriteResponse, EndSend
<1>3. /\ pc'["hi"]["loop"] = "rotate"
      /\ \A g \in RekeyThreads : pc'["lo"][g] = pc["lo"][g] /\ body'["lo"][g] = body["lo"][g]
  BY <1>2, Before
<1>4. At("response") /\ "response" \in Places /\ "responseOnWire" \in Places
  BY <1>1 DEF At, Sending, Places
<1>5. ~ At("responseOnWire") /\ epoch["hi"] = epoch["lo"] /\ (Awaits \/ ~ open["lo"])
  BY <1>4 DEF TokenInv, EpochInv
<1>6. /\ \A d \in Ends :
           OneOf(wire'[d], TokenFrames(Other(d))) /\ OneOf(inbound'[d], Tokens(Other(d)))
      /\ wire'["hi"] = wire["hi"]
      /\ \A i \in 1..Len(wire'["lo"]) :
           \/ i \in 1..Len(wire["lo"]) /\ wire'["lo"][i] = wire["lo"][i]
           \/ wire'["lo"][i].body = Head(body["hi"]["loop"])
  <2>1. ~ Carries(wire[Other("hi")], TokenFrames("hi"))  BY <1>5, Before DEF At
  <2>2. "hi" \in Ends /\ "loop" \in Threads /\ "loop" # "text" /\ Other("hi") = "lo"  BY Before
  <2>3. WriteFrame("hi", "loop") /\ inbound' = inbound  BY <1>2
  <2> QED  BY <2>1, <2>2, <2>3, WrittenFrame
<1>7. (Awaits' <=> Awaits) /\ (Awaits => Mine' = Mine)  BY <1>2, <1>3, Before DEF Awaits, Mine
<1>8. UNCHANGED <<epoch, key, prev>>  BY <1>2 DEF keyVars
<1>9. \A q \in Places : At(q)' => q = "responseOnWire"
  <2>1. ~ At("response")'  BY <1>3 DEF At, Sending
  <2> QED  BY <1>2, <1>3, <1>4, <1>6, <1>7, <2>1, PlacesFlow DEF Sending
<1>10. BodiesNext'  BY <1>3, <1>8 DEF BodiesNext, ExchangeInv
<1>11. GoodAt("responseOnWire")'
  <2> SUFFICES ASSUME NEW i \in 1..Len(wire'["lo"])  PROVE ResponseOK(wire["lo"][i].body)'
    BY DEF GoodAt
  <2>1. CASE i \in 1..Len(wire["lo"]) /\ wire'["lo"][i] = wire["lo"][i]
    <3>1. wire["lo"][i] \in Frame  BY <2>1, Before
    <3>2. wire["lo"][i] \notin TokenFrames("hi")  BY <1>5, <2>1 DEF At, Carries
    <3> QED  BY <2>1, <3>1, <3>2 DEF TokenFrames, Kind, ResponseOK
  <2>2. CASE wire'["lo"][i].body = Head(body["hi"]["loop"])
    <3>1. ResponseOK(Head(body["hi"]["loop"]))  BY <1>1 DEF ExchangeInv, Sending
    <3>2. Target' = Target  BY <1>2, <1>8 DEF Target
    <3> QED  BY <1>7, <1>8, <2>2, <3>1, <3>2 DEF ResponseOK
  <2> QED  BY <1>6, <2>1, <2>2
<1>12. TokenInv' /\ ExchangeInv'
  <2>1. (Awaits \/ ~ open["lo"])'  BY <1>2, <1>5, <1>7
  <2> QED  BY <1>4, <1>6, <1>9, <1>10, <1>11, <2>1, OnlyPlace
<1>13. EpochInv'
  <2>1. Answered'  BY <1>3, <1>5, <1>8 DEF Answered
  <2>2. (Awaits \/ ~ open["lo"])'  BY <1>2, <1>5, <1>7
  <2>3. \A q \in {"request", "requestOnWire", "requestInbound", "response"} : ~ At(q)'
    BY <1>9 DEF Places
  <2>4. Head(agreed'["hi"]).epoch = epoch'["hi"] + 1 /\ epoch'["hi"] <= epoch'["lo"]
    BY <1>1, <1>2, <1>8 DEF EpochInv
  <2> QED  BY <1>5, <1>8, <2>1, <2>2, <2>3, <2>4 DEF EpochInv
<1>14. KeyInv'  BY <1>2, <1>8 DEF KeyInv
<1> QED  BY <1>12, <1>13, <1>14

\* A message of the exchange is read from the connection.
LEMMA ArriveStep ==
  ASSUME Typed, ThreadInv, KindInv, TokenInv, EpochInv, ExchangeInv, KeyInv,
         Typed', ThreadInv', KindInv',
         NEW e \in Ends, ReadPayload(e), Arrived(e).body.kind # "text"
  PROVE  TokenInv' /\ EpochInv' /\ ExchangeInv' /\ KeyInv'
<1> DEFINE o == Other(e)
           f == Arrived(e)
<1>1. /\ wire[e] # <<>> /\ wire' = [wire EXCEPT ![e] = Tail(@)]
      /\ inbound' = [inbound EXCEPT ![e] = Append(@, f.body)]
      /\ UNCHANGED <<open, keyVars, waiter, answer, pc, body, agreed>>
  BY DEF ReadPayload, rekeyVars, sendVars
<1>2. f \in Frame /\ f = wire[e][1] /\ 1 \in 1..Len(wire[e]) /\ f.body \in Payload
  BY <1>1, FirstFrame DEF Frame
<1>3. f \in TokenFrames(o) /\ f.body \in Tokens(o)
  BY <1>2 DEF KindInv, TokenFrames, Tokens
<1>4. o \in Ends /\ o # e /\ Other(o) = e /\ \A d \in Ends : d = e \/ d = o
  BY TwoEnds DEF Ends, Other
<1>5. f = Head(wire[e])  BY DEF Arrived
<1> HIDE DEF o, f
<1>6. /\ wire[e] \in Seq(Frame) /\ inbound[e] \in Seq(Payload)
      /\ wire'[e] = Tail(wire[e]) /\ wire'[o] = wire[o]
      /\ inbound'[e] = Append(inbound[e], f.body) /\ inbound'[o] = inbound[o]
  BY <1>1, <1>4, Before
<1>7. TokenFrames(o) \in SUBSET Frame /\ Tokens(o) \in SUBSET Payload
  BY DEF TokenFrames, Tokens
<1>8. /\ OneOf(wire'[e], TokenFrames(o))
      /\ Carries(wire[e], TokenFrames(o)) /\ ~ Carries(wire'[e], TokenFrames(o))
  <2>1. OneOf(wire[e], TokenFrames(o))  BY DEF TokenInv, o
  <2> QED  BY <1>1, <1>3, <1>5, <1>6, <1>7, <2>1, Channel
\* From the wire to the channel, at either end.
<1> DEFINE p == IF e = "hi" THEN "requestOnWire" ELSE "responseOnWire"
           q == IF e = "hi" THEN "requestInbound" ELSE "responseInbound"
<1>9. (e = "hi" /\ o = "lo") \/ (e = "lo" /\ o = "hi")  BY DEF o, Ends, Other
<1>10. p \in Places /\ q \in Places /\ At(p) /\ ~ At(p)'
  BY <1>8, <1>9 DEF At, Places
<1>11. ~ At(q)
  <2>1. p # q  OBVIOUS
  <2> QED  BY <1>10, <2>1 DEF TokenInv
<1>12. ~ Carries(inbound[e], Tokens(o))  BY <1>9, <1>11 DEF At
<1>13. OneOf(inbound'[e], Tokens(o))
  <2>1. OneOf(inbound[e], Tokens(o))  BY DEF TokenInv, o
  <2> QED  BY <1>2, <1>6, <1>7, <1>12, <2>1, Channel
<1>14. \A d \in Ends :
          OneOf(wire'[d], TokenFrames(Other(d))) /\ OneOf(inbound'[d], Tokens(Other(d)))
  <2>1. OneOf(wire[o], TokenFrames(e)) /\ OneOf(inbound[o], Tokens(e))  BY <1>4 DEF TokenInv
  <2>2. Other(e) = o  BY DEF o
  <2> QED  BY <1>4, <1>6, <1>8, <1>13, <2>1, <2>2
<1>15. (Awaits' <=> Awaits) /\ Mine' = Mine  BY <1>1 DEF Awaits, Mine
<1>16. \A r \in Places : At(r)' => r = q
  BY <1>1, <1>6, <1>8, <1>9, <1>10, <1>15, PlacesFlow
<1>17. UNCHANGED <<epoch, key, prev>>  BY <1>1 DEF keyVars
<1>18. BodiesNext'  BY <1>1, <1>17 DEF BodiesNext, ExchangeInv
<1>19. Target' = Target  BY <1>1, <1>17 DEF Target
<1>20. GoodAt(q)'
  <2>1. ASSUME NEW i \in 1..Len(inbound'[e])
        PROVE  \/ i \in 1..Len(inbound[e]) /\ inbound'[e][i] = inbound[e][i]
               \/ inbound'[e][i] = f.body
    BY <1>2, <1>6
  <2>2. CASE e = "hi"
    <3>1. RequestOK(f.body)  BY <1>2, <2>2 DEF ExchangeInv
    <3>2. \A i \in 1..Len(inbound["hi"]) : RequestOK(inbound["hi"][i])  BY DEF ExchangeInv
    <3>3. ASSUME NEW i \in 1..Len(inbound'["hi"])  PROVE RequestOK(inbound["hi"][i])'
      BY <1>15, <1>17, <2>1, <2>2, <3>1, <3>2 DEF RequestOK
    <3> QED  BY <2>2, <3>3 DEF GoodAt
  <2>3. CASE e = "lo"
    <3>1. ResponseOK(f.body)  BY <1>2, <2>3 DEF ExchangeInv
    <3>2. \A i \in 1..Len(inbound["lo"]) : ResponseOK(inbound["lo"][i])  BY DEF ExchangeInv
    <3>3. ASSUME NEW i \in 1..Len(inbound'["lo"])  PROVE ResponseOK(inbound["lo"][i])'
      BY <1>15, <1>17, <1>19, <2>1, <2>3, <3>1, <3>2 DEF ResponseOK
    <3> QED  BY <2>3, <3>3 DEF GoodAt
  <2> QED  BY <1>9, <2>2, <2>3
<1>21. TokenInv' /\ ExchangeInv'
  <2>1. (Awaits \/ ~ open["lo"])'
    <3>1. p # "request"  OBVIOUS
    <3>2. Awaits \/ ~ open["lo"]  BY <1>10, <3>1 DEF TokenInv
    <3> QED  BY <1>1, <1>15, <3>2
  <2>2. q # "request"  OBVIOUS
  <2> QED  BY <1>10, <1>14, <1>16, <1>18, <1>20, <2>1, <2>2, OnlyPlace
<1>22. EpochInv' /\ KeyInv'
  <2>1. \A r \in {"request", "requestOnWire", "requestInbound", "response"} :
          At(r)' => ~ Answered
    <3>1. ASSUME At("requestInbound")'  PROVE ~ Answered
      <4>1. q = "requestInbound"  BY <1>16, <3>1 DEF Places
      <4>2. p = "requestOnWire"  BY <4>1
      <4> QED  BY <1>10, <4>2 DEF EpochInv
    <3> QED  BY <1>16, <3>1 DEF Places
  <2>2. \A r \in {"responseOnWire", "responseInbound", "answer"} : At(r)' => Answered
    <3>1. ASSUME At("responseInbound")'  PROVE Answered
      <4>1. q = "responseInbound"  BY <1>16, <3>1 DEF Places
      <4>2. p = "responseOnWire"  BY <4>1
      <4> QED  BY <1>10, <4>2 DEF EpochInv
    <3> QED  BY <1>16, <3>1 DEF Places
  <2>3. ~ At("response")'  BY <1>16 DEF Places
  <2>4. Answered => (Awaits \/ ~ open["lo"])'  BY <1>1, <1>15 DEF EpochInv
  <2> QED  BY <1>1, <2>1, <2>2, <2>3, <2>4, SameEpochs
<1> QED  BY <1>21, <1>22

\* The response is passed to the goroutine that waits.
LEMMA DeliverStep ==
  ASSUME Typed, ThreadInv, KindInv, TokenInv, EpochInv, ExchangeInv, KeyInv,
         Typed', ThreadInv', KindInv',
         NEW e \in Ends, HandleRekeyResponse(e), answer' # answer
  PROVE  TokenInv' /\ EpochInv' /\ ExchangeInv' /\ KeyInv'
<1> DEFINE r == Head(inbound["lo"])
<1>1. e = "lo"  BY Roles
<1>2. /\ NextPayload("lo", "response") /\ answer' = [answer EXCEPT !["lo"] = <<r>>]
      /\ UNCHANGED <<open, keyVars, waiter, pc, body, agreed>>
  BY <1>1 DEF HandleRekeyResponse, sendVars
<1>3. /\ NoNewToken /\ wire' = wire /\ inbound'["hi"] = inbound["hi"]
      /\ r = inbound["lo"][1] /\ 1 \in 1..Len(inbound["lo"])
      /\ Carries(inbound["lo"], Tokens("hi")) /\ ~ Carries(inbound'["lo"], Tokens("hi"))
  <2>1. Kind(Other("lo")) = "response"  BY Before DEF Kind
  <2> QED  BY <1>2, <2>1, Before, TakenPayload
<1> HIDE DEF r
<1>4. At("responseInbound") /\ "responseInbound" \in Places /\ "answer" \in Places
  BY <1>3 DEF At, Places
<1>5. Answered /\ (Awaits \/ ~ open["lo"])  BY <1>4 DEF EpochInv, TokenInv
<1>6. (Awaits' <=> Awaits) /\ Mine' = Mine  BY <1>2 DEF Awaits, Mine
<1>7. UNCHANGED <<epoch, key, prev>>  BY <1>2 DEF keyVars
<1>8. \A q \in Places : At(q)' => q = "answer"
  <2>1. ~ At("responseInbound")'  BY <1>3 DEF At
  <2> QED  BY <1>2, <1>3, <1>4, <2>1, PlacesFlow
<1>9. BodiesNext'  BY <1>2, <1>7 DEF BodiesNext, ExchangeInv
<1>10. GoodAt("answer")'
  <2>1. ResponseOK(r)  BY <1>3 DEF ExchangeInv
  <2>2. Target' = Target  BY <1>2, <1>7 DEF Target
  <2>3. answer'["lo"] = <<r>>  BY <1>2, Before
  <2>4. \A i \in 1..Len(answer'["lo"]) : answer'["lo"][i] = r  BY <2>3
  <2>5. ASSUME NEW i \in 1..Len(answer'["lo"])  PROVE ResponseOK(answer["lo"][i])'
    BY <1>6, <1>7, <2>1, <2>2, <2>4 DEF ResponseOK
  <2> QED  BY <2>5 DEF GoodAt
<1>11. TokenInv' /\ ExchangeInv'
  <2>1. (Awaits \/ ~ open["lo"])'  BY <1>2, <1>5, <1>6
  <2> QED  BY <1>3, <1>4, <1>8, <1>9, <1>10, <2>1, OnlyPlace DEF NoNewToken
<1>12. EpochInv' /\ KeyInv'
  <2>1. \A q \in {"request", "requestOnWire", "requestInbound", "response"} : ~ At(q)'
    BY <1>8 DEF Places
  <2>2. (Awaits \/ ~ open["lo"])'  BY <1>2, <1>5, <1>6
  <2> QED  BY <1>2, <1>5, <2>1, <2>2, SameEpochs
<1> QED  BY <1>11, <1>12

-----------------------------------------------------------------------------
(* Rotations. *)

\* What one end's rotation does to the frames.
LEMMA RotationFrames ==
  ASSUME Typed, KeyInv, FrameInv, Flow, wire' = wire,
         NEW e \in Ends, NEW k \in Key, RotateSessionKey(e, k, epoch[e] + 1),
         \A d \in Ends, t \in Threads : pc'[d][t] = "write" => pc[d][t] = "write",
         epoch[Other(e)] <= epoch[e] + 1,
         epoch[Other(e)] = epoch[e] + 1 => key[Other(e)] = k
  PROVE  FrameInv'
<1> DEFINE o == Other(e)
<1>1. o \in Ends /\ o # e /\ Other(o) = e /\ \A d \in Ends : d = e \/ d = o
  BY TwoEnds DEF Ends, Other
<1>2. /\ epoch'[e] = epoch[e] + 1 /\ key'[e] = k /\ prev'[e] = <<key[e]>>
      /\ epoch'[o] = epoch[o] /\ key'[o] = key[o] /\ prev'[o] = prev[o]
      /\ epoch[e] \in Nat /\ epoch[o] \in Nat
  BY <1>1 DEF RotateSessionKey, Typed, KeysOK
<1>3. epoch[o] <= epoch[e] + 1 /\ (epoch[o] = epoch[e] + 1 => key[o] = k)  OBVIOUS
<1>4. Other(e) = o  OBVIOUS
<1> HIDE DEF o
<1>5. ASSUME NEW f, f.epoch \in Nat, FrameOK(f, e, o)
      PROVE  /\ f.epoch <= epoch'[e]
             /\ f.epoch = epoch'[e] => f.key = key'[e]
             /\ f.epoch + 1 = epoch'[e] => prev'[e] = <<f.key>>
             /\ f.epoch = epoch'[o] => f.key = key'[o]
             /\ f.epoch + 1 = epoch'[o] => prev'[o] = <<f.key>>
  <2>1. f.epoch # epoch[e] + 1 /\ f.epoch <= epoch[e] + 1  BY <1>2, <1>5 DEF FrameOK
  <2>2. f.epoch + 1 = epoch[e] + 1 => f.key = key[e]  BY <1>2, <1>5 DEF FrameOK
  <2> QED  BY <1>2, <1>5, <2>1, <2>2 DEF FrameOK
<1>6. ASSUME NEW f, f.epoch \in Nat, FrameOK(f, o, e)
      PROVE  /\ f.epoch <= epoch'[o]
             /\ f.epoch = epoch'[o] => f.key = key'[o]
             /\ f.epoch + 1 = epoch'[o] => prev'[o] = <<f.key>>
             /\ f.epoch = epoch'[e] => f.key = key'[e]
             /\ f.epoch + 1 = epoch'[e] => prev'[e] = <<f.key>>
  <2>1. f.epoch = epoch[e] + 1 => f.key = k
    <3>1. ASSUME f.epoch = epoch[e] + 1  PROVE epoch[o] = epoch[e] + 1 /\ f.epoch = epoch[o]
      BY <1>2, <1>3, <1>6, <3>1 DEF FrameOK
    <3> QED  BY <1>3, <1>6, <3>1 DEF FrameOK
  <2>2. f.epoch + 1 = epoch[e] + 1 => f.key = key[e]  BY <1>2, <1>6 DEF FrameOK
  <2> QED  BY <1>2, <1>6, <2>1, <2>2 DEF FrameOK
<1>7. ASSUME NEW d \in Ends, NEW f, f.epoch \in Nat, FrameOK(f, d, Other(d))
      PROVE  /\ f.epoch <= epoch'[d]
             /\ f.epoch = epoch'[d] => f.key = key'[d]
             /\ f.epoch + 1 = epoch'[d] => prev'[d] = <<f.key>>
             /\ f.epoch = epoch'[Other(d)] => f.key = key'[Other(d)]
             /\ f.epoch + 1 = epoch'[Other(d)] => prev'[Other(d)] = <<f.key>>
  <2>1. CASE d = e  BY <1>4, <1>5, <1>7, <2>1
  <2>2. CASE d = o  BY <1>1, <1>6, <1>7, <2>2
  <2> QED  BY <1>1, <2>1, <2>2
<1>8. ASSUME NEW d \in Ends, NEW i \in 1..Len(wire'[d])
      PROVE  FrameOK(wire[d][i], Other(d), d)'
  <2>1. i \in 1..Len(wire[d]) /\ wire[d] \in Seq(Frame)  BY <1>8 DEF Typed, ReadOK
  <2>2. wire[d][i].epoch \in Nat
    <3>1. wire[d][i] \in Frame  BY <2>1
    <3> QED  BY <3>1 DEF Frame
  <2>3. FrameOK(wire[d][i], Other(d), Other(Other(d)))  BY <2>1, TwoEnds DEF FrameInv
  <2> QED  BY <1>7, <2>2, <2>3, TwoEnds DEF FrameOK
<1>9. ASSUME NEW d \in Ends, NEW t \in Threads, pc'[d][t] = "write"
      PROVE  FrameOK(Head(sealed[d][t]), d, Other(d))'
  <2>1. pc[d][t] = "write"  BY <1>9
  <2>2. sealed'[d][t] = sealed[d][t]  BY <1>9, <2>1 DEF Flow, ThreadsFlow, ThreadFlow
  <2>3. Head(sealed[d][t]).epoch \in Nat  BY <2>1, InHand DEF Frame
  <2>4. FrameOK(Head(sealed[d][t]), d, Other(d))  BY <2>1 DEF FrameInv
  <2> QED  BY <1>7, <2>2, <2>3, <2>4 DEF FrameOK
<1> QED  BY <1>8, <1>9 DEF FrameInv

\* The initiator rotates: the exchange is over.
LEMMA RequesterRotates ==
  ASSUME Typed, ThreadInv, KindInv, TokenInv, EpochInv, ExchangeInv, KeyInv, FrameInv, Flow,
         Typed', ThreadInv', KindInv',
         NEW e \in Ends, NEW g \in RekeyThreads, RekeyRotates(e, g)
  PROVE  TokenInv' /\ EpochInv' /\ ExchangeInv' /\ KeyInv' /\ FrameInv'
<1> DEFINE r == Head(answer["lo"])
           k == DerivedKey(r.epoch, Mine.share, r.share)
<1>1. pc[e][g] = "wait" /\ e = "lo" /\ waiter["lo"] = g /\ Awaits
  BY Roles DEF RekeyRotates
<1>2. /\ answer["lo"] # <<>> /\ r.epoch = Mine.epoch
      /\ RotateSessionKey("lo", k, r.epoch)
      /\ pc' = [pc EXCEPT !["lo"][g] = "return"]
      /\ UNCHANGED <<open, waiter, answer, body, sealed, agreed, wire, inbound>>
  BY <1>1 DEF RekeyRotates, Received, Mine, readVars
<1>3. /\ pc'["lo"][g] = "return" /\ pc'["hi"]["loop"] = pc["hi"]["loop"]
      /\ \A h \in RekeyThreads : h # g => pc'["lo"][h] = pc["lo"][h]
      /\ \A d \in Ends, t \in Threads : pc'[d][t] = "write" => pc[d][t] = "write"
  BY <1>2, Before
<1>4. At("answer") /\ "answer" \in Places  BY <1>1, <1>2 DEF At, Places
<1>5. Answered  BY <1>4 DEF EpochInv
<1>6. r \in Payload /\ r = answer["lo"][1] /\ 1 \in 1..Len(answer["lo"])
  <2>1. answer["lo"] \in Optional(Payload)  BY Before
  <2>2. r \in Payload /\ answer["lo"] = <<r>>  BY <1>2, <2>1, OptionalCases
  <2> HIDE DEF r
  <2>3. <<r>>[1] = r /\ 1 \in 1..Len(<<r>>)  OBVIOUS
  <2> QED  BY <2>2, <2>3
<1>7. r.kind = "response"  BY <1>6 DEF KindInv
<1>8. r.epoch = epoch["lo"] + 1 /\ k = Target
  <2>1. ResponseOK(r)  BY <1>1, <1>6 DEF ExchangeInv
  <2> QED  BY <1>1, <1>7, <2>1 DEF ResponseOK
<1>9. k \in Key
  <2>1. Mine \in Payload /\ Mine.kind = "request"
    BY <1>1, InHand, Before DEF Mine, KindInv
  <2> QED  BY <1>6, <1>7, <2>1, ExchangeFields DEF Key, DerivedKey
<1> HIDE DEF k, r
<1>10. /\ epoch'["lo"] = epoch["lo"] + 1 /\ key'["lo"] = k /\ prev'["lo"] = <<key["lo"]>>
       /\ epoch'["hi"] = epoch["hi"] /\ key'["hi"] = key["hi"] /\ prev'["hi"] = prev["hi"]
  BY <1>2, <1>8, Before DEF RotateSessionKey
<1>11. ~ Awaits'  BY <1>1, <1>2, <1>3 DEF Awaits
<1>12. \A q \in Places : ~ At(q)'
  <2>1. ~ At("answer")'  BY <1>11 DEF At
  <2>2. \A h \in RekeyThreads : pc'["lo"][h] \in Sending => pc["lo"][h] \in Sending
    BY <1>3 DEF Sending
  <2>3. \A q \in Places : At(q)' => q = "answer"
    BY <1>2, <1>3, <1>4, <2>1, <2>2, PlacesFlow
  <2> QED  BY <2>1, <2>3
<1>13. BodiesNext'
  <2>1. \A h \in RekeyThreads : pc["lo"][h] \in Registered => h = g  BY <1>1 DEF ThreadInv
  <2> QED  BY <1>3, <2>1 DEF BodiesNext, Registered
<1>14. TokenInv' /\ ExchangeInv'
  <2>1. \A d \in Ends :
          OneOf(wire'[d], TokenFrames(Other(d))) /\ OneOf(inbound'[d], Tokens(Other(d)))
    BY <1>2 DEF TokenInv
  <2>2. GoodAt("answer")'  BY <1>11 DEF GoodAt
  <2> QED  BY <1>4, <1>12, <1>13, <2>1, <2>2, OnlyPlace
\* The other end has rotated, or is about to.
<1>15. CASE epoch["hi"] = epoch["lo"] + 1
  <2>1. pc["hi"]["loop"] = "idle"  BY <1>15, Before DEF EpochInv
  <2>2. ~ Answered'  BY <1>3, <1>10, <1>15, <2>1, Before DEF Answered
  <2>3. EpochInv'
    BY <1>3, <1>10, <1>12, <1>15, <2>1, <2>2 DEF EpochInv, Places
  <2>4. k = key["hi"]  BY <1>8, <1>15 DEF Target
  <2>5. KeyInv'  BY <1>10, <1>15, <2>4, Before DEF KeyInv
  <2>6. FrameInv'  BY <1>2, <1>3, <1>8, <1>9, <1>15, <2>4, Before, RotationFrames
  <2> QED  BY <1>14, <2>3, <2>5, <2>6
<1>16. CASE epoch["hi"] = epoch["lo"] /\ pc["hi"]["loop"] = "rotate"
  <2>1. ~ Answered'  BY <1>10, <1>16, Before DEF Answered
  <2>2. epoch'["lo"] = epoch'["hi"] + 1  BY <1>10, <1>16
  <2>3. Head(agreed'["hi"]).epoch = epoch'["hi"] + 1 /\ epoch'["hi"] <= epoch'["lo"]
    BY <1>2, <1>10, <1>16, Before DEF EpochInv
  <2>4. EpochInv'
    BY <1>3, <1>12, <1>16, <2>1, <2>2, <2>3 DEF EpochInv, Places
  <2>5. k = Head(agreed["hi"])  BY <1>8, <1>16, Before DEF Target
  <2>6. KeyInv'  BY <1>2, <1>10, <1>16, <2>5, Before DEF KeyInv
  <2>7. FrameInv'
    <3>1. /\ epoch[Other("lo")] <= epoch["lo"] + 1
          /\ epoch[Other("lo")] = epoch["lo"] + 1 => key[Other("lo")] = k
      BY <1>16, Before
    <3>2. RotateSessionKey("lo", k, epoch["lo"] + 1) /\ wire' = wire /\ "lo" \in Ends
      BY <1>2, <1>8, Before
    <3> QED  BY <1>3, <1>9, <3>1, <3>2, RotationFrames
  <2> QED  BY <1>14, <2>4, <2>6, <2>7
<1> QED  BY <1>5, <1>15, <1>16 DEF Answered

\* The other end rotates.
LEMMA AnswererRotates ==
  ASSUME Typed, ThreadInv, KindInv, TokenInv, EpochInv, ExchangeInv, KeyInv, FrameInv, Flow,
         Typed', ThreadInv', KindInv', NEW e \in Ends, LoopRotates(e)
  PROVE  TokenInv' /\ EpochInv' /\ ExchangeInv' /\ KeyInv' /\ FrameInv'
<1> DEFINE k == Head(agreed["hi"])
<1>1. pc[e]["loop"] = "rotate" /\ e = "hi"  BY Roles DEF LoopRotates
<1>2. /\ RotateSessionKey("hi", k, k.epoch) /\ pc' = [pc EXCEPT !["hi"]["loop"] = "idle"]
      /\ agreed' = [agreed EXCEPT !["hi"] = <<>>]
      /\ UNCHANGED <<open, waiter, answer, body, sealed, wire, inbound>>
  BY <1>1 DEF LoopRotates, readVars
<1>3. k \in Key /\ k.epoch = epoch["hi"] + 1 /\ epoch["hi"] <= epoch["lo"]
  <2>1. k \in Key  BY <1>1, InHand, Before
  <2> QED  BY <1>1, <2>1 DEF EpochInv
<1>4. /\ pc'["hi"]["loop"] = "idle"
      /\ \A g \in RekeyThreads : pc'["lo"][g] = pc["lo"][g]
      /\ \A d \in Ends, t \in Threads : pc'[d][t] = "write" => pc[d][t] = "write"
  BY <1>2, Before
<1>5. key["lo"] = k \/ epoch["lo"] = epoch["hi"]
  BY <1>3, Before DEF EpochInv, KeyInv
<1>6. epoch["lo"] = epoch["hi"] \/ epoch["lo"] = epoch["hi"] + 1  BY <1>3, Before DEF EpochInv
<1>7. Target = k  BY <1>3, Before DEF Target
<1>8. Answered <=> epoch["lo"] = epoch["hi"]  BY <1>1, <1>3, Before DEF Answered
<1>9. epoch["lo"] = epoch["hi"] + 1 => key["lo"] = k /\ prev["lo"] = <<key["hi"]>>
  BY DEF KeyInv
<1> HIDE DEF k
<1>10. /\ epoch'["hi"] = epoch["hi"] + 1 /\ key'["hi"] = k /\ prev'["hi"] = <<key["hi"]>>
       /\ epoch'["lo"] = epoch["lo"] /\ key'["lo"] = key["lo"] /\ prev'["lo"] = prev["lo"]
  BY <1>2, <1>3, Before DEF RotateSessionKey
<1>11. (Awaits' <=> Awaits) /\ (Awaits => Mine' = Mine)  BY <1>2, <1>4, Before DEF Awaits, Mine
<1>12. \A q \in Places : At(q)' => At(q)
  <2>1. ~ At("response")'  BY <1>4 DEF At, Sending
  <2> QED  BY <1>2, <1>4, <1>11, <2>1 DEF At, Places
<1>13. Answered' <=> Answered  BY <1>4, <1>6, <1>8, <1>10, Before DEF Answered
<1>14. TokenInv'
  <2>1. \A p, q \in Places : At(p)' /\ At(q)' => p = q  BY <1>12 DEF TokenInv
  <2>2. \A p \in Places \ {"request"} : At(p)' => (Awaits \/ ~ open["lo"])'
    BY <1>2, <1>11, <1>12 DEF TokenInv
  <2>3. At("request")' => answer'["lo"] = <<>>  BY <1>2, <1>12 DEF TokenInv, Places
  <2> QED  BY <1>2, <2>1, <2>2, <2>3 DEF TokenInv
<1>15. EpochInv'
  <2>1. /\ {"request", "requestOnWire", "requestInbound", "response"} \subseteq Places
        /\ {"responseOnWire", "responseInbound", "answer"} \subseteq Places
    BY DEF Places
  <2>2. epoch'["hi"] = epoch'["lo"] \/ epoch'["hi"] = epoch'["lo"] + 1  BY <1>6, <1>10
  <2>3. Answered' =>
          /\ (Awaits \/ ~ open["lo"])'
          /\ \A p \in {"request", "requestOnWire", "requestInbound", "response"} : ~ At(p)'
    BY <1>2, <1>11, <1>12, <1>13, <2>1 DEF EpochInv
  <2>4. \A p \in {"responseOnWire", "responseInbound", "answer"} : At(p)' => Answered'
    BY <1>12, <1>13, <2>1 DEF EpochInv
  <2>5. ~ At("response")'  BY <1>4 DEF At, Sending
  <2> QED  BY <1>4, <2>2, <2>3, <2>4, <2>5 DEF EpochInv
<1>16. Answered => Target' = k  BY <1>8, <1>10 DEF Target
<1>17. ASSUME NEW p, ResponseOK(p), Answered
       PROVE  p.kind = "response" =>
                /\ p.epoch = epoch'["lo"] + 1
                /\ Awaits' => DerivedKey(p.epoch, Mine'.share, p.share) = Target'
  BY <1>7, <1>10, <1>11, <1>16, <1>17 DEF ResponseOK
<1>18. ASSUME NEW p, RequestOK(p)
       PROVE  p.kind = "request" => p.epoch = epoch'["lo"] + 1 /\ (Awaits' => p = Mine')
  BY <1>10, <1>11, <1>18 DEF RequestOK
<1>19. ExchangeInv'
  <2>1. BodiesNext'  BY <1>2, <1>4, <1>10 DEF BodiesNext, ExchangeInv
  <2>2. (\A i \in 1..Len(wire["hi"]) : RequestOK(wire["hi"][i].body))'
    BY <1>2, <1>18 DEF ExchangeInv, RequestOK
  <2>3. (\A i \in 1..Len(inbound["hi"]) : RequestOK(inbound["hi"][i]))'
    BY <1>2, <1>18 DEF ExchangeInv, RequestOK
  <2>4. (\A i \in 1..Len(wire["lo"]) : ResponseOK(wire["lo"][i].body))'
    <3> SUFFICES ASSUME NEW i \in 1..Len(wire["lo"])  PROVE ResponseOK(wire["lo"][i].body)'
      BY <1>2
    <3>1. CASE Answered  BY <1>2, <1>17, <3>1 DEF ExchangeInv, ResponseOK
    <3>2. CASE ~ Answered
      <4>1. ~ At("responseOnWire")  BY <3>2 DEF EpochInv
      <4>2. wire["lo"][i] \in Frame /\ wire["lo"][i] \notin TokenFrames("hi")
        BY <4>1, Before DEF At, Carries
      <4> QED  BY <1>2, <4>2 DEF TokenFrames, Kind, ResponseOK
    <3> QED  BY <3>1, <3>2
  <2>5. (\A i \in 1..Len(inbound["lo"]) : ResponseOK(inbound["lo"][i]))'
    <3> SUFFICES ASSUME NEW i \in 1..Len(inbound["lo"])  PROVE ResponseOK(inbound["lo"][i])'
      BY <1>2
    <3>1. CASE Answered  BY <1>2, <1>17, <3>1 DEF ExchangeInv, ResponseOK
    <3>2. CASE ~ Answered
      <4>1. ~ At("responseInbound")  BY <3>2 DEF EpochInv
      <4>2. inbound["lo"][i] \in Payload /\ inbound["lo"][i] \notin Tokens("hi")
        BY <4>1, Before DEF At, Carries
      <4> QED  BY <1>2, <4>2 DEF Tokens, Kind, ResponseOK
    <3> QED  BY <3>1, <3>2
  <2>6. ASSUME Awaits', NEW i \in 1..Len(answer["lo"])  PROVE ResponseOK(answer["lo"][i])'
    <3>1. answer["lo"] # <<>>  BY <2>6
    <3>2. At("answer")  BY <1>11, <2>6, <3>1 DEF At
    <3>3. Answered  BY <3>2 DEF EpochInv
    <3> QED  BY <1>2, <1>11, <1>17, <2>6, <3>3 DEF ExchangeInv, ResponseOK
  <2>7. pc'["hi"]["loop"] \notin Sending  BY <1>4 DEF Sending
  <2> QED  BY <1>2, <2>1, <2>2, <2>3, <2>4, <2>5, <2>6, <2>7 DEF ExchangeInv, BodiesNext
<1>20. KeyInv'
  <2>1. CASE epoch["lo"] = epoch["hi"]  BY <1>10, <2>1, Before DEF KeyInv
  <2>2. CASE epoch["lo"] = epoch["hi"] + 1  BY <1>9, <1>10, <2>2, Before DEF KeyInv
  <2> QED  BY <1>6, <2>1, <2>2
<1>21. FrameInv'
  <2>1. /\ epoch[Other("hi")] <= epoch["hi"] + 1
        /\ epoch[Other("hi")] = epoch["hi"] + 1 => key[Other("hi")] = k
    BY <1>6, <1>9, Before
  <2>2. RotateSessionKey("hi", k, epoch["hi"] + 1) /\ wire' = wire /\ "hi" \in Ends
    BY <1>2, <1>3, Before
  <2> QED  BY <1>3, <1>4, <2>1, <2>2, RotationFrames
<1> QED  BY <1>14, <1>15, <1>19, <1>20, <1>21

-----------------------------------------------------------------------------
(* The theorems. *)

\* The initiator has a goroutine to spare for the next rekey.
LEMMA SpareStep ==
  ASSUME Typed', ThreadInv'
  PROVE  Spare'
<1> SUFFICES ASSUME ~ rekeying'["lo"], open'["lo"]
             PROVE  \E g \in RekeyThreads : pc'["lo"][g] = "idle"
  BY DEF Spare, Initiates
<1>1. ASSUME NEW g \in RekeyThreads
      PROVE  /\ pc'["lo"][g] \in {"idle", "return"}
             /\ pc'["lo"][g] = "return" => waiter'["lo"] = g
  <2>1. pc'["lo"][g] \in Steps  BY DEF Typed, SendOK, Threads, Ends
  <2>2. pc'["lo"][g] \notin Engaged /\ pc'["lo"][g] # "rotate"  BY DEF ThreadInv
  <2>3. pc'["lo"][g] \in Registered => waiter'["lo"] = g  BY DEF ThreadInv
  <2> QED  BY <2>1, <2>2, <2>3 DEF Steps, Engaged, Registered
<1>2. "rekey1" \in RekeyThreads /\ "rekey2" \in RekeyThreads  BY DEF RekeyThreads
<1> QED  BY <1>1, <1>2

\* A frame of an epoch the receiver holds is read.
LEMMA HeldStep ==
  ASSUME Typed, FrameInv, HeldEpochDecrypts, Next
  PROVE  HeldEpochDecrypts'
<1>1. ASSUME NEW e \in Ends, ReadMalformed(e)  PROVE HeldEpochDecrypts'
  <2> DEFINE f == Arrived(e)
  <2>1. /\ wire[e] # <<>> /\ ~ Decrypts(e)
        /\ wire' = [wire EXCEPT ![e] = Tail(@)] /\ inbound' = inbound
    BY <1>1 DEF ReadMalformed
  <2>2. f \in Frame /\ f = wire[e][1] /\ 1 \in 1..Len(wire[e])  BY <2>1, FirstFrame
  <2>3. FrameOK(f, Other(e), e)  BY <2>2 DEF FrameInv
  <2>4. KeyFor(e, f.epoch) # <<f.key>>  BY <2>1 DEF Decrypts
  <2> HIDE DEF f
  <2>5. KeyFor(e, f.epoch) = <<>>
    <3>1. CASE f.epoch = epoch[e]  BY <2>3, <2>4, <3>1 DEF FrameOK, KeyFor
    <3>2. CASE f.epoch # epoch[e] /\ prev[e] # <<>> /\ f.epoch + 1 = epoch[e]
      BY <2>3, <2>4, <3>2 DEF FrameOK, KeyFor
    <3>3. CASE f.epoch # epoch[e] /\ ~ (prev[e] # <<>> /\ f.epoch + 1 = epoch[e])
      BY <3>3 DEF KeyFor
    <3> QED  BY <3>1, <3>2, <3>3
  <2>6. discarded' = discarded \cup {"epoch"}  BY <1>1, <2>5 DEF ReadMalformed, f
  <2> QED  BY <2>6 DEF HeldEpochDecrypts
<1>2. ASSUME NEW e \in Ends, HandleText(e)  PROVE HeldEpochDecrypts'
  BY <1>2 DEF HandleText, HeldEpochDecrypts
<1>3. ASSUME discarded' = discarded  PROVE HeldEpochDecrypts'
  BY <1>3 DEF HeldEpochDecrypts
<1>4. ASSUME NEW e \in Ends, SendText(e) \/ RekeyDue(e) \/ Disconnect(e) \/ TriggerStep(e)
      PROVE  HeldEpochDecrypts'
  BY <1>3, <1>4 DEF SendText, RekeyDue, Disconnect, TriggerStep, KeepAliveChecks, TriggerRekey,
     readVars
<1>5. ASSUME NEW e \in Ends, NEW t \in Threads, EncryptPayload(e, t)  PROVE HeldEpochDecrypts'
  BY <1>3, <1>5 DEF EncryptPayload, readVars
<1>6. ASSUME NEW e \in Ends, TextStep(e)  PROVE HeldEpochDecrypts'
  BY <1>3, <1>5, <1>6 DEF TextStep, WriteText, TextFails, readVars, Threads
<1>7. ASSUME NEW e \in Ends, LoopStep(e)  PROVE HeldEpochDecrypts'
  BY <1>2, <1>3, <1>5, <1>7 DEF LoopStep, HandleRekeyRequest, HandleRekeyResponse, WriteResponse,
     LoopRotates, LoopFails, readVars, Threads
<1>8. ASSUME NEW e \in Ends, ReadStep(e)  PROVE HeldEpochDecrypts'
  BY <1>1, <1>3, <1>8 DEF ReadStep, ReadPayload, ReadEOF, readVars
<1>9. ASSUME NEW e \in Ends, NEW g \in RekeyThreads, RekeyStep(e, g)  PROVE HeldEpochDecrypts'
  BY <1>3, <1>5, <1>9 DEF RekeyStep, RekeySkipped, InitiateRekey, WriteRequest, RekeyFails,
     RekeyRotates, RekeyReturns, readVars, Threads
<1> QED  BY <1>4, <1>6, <1>7, <1>8, <1>9 DEF Next

\* The invariant holds at first: there is no exchange.
LEMMA InitInv == Init => Inv
<1> SUFFICES ASSUME Init  PROVE Inv  OBVIOUS
<1>0. "lo" \in Ends /\ "hi" \in Ends /\ Other("lo") = "hi" /\ Other("hi") = "lo"
  BY DEF Ends, Other
<1>1. /\ HandshakeKey \in Key /\ \A S : <<>> \in Optional(S)
      /\ <<>> \in Seq(Frame) /\ <<>> \in Seq(Payload)
  BY OptionalValues DEF HandshakeKey, Key, Share
<1>2. TypeOK
  <2>1. KeysOK /\ RekeyOK  BY <1>1 DEF Init, KeysOK, RekeyOK
  <2>2. SendOK /\ ReadOK  BY <1>1 DEF Init, SendOK, ReadOK, Steps
  <2>3. \A e \in Ends, t \in Threads : pc[e][t] = "idle"  BY DEF Init
  <2>4. Equipped  BY <2>3 DEF Equipped, Threads
  <2>5. Spare  BY <2>3 DEF Spare, Threads, RekeyThreads
  <2> QED  BY <2>1, <2>2, <2>4, <2>5, TypeParts DEF Typed
<1>3. ThreadInv  BY <1>0 DEF Init, ThreadInv, Threads, RekeyThreads, Registered, Engaged
<1>4. ~ Awaits /\ \A e \in Ends : wire[e] = <<>> /\ inbound[e] = <<>> /\ answer[e] = <<>>
  BY <1>0 DEF Init, Awaits
<1>5. \A e \in Ends, t \in Threads : pc[e][t] = "idle"  BY DEF Init
<1>6. KindInv  BY <1>0, <1>4, <1>5 DEF KindInv, Sending
<1>7. \A p \in Places : ~ At(p)
  <2>1. \A T : \A e \in Ends : ~ Carries(wire[e], T) /\ ~ Carries(inbound[e], T)
    BY <1>4 DEF Carries
  <2> QED  BY <1>0, <1>4, <1>5, <2>1 DEF At, Sending, Threads, RekeyThreads
<1>8. \A T : \A e \in Ends : OneOf(wire[e], T) /\ OneOf(inbound[e], T)  BY <1>4 DEF OneOf
<1>9. TokenInv  BY <1>7, <1>8 DEF TokenInv, Places
<1>10. epoch["lo"] = 0 /\ epoch["hi"] = 0 /\ pc["hi"]["loop"] = "idle"
  BY <1>0 DEF Init, Threads
<1>11. EpochInv
  <2>1. ~ Answered  BY <1>10 DEF Answered
  <2> QED  BY <1>7, <1>10, <2>1 DEF EpochInv, Places
<1>12. ExchangeInv  BY <1>0, <1>4, <1>5 DEF ExchangeInv, Sending, Threads, RekeyThreads
<1>13. KeyInv  BY <1>0, <1>10 DEF Init, KeyInv
<1>14. FrameInv  BY <1>4, <1>5 DEF FrameInv
<1>15. HeldEpochDecrypts  BY DEF Init, HeldEpochDecrypts
<1> QED  BY <1>2, <1>3, <1>6, <1>9, <1>11, <1>12, <1>13, <1>14, <1>15 DEF Inv

\* What every step keeps, step by step.
LEMMA ExchangeStep ==
  ASSUME Typed, ThreadInv, KindInv, TokenInv, EpochInv, ExchangeInv, KeyInv, FrameInv,
         Flow, Typed', ThreadInv', KindInv', Next
  PROVE  TokenInv' /\ EpochInv' /\ ExchangeInv' /\ KeyInv' /\ FrameInv'
<1>0. /\ "text" \in Threads /\ "loop" \in Threads /\ \A g \in RekeyThreads : g \in Threads
  BY DEF Threads
\* A step that keeps the keys keeps what frames say of them.
<1> DEFINE Goal == TokenInv' /\ EpochInv' /\ ExchangeInv' /\ KeyInv'
<1>1. ASSUME Goal, UNCHANGED keyVars  PROVE Goal /\ FrameInv'  BY <1>1, FramesStay
<1>2. ASSUME Calm  PROVE Goal /\ FrameInv'
  <2>1. Goal  BY <1>2, CalmStep
  <2>2. UNCHANGED keyVars  BY <1>2 DEF Calm
  <2> QED  BY <1>1, <2>1, <2>2
<1>3. ASSUME NEW e \in Ends,
             SendText(e) \/ RekeyDue(e) \/ Disconnect(e) \/ TextStep(e) \/ TriggerStep(e)
      PROVE  Goal /\ FrameInv'
  <2>1. Calm  BY <1>0, <1>3, CalmText, CalmRekey DEF TextStep, TriggerStep
  <2> QED  BY <1>2, <2>1
<1>4. ASSUME NEW e \in Ends, ReadStep(e)  PROVE Goal /\ FrameInv'
  <2>1. CASE ReadPayload(e) /\ Arrived(e).body.kind # "text"
    <3>1. Goal  BY <2>1, ArriveStep
    <3>2. UNCHANGED keyVars  BY <2>1 DEF ReadPayload
    <3> QED  BY <1>1, <3>1, <3>2
  <2>2. CASE ~ (ReadPayload(e) /\ Arrived(e).body.kind # "text")
    <3>1. Calm  BY <1>4, <2>2, CalmText DEF ReadStep
    <3> QED  BY <1>2, <3>1
  <2> QED  BY <2>1, <2>2
<1>5. ASSUME NEW e \in Ends, HandleRekeyRequest(e) \/ WriteResponse(e)  PROVE Goal /\ FrameInv'
  <2>1. Goal  BY <1>5, AnswerStep, ResponseStep
  <2>2. UNCHANGED keyVars  BY <1>5 DEF HandleRekeyRequest, WriteResponse
  <2> QED  BY <1>1, <2>1, <2>2
<1>6. ASSUME NEW e \in Ends, HandleRekeyResponse(e), answer' # answer  PROVE Goal /\ FrameInv'
  <2>1. Goal  BY <1>6, DeliverStep
  <2>2. UNCHANGED keyVars  BY <1>6 DEF HandleRekeyResponse
  <2> QED  BY <1>1, <2>1, <2>2
<1>7. ASSUME NEW e \in Ends,
             \/ HandleText(e) \/ EncryptPayload(e, "loop") \/ LoopFails(e)
             \/ HandleRekeyResponse(e) /\ answer' = answer
      PROVE  Goal /\ FrameInv'
  <2>1. Calm  BY <1>0, <1>7, CalmText, CalmRekey
  <2> QED  BY <1>2, <2>1
<1>8. ASSUME NEW e \in Ends, LoopStep(e)  PROVE Goal /\ FrameInv'
  BY <1>5, <1>6, <1>7, <1>8, AnswererRotates DEF LoopStep
<1>9. ASSUME NEW e \in Ends, NEW g \in RekeyThreads, InitiateRekey(e, g) \/ WriteRequest(e, g)
      PROVE  Goal /\ FrameInv'
  <2>1. Goal  BY <1>9, InitiateStep, RequestStep
  <2>2. UNCHANGED keyVars  BY <1>9 DEF InitiateRekey, WriteRequest
  <2> QED  BY <1>1, <2>1, <2>2
<1>10. ASSUME NEW e \in Ends, NEW g \in RekeyThreads, RekeyStep(e, g)  PROVE Goal /\ FrameInv'
  <2>1. CASE InitiateRekey(e, g) \/ WriteRequest(e, g)  BY <1>9, <2>1
  <2>2. CASE RekeyRotates(e, g)  BY <2>2, RequesterRotates
  <2>3. CASE EncryptPayload(e, g) \/ RekeySkipped(e, g) \/ RekeyFails(e, g) \/ RekeyReturns(e, g)
    <3>1. Calm  BY <1>0, <2>3, CalmRekey
    <3> QED  BY <1>2, <3>1
  <2> QED  BY <1>10, <2>1, <2>2, <2>3 DEF RekeyStep
<1> QED  BY <1>3, <1>4, <1>8, <1>10 DEF Next

\* Every step keeps the invariant.
LEMMA StepInv == Inv /\ [Next]_vars => Inv'
<1> SUFFICES ASSUME Inv, [Next]_vars  PROVE Inv'  OBVIOUS
<1>0. Typed  BY TypeParts DEF Inv
<1>1. CASE Next
  <2>1. Typed'  BY <1>0, <1>1, TypedStep DEF Inv
  <2>2. ThreadInv'  BY <1>0, <1>1, ThreadStep DEF Inv
  <2>3. Flow  BY <1>0, <1>1, FlowStep DEF Inv
  <2>4. KindInv'  BY <1>0, <2>1, <2>2, <2>3, KindStep DEF Inv
  <2>5. TokenInv' /\ EpochInv' /\ ExchangeInv' /\ KeyInv' /\ FrameInv'
    BY <1>0, <1>1, <2>1, <2>2, <2>3, <2>4, ExchangeStep DEF Inv
  <2>6. HeldEpochDecrypts'  BY <1>0, <1>1, HeldStep DEF Inv
  <2>7. TypeOK'
    <3>1. Spare'  BY <2>1, <2>2, SpareStep
    <3> QED  BY <2>1, <3>1 DEF TypeOK, Typed, Equipped, Spare
  <2> QED  BY <2>2, <2>4, <2>5, <2>6, <2>7 DEF Inv
<1>2. CASE UNCHANGED vars
  <2>1. /\ UNCHANGED <<open, epoch, key, prev, due, checked, rekeying, waiter, answer>>
        /\ UNCHANGED <<pc, body, sealed, agreed, generated, texts, wire, inbound, bad, discarded>>
    BY <1>2 DEF vars, keyVars, rekeyVars, sendVars, readVars
  <2>2. TypeOK' /\ ThreadInv' /\ HeldEpochDecrypts'
    <3>1. KeysOK' /\ RekeyOK' /\ SendOK' /\ ReadOK'
      BY <2>1 DEF Inv, TypeOK, KeysOK, RekeyOK, SendOK, ReadOK
    <3>2. Equipped' /\ Spare'  BY <1>0, <2>1, TypeParts DEF Inv, Typed, Equipped, Spare
    <3>3. TypeOK'  BY <3>1, <3>2 DEF TypeOK, Equipped, Spare
    <3>4. ThreadInv' /\ HeldEpochDecrypts'  BY <2>1 DEF Inv, ThreadInv, HeldEpochDecrypts
    <3> QED  BY <3>3, <3>4
  <2>3. (Awaits' <=> Awaits) /\ Mine' = Mine /\ (Answered' <=> Answered) /\ Target' = Target
    BY <2>1 DEF Awaits, Mine, Answered, Target
  <2>4. \A p : At(p)' <=> At(p)  BY <2>1, <2>3 DEF At
  <2>5. KindInv'  BY <2>1, <2>3 DEF Inv, KindInv
  <2>6. TokenInv'  BY <2>1, <2>3, <2>4 DEF Inv, TokenInv
  <2>7. EpochInv'  BY <2>1, <2>3, <2>4 DEF Inv, EpochInv
  <2>8. ExchangeInv'  BY <2>1, <2>3 DEF Inv, ExchangeInv, RequestOK, ResponseOK
  <2>9. KeyInv' /\ FrameInv'  BY <2>1 DEF Inv, KeyInv, FrameInv, FrameOK
  <2> QED  BY <2>2, <2>5, <2>6, <2>7, <2>8, <2>9 DEF Inv
<1> QED  BY <1>1, <1>2

\* The inductive invariant of the session holds always: whatever the order of
\* encryptions, writes, rotations, timeouts and closes at the two ends, at most
\* one message of a rekey is under way, and the keys are those it says.
THEOREM InvariantHolds == Spec => []Inv
BY InitInv, StepInv, PTL DEF Spec

\* The state of both ends is well typed: a goroutine inside SendRaw has its
\* payload and frame, and two callbacks are enough for triggerRekeyIfNeeded.
THEOREM TypeCorrect == Spec => []TypeOK
<1>1. Inv => TypeOK  BY DEF Inv
<1> QED  BY <1>1, InvariantHolds, PTL

\* RotateSessionKey never takes an end two epochs past the other, so the one
\* previous key is enough, for any number of rekeys.
THEOREM EpochsStayTogether == Spec => []OneEpochApart
<1>1. Inv => OneEpochApart
  <2> SUFFICES ASSUME Inv  PROVE OneEpochApart  OBVIOUS
  <2>1. epoch["lo"] \in Nat /\ epoch["hi"] \in Nat  BY DEF Inv, TypeOK, KeysOK, Ends
  <2> QED  BY <2>1 DEF Inv, EpochInv, OneEpochApart
<1> QED  BY <1>1, InvariantHolds, PTL

\* Ends in the same epoch hold the same session key and the same previous key:
\* what initiateRekey derives from the response is what handleRekeyRequest
\* derived from the request.
THEOREM KeysAgree == Spec => []KeyAgreement
<1>1. Inv => KeyAgreement  BY DEF Inv, KeyInv, KeyAgreement
<1> QED  BY <1>1, InvariantHolds, PTL

\* decryptPayload never fails on a frame of an epoch it holds a key for.
THEOREM HeldFramesDecrypt == Spec => []HeldEpochDecrypts
<1>1. Inv => HeldEpochDecrypts  BY DEF Inv
<1> QED  BY <1>1, InvariantHolds, PTL

-----------------------------------------------------------------------------
(* The ratchet: the shares of the two ends in a session key. *)

\* Shares that their ends have generated.
Bounded(S) == \A s \in S : s[2] <= generated[s[1]]

\* A share of the initiator that it has generated after the one in its key.
NewShare(s) ==
  /\ s[1] = "lo" /\ s[2] <= generated["lo"]
  /\ \A r \in key["lo"].shares : r[1] = "lo" => r[2] < s[2]

FreshRequest(p) == p.kind = "request" => NewShare(p.share)

\* The shares in the keys are generated, a request offers a new share, and the
\* key the other end is to rotate to is of new shares of both.
ShareInv ==
  /\ \A e \in Ends : Bounded(key[e].shares)
  /\ \A g \in RekeyThreads : pc["lo"][g] \in Sending => NewShare(Head(body["lo"][g]).share)
  /\ \A i \in 1..Len(wire["hi"]) : FreshRequest(wire["hi"][i].body)
  /\ \A i \in 1..Len(inbound["hi"]) : FreshRequest(inbound["hi"][i])
  /\ pc["hi"]["loop"] # "idle" =>
       /\ Bounded(Head(agreed["hi"]).shares)
       /\ Promise!Newer(Head(agreed["hi"]).shares, key["hi"].shares)

\* Shares that were generated or new still are, as long as key pairs are only
\* generated and the key stays.
LEMMA SharesGrow ==
  ASSUME Typed, Typed', \A e \in Ends : generated[e] <= generated'[e]
  PROVE  /\ \A S \in SUBSET Share : Bounded(S) => Bounded(S)'
         /\ key'["lo"] = key["lo"] => \A s \in Share : NewShare(s) => NewShare(s)'
<1>1. \A e \in Ends : generated[e] \in Nat /\ generated'[e] \in Nat  BY DEF Typed, SendOK
<1>2. \A s \in Share : s[1] \in Ends /\ s[2] \in Nat  BY DEF Share
<1>3. ASSUME NEW S \in SUBSET Share, Bounded(S), NEW s \in S  PROVE s[2] <= generated'[s[1]]
  <2>1. s[1] \in Ends /\ s[2] \in Nat  BY <1>2, <1>3
  <2>2. s[2] <= generated[s[1]]  BY <1>3 DEF Bounded
  <2> QED  BY <1>1, <2>1, <2>2
<1>4. ASSUME key'["lo"] = key["lo"], NEW s \in Share, NewShare(s)  PROVE NewShare(s)'
  <2>1. s[1] = "lo" /\ s[2] <= generated["lo"] /\ "lo" \in Ends  BY <1>4 DEF NewShare, Ends
  <2>2. s[2] <= generated'["lo"]  BY <1>1, <1>2, <2>1
  <2> QED  BY <1>4, <2>1, <2>2 DEF NewShare
<1> QED  BY <1>3, <1>4 DEF Bounded

\* A step that generates no share, and begins neither a request nor an answer.
LEMMA SharesStay ==
  ASSUME Typed, Typed', ThreadInv, KindInv, ShareInv, FramesFlow, PayloadsFlow,
         UNCHANGED <<key, generated>>,
         \A g \in RekeyThreads : pc'["lo"][g] \in Sending =>
           pc["lo"][g] \in Sending /\ body'["lo"][g] = body["lo"][g],
         pc'["hi"]["loop"] # "idle" =>
           pc["hi"]["loop"] # "idle" /\ agreed'["hi"] = agreed["hi"]
  PROVE  ShareInv'
<1>0. "lo" \in Ends /\ "hi" \in Ends /\ Other("hi") = "lo"  BY DEF Ends, Other
<1>1. \A s : NewShare(s)' <=> NewShare(s)  BY DEF NewShare
<1>2. \A p : FreshRequest(p)' <=> FreshRequest(p)  BY <1>1 DEF FreshRequest
<1>3. \A S : Bounded(S)' <=> Bounded(S)  BY DEF Bounded
<1>4. ASSUME NEW i \in 1..Len(wire'["hi"])  PROVE FreshRequest(wire["hi"][i].body)'
  <2>1. CASE \E j \in 1..Len(wire["hi"]) : wire'["hi"][i] = wire["hi"][j]
    BY <1>2, <2>1 DEF ShareInv
  <2>2. ASSUME NEW t \in Threads, pc["lo"][t] = "write",
               wire'["hi"][i] = Head(sealed["lo"][t])
        PROVE  FreshRequest(wire["hi"][i].body)'
    <3>1. wire'["hi"][i].body = Head(body["lo"][t])  BY <1>0, <2>2 DEF KindInv
    <3>2. t = "text" => Head(body["lo"][t]).kind = "text"  BY <1>0, <2>2 DEF KindInv, Sending
    <3>3. t # "loop"  BY <2>2 DEF ThreadInv
    <3>4. t \in RekeyThreads => NewShare(Head(body["lo"][t]).share)
      BY <2>2 DEF ShareInv, Sending
    <3> QED  BY <1>1, <3>1, <3>2, <3>3, <3>4 DEF FreshRequest, Threads
  <2> QED  BY <1>0, <1>4, <2>1, <2>2 DEF FramesFlow
<1>5. ASSUME NEW i \in 1..Len(inbound'["hi"])  PROVE FreshRequest(inbound["hi"][i])'
  BY <1>0, <1>2, <1>5 DEF PayloadsFlow, ShareInv
<1>6. ASSUME NEW g \in RekeyThreads, pc'["lo"][g] \in Sending
      PROVE  NewShare(Head(body["lo"][g]).share)'
  BY <1>1, <1>6 DEF ShareInv
<1>7. \A e \in Ends : Bounded(key[e].shares)'  BY <1>3 DEF ShareInv
<1>8. ASSUME pc'["hi"]["loop"] # "idle"
      PROVE  /\ Bounded(Head(agreed["hi"]).shares)'
             /\ Promise!Newer(Head(agreed["hi"]).shares, key["hi"].shares)'
  BY <1>3, <1>8 DEF ShareInv, Promise!Newer
<1> QED  BY <1>4, <1>5, <1>6, <1>7, <1>8 DEF ShareInv

\* The requests that are under way still offer new shares.
LEMMA RequestsStay ==
  ASSUME Typed, Typed', KindInv, ShareInv, key'["lo"] = key["lo"],
         \A e \in Ends : generated[e] <= generated'[e], wire' = wire, PayloadsFlow
  PROVE  /\ \A i \in 1..Len(wire'["hi"]) : FreshRequest(wire["hi"][i].body)'
         /\ \A i \in 1..Len(inbound'["hi"]) : FreshRequest(inbound["hi"][i])'
         /\ \A g \in RekeyThreads :
              /\ pc'["lo"][g] \in Sending /\ pc'["lo"][g] = pc["lo"][g]
              /\ body'["lo"][g] = body["lo"][g]
              => NewShare(Head(body["lo"][g]).share)'
<1> DEFINE NewShareAfter(s) == /\ s[1] = "lo" /\ s[2] <= generated'["lo"]
                               /\ \A r \in key'["lo"].shares : r[1] = "lo" => r[2] < s[2]
<1>0. /\ "lo" \in Ends /\ "hi" \in Ends
      /\ wire \in [Ends -> Seq(Frame)] /\ inbound \in [Ends -> Seq(Payload)]
      /\ \A g \in RekeyThreads : g \in Threads /\ g # "text"
  BY DEF Typed, ReadOK, Ends, Threads, RekeyThreads
<1>1. ASSUME NEW s \in Share, NewShare(s)  PROVE NewShareAfter(s)
  <2>1. NewShare(s)'  BY <1>1, SharesGrow
  <2> QED  BY <2>1 DEF NewShare
<1> HIDE DEF NewShareAfter
<1>2. ASSUME NEW q \in Payload, FreshRequest(q), q.kind = "request"  PROVE NewShareAfter(q.share)
  BY <1>1, <1>2, ExchangeFields DEF FreshRequest
<1>3. ASSUME NEW j \in 1..Len(wire["hi"]), wire["hi"][j].body.kind = "request"
      PROVE  NewShareAfter(wire["hi"][j].body.share)
  <2>1. wire["hi"][j] \in Frame  BY <1>0, <1>3
  <2>2. wire["hi"][j].body \in Payload  BY <2>1 DEF Frame
  <2> QED  BY <1>2, <1>3, <2>2 DEF ShareInv
<1>4. ASSUME NEW j \in 1..Len(inbound["hi"]), inbound["hi"][j].kind = "request"
      PROVE  NewShareAfter(inbound["hi"][j].share)
  <2>1. inbound["hi"][j] \in Payload  BY <1>0, <1>4
  <2> QED  BY <1>2, <1>4, <2>1 DEF ShareInv
<1>5. ASSUME NEW i \in 1..Len(inbound'["hi"]), inbound'["hi"][i].kind = "request"
      PROVE  NewShareAfter(inbound'["hi"][i].share)
  <2>1. CASE \E j \in 1..Len(inbound["hi"]) : inbound'["hi"][i] = inbound["hi"][j]
    BY <1>4, <1>5, <2>1
  <2>2. CASE \E j \in 1..Len(wire["hi"]) : inbound'["hi"][i] = wire["hi"][j].body
    BY <1>3, <1>5, <2>2
  <2> QED  BY <1>0, <1>5, <2>1, <2>2 DEF PayloadsFlow
<1>6. ASSUME NEW g \in RekeyThreads, pc["lo"][g] \in Sending
      PROVE  NewShareAfter(Head(body["lo"][g]).share)
  <2>1. Head(body["lo"][g]) \in Payload /\ Head(body["lo"][g]).kind = "request"
    BY <1>0, <1>6, InHand DEF KindInv, Sending, Kind
  <2>2. NewShare(Head(body["lo"][g]).share)  BY <1>6 DEF ShareInv
  <2> QED  BY <1>1, <2>1, <2>2, ExchangeFields
<1> QED  BY <1>3, <1>5, <1>6 DEF FreshRequest, NewShare, NewShareAfter

\* The initiator offers a new share.
LEMMA InitiateShares ==
  ASSUME Typed, Typed', ThreadInv, KindInv, ShareInv,
         NEW e \in Ends, NEW g \in RekeyThreads, InitiateRekey(e, g)
  PROVE  ShareInv'
<1>0. /\ "lo" \in Ends /\ "hi" \in Ends /\ "loop" \in Threads
      /\ generated \in [Ends -> Nat] /\ key \in [Ends -> Key]
      /\ pc \in [Ends -> [Threads -> Steps]] /\ body \in [Ends -> [Threads -> Optional(Payload)]]
      /\ \A h \in RekeyThreads : h \in Threads
  BY DEF Typed, KeysOK, SendOK, Ends, Threads
<1>1. e = "lo"  BY Roles
<1>2. PICK p :
        /\ p.share = <<"lo", generated'["lo"]>>
        /\ pc' = [pc EXCEPT !["lo"][g] = "encrypt"] /\ body' = [body EXCEPT !["lo"][g] = <<p>>]
        /\ generated' = [generated EXCEPT !["lo"] = @ + 1]
        /\ UNCHANGED <<key, agreed, wire, inbound>>
  <2> DEFINE q == [kind |-> "request", epoch |-> epoch["lo"] + 1,
                   share |-> <<"lo", generated'["lo"]>>]
  <2>1. q.share = <<"lo", generated'["lo"]>>  OBVIOUS
  <2>2. /\ pc' = [pc EXCEPT !["lo"][g] = "encrypt"] /\ body' = [body EXCEPT !["lo"][g] = <<q>>]
        /\ generated' = [generated EXCEPT !["lo"] = @ + 1]
        /\ UNCHANGED <<key, agreed, wire, inbound>>
    BY <1>1 DEF InitiateRekey, StartSend, keyVars, readVars
  <2> HIDE DEF q
  <2> QED  BY <2>1, <2>2
<1>3. generated'["lo"] = generated["lo"] + 1 /\ generated'["hi"] = generated["hi"]
  BY <1>0, <1>2 DEF Ends
<1>4. \A d \in Ends : generated[d] <= generated'[d]  BY <1>0, <1>3 DEF Ends
<1>5. \A d \in Ends : key[d].shares \in SUBSET Share  BY <1>0 DEF Key
<1>6. p.share[1] = "lo" /\ p.share[2] = generated["lo"] + 1  BY <1>2, <1>3
<1>7. /\ p.share[2] <= generated'["lo"]
      /\ \A r \in key'["lo"].shares : r[1] = "lo" => r[2] < p.share[2]
  <2>1. ASSUME NEW r \in key["lo"].shares, r[1] = "lo"  PROVE r[2] < p.share[2]
    <3>1. r[2] <= generated["lo"]  BY <1>0, <2>1 DEF ShareInv, Bounded
    <3>2. r[2] \in Nat  BY <1>0, <1>5, <2>1 DEF Share
    <3> QED  BY <1>0, <1>6, <3>1, <3>2
  <2> QED  BY <1>0, <1>2, <1>3, <1>6, <2>1
<1>8. /\ \A i \in 1..Len(wire'["hi"]) : FreshRequest(wire["hi"][i].body)'
      /\ \A i \in 1..Len(inbound'["hi"]) : FreshRequest(inbound["hi"][i])'
      /\ \A h \in RekeyThreads :
           /\ pc'["lo"][h] \in Sending /\ pc'["lo"][h] = pc["lo"][h]
           /\ body'["lo"][h] = body["lo"][h]
           => NewShare(Head(body["lo"][h]).share)'
  BY <1>2, <1>4, ChannelsStay, RequestsStay
<1>9. ASSUME NEW h \in RekeyThreads, pc'["lo"][h] \in Sending
      PROVE  NewShare(Head(body["lo"][h]).share)'
  <2>1. CASE h = g
    <3>1. body'["lo"][h] = <<p>> /\ Head(<<p>>) = p  BY <1>0, <1>2, <2>1
    <3>2. Head(body'["lo"][h]) = p  BY <3>1
    <3> QED  BY <1>6, <1>7, <3>2 DEF NewShare
  <2>2. CASE h # g
    <3>1. pc'["lo"][h] = pc["lo"][h] /\ body'["lo"][h] = body["lo"][h]  BY <1>0, <1>2, <2>2
    <3> QED  BY <1>8, <1>9, <3>1
  <2> QED  BY <2>1, <2>2
<1>10. \A d \in Ends : Bounded(key[d].shares)'
  BY <1>2, <1>4, <1>5, SharesGrow DEF ShareInv, Bounded
<1>11. ASSUME pc'["hi"]["loop"] # "idle"
       PROVE  /\ Bounded(Head(agreed["hi"]).shares)'
              /\ Promise!Newer(Head(agreed["hi"]).shares, key["hi"].shares)'
  <2>1. pc["hi"]["loop"] # "idle"  BY <1>0, <1>2, <1>11
  <2>2. Head(agreed["hi"]) \in Key
    BY <1>0, <2>1, InHand DEF ThreadInv
  <2>3. Head(agreed["hi"]).shares \in SUBSET Share  BY <2>2 DEF Key
  <2> QED  BY <1>2, <1>4, <2>1, <2>3, SharesGrow DEF ShareInv, Bounded, Promise!Newer
<1> QED  BY <1>8, <1>9, <1>10, <1>11 DEF ShareInv

\* The other end takes a request, and agrees to a key of new shares.
LEMMA AnswerShares ==
  ASSUME Typed, Typed', ThreadInv, KindInv, TokenInv, EpochInv, KeyInv, ShareInv,
         NEW e \in Ends, HandleRekeyRequest(e)
  PROVE  ShareInv'
<1>1. e = "hi"  BY Roles
<1>2. PICK r, own, k :
        /\ r = Head(inbound["hi"]) /\ own = <<"hi", generated'["hi"]>>
        /\ k.shares = {own, r.share}
        /\ NextPayload("hi", "request") /\ pc["hi"]["loop"] = "idle"
        /\ pc' = [pc EXCEPT !["hi"]["loop"] = "encrypt"]
        /\ \E p : body' = [body EXCEPT !["hi"]["loop"] = <<p>>]
        /\ agreed' = [agreed EXCEPT !["hi"] = <<k>>]
        /\ generated' = [generated EXCEPT !["hi"] = @ + 1]
        /\ UNCHANGED <<epoch, key>>
  <2> DEFINE s == <<"hi", generated'["hi"]>>
             j == DerivedKey(Head(inbound["hi"]).epoch, s, Head(inbound["hi"]).share)
  <2>1. j.shares = {s, Head(inbound["hi"]).share}  BY DEF DerivedKey
  <2>2. /\ NextPayload("hi", "request") /\ pc["hi"]["loop"] = "idle"
        /\ pc' = [pc EXCEPT !["hi"]["loop"] = "encrypt"]
        /\ \E p : body' = [body EXCEPT !["hi"]["loop"] = <<p>>]
        /\ agreed' = [agreed EXCEPT !["hi"] = <<j>>]
        /\ generated' = [generated EXCEPT !["hi"] = @ + 1]
        /\ UNCHANGED <<epoch, key>>
    BY <1>1 DEF HandleRekeyRequest, NextPayload, StartSend, keyVars
  <2> HIDE DEF j
  <2> QED  BY <2>1, <2>2
<1>3. /\ wire' = wire /\ PayloadsFlow
      /\ r \in Payload /\ r.kind = "request" /\ r = inbound["hi"][1] /\ 1 \in 1..Len(inbound["hi"])
  BY <1>2, Before, FirstPayload DEF NextPayload
<1>4. epoch["hi"] = epoch["lo"]
  <2>1. At("requestInbound") /\ "requestInbound" \in Places
    BY <1>3, Before DEF At, Places, Carries, Tokens, Kind
  <2>2. ~ Answered  BY <2>1 DEF EpochInv
  <2> QED  BY <1>2, <2>2, Before DEF Answered, EpochInv
<1>5. key["lo"] = key["hi"]  BY <1>4 DEF KeyInv
<1>6. generated'["hi"] = generated["hi"] + 1 /\ generated'["lo"] = generated["lo"]
  BY <1>2, Before DEF Ends
<1>7. \A d \in Ends : generated[d] <= generated'[d]  BY <1>6, Before DEF Ends
<1>8. \A d \in Ends : key[d].shares \in SUBSET Share  BY Before DEF Key
<1>9. r.share \in Share /\ NewShare(r.share)
  BY <1>3, ExchangeFields DEF ShareInv, FreshRequest
<1>10. own[1] = "hi" /\ own[2] = generated["hi"] + 1  BY <1>2, <1>6
<1>11. Head(agreed'["hi"]) = k
  <2>1. agreed'["hi"] = <<k>> /\ Head(<<k>>) = k  BY <1>2, Before
  <2> QED  BY <2>1
<1>12. \A s \in k.shares : s[2] <= generated'[s[1]]
  <2>1. own[2] <= generated'[own[1]]  BY <1>6, <1>10, Before
  <2>2. r.share[2] <= generated'[r.share[1]]  BY <1>6, <1>9 DEF NewShare
  <2> QED  BY <1>2, <2>1, <2>2
<1>13. Promise!Newer(k.shares, key["hi"].shares)
  <2>1. ASSUME NEW y \in key["hi"].shares, y[1] = "hi"  PROVE y[2] < own[2]
    <3>1. y[2] <= generated["hi"]  BY <2>1, Before DEF ShareInv, Bounded
    <3>2. y[2] \in Nat  BY <1>8, <2>1, Before DEF Share
    <3> QED  BY <1>10, <3>1, <3>2, Before
  <2>2. r.share[1] = "lo" /\ \A y \in key["hi"].shares : y[1] = "lo" => y[2] < r.share[2]
    BY <1>5, <1>9 DEF NewShare
  <2> QED  BY <1>2, <1>10, <2>1, <2>2 DEF Promise!Newer, Ends
<1>14. Promise!Newer(Head(agreed["hi"]).shares, key["hi"].shares)'
  BY <1>2, <1>11, <1>13 DEF Promise!Newer
<1>15. Bounded(Head(agreed["hi"]).shares)'  BY <1>11, <1>12 DEF Bounded
<1>16. \A g \in RekeyThreads : pc'["lo"][g] = pc["lo"][g] /\ body'["lo"][g] = body["lo"][g]
  BY <1>2, Before
<1>17. /\ \A i \in 1..Len(wire'["hi"]) : FreshRequest(wire["hi"][i].body)'
       /\ \A i \in 1..Len(inbound'["hi"]) : FreshRequest(inbound["hi"][i])'
       /\ \A g \in RekeyThreads :
            pc'["lo"][g] \in Sending => NewShare(Head(body["lo"][g]).share)'
  BY <1>2, <1>3, <1>7, <1>16, RequestsStay
<1>18. \A d \in Ends : Bounded(key[d].shares)'
  BY <1>2, <1>7, <1>8, SharesGrow DEF ShareInv, Bounded
<1> QED  BY <1>14, <1>15, <1>17, <1>18 DEF ShareInv

\* The initiator turns to the key the other end holds, or has agreed to.
LEMMA RequesterTurns ==
  ASSUME Inv, Inv', NEW e \in Ends, NEW g \in RekeyThreads, RekeyRotates(e, g)
  PROVE  /\ Answered /\ pc'["hi"]["loop"] = pc["hi"]["loop"]
         /\ epoch' = [epoch EXCEPT !["lo"] = @ + 1] /\ key'["hi"] = key["hi"]
         /\ \/ epoch["hi"] = epoch["lo"] + 1 /\ key'["lo"] = key["hi"]
            \/ epoch["hi"] = epoch["lo"] /\ pc["hi"]["loop"] = "rotate"
               /\ key'["lo"] = Head(agreed["hi"])
<1>0. Typed /\ ThreadInv /\ KindInv /\ EpochInv /\ KeyInv'  BY TypeParts DEF Inv
<1>1. pc[e][g] = "wait" /\ e = "lo" /\ Awaits
  BY <1>0, Roles DEF RekeyRotates, Awaits
<1>2. /\ answer["lo"] # <<>> /\ pc' = [pc EXCEPT !["lo"][g] = "return"] /\ agreed' = agreed
      /\ \E k, n : RotateSessionKey("lo", k, n)
  BY <1>1 DEF RekeyRotates
<1>3. Answered  BY <1>0, <1>1, <1>2 DEF At, EpochInv
<1>4. epoch' = [epoch EXCEPT !["lo"] = @ + 1] /\ key'["hi"] = key["hi"]
  BY <1>0, <1>2, Before DEF RotateSessionKey
<1>5. epoch'["lo"] = epoch["lo"] + 1 /\ epoch'["hi"] = epoch["hi"]
  BY <1>0, <1>4, Before
<1>6. pc'["hi"]["loop"] = pc["hi"]["loop"]  BY <1>0, <1>2, Before
<1> QED  BY <1>0, <1>2, <1>3, <1>4, <1>5, <1>6, Before DEF Answered, KeyInv

\* The other end turns to the key it has agreed to.
LEMMA AnswererTurns ==
  ASSUME Inv, NEW e \in Ends, LoopRotates(e)
  PROVE  /\ pc["hi"]["loop"] = "rotate" /\ pc'["hi"]["loop"] = "idle"
         /\ \A g \in RekeyThreads : pc'["lo"][g] = pc["lo"][g]
         /\ epoch' = [epoch EXCEPT !["hi"] = @ + 1]
         /\ key'["hi"] = Head(agreed["hi"]) /\ key'["lo"] = key["lo"]
         /\ \/ epoch["lo"] = epoch["hi"] + 1 /\ key["lo"] = Head(agreed["hi"])
            \/ epoch["lo"] = epoch["hi"]
<1>0. Typed /\ ThreadInv /\ KindInv /\ EpochInv /\ KeyInv  BY TypeParts DEF Inv
<1>1. pc[e]["loop"] = "rotate" /\ e = "hi"  BY <1>0, Roles DEF LoopRotates
<1>2. /\ pc' = [pc EXCEPT !["hi"]["loop"] = "idle"]
      /\ RotateSessionKey("hi", Head(agreed["hi"]), Head(agreed["hi"]).epoch)
  BY <1>1 DEF LoopRotates
<1>3. epoch' = [epoch EXCEPT !["hi"] = @ + 1]
  BY <1>0, <1>2, Before DEF RotateSessionKey
<1>4. key'["hi"] = Head(agreed["hi"]) /\ key'["lo"] = key["lo"]
  BY <1>0, <1>2, Before DEF RotateSessionKey
<1>5. epoch["lo"] = epoch["hi"] \/ epoch["lo"] = epoch["hi"] + 1
  BY <1>0, <1>1, Before DEF EpochInv
<1>6. /\ pc'["hi"]["loop"] = "idle"
      /\ \A g \in RekeyThreads : pc'["lo"][g] = pc["lo"][g]
  BY <1>0, <1>2, Before
<1> QED  BY <1>0, <1>1, <1>3, <1>4, <1>5, <1>6 DEF KeyInv

\* A rotation leaves an end with the shares of the other, or with new ones.
LEMMA RotationShares ==
  ASSUME Inv, Inv', ShareInv, NEW e \in Ends,
         (\E g \in RekeyThreads : RekeyRotates(e, g)) \/ LoopRotates(e)
  PROVE  ShareInv'
<1>0. /\ Typed /\ EpochInv /\ "lo" \in Ends /\ "hi" \in Ends
      /\ wire \in [Ends -> Seq(Frame)] /\ inbound \in [Ends -> Seq(Payload)]
      /\ pc \in [Ends -> [Threads -> Steps]]
  BY TypeParts DEF Inv, Typed, SendOK, ReadOK, Ends
<1>1. UNCHANGED <<wire, inbound, generated, body>>
  BY DEF RekeyRotates, LoopRotates, readVars
<1>2. \A S : Bounded(S)' <=> Bounded(S)  BY <1>1 DEF Bounded
<1>3. ASSUME NEW g \in RekeyThreads, RekeyRotates(e, g)  PROVE ShareInv'
  <2>1. /\ Answered /\ pc'["hi"]["loop"] = pc["hi"]["loop"] /\ key'["hi"] = key["hi"]
        /\ \/ key'["lo"] = key["hi"]
           \/ pc["hi"]["loop"] = "rotate" /\ key'["lo"] = Head(agreed["hi"])
    BY <1>3, RequesterTurns
  <2>2. agreed' = agreed  BY <1>3 DEF RekeyRotates
  <2>3. \A p \in {"request", "requestOnWire", "requestInbound"} : ~ At(p)
    BY <1>0, <2>1 DEF EpochInv
  <2>4. \A i \in 1..Len(wire["hi"]) : wire["hi"][i].body.kind # "request"
    BY <1>0, <2>3 DEF At, Carries, TokenFrames, Kind
  <2>5. \A i \in 1..Len(inbound["hi"]) : inbound["hi"][i].kind # "request"
    BY <1>0, <2>3 DEF At, Carries, Tokens, Kind
  <2>6. \A h \in RekeyThreads : pc'["lo"][h] \notin Sending
    <3>1. pc' = [pc EXCEPT ![e][g] = "return"]  BY <1>3 DEF RekeyRotates
    <3>2. \A h \in RekeyThreads : pc'["lo"][h] = pc["lo"][h] \/ pc'["lo"][h] = "return"
      BY <1>0, <3>1 DEF Threads
    <3> QED  BY <2>3, <3>2 DEF At, Sending
  <2>7. Bounded(key["lo"].shares)' /\ Bounded(key["hi"].shares)'
    BY <1>0, <1>2, <2>1 DEF ShareInv
  <2>8. pc'["hi"]["loop"] # "idle" =>
          /\ Bounded(Head(agreed["hi"]).shares)'
          /\ Promise!Newer(Head(agreed["hi"]).shares, key["hi"].shares)'
    BY <1>2, <2>1, <2>2 DEF ShareInv, Promise!Newer
  <2> QED  BY <1>1, <2>4, <2>5, <2>6, <2>7, <2>8 DEF ShareInv, FreshRequest, Ends
<1>4. CASE LoopRotates(e)
  <2>1. /\ pc["hi"]["loop"] = "rotate" /\ pc'["hi"]["loop"] = "idle"
        /\ key'["hi"] = Head(agreed["hi"]) /\ key'["lo"] = key["lo"]
        /\ \A g \in RekeyThreads : pc'["lo"][g] = pc["lo"][g]
    BY <1>4, AnswererTurns
  <2>2. \A s : NewShare(s)' <=> NewShare(s)  BY <1>1, <2>1 DEF NewShare
  <2>3. Bounded(key["lo"].shares)' /\ Bounded(key["hi"].shares)'
    BY <1>0, <1>2, <2>1 DEF ShareInv
  <2> QED  BY <1>1, <2>1, <2>2, <2>3 DEF ShareInv, FreshRequest, Ends
<1> QED  BY <1>3, <1>4

\* Every step keeps the shares in order.
LEMMA ShareStep ==
  ASSUME Inv, Inv', ShareInv, Next
  PROVE  ShareInv'
<1>0. /\ Typed /\ ThreadInv /\ KindInv /\ TokenInv /\ EpochInv /\ KeyInv
      /\ Typed' /\ ThreadInv'
  BY DEF Inv, TypeOK, Typed, Equipped
<1>1. Flow  BY <1>0, FlowStep
<1>2. \A g \in RekeyThreads : g \in Threads /\ g # "loop"  BY DEF Threads, RekeyThreads
<1>3. ASSUME UNCHANGED <<key, generated>>,
             \A g \in RekeyThreads : pc'["lo"][g] \in Sending =>
               pc["lo"][g] \in Sending /\ body'["lo"][g] = body["lo"][g],
             pc'["hi"]["loop"] # "idle" =>
               pc["hi"]["loop"] # "idle" /\ agreed'["hi"] = agreed["hi"]
      PROVE  ShareInv'
  BY <1>0, <1>1, <1>3, SharesStay DEF Flow
<1>4. ASSUME Calm, UNCHANGED generated  PROVE ShareInv'
  <2>1. UNCHANGED <<key, generated>>  BY <1>4 DEF Calm, keyVars
  <2>2. \A g \in RekeyThreads : pc'["lo"][g] \in Sending =>
          pc["lo"][g] \in Sending /\ body'["lo"][g] = body["lo"][g]
    BY <1>4 DEF Calm, StillAwaits, Sending
  <2>3. pc'["hi"]["loop"] # "idle" =>
          pc["hi"]["loop"] # "idle" /\ agreed'["hi"] = agreed["hi"]
    BY <1>0, <1>4 DEF Calm, StillAnswers, Sending, ThreadInv
  <2> QED  BY <1>3, <2>1, <2>2, <2>3
<1>5. ASSUME NEW e \in Ends,
             \/ SendText(e) \/ RekeyDue(e) \/ Disconnect(e) \/ TextStep(e) \/ TriggerStep(e)
             \/ HandleText(e) \/ EncryptPayload(e, "loop") \/ LoopFails(e)
             \/ HandleRekeyResponse(e) /\ answer' = answer
      PROVE  ShareInv'
  <2>1. Calm
    BY <1>0, <1>5, CalmText, CalmRekey DEF TextStep, TriggerStep, Threads
  <2>2. UNCHANGED generated
    BY <1>5 DEF SendText, RekeyDue, Disconnect, TextStep, TriggerStep, EncryptPayload, WriteText,
       TextFails, KeepAliveChecks, TriggerRekey, HandleText, LoopFails, HandleRekeyResponse,
       sendVars
  <2> QED  BY <1>4, <2>1, <2>2
<1>6. ASSUME NEW e \in Ends, ReadStep(e) \/ HandleRekeyResponse(e)  PROVE ShareInv'
  <2>1. UNCHANGED <<key, generated, pc, body, agreed>>
    BY <1>6 DEF ReadStep, ReadPayload, ReadMalformed, ReadEOF, HandleRekeyResponse, keyVars,
       sendVars
  <2> QED  BY <1>3, <2>1
<1>7. ASSUME NEW e \in Ends, WriteResponse(e)  PROVE ShareInv'
  <2>1. e = "hi" /\ pc["hi"]["loop"] = "write"
    BY <1>0, <1>7, Roles DEF WriteResponse, WriteFrame
  <2>2. /\ pc' = [pc EXCEPT !["hi"]["loop"] = "rotate"]
        /\ body' = [body EXCEPT !["hi"]["loop"] = <<>>]
        /\ UNCHANGED <<key, generated, agreed>>
    BY <1>7, <2>1 DEF WriteResponse, EndSend, keyVars
  <2>3. \A g \in RekeyThreads : pc'["lo"][g] = pc["lo"][g] /\ body'["lo"][g] = body["lo"][g]
    BY <1>0, <2>2, Before
  <2> QED  BY <1>3, <2>1, <2>2, <2>3
<1>8. ASSUME NEW e \in Ends, NEW g \in RekeyThreads, WriteRequest(e, g)  PROVE ShareInv'
  <2>1. /\ pc' = [pc EXCEPT ![e][g] = "wait"] /\ UNCHANGED <<key, generated, body, agreed>>
    BY <1>8 DEF WriteRequest, EndSend, keyVars
  <2>2. /\ pc'["hi"]["loop"] = pc["hi"]["loop"]
        /\ \A h \in RekeyThreads : pc'["lo"][h] \in Sending => pc["lo"][h] \in Sending
    BY <1>0, <1>2, <2>1, Before DEF Sending
  <2> QED  BY <1>3, <2>1, <2>2
<1>9. ASSUME NEW e \in Ends, LoopStep(e)  PROVE ShareInv'
  BY <1>0, <1>5, <1>6, <1>7, <1>9, AnswerShares, RotationShares DEF LoopStep
<1>10. ASSUME NEW e \in Ends, NEW g \in RekeyThreads,
              EncryptPayload(e, g) \/ RekeySkipped(e, g) \/ RekeyFails(e, g) \/ RekeyReturns(e, g)
       PROVE  ShareInv'
  <2>1. Calm  BY <1>0, <1>2, <1>10, CalmRekey
  <2>2. UNCHANGED generated
    BY <1>10 DEF EncryptPayload, RekeySkipped, RekeyFails, RekeyReturns
  <2> QED  BY <1>4, <2>1, <2>2
<1>11. ASSUME NEW e \in Ends, NEW g \in RekeyThreads, RekeyStep(e, g)  PROVE ShareInv'
  BY <1>0, <1>8, <1>10, <1>11, InitiateShares, RotationShares DEF RekeyStep
<1> QED  BY <1>5, <1>6, <1>9, <1>11 DEF Next

\* The shares are in order at first: each end has used key pair number 0.
LEMMA InitShares == Init => ShareInv
<1> SUFFICES ASSUME Init  PROVE ShareInv  OBVIOUS
<1>0. "lo" \in Ends /\ "hi" \in Ends  BY DEF Ends
<1>1. ASSUME NEW e \in Ends  PROVE Bounded(key[e].shares)
  <2>1. key[e].shares = Ends \X {0}  BY DEF Init, HandshakeKey
  <2> QED  BY <2>1 DEF Init, Bounded
<1>2. /\ wire["hi"] = <<>> /\ inbound["hi"] = <<>> /\ pc["hi"]["loop"] = "idle"
      /\ \A g \in RekeyThreads : pc["lo"][g] \notin Sending
  BY <1>0 DEF Init, Threads, RekeyThreads, Sending
<1> QED  BY <1>1, <1>2 DEF ShareInv

\* The shares of the session keys, before and after a rotation of one end.
LEMMA SecretOf ==
  ASSUME Inv, Inv', NEW e \in Ends, NEW k \in Key, key'[e] = k,
         \A d \in Ends \ {e} : key'[d] = key[d]
  PROVE  /\ [d \in Ends |-> key'[d].shares] =
              [[d \in Ends |-> key[d].shares] EXCEPT ![e] = k.shares]
         /\ [d \in Ends |-> key'[d].shares] \in [Ends -> SUBSET Share]
<1>1. key \in [Ends -> Key] /\ key' \in [Ends -> Key]  BY DEF Inv, TypeOK, KeysOK
<1>2. \A d \in Ends : key'[d].shares \in SUBSET Share  BY <1>1 DEF Key
<1> QED  BY <1>2

\* An end that rotates leads or follows; no other step changes a key.
LEMMA RatchetStep ==
  ASSUME Inv, Inv', ShareInv, [Next]_vars
  PROVE  [Promise!Next]_(Promise!ratchetVars)
<1>0. /\ "lo" \in Ends /\ "hi" \in Ends /\ key \in [Ends -> Key] /\ key' \in [Ends -> Key]
      /\ epoch \in [Ends -> Nat] /\ epoch["lo"] \in Nat /\ epoch["hi"] \in Nat
  BY DEF Inv, TypeOK, KeysOK, Ends
<1> DEFINE secret == [e \in Ends |-> key[e].shares]
           later == [e \in Ends |-> key'[e].shares]
<1>1. ASSUME UNCHANGED <<epoch, key>>  PROVE UNCHANGED Promise!ratchetVars
  BY <1>1 DEF Promise!ratchetVars
<1>2. ASSUME NEW e \in Ends, NEW g \in RekeyThreads, RekeyRotates(e, g)  PROVE Promise!Next
  <2>1. /\ epoch' = [epoch EXCEPT !["lo"] = @ + 1] /\ key'["hi"] = key["hi"]
        /\ \/ epoch["hi"] = epoch["lo"] + 1 /\ key'["lo"] = key["hi"]
           \/ epoch["hi"] = epoch["lo"] /\ pc["hi"]["loop"] = "rotate"
              /\ key'["lo"] = Head(agreed["hi"])
    BY <1>2, RequesterTurns
  <2>2. /\ later = [secret EXCEPT !["lo"] = key'["lo"].shares]
        /\ later \in [Ends -> SUBSET Share]
    BY <1>0, <2>1, SecretOf DEF Ends
  <2>3. CASE epoch["hi"] = epoch["lo"] + 1 /\ key'["lo"] = key["hi"]
    <3>1. later = [secret EXCEPT !["lo"] = secret["hi"]]  BY <1>0, <2>2, <2>3
    <3>2. Promise!Follow("lo")  BY <1>0, <2>1, <2>3, <3>1 DEF Promise!Follow
    <3> QED  BY <1>0, <3>2 DEF Promise!Next
  <2>4. CASE epoch["hi"] = epoch["lo"] /\ pc["hi"]["loop"] = "rotate"
             /\ key'["lo"] = Head(agreed["hi"])
    <3>1. key["lo"] = key["hi"]  BY <2>4 DEF Inv, KeyInv
    <3>2. Promise!Newer(later["lo"], secret["lo"])
      BY <1>0, <2>4, <3>1 DEF ShareInv
    <3>3. \A d \in Ends \ {"lo"} : later[d] = secret[d]  BY <1>0, <2>1 DEF Ends
    <3>4. Promise!Lead("lo")
      BY <1>0, <2>1, <2>2, <2>4, <3>2, <3>3 DEF Promise!Lead, Promise!Share, Share, Ends
    <3> QED  BY <1>0, <3>4 DEF Promise!Next
  <2> QED  BY <2>1, <2>3, <2>4
<1>3. ASSUME NEW e \in Ends, LoopRotates(e)  PROVE Promise!Next
  <2>1. /\ pc["hi"]["loop"] = "rotate" /\ epoch' = [epoch EXCEPT !["hi"] = @ + 1]
        /\ key'["hi"] = Head(agreed["hi"]) /\ key'["lo"] = key["lo"]
        /\ \/ epoch["lo"] = epoch["hi"] + 1 /\ key["lo"] = Head(agreed["hi"])
           \/ epoch["lo"] = epoch["hi"]
    BY <1>3, AnswererTurns
  <2>2. /\ later = [secret EXCEPT !["hi"] = key'["hi"].shares]
        /\ later \in [Ends -> SUBSET Share]
    BY <1>0, <2>1, SecretOf DEF Ends
  <2>3. CASE epoch["lo"] = epoch["hi"] + 1 /\ key["lo"] = Head(agreed["hi"])
    <3>1. later = [secret EXCEPT !["hi"] = secret["lo"]]  BY <1>0, <2>1, <2>2, <2>3
    <3>2. Promise!Follow("hi")  BY <1>0, <2>1, <2>3, <3>1 DEF Promise!Follow
    <3> QED  BY <1>0, <3>2 DEF Promise!Next
  <2>4. CASE epoch["lo"] = epoch["hi"]
    <3>1. Promise!Newer(later["hi"], secret["hi"])  BY <1>0, <2>1 DEF ShareInv
    <3>2. \A d \in Ends \ {"hi"} : later[d] = secret[d]  BY <1>0, <2>1 DEF Ends
    <3>3. Promise!Lead("hi")
      BY <1>0, <2>1, <2>2, <2>4, <3>1, <3>2 DEF Promise!Lead, Promise!Share, Share, Ends
    <3> QED  BY <1>0, <3>3 DEF Promise!Next
  <2> QED  BY <2>1, <2>3, <2>4
<1>4. ASSUME NEW e \in Ends, NEW t \in Threads, EncryptPayload(e, t)  PROVE UNCHANGED <<epoch, key>>
  BY <1>4 DEF EncryptPayload, keyVars
<1>5. ASSUME NEW e \in Ends,
             \/ SendText(e) \/ RekeyDue(e) \/ Disconnect(e)
             \/ TextStep(e) \/ ReadStep(e) \/ TriggerStep(e)
      PROVE  UNCHANGED <<epoch, key>>
  BY <1>4, <1>5 DEF SendText, RekeyDue, Disconnect, TextStep, WriteText, TextFails, ReadStep,
     ReadPayload, ReadMalformed, ReadEOF, TriggerStep, KeepAliveChecks, TriggerRekey, keyVars,
     Threads
<1>6. ASSUME NEW e \in Ends, LoopStep(e), ~ LoopRotates(e)  PROVE UNCHANGED <<epoch, key>>
  BY <1>4, <1>6 DEF LoopStep, HandleText, HandleRekeyRequest, HandleRekeyResponse, WriteResponse,
     LoopFails, keyVars, Threads
<1>7. ASSUME NEW e \in Ends, NEW g \in RekeyThreads, RekeyStep(e, g), ~ RekeyRotates(e, g)
      PROVE  UNCHANGED <<epoch, key>>
  BY <1>4, <1>7 DEF RekeyStep, RekeySkipped, InitiateRekey, WriteRequest, RekeyFails, RekeyReturns,
     keyVars, Threads
<1>8. ASSUME UNCHANGED vars  PROVE UNCHANGED <<epoch, key>>  BY <1>8 DEF vars, keyVars
<1> QED  BY <1>1, <1>2, <1>3, <1>5, <1>6, <1>7, <1>8 DEF Next

\* The session keys implement the ratchet of Ratchet: for any number of rekeys, and
\* whatever requests, responses, timeouts and callbacks of initiateRekey and
\* handleRekeyRequest cross, an end only leads from equal epochs, to a key with a
\* new share of either end, and the other only follows to that very key.
THEOREM ImplementsRatchet == Spec => IsRatchet
<1>1. Init => Promise!Init
  BY DEF Init, HandshakeKey, Promise!Init
<1>2. ShareInv /\ Inv /\ Inv' /\ [Next]_vars => ShareInv'
  <2> SUFFICES ASSUME ShareInv, Inv, Inv', [Next]_vars  PROVE ShareInv'  OBVIOUS
  <2>1. CASE Next  BY <2>1, ShareStep
  <2>2. CASE UNCHANGED vars
    <3>1. UNCHANGED <<key, generated, pc, body, agreed, wire, inbound>>
      BY <2>2 DEF vars, keyVars, sendVars, readVars
    <3> QED
      BY <3>1 DEF ShareInv, Bounded, FreshRequest, NewShare, Promise!Newer
  <2> QED  BY <2>1, <2>2
<1>3. Spec => [](Inv /\ ShareInv)
  BY InvariantHolds, InitShares, <1>2, PTL DEF Spec
<1>4. ShareInv /\ Inv /\ Inv' /\ [Next]_vars => [Promise!Next]_(Promise!ratchetVars)
  BY RatchetStep
<1> QED  BY <1>1, <1>3, <1>4, PTL DEF Spec, IsRatchet, Promise!Spec
=============================================================================
