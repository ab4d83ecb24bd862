--------------------------- MODULE PeerAdd_proofs ---------------------------
(***************************************************************************)
(* Machine-checked proofs about PeerAdd, for any number of connections,    *)
(* requests, removals and crashes.                                         *)
(*                                                                         *)
(* StoredWithConsent is not inductive: the row is written long after the   *)
(* user agreed.  ConsentInv follows the consent through the pending        *)
(* request, the decision channel and the accepting handler.                *)
(* AcceptedIsMutual is not inductive either: an acceptance lies on the     *)
(* connection and in the response channel first.  MutualInv says that the  *)
(* device that wrote it vouches for it, wherever it is by now.             *)
(***************************************************************************)
EXTENDS PeerAdd, TLAPS

\* The user of d agreed wherever d stores the peer or is on its way to.
ConsentInv ==
    \A d \in Device :
       \/ peers[d]
       \/ add[d] # "idle"
       \/ handler[d] \in {"accepting", "storing"}
       \/ decision[d] = <<"accept">>
       => consented[d]

\* The peer is stored at e, is about to be, or may be missing for a reason.
Vouched(e) == peers[e] \/ handler[e] = "storing" \/ forgot[e]

AcceptedIn(q) == \E i \in 1..Len(q) : q[i] = Response("accepted")

\* Whoever holds an acceptance, on the way or in hand, is vouched for.
MutualInv ==
    \A d \in Device :
       \/ AcceptedIn(link[d])
       \/ response[d] = <<"accepted">>
       \/ add[d] = "storing"
       \/ result[d] = "accepted"
       => Vouched(Peer(d))

\* The inductive invariant.
Inv == TypeOK /\ ConsentInv /\ MutualInv

USE Bounds

-----------------------------------------------------------------------------
(* The two devices, and what is on its way between them. *)

\* Each of the two devices is the peer of the other.
LEMMA PeerIsTheOther ==
    ASSUME NEW d \in Device
    PROVE  Peer(d) \in Device /\ Peer(d) # d /\ Peer(Peer(d)) = d
<1>1. \E e \in Device : e # d  BY TwoDevices
<1>2. Peer(d) \in Device /\ Peer(d) # d  BY <1>1 DEF Peer
<1>3. \E e \in Device : e # Peer(d)  BY <1>2
<1>4. Peer(Peer(d)) \in Device /\ Peer(Peer(d)) # Peer(d)  BY <1>3 DEF Peer
<1> QED  BY <1>2, <1>4, TwoDevices

\* What is written to a connection, and what is left when a message is taken.
LEMMA LinkTypes ==
    ASSUME NEW q \in Seq(Message)
    PROVE  /\ \A m \in Message : Append(q, m) \in Seq(Message)
           /\ q # <<>> => Tail(q) \in Seq(Message) /\ Head(q) \in Message
           /\ Request \in Message /\ Removal \in Message
           /\ Response("accepted") \in Message /\ Response("rejected") \in Message
BY DEF Message

\* A message that is taken or written leaves the other acceptances there are.
LEMMA AcceptedKept ==
    ASSUME NEW q \in Seq(Message), NEW m \in Message
    PROVE  /\ AcceptedIn(Append(q, m)) => AcceptedIn(q) \/ m = Response("accepted")
           /\ q # <<>> /\ AcceptedIn(Tail(q)) => AcceptedIn(q)
           /\ ~ AcceptedIn(<<>>)
BY DEF AcceptedIn

\* Only one response says accepted.
LEMMA MessagesDiffer ==
    /\ Request # Response("accepted") /\ Removal # Response("accepted")
    /\ Response("rejected") # Response("accepted")
    /\ \A m \in Message : m.type = "peer_add_response"
         => m.status \in {"accepted", "rejected"} /\ (m.status = "accepted" => m = Response("accepted"))
BY DEF Message, Request, Response, Removal

\* A message is written: the other acceptances on the way are those there were.
LEMMA WrittenKeeps ==
    ASSUME link \in [Device -> Seq(Message)], NEW d \in Device, NEW m \in Message,
           link' = [link EXCEPT ![Peer(d)] = Append(@, m)]
    PROVE  /\ link' \in [Device -> Seq(Message)]
           /\ \A e \in Device : AcceptedIn(link'[e])
                => AcceptedIn(link[e]) \/ (e = Peer(d) /\ m = Response("accepted"))
<1>1. Peer(d) \in Device /\ link[Peer(d)] \in Seq(Message)  BY PeerIsTheOther
<1>2. link'[Peer(d)] = Append(link[Peer(d)], m)  BY <1>1
<1>3. \A e \in Device : e # Peer(d) => link'[e] = link[e]  OBVIOUS
<1>4. AcceptedIn(link'[Peer(d)]) => AcceptedIn(link[Peer(d)]) \/ m = Response("accepted")
  BY <1>1, <1>2, AcceptedKept
<1>5. link' \in [Device -> Seq(Message)]  BY <1>1, LinkTypes
<1> QED  BY <1>3, <1>4, <1>5

\* An acceptance in a response channel came over the connection, one that is
\* being stored or was returned was in the channel; devices stay vouched for.
LEMMA MutualStep ==
    ASSUME Inv,
           \A e \in Device : Vouched(e) => Vouched(e)',
           \A e \in Device : AcceptedIn(link'[e]) => AcceptedIn(link[e]) \/ Vouched(Peer(e))',
           \A e \in Device : response'[e] = <<"accepted">>
                               => response[e] = <<"accepted">> \/ AcceptedIn(link[e]),
           \A e \in Device : add'[e] = "storing" => add[e] = "storing" \/ response[e] = <<"accepted">>,
           \A e \in Device : result'[e] = "accepted" => result[e] = "accepted" \/ add[e] = "storing"
    PROVE  MutualInv'
<1>1. \A e \in Device : Vouched(Peer(e)) => Vouched(Peer(e))'  BY PeerIsTheOther
<1>2. \A e \in Device :
        \/ AcceptedIn(link[e]) \/ response[e] = <<"accepted">>
        \/ add[e] = "storing" \/ result[e] = "accepted"
        => Vouched(Peer(e))'
  BY <1>1 DEF Inv, MutualInv
<1> QED  BY <1>2 DEF MutualInv

-----------------------------------------------------------------------------
(* Every step keeps the invariant. *)

\* Both ends start a new connection.
LEMMA ConnectKeeps ==
    ASSUME Inv, Connect
    PROVE  Inv'
<1>1. TypeOK'
  BY PeerIsTheOther, LinkTypes DEF Inv, TypeOK, Optional, Connect, callerVars, handlerVars,
     promptVars, storeVars, counters
<1>2. ConsentInv'
  BY DEF Inv, TypeOK, ConsentInv, Connect, callerVars, handlerVars, storeVars
<1>3. \A e \in Device : Vouched(e) => Vouched(e)'
  BY DEF Inv, TypeOK, Vouched, Connect, handlerVars, storeVars
<1>4. MutualInv'
  BY <1>3, PeerIsTheOther DEF Inv, TypeOK, MutualInv, AcceptedIn, Connect, callerVars
<1> QED  BY <1>1, <1>2, <1>4 DEF Inv

\* An end is closed.
LEMMA CloseEndKeeps ==
    ASSUME Inv, NEW d \in Device, CloseEnd(d)
    PROVE  Inv'
<1>1. TypeOK'
  BY PeerIsTheOther, LinkTypes DEF Inv, TypeOK, Optional, CloseEnd, callerVars, handlerVars,
     promptVars, storeVars, counters
<1>2. ConsentInv'
  BY DEF Inv, TypeOK, ConsentInv, CloseEnd, callerVars, handlerVars, storeVars
<1>3. \A e \in Device : Vouched(e) => Vouched(e)'
  BY DEF Inv, TypeOK, Vouched, CloseEnd, handlerVars, storeVars
<1>4. MutualInv'
  BY <1>3, PeerIsTheOther DEF Inv, TypeOK, MutualInv, AcceptedIn, CloseEnd, callerVars
<1> QED  BY <1>1, <1>2, <1>4 DEF Inv

\* What had arrived is lost.
LEMMA DropKeeps ==
    ASSUME Inv, NEW d \in Device, Drop(d)
    PROVE  Inv'
<1>1. TypeOK'
  BY PeerIsTheOther, LinkTypes DEF Inv, TypeOK, Optional, Drop, callerVars, handlerVars,
     promptVars, storeVars, counters
<1>2. ConsentInv'  BY DEF Inv, TypeOK, ConsentInv, Drop, callerVars, handlerVars, storeVars
<1>3. \A e \in Device : Vouched(e) => Vouched(e)'
  BY DEF Inv, TypeOK, Vouched, Drop, handlerVars, storeVars
<1>4. MutualInv'
  BY <1>3, PeerIsTheOther DEF Inv, TypeOK, MutualInv, AcceptedIn, Drop, callerVars
<1> QED  BY <1>1, <1>2, <1>4 DEF Inv

\* A user asks for the other device.
LEMMA StartAddKeeps ==
    ASSUME Inv, NEW d \in Device, StartAdd(d)
    PROVE  Inv'
<1>1. TypeOK'
  BY PeerIsTheOther, LinkTypes DEF Inv, TypeOK, Optional, StartAdd, connVars, handlerVars,
     promptVars
<1>2. ConsentInv'  BY DEF Inv, TypeOK, ConsentInv, StartAdd, handlerVars
<1>3. \A e \in Device : Vouched(e) => Vouched(e)'
  BY DEF Inv, TypeOK, Vouched, StartAdd, handlerVars
<1>4. MutualInv'
  BY <1>3, PeerIsTheOther DEF Inv, TypeOK, MutualInv, AcceptedIn, StartAdd, connVars
<1> QED  BY <1>1, <1>2, <1>4 DEF Inv

\* The request is written, or fails.
LEMMA SendRequestKeeps ==
    ASSUME Inv, NEW d \in Device, SendRequest(d)
    PROVE  Inv'
<1>1. CASE d \in open
  <2>1. link' = [link EXCEPT ![Peer(d)] = Append(@, Request)] /\ add' = [add EXCEPT ![d] = "waiting"]
        /\ UNCHANGED <<open, conns, response, result, handlerVars, promptVars, storeVars, counters>>
    BY <1>1 DEF SendRequest
  <2>2. link' \in [Device -> Seq(Message)] /\ \A e \in Device : AcceptedIn(link'[e]) => AcceptedIn(link[e])
    BY <2>1, LinkTypes, MessagesDiffer, WrittenKeeps DEF Inv, TypeOK
  <2>3. TypeOK'
    BY <2>1, <2>2 DEF Inv, TypeOK, handlerVars, promptVars, storeVars, counters
  <2>4. ConsentInv'
    BY <2>1 DEF Inv, TypeOK, ConsentInv, SendRequest, handlerVars, storeVars
  <2>5. MutualInv'
    BY <2>1, <2>2, MutualStep DEF Inv, TypeOK, Vouched, handlerVars, storeVars
  <2> QED  BY <2>3, <2>4, <2>5 DEF Inv
<1>2. CASE d \notin open
  <2>1. Returns(d, "failed") /\ UNCHANGED <<open, conns, link, handlerVars, promptVars, storeVars, counters>>
    BY <1>2 DEF SendRequest
  <2>2. TypeOK'
    BY <2>1 DEF Inv, TypeOK, Optional, Returns, handlerVars, promptVars, storeVars, counters
  <2>3. ConsentInv'
    BY <2>1 DEF Inv, TypeOK, ConsentInv, Returns, handlerVars, storeVars
  <2>4. MutualInv'
    BY <2>1, MutualStep DEF Inv, TypeOK, Vouched, Returns, handlerVars, storeVars
  <2> QED  BY <2>2, <2>3, <2>4 DEF Inv
<1> QED  BY <1>1, <1>2

\* SendPeerAddRequest takes a response.
LEMMA TakeResponseKeeps ==
    ASSUME Inv, NEW d \in Device, TakeResponse(d)
    PROVE  Inv'
<1>1. PICK s \in {"accepted", "rejected"} : response[d] = <<s>>
  BY DEF Inv, TypeOK, Optional, TakeResponse
<1>2. Head(response[d]) = s /\ Tail(response[d]) = <<>>  BY <1>1
<1>3. UNCHANGED <<connVars, handlerVars, promptVars, storeVars, counters>>
  BY DEF TakeResponse
<1>4. response' = [response EXCEPT ![d] = <<>>]
  BY <1>2 DEF TakeResponse, Returns
<1>5. CASE s = "accepted"
  <2>1. add' = [add EXCEPT ![d] = "storing"] /\ result' = result
    BY <1>2, <1>5 DEF TakeResponse
  <2>2. TypeOK'
    BY <1>3, <1>4, <2>1 DEF Inv, TypeOK, Optional, connVars, handlerVars, promptVars, storeVars, counters
  <2>3. ConsentInv'
    BY <1>3, <2>1 DEF Inv, TypeOK, ConsentInv, TakeResponse, handlerVars, storeVars
  <2>4. MutualInv'
    BY <1>1, <1>3, <1>4, <1>5, <2>1, MutualStep DEF Inv, TypeOK, Vouched, connVars, handlerVars, storeVars
  <2> QED  BY <2>2, <2>3, <2>4 DEF Inv
<1>6. CASE s = "rejected"
  <2>1. add' = [add EXCEPT ![d] = "idle"] /\ result' = [result EXCEPT ![d] = "rejected"]
    BY <1>2, <1>6 DEF TakeResponse, Returns
  <2>2. TypeOK'
    BY <1>3, <1>4, <2>1 DEF Inv, TypeOK, Optional, connVars, handlerVars, promptVars, storeVars, counters
  <2>3. ConsentInv'
    BY <1>3, <2>1 DEF Inv, TypeOK, ConsentInv, handlerVars, storeVars
  <2>4. MutualInv'
    BY <1>3, <1>4, <2>1, MutualStep DEF Inv, TypeOK, Vouched, connVars, handlerVars, storeVars
  <2> QED  BY <2>2, <2>3, <2>4 DEF Inv
<1> QED  BY <1>5, <1>6

\* SendPeerAddRequest stores the peer.
LEMMA StoreAcceptedKeeps ==
    ASSUME Inv, NEW d \in Device, StoreAccepted(d)
    PROVE  Inv'
<1>1. TypeOK'
  BY PeerIsTheOther, LinkTypes DEF Inv, TypeOK, Optional, StoreAccepted, AddPeer, Returns,
     connVars, handlerVars, promptVars, counters
<1>2. ConsentInv'
  BY DEF Inv, TypeOK, Optional, ConsentInv, StoreAccepted, AddPeer, Returns, connVars,
     handlerVars, promptVars, counters
<1>3. \A e \in Device : Vouched(e) => Vouched(e)'
  BY DEF Inv, TypeOK, Vouched, StoreAccepted, AddPeer, handlerVars
<1>4. MutualInv'
  BY <1>3, PeerIsTheOther DEF Inv, TypeOK, MutualInv, AcceptedIn, StoreAccepted, Returns,
     connVars
<1> QED  BY <1>1, <1>2, <1>4 DEF Inv

\* SendPeerAddRequest times out.
LEMMA GiveUpKeeps ==
    ASSUME Inv, NEW d \in Device, GiveUp(d)
    PROVE  Inv'
<1>1. TypeOK'
  BY PeerIsTheOther, LinkTypes DEF Inv, TypeOK, Optional, GiveUp, Returns, connVars,
     handlerVars, promptVars, storeVars, counters
<1>2. ConsentInv'
  BY DEF Inv, TypeOK, Optional, ConsentInv, GiveUp, Returns, connVars, handlerVars,
     promptVars, storeVars, counters
<1>3. \A e \in Device : Vouched(e) => Vouched(e)'
  BY DEF Inv, TypeOK, Vouched, GiveUp, handlerVars, storeVars
<1>4. MutualInv'
  BY <1>3, PeerIsTheOther DEF Inv, TypeOK, MutualInv, AcceptedIn, GiveUp, Returns,
     connVars
<1> QED  BY <1>1, <1>2, <1>4 DEF Inv

\* A response is put into the channel.
LEMMA HandlePeerAddResponseKeeps ==
    ASSUME Inv, NEW d \in Device, HandlePeerAddResponse(d)
    PROVE  Inv'
<1> DEFINE m == Head(link[d])
<1>1. link[d] \in Seq(Message) /\ link[d] # <<>> /\ m \in Message /\ m.type = "peer_add_response"
  BY LinkTypes DEF Inv, TypeOK, HandlePeerAddResponse, Receives
<1>2. m.status \in {"accepted", "rejected"} /\ (m.status = "accepted" => AcceptedIn(link[d]))
  BY <1>1, MessagesDiffer DEF AcceptedIn
<1>3. link' = [link EXCEPT ![d] = Tail(@)]
      /\ UNCHANGED <<open, conns, add, result, handlerVars, promptVars, storeVars, counters>>
  BY DEF HandlePeerAddResponse, Taken
<1>4. link' \in [Device -> Seq(Message)]  BY <1>1, <1>3, LinkTypes DEF Inv, TypeOK
<1>5. \A e \in Device : AcceptedIn(link'[e]) => AcceptedIn(link[e])
  BY <1>1, <1>3, AcceptedKept DEF Inv, TypeOK
<1> DEFINE s == m.status
<1>6. response' = response \/ response' = [response EXCEPT ![d] = <<s>>]
  BY DEF HandlePeerAddResponse, Deliver
<1>a. s \in {"accepted", "rejected"} /\ (s = "accepted" => AcceptedIn(link[d]))  BY <1>2
<1>b. <<s>> \in Optional({"accepted", "rejected"})  BY <1>a DEF Optional
<1> HIDE DEF m, s
<1>7. response' \in [Device -> Optional({"accepted", "rejected"})]
  BY <1>6, <1>b DEF Inv, TypeOK
<1>8. TypeOK'
  BY <1>3, <1>4, <1>7 DEF Inv, TypeOK, handlerVars, promptVars, storeVars, counters
<1>9. ConsentInv'  BY <1>3 DEF Inv, ConsentInv, handlerVars, storeVars
<1>10. \A e \in Device : response'[e] = <<"accepted">> => response[e] = <<"accepted">> \/ AcceptedIn(link[e])
  <2>1. <<s>> = <<"accepted">> => s = "accepted"  OBVIOUS
  <2> QED  BY <1>6, <1>a, <2>1 DEF Inv, TypeOK
<1>11. MutualInv'
  BY <1>3, <1>5, <1>10, MutualStep DEF Vouched, handlerVars, storeVars
<1> QED  BY <1>8, <1>9, <1>11 DEF Inv

\* The cooldown drops a request.
LEMMA DropRequestKeeps ==
    ASSUME Inv, NEW d \in Device, DropRequest(d)
    PROVE  Inv'
<1>1. TypeOK'
  BY PeerIsTheOther, LinkTypes DEF Inv, TypeOK, Optional, DropRequest, Receives, Taken,
     callerVars, handlerVars, promptVars, storeVars, counters
<1>2. ConsentInv'
  BY DEF Inv, TypeOK, ConsentInv, DropRequest, callerVars, handlerVars, storeVars
<1>3. \A e \in Device : Vouched(e) => Vouched(e)'
  BY DEF Inv, TypeOK, Vouched, DropRequest, handlerVars, storeVars
<1>4. MutualInv'
  BY <1>3, PeerIsTheOther DEF Inv, TypeOK, MutualInv, AcceptedIn, DropRequest, Receives,
     Taken, callerVars
<1> QED  BY <1>1, <1>2, <1>4 DEF Inv

\* A request that crosses an own one is accepted.
LEMMA AutoAcceptKeeps ==
    ASSUME Inv, NEW d \in Device, AutoAccept(d)
    PROVE  Inv'
<1>1. TypeOK'
  BY PeerIsTheOther, LinkTypes DEF Inv, TypeOK, Optional, AutoAccept, Receives, Taken,
     callerVars, promptVars, storeVars, counters
<1>2. ConsentInv'  BY DEF Inv, TypeOK, ConsentInv, AutoAccept, callerVars, storeVars
<1>3. \A e \in Device : Vouched(e) => Vouched(e)'
  BY DEF Inv, TypeOK, Vouched, AutoAccept, Receives, Taken, callerVars, promptVars,
     storeVars, counters
<1>4. MutualInv'
  BY <1>3, PeerIsTheOther DEF Inv, TypeOK, MutualInv, AcceptedIn, AutoAccept, Receives,
     Taken, callerVars
<1> QED  BY <1>1, <1>2, <1>4 DEF Inv

\* The user is to be asked.
LEMMA AskUserKeeps ==
    ASSUME Inv, NEW d \in Device, AskUser(d)
    PROVE  Inv'
<1>1. TypeOK'
  BY PeerIsTheOther, LinkTypes DEF Inv, TypeOK, Optional, AskUser, Receives, Taken,
     callerVars, storeVars, counters
<1>2. ConsentInv'  BY DEF Inv, TypeOK, ConsentInv, AskUser, callerVars, storeVars
<1>3. \A e \in Device : Vouched(e) => Vouched(e)'
  BY DEF Inv, TypeOK, Vouched, AskUser, Receives, Taken, callerVars, storeVars, counters
<1>4. MutualInv'
  BY <1>3, PeerIsTheOther DEF Inv, TypeOK, MutualInv, AcceptedIn, AskUser, Receives,
     Taken, callerVars
<1> QED  BY <1>1, <1>2, <1>4 DEF Inv

\* The decision reaches the loop.
\* A refusal takes the handler back and writes no acceptance.
LEMMA RefuseKeeps ==
    ASSUME Inv, NEW d \in Device, Refuse(d), handler[d] = "deciding",
           UNCHANGED <<conns, callerVars, cooling, promptVars, storeVars, counters>>
    PROVE  Inv'
<1>1. link' \in [Device -> Seq(Message)] /\ \A e \in Device : AcceptedIn(link'[e]) => AcceptedIn(link[e])
  <2>1. CASE d \in open
    BY <2>1, LinkTypes, MessagesDiffer, WrittenKeeps DEF Inv, TypeOK, Refuse
  <2>2. CASE d \notin open  BY <2>2 DEF Inv, TypeOK, Refuse
  <2> QED  BY <2>1, <2>2
<1>2. TypeOK'
  BY <1>1 DEF Inv, TypeOK, Optional, Refuse, Withdraw, callerVars, promptVars, storeVars, counters
<1>3. ConsentInv'
  BY DEF Inv, TypeOK, ConsentInv, Refuse, Withdraw, callerVars, storeVars
<1>4. MutualInv'
  BY <1>1, MutualStep DEF Inv, TypeOK, Vouched, Refuse, callerVars, storeVars
<1> QED  BY <1>2, <1>3, <1>4 DEF Inv

\* The decision reaches the loop.
LEMMA DecidedKeeps ==
    ASSUME Inv, NEW d \in Device, Decided(d)
    PROVE  Inv'
<1>1. PICK c \in {"accept", "reject"} : decision[d] = <<c>>
  BY DEF Inv, TypeOK, Optional, Decided
<1>2. Head(decision[d]) = c  BY <1>1
<1>3. CASE c = "accept"
  <2>1. handler' = [handler EXCEPT ![d] = "accepting"] /\ Withdraw(d)
        /\ UNCHANGED <<open, link, conns, callerVars, cooling, promptVars, storeVars, counters>>
    BY <1>2, <1>3 DEF Decided
  <2>2. TypeOK'
    BY <2>1 DEF Inv, TypeOK, Optional, Withdraw, callerVars, promptVars, storeVars, counters
  <2>3. ConsentInv'
    BY <1>1, <1>3, <2>1 DEF Inv, TypeOK, ConsentInv, Withdraw, callerVars, storeVars
  <2>4. MutualInv'
    BY <2>1, MutualStep DEF Inv, TypeOK, Vouched, Decided, callerVars, storeVars
  <2> QED  BY <2>2, <2>3, <2>4 DEF Inv
<1>4. CASE c = "reject"  BY <1>2, <1>4, RefuseKeeps DEF Decided
<1> QED  BY <1>3, <1>4

\* The decision times out.
LEMMA DecisionTimeoutKeeps ==
    ASSUME Inv, NEW d \in Device, DecisionTimeout(d)
    PROVE  Inv'
BY RefuseKeeps DEF DecisionTimeout

\* The connection ends before the decision.
LEMMA DecisionMootKeeps ==
    ASSUME Inv, NEW d \in Device, DecisionMoot(d)
    PROVE  Inv'
<1>1. TypeOK'
  BY PeerIsTheOther, LinkTypes DEF Inv, TypeOK, Optional, DecisionMoot, Withdraw, connVars,
     callerVars, promptVars, storeVars, counters
<1>2. ConsentInv'
  BY DEF Inv, TypeOK, ConsentInv, DecisionMoot, Withdraw, callerVars, storeVars
<1>3. \A e \in Device : Vouched(e) => Vouched(e)'
  BY DEF Inv, TypeOK, Vouched, DecisionMoot, storeVars
<1>4. MutualInv'
  BY <1>3, PeerIsTheOther DEF Inv, TypeOK, MutualInv, AcceptedIn, DecisionMoot, connVars,
     callerVars
<1> QED  BY <1>1, <1>2, <1>4 DEF Inv

\* The acceptance is written.
LEMMA SendAcceptedKeeps ==
    ASSUME Inv, NEW d \in Device, SendAccepted(d)
    PROVE  Inv'
<1>1. CASE d \in open
  <2>1. link' = [link EXCEPT ![Peer(d)] = Append(@, Response("accepted"))]
        /\ handler' = [handler EXCEPT ![d] = "storing"]
    BY <1>1 DEF SendAccepted
  <2>2. link' \in [Device -> Seq(Message)]
        /\ \A e \in Device : AcceptedIn(link'[e]) => AcceptedIn(link[e]) \/ e = Peer(d)
    BY <2>1, LinkTypes, WrittenKeeps DEF Inv, TypeOK
  <2>3. TypeOK'
    BY <2>1, <2>2 DEF Inv, TypeOK, SendAccepted, callerVars, promptVars, storeVars, counters
  <2>4. ConsentInv'
    BY <2>1 DEF Inv, TypeOK, ConsentInv, SendAccepted, callerVars, storeVars
  <2>5. \A e \in Device : Vouched(e) => Vouched(e)'
    BY <2>1 DEF Inv, TypeOK, Vouched, SendAccepted, storeVars
  <2>6. Vouched(d)'  BY <2>1 DEF Inv, TypeOK, Vouched
  <2>7. \A e \in Device : AcceptedIn(link'[e]) => AcceptedIn(link[e]) \/ Vouched(Peer(e))'
    BY <2>2, <2>6, PeerIsTheOther
  <2>8. MutualInv'  BY <2>5, <2>7, MutualStep DEF SendAccepted, callerVars
  <2> QED  BY <2>3, <2>4, <2>8 DEF Inv
<1>2. CASE d \notin open
  <2>1. handler' = [handler EXCEPT ![d] = "idle"] /\ link' = link  BY <1>2 DEF SendAccepted
  <2>2. TypeOK'
    BY <2>1 DEF Inv, TypeOK, SendAccepted, callerVars, promptVars, storeVars, counters
  <2>3. ConsentInv'
    BY <2>1 DEF Inv, TypeOK, ConsentInv, SendAccepted, callerVars, storeVars
  <2>4. MutualInv'
    BY <2>1, MutualStep DEF Inv, TypeOK, Vouched, SendAccepted, callerVars, storeVars
  <2> QED  BY <2>2, <2>3, <2>4 DEF Inv
<1> QED  BY <1>1, <1>2

\* The accepting side stores the peer.
LEMMA StorePeerKeeps ==
    ASSUME Inv, NEW d \in Device, StorePeer(d)
    PROVE  Inv'
<1>1. TypeOK'
  BY PeerIsTheOther, LinkTypes DEF Inv, TypeOK, Optional, StorePeer, AddPeer, connVars,
     callerVars, promptVars, counters
<1>2. ConsentInv'  BY DEF Inv, TypeOK, ConsentInv, StorePeer, AddPeer, callerVars
<1>3. \A e \in Device : Vouched(e) => Vouched(e)'
  BY DEF Inv, TypeOK, Vouched, StorePeer, AddPeer
<1>4. MutualInv'
  BY <1>3, PeerIsTheOther DEF Inv, TypeOK, MutualInv, AcceptedIn, StorePeer, connVars,
     callerVars
<1> QED  BY <1>1, <1>2, <1>4 DEF Inv

\* The cooldown ends.
LEMMA CooldownEndsKeeps ==
    ASSUME Inv, NEW d \in Device, CooldownEnds(d)
    PROVE  Inv'
<1>1. TypeOK'
  BY PeerIsTheOther, LinkTypes DEF Inv, TypeOK, Optional, CooldownEnds, connVars,
     callerVars, promptVars, storeVars, counters
<1>2. ConsentInv'  BY DEF Inv, TypeOK, ConsentInv, CooldownEnds, callerVars, storeVars
<1>3. \A e \in Device : Vouched(e) => Vouched(e)'
  BY DEF Inv, TypeOK, Vouched, CooldownEnds, storeVars
<1>4. MutualInv'
  BY <1>3, PeerIsTheOther DEF Inv, TypeOK, MutualInv, AcceptedIn, CooldownEnds, connVars,
     callerVars
<1> QED  BY <1>1, <1>2, <1>4 DEF Inv

\* The prompt is shown.
LEMMA ShowPromptKeeps ==
    ASSUME Inv, NEW d \in Device, ShowPrompt(d)
    PROVE  Inv'
<1>1. TypeOK'
  BY PeerIsTheOther, LinkTypes DEF Inv, TypeOK, Optional, ShowPrompt, connVars, callerVars,
     handlerVars, storeVars, counters
<1>2. ConsentInv'
  BY DEF Inv, TypeOK, ConsentInv, ShowPrompt, callerVars, handlerVars, storeVars
<1>3. \A e \in Device : Vouched(e) => Vouched(e)'
  BY DEF Inv, TypeOK, Vouched, ShowPrompt, handlerVars, storeVars
<1>4. MutualInv'
  BY <1>3, PeerIsTheOther DEF Inv, TypeOK, MutualInv, AcceptedIn, ShowPrompt, connVars,
     callerVars
<1> QED  BY <1>1, <1>2, <1>4 DEF Inv

\* The user answers the prompt.
LEMMA AnswerPromptKeeps ==
    ASSUME Inv, NEW d \in Device, NEW choice \in {"accept", "reject"}, AnswerPrompt(d, choice)
    PROVE  Inv'
<1>1. decision' = decision \/ decision' = [decision EXCEPT ![d] = <<choice>>]
  BY DEF AnswerPrompt, ApprovePeerAdd
<1>2. decision' \in [Device -> Optional({"accept", "reject"})]
  <2>1. <<choice>> \in Optional({"accept", "reject"})  BY DEF Optional
  <2> QED  BY <1>1, <2>1 DEF Inv, TypeOK
<1>3. inboundAddPending' \in [Device -> BOOLEAN]
  BY DEF Inv, TypeOK, AnswerPrompt, ApprovePeerAdd
<1>4. TypeOK'
  BY <1>2, <1>3 DEF Inv, TypeOK, AnswerPrompt, connVars, callerVars, counters
<1>5. ConsentInv'
  <2>1. <<choice>> = <<"accept">> => choice = "accept"  OBVIOUS
  <2>2. \A e \in Device : decision'[e] = <<"accept">>
                          => decision[e] = <<"accept">> \/ (e = d /\ choice = "accept")
    BY <1>1, <2>1 DEF Inv, TypeOK
  <2>3. \A e \in Device : consented[e] => consented'[e]
    BY DEF Inv, TypeOK, AnswerPrompt
  <2>4. choice = "accept" => consented'[d]  BY DEF Inv, TypeOK, AnswerPrompt
  <2> QED  BY <2>2, <2>3, <2>4 DEF Inv, ConsentInv, AnswerPrompt, callerVars
<1>6. MutualInv'
  BY MutualStep DEF Vouched, AnswerPrompt, connVars, callerVars
<1> QED  BY <1>4, <1>5, <1>6 DEF Inv

\* A user removes the peer.
LEMMA SendPeerRemoveKeeps ==
    ASSUME Inv, NEW d \in Device, SendPeerRemove(d)
    PROVE  Inv'
<1>1. link' \in [Device -> Seq(Message)] /\ \A e \in Device : AcceptedIn(link'[e]) => AcceptedIn(link[e])
  <2>1. CASE d \in open
    BY <2>1, LinkTypes, MessagesDiffer, WrittenKeeps DEF Inv, TypeOK, SendPeerRemove
  <2>2. CASE d \notin open  BY <2>2 DEF Inv, TypeOK, SendPeerRemove
  <2> QED  BY <2>1, <2>2
<1>2. TypeOK'
  BY <1>1 DEF Inv, TypeOK, SendPeerRemove, RemovePeer, callerVars, handlerVars, promptVars
<1>3. ConsentInv'
  BY DEF Inv, TypeOK, ConsentInv, SendPeerRemove, RemovePeer, callerVars, handlerVars
<1>4. MutualInv'
  BY <1>1, MutualStep DEF Inv, TypeOK, Vouched, SendPeerRemove, RemovePeer, callerVars, handlerVars
<1> QED  BY <1>2, <1>3, <1>4 DEF Inv

\* The other side has removed this one.
LEMMA HandlePeerRemoveKeeps ==
    ASSUME Inv, NEW d \in Device, HandlePeerRemove(d)
    PROVE  Inv'
<1>1. TypeOK'
  BY PeerIsTheOther, LinkTypes DEF Inv, TypeOK, Optional, HandlePeerRemove, RemovePeer,
     callerVars, handlerVars, promptVars, counters
<1>2. ConsentInv'
  BY DEF Inv, TypeOK, ConsentInv, HandlePeerRemove, RemovePeer, callerVars, handlerVars
<1>3. \A e \in Device : Vouched(e) => Vouched(e)'
  BY DEF Inv, TypeOK, Vouched, HandlePeerRemove, RemovePeer, handlerVars
<1>4. MutualInv'
  BY <1>3, PeerIsTheOther DEF Inv, TypeOK, MutualInv, AcceptedIn, HandlePeerRemove,
     RemovePeer, Receives, callerVars
<1> QED  BY <1>1, <1>2, <1>4 DEF Inv

\* The process ends.
LEMMA CrashKeeps ==
    ASSUME Inv, NEW d \in Device, Crash(d)
    PROVE  Inv'
<1>1. TypeOK'
  BY DEF Inv, TypeOK, Optional, Crash, Withdraw
<1>2. ConsentInv'  BY DEF Inv, TypeOK, ConsentInv, Crash, Withdraw
<1>3. \A e \in Device : Vouched(e) => Vouched(e)'  BY DEF Inv, TypeOK, Vouched, Crash
<1>4. \A e \in Device : AcceptedIn(link'[e]) => AcceptedIn(link[e])
  BY AcceptedKept DEF Inv, TypeOK, Crash, AcceptedIn
<1>5. MutualInv'  BY <1>3, <1>4, MutualStep DEF Inv, TypeOK, Crash
<1> QED  BY <1>1, <1>2, <1>5 DEF Inv

-----------------------------------------------------------------------------
(* The invariant holds in every reachable state. *)

\* It holds when both devices start.
LEMMA InitInv ==
    ASSUME Init
    PROVE  Inv
<1>1. TypeOK  BY DEF Init, TypeOK, Optional
<1>2. ConsentInv /\ MutualInv  BY DEF Init, ConsentInv, MutualInv, AcceptedIn
<1> QED  BY <1>1, <1>2 DEF Inv

\* Every step of the two devices keeps it.
LEMMA NextInv ==
    ASSUME Inv, [Next]_vars
    PROVE  Inv'
<1>1. CASE Connect  BY <1>1, ConnectKeeps
<1>2. ASSUME NEW d \in Device, Caller(d)
      PROVE  Inv'
  BY <1>2, SendRequestKeeps, TakeResponseKeeps, StoreAcceptedKeeps, GiveUpKeeps DEF Caller
<1>3. ASSUME NEW d \in Device, Loop(d)
      PROVE  Inv'
  BY <1>3, HandlePeerAddResponseKeeps, DropRequestKeeps, AutoAcceptKeeps, AskUserKeeps,
     DecidedKeeps, DecisionTimeoutKeeps, DecisionMootKeeps, SendAcceptedKeeps, StorePeerKeeps,
     HandlePeerRemoveKeeps, DropKeeps DEF Loop
<1>4. ASSUME NEW d \in Device, User(d)
      PROVE  Inv'
  BY <1>4, StartAddKeeps, ShowPromptKeeps, AnswerPromptKeeps, SendPeerRemoveKeeps DEF User
<1>5. ASSUME NEW d \in Device, Environment(d)
      PROVE  Inv'
  BY <1>5, CloseEndKeeps, CooldownEndsKeeps, CrashKeeps DEF Environment
<1>6. CASE UNCHANGED vars
  BY <1>6 DEF Inv, TypeOK, ConsentInv, MutualInv, Vouched, vars, connVars, callerVars,
              handlerVars, promptVars, storeVars, counters
<1> QED  BY <1>1, <1>2, <1>3, <1>4, <1>5, <1>6 DEF Next

\* The invariant holds in every reachable state.
THEOREM InvariantHolds == Spec => []Inv
<1>1. Init => Inv  BY InitInv
<1>2. Inv /\ [Next]_vars => Inv'  BY NextInv
<1> QED  BY <1>1, <1>2, PTL DEF Spec

\* The variables keep their types; neither channel ever holds more than one
\* value (handlePeerAddResponse, ApprovePeerAdd).
THEOREM TypeCorrect == Spec => []TypeOK
<1>1. Inv => TypeOK  BY DEF Inv
<1> QED  BY <1>1, InvariantHolds, PTL

\* Nobody is stored as a peer without a consent of the user, however requests,
\* responses, timeouts, stale prompts and automatic acceptances cross
\* (handlePeerAddRequest, SendPeerAddRequest).
THEOREM ConsentIsNeeded == Spec => []StoredWithConsent
<1>1. Inv => StoredWithConsent  BY DEF Inv, ConsentInv, StoredWithConsent
<1> QED  BY <1>1, InvariantHolds, PTL

\* A request that returned accepted is mutual, unless the other side has removed
\* this one, been removed or crashed since (handlePeerAddRequest).
THEOREM AcceptanceIsMutual == Spec => []AcceptedIsMutual
<1>1. Inv => AcceptedIsMutual  BY DEF Inv, MutualInv, Vouched, AcceptedIsMutual
<1> QED  BY <1>1, InvariantHolds, PTL
=============================================================================
