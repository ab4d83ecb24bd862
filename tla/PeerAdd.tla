------------------------------ MODULE PeerAdd -------------------------------
(***************************************************************************)
(* How two connected devices add and remove one another as peers           *)
(* (network/peer_manager.go), with the prompt of the user interface that   *)
(* asks for the decision (ui/main_window.go).  A device runs one loop per  *)
(* connection, which handles a message to its end before it takes the next *)
(* and so stands still while the user is asked; the caller of              *)
(* SendPeerAddRequest, the timers and the prompt loop run beside it.  One  *)
(* connection is in service at a time (module Connections).                *)
(***************************************************************************)
EXTENDS Naturals, Sequences

CONSTANTS Device,    \* the two devices
          MaxConns,  \* bound on the connections made
          MaxAdds,   \* bound on the add requests
          MaxFaults  \* bound on removals and crashes

ASSUME TwoDevices == \E a, b \in Device : a # b /\ Device = {a, b}
ASSUME Bounds == MaxConns \in Nat /\ MaxAdds \in Nat /\ MaxFaults \in Nat

VARIABLES open,      \* the ends of the current connection that are open
          link,      \* what is on its way to each device
          conns,     \* connections made so far
          add,       \* the caller of SendPeerAddRequest at each device
          response,  \* its response channel, of capacity one
          handler,   \* the loop's handlePeerAddRequest at each device
          cooling,   \* whether the cooldown of the last request still runs
          inboundAddPending, \* whether a handler's decision can be given
          decision,  \* the decision channel of that handler, of capacity one
          addRequests, \* notifications the user interface has not taken
          prompt,    \* whether the user is being asked
          peers,     \* whether the store has a row of the other device
          consented, \* whether the user ever asked for or accepted the other
          result,    \* what the last add request of each device returned
          forgot,    \* whether a device removed its peer, was removed, or crashed
          adds,      \* add requests made so far
          faults     \* removals and crashes so far

connVars == <<open, link, conns>>
callerVars == <<add, response, result>>
handlerVars == <<handler, cooling, inboundAddPending, decision>>
promptVars == <<addRequests, prompt>>
storeVars == <<peers, consented, forgot>>
counters == <<adds, faults>>
vars == <<connVars, callerVars, handlerVars, promptVars, storeVars, counters>>

Peer(d) == CHOOSE e \in Device : e # d

Request == [type |-> "peer_add_request"]
Response(status) == [type |-> "peer_add_response", status |-> status]
Removal == [type |-> "peer_remove"]

Message == {Request, Response("accepted"), Response("rejected"), Removal}

Init ==
    /\ open = {}
    /\ link = [d \in Device |-> <<>>]
    /\ conns = 0
    /\ add = [d \in Device |-> "idle"]
    /\ response = [d \in Device |-> <<>>]
    /\ handler = [d \in Device |-> "idle"]
    /\ cooling = [d \in Device |-> FALSE]
    /\ inboundAddPending = [d \in Device |-> FALSE]
    /\ decision = [d \in Device |-> <<>>]
    /\ addRequests = [d \in Device |-> 0]
    /\ prompt = [d \in Device |-> FALSE]
    /\ peers = [d \in Device |-> FALSE]
    /\ consented = [d \in Device |-> FALSE]
    /\ result = [d \in Device |-> "none"]
    /\ forgot = [d \in Device |-> FALSE]
    /\ adds = 0
    /\ faults = 0

\* The row of the other device is inserted, or is there already.
AddPeer(d) == peers' = [peers EXCEPT ![d] = TRUE]

RemovePeer(d) ==
    /\ peers' = [peers EXCEPT ![d] = FALSE]
    /\ forgot' = [forgot EXCEPT ![d] = TRUE]

-----------------------------------------------------------------------------
(* The connection.                                                         *)

\* Both ends register a new connection when nothing of the last one is left.
Connect ==
    /\ open = {}
    /\ conns < MaxConns
    /\ \A d \in Device : handler[d] = "idle"
    /\ open' = Device
    /\ link' = [d \in Device |-> <<>>]
    /\ conns' = conns + 1
    /\ UNCHANGED <<callerVars, handlerVars, promptVars, storeVars, counters>>

\* An end is closed: by the network, or because the other end is.  What has
\* arrived may still be handled or not (see Drop).
CloseEnd(d) ==
    /\ d \in open
    /\ open' = open \ {d}
    /\ UNCHANGED <<link, conns, callerVars, handlerVars, promptVars, storeVars, counters>>

\* ReceiveMessage prefers the end of the connection to what has arrived.
Drop(d) ==
    /\ d \notin open
    /\ link[d] # <<>>
    /\ link' = [link EXCEPT ![d] = <<>>]
    /\ UNCHANGED <<open, conns, callerVars, handlerVars, promptVars, storeVars, counters>>

Receives(d, type) ==
    /\ link[d] # <<>>
    /\ Head(link[d]).type = type
    /\ handler[d] = "idle"

Taken(d) == link' = [link EXCEPT ![d] = Tail(@)]

-----------------------------------------------------------------------------
(* SendPeerAddRequest.                                                     *)

\* The request is marked as pending, with a response channel of its own.
StartAdd(d) ==
    /\ add[d] = "idle"
    /\ conns > 0
    /\ adds < MaxAdds
    /\ add' = [add EXCEPT ![d] = "pending"]
    /\ response' = [response EXCEPT ![d] = <<>>]
    /\ result' = [result EXCEPT ![d] = "none"]
    /\ consented' = [consented EXCEPT ![d] = TRUE]
    /\ adds' = adds + 1
    /\ UNCHANGED <<connVars, handlerVars, promptVars, peers, forgot, faults>>

\* The call returns, and its deferred cleanup takes the marks away.
Returns(d, r) ==
    /\ add' = [add EXCEPT ![d] = "idle"]
    /\ response' = [response EXCEPT ![d] = <<>>]
    /\ result' = [result EXCEPT ![d] = r]

SendRequest(d) ==
    /\ add[d] = "pending"
    /\ IF d \in open
       THEN /\ link' = [link EXCEPT ![Peer(d)] = Append(@, Request)]
            /\ add' = [add EXCEPT ![d] = "waiting"]
            /\ UNCHANGED <<response, result>>
       ELSE /\ Returns(d, "failed")
            /\ UNCHANGED link
    /\ UNCHANGED <<open, conns, handlerVars, promptVars, storeVars, counters>>

\* A response of any earlier request to this peer counts.
TakeResponse(d) ==
    /\ add[d] = "waiting"
    /\ response[d] # <<>>
    /\ IF Head(response[d]) = "accepted"
       THEN /\ add' = [add EXCEPT ![d] = "storing"]
            /\ response' = [response EXCEPT ![d] = Tail(@)]
            /\ UNCHANGED result
       ELSE Returns(d, "rejected")
    /\ UNCHANGED <<connVars, handlerVars, promptVars, storeVars, counters>>

\* persistPeerConnection, then the call returns accepted.
StoreAccepted(d) ==
    /\ add[d] = "storing"
    /\ AddPeer(d)
    /\ Returns(d, "accepted")
    /\ UNCHANGED <<connVars, handlerVars, promptVars, consented, forgot, counters>>

\* AddResponseTimeout.
GiveUp(d) ==
    /\ add[d] = "waiting"
    /\ Returns(d, "failed")
    /\ UNCHANGED <<connVars, handlerVars, promptVars, storeVars, counters>>

\* Mutated form: the response is queued even when the channel is full.
DeliverBlocking(d, status) == response' = [response EXCEPT ![d] = Append(@, status)]

\* The response goes into the channel if there is one and it has room.
Deliver(d, status) ==
    IF add[d] # "idle" /\ response[d] = <<>>
    THEN response' = [response EXCEPT ![d] = <<status>>]
    ELSE UNCHANGED response

HandlePeerAddResponse(d) ==
    /\ Receives(d, "peer_add_response")
    /\ Taken(d)
    /\ Deliver(d, Head(link[d]).status)
    /\ UNCHANGED <<open, conns, add, result, handlerVars, promptVars, storeVars, counters>>

-----------------------------------------------------------------------------
(* handlePeerAddRequest.                                                   *)

\* allowAddRequest drops the request without a word.
DropRequest(d) ==
    /\ Receives(d, "peer_add_request")
    /\ cooling[d]
    /\ Taken(d)
    /\ UNCHANGED <<open, conns, callerVars, handlerVars, promptVars, storeVars, counters>>

\* A request that crosses a pending one of this device is accepted unasked.
AutoAccept(d) ==
    /\ Receives(d, "peer_add_request")
    /\ ~ cooling[d]
    /\ add[d] # "idle"
    /\ Taken(d)
    /\ cooling' = [cooling EXCEPT ![d] = TRUE]
    /\ handler' = [handler EXCEPT ![d] = "accepting"]
    /\ UNCHANGED <<open, conns, callerVars, inboundAddPending, decision, promptVars, storeVars,
                   counters>>

\* Any other waits in the loop for the user's decision.
AskUser(d) ==
    /\ Receives(d, "peer_add_request")
    /\ ~ cooling[d]
    /\ add[d] = "idle"
    /\ Taken(d)
    /\ cooling' = [cooling EXCEPT ![d] = TRUE]
    /\ handler' = [handler EXCEPT ![d] = "deciding"]
    /\ inboundAddPending' = [inboundAddPending EXCEPT ![d] = TRUE]
    /\ decision' = [decision EXCEPT ![d] = <<>>]
    /\ addRequests' = [addRequests EXCEPT ![d] = @ + 1]
    /\ UNCHANGED <<open, conns, callerVars, prompt, storeVars, counters>>

\* removeInboundAddPendingIfMatch, and the channel goes with the handler.
Withdraw(d) ==
    /\ inboundAddPending' = [inboundAddPending EXCEPT ![d] = FALSE]
    /\ decision' = [decision EXCEPT ![d] = <<>>]

\* Rejected: the answer is written and the connection closed.
Refuse(d) ==
    /\ handler' = [handler EXCEPT ![d] = "idle"]
    /\ link' = IF d \in open
               THEN [link EXCEPT ![Peer(d)] = Append(@, Response("rejected"))] ELSE link
    /\ open' = open \ {d}
    /\ Withdraw(d)

\* The user's decision reaches the loop.
Decided(d) ==
    /\ handler[d] = "deciding"
    /\ decision[d] # <<>>
    /\ IF Head(decision[d]) = "accept"
       THEN /\ handler' = [handler EXCEPT ![d] = "accepting"]
            /\ Withdraw(d)
            /\ UNCHANGED <<open, link>>
       ELSE Refuse(d)
    /\ UNCHANGED <<conns, callerVars, cooling, promptVars, storeVars, counters>>

\* Mutated form: nobody having said no is taken for a yes.
TimeoutAccepts(d) ==
    /\ handler[d] = "deciding"
    /\ handler' = [handler EXCEPT ![d] = "accepting"]
    /\ Withdraw(d)
    /\ UNCHANGED <<connVars, callerVars, cooling, promptVars, storeVars, counters>>

\* Mutated form: the timer is stopped while a prompt is open.
TimeoutUnprompted(d) ==
    /\ handler[d] = "deciding"
    /\ ~ prompt[d]
    /\ Refuse(d)
    /\ UNCHANGED <<conns, callerVars, cooling, promptVars, storeVars, counters>>

\* AddResponseTimeout passes without one.
DecisionTimeout(d) ==
    /\ handler[d] = "deciding"
    /\ Refuse(d)
    /\ UNCHANGED <<conns, callerVars, cooling, promptVars, storeVars, counters>>

\* The connection ends meanwhile.
DecisionMoot(d) ==
    /\ handler[d] = "deciding"
    /\ d \notin open
    /\ handler' = [handler EXCEPT ![d] = "idle"]
    /\ Withdraw(d)
    /\ UNCHANGED <<connVars, callerVars, cooling, promptVars, storeVars, counters>>

\* Accepted: the answer is written first; if it cannot be, nothing is stored.
SendAccepted(d) ==
    /\ handler[d] = "accepting"
    /\ IF d \in open
       THEN /\ link' = [link EXCEPT ![Peer(d)] = Append(@, Response("accepted"))]
            /\ handler' = [handler EXCEPT ![d] = "storing"]
       ELSE /\ handler' = [handler EXCEPT ![d] = "idle"]
            /\ UNCHANGED link
    /\ UNCHANGED <<open, conns, callerVars, cooling, inboundAddPending, decision, promptVars,
                   storeVars, counters>>

\* Mutated form: a connection that has ended meanwhile is not stored.
StorePeerIfOpen(d) ==
    /\ handler[d] = "storing"
    /\ peers' = [peers EXCEPT ![d] = @ \/ d \in open]
    /\ handler' = [handler EXCEPT ![d] = "idle"]
    /\ UNCHANGED <<connVars, callerVars, cooling, inboundAddPending, decision, promptVars,
                   consented, forgot, counters>>

\* Then the row is written, whatever has become of the connection.
StorePeer(d) ==
    /\ handler[d] = "storing"
    /\ AddPeer(d)
    /\ handler' = [handler EXCEPT ![d] = "idle"]
    /\ UNCHANGED <<connVars, callerVars, cooling, inboundAddPending, decision, promptVars,
                   consented, forgot, counters>>

\* AddRequestCooldown is twice AddResponseTimeout: no handler of the request waits.
CooldownEnds(d) ==
    /\ cooling[d]
    /\ handler[d] # "deciding"
    /\ cooling' = [cooling EXCEPT ![d] = FALSE]
    /\ UNCHANGED <<connVars, callerVars, handler, inboundAddPending, decision, promptVars,
                   storeVars, counters>>

-----------------------------------------------------------------------------
(* The prompt.                                                             *)

\* pendingAddRequestLoop shows one request after the other.
ShowPrompt(d) ==
    /\ addRequests[d] > 0
    /\ ~ prompt[d]
    /\ addRequests' = [addRequests EXCEPT ![d] = @ - 1]
    /\ prompt' = [prompt EXCEPT ![d] = TRUE]
    /\ UNCHANGED <<connVars, callerVars, handlerVars, storeVars, counters>>

\* ApprovePeerAdd: the decision goes to whichever handler of the peer waits now.
ApprovePeerAdd(d, choice) ==
    IF inboundAddPending[d]
    THEN /\ inboundAddPending' = [inboundAddPending EXCEPT ![d] = FALSE]
         /\ decision' = [decision EXCEPT ![d] = <<choice>>]
    ELSE UNCHANGED <<inboundAddPending, decision>>

\* The prompt stays until the user answers it, also when nobody waits any more.
AnswerPrompt(d, choice) ==
    /\ prompt[d]
    /\ prompt' = [prompt EXCEPT ![d] = FALSE]
    /\ ApprovePeerAdd(d, choice)
    /\ consented' = [consented EXCEPT ![d] = @ \/ choice = "accept"]
    /\ UNCHANGED <<connVars, callerVars, handler, cooling, addRequests, peers, forgot, counters>>

-----------------------------------------------------------------------------
(* Removal and crashes.                                                    *)

\* SendPeerRemove: the connection is closed by it, or a little later.
SendPeerRemove(d) ==
    /\ peers[d]
    /\ faults < MaxFaults
    /\ faults' = faults + 1
    /\ link' = IF d \in open THEN [link EXCEPT ![Peer(d)] = Append(@, Removal)] ELSE link
    /\ RemovePeer(d)
    /\ UNCHANGED <<open, conns, callerVars, handlerVars, promptVars, consented, adds>>

HandlePeerRemove(d) ==
    /\ Receives(d, "peer_remove")
    /\ link' = [link EXCEPT ![d] = <<>>]
    /\ open' = open \ {d}
    /\ RemovePeer(d)
    /\ UNCHANGED <<conns, callerVars, handlerVars, promptVars, consented, counters>>

\* The process of a device ends: all but the store is gone.
Crash(d) ==
    /\ faults < MaxFaults
    /\ faults' = faults + 1
    /\ open' = open \ {d}
    /\ link' = [link EXCEPT ![d] = <<>>]
    /\ add' = [add EXCEPT ![d] = "idle"]
    /\ response' = [response EXCEPT ![d] = <<>>]
    /\ result' = [result EXCEPT ![d] = "none"]
    /\ handler' = [handler EXCEPT ![d] = "idle"]
    /\ cooling' = [cooling EXCEPT ![d] = FALSE]
    /\ Withdraw(d)
    /\ addRequests' = [addRequests EXCEPT ![d] = 0]
    /\ prompt' = [prompt EXCEPT ![d] = FALSE]
    /\ forgot' = [forgot EXCEPT ![d] = TRUE]
    /\ UNCHANGED <<conns, peers, consented, adds>>

-----------------------------------------------------------------------------
Caller(d) ==
    \/ SendRequest(d)
    \/ TakeResponse(d)
    \/ StoreAccepted(d)
    \/ GiveUp(d)

Loop(d) ==
    \/ HandlePeerAddResponse(d)
    \/ DropRequest(d)
    \/ AutoAccept(d)
    \/ AskUser(d)
    \/ Decided(d)
    \/ DecisionTimeout(d)
    \/ DecisionMoot(d)
    \/ SendAccepted(d)
    \/ StorePeer(d)
    \/ HandlePeerRemove(d)
    \/ Drop(d)

User(d) ==
    \/ StartAdd(d)
    \/ ShowPrompt(d)
    \/ \E choice \in {"accept", "reject"} : AnswerPrompt(d, choice)
    \/ SendPeerRemove(d)

Environment(d) == CloseEnd(d) \/ CooldownEnds(d) \/ Crash(d)

Next == Connect \/ \E d \in Device : Caller(d) \/ Loop(d) \/ User(d) \/ Environment(d)

Spec == Init /\ [][Next]_vars

\* The goroutines and their timers go on; the user need not answer.
FairSpec == Spec /\ \A d \in Device : WF_vars(Caller(d)) /\ WF_vars(Loop(d))

-----------------------------------------------------------------------------
(* Properties.                                                             *)

Optional(S) == {<<>>} \cup {<<x>> : x \in S}

\* Every variable stays in its domain; the two channels keep to their
\* capacity of one (handlePeerAddResponse, ApprovePeerAdd).
TypeOK ==
    /\ open \subseteq Device
    /\ link \in [Device -> Seq(Message)]
    /\ conns \in 0..MaxConns
    /\ add \in [Device -> {"idle", "pending", "waiting", "storing"}]
    /\ response \in [Device -> Optional({"accepted", "rejected"})]
    /\ handler \in [Device -> {"idle", "deciding", "accepting", "storing"}]
    /\ cooling \in [Device -> BOOLEAN]
    /\ inboundAddPending \in [Device -> BOOLEAN]
    /\ decision \in [Device -> Optional({"accept", "reject"})]
    /\ addRequests \in [Device -> Nat]
    /\ prompt \in [Device -> BOOLEAN]
    /\ peers \in [Device -> BOOLEAN]
    /\ consented \in [Device -> BOOLEAN]
    /\ result \in [Device -> {"none", "accepted", "rejected", "failed"}]
    /\ forgot \in [Device -> BOOLEAN]
    /\ adds \in 0..MaxAdds
    /\ faults \in 0..MaxFaults

\* A device is stored as a peer only where its user has asked for it or said
\* yes to it, however requests, responses, timeouts, stale prompts and
\* automatic acceptances cross (handlePeerAddRequest, SendPeerAddRequest).
StoredWithConsent == \A d \in Device : peers[d] => consented[d]

\* An add request that returned accepted is mutual: the other side has stored
\* this device, or is about to, unless it has since removed it, been removed
\* or crashed, also when the response answers an earlier request.
AcceptedIsMutual ==
    \A d \in Device :
       add[d] = "storing" \/ result[d] = "accepted"
       => peers[Peer(d)] \/ handler[Peer(d)] = "storing" \/ forgot[Peer(d)]

\* A loop that asks the user goes on whether or not the user ever answers
\* (the timer of handlePeerAddRequest).
LoopUnblocks == \A d \in Device : handler[d] = "deciding" ~> handler[d] # "deciding"
=============================================================================
