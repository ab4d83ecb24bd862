----------------------------- MODULE Discovery ------------------------------
(***************************************************************************)
(* How one device finds the others: each advertises itself with a token of *)
(* the hour (discovery/mdns.go), the scanner collects what answers a scan, *)
(* tells known devices by their token, keeps a cache and emits events      *)
(* (discovery/peer_scanner.go), and the user interface keeps a list of its *)
(* own, from the events and from the cache after a manual refresh          *)
(* (ui/main_window.go).  The scan loop, the event loop and a refresh are   *)
(* threads of their own.                                                   *)
(***************************************************************************)
EXTENDS Integers, Sequences, SequencesExt, FiniteSets

CONSTANTS Device,     \* the devices that advertise
          Self,       \* the one that scans
          Off,        \* no advertisement
          Capacity,   \* of the event channel
          StaleAfter, \* PeerStaleAfter, in ticks
          MaxHour,    \* bound on the clock
          MaxFace,    \* bound on the changes of name or port
          MaxTicks,   \* bound on the ticks that age the cache
          MaxRefreshes \* bound on manual refreshes

ASSUME SelfAdvertises == Self \in Device /\ Off \notin Device
ASSUME Sizes == Capacity \in Nat \ {0} /\ StaleAfter \in Nat \ {0}
ASSUME Bounds == IsFiniteSet(Device) /\ {MaxHour, MaxFace} \subseteq Nat

VARIABLES hour,       \* the hour of the clock
          advert,     \* what each device advertises
          face,       \* how often names and ports have changed
          known,      \* the peers in the store
          scan,       \* the scan loop: idle, or why it scans
          collected,  \* what the scan has found so far, by ID
          peers,      \* the scanner's cache, by ID, with ages
          events,     \* the event channel
          discovered, \* the list of the user interface, by ID
          rows,       \* what a refresh has read from the cache, or Off
          refresh,    \* the refresh: idle, requested, scanning, reading or writing
          raced,      \* whether an event was dropped, or a refresh overwrote newer news
          ticks, refreshes

networkVars == <<hour, advert, face, known>>
scannerVars == <<scan, collected, peers, events>>
uiVars == <<discovered, rows, refresh>>
counters == <<ticks, refreshes>>
vars == <<networkVars, scannerVars, uiVars, raced, counters>>

\* A known device is listed under its ID, another under one made from its
\* name and endpoint, which change with its face.
Known(d) == <<d>>
Unknown(d, f) == <<d, f>>
ID == {Known(d) : d \in Device} \cup {Unknown(d, f) : d \in Device, f \in 0..MaxFace}

Advert == [token : 0..MaxHour, face : 0..MaxFace]

Empty == [i \in {} |-> Off]

\* Changing one entry of a map, or taking it out.
Put(m, i, v) == [j \in DOMAIN m \cup {i} |-> IF j = i THEN v ELSE m[j]]
Without(m, S) == [j \in DOMAIN m \ S |-> m[j]]

\* A fresh advertisement: the token is computed here, once.
StartBroadcaster(f) == [token |-> hour, face |-> f]

Init ==
    /\ hour = 0
    /\ face = 0
    /\ advert = [d \in Device |-> IF d = Self THEN StartBroadcaster(0) ELSE Off]
    /\ known \in SUBSET (Device \ {Self})
    /\ scan = "idle"
    /\ collected = Empty
    /\ peers = Empty
    /\ events = <<>>
    /\ discovered = Empty
    /\ rows = Off
    /\ refresh = "idle"
    /\ raced = FALSE
    /\ ticks = 0
    /\ refreshes = 0

-----------------------------------------------------------------------------
(* The network.                                                            *)

HourPasses ==
    /\ hour < MaxHour
    /\ hour' = hour + 1
    /\ UNCHANGED <<advert, face, known, scannerVars, uiVars, raced, counters>>

\* A device starts, with the name and port it had or with others.
Appear(d) ==
    /\ advert[d] = Off
    /\ \E f \in {face, face + 1} :
         /\ f <= MaxFace
         /\ face' = f
         /\ advert' = [advert EXCEPT ![d] = StartBroadcaster(f)]
    /\ UNCHANGED <<hour, known, scannerVars, uiVars, raced, counters>>

\* Service.UpdateDeviceName: a new broadcaster takes the place of the old.
UpdateDeviceName(d) ==
    /\ advert[d] # Off
    /\ face < MaxFace
    /\ face' = face + 1
    /\ advert' = [advert EXCEPT ![d] = StartBroadcaster(face + 1)]
    /\ UNCHANGED <<hour, known, scannerVars, uiVars, raced, counters>>

Disappear(d) ==
    /\ d # Self
    /\ advert[d] # Off
    /\ advert' = [advert EXCEPT ![d] = Off]
    /\ UNCHANGED <<hour, face, known, scannerVars, uiVars, raced, counters>>

\* The device becomes a peer (module PeerAdd).
AddPeer(d) ==
    /\ d \notin known \cup {Self}
    /\ known' = known \cup {d}
    /\ UNCHANGED <<hour, advert, face, scannerVars, uiVars, raced, counters>>

-----------------------------------------------------------------------------
(* The scanner.                                                            *)

\* The first scan and those of the ticker.
StartScan ==
    /\ scan = "idle"
    /\ scan' = "ticker"
    /\ collected' = Empty
    /\ UNCHANGED <<networkVars, peers, events, uiVars, raced, counters>>

\* The loop takes the request of a refresh.
TakeRefresh ==
    /\ scan = "idle"
    /\ refresh = "requested"
    /\ scan' = "refresh"
    /\ refresh' = "scanning"
    /\ collected' = Empty
    /\ UNCHANGED <<networkVars, peers, events, discovered, rows, raced, counters>>

\* verifyTokenWithHourSkew, with a skew of one hour.
TokenHolds(token) == token \in (hour - 1)..(hour + 1)

\* resolveKnownPeerByToken, and the ID a device is listed under otherwise.
Resolve(d) ==
    IF d \in known \cup {Self} /\ TokenHolds(advert[d].token)
    THEN Known(d) ELSE Unknown(d, advert[d].face)

\* parseEntry of an answer: the device's own advertisement is left out.
Collect(d) ==
    /\ scan # "idle"
    /\ advert[d] # Off
    /\ Resolve(d) # Known(Self)
    /\ collected' = Put(collected, Resolve(d), advert[d])
    /\ UNCHANGED <<networkVars, scan, peers, events, uiVars, raced, counters>>

Fresh(i) == i \in DOMAIN peers /\ peers[i].age < StaleAfter

Upserted(i) == [type |-> "peer_upserted", id |-> i, entry |-> collected[i]]
Removed(i) == [type |-> "peer_removed", id |-> i, entry |-> peers[i].entry]

\* Mutated form: only a new ID is told, not a changed entry.
ToldIsNew(i) == i \notin DOMAIN peers

\* An entry is told when it is new or has changed (peersEqual).
Told(i) == i \notin DOMAIN peers \/ peers[i].entry # collected[i]

\* applySnapshot's events: what was found, then what has become stale, each
\* in the order of a Go map.
News ==
    LET upserts == {Upserted(i) : i \in {j \in DOMAIN collected : Told(j)}}
        removals == {Removed(i) : i \in {j \in DOMAIN peers \ DOMAIN collected : ~ Fresh(j)}} IN
    {us \o rs : us \in SetToSeqs(upserts), rs \in SetToSeqs(removals)}

\* Mutated form: the channel grows.
EmitBeyond(news) ==
    /\ events' = events \o news
    /\ raced' = (raced \/ (news # <<>> /\ refresh = "writing"))

\* emitEvent: an event that finds the channel full is dropped.
Emit(news) ==
    LET room == Capacity - Len(events) IN
    /\ events' = events \o SubSeq(news, 1, IF Len(news) < room THEN Len(news) ELSE room)
    /\ raced' = (raced \/ Len(news) > room \/ (news # <<>> /\ refresh = "writing"))

\* applySnapshot at the end of the scan; a cancelled refresh applies what it has.
ApplySnapshot ==
    /\ scan # "idle"
    /\ peers' = [i \in DOMAIN collected \cup {j \in DOMAIN peers : Fresh(j)} |->
                  IF i \in DOMAIN collected THEN [entry |-> collected[i], age |-> 0] ELSE peers[i]]
    /\ \E news \in News : Emit(news)
    /\ scan' = "idle"
    /\ collected' = Empty
    /\ refresh' = IF scan = "refresh" /\ refresh = "scanning" THEN "reading" ELSE refresh
    /\ UNCHANGED <<networkVars, discovered, rows, counters>>

\* Browsing fails, and the cache stays as it is.
ScanFails ==
    /\ scan # "idle"
    /\ scan' = "idle"
    /\ collected' = Empty
    /\ refresh' = IF scan = "refresh" /\ refresh = "scanning" THEN "idle" ELSE refresh
    /\ UNCHANGED <<networkVars, peers, events, discovered, rows, raced, counters>>

\* Time passes for what is in the cache.
Tick ==
    /\ ticks < MaxTicks
    /\ ticks' = ticks + 1
    /\ peers' = [i \in DOMAIN peers |->
                  [peers[i] EXCEPT !.age = IF @ < StaleAfter THEN @ + 1 ELSE @]]
    /\ UNCHANGED <<networkVars, scan, collected, events, uiVars, raced, refreshes>>

-----------------------------------------------------------------------------
(* The user interface.                                                     *)

\* What one event does to the list.
Applied(list, event) ==
    IF event.type = "peer_upserted"
    THEN Put(list, event.id, event.entry) ELSE Without(list, {event.id})

\* One round of discoveryEventLoop.
HandleEvent ==
    /\ events # <<>>
    /\ events' = Tail(events)
    /\ discovered' = Applied(discovered, Head(events))
    /\ raced' = (raced \/ refresh = "writing")
    /\ UNCHANGED <<networkVars, scan, collected, peers, rows, refresh, counters>>

\* refreshDiscovery: one at a time.
RefreshDiscovery ==
    /\ refresh = "idle"
    /\ refreshes < MaxRefreshes
    /\ refreshes' = refreshes + 1
    /\ refresh' = "requested"
    /\ UNCHANGED <<networkVars, scannerVars, discovered, rows, raced, ticks>>

\* Its twenty seconds pass while another scan runs, or its own.
RefreshTimesOut ==
    /\ refresh \in {"requested", "scanning"}
    /\ refresh' = "idle"
    /\ UNCHANGED <<networkVars, scannerVars, discovered, rows, raced, counters>>

Entries(m) == [i \in DOMAIN m |-> m[i].entry]

\* syncDiscoveredFromScanner reads the cache under the scanner's lock ...
SyncRead ==
    /\ refresh = "reading"
    /\ refresh' = "writing"
    /\ rows' = Entries(peers)
    /\ UNCHANGED <<networkVars, scannerVars, discovered, raced, counters>>

\* ... and replaces the list under another.
SyncWrite ==
    /\ refresh = "writing"
    /\ refresh' = "idle"
    /\ discovered' = rows
    /\ rows' = Off
    /\ UNCHANGED <<networkVars, scannerVars, raced, counters>>

-----------------------------------------------------------------------------
Network ==
    \/ HourPasses
    \/ Tick
    \/ \E d \in Device : Appear(d) \/ UpdateDeviceName(d) \/ Disappear(d) \/ AddPeer(d)

Scanner ==
    \/ StartScan
    \/ TakeRefresh
    \/ \E d \in Device : Collect(d)
    \/ ApplySnapshot
    \/ ScanFails

Interface ==
    \/ HandleEvent
    \/ RefreshDiscovery
    \/ RefreshTimesOut
    \/ SyncRead
    \/ SyncWrite

Next == Network \/ Scanner \/ Interface

Spec == Init /\ [][Next]_vars

-----------------------------------------------------------------------------
(* Properties.                                                             *)

Events == [type : {"peer_upserted", "peer_removed"}, id : ID, entry : Advert]

\* Every variable stays in its domain, and the channel within its capacity
\* (emitEvent never blocks and never overfills).
TypeOK ==
    /\ hour \in 0..MaxHour
    /\ advert \in [Device -> Advert \cup {Off}]
    /\ face \in 0..MaxFace
    /\ known \subseteq Device \ {Self}
    /\ scan \in {"idle", "ticker", "refresh"}
    /\ DOMAIN collected \subseteq ID /\ \A i \in DOMAIN collected : collected[i] \in Advert
    /\ DOMAIN peers \subseteq ID
    /\ \A i \in DOMAIN peers : peers[i] \in [entry : Advert, age : 0..StaleAfter]
    /\ events \in Seq(Events) /\ Len(events) <= Capacity
    /\ DOMAIN discovered \subseteq ID /\ \A i \in DOMAIN discovered : discovered[i] \in Advert
    /\ refresh = "writing"
         => DOMAIN rows \subseteq ID /\ \A i \in DOMAIN rows : rows[i] \in Advert
    /\ refresh \in {"idle", "requested", "scanning", "reading", "writing"}
    /\ raced \in BOOLEAN

\* What the cache has of an ID is what the list shows of it.
Shown(list, i) ==
    IF i \in DOMAIN peers
    THEN i \in DOMAIN list /\ list[i] = peers[i].entry ELSE i \notin DOMAIN list

\* Event k is the last one in the channel about an ID.
LastAbout(i, k) ==
    events[k].id = i /\ \A j \in DOMAIN events : j > k => events[j].id # i

\* The list of the user interface, once it has handled what is in the channel,
\* is the scanner's cache, although a refresh puts the cache in the list with
\* older events still to come: nothing is missed, and nothing that is gone
\* comes back, unless an event was dropped or came between the two locks of a
\* refresh (applySnapshot, discoveryEventLoop, syncDiscoveredFromScanner).
ListFollowsCache ==
    ~ raced =>
      \A i \in ID :
        \/ Shown(discovered, i) /\ \A k \in DOMAIN events : events[k].id # i
        \/ \E k \in DOMAIN events : LastAbout(i, k) /\ Shown(Applied(discovered, events[k]), i)
=============================================================================
