--------------------------- MODULE Discovery_proofs ---------------------------
(***************************************************************************)
(* Machine-checked proofs about Discovery, for any number of devices, any  *)
(* capacity of the event channel and any bounds on time, changes and       *)
(* refreshes.                                                              *)
(*                                                                         *)
(* TypeOK is inductive as it stands.  ListFollowsCache needs to know what a*)
(* refresh has read (CacheRead): as long as no news has come since, it is  *)
(* still what the cache holds.  Its main lemma is about applySnapshot      *)
(* (NewsTold): the events of a scan are about different IDs, what each says*)
(* is true of the new cache, and of every ID without an event the cache has*)
(* what it had.                                                            *)
(***************************************************************************)
EXTENDS Discovery, FiniteSetTheorems, TLAPS

-----------------------------------------------------------------------------
(* Operators. *)

\* The entries of a scan and of the cache.
CollectedOK ==
  DOMAIN collected \subseteq ID /\ \A i \in DOMAIN collected : collected[i] \in Advert
PeersOK ==
  /\ DOMAIN peers \subseteq ID
  /\ \A i \in DOMAIN peers : peers[i] \in [entry : Advert, age : 0..StaleAfter]
EventsOK == events \in Seq(Events) /\ Len(events) <= Capacity
ListOK ==
  /\ DOMAIN discovered \subseteq ID /\ \A i \in DOMAIN discovered : discovered[i] \in Advert
  /\ refresh = "writing"
       => DOMAIN rows \subseteq ID /\ \A i \in DOMAIN rows : rows[i] \in Advert
NetworkOK ==
  /\ hour \in 0..MaxHour /\ advert \in [Device -> Advert \cup {Off}]
  /\ face \in 0..MaxFace /\ known \subseteq Device \ {Self}
ThreadsOK ==
  /\ scan \in {"idle", "ticker", "refresh"}
  /\ refresh \in {"idle", "requested", "scanning", "reading", "writing"}
  /\ raced \in BOOLEAN

\* TypeOK in groups.
LEMMA Groups ==
  TypeOK <=> NetworkOK /\ ThreadsOK /\ CollectedOK /\ PeersOK /\ EventsOK /\ ListOK
BY DEF TypeOK, NetworkOK, ThreadsOK, CollectedOK, PeersOK, EventsOK, ListOK

\* The same of the next state.
LEMMA GroupsNext ==
  TypeOK' <=> NetworkOK' /\ ThreadsOK' /\ CollectedOK' /\ PeersOK' /\ EventsOK' /\ ListOK'
BY DEF TypeOK, NetworkOK, ThreadsOK, CollectedOK, PeersOK, EventsOK, ListOK

\* There are finitely many IDs.
LEMMA FiniteIDs == IsFiniteSet(ID)
<1> DEFINE K == {Known(d) : d \in Device}  f == [d \in Device |-> Known(d)]
           U == {Unknown(d, g) : d \in Device, g \in 0..MaxFace}
<1>1. f \in Surjection(Device, K)  BY DEF Surjection
<1>2. IsFiniteSet(Device)  BY Bounds
<1> HIDE DEF K, f
<1>3. IsFiniteSet(K)  BY <1>1, <1>2, FS_Surjection
<1> USE DEF K, f
<1>4. 0 \in Int /\ MaxFace \in Int  BY Bounds
<1>5. IsFiniteSet(0..MaxFace)  BY <1>4, FS_Interval, Zenon
<1>6. IsFiniteSet(Device \X (0..MaxFace))  BY <1>2, <1>5, FS_Product, Zenon
<1>7. U = Device \X (0..MaxFace)  BY DEF Unknown
<1> HIDE DEF K, U
<1>8. IsFiniteSet(K \cup U)  BY <1>3, <1>6, <1>7, FS_Union
<1> QED  BY <1>8 DEF ID, K, U

\* The sequences of a finite set list every element of it, once.
LEMMA Listing ==
  ASSUME NEW S, IsFiniteSet(S), NEW q \in SetToSeqs(S)
  PROVE  /\ q \in Seq(S)
         /\ \A e \in S : \E k \in 1..Len(q) : q[k] = e
         /\ \A j, k \in 1..Len(q) : j # k => q[j] # q[k]
<1> DEFINE n == Cardinality(S)
<1>1. n \in Nat  BY FS_CardinalityType
<1>2. q \in [1..n -> S] /\ \A i, j \in 1..n : i # j => q[i] # q[j]  BY DEF SetToSeqs
<1>3. q \in Seq(S) /\ Len(q) = n  BY <1>1, <1>2
<1>4. IsFiniteSet(1..n) /\ Cardinality(1..n) = n
  <2>1. 1 \in Int /\ n \in Int  BY <1>1
  <2>2. IsFiniteSet(1..n) /\ Cardinality(1..n) = IF 1 > n THEN 0 ELSE n - 1 + 1
    BY <2>1, FS_Interval, Zenon
  <2> QED  BY <1>1, <2>2
<1>5. n = Cardinality(S)  OBVIOUS
<1> HIDE DEF n
<1>6. q \in Injection(1..n, S)  BY <1>2 DEF Injection, IsInjective
<1>7. q \in Surjection(1..n, S)  BY <1>4, <1>5, <1>6, FS_Injection
<1> QED  BY <1>2, <1>3, <1>7 DEF Surjection

\* The upserts and the removals of a snapshot, and the IDs they are about.
Changed == {i \in DOMAIN collected : Told(i)}
Stale == {i \in DOMAIN peers \ DOMAIN collected : ~ Fresh(i)}
Upserts == {Upserted(i) : i \in Changed}
Removals == {Removed(i) : i \in Stale}

\* A set of events, one for each ID of a set, is finite.
LEMMA FiniteEvents ==
  ASSUME TypeOK
  PROVE  IsFiniteSet(Upserts) /\ IsFiniteSet(Removals)
<1>1. Changed \in SUBSET ID /\ Stale \in SUBSET ID  BY DEF TypeOK, Changed, Stale
<1>2. IsFiniteSet(Changed) /\ IsFiniteSet(Stale)  BY <1>1, FiniteIDs, FS_Subset
<1> DEFINE u == [i \in Changed |-> Upserted(i)]  r == [i \in Stale |-> Removed(i)]
<1>3. u \in Surjection(Changed, Upserts)  BY DEF Surjection, Upserts
<1>4. r \in Surjection(Stale, Removals)  BY DEF Surjection, Removals
<1> HIDE DEF u, r
<1> QED  BY <1>2, <1>3, <1>4, FS_Surjection

\* Events are of the type of the channel.
LEMMA EventTypes ==
  ASSUME TypeOK
  PROVE  Upserts \subseteq Events /\ Removals \subseteq Events
<1>1. ASSUME NEW i \in Changed  PROVE Upserted(i) \in Events
  BY <1>1 DEF Changed, Upserted, Events, TypeOK
<1>2. ASSUME NEW i \in Stale  PROVE Removed(i) \in Events
  <2>1. peers[i].entry \in Advert /\ i \in ID  BY <1>2 DEF Stale, TypeOK
  <2> QED  BY <2>1 DEF Removed, Events
<1> QED  BY <1>1, <1>2 DEF Upserts, Removals

\* One sequence of events after another.
LEMMA Joined ==
  ASSUME NEW p \in Seq(Events), NEW q \in Seq(Events)
  PROVE  /\ p \o q \in Seq(Events)
         /\ Len(p) \in Nat /\ Len(q) \in Nat /\ Len(p \o q) = Len(p) + Len(q)
         /\ \A k \in 1..Len(p) : (p \o q)[k] = p[k]
         /\ \A k \in 1..Len(q) : (p \o q)[Len(p) + k] = q[k]
         /\ \A k \in 1..(Len(p) + Len(q)) :
               k \in 1..Len(p) \/ (k - Len(p) \in 1..Len(q) /\ (p \o q)[k] = q[k - Len(p)])
<1>1. p \o q \in Seq(Events) /\ Len(p) \in Nat /\ Len(q) \in Nat /\ Len(p \o q) = Len(p) + Len(q)
  OBVIOUS
<1>2. \A k \in 1..Len(p) : (p \o q)[k] = p[k]  OBVIOUS
<1>3. \A k \in 1..Len(q) : (p \o q)[Len(p) + k] = q[k]  OBVIOUS
<1>4. ASSUME NEW k \in 1..(Len(p) + Len(q)), k \notin 1..Len(p)
      PROVE  k - Len(p) \in 1..Len(q) /\ (p \o q)[k] = q[k - Len(p)]
  <2>1. k - Len(p) \in 1..Len(q) /\ Len(p) + (k - Len(p)) = k  BY <1>1, <1>4
  <2> QED  BY <1>3, <2>1
<1> QED  BY <1>1, <1>2, <1>3, <1>4

\* What a scan has to tell: a sequence of events, one for each ID that is new, has
\* changed or has become stale.
LEMMA NewsTold ==
  ASSUME TypeOK, NEW news \in News
  PROVE  /\ news \in Seq(Events)
         /\ \A k \in 1..Len(news) : news[k] \in Upserts \cup Removals
         /\ \A e \in Upserts \cup Removals : \E k \in 1..Len(news) : news[k] = e
         /\ \A j, k \in 1..Len(news) : j # k => news[j].id # news[k].id
<1>1. PICK us \in SetToSeqs(Upserts), rs \in SetToSeqs(Removals) : news = us \o rs
  <2>1. /\ Upserts = {Upserted(i) : i \in {j \in DOMAIN collected : Told(j)}}
        /\ Removals = {Removed(i) : i \in {j \in DOMAIN peers \ DOMAIN collected : ~ Fresh(j)}}
    BY DEF Upserts, Removals, Changed, Stale
  <2>2. News = {us \o rs : us \in SetToSeqs(Upserts), rs \in SetToSeqs(Removals)}
    BY <2>1 DEF News
  <2> QED  BY <2>2
<1>2. IsFiniteSet(Upserts) /\ IsFiniteSet(Removals)  BY FiniteEvents
<1>3. /\ us \in Seq(Upserts) /\ rs \in Seq(Removals)
      /\ \A e \in Upserts : \E k \in 1..Len(us) : us[k] = e
      /\ \A e \in Removals : \E k \in 1..Len(rs) : rs[k] = e
      /\ \A j, k \in 1..Len(us) : j # k => us[j] # us[k]
      /\ \A j, k \in 1..Len(rs) : j # k => rs[j] # rs[k]
  BY <1>1, <1>2, Listing
<1> DEFINE m == Len(us)  n == Len(rs)
<1>5. us \in Seq(Events) /\ rs \in Seq(Events)
  BY <1>3, EventTypes
<1>4. /\ m \in Nat /\ n \in Nat /\ Len(news) = m + n
      /\ \A k \in 1..m : news[k] = us[k]
      /\ \A k \in 1..n : news[m + k] = rs[k]
      /\ \A k \in 1..(m + n) : k \in 1..m \/ (k - m \in 1..n /\ news[k] = rs[k - m])
  BY <1>1, <1>5, Joined
<1>6. news \in Seq(Events)  BY <1>1, <1>5, Joined
<1> HIDE DEF m, n
<1>7. \A k \in 1..m : us[k] \in Upserts  BY <1>3 DEF m
<1>8. \A k \in 1..n : rs[k] \in Removals  BY <1>3 DEF n
<1>9. \A k \in 1..Len(news) : news[k] \in Upserts \cup Removals
  BY <1>4, <1>7, <1>8
<1>10. \A e \in Upserts \cup Removals : \E k \in 1..Len(news) : news[k] = e
  <2>1. SUFFICES ASSUME NEW e \in Upserts \cup Removals
                 PROVE  \E k \in 1..Len(news) : news[k] = e
    OBVIOUS
  <2>2. CASE e \in Upserts
    <3>1. PICK k \in 1..m : us[k] = e  BY <1>3, <2>2 DEF m
    <3>2. k \in 1..Len(news) /\ news[k] = e  BY <1>4, <3>1
    <3> QED  BY <3>2
  <2>3. CASE e \in Removals
    <3>1. PICK k \in 1..n : rs[k] = e  BY <1>3, <2>3 DEF n
    <3>2. m + k \in 1..Len(news) /\ news[m + k] = e  BY <1>4, <3>1
    <3> QED  BY <3>2
  <2> QED  BY <2>1, <2>2, <2>3
<1>11. ASSUME NEW j \in 1..Len(news), NEW k \in 1..Len(news), j # k
       PROVE  news[j].id # news[k].id
  <2>1. \A d, e \in Upserts : d # e => d.id # e.id  BY DEF Upserts, Upserted
  <2>2. \A d, e \in Removals : d # e => d.id # e.id  BY DEF Removals, Removed
  <2>3. \A d \in Upserts, e \in Removals : d.id # e.id
    BY DEF Upserts, Upserted, Removals, Removed, Changed, Stale
  <2>4. CASE j \in 1..m /\ k \in 1..m
    <3>1. us[j] # us[k] /\ news[j] = us[j] /\ news[k] = us[k]
      BY <1>3, <1>4, <1>11, <2>4 DEF m
    <3>2. us[j] \in Upserts /\ us[k] \in Upserts  BY <1>7, <2>4
    <3> QED  BY <2>1, <3>1, <3>2
  <2>5. CASE j \notin 1..m /\ k \notin 1..m
    <3>1. /\ j - m \in 1..n /\ k - m \in 1..n /\ j - m # k - m
          /\ news[j] = rs[j - m] /\ news[k] = rs[k - m]
      BY <1>4, <1>11, <2>5
    <3>2. rs[j - m] # rs[k - m]  BY <1>3, <3>1 DEF n
    <3> QED  BY <1>8, <2>2, <3>1, <3>2
  <2>6. CASE j \in 1..m /\ k \notin 1..m
    <3>1. news[j] \in Upserts /\ news[k] \in Removals  BY <1>4, <1>7, <1>8, <1>11, <2>6
    <3> QED  BY <2>3, <3>1
  <2>7. CASE j \notin 1..m /\ k \in 1..m
    <3>1. news[k] \in Upserts /\ news[j] \in Removals  BY <1>4, <1>7, <1>8, <1>11, <2>7
    <3> QED  BY <2>3, <3>1
  <2> QED  BY <2>4, <2>5, <2>6, <2>7
<1> QED  BY <1>6, <1>9, <1>10, <1>11

-----------------------------------------------------------------------------
(* Types.                                                                  *)

\* What applySnapshot puts into the channel: the events that find room.
Fit(news) ==
  LET room == Capacity - Len(events) IN
  SubSeq(news, 1, IF Len(news) < room THEN Len(news) ELSE room)

\* Events that find room keep the channel within its capacity.
LEMMA FitFits ==
  ASSUME EventsOK, NEW news \in Seq(Events)
  PROVE  /\ Fit(news) \in Seq(Events)
         /\ events \o Fit(news) \in Seq(Events)
         /\ Len(events \o Fit(news)) <= Capacity
<1> DEFINE room == Capacity - Len(events)
           n == IF Len(news) < room THEN Len(news) ELSE room
<1>1. n \in Nat /\ n <= room /\ n <= Len(news)  BY Sizes DEF EventsOK
<1>2. Fit(news) = SubSeq(news, 1, n)  BY DEF Fit
<1> HIDE DEF n
<1>3. Fit(news) \in Seq(Events) /\ Len(Fit(news)) = n  BY <1>1, <1>2
<1> QED  BY <1>1, <1>3, Sizes DEF EventsOK

\* Initially every variable is in its domain.
LEMMA InitTypes == Init => TypeOK
<1> SUFFICES ASSUME Init PROVE TypeOK  OBVIOUS
<1>1. hour \in 0..MaxHour /\ face \in 0..MaxFace  BY Bounds DEF Init
<1>2. [token |-> 0, face |-> 0] \in Advert  BY Bounds DEF Advert
<1>3. advert \in [Device -> Advert \cup {Off}]  BY <1>2 DEF Init, StartBroadcaster
<1>4. DOMAIN Empty = {}  BY DEF Empty
<1>5. events \in Seq(Events) /\ Len(events) <= Capacity  BY Sizes DEF Init
<1> QED  BY <1>1, <1>3, <1>4, <1>5 DEF Init, TypeOK

\* An ID of a device that advertises.
LEMMA ResolvedIsID ==
  ASSUME TypeOK, NEW d \in Device, advert[d] # Off
  PROVE  Resolve(d) \in ID /\ advert[d] \in Advert
<1>1. advert[d] \in Advert  BY DEF TypeOK
<1>2. advert[d].face \in 0..MaxFace  BY <1>1 DEF Advert
<1> QED  BY <1>1, <1>2 DEF Resolve, ID

\* Every step of the network keeps every variable in its domain.
LEMMA NetworkTypes ==
  ASSUME TypeOK, Network  PROVE TypeOK'
<1> USE Groups, GroupsNext
<1>1. CASE HourPasses
  <2>1. NetworkOK'  BY <1>1, Bounds DEF HourPasses, NetworkOK
  <2> QED  BY <1>1, <2>1 DEF HourPasses, scannerVars, uiVars, ThreadsOK, CollectedOK, PeersOK, EventsOK, ListOK
<1>2. CASE Tick
  <2>1. ASSUME NEW i \in DOMAIN peers'  PROVE i \in DOMAIN peers /\ peers'[i] \in [entry : Advert, age : 0..StaleAfter]
    <3>1. i \in DOMAIN peers /\ peers[i] \in [entry : Advert, age : 0..StaleAfter]
      BY <1>2, <2>1 DEF Tick, PeersOK
    <3>2. peers'[i] = [peers[i] EXCEPT !.age = IF @ < StaleAfter THEN @ + 1 ELSE @]
      BY <1>2, <3>1 DEF Tick
    <3> QED  BY <3>1, <3>2, Sizes
  <2>2. DOMAIN peers' = DOMAIN peers  BY <1>2 DEF Tick
  <2>3. PeersOK'  BY <2>1, <2>2 DEF PeersOK
  <2> QED  BY <1>2, <2>3 DEF Tick, networkVars, uiVars, NetworkOK, ThreadsOK, CollectedOK, EventsOK, ListOK
<1>3. ASSUME NEW d \in Device, Appear(d)  PROVE TypeOK'
  <2>1. PICK f \in {face, face + 1} :
          f <= MaxFace /\ face' = f /\ advert' = [advert EXCEPT ![d] = StartBroadcaster(f)]
    BY <1>3 DEF Appear
  <2>2. f \in 0..MaxFace  BY <2>1, Bounds DEF NetworkOK
  <2>3. StartBroadcaster(f) \in Advert  BY <2>2 DEF StartBroadcaster, Advert, NetworkOK
  <2>4. NetworkOK'  BY <1>3, <2>1, <2>2, <2>3 DEF Appear, NetworkOK
  <2> QED  BY <1>3, <2>4 DEF Appear, scannerVars, uiVars, ThreadsOK, CollectedOK, PeersOK, EventsOK, ListOK
<1>4. ASSUME NEW d \in Device, UpdateDeviceName(d)  PROVE TypeOK'
  <2>2. face + 1 \in 0..MaxFace  BY <1>4, Bounds DEF UpdateDeviceName, NetworkOK
  <2>3. StartBroadcaster(face + 1) \in Advert  BY <2>2 DEF StartBroadcaster, Advert, NetworkOK
  <2>4. NetworkOK'  BY <1>4, <2>2, <2>3 DEF UpdateDeviceName, NetworkOK
  <2> QED  BY <1>4, <2>4 DEF UpdateDeviceName, scannerVars, uiVars, ThreadsOK, CollectedOK, PeersOK, EventsOK, ListOK
<1>5. ASSUME NEW d \in Device, Disappear(d)  PROVE TypeOK'
  <2>4. NetworkOK'  BY <1>5 DEF Disappear, NetworkOK
  <2> QED  BY <1>5, <2>4 DEF Disappear, scannerVars, uiVars, ThreadsOK, CollectedOK, PeersOK, EventsOK, ListOK
<1>6. ASSUME NEW d \in Device, AddPeer(d)  PROVE TypeOK'
  <2>4. NetworkOK'  BY <1>6 DEF AddPeer, NetworkOK
  <2> QED  BY <1>6, <2>4 DEF AddPeer, scannerVars, uiVars, ThreadsOK, CollectedOK, PeersOK, EventsOK, ListOK
<1> QED  BY <1>1, <1>2, <1>3, <1>4, <1>5, <1>6 DEF Network

\* Every step of the scanner keeps every variable in its domain.
LEMMA ScannerTypes ==
  ASSUME TypeOK, Scanner  PROVE TypeOK'
<1> USE Groups, GroupsNext
<1>0. DOMAIN Empty = {}  BY DEF Empty
<1>1. CASE StartScan
  <2>1. CollectedOK'  BY <1>0, <1>1 DEF StartScan, CollectedOK
  <2> QED  BY <1>1, <2>1 DEF StartScan, networkVars, uiVars, NetworkOK, ThreadsOK, PeersOK, EventsOK, ListOK
<1>2. CASE TakeRefresh
  <2>1. CollectedOK'  BY <1>0, <1>2 DEF TakeRefresh, CollectedOK
  <2> QED  BY <1>2, <2>1 DEF TakeRefresh, networkVars, NetworkOK, ThreadsOK, PeersOK, EventsOK, ListOK
<1>3. ASSUME NEW d \in Device, Collect(d)  PROVE TypeOK'
  <2>1. Resolve(d) \in ID /\ advert[d] \in Advert  BY <1>3, ResolvedIsID DEF Collect
  <2>2. collected' = [j \in DOMAIN collected \cup {Resolve(d)} |->
                       IF j = Resolve(d) THEN advert[d] ELSE collected[j]]
    BY <1>3 DEF Collect, Put
  <2>3. CollectedOK'  BY <2>1, <2>2 DEF CollectedOK
  <2> QED  BY <1>3, <2>3 DEF Collect, networkVars, uiVars, NetworkOK, ThreadsOK, PeersOK, EventsOK, ListOK
<1>4. CASE ApplySnapshot
  <2>1. PICK news \in News : Emit(news)  BY <1>4 DEF ApplySnapshot
  <2>2. news \in Seq(Events)  BY NewsTold
  <2>3. events' = events \o Fit(news)  BY <2>1 DEF Emit, Fit
  <2>4. EventsOK'  BY <2>2, <2>3, FitFits DEF EventsOK
  <2>5. PeersOK'
    <3>1. DOMAIN peers' = DOMAIN collected \cup {j \in DOMAIN peers : Fresh(j)}
      BY <1>4 DEF ApplySnapshot
    <3>2. \A i \in DOMAIN peers' :
            peers'[i] = IF i \in DOMAIN collected THEN [entry |-> collected[i], age |-> 0] ELSE peers[i]
      BY <1>4 DEF ApplySnapshot
    <3>3. \A i \in DOMAIN peers' : peers'[i] \in [entry : Advert, age : 0..StaleAfter]
      <4>1. SUFFICES ASSUME NEW i \in DOMAIN peers'
                     PROVE  peers'[i] \in [entry : Advert, age : 0..StaleAfter]
        OBVIOUS
      <4>2. CASE i \in DOMAIN collected
        <5>1. peers'[i] = [entry |-> collected[i], age |-> 0]  BY <3>2, <4>2
        <5>2. collected[i] \in Advert  BY <4>2 DEF CollectedOK
        <5> QED  BY <5>1, <5>2, Sizes
      <4>3. CASE i \notin DOMAIN collected
        <5>1. peers'[i] = peers[i] /\ i \in DOMAIN peers  BY <3>1, <3>2, <4>3
        <5> QED  BY <5>1 DEF PeersOK
      <4> QED  BY <4>2, <4>3
    <3> QED  BY <3>1, <3>3 DEF PeersOK, CollectedOK
  <2>6. CollectedOK'  BY <1>0, <1>4 DEF ApplySnapshot, CollectedOK
  <2>7. raced' \in BOOLEAN  BY <2>1 DEF Emit, ThreadsOK
  <2>8. ThreadsOK'  BY <1>4, <2>7 DEF ApplySnapshot, ThreadsOK
  <2>9. ListOK'  BY <1>4 DEF ApplySnapshot, ListOK
  <2>10. NetworkOK'  BY <1>4 DEF ApplySnapshot, networkVars, NetworkOK
  <2> QED  BY <2>4, <2>5, <2>6, <2>8, <2>9, <2>10
<1>5. CASE ScanFails
  <2>1. CollectedOK'  BY <1>0, <1>5 DEF ScanFails, CollectedOK
  <2> QED  BY <1>5, <2>1 DEF ScanFails, networkVars, NetworkOK, ThreadsOK, PeersOK, EventsOK, ListOK
<1> QED  BY <1>1, <1>2, <1>3, <1>4, <1>5 DEF Scanner

\* Every step of the user interface keeps every variable in its domain.
LEMMA InterfaceTypes ==
  ASSUME TypeOK, Interface  PROVE TypeOK'
<1> USE Groups, GroupsNext
<1>1. CASE HandleEvent
  <2>1. events # <<>> /\ events' = Tail(events) /\ discovered' = Applied(discovered, Head(events))
    BY <1>1 DEF HandleEvent
  <2>2. Head(events) \in Events /\ EventsOK'  BY <2>1, Sizes DEF EventsOK
  <2>3. Head(events).id \in ID /\ Head(events).entry \in Advert  BY <2>2 DEF Events
  <2>4. DOMAIN discovered' \subseteq ID /\ \A i \in DOMAIN discovered' : discovered'[i] \in Advert
    BY <2>1, <2>3 DEF Applied, Put, Without, ListOK
  <2>5. ListOK'  BY <1>1, <2>4 DEF HandleEvent, ListOK
  <2> QED  BY <1>1, <2>2, <2>5 DEF HandleEvent, networkVars, NetworkOK, ThreadsOK, CollectedOK, PeersOK
<1>2. CASE RefreshDiscovery
  BY <1>2 DEF RefreshDiscovery, networkVars, scannerVars, NetworkOK, ThreadsOK, CollectedOK, PeersOK, EventsOK, ListOK
<1>3. CASE RefreshTimesOut
  BY <1>3 DEF RefreshTimesOut, networkVars, scannerVars, NetworkOK, ThreadsOK, CollectedOK, PeersOK, EventsOK, ListOK
<1>4. CASE SyncRead
  <2>1. rows' = Entries(peers)  BY <1>4 DEF SyncRead
  <2>2. DOMAIN rows' \subseteq ID /\ \A i \in DOMAIN rows' : rows'[i] \in Advert
    BY <2>1 DEF Entries, PeersOK
  <2>3. ListOK'  BY <1>4, <2>2 DEF SyncRead, ListOK
  <2> QED  BY <1>4, <2>3 DEF SyncRead, networkVars, scannerVars, NetworkOK, ThreadsOK, CollectedOK, PeersOK, EventsOK
<1>5. CASE SyncWrite
  BY <1>5 DEF SyncWrite, networkVars, scannerVars, NetworkOK, ThreadsOK, CollectedOK, PeersOK, EventsOK, ListOK
<1> QED  BY <1>1, <1>2, <1>3, <1>4, <1>5 DEF Interface

\* A step that changes nothing.
LEMMA StutterTypes ==
  ASSUME TypeOK, UNCHANGED vars  PROVE TypeOK'
BY DEF TypeOK, vars, networkVars, scannerVars, uiVars, counters

\* Every variable stays in its domain, and the event channel never holds more
\* than its capacity (emitEvent).
THEOREM TypeCorrect == Spec => []TypeOK
<1>1. TypeOK /\ [Next]_vars => TypeOK'
  BY NetworkTypes, ScannerTypes, InterfaceTypes, StutterTypes DEF Next
<1> QED  BY <1>1, InitTypes, PTL DEF Spec

-----------------------------------------------------------------------------
(* The list of the user interface follows the cache.                       *)

\* A list shows what a cache has of an ID; an event says what a cache has of
\* its ID.
ShownIn(list, cache, i) ==
  IF i \in DOMAIN cache THEN i \in DOMAIN list /\ list[i] = cache[i].entry ELSE i \notin DOMAIN list
Tells(e, cache) ==
  IF e.type = "peer_upserted"
  THEN e.id \in DOMAIN cache /\ cache[e.id].entry = e.entry ELSE e.id \notin DOMAIN cache

\* No event is about an ID, or k is the last one that is.
Quiet(q, i) == \A k \in 1..Len(q) : q[k].id # i
IsLast(q, i, k) == q[k].id = i /\ \A j \in 1..Len(q) : j > k => q[j].id # i

\* The last event about an ID tells what the cache has of it, or the list shows it.
Follows(list, q, cache, i) ==
  \/ ShownIn(list, cache, i) /\ Quiet(q, i)
  \/ \E k \in 1..Len(q) : IsLast(q, i, k) /\ Tells(q[k], cache)

\* What the list shows of an ID after an event about it is what the event says.
LEMMA AppliedShows ==
  ASSUME NEW list, NEW cache, NEW e \in Events
  PROVE  ShownIn(Applied(list, e), cache, e.id) <=> Tells(e, cache)
<1>1. CASE e.type = "peer_upserted"
  <2>1. Applied(list, e) = [j \in DOMAIN list \cup {e.id} |-> IF j = e.id THEN e.entry ELSE list[j]]
    BY <1>1 DEF Applied, Put
  <2> QED  BY <1>1, <2>1 DEF ShownIn, Tells
<1>2. CASE e.type # "peer_upserted"
  <2>1. Applied(list, e) = [j \in DOMAIN list \ {e.id} |-> list[j]]
    BY <1>2 DEF Applied, Without
  <2> QED  BY <1>2, <2>1 DEF ShownIn, Tells
<1> QED  BY <1>1, <1>2

\* What the list shows of other IDs stays.
LEMMA AppliedKeeps ==
  ASSUME NEW list, NEW cache, NEW e \in Events, NEW i, i # e.id
  PROVE  ShownIn(Applied(list, e), cache, i) <=> ShownIn(list, cache, i)
<1>1. CASE e.type = "peer_upserted"
  <2>1. Applied(list, e) = [j \in DOMAIN list \cup {e.id} |-> IF j = e.id THEN e.entry ELSE list[j]]
    BY <1>1 DEF Applied, Put
  <2> QED  BY <2>1 DEF ShownIn
<1>2. CASE e.type # "peer_upserted"
  <2>1. Applied(list, e) = [j \in DOMAIN list \ {e.id} |-> list[j]]
    BY <1>2 DEF Applied, Without
  <2> QED  BY <2>1 DEF ShownIn
<1> QED  BY <1>1, <1>2

\* ListFollowsCache in these words, of a state and of the next one.
LEMMA Restated ==
  ASSUME events \in Seq(Events)
  PROVE  ListFollowsCache <=> (~ raced => \A i \in ID : Follows(discovered, events, peers, i))
<1>1. \A k \in DOMAIN events : events[k] \in Events /\ DOMAIN events = 1..Len(events)
  OBVIOUS
<1>2. ASSUME NEW i \in ID, NEW k \in DOMAIN events, events[k].id = i
      PROVE  Shown(Applied(discovered, events[k]), i) <=> Tells(events[k], peers)
  BY <1>1, <1>2, AppliedShows DEF Shown, ShownIn
<1>3. DOMAIN events = 1..Len(events)  OBVIOUS
<1>4. ASSUME NEW i \in ID
      PROVE  Follows(discovered, events, peers, i) <=>
        \/ Shown(discovered, i) /\ \A k \in DOMAIN events : events[k].id # i
        \/ \E k \in DOMAIN events : LastAbout(i, k) /\ Shown(Applied(discovered, events[k]), i)
  <2>1. Shown(discovered, i) <=> ShownIn(discovered, peers, i)  BY DEF Shown, ShownIn
  <2>2. (\A k \in DOMAIN events : events[k].id # i) <=> Quiet(events, i)  BY <1>3 DEF Quiet
  <2>3. \A k \in DOMAIN events : LastAbout(i, k) <=> IsLast(events, i, k)
    BY <1>3 DEF LastAbout, IsLast
  <2>4. \A k \in DOMAIN events : IsLast(events, i, k) => events[k].id = i  BY DEF IsLast
  <2>5. \A k \in DOMAIN events : IsLast(events, i, k) =>
          (Shown(Applied(discovered, events[k]), i) <=> Tells(events[k], peers))
    BY <1>2, <2>4
  <2> QED  BY <1>3, <2>1, <2>2, <2>3, <2>5 DEF Follows
<1> QED  BY <1>4 DEF ListFollowsCache

\* The same of the next state.
LEMMA RestatedNext ==
  ASSUME events' \in Seq(Events)
  PROVE  ListFollowsCache' <=> (~ raced' => \A i \in ID : Follows(discovered', events', peers', i))
<1>0. ListFollowsCache' <=>
        (~ raced' => \A i \in ID :
           \/ Shown(discovered, i)' /\ \A k \in DOMAIN events' : events'[k].id # i
           \/ \E k \in DOMAIN events' : LastAbout(i, k)' /\ Shown(Applied(discovered, events[k]), i)')
  BY DEF ListFollowsCache, Shown, LastAbout, Applied
<1>1. \A k \in DOMAIN events' : events'[k] \in Events /\ DOMAIN events' = 1..Len(events')
  OBVIOUS
<1>s. ASSUME NEW i, NEW k
      PROVE  Shown(Applied(discovered, events[k]), i)' <=> ShownIn(Applied(discovered', events'[k]), peers', i)
  BY DEF Shown, ShownIn, Applied
<1>2. ASSUME NEW i \in ID, NEW k \in DOMAIN events', events'[k].id = i
      PROVE  Shown(Applied(discovered, events[k]), i)' <=> Tells(events'[k], peers')
  BY <1>1, <1>2, <1>s, AppliedShows
<1>3. DOMAIN events' = 1..Len(events')  OBVIOUS
<1>4. ASSUME NEW i \in ID
      PROVE  Follows(discovered', events', peers', i) <=>
        \/ Shown(discovered, i)' /\ \A k \in DOMAIN events' : events'[k].id # i
        \/ \E k \in DOMAIN events' : LastAbout(i, k)' /\ Shown(Applied(discovered, events[k]), i)'
  <2>1. Shown(discovered, i)' <=> ShownIn(discovered', peers', i)  BY DEF Shown, ShownIn
  <2>2. (\A k \in DOMAIN events' : events'[k].id # i) <=> Quiet(events', i)  BY <1>3 DEF Quiet
  <2>3. \A k \in DOMAIN events' : LastAbout(i, k)' <=> IsLast(events', i, k)
    BY <1>3 DEF LastAbout, IsLast
  <2>4. \A k \in DOMAIN events' : IsLast(events', i, k) => events'[k].id = i  BY DEF IsLast
  <2>5. \A k \in DOMAIN events' : IsLast(events', i, k) =>
          (Shown(Applied(discovered, events[k]), i)' <=> Tells(events'[k], peers'))
    BY <1>2, <2>4
  <2> QED  BY <1>3, <2>1, <2>2, <2>3, <2>5 DEF Follows
<1> QED  BY <1>0, <1>4

\* A cache that has the same of an ID is shown and told the same.
LEMMA SameOf ==
  ASSUME NEW list, NEW q, NEW a, NEW b, NEW i,
         i \in DOMAIN a <=> i \in DOMAIN b,
         i \in DOMAIN a => a[i].entry = b[i].entry,
         Follows(list, q, a, i)
  PROVE  Follows(list, q, b, i)
<1>1. ShownIn(list, a, i) => ShownIn(list, b, i)  BY DEF ShownIn
<1>2. \A k \in 1..Len(q) : IsLast(q, i, k) /\ Tells(q[k], a) => Tells(q[k], b)  BY DEF IsLast, Tells
<1> QED  BY <1>1, <1>2 DEF Follows

\* What a refresh has read is what the cache still holds, as long as no news
\* has come since.
CacheRead == ~ raced /\ refresh = "writing" => rows = Entries(peers)

\* The events of a scan tell the truth of the new cache, and of an ID they do not
\* name it has what the old one had.
LEMMA SnapshotTold ==
  ASSUME TypeOK, ApplySnapshot, NEW news \in News
  PROVE  /\ \A k \in 1..Len(news) : Tells(news[k], peers')
         /\ \A i : Quiet(news, i) =>
              /\ i \in DOMAIN peers <=> i \in DOMAIN peers'
              /\ i \in DOMAIN peers => peers[i].entry = peers'[i].entry
<1>1. /\ DOMAIN peers' = DOMAIN collected \cup {j \in DOMAIN peers : Fresh(j)}
      /\ \A i \in DOMAIN peers' :
           peers'[i] = IF i \in DOMAIN collected THEN [entry |-> collected[i], age |-> 0] ELSE peers[i]
  BY DEF ApplySnapshot
<1>2. /\ \A k \in 1..Len(news) : news[k] \in Upserts \cup Removals
      /\ \A e \in Upserts \cup Removals : \E k \in 1..Len(news) : news[k] = e
  BY NewsTold
<1>3. \A e \in Upserts : Tells(e, peers')
  <2>1. ASSUME NEW i \in Changed  PROVE Tells(Upserted(i), peers')
    <3>1. i \in DOMAIN collected /\ i \in DOMAIN peers'  BY <1>1, <2>1 DEF Changed
    <3>2. peers'[i] = [entry |-> collected[i], age |-> 0]  BY <1>1, <3>1
    <3>3. peers'[i].entry = collected[i]  BY <3>2
    <3> QED  BY <3>1, <3>3 DEF Upserted, Tells
  <2> QED  BY <2>1 DEF Upserts
<1>4. \A e \in Removals : Tells(e, peers')
  <2>1. ASSUME NEW i \in Stale  PROVE Tells(Removed(i), peers')
    BY <1>1, <2>1 DEF Stale, Removed, Tells
  <2> QED  BY <2>1 DEF Removals
<1>5. ASSUME NEW i, Quiet(news, i)
      PROVE  /\ i \in DOMAIN peers <=> i \in DOMAIN peers'
             /\ i \in DOMAIN peers => peers[i].entry = peers'[i].entry
  <2>1. i \notin Changed
    <3>1. SUFFICES ASSUME i \in Changed PROVE FALSE  OBVIOUS
    <3>2. Upserted(i) \in Upserts /\ Upserted(i).id = i  BY <3>1 DEF Upserts, Upserted
    <3> QED  BY <1>2, <1>5, <3>2 DEF Quiet
  <2>2. i \notin Stale
    <3>1. SUFFICES ASSUME i \in Stale PROVE FALSE  OBVIOUS
    <3>2. Removed(i) \in Removals /\ Removed(i).id = i  BY <3>1 DEF Removals, Removed
    <3> QED  BY <1>2, <1>5, <3>2 DEF Quiet
  <2>3. CASE i \in DOMAIN collected
    <3>1. i \in DOMAIN peers /\ peers[i].entry = collected[i]  BY <2>1, <2>3 DEF Changed, Told
    <3>2. i \in DOMAIN peers'  BY <1>1, <2>3
    <3>3. peers'[i] = [entry |-> collected[i], age |-> 0]  BY <1>1, <2>3, <3>2
    <3>4. peers'[i].entry = collected[i]  BY <3>3
    <3> QED  BY <3>1, <3>2, <3>4
  <2>4. CASE i \notin DOMAIN collected
    BY <1>1, <2>2, <2>4 DEF Stale, Fresh
  <2> QED  BY <2>3, <2>4
<1> QED  BY <1>2, <1>3, <1>4, <1>5

\* The events of a scan follow those in the channel.
LEMMA SnapshotFollows ==
  ASSUME TypeOK, TypeOK', ListFollowsCache, CacheRead, ApplySnapshot
  PROVE  ListFollowsCache' /\ CacheRead'
<1>1. PICK news \in News : Emit(news)  BY DEF ApplySnapshot
<1>2. CASE raced'
  BY <1>2, RestatedNext DEF TypeOK, CacheRead
<1>3. CASE ~ raced'
  <2> DEFINE n == Len(events)
  <2>1. /\ news \in Seq(Events)
        /\ \A j, k \in 1..Len(news) : j # k => news[j].id # news[k].id
    BY NewsTold
  <2>2. /\ ~ raced /\ Len(news) <= Capacity - n
        /\ refresh = "writing" => news = <<>>
    <3>1. raced' = (raced \/ Len(news) > Capacity - n \/ (news # <<>> /\ refresh = "writing"))
      BY <1>1 DEF Emit
    <3>2. ~ raced /\ ~ (Len(news) > Capacity - n) /\ ~ (news # <<>> /\ refresh = "writing")
      BY <1>3, <3>1
    <3>3. Len(news) \in Int /\ Capacity - n \in Int  BY <2>1, Sizes DEF TypeOK
    <3> QED  BY <3>2, <3>3
  <2>3. events' = events \o news
    <3>1. events' = events \o Fit(news)  BY <1>1 DEF Emit, Fit
    <3>2. Fit(news) = news
      <4>1. Fit(news) = SubSeq(news, 1, Len(news))
        <5>1. Len(news) < Capacity - n \/ Capacity - n = Len(news)
          <6>1. n \in Nat /\ Len(news) \in Nat /\ Capacity \in Nat  BY <2>1, Sizes DEF TypeOK
          <6> HIDE DEF n
          <6> QED  BY <2>2, <6>1
        <5> QED  BY <5>1 DEF Fit
      <4> QED  BY <2>1, <4>1
    <3> QED  BY <3>1, <3>2
  <2>4. events \in Seq(Events) /\ events' \in Seq(Events) /\ discovered' = discovered /\ rows' = rows
    BY DEF TypeOK, ApplySnapshot
  <2>5. /\ n \in Nat /\ Len(news) \in Nat /\ Len(events') = n + Len(news)
        /\ \A k \in 1..n : events'[k] = events[k]
        /\ \A k \in 1..Len(news) : events'[n + k] = news[k]
        /\ \A k \in 1..(n + Len(news)) : k \in 1..n \/ (k - n \in 1..Len(news) /\ events'[k] = news[k - n])
    BY <2>1, <2>3, <2>4, Joined
  <2> HIDE DEF n
  <2>6. ASSUME NEW i \in ID  PROVE Follows(discovered', events', peers', i)
    <3>1. Follows(discovered, events, peers, i)  BY <2>2, <2>4, Restated
    <3>2. CASE Quiet(news, i)
      <4>1. Follows(discovered, events, peers', i)  BY <3>1, <3>2, SameOf, SnapshotTold
      <4>2. Quiet(events, i) => Quiet(events', i)
        BY <2>5, <3>2 DEF Quiet, n
      <4>3. \A k \in 1..n : IsLast(events, i, k) => IsLast(events', i, k)
        BY <2>5, <3>2 DEF Quiet, IsLast, n
      <4>4. CASE ShownIn(discovered, peers', i) /\ Quiet(events, i)
        BY <2>4, <4>2, <4>4 DEF Follows
      <4>5. CASE \E k \in 1..Len(events) : IsLast(events, i, k) /\ Tells(events[k], peers')
        <5>1. PICK k \in 1..n : IsLast(events, i, k) /\ Tells(events[k], peers')  BY <4>5 DEF n
        <5>2. k \in 1..Len(events') /\ IsLast(events', i, k) /\ Tells(events'[k], peers')
          BY <2>5, <4>3, <5>1
        <5> QED  BY <5>2 DEF Follows
      <4> QED  BY <4>1, <4>4, <4>5 DEF Follows
    <3>3. CASE ~ Quiet(news, i)
      <4>1. PICK k \in 1..Len(news) : news[k].id = i  BY <3>3 DEF Quiet
      <4>2. n + k \in 1..Len(events') /\ events'[n + k] = news[k]  BY <2>5
      <4>3. IsLast(events', i, n + k)
        <5>1. ASSUME NEW j \in 1..Len(events'), j > n + k  PROVE events'[j].id # i
          <6>1. j - n \in 1..Len(news) /\ events'[j] = news[j - n] /\ j - n # k
            BY <2>5, <5>1
          <6> QED  BY <2>1, <4>1, <6>1
        <5> QED  BY <4>1, <4>2, <5>1 DEF IsLast
      <4>4. Tells(events'[n + k], peers')  BY <4>2, SnapshotTold
      <4> QED  BY <4>2, <4>3, <4>4 DEF Follows
    <3> QED  BY <3>2, <3>3
  <2>7. CacheRead'
    <3>1. SUFFICES ASSUME refresh' = "writing"  PROVE rows' = Entries(peers')
      <4>1. CacheRead' <=> (~ raced' /\ refresh' = "writing" => rows' = Entries(peers'))
        BY DEF CacheRead, Entries
      <4> QED  BY <4>1
    <3>2. refresh = "writing"  BY <3>1 DEF ApplySnapshot
    <3>3. rows = Entries(peers)  BY <2>2, <3>2 DEF CacheRead
    <3>4. \A i : Quiet(news, i)  BY <2>2, <3>2 DEF Quiet
    <3>5. \A i : /\ i \in DOMAIN peers <=> i \in DOMAIN peers'
                 /\ i \in DOMAIN peers => peers[i].entry = peers'[i].entry
      BY <3>4, SnapshotTold
    <3>6. DOMAIN peers = DOMAIN peers'  BY <3>5
    <3>7. Entries(peers) = Entries(peers')  BY <3>5, <3>6 DEF Entries
    <3> QED  BY <2>4, <3>3, <3>7
  <2> QED  BY <1>3, <2>4, <2>6, <2>7, RestatedNext
<1> QED  BY <1>2, <1>3

\* An event that is handled leaves the others to come.
LEMMA HandleFollows ==
  ASSUME TypeOK, TypeOK', ListFollowsCache, CacheRead, HandleEvent
  PROVE  ListFollowsCache' /\ CacheRead'
<1>1. /\ events # <<>> /\ events' = Tail(events) /\ discovered' = Applied(discovered, Head(events))
      /\ raced' = (raced \/ refresh = "writing") /\ peers' = peers /\ refresh' = refresh
      /\ events \in Seq(Events) /\ events' \in Seq(Events)
  BY DEF HandleEvent, TypeOK
<1>2. CacheRead'  BY <1>1 DEF CacheRead
<1>3. ASSUME ~ raced', NEW i \in ID  PROVE Follows(discovered', events', peers, i)
  <2>1. Follows(discovered, events, peers, i)  BY <1>1, <1>3, Restated
  <2> DEFINE e == events[1]
  <2>2. e \in Events /\ discovered' = Applied(discovered, e)  BY <1>1
  <2>3. Len(events) \in Nat /\ Len(events') = Len(events) - 1 /\ \A k \in 1..Len(events') : events'[k] = events[k + 1]
    BY <1>1
  <2> HIDE DEF e
  <2>4. CASE ShownIn(discovered, peers, i) /\ Quiet(events, i)
    <3>1. i # e.id  BY <1>1, <2>3, <2>4 DEF Quiet, e
    <3>2. Quiet(events', i)  BY <2>3, <2>4 DEF Quiet
    <3>3. ShownIn(discovered', peers, i)  BY <2>2, <2>4, <3>1, AppliedKeeps
    <3> QED  BY <3>2, <3>3 DEF Follows
  <2>5. ASSUME NEW k \in 1..Len(events), IsLast(events, i, k), Tells(events[k], peers)
        PROVE  Follows(discovered', events', peers, i)
    <3>1. CASE k = 1
      <4>1. e.id = i /\ Tells(e, peers)  BY <2>5, <3>1 DEF IsLast, e
      <4>2. ShownIn(discovered', peers, i)  BY <2>2, <4>1, AppliedShows
      <4>3. Quiet(events', i)  BY <2>3, <2>5, <3>1 DEF Quiet, IsLast
      <4> QED  BY <4>2, <4>3 DEF Follows
    <3>2. CASE k # 1
      <4>1. k - 1 \in 1..Len(events') /\ events'[k - 1] = events[k]  BY <2>3, <3>2
      <4>2. IsLast(events', i, k - 1)  BY <2>3, <2>5, <4>1 DEF IsLast
      <4> QED  BY <2>5, <4>1, <4>2 DEF Follows
    <3> QED  BY <3>1, <3>2
  <2> QED  BY <2>1, <2>4, <2>5 DEF Follows
<1> QED  BY <1>1, <1>2, <1>3, RestatedNext

\* Time passes, and the entries of the cache stay.
LEMMA TickFollows ==
  ASSUME TypeOK, TypeOK', ListFollowsCache, CacheRead, Tick
  PROVE  ListFollowsCache' /\ CacheRead'
<1>1. /\ events' = events /\ discovered' = discovered /\ rows' = rows /\ refresh' = refresh
      /\ raced' = raced /\ events \in Seq(Events)
  BY DEF Tick, uiVars, TypeOK
<1>2. DOMAIN peers' = DOMAIN peers  BY DEF Tick
<1>3. \A i \in DOMAIN peers : peers'[i].entry = peers[i].entry
  <2>1. SUFFICES ASSUME NEW i \in DOMAIN peers PROVE peers'[i].entry = peers[i].entry  OBVIOUS
  <2>2. peers'[i] = [peers[i] EXCEPT !.age = IF @ < StaleAfter THEN @ + 1 ELSE @]  BY DEF Tick
  <2>3. peers[i] \in [entry : Advert, age : 0..StaleAfter]  BY DEF TypeOK
  <2> QED  BY <2>2, <2>3
<1>4. Entries(peers') = Entries(peers)  BY <1>2, <1>3 DEF Entries
<1>5. CacheRead' <=> (~ raced' /\ refresh' = "writing" => rows' = Entries(peers'))
  BY DEF CacheRead, Entries
<1>6. CacheRead'  BY <1>1, <1>4, <1>5 DEF CacheRead
<1>7. ASSUME ~ raced', NEW i \in ID  PROVE Follows(discovered', events', peers', i)
  <2>1. Follows(discovered, events, peers, i)  BY <1>1, <1>7, Restated
  <2> QED  BY <1>1, <1>2, <1>3, <2>1, SameOf
<1> QED  BY <1>1, <1>6, <1>7, RestatedNext

\* A refresh reads the cache.
LEMMA ReadFollows ==
  ASSUME TypeOK, TypeOK', ListFollowsCache, CacheRead, SyncRead
  PROVE  ListFollowsCache' /\ CacheRead'
<1>1. /\ events' = events /\ discovered' = discovered /\ peers' = peers /\ raced' = raced
      /\ rows' = Entries(peers) /\ events \in Seq(Events)
  BY DEF SyncRead, scannerVars, TypeOK
<1>2. CacheRead' <=> (~ raced' /\ refresh' = "writing" => rows' = Entries(peers'))
  BY DEF CacheRead, Entries
<1> QED  BY <1>1, <1>2, Restated, RestatedNext

\* A refresh writes what it has read.
LEMMA WriteFollows ==
  ASSUME TypeOK, TypeOK', ListFollowsCache, CacheRead, SyncWrite
  PROVE  ListFollowsCache' /\ CacheRead'
<1>1. /\ events' = events /\ peers' = peers /\ raced' = raced /\ refresh = "writing"
      /\ refresh' = "idle" /\ discovered' = rows /\ events \in Seq(Events)
  BY DEF SyncWrite, scannerVars, TypeOK
<1>2. CacheRead'  BY <1>1 DEF CacheRead
<1>3. ASSUME ~ raced', NEW i \in ID  PROVE Follows(discovered', events, peers, i)
  <2>1. Follows(discovered, events, peers, i)  BY <1>1, <1>3, Restated
  <2>2. discovered' = [j \in DOMAIN peers |-> peers[j].entry]
    BY <1>1, <1>3 DEF CacheRead, Entries
  <2>3. ShownIn(discovered', peers, i)  BY <2>2 DEF ShownIn
  <2> QED  BY <2>1, <2>3 DEF Follows
<1> QED  BY <1>1, <1>2, <1>3, RestatedNext

\* The other steps leave the cache, the channel and the list as they are.
LEMMA OthersFollow ==
  ASSUME TypeOK, TypeOK', ListFollowsCache, CacheRead,
         UNCHANGED <<peers, events, discovered, rows, raced>>,
         refresh' = "writing" => refresh = "writing"
  PROVE  ListFollowsCache' /\ CacheRead'
<1>1. CacheRead' <=> (~ raced' /\ refresh' = "writing" => rows' = Entries(peers'))
  BY DEF CacheRead, Entries
<1>2. CacheRead'  BY <1>1 DEF CacheRead
<1>3. events \in Seq(Events)  BY DEF TypeOK
<1> QED  BY <1>2, <1>3, Restated, RestatedNext

\* The list of the user interface, once it has handled what is in the channel,
\* is the scanner's cache, unless an event was dropped or came between the two
\* locks of a refresh (applySnapshot, discoveryEventLoop,
\* syncDiscoveredFromScanner).
THEOREM ListIsCache == Spec => []ListFollowsCache
<1>1. Init => ListFollowsCache /\ CacheRead
  <2>1. SUFFICES ASSUME Init PROVE ListFollowsCache /\ CacheRead  OBVIOUS
  <2>2. TypeOK  BY <2>1, InitTypes
  <2>3. events = <<>> /\ discovered = Empty /\ peers = Empty /\ refresh = "idle"  BY <2>1 DEF Init
  <2>4. \A i : ShownIn(Empty, Empty, i) /\ Quiet(<<>>, i)  BY DEF ShownIn, Quiet, Empty
  <2> QED  BY <2>2, <2>3, <2>4, Restated DEF Follows, CacheRead, TypeOK
<1>2. TypeOK /\ TypeOK' /\ ListFollowsCache /\ CacheRead /\ [Next]_vars
        => ListFollowsCache' /\ CacheRead'
  <2>1. SUFFICES ASSUME TypeOK, TypeOK', ListFollowsCache, CacheRead, [Next]_vars
                 PROVE  ListFollowsCache' /\ CacheRead'
    OBVIOUS
  <2> DEFINE Rest == /\ UNCHANGED <<peers, events, discovered, rows, raced>>
                     /\ refresh' = "writing" => refresh = "writing"
  <2>2. CASE HourPasses  BY <2>1, <2>2, OthersFollow DEF HourPasses, scannerVars, uiVars
  <2>3. CASE Tick  BY <2>1, <2>3, TickFollows
  <2>4. ASSUME NEW d \in Device, Appear(d) \/ UpdateDeviceName(d) \/ Disappear(d) \/ AddPeer(d)
        PROVE  ListFollowsCache' /\ CacheRead'
    <3>1. Rest  BY <2>4 DEF Appear, UpdateDeviceName, Disappear, AddPeer, scannerVars, uiVars
    <3> QED  BY <2>1, <3>1, OthersFollow
  <2>5. ASSUME StartScan \/ TakeRefresh \/ (\E d \in Device : Collect(d)) \/ ScanFails
        PROVE  ListFollowsCache' /\ CacheRead'
    <3>1. Rest  BY <2>5 DEF StartScan, TakeRefresh, Collect, ScanFails, uiVars
    <3> QED  BY <2>1, <3>1, OthersFollow
  <2>6. CASE ApplySnapshot  BY <2>1, <2>6, SnapshotFollows
  <2>7. CASE HandleEvent  BY <2>1, <2>7, HandleFollows
  <2>8. CASE RefreshDiscovery \/ RefreshTimesOut
    <3>1. Rest  BY <2>8 DEF RefreshDiscovery, RefreshTimesOut, scannerVars
    <3> QED  BY <2>1, <3>1, OthersFollow
  <2>9. CASE SyncRead  BY <2>1, <2>9, ReadFollows
  <2>10. CASE SyncWrite  BY <2>1, <2>10, WriteFollows
  <2>11. CASE UNCHANGED vars
    <3>1. Rest  BY <2>11 DEF vars, scannerVars, uiVars
    <3> QED  BY <2>1, <3>1, OthersFollow
  <2> QED
    BY <2>1, <2>2, <2>3, <2>4, <2>5, <2>6, <2>7, <2>8, <2>9, <2>10, <2>11
    DEF Next, Network, Scanner, Interface
<1> QED  BY <1>1, <1>2, TypeCorrect, PTL DEF Spec
===============================================================================
