------------------------- MODULE FolderTransfer_proofs ------------------------
(***************************************************************************)
(* Machine-checked proofs about FolderTransfer, for any number of files    *)
(* and of goroutines that run them, any limit of the request window, and   *)
(* any number of clicks, lost connections and restarts.                    *)
(*                                                                         *)
(* The inductive invariant has six parts.  Types says the domain of every  *)
(* variable.  QueueInv: nothing is known of a file before the thread of    *)
(* the drop has queued it, and nothing is queued before the envelope has   *)
(* been accepted.  EnvelopeInv follows the one question of the envelope,   *)
(* from the request on the wire over the prompt to the answer on the wire, *)
(* at one of the three at a time.  RefusalInv: a refusal on the wire has   *)
(* its reason.  FlowInv follows the goroutine of a file, with what the row *)
(* and the flags say at each of its steps; a file without one waits in the *)
(* queue or has ended.  CardInv: the card of a file that has ended shows   *)
(* an end, or an end is still to be told to it.  The last two are about    *)
(* the files whose end has crossed no goroutine's.                         *)
(***************************************************************************)
EXTENDS FolderTransfer, TLAPS

-----------------------------------------------------------------------------
(* The inductive invariant.                                                *)

Phases == {"idle", "waiting", "queueing", "showing", "returned"}
MessageTypes == {"folder_request", "file_request", "file_complete", "cancel", "accepted",
                 "rejected", "canceled", "complete", "failed"}
Wire == [type : MessageTypes, file : 0..FileCount]
Statuses == Active \cup Terminal

\* A sequence has each of its elements once.
Once(q) == \A i, j \in 1..Len(q) : q[i] = q[j] => i = j

\* The domains of the variables, in groups.
WireOK ==
  /\ conn \in Conn /\ up \in BOOLEAN
  /\ faults \in 0..MaxFaults
  /\ conn <= IF up THEN faults + 1 ELSE faults
  /\ toReceiver \in [Conn -> Seq(Wire)] /\ toSender \in [Conn -> Seq(Wire)]
ThreadOK ==
  /\ phase \in Phases /\ next \in 1..FileCount \cup {1}
  /\ phase \in {"queueing", "showing"} => FileCount > 0
  /\ envelope \in FolderStatus
LineOK ==
  /\ queue \in Seq(File) /\ slot \in 0..FileCount
  /\ Once(queue)
FlagsOK ==
  /\ row \in [File -> Statuses \cup {"none"}]
  /\ running \subseteq File /\ done \subseteq File /\ rejected \subseteq File
  /\ canceled \subseteq File /\ sent \subseteq File
Telling == {"progress", "told", "recorded"}
TaskOK ==
  /\ task \in [Task -> Work \cup {None}]
  /\ \A t \in Task : task[t] # None /\ task[t].at \in Telling => task[t].tells # None
CardsOK ==
  /\ card \in [File -> Card \cup {None}]
  /\ heard \in [Conn -> News \cup {None}]
  /\ click \in [File -> Seq(Card)]
  /\ late \subseteq File /\ crossed \subseteq File
ReceiverOK ==
  /\ prompt \in 0..(MaxFaults + 1) /\ folder \in {"none", "full", "empty"}
  /\ answer \in FolderStatus
  /\ inbound \in [File -> {"none", "accepted", "complete", "failed", "canceled"}]
LimiterOK ==
  /\ admitted \in Seq(File) /\ recent \subseteq File /\ limited \subseteq File
  /\ forgot \in BOOLEAN
Types == WireOK /\ ThreadOK /\ LineOK /\ FlagsOK /\ TaskOK /\ CardsOK /\ ReceiverOK /\ LimiterOK

\* A message is on one of the connections.
OnWire(channels, m) == \E c \in Conn : m \in ToSet(channels[c])

\* Goroutine t is at work on f.
Of(t, f) == task[t] # None /\ task[t].file = f

\* Before a file is queued nothing is known of it, and no message is about it; the
\* drop queues the files in order, after the envelope has been accepted.
Unqueued(f) ==
  row[f] = "none" =>
    /\ f \notin ToSet(queue) /\ ~ Busy(f) /\ ~ Ended(f) /\ f \notin sent
    /\ \A m \in Wire : m.file = f => ~ OnWire(toReceiver, m) /\ ~ OnWire(toSender, m)
InOrder(f) ==
  /\ phase \in {"idle", "waiting"} \/ (phase = "queueing" /\ f >= next) => row[f] = "none"
  /\ row[f] # "none" => answer = "accepted"
QueueInv == \A f \in File : Unqueued(f) /\ InOrder(f)

\* The one question of the envelope: nothing else is ever sent before its answer.
Request == Message("folder_request", 0)
Nothing == \A c \in Conn : toReceiver[c] = <<>>
Question == \E c \in Conn : toReceiver[c] = <<Request>> /\ \A d \in Conn \ {c} : toReceiver[d] = <<>>
Answered(status) == OnWire(toSender, Message(status, 0))
EnvelopeInv ==
  /\ OnWire(toReceiver, Request) => Question
  /\ phase = "idle" => Nothing /\ prompt = 0
  /\ prompt # 0 => Nothing
  /\ phase = "idle" \/ prompt # 0 \/ Question =>
       /\ answer = "none" /\ envelope \notin {"accepted", "rejected"}
       /\ ~ Answered("accepted") /\ ~ Answered("rejected")
  /\ Answered("accepted") => answer = "accepted"
  /\ Answered("rejected") => answer \in {"rejected", "none"}
  /\ EnvelopeAgrees
  /\ phase \in {"queueing", "showing"} => envelope = "accepted"

\* A refusal has its reason, on the wire and in the row.
RefusalInv ==
  /\ RefusedForReason
  /\ \A f \in File : OnWire(toSender, Message("rejected", f)) => f \in limited \/ forgot
  /\ ToSet(admitted) \subseteq recent
  /\ answer = "accepted" => folder # "none" \/ forgot

\* One goroutine works on a file.
OneTask(f) == \A t, u \in Task : Of(t, f) /\ Of(u, f) => t = u
\* It has the slot unless the file has ended, it is in its run while the file has
\* Running, and the row and the flags say where it is.
InStage(t, f) == LET at == task[t].at IN
  /\ ~ Ended(f) => slot = f
  /\ f \in running => at \in Registered \cup {"begun", "over"}
  /\ at \in {"begun", "asked", "sending", "progress", "sent"} => f \in running /\ f \notin done \cup rejected
  /\ at \in {"sending", "progress", "sent"} => row[f] \in Active
  /\ at \in {"told", "recorded"} => row[f] \in Terminal /\ task[t].tells.status \in Terminal
  /\ at = "told" => f \in done \cup rejected
  /\ at = "over" /\ f \in done \cup rejected => row[f] \in Terminal
  /\ at \in {"record", "recorded"} => f \in canceled
  /\ at = "finish" => IF Ended(f) THEN row[f] \in Terminal ELSE f \in ToSet(queue)
\* A file nobody is at work on waits in the queue or has ended.
Waits(f) ==
  /\ f \notin running
  /\ Ended(f) => row[f] \in Terminal
  /\ row[f] \in Active => f \in ToSet(queue)
FlowOK(f) ==
  /\ OneTask(f)
  /\ \A t \in Task : Of(t, f) => InStage(t, f)
  /\ (\A t \in Task : ~ Of(t, f)) => Waits(f)
FlowInv == \A f \in File \ crossed : FlowOK(f)

\* A card that is active when the row has ended is still to be told an end.
Due(f) ==
  \/ \E t \in Task : At(t, f, {"told", "recorded"})
  \/ \E c \in Conn : heard[c] # None /\ heard[c].file = f
  \/ click[f] # <<>> /\ Head(click[f]).status \in Terminal
CardOK(f) == card[f] # None /\ card[f].status \in Active /\ row[f] \in Terminal => Due(f)
CardInv ==
  /\ \A c \in Conn : heard[c] # None => heard[c].entry.status \in Terminal
  /\ \A f \in File : \A entry \in ToSet(click[f]) : entry.status # "accepted"
  /\ \A f \in File \ (late \cup crossed) : CardOK(f)

Inv == Types /\ QueueInv /\ EnvelopeInv /\ RefusalInv /\ FlowInv /\ CardInv

-----------------------------------------------------------------------------
(* Sequences and cards.                                                    *)

\* The elements of a sequence and of its parts.
LEMMA Elements ==
  ASSUME NEW S, NEW q \in Seq(S)
  PROVE  /\ ToSet(q) \subseteq S
         /\ \A m \in S : Append(q, m) \in Seq(S) /\ ToSet(Append(q, m)) = ToSet(q) \cup {m}
         /\ q # <<>> => Head(q) \in S /\ Head(q) \in ToSet(q)
                        /\ Tail(q) \in Seq(S) /\ ToSet(Tail(q)) \subseteq ToSet(q)
<1>1. ToSet(q) = {q[i] : i \in 1..Len(q)}  BY DEF ToSet
<1>2. ASSUME NEW m \in S  PROVE Append(q, m) \in Seq(S) /\ ToSet(Append(q, m)) = ToSet(q) \cup {m}
  <2>1. /\ Append(q, m) \in Seq(S) /\ Len(Append(q, m)) = Len(q) + 1
        /\ \A i \in 1..Len(q) : Append(q, m)[i] = q[i]
        /\ Append(q, m)[Len(q) + 1] = m
    OBVIOUS
  <2>2. ToSet(Append(q, m)) = {Append(q, m)[i] : i \in 1..(Len(q) + 1)}  BY <2>1 DEF ToSet
  <2> HIDE DEF ToSet
  <2>3. ToSet(Append(q, m)) \subseteq ToSet(q) \cup {m}  BY <1>1, <2>1, <2>2
  <2>4. ToSet(q) \cup {m} \subseteq ToSet(Append(q, m))  BY <1>1, <2>1, <2>2
  <2> QED  BY <2>1, <2>3, <2>4
<1>3. ASSUME q # <<>>
      PROVE  Head(q) \in S /\ Head(q) \in ToSet(q) /\ Tail(q) \in Seq(S) /\ ToSet(Tail(q)) \subseteq ToSet(q)
  <2>1. /\ Head(q) = q[1] /\ 1 \in 1..Len(q) /\ Tail(q) \in Seq(S) /\ Len(Tail(q)) = Len(q) - 1
        /\ \A i \in 1..(Len(q) - 1) : Tail(q)[i] = q[i + 1] /\ i + 1 \in 1..Len(q)
    BY <1>3
  <2>2. ToSet(Tail(q)) = {Tail(q)[i] : i \in 1..(Len(q) - 1)}
    <3>1. DOMAIN Tail(q) = 1..(Len(q) - 1)  BY <2>1
    <3> QED  BY <3>1 DEF ToSet
  <2> QED  BY <1>1, <2>1, <2>2
<1> QED  BY <1>1, <1>2, <1>3

\* An empty sequence has none.
LEMMA NoElements == ToSet(<<>>) = {}
BY DEF ToSet

\* One that has one element.
LEMMA Single == ASSUME NEW S, NEW q \in Seq(S), Len(q) = 1 PROVE q = <<q[1]>>
<1>1. <<q[1]>> \in Seq(S) /\ Len(<<q[1]>>) = 1 /\ <<q[1]>>[1] = q[1]  OBVIOUS
<1>2. \A k \in 1..1 : q[k] = <<q[1]>>[k]  BY <1>1
<1> DEFINE r == <<q[1]>>
<1> HIDE DEF r
<1>3. r \in Seq(S) /\ Len(r) = 1 /\ \A k \in 1..1 : q[k] = r[k]  BY <1>1, <1>2 DEF r
<1>4. q = r  BY <1>3
<1> QED  BY <1>4 DEF r

\* The messages are of the type of the wire.
LEMMA Messages ==
  ASSUME NEW type \in MessageTypes, NEW f \in 0..FileCount
  PROVE  Message(type, f) \in Wire
BY DEF Message, Wire

\* No message is about file 0 and another.
LEMMA FileOf == \A f \in File : f \in 0..FileCount /\ f # 0 /\ f \in Int /\ FileCount > 0 /\ FileCount \in Int
BY FolderAssumption DEF File

\* The entries that are told.
LEMMA Entries ==
  ASSUME NEW status \in Statuses, NEW bytes \in {0, 1}
  PROVE  Entry(status, bytes) \in Card /\ Entry(status, bytes).status = status
BY DEF Entry, Card, Statuses, Active, Terminal

\* What a card is after it has been told.
LEMMA Upserts ==
  ASSUME NEW old \in Card \cup {None}, NEW entry \in Card
  PROVE  UpsertFileTransfer(old, entry) \in Card /\ UpsertFileTransfer(old, entry).status = entry.status
<1>1. CASE old = None  BY <1>1 DEF UpsertFileTransfer
<1>2. CASE old # None
  <2> DEFINE keeps == \/ entry.status \in Terminal
                      \/ entry.status = "accepted" /\ old.status = "accepted" /\ ~ old.completed
  <2>1. UpsertFileTransfer(old, entry) =
          [entry EXCEPT !.completed = entry.status \in Terminal,
                        !.bytes = IF @ = 0 /\ keeps THEN old.bytes ELSE @]
    BY <1>2 DEF UpsertFileTransfer
  <2> HIDE DEF keeps
  <2>2. old.bytes \in {0, 1} /\ entry.bytes \in {0, 1}  BY <1>2 DEF Card
  <2>3. (entry.status \in Terminal) \in BOOLEAN  OBVIOUS
  <2> QED  BY <2>1, <2>2, <2>3 DEF Card
<1> QED  BY <1>1, <1>2

\* What handleFileProgress makes of an event.
LEMMA Progress ==
  ASSUME NEW event \in Card, NEW status \in Statuses
  PROVE  /\ HandleFileProgress(event, status) \in Card
         /\ status \in Terminal => HandleFileProgress(event, status).status = status
<1>1. HandleFileProgress(event, status) =
        [event EXCEPT !.status = IF status = "pending" /\ event.bytes > 0 THEN @ ELSE status,
                      !.completed = @ \/ status \in Terminal]
  BY DEF HandleFileProgress
<1>2. event.completed \in BOOLEAN /\ event.status \in Statuses  BY DEF Card, Statuses
<1>3. (event.completed \/ status \in Terminal) \in BOOLEAN  BY <1>2
<1> QED  BY <1>1, <1>2, <1>3 DEF Card, Statuses, Terminal

-----------------------------------------------------------------------------
(* The queue.                                                              *)

\* An element that a sequence has not comes to its end or to its front.
LEMMA Adding ==
  ASSUME NEW S, NEW q \in Seq(S), Once(q), NEW e \in S, e \notin ToSet(q)
  PROVE  /\ Append(q, e) \in Seq(S) /\ Once(Append(q, e)) /\ ToSet(Append(q, e)) = ToSet(q) \cup {e}
         /\ <<e>> \o q \in Seq(S) /\ Once(<<e>> \o q) /\ ToSet(<<e>> \o q) = ToSet(q) \cup {e}
<1> DEFINE n == Len(q)  a == Append(q, e)  b == <<e>> \o q
<1>1. ToSet(q) = {q[i] : i \in 1..n}  BY DEF ToSet
<1>2. \A k \in 1..n : q[k] # e  BY <1>1
<1>3. n \in Nat  OBVIOUS
<1>4. a \in Seq(S) /\ ToSet(a) = ToSet(q) \cup {e}  BY Elements
<1>5. /\ Len(a) = n + 1 /\ a[n + 1] = e /\ \A k \in 1..n : a[k] = q[k]
  OBVIOUS
<1>6. b \in Seq(S) /\ Len(b) = n + 1 /\ b[1] = e
  OBVIOUS
<1>7. \A k \in 1..n : b[k + 1] = q[k] /\ k + 1 \in 1..(n + 1)
  OBVIOUS
<1>8. \A k \in 1..(n + 1) : k = 1 \/ (k - 1 \in 1..n /\ b[k] = q[k - 1])
  OBVIOUS
<1>9. ToSet(b) = {b[k] : k \in 1..(n + 1)}  BY <1>6 DEF ToSet
<1>10. \A j, k \in 1..n : q[j] = q[k] => j = k  BY DEF Once
<1> HIDE DEF n, a, b
<1>11. Once(a)
  <2>1. \A k \in 1..(n + 1) : k \in 1..n \/ k = n + 1  BY <1>3
  <2>2. \A j, k \in 1..(n + 1) : a[j] = a[k] => j = k  BY <1>2, <1>5, <1>10, <2>1
  <2> QED  BY <1>5, <2>2 DEF Once
<1>12. Once(b)
  <2>1. SUFFICES ASSUME NEW j \in 1..(n + 1), NEW k \in 1..(n + 1), b[j] = b[k]  PROVE j = k
    BY <1>6 DEF Once
  <2>2. CASE j = 1 \/ k = 1  BY <1>2, <1>6, <1>8, <2>1, <2>2
  <2>3. CASE j # 1 /\ k # 1
    <3>1. j - 1 \in 1..n /\ k - 1 \in 1..n /\ q[j - 1] = q[k - 1]  BY <1>8, <2>1, <2>3
    <3>2. j - 1 = k - 1  BY <1>10, <3>1
    <3> QED  BY <1>3, <2>1, <3>2
  <2> QED  BY <2>2, <2>3
<1>13. ToSet(b) = ToSet(q) \cup {e}
  <2>1. 1 \in 1..(n + 1)  BY <1>3
  <2>2. ToSet(q) \cup {e} \subseteq ToSet(b)  BY <1>1, <1>6, <1>7, <1>9, <2>1
  <2>3. ToSet(b) \subseteq ToSet(q) \cup {e}  BY <1>1, <1>6, <1>8, <1>9
  <2> QED  BY <2>2, <2>3
<1> QED  BY <1>4, <1>6, <1>11, <1>12, <1>13 DEF a, b

\* One element is taken out of a sequence.
LEMMA Removing ==
  ASSUME NEW S, NEW q \in Seq(S), Once(q), NEW i \in 1..Len(q), NEW r \in Seq(S), Len(r) = Len(q) - 1,
         \A k \in 1..Len(r) : r[k] = IF k < i THEN q[k] ELSE q[k + 1]
  PROVE  Once(r) /\ ToSet(r) = ToSet(q) \ {q[i]}
<1> DEFINE n == Len(q)
<1>1. n \in Nat /\ i \in 1..n /\ Len(r) = n - 1  OBVIOUS
<1>2. ToSet(q) = {q[k] : k \in 1..n}  BY DEF ToSet
<1>3. ToSet(r) = {r[k] : k \in 1..(n - 1)}  BY <1>1 DEF ToSet
<1>4. \A j, k \in 1..n : q[j] = q[k] => j = k  BY DEF Once
<1>6. \A k \in 1..(n - 1) : r[k] = IF k < i THEN q[k] ELSE q[k + 1]  BY <1>1
<1> HIDE DEF n
<1>8. \A k \in 1..n : k # i => IF k < i THEN k \in 1..(n - 1) /\ r[k] = q[k]
                                        ELSE k - 1 \in 1..(n - 1) /\ r[k - 1] = q[k]
  <2>1. SUFFICES ASSUME NEW k \in 1..n, k # i
                 PROVE  IF k < i THEN k \in 1..(n - 1) /\ r[k] = q[k]
                                 ELSE k - 1 \in 1..(n - 1) /\ r[k - 1] = q[k]
    OBVIOUS
  <2>2. CASE k < i  BY <1>1, <1>6, <2>1, <2>2
  <2>3. CASE ~ k < i
    <3>1. k - 1 \in 1..(n - 1) /\ ~ (k - 1 < i) /\ k - 1 + 1 = k  BY <1>1, <2>1, <2>3
    <3>2. r[k - 1] = q[k - 1 + 1]  BY <1>6, <3>1
    <3> QED  BY <2>3, <3>1, <3>2
  <2> QED  BY <2>2, <2>3
<1>9. \A k \in 1..(n - 1) : \E l \in 1..n : l # i /\ r[k] = q[l]
  <2>1. SUFFICES ASSUME NEW k \in 1..(n - 1) PROVE \E l \in 1..n : l # i /\ r[k] = q[l]
    OBVIOUS
  <2>2. CASE k < i
    <3>1. k \in 1..n /\ k # i /\ r[k] = q[k]  BY <1>1, <1>6, <2>2
    <3> QED  BY <3>1
  <2>3. CASE ~ k < i
    <3>1. k + 1 \in 1..n /\ k + 1 # i /\ r[k] = q[k + 1]  BY <1>1, <1>6, <2>3
    <3> QED  BY <3>1
  <2> QED  BY <2>2, <2>3
<1>10. Once(r)
  <2>1. SUFFICES ASSUME NEW j \in 1..(n - 1), NEW k \in 1..(n - 1), r[j] = r[k]  PROVE j = k
    BY <1>1 DEF Once
  <2> DEFINE at(x) == IF x < i THEN x ELSE x + 1
  <2>2. at(j) \in 1..n /\ at(k) \in 1..n /\ (at(j) = at(k) => j = k)  BY <1>1, <2>1
  <2>3. r[j] = q[at(j)] /\ r[k] = q[at(k)]  BY <1>6
  <2> HIDE DEF at
  <2> QED  BY <1>4, <2>1, <2>2, <2>3
<1>11. ToSet(r) \subseteq ToSet(q) \ {q[i]}  BY <1>1, <1>2, <1>3, <1>4, <1>9
<1>12. ToSet(q) \ {q[i]} \subseteq ToSet(r)
  <2>1. SUFFICES ASSUME NEW k \in 1..n, k # i  PROVE q[k] \in ToSet(r)
    BY <1>2
  <2>2. \E l \in 1..(n - 1) : r[l] = q[k]  BY <1>8, <2>1
  <2> QED  BY <1>3, <2>2
<1> QED  BY <1>10, <1>11, <1>12

\* The first element is taken out.
LEMMA Taking ==
  ASSUME NEW S, NEW q \in Seq(S), Once(q), q # <<>>
  PROVE  /\ Head(q) \in S /\ Head(q) \in ToSet(q)
         /\ Tail(q) \in Seq(S) /\ Once(Tail(q)) /\ ToSet(Tail(q)) = ToSet(q) \ {Head(q)}
<1>1. /\ 1 \in 1..Len(q) /\ Head(q) = q[1] /\ Tail(q) \in Seq(S) /\ Len(Tail(q)) = Len(q) - 1
      /\ \A k \in 1..Len(Tail(q)) : Tail(q)[k] = IF k < 1 THEN q[k] ELSE q[k + 1]
  OBVIOUS
<1> DEFINE r == Tail(q)
<1> HIDE DEF r
<1>2. Once(r) /\ ToSet(r) = ToSet(q) \ {q[1]}
  <2>1. /\ r \in Seq(S) /\ Len(r) = Len(q) - 1
        /\ \A k \in 1..Len(r) : r[k] = IF k < 1 THEN q[k] ELSE q[k + 1]
    BY <1>1 DEF r
  <2>2. PICK i \in 1..Len(q) : i = 1  BY <1>1
  <2>3. \A k \in 1..Len(r) : r[k] = IF k < i THEN q[k] ELSE q[k + 1]  BY <2>1, <2>2
  <2>4. r \in Seq(S) /\ Len(r) = Len(q) - 1  BY <2>1
  <2>5. Once(r) /\ ToSet(r) = ToSet(q) \ {q[i]}  BY <2>3, <2>4, Removing, SMTT(60)
  <2> QED  BY <2>2, <2>5
<1> USE DEF r
<1> QED  BY <1>1, <1>2, Elements

\* Two sequences in a row.
LEMMA Concat ==
  ASSUME NEW S, NEW a \in Seq(S), NEW b \in Seq(S)
  PROVE  a \o b \in Seq(S) /\ Len(a \o b) = Len(a) + Len(b)
OBVIOUS

\* Any element is taken out.
LEMMA RemovingAt ==
  ASSUME NEW S, NEW q \in Seq(S), Once(q), NEW i \in 1..Len(q)
  PROVE  RemoveAt(q, i) \in Seq(S) /\ Once(RemoveAt(q, i)) /\ ToSet(RemoveAt(q, i)) = ToSet(q) \ {q[i]}
<1> DEFINE n == Len(q)  a == SubSeq(q, 1, i - 1)  b == SubSeq(q, i + 1, n)  r == RemoveAt(q, i)
<1>1. n \in Nat /\ i \in 1..n /\ i \in Int  OBVIOUS
<1>2. a \in Seq(S) /\ Len(a) = i - 1 /\ \A k \in 1..(i - 1) : a[k] = q[k]
  BY <1>1
<1>3. b \in Seq(S) /\ Len(b) = n - i /\ \A k \in 1..(n - i) : b[k] = q[k + i]
  BY <1>1
<1>4. r = a \o b  BY DEF RemoveAt
<1> HIDE DEF n, a, b, r
<1>5. r \in Seq(S) /\ Len(r) = n - 1
  <2>1. r \in Seq(S) /\ Len(r) = Len(a) + Len(b)  BY <1>2, <1>3, <1>4, Concat
  <2> QED  BY <1>1, <1>2, <1>3, <2>1
<1>6. ASSUME NEW k \in 1..(n - 1)  PROVE r[k] = IF k < i THEN q[k] ELSE q[k + 1]
  <2>1. CASE k < i
    <3>1. k \in 1..Len(a)  BY <1>1, <1>2, <2>1
    <3>2. r[k] = a[k]  BY <1>2, <1>3, <1>4, <3>1
    <3> QED  BY <1>2, <2>1, <3>1, <3>2
  <2>2. CASE ~ k < i
    <3>1. k - (i - 1) \in 1..(n - i) /\ k - (i - 1) + i = k + 1  BY <1>1, <2>2
    <3>2. r[k] = b[k - (i - 1)]  BY <1>1, <1>2, <1>3, <1>4, <2>2, <3>1
    <3> QED  BY <1>3, <2>2, <3>1, <3>2
  <2> QED  BY <2>1, <2>2
<1>7. Once(r) /\ ToSet(r) = ToSet(q) \ {q[i]}  BY <1>1, <1>5, <1>6, Removing DEF n
<1> QED  BY <1>5, <1>7 DEF r

\* What a file does to the queue.
LEMMA Queueing ==
  ASSUME LineOK, NEW f \in File
  PROVE  /\ \A front \in BOOLEAN : /\ Enqueue(f, front) \in Seq(File) /\ Once(Enqueue(f, front))
                                    /\ ToSet(Enqueue(f, front)) = ToSet(queue) \cup {f}
         /\ Dequeue(f) \in Seq(File) /\ Once(Dequeue(f)) /\ ToSet(Dequeue(f)) = ToSet(queue) \ {f}
         /\ queue # <<>> => /\ Head(queue) \in File /\ Head(queue) \in ToSet(queue)
                            /\ Tail(queue) \in Seq(File) /\ Once(Tail(queue))
                            /\ ToSet(Tail(queue)) = ToSet(queue) \ {Head(queue)}
<1>0. queue \in Seq(File) /\ Once(queue)  BY DEF LineOK
<1>1. ASSUME NEW front \in BOOLEAN
      PROVE  /\ Enqueue(f, front) \in Seq(File) /\ Once(Enqueue(f, front))
             /\ ToSet(Enqueue(f, front)) = ToSet(queue) \cup {f}
  <2>1. CASE f \in ToSet(queue)
    <3>1. Enqueue(f, front) = queue  BY <2>1 DEF Enqueue
    <3> QED  BY <1>0, <2>1, <3>1
  <2>2. CASE f \notin ToSet(queue)
    <3>1. Enqueue(f, front) = Append(queue, f) \/ Enqueue(f, front) = <<f>> \o queue
      BY <2>2 DEF Enqueue
    <3>2. /\ Append(queue, f) \in Seq(File) /\ Once(Append(queue, f))
          /\ ToSet(Append(queue, f)) = ToSet(queue) \cup {f}
          /\ <<f>> \o queue \in Seq(File) /\ Once(<<f>> \o queue)
          /\ ToSet(<<f>> \o queue) = ToSet(queue) \cup {f}
      BY <1>0, <2>2, Adding
    <3> QED  BY <3>1, <3>2
  <2> QED  BY <2>1, <2>2
<1>2. Dequeue(f) \in Seq(File) /\ Once(Dequeue(f)) /\ ToSet(Dequeue(f)) = ToSet(queue) \ {f}
  <2>1. CASE f \notin ToSet(queue)
    <3>1. Dequeue(f) = queue  BY <2>1 DEF Dequeue
    <3> QED  BY <1>0, <2>1, <3>1
  <2>2. CASE f \in ToSet(queue)
    <3> DEFINE i == CHOOSE i \in DOMAIN queue : queue[i] = f
    <3>1. DOMAIN queue = 1..Len(queue)  BY <1>0
    <3>2. \E k \in DOMAIN queue : queue[k] = f  BY <2>2, <3>1 DEF ToSet
    <3>3. i \in 1..Len(queue) /\ queue[i] = f  BY <3>1, <3>2
    <3>4. Dequeue(f) = RemoveAt(queue, i)  BY <2>2 DEF Dequeue
    <3> HIDE DEF i
    <3> QED  BY <1>0, <3>3, <3>4, RemovingAt
  <2> QED  BY <2>1, <2>2
<1>3. queue # <<>> => /\ Head(queue) \in File /\ Head(queue) \in ToSet(queue)
                     /\ Tail(queue) \in Seq(File) /\ Once(Tail(queue))
                     /\ ToSet(Tail(queue)) = ToSet(queue) \ {Head(queue)}
  BY <1>0, Taking
<1> QED  BY <1>1, <1>2, <1>3

-----------------------------------------------------------------------------
(* The connections.                                                        *)

Channels == [Conn -> Seq(Wire)]

\* The messages of one state are, but for m, those of another.
Within(new, old, M) == \A m \in Wire : OnWire(new, m) => OnWire(old, m) \/ m \in M

\* The connections there are.
LEMMA Connections ==
  ASSUME WireOK
  PROVE  Current \in 0..(MaxFaults + 1) /\ Conn = 1..(MaxFaults + 1) /\ MaxFaults \in Nat
         /\ \A c : Live(c) => c \in Conn /\ c = conn /\ up
BY FolderAssumption DEF WireOK, Current, Conn, Live

\* What is sent on a connection.
LEMMA Sending ==
  ASSUME WireOK, NEW channels \in Channels, NEW c, NEW type \in MessageTypes, NEW f \in 0..FileCount
  PROVE  /\ Sent(channels, c, type, f) \in Channels
         /\ Within(Sent(channels, c, type, f), channels, {Message(type, f)})
         /\ ~ Live(c) => Sent(channels, c, type, f) = channels
<1> DEFINE m == Message(type, f)  s == Sent(channels, c, type, f)
<1>1. m \in Wire  BY Messages
<1>2. CASE ~ Live(c)
  <2>1. s = channels  BY <1>2 DEF Sent
  <2> QED  BY <2>1 DEF Within
<1>3. CASE Live(c)
  <2>1. c \in Conn  BY <1>3, Connections
  <2>2. s = [channels EXCEPT ![c] = Append(@, m)]  BY <1>3 DEF Sent
  <2>3. channels[c] \in Seq(Wire)  BY <2>1 DEF Channels
  <2> HIDE DEF m, s
  <2>4. Append(channels[c], m) \in Seq(Wire) /\ ToSet(Append(channels[c], m)) = ToSet(channels[c]) \cup {m}
    BY <1>1, <2>3, Elements
  <2>5. s \in Channels /\ s[c] = Append(channels[c], m) /\ \A d \in Conn \ {c} : s[d] = channels[d]
    BY <2>1, <2>2, <2>4 DEF Channels
  <2>6. Within(s, channels, {m})  BY <2>1, <2>4, <2>5 DEF Within, OnWire
  <2> QED  BY <1>3, <2>5, <2>6 DEF m, s
<1> QED  BY <1>2, <1>3

\* A message that is taken was on the connection.
LEMMA Hearing ==
  ASSUME WireOK, NEW c \in Conn, NEW type, NEW f, Hears(c, type, f)
  PROVE  /\ OnWire(toSender, Message(type, f))
         /\ toSender' \in Channels /\ Within(toSender', toSender, {})
<1>1. toSender \in Channels /\ toSender[c] \in Seq(Wire)  BY DEF WireOK, Channels
<1>2. /\ toSender[c] # <<>> /\ Head(toSender[c]) = Message(type, f)
      /\ toSender' = [toSender EXCEPT ![c] = Tail(@)]
  BY DEF Hears
<1>3. /\ Head(toSender[c]) \in ToSet(toSender[c])
      /\ Tail(toSender[c]) \in Seq(Wire) /\ ToSet(Tail(toSender[c])) \subseteq ToSet(toSender[c])
  BY <1>1, <1>2, Elements
<1>4. /\ toSender' \in Channels /\ toSender'[c] = Tail(toSender[c])
      /\ \A d \in Conn \ {c} : toSender'[d] = toSender[d]
  BY <1>1, <1>2, <1>3 DEF Channels
<1>5. Within(toSender', toSender, {})  BY <1>3, <1>4 DEF Within, OnWire
<1>6. OnWire(toSender, Message(type, f))  BY <1>2, <1>3 DEF OnWire
<1> QED  BY <1>4, <1>5, <1>6

\* The same of the receiver.
LEMMA Receiving ==
  ASSUME WireOK, NEW c \in Conn, NEW type, NEW f, Takes(c, type, f)
  PROVE  /\ OnWire(toReceiver, Message(type, f)) /\ toReceiver[c] \in Seq(Wire)
         /\ toReceiver' \in Channels /\ Within(toReceiver', toReceiver, {})
         /\ toReceiver'[c] = Tail(toReceiver[c]) /\ \A d \in Conn \ {c} : toReceiver'[d] = toReceiver[d]
<1>1. toReceiver \in Channels /\ toReceiver[c] \in Seq(Wire)  BY DEF WireOK, Channels
<1>2. /\ toReceiver[c] # <<>> /\ Head(toReceiver[c]) = Message(type, f)
      /\ toReceiver' = [toReceiver EXCEPT ![c] = Tail(@)]
  BY DEF Takes
<1>3. /\ Head(toReceiver[c]) \in ToSet(toReceiver[c])
      /\ Tail(toReceiver[c]) \in Seq(Wire) /\ ToSet(Tail(toReceiver[c])) \subseteq ToSet(toReceiver[c])
  BY <1>1, <1>2, Elements
<1>4. /\ toReceiver' \in Channels /\ toReceiver'[c] = Tail(toReceiver[c])
      /\ \A d \in Conn \ {c} : toReceiver'[d] = toReceiver[d]
  BY <1>1, <1>2, <1>3 DEF Channels
<1>5. Within(toReceiver', toReceiver, {})  BY <1>3, <1>4 DEF Within, OnWire
<1>6. OnWire(toReceiver, Message(type, f))  BY <1>2, <1>3 DEF OnWire
<1> QED  BY <1>1, <1>4, <1>5, <1>6

\* A connection that is lost keeps the first of its messages.
LEMMA Cutting ==
  ASSUME NEW channels \in Channels, NEW c \in Conn, NEW i \in 0..Len(channels[c]),
         NEW cut, cut = [channels EXCEPT ![c] = SubSeq(@, 1, i)]
  PROVE  /\ cut \in Channels /\ Within(cut, channels, {})
         /\ i \in Int /\ cut[c] = SubSeq(channels[c], 1, i) /\ \A d \in Conn \ {c} : cut[d] = channels[d]
<1>1. channels[c] \in Seq(Wire) /\ i \in Int  BY DEF Channels
<1>2. /\ SubSeq(channels[c], 1, i) \in Seq(Wire) /\ Len(SubSeq(channels[c], 1, i)) = i
      /\ \A k \in 1..i : SubSeq(channels[c], 1, i)[k] = channels[c][k]
  BY <1>1
<1>3. ToSet(SubSeq(channels[c], 1, i)) \subseteq ToSet(channels[c])
  <2>1. /\ DOMAIN SubSeq(channels[c], 1, i) = 1..i
        /\ DOMAIN channels[c] = 1..Len(channels[c])
    BY <1>1, <1>2
  <2>2. \A k \in 1..i : k \in 1..Len(channels[c])  BY <1>1
  <2> QED  BY <1>2, <2>1, <2>2 DEF ToSet
<1>4. /\ cut \in Channels /\ cut[c] = SubSeq(channels[c], 1, i)
      /\ \A d \in Conn \ {c} : cut[d] = channels[d]
  BY <1>2 DEF Channels
<1>5. Within(cut, channels, {})  BY <1>3, <1>4 DEF Within, OnWire
<1> QED  BY <1>1, <1>4, <1>5

\* What is on an empty connection.
LEMMA Silence == ASSUME NEW m PROVE ~ OnWire([c \in Conn |-> <<>>], m)
BY NoElements DEF OnWire

-----------------------------------------------------------------------------
(* Types.                                                                  *)

\* A group of variables that does not change stays in its domain.
LEMMA Stable ==
  ASSUME Types
  PROVE  /\ UNCHANGED <<wire, faults>> => WireOK'
         /\ UNCHANGED thread => ThreadOK'
         /\ UNCHANGED line => LineOK'
         /\ UNCHANGED <<row, flags>> => FlagsOK'
         /\ UNCHANGED task => TaskOK'
         /\ UNCHANGED <<cards, crossed>> => CardsOK'
         /\ UNCHANGED receiver => ReceiverOK'
         /\ UNCHANGED <<limiter, forgot>> => LimiterOK'
<1> USE DEF Types
<1>1. UNCHANGED <<wire, faults>> => WireOK'  BY DEF wire, WireOK
<1>2. UNCHANGED thread => ThreadOK'  BY DEF thread, ThreadOK
<1>3. UNCHANGED line => LineOK'  BY DEF line, LineOK
<1>4. UNCHANGED <<row, flags>> => FlagsOK'  BY DEF flags, FlagsOK
<1>5. UNCHANGED task => TaskOK'  BY DEF TaskOK
<1>6. UNCHANGED <<cards, crossed>> => CardsOK'  BY DEF cards, CardsOK
<1>7. UNCHANGED receiver => ReceiverOK'  BY DEF receiver, ReceiverOK
<1>8. UNCHANGED <<limiter, forgot>> => LimiterOK'  BY DEF limiter, LimiterOK
<1> QED  BY <1>1, <1>2, <1>3, <1>4, <1>5, <1>6, <1>7, <1>8

\* The types of the messages and of the statuses.
LEMMA Names ==
  /\ {"folder_request", "file_request", "file_complete", "cancel", "accepted",
      "rejected", "canceled", "complete", "failed"} = MessageTypes
  /\ {"pending", "accepted", "rejected", "failed", "complete", "canceled"} = Statuses
  /\ Active = {"pending", "accepted"} /\ Terminal = {"rejected", "failed", "complete", "canceled"}
BY DEF MessageTypes, Statuses, Active, Terminal

\* The messages of a sender that only sends, or only hears.
LEMMA WireStep ==
  ASSUME WireOK, UNCHANGED <<conn, up, faults>>, toReceiver' \in Channels, toSender' \in Channels
  PROVE  WireOK'
BY DEF WireOK, Channels

\* A connection loop of the sender that takes a message and sends none.
LEMMA HearingTypes ==
  ASSUME WireOK, NEW c \in Conn, NEW type, NEW f, Hears(c, type, f), UNCHANGED <<conn, up, toReceiver, faults>>
  PROVE  WireOK'
<1>1. toSender' \in Channels /\ toReceiver' \in Channels  BY Hearing DEF WireOK, Channels
<1> QED  BY <1>1, WireStep

\* A thread of the sender that sends a message.
LEMMA SendingTypes ==
  ASSUME WireOK, NEW c, NEW type \in MessageTypes, NEW f \in 0..FileCount, Send(c, type, f),
         UNCHANGED <<conn, up, toSender, faults>>
  PROVE  WireOK' /\ Within(toReceiver', toReceiver, {Message(type, f)})
<1>1. toReceiver \in Channels /\ toSender \in Channels  BY DEF WireOK, Channels
<1>2. toReceiver' = Sent(toReceiver, c, type, f)  BY DEF Send
<1>3. toReceiver' \in Channels /\ Within(toReceiver', toReceiver, {Message(type, f)})  BY <1>1, <1>2, Sending
<1>4. toSender' \in Channels  BY <1>1
<1> QED  BY <1>3, <1>4, WireStep

\* A message of the receiver.
LEMMA ReplyTypes ==
  ASSUME WireOK, NEW c, NEW type \in MessageTypes, NEW f \in 0..FileCount, Reply(c, type, f)
  PROVE  toSender' \in Channels /\ Within(toSender', toSender, {Message(type, f)})
<1>1. toSender \in Channels  BY DEF WireOK, Channels
<1>2. toSender' = Sent(toSender, c, type, f)  BY DEF Reply
<1> QED  BY <1>1, <1>2, Sending

\* A goroutine, where it is at work.
LEMMA TaskOf ==
  ASSUME TaskOK
  PROVE  \A t \in Task : task[t] # None =>
           /\ task[t] \in Work /\ task[t].file \in File /\ task[t].at \in Stage /\ task[t].via \in Conn
           /\ task[t].tells \in Card \cup {None}
           /\ task[t].at \in Telling => task[t].tells \in Card
BY DEF TaskOK, Work

\* A goroutine that goes on, perhaps with something to tell.
Moved(t, stage, news) == [task EXCEPT ![t].at = stage, ![t].tells = news]

LEMMA TaskMoves ==
  ASSUME TaskOK, NEW t \in Task, task[t] # None, NEW stage \in Stage, NEW news \in Card \cup {None},
         task' = Moved(t, stage, news)
  PROVE  /\ task' \in [Task -> Work \cup {None}]
         /\ task'[t] # None /\ task'[t].file = task[t].file /\ task'[t].at = stage /\ task'[t].tells = news
         /\ \A u \in Task \ {t} : task'[u] = task[u]
<1>1. task \in [Task -> Work \cup {None}] /\ task[t] \in Work  BY TaskOf DEF TaskOK
<1> DEFINE w == [task[t] EXCEPT !.at = stage, !.tells = news]
<1>2. w \in Work /\ w.file = task[t].file /\ w.at = stage /\ w.tells = news  BY <1>1 DEF Work
<1>3. w # None  BY <1>2, FolderAssumption
<1>4. task' = [task EXCEPT ![t] = w]  BY <1>1 DEF Moved
<1> HIDE DEF w
<1> QED  BY <1>1, <1>2, <1>3, <1>4

\* The same of the two ways it goes on.
LEMMA GotoTypes ==
  ASSUME TaskOK, NEW t \in Task, task[t] # None, NEW stage \in Stage \ Telling, Goto(t, stage)
  PROVE  /\ TaskOK'
         /\ task'[t] # None /\ task'[t].file = task[t].file /\ task'[t].at = stage /\ task'[t].tells = None
         /\ \A u \in Task \ {t} : task'[u] = task[u]
<1>1. task' = Moved(t, stage, None)  BY DEF Goto, Moved
<1>2. stage \in Stage /\ None \in Card \cup {None}  OBVIOUS
<1>3. /\ task' \in [Task -> Work \cup {None}]
      /\ task'[t] # None /\ task'[t].file = task[t].file /\ task'[t].at = stage /\ task'[t].tells = None
      /\ \A u \in Task \ {t} : task'[u] = task[u]
  BY <1>1, <1>2, TaskMoves
<1> QED  BY <1>3 DEF TaskOK

LEMMA TellTypes ==
  ASSUME TaskOK, NEW t \in Task, task[t] # None, NEW stage \in Stage, NEW event \in Card, NEW status \in Statuses,
         Tell(t, stage, event, status)
  PROVE  /\ TaskOK'
         /\ task'[t] # None /\ task'[t].file = task[t].file /\ task'[t].at = stage
         /\ task'[t].tells = HandleFileProgress(event, status) /\ task'[t].tells # None
         /\ \A u \in Task \ {t} : task'[u] = task[u]
<1>1. HandleFileProgress(event, status) \in Card  BY Progress
<1>2. HandleFileProgress(event, status) # None  BY <1>1, FolderAssumption
<1>3. PICK news \in Card : news = HandleFileProgress(event, status)  BY <1>1
<1>4. task' = Moved(t, stage, news)  BY <1>3 DEF Tell, Moved
<1>5. news \in Card \cup {None}  OBVIOUS
<1>6. /\ task' \in [Task -> Work \cup {None}]
      /\ task'[t] # None /\ task'[t].file = task[t].file /\ task'[t].at = stage /\ task'[t].tells = news
      /\ \A u \in Task \ {t} : task'[u] = task[u]
  BY <1>4, <1>5, TaskMoves
<1> QED  BY <1>2, <1>3, <1>6 DEF TaskOK

\* The entry of one file's card.
LEMMA CardStep ==
  ASSUME Types, NEW f \in File, NEW entry \in Card
  PROVE  [card EXCEPT ![f] = UpsertFileTransfer(@, entry)] \in [File -> Card \cup {None}]
<1>1. card[f] \in Card \cup {None}  BY DEF Types, CardsOK
<1>2. UpsertFileTransfer(card[f], entry) \in Card  BY <1>1, Upserts
<1> QED  BY <1>2 DEF Types, CardsOK

\* What a connection loop tells is not None.
LEMMA Hearings ==
  ASSUME NEW entry \in Card, NEW f \in File
  PROVE  [file |-> f, entry |-> entry] \in News /\ [file |-> f, entry |-> entry] # None
BY FolderAssumption DEF News

\* The next file of the drop.
LEMMA AdvanceTypes ==
  ASSUME Types, NEW then \in {"showing", "returned"}, phase \in {"queueing", "showing"}, Advance(then)
  PROVE  /\ next \in File /\ next' \in File /\ phase' \in Phases /\ FileCount > 0
         /\ next < FileCount => next' = next + 1 /\ phase' = phase
         /\ ~ next < FileCount => next = FileCount /\ next' = 1 /\ phase' = then
<1>1. FileCount \in Nat /\ FileCount > 0 /\ next \in 1..FileCount
  BY FolderAssumption DEF Types, ThreadOK
<1> QED  BY <1>1 DEF Types, ThreadOK, Advance, File, Phases

\* Initially.
LEMMA InitTypes == Init => Types
<1> SUFFICES ASSUME Init PROVE Types  OBVIOUS
<1>0. FileCount \in Nat /\ MaxFaults \in Nat  BY FolderAssumption
<1>e. <<>> \in Seq(File) /\ <<>> \in Seq(Wire) /\ <<>> \in Seq(Card) /\ {} \subseteq File /\ FALSE \in BOOLEAN
  OBVIOUS
<1>1. WireOK
  <2>1. 1 \in Conn /\ 0 \in 0..MaxFaults  BY <1>0 DEF Conn
  <2>2. conn = 1 /\ up = TRUE /\ faults = 0  BY DEF Init
  <2>3. toReceiver = [c \in Conn |-> <<>>] /\ toSender = [c \in Conn |-> <<>>]  BY DEF Init
  <2> QED  BY <1>e, <2>1, <2>2, <2>3 DEF WireOK
<1>2. ThreadOK  BY <1>0 DEF Init, ThreadOK, Phases, FolderStatus
<1>3. LineOK
  <2>1. queue = <<>> /\ slot = 0  BY DEF Init
  <2>2. Once(<<>>)  BY DEF Once
  <2> QED  BY <1>0, <1>e, <2>1, <2>2 DEF LineOK
<1>4. FlagsOK
  <2>1. row = [f \in File |-> "none"] /\ running = {} /\ done = {} /\ rejected = {} /\ canceled = {} /\ sent = {}
    BY DEF Init
  <2> QED  BY <2>1 DEF FlagsOK
<1>5. TaskOK  BY DEF Init, TaskOK
<1>6. CardsOK
  <2>1. /\ card = [f \in File |-> None] /\ heard = [c \in Conn |-> None] /\ click = [f \in File |-> <<>>]
        /\ late = {} /\ crossed = {}
    BY DEF Init
  <2> QED  BY <1>e, <2>1 DEF CardsOK
<1>7. ReceiverOK
  <2>1. /\ prompt = 0 /\ folder = "none" /\ answer = "none" /\ inbound = [f \in File |-> "none"]
    BY DEF Init
  <2> QED  BY <1>0, <2>1 DEF ReceiverOK, FolderStatus
<1>8. LimiterOK
  <2>1. admitted = <<>> /\ recent = {} /\ limited = {} /\ forgot = FALSE  BY DEF Init
  <2> QED  BY <1>e, <2>1 DEF LimiterOK
<1> QED  BY <1>1, <1>2, <1>3, <1>4, <1>5, <1>6, <1>7, <1>8 DEF Types

\* The steps of the drop and of the envelope.
LEMMA FolderTypes ==
  ASSUME Types, Folder  PROVE Types'
<1> USE Stable DEF Types
<1>0. 0 \in 0..FileCount /\ FileCount \in Nat  BY FolderAssumption
<1>n. {"accepted", "rejected", "folder_request"} \subseteq MessageTypes  BY Names
<1>1. CASE SendFolder
  <2>1. Send(conn, "folder_request", 0) /\ UNCHANGED <<conn, up, toSender, faults>>  BY <1>1 DEF SendFolder, bounds
  <2>2. WireOK'  BY <1>0, <1>n, <2>1, SendingTypes
  <2>3. ThreadOK'  BY <1>1 DEF SendFolder, ThreadOK, Phases, FolderStatus
  <2> QED  BY <1>1, <2>2, <2>3 DEF SendFolder, runs
<1>2. CASE FolderTimesOut
  <2>1. ThreadOK'  BY <1>2 DEF FolderTimesOut, ThreadOK, Phases
  <2> QED  BY <1>2, <2>1 DEF FolderTimesOut, runs, bounds
<1>3. ASSUME NEW c \in Conn, NEW status \in {"accepted", "rejected"}, HandleFolderResponse(c, status)  PROVE Types'
  <2>1. Hears(c, status, 0) /\ UNCHANGED <<conn, up, toReceiver, faults>>  BY <1>3 DEF HandleFolderResponse, bounds
  <2>2. WireOK'  BY <2>1, HearingTypes
  <2>3. ThreadOK'  BY <1>0, <1>3 DEF HandleFolderResponse, ThreadOK, Phases, FolderStatus
  <2> QED  BY <1>3, <2>2, <2>3 DEF HandleFolderResponse, runs
<1>4. ASSUME NEW c, NEW status \in {"accepted", "rejected"}, AnswerFolder(c, status),
             UNCHANGED <<conn, up, faults>>, toReceiver' \in Channels, UNCHANGED inbound,
             prompt' \in 0..(MaxFaults + 1)
      PROVE  WireOK' /\ ReceiverOK'
  <2>1. toSender' \in Channels
    <3>1. Reply(c, status, 0) \/ Reply(c, "rejected", 0)  BY <1>4 DEF AnswerFolder
    <3> QED  BY <1>0, <1>n, <3>1, ReplyTypes
  <2>2. WireOK'  BY <1>4, <2>1, WireStep
  <2>3. answer' \in FolderStatus /\ folder' \in {"none", "full", "empty"}
    BY <1>4 DEF AnswerFolder, ReceiverOK, FolderStatus
  <2> QED  BY <1>4, <2>2, <2>3 DEF ReceiverOK
<1>5. ASSUME NEW status \in {"accepted", "rejected"}, DecideFolder(status)  PROVE Types'
  <2>1. /\ prompt' = 0 /\ AnswerFolder(prompt, status)
        /\ UNCHANGED <<conn, up, toReceiver, faults, inbound>>
    BY <1>5 DEF DecideFolder, bounds
  <2>2. toReceiver' \in Channels  BY <2>1 DEF WireOK, Channels
  <2>3. 0 \in 0..(MaxFaults + 1)  BY FolderAssumption
  <2>4. WireOK' /\ ReceiverOK'  BY <1>4, <2>1, <2>2, <2>3
  <2> QED  BY <1>5, <2>4 DEF DecideFolder, runs
<1>6. ASSUME NEW c \in Conn, HandleFolderRequest(c)  PROVE Types'
  <2>1. /\ Takes(c, "folder_request", 0) /\ UNCHANGED <<conn, up, faults, inbound>>
        /\ \/ \E status \in {"accepted", "rejected"} : AnswerFolder(c, status) /\ UNCHANGED prompt
           \/ prompt' = c /\ UNCHANGED <<answer, folder, toSender>>
    BY <1>6 DEF HandleFolderRequest, bounds
  <2>2. toReceiver' \in Channels  BY <2>1, Receiving
  <2>3. CASE prompt' = c /\ UNCHANGED <<answer, folder, toSender>>
    <3>1. toSender' \in Channels  BY <2>3 DEF WireOK, Channels
    <3>2. WireOK'  BY <2>1, <2>2, <3>1, WireStep
    <3>3. c \in 0..(MaxFaults + 1)  BY FolderAssumption DEF Conn
    <3>4. ReceiverOK'  BY <2>1, <2>3, <3>3 DEF ReceiverOK
    <3> QED  BY <1>6, <3>2, <3>4 DEF HandleFolderRequest, runs
  <2>4. ASSUME NEW status \in {"accepted", "rejected"}, AnswerFolder(c, status), UNCHANGED prompt
        PROVE  Types'
    <3>1. WireOK' /\ ReceiverOK'  BY <1>4, <2>1, <2>2, <2>4 DEF ReceiverOK
    <3> QED  BY <1>6, <3>1 DEF HandleFolderRequest, runs
  <2> QED  BY <2>1, <2>3, <2>4
<1>7. CASE QueueFile
  <2>1. next \in File /\ next' \in File /\ phase' \in Phases /\ FileCount > 0
    BY <1>7, AdvanceTypes DEF QueueFile
  <2>2. ThreadOK'  BY <1>7, <2>1 DEF QueueFile, ThreadOK, File
  <2>3. LineOK'
    <3>1. queue' = Enqueue(next, FALSE) /\ slot' = slot  BY <1>7 DEF QueueFile
    <3>2. queue' \in Seq(File) /\ Once(queue')  BY <2>1, <3>1, Queueing
    <3> QED  BY <3>1, <3>2 DEF LineOK, Once
  <2>4. FlagsOK'
    <3>1. row' = [row EXCEPT ![next] = "pending"] /\ UNCHANGED <<running, done, rejected, canceled, sent>>
      BY <1>7 DEF QueueFile, flags
    <3>2. row' \in [File -> Statuses \cup {"none"}]  BY <3>1, Names DEF FlagsOK
    <3> QED  BY <3>1, <3>2 DEF FlagsOK
  <2> QED  BY <1>7, <2>2, <2>3, <2>4 DEF QueueFile, bounds
<1>8. CASE QueueFails
  <2>1. ThreadOK'  BY <1>8 DEF QueueFails, ThreadOK, Phases
  <2> QED  BY <1>8, <2>1 DEF QueueFails, runs, bounds
<1>9. CASE ShowQueued
  <2>1. next \in File /\ next' \in File /\ phase' \in Phases /\ FileCount > 0
    BY <1>9, AdvanceTypes DEF ShowQueued
  <2>2. ThreadOK'  BY <1>9, <2>1 DEF ShowQueued, ThreadOK, File
  <2>3. Entry("pending", 0) \in Card  BY Entries, Names
  <2>4. card' \in [File -> Card \cup {None}]  BY <1>9, <2>1, <2>3, CardStep DEF ShowQueued
  <2>5. CardsOK'  BY <1>9, <2>1, <2>4 DEF ShowQueued, CardsOK, CallPending
  <2> QED  BY <1>9, <2>2, <2>5 DEF ShowQueued, runs, bounds
<1> QED  BY <1>1, <1>2, <1>3, <1>5, <1>6, <1>7, <1>8, <1>9 DEF Folder

\* The row and the flags of one file.
LEMMA FlagsStep ==
  ASSUME FlagsOK, NEW f \in File, NEW status \in Statuses,
         row' = [row EXCEPT ![f] = status] \/ row' = row,
         running' \subseteq running \cup {f}, done' \subseteq done \cup {f},
         rejected' \subseteq rejected \cup {f}, canceled' \subseteq canceled \cup {f},
         sent' \subseteq sent \cup {f}
  PROVE  FlagsOK'
<1>1. row' \in [File -> Statuses \cup {"none"}]  BY DEF FlagsOK
<1> QED  BY <1>1 DEF FlagsOK

\* A goroutine that starts.
LEMMA TaskStarts ==
  ASSUME TaskOK, NEW t \in Task, NEW w \in Work, w.at = "begun", task' = [task EXCEPT ![t] = w]
  PROVE  TaskOK' /\ task'[t] = w /\ \A u \in Task \ {t} : task'[u] = task[u]
<1>1. task' \in [Task -> Work \cup {None}] /\ task'[t] = w /\ \A u \in Task \ {t} : task'[u] = task[u]
  BY DEF TaskOK
<1>2. w.at \notin Telling  BY DEF Telling
<1> QED  BY <1>1, <1>2 DEF TaskOK

\* The steps of a goroutine.
LEMMA RunTypes ==
  ASSUME Types, QueueInv, NEW t \in Task, Run(t)
  PROVE  Types'
<1>k. TaskOK  BY DEF Types
<1>0. ASSUME task[t] # None
      PROVE  /\ task[t].file \in File /\ task[t].file \in 0..FileCount /\ task[t].at \in Stage
             /\ task[t].at \in Telling => task[t].tells \in Card
  <2>1. /\ task[t] \in Work /\ task[t].file \in File /\ task[t].at \in Stage
        /\ task[t].at \in Telling => task[t].tells \in Card
    BY <1>k, <1>0, TaskOf
  <2> QED  BY <2>1, FileOf
<1> USE Stable DEF Types
<1>n. {"file_request", "file_complete"} \subseteq MessageTypes /\ "canceled" \in Statuses /\ "pending" \in Statuses
      /\ "accepted" \in Statuses
  BY Names
<1>1. CASE StartNext(t)
  <2> DEFINE f == Head(queue)
  <2>1. /\ queue # <<>> /\ queue' = Tail(queue)
        /\ UNCHANGED <<wire, thread, row, done, rejected, canceled, sent, cards, crossed, receiver, limiter, forgot,
                       bounds>>
        /\ \/ UNCHANGED <<slot, running, task>>
           \/ /\ slot' = f /\ running' = running \cup {f}
              /\ \/ task' = task
                 \/ task' = [task EXCEPT ![t] = [file |-> f, at |-> "begun", via |-> conn, tells |-> None]]
    BY <1>1 DEF StartNext
  <2>2. queue' \in Seq(File) /\ Once(queue') /\ f \in File
    <3>1. \A g \in File : Tail(queue) \in Seq(File) /\ Once(Tail(queue)) /\ Head(queue) \in File
      BY <2>1, Queueing
    <3>2. queue \in Seq(File)  BY DEF LineOK
    <3>3. Head(queue) \in File  BY <2>1, <3>2
    <3> QED  BY <2>1, <3>1, <3>3
  <2> HIDE DEF f
  <2>3. f \in 0..FileCount  BY <2>2, FileOf
  <2>4. LineOK'
    <3>1. slot' \in 0..FileCount  BY <2>1, <2>3 DEF LineOK
    <3> QED  BY <2>2, <3>1 DEF LineOK, Once
  <2>5. FlagsOK'
    <3>1. running' \subseteq running \cup {f}  BY <2>1
    <3> QED  BY <1>n, <2>1, <2>2, <3>1, FlagsStep
  <2>6. TaskOK'
    <3>1. conn \in Conn  BY DEF WireOK
    <3>2. [file |-> f, at |-> "begun", via |-> conn, tells |-> None] \in Work
      BY <2>2, <3>1 DEF Work, Stage
    <3> QED  BY <2>1, <3>2, TaskStarts DEF TaskOK
  <2> QED  BY <2>1, <2>4, <2>5, <2>6 DEF bounds
<1>2. CASE AskFile(t)
  <2>1. /\ task[t] # None /\ Send(task[t].via, "file_request", task[t].file)
        /\ \E stage \in {"asked", "over"} : Goto(t, stage)
        /\ UNCHANGED <<conn, up, toSender, faults>>
    BY <1>2 DEF AskFile, bounds
  <2>2. WireOK'  BY <1>0, <1>n, <2>1, SendingTypes
  <2>3. TaskOK'  BY <2>1, GotoTypes DEF Stage, Telling
  <2> QED  BY <1>2, <2>2, <2>3 DEF AskFile
<1>3. CASE SendData(t)
  <2> DEFINE f == task[t].file
  <2>1. /\ task[t] # None /\ task[t].at = "sending"
        /\ sent' = sent \cup {f} /\ Tell(t, "progress", Entry("accepted", 1), row[f])
        /\ UNCHANGED <<row, running, done, rejected, canceled>>
    BY <1>3 DEF SendData
  <2>2. FlagsOK'  BY <1>0, <1>n, <2>1, FlagsStep
  <2>3. CASE row[f] \in Statuses
    <3>1. Entry("accepted", 1) \in Card  BY <1>n, Entries
    <3>2. TaskOK'  BY <2>1, <2>3, <3>1, TellTypes DEF Stage
    <3> QED  BY <1>3, <2>2, <3>2 DEF SendData, bounds
  <2>4. row[f] \in Statuses
    <3>1. Busy(f)  BY <1>0, <2>1 DEF Busy, At
    <3>2. row[f] # "none"  BY <1>0, <2>1, <3>1 DEF QueueInv, Unqueued
    <3> QED  BY <1>0, <2>1, <3>2 DEF FlagsOK
  <2> QED  BY <2>3, <2>4
<1>4. CASE SendComplete(t)
  <2>1. /\ task[t] # None /\ Send(task[t].via, "file_complete", task[t].file)
        /\ \E stage \in {"sent", "over"} : Goto(t, stage)
        /\ UNCHANGED <<conn, up, toSender, faults>>
    BY <1>4 DEF SendComplete, bounds
  <2>2. WireOK'  BY <1>0, <1>n, <2>1, SendingTypes
  <2>3. TaskOK'  BY <2>1, GotoTypes DEF Stage, Telling
  <2> QED  BY <1>4, <2>2, <2>3 DEF SendComplete
<1>5. CASE RunStops(t)
  <2>1. TaskOK'  BY <1>5, GotoTypes DEF RunStops, Stage, Telling
  <2> QED  BY <1>5, <2>1 DEF RunStops, bounds
<1>6. CASE RunGivesUp(t)
  <2>1. TaskOK'  BY <1>6, GotoTypes DEF RunGivesUp, Stage, Telling
  <2>2. WireOK'
    <3>1. UNCHANGED wire /\ faults' = faults + 1 /\ faults < MaxFaults  BY <1>6 DEF RunGivesUp
    <3>2. faults' \in 0..MaxFaults /\ (conn <= IF up THEN faults' + 1 ELSE faults')
      BY <3>1, FolderAssumption DEF WireOK, Conn
    <3> QED  BY <3>1, <3>2 DEF WireOK, wire
  <2> QED  BY <1>6, <2>1, <2>2 DEF RunGivesUp
<1>7. CASE CaptureOutcome(t)
  <2>1. /\ task[t] # None /\ running' = running \ {task[t].file}
        /\ \E stage \in {"record", "finish", "requeue"} : Goto(t, stage)
        /\ UNCHANGED <<row, done, rejected, canceled, sent>>
    BY <1>7 DEF CaptureOutcome
  <2>2. FlagsOK'  BY <1>0, <1>n, <2>1, FlagsStep
  <2>3. TaskOK'  BY <2>1, GotoTypes DEF Stage, Telling
  <2> QED  BY <1>7, <2>2, <2>3 DEF CaptureOutcome, bounds
<1>8. CASE RequeuePending(t)
  <2> DEFINE f == task[t].file
  <2>1. /\ task[t] # None /\ Goto(t, "finish") /\ UNCHANGED <<slot, flags, cards>>
        /\ row' = [row EXCEPT ![f] = "pending"] /\ queue' = Enqueue(f, TRUE)
        /\ crossed' \in {crossed, crossed \cup {f}}
    BY <1>8 DEF RequeuePending
  <2>2. LineOK'
    <3>1. queue' \in Seq(File) /\ Once(queue')  BY <1>0, <2>1, Queueing
    <3> QED  BY <2>1, <3>1 DEF LineOK, Once
  <2>3. FlagsOK'  BY <1>0, <1>n, <2>1, FlagsStep DEF flags
  <2>4. CardsOK'  BY <1>0, <2>1 DEF CardsOK, cards
  <2>5. TaskOK'  BY <2>1, GotoTypes DEF Stage, Telling
  <2> QED  BY <1>8, <2>2, <2>3, <2>4, <2>5 DEF RequeuePending, bounds
<1>9. CASE RecordCanceled(t)
  <2> DEFINE f == task[t].file
  <2>1. /\ task[t] # None /\ Tell(t, "recorded", Entry("canceled", Bytes(f)), "canceled") /\ UNCHANGED flags
        /\ row' = [row EXCEPT ![f] = "canceled"]
    BY <1>9 DEF RecordCanceled
  <2>2. FlagsOK'  BY <1>0, <1>n, <2>1, FlagsStep DEF flags
  <2>3. Entry("canceled", Bytes(f)) \in Card  BY <1>n, Entries DEF Bytes
  <2>4. TaskOK'  BY <1>n, <2>1, <2>3, TellTypes DEF Stage
  <2> QED  BY <1>9, <2>2, <2>4 DEF RecordCanceled, bounds
<1>10. CASE FinishRun(t)
  <2>1. TaskOK'  BY <1>10 DEF FinishRun, TaskOK
  <2>2. LineOK'
    <3>1. queue' = queue /\ slot' \in {0, slot}  BY <1>10 DEF FinishRun, FinishOutboundTransfer
    <3>2. 0 \in 0..FileCount  BY FolderAssumption
    <3> QED  BY <3>1, <3>2 DEF LineOK
  <2> QED  BY <1>10, <2>1, <2>2 DEF FinishRun, bounds
<1>11. CASE Show(t)
  <2>1. /\ task[t] # None /\ task[t].at \in {"progress", "told", "recorded"}
        /\ card' = [card EXCEPT ![task[t].file] = UpsertFileTransfer(@, task[t].tells)]
        /\ Goto(t, Then(task[t].at)) /\ UNCHANGED <<heard, click, late, crossed>>
    BY <1>11 DEF Show
  <2>2. Then(task[t].at) \in Stage \ Telling  BY <2>1 DEF Then, Stage, Telling
  <2>3. TaskOK'  BY <2>1, <2>2, GotoTypes
  <2>4. task[t].tells \in Card  BY <1>0, <2>1 DEF Telling
  <2>5. card' \in [File -> Card \cup {None}]  BY <1>0, <2>1, <2>4, CardStep
  <2>6. CardsOK'  BY <2>1, <2>5 DEF CardsOK
  <2> QED  BY <1>11, <2>3, <2>6 DEF Show, bounds
<1> QED  BY <1>1, <1>2, <1>3, <1>4, <1>5, <1>6, <1>7, <1>8, <1>9, <1>10, <1>11 DEF Run

\* What a connection loop of the sender does with a message about a file.
LEMMA HearTypes ==
  ASSUME Types, NEW c \in Conn, NEW f \in File, Hear(c, f)
  PROVE  Types'
<1>k. WireOK /\ TaskOK /\ FlagsOK  BY DEF Types
<1>n. {"rejected", "canceled", "complete", "failed", "accepted"} \subseteq Statuses  BY Names
<1>h. \A entry \in Card : [file |-> f, entry |-> entry] \in News
  BY Hearings
<1>e. ASSUME NEW status \in Statuses, NEW bytes \in {0, 1}
      PROVE  HandleFileProgress(Entry(status, bytes), status) \in Card
  <2>1. Entry(status, bytes) \in Card  BY Entries
  <2> QED  BY <2>1, Progress
<1>g. ASSUME NEW t \in Task, NEW stage \in Stage \ Telling, NEW stages, At(t, f, stages), Goto(t, stage)  PROVE TaskOK'
  <2>1. task[t] # None  BY <1>g DEF At
  <2> QED  BY <1>k, <1>g, <2>1, GotoTypes
<1>t. ASSUME NEW t \in Task, NEW stages, NEW status \in Statuses, NEW bytes \in {0, 1},
             At(t, f, stages), Tell(t, "told", Entry(status, bytes), status)
      PROVE  TaskOK'
  <2>1. task[t] # None /\ "told" \in Stage  BY <1>t DEF At, Stage
  <2>2. Entry(status, bytes) \in Card  BY Entries
  <2> QED  BY <1>k, <1>t, <2>1, <2>2, TellTypes
<1> USE Stable
<1>1. CASE HandleAccepted(c, f)
  <2>1. WireOK'  BY <1>k, <1>1, HearingTypes DEF HandleAccepted, bounds
  <2>2. \/ UNCHANGED <<row, task>>
        \/ /\ \E t \in Task : At(t, f, {"asked"}) /\ Goto(t, "sending")
           /\ row' = [row EXCEPT ![f] = "accepted"]
    BY <1>1 DEF HandleAccepted
  <2>3. TaskOK'
    <3>1. "sending" \in Stage \ Telling  BY DEF Stage, Telling
    <3> QED  BY <1>g, <2>2, <3>1 DEF Types
  <2>4. FlagsOK'
    <3>1. UNCHANGED flags  BY <1>1 DEF HandleAccepted
    <3> QED  BY <1>k, <1>n, <2>2, <3>1, FlagsStep DEF flags
  <2> QED  BY <1>1, <2>1, <2>3, <2>4 DEF HandleAccepted, Types
<1>2. ASSUME NEW status \in {"rejected", "canceled"}, HandleRefused(c, f, status)  PROVE Types'
  <2>1. WireOK'  BY <1>k, <1>2, HearingTypes DEF HandleRefused, bounds
  <2>2. \/ UNCHANGED <<row, task, rejected, canceled>>
        \/ /\ \E t \in Task : At(t, f, {"asked", "sending"}) /\ Tell(t, "told", Entry(status, 0), status)
           /\ row' = [row EXCEPT ![f] = status]
           /\ rejected' = rejected \cup {f}
           /\ canceled' \subseteq canceled \cup {f}
    BY <1>2 DEF HandleRefused
  <2>3. TaskOK'  BY <1>n, <1>t, <2>2 DEF Types
  <2>4. FlagsOK'
    <3>1. UNCHANGED <<running, done, sent>>  BY <1>2 DEF HandleRefused
    <3> QED  BY <1>k, <1>n, <2>2, <3>1, FlagsStep
  <2> QED  BY <1>2, <2>1, <2>3, <2>4 DEF HandleRefused, Types
<1>3. ASSUME NEW type, NEW status \in {"complete", "failed", "canceled"}, HandleVerdict(c, f, type, status)  PROVE Types'
  <2>1. WireOK'  BY <1>k, <1>3, HearingTypes DEF HandleVerdict, bounds
  <2>2. /\ \E t \in Task : At(t, f, {"sent"}) /\ Tell(t, "told", Entry(status, 1), status)
        /\ row' = [row EXCEPT ![f] = status]
        /\ running' \subseteq running /\ done' = done \cup {f} /\ canceled' \subseteq canceled \cup {f}
        /\ UNCHANGED <<rejected, sent>>
    BY <1>3 DEF HandleVerdict
  <2>3. TaskOK'  BY <1>n, <1>t, <2>2
  <2>4. FlagsOK'  BY <1>k, <1>n, <2>2, FlagsStep
  <2> QED  BY <1>3, <2>1, <2>3, <2>4 DEF HandleVerdict, Types
<1>4. ASSUME NEW type, DropVerdict(c, f, type)  PROVE Types'
  <2>1. WireOK'  BY <1>k, <1>4, HearingTypes DEF DropVerdict, bounds
  <2> QED  BY <1>4, <2>1 DEF DropVerdict, runs, Types
<1>5. ASSUME NEW status, HandleLateVerdict(c, f, status)  PROVE Types'
  <2>1. WireOK'  BY <1>k, <1>5, HearingTypes DEF HandleLateVerdict, bounds
  <2>2. \/ UNCHANGED <<row, done, running, heard, crossed>>
        \/ /\ row' = [row EXCEPT ![f] = "complete"] /\ done' = done \cup {f} /\ running' = running \ {f}
           /\ heard' = [heard EXCEPT ![c] =
                          [file |-> f, entry |-> HandleFileProgress(Entry("complete", 1), "complete")]]
           /\ crossed' \in {crossed, crossed \cup {f}}
    BY <1>5 DEF HandleLateVerdict
  <2>3. FlagsOK'
    <3>1. UNCHANGED <<rejected, canceled, sent>>  BY <1>5 DEF HandleLateVerdict
    <3> QED  BY <1>k, <1>n, <2>2, <3>1, FlagsStep
  <2>4. CardsOK'
    <3>1. UNCHANGED <<card, click, late>>  BY <1>5 DEF HandleLateVerdict
    <3>2. [file |-> f, entry |-> HandleFileProgress(Entry("complete", 1), "complete")] \in News
      BY <1>n, <1>e, <1>h
    <3>3. CardsOK  BY DEF Types
    <3> HIDE DEF Types
    <3> QED  BY <2>2, <3>1, <3>2, <3>3 DEF CardsOK
  <2> QED  BY <1>5, <2>1, <2>3, <2>4 DEF HandleLateVerdict, Types
<1>6. CASE HandleCancelReply(c, f)
  <2>1. WireOK'  BY <1>k, <1>6, HearingTypes DEF HandleCancelReply, bounds
  <2>2. /\ row' = [row EXCEPT ![f] = "canceled"] /\ UNCHANGED flags
        /\ heard' = [heard EXCEPT ![c] =
                       [file |-> f, entry |-> HandleFileProgress(Entry("canceled", 0), "canceled")]]
        /\ UNCHANGED <<card, click, late, crossed>>
    BY <1>6 DEF HandleCancelReply
  <2>3. FlagsOK'  BY <1>k, <1>n, <2>2, FlagsStep DEF flags
  <2>4. CardsOK'
    <3>1. [file |-> f, entry |-> HandleFileProgress(Entry("canceled", 0), "canceled")] \in News
      BY <1>n, <1>e, <1>h
    <3>2. CardsOK  BY DEF Types
    <3> QED  BY <2>2, <3>1, <3>2 DEF CardsOK
  <2> QED  BY <1>6, <2>1, <2>3, <2>4 DEF HandleCancelReply, Types
<1> QED  BY <1>1, <1>2, <1>3, <1>4, <1>5, <1>6 DEF Hear

\* What the user of the sender does.
LEMMA UserTypes ==
  ASSUME Types, NEW f \in File, User(f)
  PROVE  Types'
<1>k. WireOK /\ LineOK /\ FlagsOK /\ CardsOK  BY DEF Types
<1>0. FileCount \in Nat /\ f \in 0..FileCount  BY FolderAssumption, FileOf
<1>n. {"canceled", "pending"} \subseteq Statuses /\ "cancel" \in MessageTypes  BY Names
<1>e. /\ Entry("canceled", 0) \in Card /\ Entry("pending", 0) \in Card
      /\ HandleFileProgress(Entry("canceled", Bytes(f)), "canceled") \in Card
  <2>1. Entry("canceled", 0) \in Card /\ Entry("pending", 0) \in Card /\ Entry("canceled", Bytes(f)) \in Card
    BY <1>n, Entries DEF Bytes
  <2> QED  BY <1>n, <2>1, Progress
<1>q. Dequeue(f) \in Seq(File) /\ Once(Dequeue(f)) /\ Enqueue(f, FALSE) \in Seq(File) /\ Once(Enqueue(f, FALSE))
  BY <1>k, Queueing
<1>l. ASSUME queue' = Dequeue(f) \/ queue' = Enqueue(f, FALSE), slot' \in {0, slot}  PROVE LineOK'
  <2>1. queue' \in Seq(File) /\ Once(queue')  BY <1>q, <1>l
  <2> QED  BY <1>k, <1>0, <1>l, <2>1 DEF LineOK, Once
<1>c. ASSUME click' \in [File -> Seq(Card)], UNCHANGED <<card, heard, crossed>>, late' \subseteq late  PROVE CardsOK'
  BY <1>k, <1>c DEF CardsOK
<1> USE Stable
<1>1. CASE CancelQueued(f)
  <2>1. LineOK'  BY <1>1, <1>l DEF CancelQueued, FinishOutboundTransfer
  <2>2. FlagsOK'
    <3>1. /\ row' = [row EXCEPT ![f] = "canceled"] /\ done' = done \cup {f} /\ canceled' = canceled \cup {f}
          /\ UNCHANGED <<running, rejected, sent>>
      BY <1>1 DEF CancelQueued
    <3> QED  BY <1>k, <1>n, <3>1, FlagsStep
  <2>3. CardsOK'
    <3>1. click' = [click EXCEPT ![f] = <<HandleFileProgress(Entry("canceled", Bytes(f)), "canceled"),
                                          Entry("canceled", 0)>>]
      BY <1>1 DEF CancelQueued
    <3>2. click' \in [File -> Seq(Card)]  BY <1>k, <1>e, <3>1 DEF CardsOK
    <3> QED  BY <1>1, <1>c, <3>2 DEF CancelQueued
  <2> QED  BY <1>1, <2>1, <2>2, <2>3 DEF CancelQueued, Types
<1>2. CASE CancelRunning(f)
  <2>1. WireOK'
    <3>1. Send(Current, "cancel", f) /\ UNCHANGED <<conn, up, toSender, faults>>  BY <1>2 DEF CancelRunning
    <3> QED  BY <1>k, <1>0, <1>n, <3>1, SendingTypes
  <2>2. LineOK'  BY <1>2, <1>l DEF CancelRunning
  <2>3. FlagsOK'
    <3>1. canceled' = canceled \cup {f} /\ UNCHANGED <<row, running, done, rejected, sent>>
      BY <1>2 DEF CancelRunning
    <3> QED  BY <1>k, <1>n, <3>1, FlagsStep
  <2>4. CardsOK'
    <3>1. click' = [click EXCEPT ![f] = <<Entry("canceled", 0)>>]  BY <1>2 DEF CancelRunning
    <3>2. click' \in [File -> Seq(Card)]  BY <1>k, <1>e, <3>1 DEF CardsOK
    <3> QED  BY <1>2, <1>c, <3>2 DEF CancelRunning
  <2> QED  BY <1>2, <2>1, <2>2, <2>3, <2>4 DEF CancelRunning, Types
<1>3. CASE CancelEnded(f)
  <2>1. click' = [click EXCEPT ![f] = <<Entry("canceled", 0)>>]  BY <1>3 DEF CancelEnded
  <2>2. click' \in [File -> Seq(Card)]  BY <1>k, <1>e, <2>1 DEF CardsOK
  <2>3. CardsOK'  BY <1>3, <1>c, <2>2 DEF CancelEnded
  <2> QED  BY <1>3, <2>3 DEF CancelEnded, runs, Types
<1>4. CASE RetryTransfer(f)
  <2>1. LineOK'  BY <1>4, <1>l DEF RetryTransfer
  <2>2. FlagsOK'
    <3>1. /\ row' = [row EXCEPT ![f] = "pending"] /\ UNCHANGED running
          /\ done' = done \ {f} /\ rejected' = rejected \ {f} /\ canceled' = canceled \ {f} /\ sent' = sent \ {f}
      BY <1>4 DEF RetryTransfer
    <3> QED  BY <1>k, <1>n, <3>1, FlagsStep
  <2>3. CardsOK'
    <3>1. click' = [click EXCEPT ![f] = <<Entry("pending", 0)>>]  BY <1>4 DEF RetryTransfer
    <3>2. click' \in [File -> Seq(Card)]  BY <1>k, <1>e, <3>1 DEF CardsOK
    <3>3. crossed' \subseteq crossed \cup {f} /\ late' \subseteq late /\ UNCHANGED <<card, heard>>
      BY <1>4 DEF RetryTransfer
    <3> QED  BY <1>k, <3>2, <3>3 DEF CardsOK
  <2> QED  BY <1>4, <2>1, <2>2, <2>3 DEF RetryTransfer, Types
<1>5. CASE ShowClick(f)
  <2>1. click[f] \in Seq(Card) /\ click[f] # <<>>  BY <1>5, <1>k DEF CardsOK, ShowClick
  <2>2. Head(click[f]) \in Card /\ Tail(click[f]) \in Seq(Card)  BY <2>1
  <2>3. card' \in [File -> Card \cup {None}]
    <3>1. card' = [card EXCEPT ![f] = UpsertFileTransfer(@, Head(click[f]))]  BY <1>5 DEF ShowClick
    <3>2. PICK entry \in Card : entry = Head(click[f])  BY <2>2
    <3> QED  BY <3>1, <3>2, CardStep
  <2>4. click' \in [File -> Seq(Card)]  BY <1>5, <1>k, <2>2 DEF ShowClick, CardsOK
  <2>5. UNCHANGED <<heard, crossed>> /\ late' \subseteq late \cup {f}  BY <1>5 DEF ShowClick, CallPending
  <2>6. CardsOK'  BY <1>k, <2>3, <2>4, <2>5 DEF CardsOK
  <2> QED  BY <1>5, <2>6 DEF ShowClick, runs, bounds, Types
<1> QED  BY <1>1, <1>2, <1>3, <1>4, <1>5 DEF User

\* What the receiver does with a message about a file.
LEMMA PeerTypes ==
  ASSUME Types, NEW c \in Conn, NEW f \in File, Peer(c, f)
  PROVE  Types'
<1>k. WireOK /\ ReceiverOK /\ LimiterOK  BY DEF Types
<1>0. f \in 0..FileCount  BY FileOf
<1>n. {"rejected", "canceled", "complete", "failed", "accepted", "cancel"} \subseteq MessageTypes  BY Names
<1>w. ASSUME NEW type, Takes(c, type, f), UNCHANGED <<conn, up, faults>>,
             toSender' = toSender \/ \E d : \E m \in MessageTypes : Reply(d, m, f)
      PROVE  WireOK'
  <2>1. toReceiver' \in Channels  BY <1>k, <1>w, Receiving
  <2>2. CASE toSender' = toSender
    <3>1. toSender' \in Channels  BY <1>k, <2>2 DEF WireOK, Channels
    <3> QED  BY <1>k, <1>w, <2>1, <3>1, WireStep
  <2>3. ASSUME NEW d, NEW m \in MessageTypes, Reply(d, m, f)  PROVE WireOK'
    <3>1. toSender' \in Channels  BY <1>k, <1>0, <2>3, ReplyTypes
    <3> QED  BY <1>k, <1>w, <2>1, <3>1, WireStep
  <2> QED  BY <1>w, <2>2, <2>3
<1>r. ASSUME UNCHANGED <<prompt, folder, answer>>,
             inbound' = inbound \/ \E s \in {"accepted", "complete", "failed", "canceled"} : inbound' = [inbound EXCEPT ![f] = s]
      PROVE  ReceiverOK'
  BY <1>k, <1>r DEF ReceiverOK
<1> USE Stable
<1>1. CASE HandleFileRequest(c, f)
  <2>1. /\ Takes(c, "file_request", f) /\ UNCHANGED <<conn, up, faults, prompt, folder, answer>>
        /\ \E d : \E m \in {"rejected", "canceled", "accepted"} : Reply(d, m, f)
        /\ inbound' = inbound \/ inbound' = [inbound EXCEPT ![f] = "accepted"]
    BY <1>1 DEF HandleFileRequest, bounds
  <2>2. WireOK'  BY <1>n, <1>w, <2>1
  <2>3. ReceiverOK'  BY <1>r, <2>1
  <2>4. LimiterOK'
    <3>1. AllowFileRequest(f) /\ UNCHANGED forgot  BY <1>1 DEF HandleFileRequest
    <3>2. Append(admitted, f) \in Seq(File)  BY <1>k DEF LimiterOK
    <3> QED  BY <1>k, <3>1, <3>2 DEF LimiterOK, AllowFileRequest
  <2> QED  BY <1>1, <2>2, <2>3, <2>4 DEF HandleFileRequest, runs, Types
<1>2. CASE HandleFileComplete(c, f)
  <2>1. /\ Takes(c, "file_complete", f) /\ UNCHANGED <<conn, up, faults, prompt, folder, answer>>
        /\ toSender' = toSender \/ \E m \in {"complete", "failed"} : Reply(c, m, f)
        /\ inbound' = inbound \/ \E s \in {"complete", "failed"} : inbound' = [inbound EXCEPT ![f] = s]
    BY <1>2 DEF HandleFileComplete, bounds
  <2>2. WireOK'  BY <1>n, <1>w, <2>1
  <2>3. ReceiverOK'  BY <1>r, <2>1
  <2> QED  BY <1>2, <2>2, <2>3 DEF HandleFileComplete, runs, Types
<1>3. CASE HandleCancel(c, f)
  <2>1. /\ Takes(c, "cancel", f) /\ UNCHANGED <<conn, up, faults, prompt, folder, answer>>
        /\ toSender' = toSender \/ Reply(c, "cancel", f)
        /\ inbound' = [inbound EXCEPT ![f] = "canceled"]
    BY <1>3 DEF HandleCancel, bounds
  <2>2. WireOK'  BY <1>n, <1>w, <2>1
  <2>3. ReceiverOK'  BY <1>r, <2>1
  <2> QED  BY <1>3, <2>2, <2>3 DEF HandleCancel, runs, Types
<1> QED  BY <1>1, <1>2, <1>3 DEF Peer

\* A lost connection keeps the first of its messages.
LEMMA LoseTypes ==
  ASSUME Types, Lose
  PROVE  /\ WireOK' /\ Within(toReceiver', toReceiver, {}) /\ Within(toSender', toSender, {})
         /\ \E i \in 0..Len(toReceiver[conn]) : toReceiver' = [toReceiver EXCEPT ![conn] = SubSeq(@, 1, i)]
<1>1. toReceiver \in Channels /\ toSender \in Channels /\ conn \in Conn /\ WireOK
  BY DEF Types, WireOK, Channels
<1>2. PICK i \in 0..Len(toReceiver[conn]) : toReceiver' = [toReceiver EXCEPT ![conn] = SubSeq(@, 1, i)]
  BY DEF Lose
<1>3. PICK j \in 0..Len(toSender[conn]) : toSender' = [toSender EXCEPT ![conn] = SubSeq(@, 1, j)]
  BY DEF Lose
<1>4. toReceiver' \in Channels /\ Within(toReceiver', toReceiver, {})  BY <1>1, <1>2, Cutting
<1>5. toSender' \in Channels /\ Within(toSender', toSender, {})  BY <1>1, <1>3, Cutting
<1>6. up /\ ~ up' /\ up' \in BOOLEAN /\ conn' = conn /\ faults < MaxFaults /\ faults' = faults + 1  BY DEF Lose
<1>7. faults' \in 0..MaxFaults /\ (conn' <= IF up' THEN faults' + 1 ELSE faults')
  BY <1>1, <1>6, FolderAssumption DEF WireOK, Conn
<1>8. WireOK'  BY <1>1, <1>4, <1>5, <1>6, <1>7 DEF WireOK, Channels
<1> QED  BY <1>2, <1>4, <1>5, <1>8

\* A restart loses what is on its way to the receiver.
LEMMA RestartTypes ==
  ASSUME Types, Restart
  PROVE  /\ WireOK' /\ ReceiverOK' /\ LimiterOK'
         /\ toReceiver' = [c \in Conn |-> <<>>] /\ Within(toSender', toSender, {})
<1>1. toReceiver \in Channels /\ toSender \in Channels /\ conn \in Conn /\ WireOK /\ ReceiverOK /\ LimiterOK
  BY DEF Types, WireOK, Channels
<1>2. <<>> \in Seq(Wire) /\ <<>> \in Seq(File)  OBVIOUS
<1>3. toReceiver' = [c \in Conn |-> <<>>] /\ toReceiver' \in Channels  BY <1>2 DEF Restart, Channels
<1>4. toSender' \in Channels /\ Within(toSender', toSender, {})
  <2>1. CASE toSender' = toSender  BY <1>1, <2>1 DEF Within
  <2>2. ASSUME NEW j \in 0..Len(toSender[conn]), toSender' = [toSender EXCEPT ![conn] = SubSeq(@, 1, j)]
        PROVE  toSender' \in Channels /\ Within(toSender', toSender, {})
    BY <1>1, <2>2, Cutting
  <2>3. \/ toSender' = toSender
        \/ \E j \in 0..Len(toSender[conn]) : toSender' = [toSender EXCEPT ![conn] = SubSeq(@, 1, j)]
    BY DEF Restart
  <2> QED  BY <2>1, <2>2, <2>3
<1>5. WireOK'
  <2>1. ~ up' /\ up' \in BOOLEAN /\ conn' = conn /\ faults < MaxFaults /\ faults' = faults + 1  BY DEF Restart
  <2>2. faults' \in 0..MaxFaults /\ (conn' <= IF up' THEN faults' + 1 ELSE faults')
    BY <1>1, <2>1, FolderAssumption DEF WireOK, Conn
  <2> QED  BY <1>1, <1>3, <1>4, <2>1, <2>2 DEF WireOK, Channels
<1>6. ReceiverOK'
  <2>1. prompt' = 0 /\ 0 \in 0..(MaxFaults + 1)  BY FolderAssumption DEF Restart
  <2>2. folder' \in {"none", "full", "empty"}  BY DEF Restart
  <2>3. UNCHANGED <<answer, inbound>>  BY DEF Restart
  <2> QED  BY <1>1, <2>1, <2>2, <2>3 DEF ReceiverOK
<1>7. LimiterOK'
  <2>1. admitted' = <<>> /\ recent' = {} /\ UNCHANGED limited  BY DEF Restart
  <2>2. forgot' \in BOOLEAN  BY <1>1 DEF Restart, LimiterOK
  <2> QED  BY <1>1, <1>2, <2>1, <2>2 DEF LimiterOK
<1> QED  BY <1>3, <1>4, <1>5, <1>6, <1>7

\* Every step keeps the types.
LEMMA TypesStep ==
  ASSUME Types, QueueInv, [Next]_vars
  PROVE  Types'
<1> USE Stable
<1>1. CASE Folder  BY <1>1, FolderTypes
<1>2. ASSUME NEW t \in Task, Run(t)  PROVE Types'  BY <1>2, RunTypes
<1>3. ASSUME NEW c \in Conn, NEW f \in File, Hear(c, f)  PROVE Types'  BY <1>3, HearTypes
<1>4. ASSUME NEW c \in Conn, NEW f \in File, Peer(c, f)  PROVE Types'  BY <1>4, PeerTypes
<1>5. ASSUME NEW f \in File, User(f)  PROVE Types'  BY <1>5, UserTypes
<1>6. CASE ClearCompleted
  <2>1. card' \in [File -> Card \cup {None}] /\ UNCHANGED <<heard, click, late, crossed>>
    BY <1>6 DEF ClearCompleted, Types, CardsOK
  <2>2. CardsOK'  BY <2>1 DEF Types, CardsOK
  <2> QED  BY <1>6, <2>2 DEF ClearCompleted, runs, Types
<1>7. ASSUME NEW c \in Conn, ShowHeard(c)  PROVE Types'
  <2>1. heard[c] \in News  BY <1>7 DEF ShowHeard, Types, CardsOK
  <2>2. PICK f \in File, entry \in Card : heard[c] = [file |-> f, entry |-> entry]  BY <2>1 DEF News
  <2>3. card' = [card EXCEPT ![f] = UpsertFileTransfer(@, entry)]  BY <1>7, <2>2 DEF ShowHeard
  <2>4. card' \in [File -> Card \cup {None}]  BY <2>3, CardStep
  <2>5. heard' \in [Conn -> News \cup {None}] /\ UNCHANGED <<click, late, crossed>>
    BY <1>7 DEF ShowHeard, Types, CardsOK
  <2>6. CardsOK'  BY <2>4, <2>5 DEF Types, CardsOK
  <2> QED  BY <1>7, <2>6 DEF ShowHeard, runs, bounds, Types
<1>8. CASE WindowPasses
  <2>1. admitted' \in Seq(File) /\ recent' \subseteq recent /\ UNCHANGED <<limited, forgot>>
    BY <1>8 DEF WindowPasses, Types, LimiterOK
  <2>2. LimiterOK'  BY <2>1 DEF Types, LimiterOK
  <2> QED  BY <1>8, <2>2 DEF WindowPasses, runs, Types
<1>9. CASE Lose
  <2>1. WireOK'  BY <1>9, LoseTypes
  <2> QED  BY <1>9, <2>1 DEF Lose, runs, Types
<1>10. CASE Reconnect
  <2>1. conn' \in Conn /\ up' \in BOOLEAN /\ UNCHANGED <<faults, toReceiver, toSender>>
        /\ (conn' <= IF up' THEN faults + 1 ELSE faults)
    BY <1>10, FolderAssumption DEF Reconnect, bounds, Types, WireOK, Conn
  <2>2. WireOK'  BY <2>1 DEF Types, WireOK
  <2> QED  BY <1>10, <2>2 DEF Reconnect, runs, Types
<1>11. CASE Restart
  <2>1. WireOK' /\ ReceiverOK' /\ LimiterOK'  BY <1>11, RestartTypes
  <2> QED  BY <1>11, <2>1 DEF Restart, runs, Types
<1>12. CASE UNCHANGED vars  BY <1>12 DEF vars, runs, bounds, Types
<1> QED  BY <1>1, <1>2, <1>3, <1>4, <1>5, <1>6, <1>7, <1>8, <1>9, <1>10, <1>11, <1>12 DEF Next

-----------------------------------------------------------------------------
(* What a step leaves alone.                                               *)

\* Nothing of what the sender knows of f changes.
SameTask(f) == \A t \in Task : Of(t, f) \/ (task'[t] # None /\ task'[t].file = f) => task'[t] = task[t]
SameRun(f) ==
  /\ row'[f] = row[f] /\ (f \in ToSet(queue') <=> f \in ToSet(queue)) /\ (slot' = f <=> slot = f)
  /\ f \in running' <=> f \in running
  /\ f \in done' <=> f \in done
  /\ f \in rejected' <=> f \in rejected
  /\ f \in canceled' <=> f \in canceled
  /\ f \in sent' <=> f \in sent
  /\ SameTask(f)
SameCard(f) ==
  /\ card'[f] = card[f] /\ click'[f] = click[f]
  /\ f \in late' <=> f \in late
  /\ f \in crossed' <=> f \in crossed
  /\ \A c \in Conn : (heard[c] # None /\ heard[c].file = f) \/ (heard'[c] # None /\ heard'[c].file = f) =>
       heard'[c] = heard[c]
Same(f) == SameRun(f) /\ SameCard(f)

\* Then what the invariant says of f stays true.
LEMMA Framed ==
  ASSUME NEW f \in File, SameRun(f)
  PROVE  /\ Busy(f)' <=> Busy(f)
         /\ Ended(f)' <=> Ended(f)
         /\ FlowOK(f) => FlowOK(f)'
         /\ SameCard(f) /\ CardOK(f) => CardOK(f)'
<1>1. /\ row'[f] = row[f] /\ (f \in ToSet(queue') <=> f \in ToSet(queue)) /\ (slot' = f <=> slot = f)
      /\ f \in running' <=> f \in running
      /\ f \in done' <=> f \in done
      /\ f \in rejected' <=> f \in rejected
      /\ f \in canceled' <=> f \in canceled
      /\ f \in sent' <=> f \in sent
  BY DEF SameRun
<1>2. \A t \in Task : /\ Of(t, f)' <=> Of(t, f)
                      /\ Of(t, f) => task'[t] = task[t]
  BY DEF SameRun, SameTask, Of
<1>3. \A t \in Task : \A stages : At(t, f, stages)' <=> At(t, f, stages)
  BY <1>2 DEF At, Of
<1>4. Busy(f)' <=> Busy(f)  BY <1>3 DEF Busy
<1>5. Ended(f)' <=> Ended(f)  BY <1>1 DEF Ended
<1>6. ASSUME FlowOK(f)  PROVE FlowOK(f)'
  <2>1. OneTask(f)'  BY <1>2, <1>6 DEF FlowOK, OneTask
  <2>2. ASSUME NEW t \in Task, Of(t, f)'  PROVE InStage(t, f)'
    <3>1. InStage(t, f) /\ task'[t] = task[t]  BY <1>2, <1>6, <2>2 DEF FlowOK
    <3> QED  BY <1>1, <1>5, <3>1 DEF InStage
  <2>3. (\A t \in Task : ~ Of(t, f)') => Waits(f)'  BY <1>1, <1>2, <1>5, <1>6 DEF FlowOK, Waits
  <2> QED  BY <2>1, <2>2, <2>3 DEF FlowOK
<1>7. ASSUME SameCard(f), CardOK(f)  PROVE CardOK(f)'
  <2>1. /\ card'[f] = card[f] /\ click'[f] = click[f]
        /\ \A c \in Conn : heard[c] # None /\ heard[c].file = f => heard'[c] = heard[c]
    BY <1>7 DEF SameCard
  <2>2. Due(f) => Due(f)'  BY <1>3, <2>1 DEF Due
  <2> QED  BY <1>1, <1>7, <2>1, <2>2 DEF CardOK
<1> QED  BY <1>4, <1>5, <1>6, <1>7

\* Nothing about any file changes.
LEMMA Quiet ==
  /\ UNCHANGED runs => \A f \in File : SameRun(f)
  /\ UNCHANGED <<cards, crossed>> => \A f \in File : SameCard(f)
BY DEF runs, line, flags, cards, SameRun, SameCard, SameTask

\* One goroutine moves, starts or ends, of file g.
LEMMA TaskFrame ==
  ASSUME NEW t \in Task, NEW g, \A u \in Task \ {t} : task'[u] = task[u],
         task[t] = None \/ task[t].file = g, task'[t] = None \/ task'[t].file = g
  PROVE  \A f \in File \ {g} : SameTask(f)
BY DEF SameTask, Of

\* The file a goroutine works on, or is about to.
FileAt(t) == IF task[t] = None THEN Head(queue) ELSE task[t].file

\* A goroutine concerns only its file, and the drop only the next.
LEMMA RunFrame ==
  ASSUME Types, NEW t \in Task, Run(t)
  PROVE  FileAt(t) \in File /\ \A f \in File \ {FileAt(t)} : Same(f)
<1>k. TaskOK /\ LineOK /\ FlagsOK /\ CardsOK  BY DEF Types
<1>0. FileAt(t) \in File
  <2>1. CASE task[t] = None
    <3>1. queue # <<>> /\ queue \in Seq(File)
      BY <1>k, <2>1 DEF Run, StartNext, AskFile, SendData, SendComplete, RunStops, RunGivesUp, CaptureOutcome, RequeuePending,
                  RecordCanceled, FinishRun, Show, LineOK
    <3> QED  BY <2>1, <3>1 DEF FileAt
  <2>2. CASE task[t] # None  BY <1>k, <2>2, TaskOf DEF FileAt
  <2> QED  BY <2>1, <2>2
<1> DEFINE g == FileAt(t)
<1>q. ASSUME UNCHANGED <<row, line, flags>>, \A f \in File \ {g} : SameTask(f)
      PROVE  \A f \in File \ {g} : SameRun(f)
  BY <1>q DEF line, flags, SameRun
<1>m. ASSUME task[t] # None, NEW stage, Goto(t, stage), stage \in Stage \ Telling
      PROVE  \A f \in File \ {g} : SameTask(f)
  <2>1. task'[t].file = task[t].file /\ \A u \in Task \ {t} : task'[u] = task[u]
    BY <1>k, <1>m, GotoTypes
  <2> QED  BY <1>m, <2>1, TaskFrame DEF FileAt
<1>n. ASSUME task[t] # None, NEW stage \in Stage, NEW event \in Card, NEW status \in Statuses, Tell(t, stage, event, status)
      PROVE  \A f \in File \ {g} : SameTask(f)
  <2>1. task'[t].file = task[t].file /\ \A u \in Task \ {t} : task'[u] = task[u]
    BY <1>k, <1>n, TellTypes
  <2> QED  BY <1>n, <2>1, TaskFrame DEF FileAt
<1>c. UNCHANGED <<cards, crossed>> => \A f \in File : SameCard(f)  BY Quiet
<1>1. CASE StartNext(t)
  <2>1. task[t] = None /\ queue # <<>> /\ slot = 0 /\ queue' = Tail(queue) /\ g = Head(queue)
    BY <1>1 DEF StartNext, FileAt
  <2>2. ToSet(queue') = ToSet(queue) \ {g}  BY <1>k, <1>0, <2>1, Queueing
  <2>3. /\ UNCHANGED <<row, done, rejected, canceled, sent, cards, crossed>>
        /\ \/ UNCHANGED <<slot, running, task>>
           \/ /\ slot' = g /\ running' = running \cup {g}
              /\ \/ task' = task
                 \/ task' = [task EXCEPT ![t] = [file |-> g, at |-> "begun", via |-> conn, tells |-> None]]
    BY <1>1, <2>1 DEF StartNext
  <2>4. \A f \in File \ {g} : SameTask(f)
    <3>1. CASE task' = task  BY <3>1 DEF SameTask
    <3>2. CASE task' = [task EXCEPT ![t] = [file |-> g, at |-> "begun", via |-> conn, tells |-> None]]
      <4>1. task'[t].file = g /\ \A u \in Task \ {t} : task'[u] = task[u]  BY <1>k, <3>2 DEF TaskOK
      <4> QED  BY <2>1, <4>1, TaskFrame
    <3> QED  BY <2>3, <3>1, <3>2
  <2>5. \A f \in File \ {g} : f # 0  BY FileOf
  <2> HIDE DEF g
  <2>6. \A f \in File \ {g} : SameRun(f)  BY <2>1, <2>2, <2>3, <2>4, <2>5 DEF SameRun
  <2> QED  BY <1>0, <1>c, <2>3, <2>6 DEF Same, g
<1>2. CASE AskFile(t)
  <2>1. task[t] # None /\ UNCHANGED <<row, line, flags, cards, crossed>>
        /\ \E stage \in Stage \ Telling : Goto(t, stage)
    BY <1>2 DEF AskFile, Stage, Telling
  <2> QED  BY <1>0, <1>q, <1>m, <1>c, <2>1 DEF Same
<1>3. CASE SendData(t)
  <2>1. task[t] # None /\ UNCHANGED <<row, line, running, done, rejected, canceled, cards, crossed>>
        /\ sent' = sent \cup {task[t].file} /\ Tell(t, "progress", Entry("accepted", 1), row[task[t].file])
    BY <1>3 DEF SendData
  <2>2. g = task[t].file  BY <2>1 DEF FileAt
  <2>3. \A f \in File \ {g} : SameTask(f)
    <3>1. task'[t].file = task[t].file /\ \A u \in Task \ {t} : task'[u] = task[u]
      BY <1>k, <2>1, TaskOf DEF Tell, TaskOK, Work
    <3> QED  BY <2>1, <2>2, <3>1, TaskFrame
  <2> HIDE DEF g
  <2>4. \A f \in File \ {g} : SameRun(f)  BY <2>1, <2>2, <2>3 DEF SameRun, line
  <2> QED  BY <1>0, <1>c, <2>1, <2>4 DEF Same, g
<1>4. CASE SendComplete(t)
  <2>1. task[t] # None /\ UNCHANGED <<row, line, flags, cards, crossed>>
        /\ \E stage \in Stage \ Telling : Goto(t, stage)
    BY <1>4 DEF SendComplete, Stage, Telling
  <2> QED  BY <1>0, <1>q, <1>m, <1>c, <2>1 DEF Same
<1>5. CASE RunStops(t) \/ RunGivesUp(t)
  <2>1. task[t] # None /\ UNCHANGED <<row, line, flags, cards, crossed>>
        /\ \E stage \in Stage \ Telling : Goto(t, stage)
    BY <1>5 DEF RunStops, RunGivesUp, Stage, Telling
  <2> QED  BY <1>0, <1>q, <1>m, <1>c, <2>1 DEF Same
<1>7. CASE CaptureOutcome(t)
  <2>1. task[t] # None /\ UNCHANGED <<row, line, done, rejected, canceled, sent, cards, crossed>>
        /\ running' = running \ {task[t].file} /\ \E stage \in Stage \ Telling : Goto(t, stage)
    BY <1>7 DEF CaptureOutcome, Stage, Telling
  <2>2. g = task[t].file  BY <2>1 DEF FileAt
  <2>3. \A f \in File \ {g} : SameTask(f)  BY <1>m, <2>1
  <2> HIDE DEF g
  <2>4. \A f \in File \ {g} : SameRun(f)  BY <2>1, <2>2, <2>3 DEF SameRun, line
  <2> QED  BY <1>0, <1>c, <2>1, <2>4 DEF Same, g
<1>8. CASE RequeuePending(t)
  <2>1. /\ task[t] # None /\ Goto(t, "finish") /\ UNCHANGED <<slot, flags, cards>>
        /\ row' = [row EXCEPT ![task[t].file] = "pending"] /\ queue' = Enqueue(task[t].file, TRUE)
        /\ crossed' \in {crossed, crossed \cup {task[t].file}}
    BY <1>8 DEF RequeuePending
  <2>2. g = task[t].file  BY <2>1 DEF FileAt
  <2>3. \A f \in File \ {g} : SameTask(f)  BY <1>m, <2>1 DEF Stage, Telling
  <2>4. ToSet(queue') = ToSet(queue) \cup {g}  BY <1>k, <1>0, <2>1, <2>2, Queueing
  <2> HIDE DEF g
  <2>5. \A f \in File \ {g} : SameRun(f)
    BY <1>k, <2>1, <2>2, <2>3, <2>4 DEF SameRun, flags, FlagsOK
  <2>6. \A f \in File \ {g} : SameCard(f)  BY <2>1, <2>2 DEF SameCard, cards
  <2> QED  BY <1>0, <2>5, <2>6 DEF Same, g
<1>9. CASE RecordCanceled(t)
  <2>1. /\ task[t] # None /\ UNCHANGED <<line, flags, cards, crossed>>
        /\ row' = [row EXCEPT ![task[t].file] = "canceled"]
        /\ Tell(t, "recorded", Entry("canceled", Bytes(task[t].file)), "canceled")
    BY <1>9 DEF RecordCanceled
  <2>2. g = task[t].file  BY <2>1 DEF FileAt
  <2>3. \A f \in File \ {g} : SameTask(f)
    <3>1. Entry("canceled", Bytes(task[t].file)) \in Card  BY Names, Entries DEF Bytes
    <3> QED  BY <1>n, <2>1, <3>1, Names DEF Stage
  <2> HIDE DEF g
  <2>4. \A f \in File \ {g} : SameRun(f)  BY <1>k, <2>1, <2>2, <2>3 DEF SameRun, line, flags, FlagsOK
  <2> QED  BY <1>0, <1>c, <2>1, <2>4 DEF Same, g
<1>10. CASE FinishRun(t)
  <2>1. /\ task[t] # None /\ UNCHANGED <<row, queue, flags, cards, crossed>>
        /\ slot' = FinishOutboundTransfer(task[t].file) /\ task' = [task EXCEPT ![t] = None]
    BY <1>10 DEF FinishRun
  <2>2. g = task[t].file  BY <2>1 DEF FileAt
  <2>3. \A f \in File \ {g} : SameTask(f)
    <3>1. task'[t] = None /\ \A u \in Task \ {t} : task'[u] = task[u]  BY <1>k, <2>1 DEF TaskOK
    <3> QED  BY <2>2, <3>1, TaskFrame
  <2>4. \A f \in File \ {g} : f # 0  BY FileOf
  <2> HIDE DEF g
  <2>5. \A f \in File \ {g} : slot' = f <=> slot = f  BY <2>1, <2>2, <2>4 DEF FinishOutboundTransfer
  <2>6. \A f \in File \ {g} : SameRun(f)  BY <2>1, <2>3, <2>5 DEF SameRun, flags
  <2> QED  BY <1>0, <1>c, <2>1, <2>6 DEF Same, g
<1>11. CASE Show(t)
  <2>1. /\ task[t] # None /\ UNCHANGED <<row, line, flags, heard, click, late, crossed>>
        /\ card' = [card EXCEPT ![task[t].file] = UpsertFileTransfer(@, task[t].tells)]
        /\ \E stage \in Stage \ Telling : Goto(t, stage)
    BY <1>11 DEF Show, Then, Stage, Telling
  <2>2. g = task[t].file  BY <2>1 DEF FileAt
  <2>3. \A f \in File \ {g} : SameRun(f)  BY <1>q, <1>m, <2>1
  <2> HIDE DEF g
  <2>4. \A f \in File \ {g} : SameCard(f)  BY <1>k, <2>1, <2>2 DEF SameCard, CardsOK
  <2> QED  BY <1>0, <2>3, <2>4 DEF Same, g
<1> QED  BY <1>1, <1>2, <1>3, <1>4, <1>5, <1>7, <1>8, <1>9, <1>10, <1>11 DEF Run

\* A message about a file concerns only that file.
LEMMA HearFrame ==
  ASSUME Types, NEW c \in Conn, NEW g \in File, Hear(c, g)
  PROVE  \A f \in File \ {g} : Same(f)
<1>k. TaskOK /\ FlagsOK /\ CardsOK  BY DEF Types
<1>c. UNCHANGED <<cards, crossed>> => \A f \in File : SameCard(f)  BY Quiet
<1>m. ASSUME NEW t \in Task, NEW stages, At(t, g, stages), Goto(t, "sending")  PROVE \A f \in File \ {g} : SameTask(f)
  <2>1. task[t] # None /\ task[t].file = g /\ "sending" \in Stage \ Telling  BY <1>m DEF At, Stage, Telling
  <2>2. task'[t].file = task[t].file /\ \A u \in Task \ {t} : task'[u] = task[u]
    BY <1>k, <1>m, <2>1, GotoTypes
  <2> QED  BY <2>1, <2>2, TaskFrame
<1>n. ASSUME NEW t \in Task, NEW stages, NEW status \in Statuses, NEW bytes \in {0, 1},
             At(t, g, stages), Tell(t, "told", Entry(status, bytes), status)
      PROVE  \A f \in File \ {g} : SameTask(f)
  <2>1. task[t] # None /\ task[t].file = g /\ "told" \in Stage /\ Entry(status, bytes) \in Card
    BY <1>n, Entries DEF At, Stage
  <2>2. task'[t].file = task[t].file /\ \A u \in Task \ {t} : task'[u] = task[u]
    BY <1>k, <1>n, <2>1, TellTypes
  <2> QED  BY <2>1, <2>2, TaskFrame
<1>s. {"rejected", "canceled", "complete", "failed", "accepted"} \subseteq Statuses  BY Names
<1>u. UNCHANGED task => \A f \in File : SameTask(f)  BY DEF SameTask
<1>r. ASSUME NEW status, row' = [row EXCEPT ![g] = status] \/ row' = row
      PROVE  \A f \in File \ {g} : row'[f] = row[f]
  BY <1>k, <1>r DEF FlagsOK
<1>1. CASE HandleAccepted(c, g)
  <2>1. /\ UNCHANGED <<line, flags, cards, crossed>>
        /\ \/ \E t \in Task : /\ At(t, g, {"asked"}) /\ Goto(t, "sending")
                              /\ row' = [row EXCEPT ![g] = "accepted"]
           \/ UNCHANGED <<row, task>>
    BY <1>1 DEF HandleAccepted
  <2>2. \A f \in File \ {g} : row'[f] = row[f] /\ SameTask(f)  BY <1>m, <1>r, <1>u, <2>1
  <2>3. \A f \in File \ {g} : SameRun(f)  BY <2>1, <2>2 DEF SameRun, line, flags
  <2> QED  BY <1>c, <2>1, <2>3 DEF Same
<1>2. ASSUME NEW status \in {"rejected", "canceled"}, HandleRefused(c, g, status)
      PROVE  \A f \in File \ {g} : Same(f)
  <2>1. /\ UNCHANGED <<line, running, done, sent, cards, crossed>>
        /\ \/ \E t \in Task : /\ At(t, g, {"asked", "sending"}) /\ Tell(t, "told", Entry(status, 0), status)
                              /\ row' = [row EXCEPT ![g] = status]
                              /\ rejected' = rejected \cup {g}
                              /\ canceled' \in {canceled, canceled \cup {g}}
           \/ UNCHANGED <<row, task, rejected, canceled>>
    BY <1>2 DEF HandleRefused
  <2>2. \A f \in File \ {g} : row'[f] = row[f] /\ SameTask(f)  BY <1>n, <1>r, <1>s, <1>u, <2>1
  <2>3. \A f \in File \ {g} : SameRun(f)  BY <2>1, <2>2 DEF SameRun, line
  <2> QED  BY <1>c, <2>1, <2>3 DEF Same
<1>3. ASSUME NEW type, NEW status \in {"complete", "failed", "canceled"}, HandleVerdict(c, g, type, status)
      PROVE  \A f \in File \ {g} : Same(f)
  <2>1. /\ UNCHANGED <<line, rejected, sent, cards, crossed>>
        /\ \E t \in Task : At(t, g, {"sent"}) /\ Tell(t, "told", Entry(status, 1), status)
        /\ row' = [row EXCEPT ![g] = status]
        /\ running' \in {running, running \ {g}} /\ done' = done \cup {g}
        /\ canceled' \in {canceled, canceled \cup {g}}
    BY <1>3 DEF HandleVerdict
  <2>2. \A f \in File \ {g} : row'[f] = row[f] /\ SameTask(f)  BY <1>n, <1>r, <1>s, <2>1
  <2>3. \A f \in File \ {g} : SameRun(f)  BY <2>1, <2>2 DEF SameRun, line
  <2> QED  BY <1>c, <2>1, <2>3 DEF Same
<1>4. ASSUME NEW type, DropVerdict(c, g, type)  PROVE \A f \in File \ {g} : Same(f)
  BY <1>4, Quiet DEF DropVerdict, Same
<1>h. ASSUME NEW entry, heard[c] = None, heard' = [heard EXCEPT ![c] = [file |-> g, entry |-> entry]],
             UNCHANGED <<card, click, late>>, crossed' \in {crossed, crossed \cup {g}}
      PROVE  \A f \in File \ {g} : SameCard(f)
  <2>1. heard'[c].file = g /\ \A d \in Conn \ {c} : heard'[d] = heard[d]  BY <1>k, <1>h DEF CardsOK
  <2> QED  BY <1>h, <2>1 DEF SameCard
<1>5. ASSUME NEW status, HandleLateVerdict(c, g, status)  PROVE \A f \in File \ {g} : Same(f)
  <2>1. /\ UNCHANGED <<line, task, rejected, canceled, sent, card, click, late>> /\ heard[c] = None
        /\ \/ UNCHANGED <<row, done, running, heard, crossed>>
           \/ /\ row' = [row EXCEPT ![g] = "complete"] /\ done' = done \cup {g} /\ running' = running \ {g}
              /\ heard' = [heard EXCEPT ![c] =
                             [file |-> g, entry |-> HandleFileProgress(Entry("complete", 1), "complete")]]
              /\ crossed' \in {crossed, crossed \cup {g}}
    BY <1>5 DEF HandleLateVerdict, Hears
  <2>2. \A f \in File \ {g} : SameCard(f)
    <3>1. CASE UNCHANGED <<heard, crossed>>  BY <1>c, <2>1, <3>1 DEF cards
    <3>2. CASE ~ UNCHANGED <<heard, crossed>>  BY <1>h, <2>1, <3>2
    <3> QED  BY <3>1, <3>2
  <2>3. \A f \in File \ {g} : row'[f] = row[f]  BY <1>r, <2>1
  <2>4. \A f \in File \ {g} : SameRun(f)  BY <1>u, <2>1, <2>3 DEF SameRun, line
  <2> QED  BY <2>2, <2>4 DEF Same
<1>6. CASE HandleCancelReply(c, g)
  <2>1. /\ UNCHANGED <<line, task, flags, card, click, late, crossed>> /\ heard[c] = None
        /\ row' = [row EXCEPT ![g] = "canceled"]
        /\ heard' = [heard EXCEPT ![c] =
                       [file |-> g, entry |-> HandleFileProgress(Entry("canceled", 0), "canceled")]]
    BY <1>6 DEF HandleCancelReply, Hears
  <2>2. \A f \in File \ {g} : SameCard(f)  BY <1>h, <2>1
  <2>3. \A f \in File \ {g} : row'[f] = row[f]  BY <1>r, <2>1
  <2>4. \A f \in File \ {g} : SameRun(f)  BY <1>u, <2>1, <2>3 DEF SameRun, line, flags
  <2> QED  BY <2>2, <2>4 DEF Same
<1> QED  BY <1>1, <1>2, <1>3, <1>4, <1>5, <1>6 DEF Hear

\* A click on a card concerns only its file.
LEMMA UserFrame ==
  ASSUME Types, NEW g \in File, User(g)
  PROVE  \A f \in File \ {g} : Same(f)
<1>k. LineOK /\ FlagsOK /\ CardsOK  BY DEF Types
<1>0. \A f \in File \ {g} : f # 0  BY FileOf
<1>q. ToSet(Dequeue(g)) = ToSet(queue) \ {g} /\ ToSet(Enqueue(g, FALSE)) = ToSet(queue) \cup {g}
  BY <1>k, Queueing
<1>c. ASSUME NEW news, click' = [click EXCEPT ![g] = news], UNCHANGED heard,
             \A f \in File \ {g} : /\ card'[f] = card[f]
                                   /\ f \in late' <=> f \in late
                                   /\ f \in crossed' <=> f \in crossed
      PROVE  \A f \in File \ {g} : SameCard(f)
  BY <1>k, <1>c DEF SameCard, CardsOK
<1>u. UNCHANGED task => \A f \in File : SameTask(f)  BY DEF SameTask
<1>1. CASE CancelQueued(g)
  <2>1. /\ queue' = Dequeue(g) /\ slot' \in {slot, 0} /\ (slot # g => slot' = slot)
        /\ row' = [row EXCEPT ![g] = "canceled"] /\ done' = done \cup {g} /\ canceled' = canceled \cup {g}
        /\ UNCHANGED <<task, running, rejected, sent, card, heard, late, crossed>>
    BY <1>1 DEF CancelQueued, FinishOutboundTransfer
  <2>2. \A f \in File \ {g} : SameRun(f)  BY <1>k, <1>0, <1>q, <1>u, <2>1 DEF SameRun, FlagsOK
  <2>3. \A f \in File \ {g} : SameCard(f)  BY <1>1, <1>c, <2>1 DEF CancelQueued
  <2> QED  BY <2>2, <2>3 DEF Same
<1>2. CASE CancelRunning(g)
  <2>1. /\ queue' = Dequeue(g) /\ canceled' = canceled \cup {g}
        /\ UNCHANGED <<row, slot, task, running, done, rejected, sent, card, heard, late, crossed>>
    BY <1>2 DEF CancelRunning
  <2>2. \A f \in File \ {g} : SameRun(f)  BY <1>q, <1>u, <2>1 DEF SameRun
  <2>3. \A f \in File \ {g} : SameCard(f)  BY <1>2, <1>c, <2>1 DEF CancelRunning
  <2> QED  BY <2>2, <2>3 DEF Same
<1>3. CASE CancelEnded(g)
  <2>1. UNCHANGED <<runs, card, heard, late, crossed>>  BY <1>3 DEF CancelEnded
  <2>2. \A f \in File \ {g} : SameCard(f)  BY <1>3, <1>c, <2>1 DEF CancelEnded
  <2> QED  BY <2>1, <2>2, Quiet DEF Same
<1>4. CASE RetryTransfer(g)
  <2>1. /\ queue' = Enqueue(g, FALSE) /\ row' = [row EXCEPT ![g] = "pending"]
        /\ done' = done \ {g} /\ rejected' = rejected \ {g} /\ canceled' = canceled \ {g} /\ sent' = sent \ {g}
        /\ late' = late \ {g} /\ crossed' \in {crossed, crossed \cup {g}}
        /\ UNCHANGED <<slot, task, running, card, heard>>
    BY <1>4 DEF RetryTransfer
  <2>2. \A f \in File \ {g} : SameRun(f)  BY <1>k, <1>q, <1>u, <2>1 DEF SameRun, FlagsOK
  <2>3. \A f \in File \ {g} : SameCard(f)
    <3>1. click' = [click EXCEPT ![g] = <<Entry("pending", 0)>>]  BY <1>4 DEF RetryTransfer
    <3> QED  BY <1>c, <2>1, <3>1
  <2> QED  BY <2>2, <2>3 DEF Same
<1>5. CASE ShowClick(g)
  <2>1. /\ UNCHANGED <<runs, heard, crossed>> /\ late' \in {late, late \cup {g}}
        /\ card' = [card EXCEPT ![g] = UpsertFileTransfer(@, Head(click[g]))]
        /\ click' = [click EXCEPT ![g] = Tail(@)]
    BY <1>5 DEF ShowClick, CallPending
  <2>2. \A f \in File \ {g} : card'[f] = card[f] /\ click'[f] = click[f]  BY <1>k, <2>1 DEF CardsOK
  <2>3. \A f \in File \ {g} : SameCard(f)  BY <2>1, <2>2 DEF SameCard
  <2> QED  BY <2>1, <2>3, Quiet DEF Same
<1> QED  BY <1>1, <1>2, <1>3, <1>4, <1>5 DEF User

\* The drop queues the next file, and shows it.
LEMMA DropFrame ==
  ASSUME Types
  PROVE  /\ QueueFile => next \in File /\ \A f \in File \ {next} : Same(f)
         /\ ShowQueued => next \in File /\ \A f \in File \ {next} : Same(f)
<1>k. LineOK /\ FlagsOK /\ CardsOK  BY DEF Types
<1>1. ASSUME QueueFile  PROVE next \in File /\ \A f \in File \ {next} : Same(f)
  <2>1. next \in File  BY <1>1, AdvanceTypes DEF QueueFile
  <2>2. /\ row' = [row EXCEPT ![next] = "pending"] /\ queue' = Enqueue(next, FALSE)
        /\ UNCHANGED <<slot, task, flags, cards, crossed>>
    BY <1>1 DEF QueueFile
  <2>3. ToSet(queue') = ToSet(queue) \cup {next}  BY <1>k, <2>1, <2>2, Queueing
  <2>4. \A f \in File : SameTask(f)  BY <2>2 DEF SameTask
  <2>5. \A f \in File \ {next} : SameRun(f)  BY <1>k, <2>2, <2>3, <2>4 DEF SameRun, flags, FlagsOK
  <2> QED  BY <2>1, <2>2, <2>5, Quiet DEF Same
<1>2. ASSUME ShowQueued  PROVE next \in File /\ \A f \in File \ {next} : Same(f)
  <2>1. next \in File  BY <1>2, AdvanceTypes DEF ShowQueued
  <2>2. /\ card' = [card EXCEPT ![next] = UpsertFileTransfer(@, Entry("pending", 0))]
        /\ late' \in {late, late \cup {next}} /\ UNCHANGED <<runs, heard, click, crossed>>
    BY <1>2 DEF ShowQueued, CallPending
  <2>3. \A f \in File \ {next} : SameCard(f)  BY <1>k, <2>2 DEF SameCard, CardsOK
  <2> QED  BY <2>1, <2>2, <2>3, Quiet DEF Same
<1> QED  BY <1>1, <1>2

\* A connection loop tells the card of one file.
LEMMA HeardFrame ==
  ASSUME Types, NEW c \in Conn, ShowHeard(c)
  PROVE  heard[c].file \in File /\ \A f \in File \ {heard[c].file} : Same(f)
<1>k. CardsOK  BY DEF Types
<1>1. heard[c] \in News /\ heard[c].file \in File  BY <1>k DEF ShowHeard, CardsOK, News
<1>2. PICK g \in File : g = heard[c].file  BY <1>1
<1>3. /\ card' = [card EXCEPT ![g] = UpsertFileTransfer(@, heard[c].entry)]
      /\ heard' = [heard EXCEPT ![c] = None] /\ UNCHANGED <<runs, click, late, crossed>>
  BY <1>2 DEF ShowHeard
<1>4. heard'[c] = None /\ \A d \in Conn \ {c} : heard'[d] = heard[d]  BY <1>k, <1>3 DEF CardsOK
<1>5. \A f \in File \ {g} : card'[f] = card[f]  BY <1>k, <1>3 DEF CardsOK
<1>6. \A f \in File \ {g} : SameCard(f)  BY <1>2, <1>3, <1>4, <1>5 DEF SameCard
<1> QED  BY <1>1, <1>2, <1>3, <1>6, Quiet DEF Same

\* The other steps concern no file at the sender.
LEMMA OtherFrame ==
  ASSUME \/ SendFolder \/ FolderTimesOut \/ QueueFails
         \/ \E status \in {"accepted", "rejected"} :
              DecideFolder(status) \/ \E c \in Conn : HandleFolderResponse(c, status)
         \/ \E c \in Conn : HandleFolderRequest(c)
         \/ \E c \in Conn, f \in File : Peer(c, f)
         \/ WindowPasses \/ Lose \/ Reconnect \/ Restart \/ UNCHANGED vars
  PROVE  \A f \in File : Same(f)
<1>1. UNCHANGED <<runs, cards, crossed>>
  BY DEF SendFolder, FolderTimesOut, QueueFails, DecideFolder, HandleFolderResponse, HandleFolderRequest,
         Peer, HandleFileRequest, HandleFileComplete, HandleCancel, WindowPasses, Lose, Reconnect, Restart, vars
<1> QED  BY <1>1, Quiet DEF Same

-----------------------------------------------------------------------------
(* What a step sends and takes.                                            *)

\* A goroutine sends the messages of its file, ...
LEMMA RunWire ==
  ASSUME NEW t \in Task, Run(t)
  PROVE  /\ UNCHANGED <<conn, up, toSender, thread, receiver, limiter, forgot>>
         /\ \/ toReceiver' = toReceiver
            \/ /\ task[t] # None
               /\ \E type \in {"file_request", "file_complete"} : Send(task[t].via, type, task[t].file)
BY DEF Run, StartNext, AskFile, SendData, SendComplete, RunStops, RunGivesUp, CaptureOutcome, RequeuePending,
       RecordCanceled, FinishRun, Show, wire

\* ... a click cancels a file the sender knows, ...
LEMMA UserWire ==
  ASSUME NEW f \in File, User(f)
  PROVE  /\ UNCHANGED <<conn, up, toSender, thread, receiver, limiter, forgot>>
         /\ UNCHANGED runs \/ row[f] # "none"
         /\ toReceiver' = toReceiver \/ (row[f] # "none" /\ Send(Current, "cancel", f))
BY DEF User, CancelQueued, CancelRunning, CancelEnded, RetryTransfer, ShowClick, Clickable, wire

\* ... a connection loop of the sender takes a message, ...
LEMMA HearWire ==
  ASSUME NEW c \in Conn, NEW f \in File, Hear(c, f)
  PROVE  /\ UNCHANGED <<conn, up, toReceiver, thread, receiver, limiter, forgot>>
         /\ \E type \in MessageTypes : Hears(c, type, f)
BY Names DEF Hear, HandleAccepted, HandleRefused, HandleVerdict, DropVerdict, HandleLateVerdict, HandleCancelReply

\* ... and one of the receiver takes one, and may answer it.
LEMMA PeerWire ==
  ASSUME NEW c \in Conn, NEW f \in File, Peer(c, f)
  PROVE  /\ UNCHANGED <<conn, up, thread, prompt, folder, answer, forgot>>
         /\ \E type \in {"file_request", "file_complete", "cancel"} : Takes(c, type, f)
         /\ \/ toSender' = toSender
            \/ \E d : \E type \in MessageTypes : Reply(d, type, f)
BY Names DEF Peer, HandleFileRequest, HandleFileComplete, HandleCancel

\* A message of one file is of no other.
LEMMA WithinOf ==
  ASSUME NEW new, NEW old, NEW type, NEW g, Within(new, old, {Message(type, g)})
  PROVE  \A m \in Wire : m.file # g /\ OnWire(new, m) => OnWire(old, m)
BY DEF Within, Message

\* The messages that are about a file before and after each step of its own.
LEMMA WireSteps ==
  ASSUME Types
  PROVE  /\ \A t \in Task : Run(t) =>
              \A m \in Wire : /\ m.file # FileAt(t) /\ OnWire(toReceiver', m) => OnWire(toReceiver, m)
                              /\ OnWire(toSender', m) => OnWire(toSender, m)
         /\ \A f \in File : User(f) =>
              \A m \in Wire : /\ m.file # f /\ OnWire(toReceiver', m) => OnWire(toReceiver, m)
                              /\ OnWire(toSender', m) => OnWire(toSender, m)
         /\ \A c \in Conn, f \in File : Hear(c, f) =>
              \A m \in Wire : /\ OnWire(toReceiver', m) => OnWire(toReceiver, m)
                              /\ OnWire(toSender', m) => OnWire(toSender, m)
         /\ \A c \in Conn, f \in File : Peer(c, f) =>
              \A m \in Wire : /\ OnWire(toReceiver', m) => OnWire(toReceiver, m)
                              /\ m.file # f /\ OnWire(toSender', m) => OnWire(toSender, m)
<1>k. WireOK /\ TaskOK /\ toReceiver \in Channels /\ toSender \in Channels  BY DEF Types, WireOK, Channels
<1>1. ASSUME NEW t \in Task, Run(t), NEW m \in Wire
      PROVE  /\ m.file # FileAt(t) /\ OnWire(toReceiver', m) => OnWire(toReceiver, m)
             /\ OnWire(toSender', m) => OnWire(toSender, m)
  <2>1. toSender' = toSender  BY <1>1, RunWire
  <2>2. CASE toReceiver' = toReceiver  BY <2>1, <2>2
  <2>3. ASSUME task[t] # None, NEW type \in {"file_request", "file_complete"}, Send(task[t].via, type, task[t].file)
        PROVE  m.file # FileAt(t) /\ OnWire(toReceiver', m) => OnWire(toReceiver, m)
    <3>1. FileAt(t) = task[t].file  BY <2>3 DEF FileAt
    <3>2. task[t].file \in 0..FileCount  BY <1>k, <2>3, TaskOf, FileOf
    <3>3. toReceiver' = Sent(toReceiver, task[t].via, type, task[t].file) /\ type \in MessageTypes
      BY <2>3, Names DEF Send
    <3>4. Within(toReceiver', toReceiver, {Message(type, task[t].file)})  BY <1>k, <3>2, <3>3, Sending
    <3> QED  BY <3>1, <3>4, WithinOf
  <2> QED  BY <1>1, <2>1, <2>2, <2>3, RunWire
<1>2. ASSUME NEW f \in File, User(f), NEW m \in Wire
      PROVE  /\ m.file # f /\ OnWire(toReceiver', m) => OnWire(toReceiver, m)
             /\ OnWire(toSender', m) => OnWire(toSender, m)
  <2>1. toSender' = toSender  BY <1>2, UserWire
  <2>2. CASE toReceiver' = toReceiver  BY <2>1, <2>2
  <2>3. CASE Send(Current, "cancel", f)
    <3>1. toReceiver' = Sent(toReceiver, Current, "cancel", f) /\ "cancel" \in MessageTypes /\ f \in 0..FileCount
      BY <2>3, Names, FileOf DEF Send
    <3>2. Within(toReceiver', toReceiver, {Message("cancel", f)})  BY <1>k, <3>1, Sending
    <3> QED  BY <2>1, <3>2, WithinOf
  <2> QED  BY <1>2, <2>2, <2>3, UserWire
<1>3. ASSUME NEW c \in Conn, NEW f \in File, Hear(c, f), NEW m \in Wire
      PROVE  /\ OnWire(toReceiver', m) => OnWire(toReceiver, m)
             /\ OnWire(toSender', m) => OnWire(toSender, m)
  <2>1. toReceiver' = toReceiver /\ \E type \in MessageTypes : Hears(c, type, f)  BY <1>3, HearWire
  <2>2. Within(toSender', toSender, {})  BY <1>k, <2>1, Hearing
  <2> QED  BY <2>1, <2>2 DEF Within
<1>4. ASSUME NEW c \in Conn, NEW f \in File, Peer(c, f), NEW m \in Wire
      PROVE  /\ OnWire(toReceiver', m) => OnWire(toReceiver, m)
             /\ m.file # f /\ OnWire(toSender', m) => OnWire(toSender, m)
  <2>1. Within(toReceiver', toReceiver, {})
    <3>1. PICK type : Takes(c, type, f)  BY <1>4, PeerWire
    <3> QED  BY <1>k, <3>1, Receiving
  <2>2. CASE toSender' = toSender  BY <2>1, <2>2 DEF Within
  <2>3. ASSUME NEW d, NEW type \in MessageTypes, Reply(d, type, f)
        PROVE  m.file # f /\ OnWire(toSender', m) => OnWire(toSender, m)
    <3>1. f \in 0..FileCount  BY FileOf
    <3>2. Within(toSender', toSender, {Message(type, f)})  BY <1>k, <2>3, <3>1, ReplyTypes
    <3> QED  BY <3>2, WithinOf
  <2> QED  BY <1>4, <2>1, <2>2, <2>3, PeerWire DEF Within
<1> QED  BY <1>1, <1>2, <1>3, <1>4

\* The file a step is about is known to the sender, and stays so.
LEMMA Known ==
  ASSUME Types, Types', QueueInv
  PROVE  /\ \A t \in Task : Run(t) => FileAt(t) \in File /\ row[FileAt(t)] # "none" /\ row'[FileAt(t)] # "none"
         /\ \A f \in File : User(f) => UNCHANGED runs \/ (row[f] # "none" /\ row'[f] # "none")
         /\ \A c \in Conn, f \in File : Hear(c, f) => row[f] # "none" /\ row'[f] # "none"
         /\ \A c \in Conn, f \in File : Peer(c, f) => row[f] # "none" /\ row'[f] # "none"
<1>k. WireOK /\ TaskOK /\ FlagsOK /\ LineOK  BY DEF Types
<1>s. "none" \notin Statuses  BY DEF Statuses, Active, Terminal
<1>q. \A f \in File : row[f] = "none" => Unqueued(f)  BY DEF QueueInv
<1>w. ASSUME NEW f \in File, NEW status \in Statuses, row[f] # "none", row' = row \/ row' = [row EXCEPT ![f] = status]
      PROVE  row'[f] # "none"
  BY <1>k, <1>s, <1>w DEF FlagsOK
<1>n. {"rejected", "canceled", "complete", "failed", "accepted", "pending"} \subseteq Statuses  BY Names
<1>1. ASSUME NEW t \in Task, Run(t)
      PROVE  FileAt(t) \in File /\ row[FileAt(t)] # "none" /\ row'[FileAt(t)] # "none"
  <2>1. FileAt(t) \in File  BY <1>1, RunFrame
  <2>2. row[FileAt(t)] # "none"
    <3>1. CASE task[t] = None
      <4>1. queue # <<>>
        BY <1>1, <3>1 DEF Run, StartNext, AskFile, SendData, SendComplete, RunStops, RunGivesUp, CaptureOutcome,
                  RequeuePending, RecordCanceled, FinishRun, Show
      <4>2. Head(queue) \in ToSet(queue)  BY <1>k, <2>1, <4>1, Queueing
      <4> QED  BY <1>q, <2>1, <3>1, <4>2 DEF Unqueued, FileAt
    <3>2. CASE task[t] # None
      <4>1. Busy(FileAt(t))  BY <1>k, <3>2, TaskOf DEF Busy, At, FileAt
      <4> QED  BY <1>q, <2>1, <4>1 DEF Unqueued
    <3> QED  BY <3>1, <3>2
  <2>3. row' = row \/ \E status \in {"pending", "canceled"} : row' = [row EXCEPT ![FileAt(t)] = status]
    BY <1>1 DEF Run, StartNext, AskFile, SendData, SendComplete, RunStops, RunGivesUp, CaptureOutcome,
                RequeuePending, RecordCanceled, FinishRun, Show, FileAt
  <2> QED  BY <1>n, <1>w, <2>1, <2>2, <2>3
<1>2. ASSUME NEW f \in File, User(f)  PROVE UNCHANGED runs \/ (row[f] # "none" /\ row'[f] # "none")
  <2>1. row' = row \/ \E status \in {"pending", "canceled"} : row' = [row EXCEPT ![f] = status]
    BY <1>2 DEF User, CancelQueued, CancelRunning, CancelEnded, RetryTransfer, ShowClick, runs
  <2> QED  BY <1>2, <1>n, <1>w, <2>1, UserWire
<1>3. ASSUME NEW c \in Conn, NEW f \in File, Hear(c, f)  PROVE row[f] # "none" /\ row'[f] # "none"
  <2>1. PICK type \in MessageTypes : Hears(c, type, f)  BY <1>3, HearWire
  <2>2. OnWire(toSender, Message(type, f)) /\ Message(type, f) \in Wire /\ Message(type, f).file = f
    BY <1>k, <2>1, Hearing, Messages, FileOf DEF Message
  <2>3. row[f] # "none"  BY <1>q, <2>2 DEF Unqueued
  <2>4. row' = row \/ \E status \in {"rejected", "canceled", "complete", "failed", "accepted"} :
                        row' = [row EXCEPT ![f] = status]
    BY <1>3 DEF Hear, HandleAccepted, HandleRefused, HandleVerdict, DropVerdict, HandleLateVerdict, HandleCancelReply,
                runs
  <2> QED  BY <1>n, <1>w, <2>3, <2>4
<1>4. ASSUME NEW c \in Conn, NEW f \in File, Peer(c, f)  PROVE row[f] # "none" /\ row'[f] # "none"
  <2>1. PICK type \in {"file_request", "file_complete", "cancel"} : Takes(c, type, f)  BY <1>4, PeerWire
  <2>2. OnWire(toReceiver, Message(type, f)) /\ Message(type, f) \in Wire /\ Message(type, f).file = f
    BY <1>k, <2>1, Receiving, Messages, FileOf, Names DEF Message
  <2>3. row[f] # "none"  BY <1>q, <2>2 DEF Unqueued
  <2>4. row' = row  BY <1>4 DEF Peer, HandleFileRequest, HandleFileComplete, HandleCancel, runs
  <2> QED  BY <2>3, <2>4
<1> QED  BY <1>1, <1>2, <1>3, <1>4

\* No message about f is new.
SameWire(f) ==
  \A m \in Wire : m.file = f =>
    /\ OnWire(toReceiver', m) => OnWire(toReceiver, m)
    /\ OnWire(toSender', m) => OnWire(toSender, m)

\* The messages of the folder, and the faults, bring none.
LEMMA OtherWire ==
  ASSUME Types,
         \/ Folder \/ ClearCompleted \/ \E c \in Conn : ShowHeard(c)
         \/ WindowPasses \/ Lose \/ Reconnect \/ Restart \/ UNCHANGED vars
  PROVE  \A f \in File : SameWire(f)
<1>k. WireOK /\ toReceiver \in Channels /\ toSender \in Channels /\ prompt \in 0..(MaxFaults + 1)
  BY DEF Types, WireOK, Channels, ReceiverOK
<1>0. 0 \in 0..FileCount /\ \A f \in File : f # 0  BY FolderAssumption, FileOf
<1>n. {"accepted", "rejected", "folder_request"} \subseteq MessageTypes  BY Names
<1>a. \A a, b : Within(a, b, {}) => \A m \in Wire : OnWire(a, m) => OnWire(b, m)
  BY DEF Within
<1>e. \A a, b : a = b => \A m \in Wire : OnWire(a, m) => OnWire(b, m)
  OBVIOUS
<1>w. ASSUME \A m \in Wire : m.file # 0 =>
               (OnWire(toReceiver', m) => OnWire(toReceiver, m)) /\ (OnWire(toSender', m) => OnWire(toSender, m))
      PROVE  \A f \in File : SameWire(f)
  BY <1>0, <1>w DEF SameWire
<1>u. UNCHANGED <<toReceiver, toSender>> => \A f \in File : SameWire(f)  BY DEF SameWire
<1>r. ASSUME NEW c, NEW status \in {"accepted", "rejected"}, AnswerFolder(c, status)
      PROVE  \A m \in Wire : m.file # 0 => (OnWire(toSender', m) => OnWire(toSender, m))
  <2>1. PICK type \in {"accepted", "rejected"} : Reply(c, type, 0)  BY <1>r DEF AnswerFolder
  <2>2. Within(toSender', toSender, {Message(type, 0)})  BY <1>k, <1>0, <1>n, <2>1, ReplyTypes
  <2> QED  BY <2>2, WithinOf
<1>1. CASE SendFolder
  <2>1. toSender' = toSender /\ toReceiver' = Sent(toReceiver, conn, "folder_request", 0)
    BY <1>1 DEF SendFolder, Send
  <2>2. Within(toReceiver', toReceiver, {Message("folder_request", 0)})  BY <1>k, <1>0, <1>n, <2>1, Sending
  <2> QED  BY <1>w, <2>1, <2>2, WithinOf
<1>2. ASSUME NEW c \in Conn, NEW status, HandleFolderResponse(c, status)  PROVE \A f \in File : SameWire(f)
  <2>1. Within(toSender', toSender, {}) /\ toReceiver' = toReceiver  BY <1>k, <1>2, Hearing DEF HandleFolderResponse
  <2> QED  BY <1>a, <1>w, <2>1
<1>3. ASSUME NEW status \in {"accepted", "rejected"}, DecideFolder(status)  PROVE \A f \in File : SameWire(f)
  <2>1. AnswerFolder(prompt, status) /\ toReceiver' = toReceiver  BY <1>3 DEF DecideFolder
  <2> QED  BY <1>r, <1>w, <2>1
<1>4. ASSUME NEW c \in Conn, HandleFolderRequest(c)  PROVE \A f \in File : SameWire(f)
  <2>1. Within(toReceiver', toReceiver, {})  BY <1>k, <1>4, Receiving DEF HandleFolderRequest
  <2>2. toSender' = toSender \/ \E status \in {"accepted", "rejected"} : AnswerFolder(c, status)
    BY <1>4 DEF HandleFolderRequest
  <2>3. \A m \in Wire : m.file # 0 => (OnWire(toSender', m) => OnWire(toSender, m))  BY <1>r, <2>2
  <2> QED  BY <1>a, <1>w, <2>1, <2>3
<1>5. CASE FolderTimesOut \/ QueueFile \/ QueueFails \/ ShowQueued
  BY <1>5, <1>u DEF FolderTimesOut, QueueFile, QueueFails, ShowQueued, wire
<1>6. CASE ClearCompleted \/ WindowPasses \/ Reconnect \/ UNCHANGED vars \/ \E c \in Conn : ShowHeard(c)
  BY <1>6, <1>u DEF ClearCompleted, WindowPasses, Reconnect, vars, wire, ShowHeard
<1>7. CASE Lose
  <2>1. Within(toReceiver', toReceiver, {}) /\ Within(toSender', toSender, {})  BY <1>7, LoseTypes
  <2> QED  BY <1>a, <1>w, <2>1
<1>8. CASE Restart
  <2>1. toReceiver' = [c \in Conn |-> <<>>] /\ Within(toSender', toSender, {})  BY <1>8, RestartTypes
  <2>2. \A m : ~ OnWire(toReceiver', m)  BY <2>1, Silence
  <2> QED  BY <1>a, <1>w, <2>1, <2>2
<1> QED  BY <1>1, <1>2, <1>3, <1>4, <1>5, <1>6, <1>7, <1>8 DEF Folder

-----------------------------------------------------------------------------
(* Nothing is known of a file before it is queued.                         *)

\* A file of which nothing changes is as unknown as before.
LEMMA UnqueuedKept ==
  ASSUME QueueInv, NEW f \in File, row'[f] = "none" => SameRun(f) /\ SameWire(f)
  PROVE  Unqueued(f)'
<1> SUFFICES ASSUME row'[f] = "none"
             PROVE  /\ f \notin ToSet(queue') /\ ~ Busy(f)' /\ ~ Ended(f)' /\ f \notin sent'
                    /\ \A m \in Wire : m.file = f => ~ OnWire(toReceiver', m) /\ ~ OnWire(toSender', m)
  BY DEF Unqueued
<1>1. SameRun(f) /\ SameWire(f)  OBVIOUS
<1>2. Unqueued(f) /\ row[f] = "none"  BY <1>1 DEF QueueInv, SameRun
<1>3. (Busy(f)' <=> Busy(f)) /\ (Ended(f)' <=> Ended(f))  BY <1>1, Framed
<1> QED  BY <1>1, <1>2, <1>3 DEF Unqueued, SameRun, SameWire

\* A step about a file the sender knows.
LEMMA KnownQueue ==
  ASSUME Types, QueueInv, NEW g \in File, row[g] # "none", row'[g] # "none",
         \A f \in File \ {g} : SameRun(f) /\ SameWire(f), UNCHANGED <<phase, next, answer>>
  PROVE  QueueInv'
<1> SUFFICES ASSUME NEW f \in File  PROVE Unqueued(f)' /\ InOrder(f)'
  BY DEF QueueInv
<1>1. Unqueued(f)'  BY UnqueuedKept
<1>2. row'[f] = "none" <=> row[f] = "none"  BY DEF SameRun
<1>3. InOrder(f)  BY DEF QueueInv
<1> QED  BY <1>1, <1>2, <1>3 DEF InOrder

\* The receiver answers the envelope once, before any file is queued.
LEMMA AnswersOnce ==
  ASSUME Types, EnvelopeInv,
         \/ \E status \in {"accepted", "rejected"} : DecideFolder(status)
         \/ \E c \in Conn : HandleFolderRequest(c)
  PROVE  answer = "none"
<1>1. ASSUME NEW c \in Conn, HandleFolderRequest(c)  PROVE answer = "none"
  <2>1. OnWire(toReceiver, Request)  BY <1>1, Receiving DEF HandleFolderRequest, Types, Request
  <2> QED  BY <2>1 DEF EnvelopeInv
<1>2. ASSUME NEW status, DecideFolder(status)  PROVE answer = "none"
  BY <1>2 DEF DecideFolder, EnvelopeInv
<1> QED  BY <1>1, <1>2

LEMMA QueueStep ==
  ASSUME Types, Types', QueueInv, EnvelopeInv, [Next]_vars
  PROVE  QueueInv'
<1>0. \A f \in File : f \in 1..FileCount /\ f # 0  BY FileOf DEF File
<1>i. ASSUME \A f \in File : SameRun(f) /\ SameWire(f), \A f \in File : InOrder(f)'  PROVE QueueInv'
  BY <1>i, UnqueuedKept DEF QueueInv
<1>s. ASSUME \A f \in File : SameRun(f)  PROVE \A f \in File : row'[f] = row[f]
  BY <1>s DEF SameRun
<1>u. ASSUME \A f \in File : SameRun(f) /\ SameWire(f), UNCHANGED <<phase, next, answer>>  PROVE QueueInv'
  <2>1. \A f \in File : InOrder(f)'  BY <1>u, <1>s DEF QueueInv, InOrder
  <2> QED  BY <1>i, <1>u, <2>1
<1>1. ASSUME NEW t \in Task, Run(t)  PROVE QueueInv'
  <2>1. /\ FileAt(t) \in File /\ row[FileAt(t)] # "none" /\ row'[FileAt(t)] # "none"
        /\ UNCHANGED <<phase, next, answer>>
    BY <1>1, Known, RunWire DEF thread, receiver
  <2>2. \A f \in File \ {FileAt(t)} : SameRun(f) /\ SameWire(f)
    BY <1>1, RunFrame, WireSteps DEF Same, SameWire
  <2> QED  BY <2>1, <2>2, KnownQueue
<1>2. ASSUME NEW g \in File, User(g)  PROVE QueueInv'
  <2>1. UNCHANGED <<phase, next, answer>>  BY <1>2, UserWire DEF thread, receiver
  <2>2. \A f \in File \ {g} : SameRun(f) /\ SameWire(f)  BY <1>2, UserFrame, WireSteps DEF Same, SameWire
  <2>3. CASE row[g] # "none" /\ row'[g] # "none"  BY <2>1, <2>2, <2>3, KnownQueue
  <2>4. CASE UNCHANGED runs /\ row[g] = "none"
    <3>1. UNCHANGED <<toReceiver, toSender>>  BY <1>2, <2>4, UserWire
    <3>2. \A f \in File : SameRun(f) /\ SameWire(f)  BY <2>4, <3>1, Quiet DEF SameWire
    <3> QED  BY <1>u, <2>1, <3>2
  <2>5. UNCHANGED runs => row'[g] = row[g]  BY DEF runs
  <2> QED  BY <1>2, <2>3, <2>4, <2>5, Known
<1>3. ASSUME NEW c \in Conn, NEW g \in File, Hear(c, g)  PROVE QueueInv'
  <2>1. row[g] # "none" /\ row'[g] # "none" /\ UNCHANGED <<phase, next, answer>>
    BY <1>3, Known, HearWire DEF thread, receiver
  <2>2. \A f \in File \ {g} : SameRun(f) /\ SameWire(f)  BY <1>3, HearFrame, WireSteps DEF Same, SameWire
  <2> QED  BY <2>1, <2>2, KnownQueue
<1>4. ASSUME NEW c \in Conn, NEW g \in File, Peer(c, g)  PROVE QueueInv'
  <2>1. row[g] # "none" /\ row'[g] # "none" /\ UNCHANGED <<phase, next, answer>>
    BY <1>4, Known, PeerWire DEF thread
  <2>2. \A f \in File : SameRun(f)  BY <1>4, OtherFrame DEF Same
  <2>3. \A f \in File \ {g} : SameWire(f)  BY <1>4, WireSteps DEF SameWire
  <2> QED  BY <2>1, <2>2, <2>3, KnownQueue
<1>5. CASE ClearCompleted \/ WindowPasses \/ Lose \/ Reconnect \/ Restart \/ UNCHANGED vars \/ \E c \in Conn : ShowHeard(c)
  <2>1. UNCHANGED <<runs, phase, next, answer>>
    BY <1>5 DEF ClearCompleted, WindowPasses, Lose, Reconnect, Restart, vars, ShowHeard, thread, receiver
  <2> QED  BY <1>5, <1>u, <2>1, Quiet, OtherWire
<1>6. CASE Folder
  <2>w. \A f \in File : SameWire(f)  BY <1>6, OtherWire
  <2>1. CASE SendFolder
    <3>1. UNCHANGED <<runs, next, answer>> /\ phase = "idle" /\ phase' = "waiting"  BY <2>1 DEF SendFolder, receiver
    <3>2. \A f \in File : SameRun(f)  BY <3>1, Quiet
    <3>3. \A f \in File : InOrder(f)'  BY <1>s, <3>1, <3>2 DEF QueueInv, InOrder
    <3> QED  BY <1>i, <2>w, <3>2, <3>3
  <2>2. CASE FolderTimesOut \/ QueueFails
    <3>1. UNCHANGED <<runs, next, answer>> /\ phase' = "returned"
      BY <2>2 DEF FolderTimesOut, QueueFails, receiver
    <3>2. \A f \in File : SameRun(f)  BY <3>1, Quiet
    <3>3. \A f \in File : InOrder(f)'  BY <1>s, <3>1, <3>2 DEF QueueInv, InOrder
    <3> QED  BY <1>i, <2>w, <3>2, <3>3
  <2>3. ASSUME NEW c \in Conn, NEW status, HandleFolderResponse(c, status)  PROVE QueueInv'
    <3>1. UNCHANGED <<runs, next, answer>> /\ (phase' = phase \/ phase = "waiting")
      BY <2>3 DEF HandleFolderResponse, receiver
    <3>2. \A f \in File : SameRun(f)  BY <3>1, Quiet
    <3>3. \A f \in File : InOrder(f)'  BY <1>s, <3>1, <3>2 DEF QueueInv, InOrder
    <3> QED  BY <1>i, <2>w, <3>2, <3>3
  <2>4. CASE \/ \E status \in {"accepted", "rejected"} : DecideFolder(status)
             \/ \E c \in Conn : HandleFolderRequest(c)
    <3>1. UNCHANGED <<runs, phase, next>>  BY <2>4 DEF DecideFolder, HandleFolderRequest, thread
    <3>2. \A f \in File : SameRun(f)  BY <3>1, Quiet
    <3>3. answer = "none"  BY <2>4, AnswersOnce
    <3>4. \A f \in File : InOrder(f)'  BY <1>s, <3>1, <3>2, <3>3 DEF QueueInv, InOrder
    <3> QED  BY <1>i, <2>w, <3>2, <3>4
  <2>5. CASE QueueFile
    <3>1. /\ phase = "queueing" /\ row' = [row EXCEPT ![next] = "pending"] /\ answer' = answer /\ Advance("showing")
      BY <2>5 DEF QueueFile, receiver
    <3>2. /\ next \in File /\ \A f \in File \ {next} : SameRun(f)  BY <2>5, DropFrame DEF Same
    <3>3. row'[next] = "pending"  BY <3>1, <3>2 DEF Types, FlagsOK
    <3>4. \A f \in File : Unqueued(f)'  BY <2>w, <3>2, <3>3, UnqueuedKept
    <3>5. answer = "accepted"  BY <3>1 DEF EnvelopeInv, EnvelopeAgrees
    <3>6. \/ next' = next + 1 /\ phase' = phase
          \/ next' = 1 /\ phase' = "showing"
      BY <3>1, AdvanceTypes
    <3>7. ASSUME NEW f \in File  PROVE InOrder(f)'
      <4>1. CASE phase' = "showing"  BY <3>1, <3>5, <4>1 DEF InOrder
      <4>2. CASE next' = next + 1 /\ phase' = phase
        <5>1. f >= next' => f >= next /\ f # next  BY <1>0, <3>2, <4>2, FileOf
        <5>2. f >= next' => row'[f] = "none"  BY <3>1, <3>2, <5>1 DEF QueueInv, InOrder, SameRun
        <5> QED  BY <3>1, <3>5, <4>2, <5>2 DEF InOrder
      <4> QED  BY <3>6, <4>1, <4>2
    <3> QED  BY <3>4, <3>7 DEF QueueInv
  <2>6. CASE ShowQueued
    <3>1. UNCHANGED <<runs, answer>> /\ phase = "showing" /\ phase' \in {"showing", "returned"}
      BY <2>6 DEF ShowQueued, receiver, Advance
    <3>2. \A f \in File : SameRun(f)  BY <3>1, Quiet
    <3>3. \A f \in File : InOrder(f)'  BY <1>s, <3>1, <3>2 DEF QueueInv, InOrder
    <3> QED  BY <1>i, <2>w, <3>2, <3>3
  <2> QED  BY <1>6, <2>1, <2>2, <2>3, <2>4, <2>5, <2>6 DEF Folder
<1> QED  BY <1>1, <1>2, <1>3, <1>4, <1>5, <1>6 DEF Next

-----------------------------------------------------------------------------
(* The envelope.                                                           *)

\* Where the question is.
LEMMA Questions ==
  /\ Request \in Wire /\ Request.file = 0
  /\ \A status \in {"accepted", "rejected"} : Message(status, 0) \in Wire /\ Message(status, 0).file = 0
  /\ Question => OnWire(toReceiver, Request)
  /\ Question' => OnWire(toReceiver', Request)
  /\ Nothing => \A m : ~ OnWire(toReceiver, m)
  /\ Nothing' => \A m : ~ OnWire(toReceiver', m)
<1>1. Request \in Wire /\ Request.file = 0
  <2>1. 0 \in 0..FileCount  BY FolderAssumption
  <2> QED  BY <2>1, Names, Messages DEF Request, Message
<1>2. \A status \in {"accepted", "rejected"} : Message(status, 0) \in Wire /\ Message(status, 0).file = 0
  <2>1. 0 \in 0..FileCount  BY FolderAssumption
  <2> QED  BY <2>1, Names, Messages DEF Message
<1>3. Request \in ToSet(<<Request>>)  BY DEF ToSet
<1>4. /\ Question => OnWire(toReceiver, Request)
      /\ Question' => OnWire(toReceiver', Request)
  BY <1>3 DEF Question, OnWire
<1>5. /\ Nothing => \A m : ~ OnWire(toReceiver, m)
      /\ Nothing' => \A m : ~ OnWire(toReceiver', m)
  BY NoElements DEF Nothing, OnWire
<1> QED  BY <1>1, <1>2, <1>4, <1>5

\* No message of the folder is new, and its question has been answered.
LEMMA AnsweredEnvelope ==
  ASSUME EnvelopeInv, answer = "accepted", UNCHANGED <<phase, prompt, answer, envelope>>,
         \A m \in Wire : m.file = 0 => /\ OnWire(toReceiver', m) => OnWire(toReceiver, m)
                                       /\ OnWire(toSender', m) => OnWire(toSender, m)
  PROVE  EnvelopeInv'
<1>1. phase # "idle" /\ prompt = 0 /\ ~ Question  BY DEF EnvelopeInv
<1>2. ~ OnWire(toReceiver, Request)  BY <1>1 DEF EnvelopeInv
<1>3. ~ OnWire(toReceiver', Request)  BY <1>2, Questions
<1>4. Question' => OnWire(toReceiver', Request)  BY Questions
<1>5. \A status \in {"accepted", "rejected"} : Answered(status)' => Answered(status)
  BY Questions DEF Answered
<1> QED  BY <1>1, <1>3, <1>4, <1>5 DEF EnvelopeInv, EnvelopeAgrees

\* The receiver has the same messages, and the sender has none of the folder anew.
LEMMA SameEnvelope ==
  ASSUME EnvelopeInv, UNCHANGED <<toReceiver, prompt, answer, envelope>>, phase' = "idle" => phase = "idle",
         phase' \in {"queueing", "showing"} => envelope = "accepted",
         \A m \in Wire : OnWire(toSender', m) => OnWire(toSender, m)
  PROVE  EnvelopeInv'
<1>1. (Question' <=> Question) /\ (Nothing' <=> Nothing)  BY DEF Question, Nothing
<1>2. \A status \in {"accepted", "rejected"} : Answered(status)' => Answered(status)
  BY Questions DEF Answered
<1> QED  BY <1>1, <1>2 DEF EnvelopeInv, EnvelopeAgrees

\* The answer of the receiver, while there is nothing else for it to handle.
LEMMA AnswerEnvelope ==
  ASSUME Types, EnvelopeInv, Nothing', phase # "idle", prompt' = 0, UNCHANGED <<phase, envelope>>,
         answer = "none", envelope \notin {"accepted", "rejected"}, ~ Answered("accepted"), ~ Answered("rejected"),
         NEW c, NEW status \in {"accepted", "rejected"}, AnswerFolder(c, status)
  PROVE  EnvelopeInv'
<1>1. \A m : ~ OnWire(toReceiver', m)  BY Questions
<1>2. Question' => OnWire(toReceiver', Request)  BY Questions
<1>3. ~ Question'  BY <1>1, <1>2
<1>4. PICK type \in {"accepted", "rejected"} :
        /\ Reply(c, type, 0)
        /\ \/ answer' = status /\ type = status
           \/ answer' = answer /\ type = "rejected"
  BY DEF AnswerFolder
<1>5. Within(toSender', toSender, {Message(type, 0)})
  BY <1>4, Names, ReplyTypes, FolderAssumption DEF Types
<1>6. ASSUME NEW other \in {"accepted", "rejected"}, Answered(other)'  PROVE other = type
  <2>1. Message(other, 0) = Message(type, 0)  BY <1>5, <1>6, Questions DEF Answered, Within
  <2> QED  BY <2>1 DEF Message
<1> QED  BY <1>1, <1>3, <1>4, <1>6 DEF EnvelopeInv, EnvelopeAgrees

LEMMA EnvelopeStep ==
  ASSUME Types, Types', QueueInv, EnvelopeInv, [Next]_vars
  PROVE  EnvelopeInv'
<1>k. WireOK /\ toReceiver \in Channels /\ toSender \in Channels  BY DEF Types, WireOK, Channels
<1>0. \A f \in File : f # 0  BY FileOf
<1>a. \A f \in File : row[f] # "none" => answer = "accepted"  BY DEF QueueInv, InOrder
<1>1. ASSUME NEW t \in Task, Run(t)  PROVE EnvelopeInv'
  <2>1. answer = "accepted" /\ FileAt(t) # 0  BY <1>0, <1>1, <1>a, Known
  <2>2. UNCHANGED <<phase, prompt, answer, envelope>>  BY <1>1, RunWire DEF thread, receiver
  <2> QED  BY <1>1, <2>1, <2>2, WireSteps, AnsweredEnvelope
<1>2. ASSUME NEW g \in File, User(g)  PROVE EnvelopeInv'
  <2>1. UNCHANGED <<phase, prompt, answer, envelope, toSender>>  BY <1>2, UserWire DEF thread, receiver
  <2>2. CASE row[g] # "none"
    <3>1. answer = "accepted"  BY <1>a, <2>2
    <3>2. \A m \in Wire : m.file = 0 => /\ OnWire(toReceiver', m) => OnWire(toReceiver, m)
                                        /\ OnWire(toSender', m) => OnWire(toSender, m)
      BY <1>0, <1>2, WireSteps
    <3> QED  BY <2>1, <3>1, <3>2, AnsweredEnvelope
  <2>3. CASE row[g] = "none"
    <3>1. toReceiver' = toReceiver  BY <1>2, <2>3, UserWire
    <3>2. phase' \in {"queueing", "showing"} => envelope = "accepted"  BY <2>1 DEF EnvelopeInv
    <3> QED  BY <2>1, <3>1, <3>2, SameEnvelope
  <2> QED  BY <2>2, <2>3
<1>3. ASSUME NEW c \in Conn, NEW g \in File, Hear(c, g)  PROVE EnvelopeInv'
  <2>1. answer = "accepted" /\ UNCHANGED <<phase, prompt, answer, envelope>>
    BY <1>3, <1>a, Known, HearWire DEF thread, receiver
  <2> QED  BY <1>3, <2>1, WireSteps, AnsweredEnvelope
<1>4. ASSUME NEW c \in Conn, NEW g \in File, Peer(c, g)  PROVE EnvelopeInv'
  <2>1. answer = "accepted" /\ UNCHANGED <<phase, prompt, answer, envelope>>
    BY <1>4, <1>a, Known, PeerWire DEF thread
  <2>2. \A m \in Wire : m.file = 0 => /\ OnWire(toReceiver', m) => OnWire(toReceiver, m)
                                      /\ OnWire(toSender', m) => OnWire(toSender, m)
    BY <1>0, <1>4, WireSteps
  <2> QED  BY <2>1, <2>2, AnsweredEnvelope
<1>5. CASE \/ ClearCompleted \/ WindowPasses \/ Reconnect \/ UNCHANGED vars \/ \E c \in Conn : ShowHeard(c)
           \/ FolderTimesOut \/ QueueFile \/ QueueFails \/ ShowQueued
  <2>1. UNCHANGED <<toReceiver, toSender, prompt, answer, envelope>>
    BY <1>5 DEF ClearCompleted, WindowPasses, Reconnect, vars, ShowHeard, FolderTimesOut, QueueFile, QueueFails,
                ShowQueued, wire, thread, receiver
  <2>2. phase' = phase \/ (phase' \in {"showing", "returned"} /\ phase \in {"waiting", "queueing", "showing"}
                           /\ (phase' = "showing" => phase = "queueing"))
    BY <1>5 DEF ClearCompleted, WindowPasses, Reconnect, vars, ShowHeard, FolderTimesOut, QueueFile, QueueFails,
                ShowQueued, thread, Advance
  <2>3. phase' \in {"queueing", "showing"} => envelope = "accepted"  BY <2>2 DEF EnvelopeInv
  <2> QED  BY <2>1, <2>2, <2>3, SameEnvelope
<1>6. CASE SendFolder
  <2>1. /\ phase = "idle" /\ phase' = "waiting" /\ up /\ envelope' = "pending" /\ UNCHANGED <<toSender, prompt, answer>>
        /\ toReceiver' = Sent(toReceiver, conn, "folder_request", 0)
    BY <1>6 DEF SendFolder, Send, receiver
  <2>2. /\ Nothing /\ prompt = 0 /\ answer = "none" /\ ~ Answered("accepted") /\ ~ Answered("rejected")
    BY <2>1 DEF EnvelopeInv
  <2>3. Live(conn) /\ conn \in Conn  BY <1>k, <2>1, FolderAssumption DEF Live, Current, WireOK, Conn
  <2>4. toReceiver' = [toReceiver EXCEPT ![conn] = Append(@, Request)]  BY <2>1, <2>3 DEF Sent, Request
  <2>5. toReceiver[conn] = <<>> /\ Append(<<>>, Request) = <<Request>>  BY <2>2, <2>3 DEF Nothing
  <2>6. toReceiver'[conn] = <<Request>> /\ \A d \in Conn \ {conn} : toReceiver'[d] = <<>>
    BY <1>k, <2>2, <2>3, <2>4, <2>5 DEF Nothing, Channels
  <2>7. Question'  BY <2>3, <2>6 DEF Question
  <2>8. ~ Answered("accepted")' /\ ~ Answered("rejected")'  BY <2>1, <2>2 DEF Answered
  <2> QED  BY <2>1, <2>2, <2>7, <2>8 DEF EnvelopeInv, EnvelopeAgrees
<1>7. ASSUME NEW c \in Conn, NEW status \in {"accepted", "rejected"}, HandleFolderResponse(c, status)
      PROVE  EnvelopeInv'
  <2>1. UNCHANGED <<toReceiver, prompt, answer>> /\ Hears(c, status, 0)  BY <1>7 DEF HandleFolderResponse, receiver
  <2>2. Answered(status) /\ Within(toSender', toSender, {})  BY <1>k, <2>1, Hearing DEF Answered
  <2>3. phase # "idle" /\ prompt = 0 /\ ~ Question  BY <2>2 DEF EnvelopeInv
  <2>4. \A other \in {"accepted", "rejected"} : Answered(other)' => Answered(other)
    BY <2>2, Questions DEF Answered, Within
  <2>5. \/ UNCHANGED <<envelope, phase>>
        \/ /\ envelope' \in {status, "complete"} /\ phase' \in {"queueing", "returned"}
           /\ phase' = "queueing" => envelope' = "accepted"
    BY <1>7 DEF HandleFolderResponse
  <2>6. ~ Question'  BY <2>1, <2>3 DEF Question
  <2>7. ~ OnWire(toReceiver', Request)  BY <2>1, <2>3 DEF EnvelopeInv
  <2>8. /\ Answered("accepted")' => answer' = "accepted"
        /\ Answered("rejected")' => answer' \in {"rejected", "none"}
    BY <2>1, <2>4 DEF EnvelopeInv
  <2>9. EnvelopeAgrees'  BY <2>1, <2>2, <2>5 DEF EnvelopeInv, EnvelopeAgrees
  <2>10. phase' # "idle" /\ (phase' \in {"queueing", "showing"} => envelope' = "accepted")
    BY <2>3, <2>5 DEF EnvelopeInv
  <2> QED  BY <2>1, <2>3, <2>6, <2>7, <2>8, <2>9, <2>10 DEF EnvelopeInv
<1>8. ASSUME NEW status \in {"accepted", "rejected"}, DecideFolder(status)  PROVE EnvelopeInv'
  <2>1. /\ prompt # 0 /\ prompt' = 0 /\ AnswerFolder(prompt, status)
        /\ UNCHANGED <<toReceiver, phase, envelope>>
    BY <1>8 DEF DecideFolder, thread
  <2>2. /\ Nothing /\ phase # "idle" /\ answer = "none" /\ envelope \notin {"accepted", "rejected"}
        /\ ~ Answered("accepted") /\ ~ Answered("rejected")
    BY <2>1 DEF EnvelopeInv
  <2>3. Nothing'  BY <2>1, <2>2 DEF Nothing
  <2> QED  BY <2>1, <2>2, <2>3, AnswerEnvelope
<1>9. ASSUME NEW c \in Conn, HandleFolderRequest(c)  PROVE EnvelopeInv'
  <2>1. /\ Takes(c, "folder_request", 0) /\ UNCHANGED <<phase, envelope>>
        /\ \/ \E status \in {"accepted", "rejected"} : AnswerFolder(c, status) /\ UNCHANGED prompt
           \/ prompt' = c /\ UNCHANGED <<answer, folder, toSender>>
    BY <1>9 DEF HandleFolderRequest, thread
  <2>2. OnWire(toReceiver, Request)  BY <1>k, <2>1, Receiving DEF Request
  <2>3. PICK d \in Conn : toReceiver[d] = <<Request>> /\ \A e \in Conn \ {d} : toReceiver[e] = <<>>
    BY <2>2 DEF EnvelopeInv, Question
  <2>4. c = d  BY <2>1, <2>3 DEF Takes
  <2>5. Tail(<<Request>>) = <<>>  OBVIOUS
  <2>6. Nothing'  BY <1>k, <2>1, <2>3, <2>4, <2>5, Receiving DEF Nothing
  <2>7. /\ phase # "idle" /\ prompt = 0 /\ answer = "none" /\ envelope \notin {"accepted", "rejected"}
        /\ ~ Answered("accepted") /\ ~ Answered("rejected")
    BY <2>2, Questions DEF EnvelopeInv
  <2>8. CASE \E status \in {"accepted", "rejected"} : AnswerFolder(c, status) /\ UNCHANGED prompt
    BY <2>1, <2>6, <2>7, <2>8, AnswerEnvelope
  <2>9. CASE prompt' = c /\ UNCHANGED <<answer, folder, toSender>>
    <3>1. \A m : ~ OnWire(toReceiver', m)  BY <2>6, Questions
    <3>2. ~ Answered("accepted")' /\ ~ Answered("rejected")'  BY <2>7, <2>9 DEF Answered
    <3> QED  BY <2>1, <2>6, <2>7, <2>9, <3>1, <3>2 DEF EnvelopeInv, EnvelopeAgrees
  <2> QED  BY <2>1, <2>8, <2>9
<1>10. CASE Lose
  <2>1. /\ UNCHANGED <<phase, prompt, answer, envelope>> /\ conn \in Conn
        /\ Within(toReceiver', toReceiver, {}) /\ Within(toSender', toSender, {})
    BY <1>10, LoseTypes DEF Lose, thread, receiver, Types, WireOK
  <2>2. PICK i \in 0..Len(toReceiver[conn]) : toReceiver' = [toReceiver EXCEPT ![conn] = SubSeq(@, 1, i)]
    BY <1>10 DEF Lose
  <2>3. toReceiver'[conn] = SubSeq(toReceiver[conn], 1, i) /\ \A d \in Conn \ {conn} : toReceiver'[d] = toReceiver[d]
    BY <1>k, <2>1, <2>2 DEF Channels
  <2>4. Nothing => Nothing'
    <3>1. ASSUME toReceiver[conn] = <<>>  PROVE SubSeq(toReceiver[conn], 1, i) = <<>>
      <4>1. i = 0  BY <2>2, <3>1
      <4> QED  BY <3>1, <4>1
    <3> QED  BY <2>1, <2>3, <3>1 DEF Nothing
  <2>5. Question => Question' \/ Nothing'
    <3> SUFFICES ASSUME NEW d \in Conn, toReceiver[d] = <<Request>>, \A e \in Conn \ {d} : toReceiver[e] = <<>>
                 PROVE  Question' \/ Nothing'
      BY DEF Question
    <3>1. CASE d = conn
      <4>1. i = 0 \/ i = 1  BY <2>2, <3>1
      <4>2. i = 0 => SubSeq(<<Request>>, 1, i) = <<>>  OBVIOUS
      <4>3. i = 1 => SubSeq(<<Request>>, 1, i) = <<Request>>
        <5>1. SubSeq(<<Request>>, 1, 1) \in Seq({Request}) /\ <<Request>> \in Seq({Request})  OBVIOUS
        <5>2. Len(SubSeq(<<Request>>, 1, 1)) = 1 /\ SubSeq(<<Request>>, 1, 1)[1] = Request  OBVIOUS
        <5>3. SubSeq(<<Request>>, 1, 1) = <<SubSeq(<<Request>>, 1, 1)[1]>>  BY <5>1, <5>2, Single
        <5> QED  BY <5>2, <5>3
      <4> QED  BY <2>3, <3>1, <4>1, <4>2, <4>3 DEF Question, Nothing
    <3>2. CASE d # conn
      <4>1. i = 0  BY <2>1, <2>2, <3>2
      <4>2. SubSeq(<<>>, 1, 0) = <<>>  OBVIOUS
      <4>3. toReceiver'[conn] = <<>>  BY <2>1, <2>3, <3>2, <4>1, <4>2
      <4>4. toReceiver'[d] = <<Request>> /\ \A e \in Conn \ {d} : toReceiver'[e] = <<>>  BY <2>3, <3>2, <4>3
      <4> QED  BY <4>4 DEF Question
    <3> QED  BY <3>1, <3>2
  <2>6. OnWire(toReceiver', Request) => OnWire(toReceiver, Request) /\ ~ Nothing'
    <3>1. Nothing' => ~ OnWire(toReceiver', Request)  BY Questions
    <3> QED  BY <2>1, <3>1, Questions DEF Within
  <2>7. Question' => Question
    <3>1. Question' => OnWire(toReceiver', Request)  BY Questions
    <3> QED  BY <2>6, <3>1 DEF EnvelopeInv
  <2>8. \A status \in {"accepted", "rejected"} : Answered(status)' => Answered(status)
    BY <2>1, Questions DEF Answered, Within
  <2> QED  BY <2>1, <2>4, <2>5, <2>6, <2>7, <2>8 DEF EnvelopeInv, EnvelopeAgrees
<1>11. CASE Restart
  <2>1. /\ UNCHANGED <<phase, answer, envelope>> /\ prompt' = 0 /\ Within(toSender', toSender, {})
        /\ toReceiver' = [c \in Conn |-> <<>>]
    BY <1>11, RestartTypes DEF Restart, thread
  <2>2. Nothing' /\ \A m : ~ OnWire(toReceiver', m)  BY <2>1, Silence DEF Nothing
  <2>3. ~ Question'
    <3>1. Question' => OnWire(toReceiver', Request)  BY Questions
    <3> QED  BY <2>2, <3>1
  <2>4. \A status \in {"accepted", "rejected"} : Answered(status)' => Answered(status)
    BY <2>1, Questions DEF Answered, Within
  <2> QED  BY <2>1, <2>2, <2>3, <2>4 DEF EnvelopeInv, EnvelopeAgrees
<1> QED  BY <1>1, <1>2, <1>3, <1>4, <1>5, <1>6, <1>7, <1>8, <1>9, <1>10, <1>11 DEF Next, Folder

-----------------------------------------------------------------------------
(* The reasons of a refusal.                                               *)

\* A reason that has been given stays one.
LEMMA RefusalKept ==
  ASSUME RefusalInv, limited \subseteq limited', forgot => forgot',
         \A f \in File : /\ row'[f] = "rejected" =>
                              row[f] = "rejected" \/ OnWire(toSender, Message("rejected", f))
                         /\ OnWire(toSender', Message("rejected", f)) =>
                              OnWire(toSender, Message("rejected", f)) \/ f \in limited' \/ forgot',
         ToSet(admitted') \subseteq recent',
         answer' = "accepted" => folder' # "none" \/ forgot'
  PROVE  RefusalInv'
BY DEF RefusalInv, RefusedForReason

LEMMA RefusalStep ==
  ASSUME Types, Types', QueueInv, EnvelopeInv, RefusalInv, [Next]_vars
  PROVE  RefusalInv'
<1>k. WireOK /\ LimiterOK /\ FlagsOK  BY DEF Types
<1>m. \A f \in File : Message("rejected", f) \in Wire /\ Message("rejected", f).file = f
  BY Messages, FileOf, Names DEF Message
<1>w. ASSUME NEW f \in File, SameWire(f)
      PROVE  OnWire(toSender', Message("rejected", f)) => OnWire(toSender, Message("rejected", f))
  BY <1>w, <1>m DEF SameWire
<1>l. UNCHANGED limiter => limited \subseteq limited' /\ ToSet(admitted') \subseteq recent'
  BY DEF limiter, RefusalInv
<1>a. UNCHANGED <<folder, answer, forgot>> => (forgot => forgot') /\ (answer' = "accepted" => folder' # "none" \/ forgot')
  BY DEF RefusalInv
<1>1. ASSUME NEW t \in Task, Run(t)  PROVE RefusalInv'
  <2>1. UNCHANGED <<toSender, limiter, folder, answer, forgot>>  BY <1>1, RunWire DEF receiver
  <2>2. row' = row \/ \E status \in {"pending", "canceled"} : row' = [row EXCEPT ![FileAt(t)] = status]
    BY <1>1 DEF Run, StartNext, AskFile, SendData, SendComplete, RunStops, RunGivesUp, CaptureOutcome,
                RequeuePending, RecordCanceled, FinishRun, Show, FileAt
  <2>3. \A f \in File : row'[f] = "rejected" => row[f] = "rejected"  BY <1>k, <2>2 DEF FlagsOK
  <2> QED  BY <1>a, <1>l, <2>1, <2>3, RefusalKept
<1>2. ASSUME NEW g \in File, User(g)  PROVE RefusalInv'
  <2>1. UNCHANGED <<toSender, limiter, folder, answer, forgot>>  BY <1>2, UserWire DEF receiver
  <2>2. row' = row \/ \E status \in {"pending", "canceled"} : row' = [row EXCEPT ![g] = status]
    BY <1>2 DEF User, CancelQueued, CancelRunning, CancelEnded, RetryTransfer, ShowClick, runs
  <2>3. \A f \in File : row'[f] = "rejected" => row[f] = "rejected"  BY <1>k, <2>2 DEF FlagsOK
  <2> QED  BY <1>a, <1>l, <2>1, <2>3, RefusalKept
<1>3. ASSUME NEW c \in Conn, NEW g \in File, Hear(c, g)  PROVE RefusalInv'
  <2>1. UNCHANGED <<limiter, folder, answer, forgot>>  BY <1>3, HearWire DEF receiver
  <2>2. \A f \in File : OnWire(toSender', Message("rejected", f)) => OnWire(toSender, Message("rejected", f))
    BY <1>3, <1>m, WireSteps
  <2>3. \A f \in File \ {g} : row'[f] = row[f]  BY <1>3, HearFrame DEF Same, SameRun
  <2>4. row'[g] = "rejected" => row[g] = "rejected" \/ OnWire(toSender, Message("rejected", g))
    <3>1. ASSUME NEW status \in {"rejected", "canceled"}, HandleRefused(c, g, status), row'[g] = "rejected"
          PROVE  row[g] = "rejected" \/ OnWire(toSender, Message("rejected", g))
      <4>1. OnWire(toSender, Message(status, g))  BY <1>k, <3>1, Hearing DEF HandleRefused
      <4>2. row' = row \/ row' = [row EXCEPT ![g] = status]  BY <3>1 DEF HandleRefused
      <4> QED  BY <1>k, <3>1, <4>1, <4>2 DEF FlagsOK
    <3>2. CASE ~ \E status \in {"rejected", "canceled"} : HandleRefused(c, g, status)
      <4>1. row' = row \/ \E status \in {"canceled", "complete", "failed", "accepted"} : row' = [row EXCEPT ![g] = status]
        BY <1>3, <3>2 DEF Hear, HandleAccepted, HandleVerdict, DropVerdict, HandleLateVerdict, HandleCancelReply, runs
      <4> QED  BY <1>k, <4>1 DEF FlagsOK
    <3> QED  BY <3>1, <3>2
  <2>5. \A f \in File : row'[f] = "rejected" => row[f] = "rejected" \/ OnWire(toSender, Message("rejected", f))
    BY <2>3, <2>4
  <2> QED  BY <1>a, <1>l, <2>1, <2>2, <2>5, RefusalKept
<1>4. ASSUME NEW c \in Conn, NEW g \in File, Peer(c, g)  PROVE RefusalInv'
  <2>1. UNCHANGED <<row, folder, answer, forgot>>
    BY <1>4 DEF Peer, HandleFileRequest, HandleFileComplete, HandleCancel, runs
  <2>2. \A f \in File \ {g} : OnWire(toSender', Message("rejected", f)) => OnWire(toSender, Message("rejected", f))
    BY <1>4, <1>m, WireSteps
  <2>f. g \in 0..FileCount  BY FileOf
  <2>w. ASSUME NEW d, NEW type \in MessageTypes, Reply(d, type, g), type # "rejected"
        PROVE  OnWire(toSender', Message("rejected", g)) => OnWire(toSender, Message("rejected", g))
    <3>1. Within(toSender', toSender, {Message(type, g)})  BY <1>k, <2>f, <2>w, ReplyTypes
    <3>2. Message(type, g) # Message("rejected", g)  BY <2>w DEF Message
    <3> QED  BY <1>m, <3>1, <3>2 DEF Within
  <2>3. CASE HandleFileRequest(c, g)
    <3>1. AllowFileRequest(g)  BY <2>3 DEF HandleFileRequest
    <3>2. limited \subseteq limited' /\ ToSet(admitted') \subseteq recent'
      <4>1. ToSet(Append(admitted, g)) = ToSet(admitted) \cup {g}  BY <1>k, Elements DEF LimiterOK
      <4> QED  BY <3>1, <4>1 DEF AllowFileRequest, RefusalInv
    <3>3. CASE Allowed(g) /\ Covers(g)
      <4>1. \E d : \E type \in {"accepted", "canceled"} : Reply(d, type, g)  BY <2>3, <3>3 DEF HandleFileRequest
      <4>2. OnWire(toSender', Message("rejected", g)) => OnWire(toSender, Message("rejected", g))
        BY <2>w, <4>1, Names
      <4> QED  BY <1>a, <2>1, <2>2, <3>2, <4>2, RefusalKept
    <3>4. CASE ~ Allowed(g)
      <4>1. g \in limited'  BY <3>1, <3>4 DEF AllowFileRequest, Allowed, RefusalInv
      <4> QED  BY <1>a, <2>1, <2>2, <3>2, <4>1, RefusalKept
    <3>5. CASE ~ Covers(g)
      <4>1. row[g] # "none"  BY <1>4, Known
      <4>2. answer = "accepted" /\ folder = "none"  BY <3>5, <4>1 DEF QueueInv, InOrder, Covers
      <4>3. forgot'  BY <2>1, <4>2 DEF RefusalInv
      <4> QED  BY <1>a, <2>1, <2>2, <3>2, <4>3, RefusalKept
    <3> QED  BY <3>3, <3>4, <3>5
  <2>4. CASE HandleFileComplete(c, g) \/ HandleCancel(c, g)
    <3>1. /\ UNCHANGED limiter
          /\ toSender' = toSender \/ \E d : \E type \in {"complete", "failed", "cancel"} : Reply(d, type, g)
      BY <2>4 DEF HandleFileComplete, HandleCancel
    <3>2. OnWire(toSender', Message("rejected", g)) => OnWire(toSender, Message("rejected", g))
      BY <2>w, <3>1, Names
    <3> QED  BY <1>a, <1>l, <2>1, <2>2, <3>1, <3>2, RefusalKept
  <2> QED  BY <1>4, <2>3, <2>4 DEF Peer
<1>5. CASE ClearCompleted \/ Lose \/ Reconnect \/ UNCHANGED vars \/ \E c \in Conn : ShowHeard(c)
  <2>1. UNCHANGED <<row, limiter, folder, answer, forgot>>
    BY <1>5 DEF ClearCompleted, Lose, Reconnect, vars, ShowHeard, runs, receiver
  <2>2. \A f \in File : SameWire(f)  BY <1>5, OtherWire
  <2> QED  BY <1>a, <1>l, <1>w, <2>1, <2>2, RefusalKept
<1>6. CASE WindowPasses
  <2>1. UNCHANGED <<row, limited, folder, answer, forgot>>  BY <1>6 DEF WindowPasses, runs, receiver
  <2>2. \A f \in File : SameWire(f)  BY <1>6, OtherWire
  <2>3. ToSet(admitted') \subseteq recent'
    <3>1. CASE admitted # <<>> /\ admitted' = Tail(admitted) /\ UNCHANGED recent
      <4>1. ToSet(Tail(admitted)) \subseteq ToSet(admitted)  BY <1>k, <3>1, Elements DEF LimiterOK
      <4> QED  BY <3>1, <4>1 DEF RefusalInv
    <3>2. CASE \E f \in recent \ ToSet(admitted) : recent' = recent \ {f} /\ UNCHANGED admitted
      BY <3>2 DEF RefusalInv
    <3> QED  BY <1>6, <3>1, <3>2 DEF WindowPasses
  <2> QED  BY <1>a, <1>w, <2>1, <2>2, <2>3, RefusalKept
<1>7. CASE Restart
  <2>1. UNCHANGED <<row, limited, answer>> /\ admitted' = <<>> /\ recent' = {}  BY <1>7 DEF Restart, runs
  <2>2. \A f \in File : SameWire(f)  BY <1>7, OtherWire
  <2>3. (forgot => forgot') /\ (answer' = "accepted" => folder' # "none" \/ forgot')
    <3> DEFINE restored == \E f \in File : inbound[f] = "accepted"
    <3>1. /\ folder' = IF restored THEN "empty" ELSE "none"
          /\ forgot' = (forgot \/ (folder # "none" /\ ~ restored))
      BY <1>7 DEF Restart
    <3> HIDE DEF restored
    <3>2. forgot \in BOOLEAN  BY <1>k DEF LimiterOK
    <3> QED  BY <2>1, <3>1, <3>2 DEF RefusalInv
  <2>4. ToSet(admitted') \subseteq recent'  BY <2>1, NoElements
  <2> QED  BY <1>w, <2>1, <2>2, <2>3, <2>4, RefusalKept
<1>8. CASE Folder
  <2>1. UNCHANGED <<limiter, forgot>>
    BY <1>8 DEF Folder, SendFolder, FolderTimesOut, DecideFolder, HandleFolderResponse, HandleFolderRequest, QueueFile,
                QueueFails, ShowQueued
  <2>2. \A f \in File : row'[f] = "rejected" => row[f] = "rejected"
    <3>1. row' = row \/ row' = [row EXCEPT ![next] = "pending"]
      BY <1>8 DEF Folder, SendFolder, FolderTimesOut, DecideFolder, HandleFolderResponse, HandleFolderRequest, QueueFile,
                  QueueFails, ShowQueued, runs
    <3> QED  BY <1>k, <3>1 DEF FlagsOK
  <2>3. answer' = "accepted" => folder' # "none" \/ forgot'
    <3>1. \/ UNCHANGED <<answer, folder>>
          \/ \E c : \E status \in {"accepted", "rejected"} : AnswerFolder(c, status)
      BY <1>8 DEF Folder, SendFolder, FolderTimesOut, DecideFolder, HandleFolderResponse, HandleFolderRequest, QueueFile,
                  QueueFails, ShowQueued, receiver
    <3> QED  BY <2>1, <3>1 DEF AnswerFolder, RefusalInv
  <2>4. \A f \in File : SameWire(f)  BY <1>8, OtherWire
  <2> QED  BY <1>l, <1>w, <2>1, <2>2, <2>3, <2>4, RefusalKept
<1> QED  BY <1>1, <1>2, <1>3, <1>4, <1>5, <1>6, <1>7, <1>8 DEF Next

-----------------------------------------------------------------------------
(* The goroutines of a file.                                               *)

\* A step about one file.
LEMMA FlowKept ==
  ASSUME FlowInv, NEW g, \A f \in File \ {g} : Same(f), g \in File \ crossed' => FlowOK(g)'
  PROVE  FlowInv'
<1> SUFFICES ASSUME NEW f \in File \ crossed', f # g  PROVE FlowOK(f)'
  BY DEF FlowInv
<1>1. SameRun(f) /\ f \notin crossed  BY DEF Same, SameCard
<1> QED  BY <1>1, Framed DEF FlowInv

\* The goroutine of the file moves.
LEMMA FlowMoves ==
  ASSUME NEW f \in File, FlowOK(f), NEW t \in Task, Of(t, f), \A u \in Task \ {t} : task'[u] = task[u],
         task'[t] # None, task'[t].file = f, InStage(t, f) => InStage(t, f)'
  PROVE  FlowOK(f)'
<1>1. \A u \in Task : Of(u, f) => u = t  BY DEF FlowOK, OneTask
<1>2. \A u \in Task : Of(u, f)' => u = t  BY <1>1 DEF Of
<1>3. Of(t, f)'  BY DEF Of
<1> QED  BY <1>2, <1>3 DEF FlowOK, OneTask

\* No goroutine moves.
LEMMA FlowStays ==
  ASSUME NEW f \in File, FlowOK(f), UNCHANGED task,
         \A t \in Task : Of(t, f) /\ InStage(t, f) => InStage(t, f)', Waits(f) => Waits(f)'
  PROVE  FlowOK(f)'
<1>1. \A t \in Task : Of(t, f)' <=> Of(t, f)  BY DEF Of
<1> QED  BY <1>1 DEF FlowOK, OneTask

\* There is no goroutine.
LEMMA FlowWaits ==
  ASSUME NEW f \in File, \A t \in Task : ~ Of(t, f)', Waits(f)'
  PROVE  FlowOK(f)'
BY DEF FlowOK, OneTask

\* A file is busy when a goroutine is at work on it.
LEMMA BusyOf ==
  ASSUME TaskOK, NEW f
  PROVE  Busy(f) <=> \E t \in Task : Of(t, f)
BY TaskOf DEF Busy, At, Of

LEMMA FlowRun ==
  ASSUME Types, FlowInv, NEW t \in Task, Run(t)
  PROVE  FlowInv'
<1>k. TaskOK /\ LineOK /\ FlagsOK  BY DEF Types
<1>0. PICK f \in File : f = FileAt(t) /\ f # 0 /\ \A g \in File \ {f} : Same(g)  BY RunFrame, FileOf
<1>e. /\ task[t] # None => f = task[t].file
      /\ task[t] = None => f = Head(queue)
  BY <1>0 DEF FileAt
<1>s. SUFFICES ASSUME f \notin crossed'  PROVE FlowOK(f)'
  BY <1>0, FlowKept
<1>c. f \notin crossed
  <2>1. crossed \subseteq crossed'
    BY DEF Run, StartNext, AskFile, SendData, SendComplete, RunStops, RunGivesUp, CaptureOutcome, RequeuePending,
           RecordCanceled, FinishRun, Show
  <2> QED  BY <1>s, <2>1
<1>f. FlowOK(f)  BY <1>0, <1>c DEF FlowInv
<1>o. task[t] # None => Of(t, f)  BY <1>e DEF Of
<1>i. task[t] # None => InStage(t, f)  BY <1>f, <1>o DEF FlowOK
<1>m. ASSUME task[t] # None, NEW stage \in Stage \ Telling, Goto(t, stage), InStage(t, f) => InStage(t, f)'
      PROVE  FlowOK(f)'
  <2>1. /\ task'[t] # None /\ task'[t].file = f /\ \A u \in Task \ {t} : task'[u] = task[u]
    BY <1>k, <1>e, <1>m, GotoTypes
  <2> QED  BY <1>0, <1>f, <1>o, <1>m, <2>1, FlowMoves
<1>n. ASSUME task[t] # None, NEW stage \in Stage \ Telling, Goto(t, stage)
      PROVE  task'[t].at = stage
  BY <1>k, <1>n, GotoTypes
<1>d. {"asked", "over", "sending", "sent", "record", "finish", "requeue"} \subseteq Stage \ Telling
  BY DEF Stage, Telling
<1>1. CASE StartNext(t)
  <2>1. /\ task[t] = None /\ queue # <<>> /\ slot = 0 /\ queue' = Tail(queue) /\ f = Head(queue)
        /\ UNCHANGED <<row, done, rejected, canceled, sent>>
        /\ IF Ended(f)
           THEN UNCHANGED <<slot, running, task>>
           ELSE /\ slot' = f /\ running' = running \cup {f}
                /\ task' = IF f \in running THEN task
                           ELSE [task EXCEPT ![t] = [file |-> f, at |-> "begun", via |-> conn, tells |-> None]]
    BY <1>1, <1>e DEF StartNext
  <2>2. ToSet(queue') = ToSet(queue) \ {f}  BY <1>k, <1>0, <2>1, Queueing
  <2>3. Ended(f)' <=> Ended(f)  BY <2>1 DEF Ended
  <2>4. CASE Ended(f)
    <3>1. \A u \in Task : Of(u, f) /\ InStage(u, f) => InStage(u, f)'  BY <2>1, <2>3, <2>4 DEF InStage
    <3>2. Waits(f) => Waits(f)'  BY <2>1, <2>3, <2>4 DEF Waits, Active, Terminal
    <3> QED  BY <1>0, <1>f, <2>1, <2>4, <3>1, <3>2, FlowStays
  <2>5. CASE ~ Ended(f)
    <3>1. \A u \in Task : ~ Of(u, f)  BY <1>0, <1>f, <2>1, <2>5 DEF FlowOK, InStage
    <3>2. Waits(f)  BY <1>f, <3>1 DEF FlowOK
    <3>3. task' = [task EXCEPT ![t] = [file |-> f, at |-> "begun", via |-> conn, tells |-> None]]
      BY <2>1, <2>5, <3>2 DEF Waits
    <3>4. PICK w \in Work : w = [file |-> f, at |-> "begun", via |-> conn, tells |-> None]
      BY <1>0 DEF Work, Stage, Types, WireOK
    <3>5. /\ task'[t] = w /\ task'[t].file = f /\ task'[t].at = "begun"
          /\ \A u \in Task \ {t} : task'[u] = task[u]
      <4>1. w.at = "begun" /\ w.file = f /\ task' = [task EXCEPT ![t] = w]  BY <3>3, <3>4
      <4> QED  BY <1>k, <4>1, TaskStarts
    <3>6. OneTask(f)'  BY <3>1, <3>5 DEF OneTask, Of
    <3>7. InStage(t, f)'  BY <2>1, <2>3, <2>5, <3>5 DEF InStage, Ended
    <3>8. \A u \in Task : Of(u, f)' => u = t  BY <3>1, <3>5 DEF Of
    <3>9. Of(t, f)'
      <4>1. task'[t] # None  BY <3>5, FolderAssumption
      <4> QED  BY <3>5, <4>1 DEF Of
    <3> QED  BY <3>6, <3>7, <3>8, <3>9 DEF FlowOK
  <2> QED  BY <2>4, <2>5
<1>2. CASE AskFile(t)
  <2>1. PICK stage \in {"asked", "over"} : Goto(t, stage)  BY <1>2 DEF AskFile
  <2>2. /\ task[t] # None /\ task[t].at = "begun" /\ UNCHANGED <<row, queue, slot, running, done, rejected, canceled>>
    BY <1>2 DEF AskFile, line, flags
  <2>3. task'[t].at = stage  BY <1>d, <1>n, <2>1, <2>2
  <2>4. Ended(f)' <=> Ended(f)  BY <2>2 DEF Ended
  <2>5. InStage(t, f) => InStage(t, f)'  BY <2>2, <2>3, <2>4 DEF InStage, Registered
  <2> QED  BY <1>d, <1>m, <2>1, <2>2, <2>5
<1>3. CASE SendData(t)
  <2>1. /\ task[t] # None /\ task[t].at = "sending" /\ UNCHANGED <<row, queue, slot, running, done, rejected, canceled>>
        /\ Tell(t, "progress", Entry("accepted", 1), row[f])
    BY <1>3, <1>e DEF SendData, line
  <2>2. row[f] \in Statuses  BY <1>i, <2>1 DEF InStage, Statuses
  <2>3. Entry("accepted", 1) \in Card /\ "progress" \in Stage  BY Names, Entries DEF Stage
  <2>4. /\ task'[t] # None /\ task'[t].file = f /\ task'[t].at = "progress" /\ \A u \in Task \ {t} : task'[u] = task[u]
    BY <1>k, <1>e, <2>1, <2>2, <2>3, TellTypes
  <2>5. Ended(f)' <=> Ended(f)  BY <2>1 DEF Ended
  <2>6. InStage(t, f) => InStage(t, f)'  BY <2>1, <2>4, <2>5 DEF InStage, Registered
  <2> QED  BY <1>0, <1>f, <1>o, <2>1, <2>4, <2>6, FlowMoves
<1>4. CASE SendComplete(t)
  <2>1. PICK stage \in {"sent", "over"} : Goto(t, stage)  BY <1>4 DEF SendComplete
  <2>2. /\ task[t] # None /\ task[t].at = "sending" /\ UNCHANGED <<row, queue, slot, running, done, rejected, canceled>>
    BY <1>4 DEF SendComplete, line, flags
  <2>3. task'[t].at = stage  BY <1>d, <1>n, <2>1, <2>2
  <2>4. Ended(f)' <=> Ended(f)  BY <2>2 DEF Ended
  <2>5. InStage(t, f) => InStage(t, f)'  BY <2>2, <2>3, <2>4 DEF InStage, Registered
  <2> QED  BY <1>d, <1>m, <2>1, <2>2, <2>5
<1>5. CASE RunStops(t) \/ RunGivesUp(t)
  <2>1. /\ task[t] # None /\ task[t].at \in {"asked", "sending", "sent"} /\ Goto(t, "over")
        /\ UNCHANGED <<row, queue, slot, running, done, rejected, canceled>>
    BY <1>5 DEF RunStops, RunGivesUp, line, flags
  <2>3. task'[t].at = "over"  BY <1>d, <1>n, <2>1
  <2>4. Ended(f)' <=> Ended(f)  BY <2>1 DEF Ended
  <2>5. InStage(t, f) => InStage(t, f)'  BY <2>1, <2>3, <2>4 DEF InStage, Registered
  <2> QED  BY <1>d, <1>m, <2>1, <2>5
<1>7. CASE CaptureOutcome(t)
  <2>1. /\ task[t] # None /\ task[t].at = "over" /\ running' = running \ {f}
        /\ Goto(t, IF f \in canceled THEN "record" ELSE IF Ended(f) THEN "finish" ELSE "requeue")
        /\ UNCHANGED <<row, queue, slot, done, rejected, canceled>>
    BY <1>7, <1>e DEF CaptureOutcome, line
  <2>2. PICK stage \in {"record", "finish", "requeue"} :
          stage = IF f \in canceled THEN "record" ELSE IF Ended(f) THEN "finish" ELSE "requeue"
    OBVIOUS
  <2>3. Goto(t, stage) /\ task'[t].at = stage  BY <1>d, <1>n, <2>1, <2>2
  <2>4. Ended(f)' <=> Ended(f)  BY <2>1 DEF Ended
  <2>5. InStage(t, f) => InStage(t, f)'  BY <2>1, <2>2, <2>3, <2>4 DEF InStage, Registered, Ended
  <2> QED  BY <1>d, <1>m, <2>1, <2>3, <2>5
<1>8. CASE RequeuePending(t)
  <2>1. /\ task[t] # None /\ task[t].at = "requeue" /\ Goto(t, "finish")
        /\ row' = [row EXCEPT ![f] = "pending"] /\ queue' = Enqueue(f, TRUE)
        /\ crossed' = IF Ended(f) THEN crossed \cup {f} ELSE crossed
        /\ UNCHANGED <<slot, running, done, rejected, canceled>>
    BY <1>8, <1>e DEF RequeuePending, flags
  <2>2. ~ Ended(f) /\ ~ Ended(f)'  BY <1>s, <2>1 DEF Ended
  <2>3. f \in ToSet(queue')  BY <1>k, <1>0, <2>1, Queueing
  <2>4. task'[t].at = "finish"  BY <1>d, <1>n, <2>1
  <2>5. InStage(t, f) => InStage(t, f)'  BY <2>1, <2>2, <2>3, <2>4 DEF InStage, Registered
  <2> QED  BY <1>d, <1>m, <2>1, <2>5
<1>9. CASE RecordCanceled(t)
  <2>1. /\ task[t] # None /\ task[t].at = "record" /\ UNCHANGED <<queue, slot, running, done, rejected, canceled>>
        /\ Tell(t, "recorded", Entry("canceled", Bytes(f)), "canceled") /\ row' = [row EXCEPT ![f] = "canceled"]
    BY <1>9, <1>e DEF RecordCanceled, line, flags
  <2>2. Entry("canceled", Bytes(f)) \in Card /\ "recorded" \in Stage /\ "canceled" \in Statuses /\ "canceled" \in Terminal
    BY Names, Entries DEF Stage, Bytes
  <2>3. HandleFileProgress(Entry("canceled", Bytes(f)), "canceled").status = "canceled"  BY <2>2, Progress
  <2>4. /\ task'[t] # None /\ task'[t].file = f /\ task'[t].at = "recorded" /\ task'[t].tells.status = "canceled"
        /\ \A u \in Task \ {t} : task'[u] = task[u]
    BY <1>k, <1>e, <2>1, <2>2, <2>3, TellTypes
  <2>5. Ended(f)' <=> Ended(f)  BY <2>1 DEF Ended
  <2>6. row'[f] = "canceled"  BY <1>k, <1>0, <2>1 DEF FlagsOK
  <2>7. InStage(t, f) => InStage(t, f)'  BY <2>1, <2>2, <2>4, <2>5, <2>6 DEF InStage, Registered
  <2> QED  BY <1>0, <1>f, <1>o, <2>1, <2>4, <2>7, FlowMoves
<1>10. CASE FinishRun(t)
  <2>1. /\ task[t] # None /\ task[t].at = "finish" /\ task' = [task EXCEPT ![t] = None]
        /\ UNCHANGED <<row, queue, running, done, rejected, canceled>>
    BY <1>10 DEF FinishRun, flags
  <2>2. task'[t] = None /\ \A u \in Task \ {t} : task'[u] = task[u]  BY <1>k, <2>1 DEF TaskOK
  <2>3. \A u \in Task : Of(u, f) => u = t  BY <1>f, <1>o, <2>1 DEF FlowOK, OneTask
  <2>4. \A u \in Task : ~ Of(u, f)'  BY <2>2, <2>3 DEF Of
  <2>5. Ended(f)' <=> Ended(f)  BY <2>1 DEF Ended
  <2>6. InStage(t, f)  BY <1>i, <2>1
  <2>7. Waits(f)'  BY <2>1, <2>5, <2>6 DEF InStage, Waits, Registered, Active, Terminal
  <2> QED  BY <1>0, <2>4, <2>7, FlowWaits
<1>11. CASE Show(t)
  <2>1. /\ task[t] # None /\ task[t].at \in {"progress", "told", "recorded"} /\ Goto(t, Then(task[t].at))
        /\ UNCHANGED <<row, queue, slot, running, done, rejected, canceled>>
    BY <1>11 DEF Show, line, flags
  <2>2. PICK stage \in {"sending", "over", "finish"} :
          /\ stage = Then(task[t].at)
          /\ task[t].at = "progress" => stage = "sending"
          /\ task[t].at = "told" => stage = "over"
          /\ task[t].at = "recorded" => stage = "finish"
    BY <2>1 DEF Then
  <2>3. Goto(t, stage) /\ task'[t].at = stage  BY <1>d, <1>n, <2>1, <2>2
  <2>4. Ended(f)' <=> Ended(f)  BY <2>1 DEF Ended
  <2>5. InStage(t, f) => InStage(t, f)'  BY <2>1, <2>2, <2>3, <2>4 DEF InStage, Registered, Ended
  <2> QED  BY <1>d, <1>m, <2>1, <2>3, <2>5
<1> QED  BY <1>1, <1>2, <1>3, <1>4, <1>5, <1>7, <1>8, <1>9, <1>10, <1>11 DEF Run

LEMMA FlowHear ==
  ASSUME Types, FlowInv, NEW c \in Conn, NEW f \in File, Hear(c, f)
  PROVE  FlowInv'
<1>k. TaskOK /\ FlagsOK  BY DEF Types
<1>0. \A g \in File \ {f} : Same(g)  BY HearFrame
<1>s. SUFFICES ASSUME f \notin crossed'  PROVE FlowOK(f)'
  BY <1>0, FlowKept
<1>c. f \notin crossed
  <2>1. crossed \subseteq crossed'
    BY DEF Hear, HandleAccepted, HandleRefused, HandleVerdict, DropVerdict, HandleLateVerdict, HandleCancelReply
  <2> QED  BY <1>s, <2>1
<1>f. FlowOK(f)  BY <1>c DEF FlowInv
<1>n. {"rejected", "canceled", "complete", "failed"} \subseteq Statuses
      /\ {"rejected", "canceled", "complete", "failed"} \subseteq Terminal
  BY Names
<1>o. \A t \in Task : \A stages : At(t, f, stages) <=> Of(t, f) /\ task[t].at \in stages  BY DEF At, Of
<1>t. ASSUME NEW t \in Task, Of(t, f), NEW status \in {"rejected", "canceled", "complete", "failed"}, NEW bytes \in {0, 1},
             Tell(t, "told", Entry(status, bytes), status), InStage(t, f), row' = [row EXCEPT ![f] = status],
             running' \subseteq running, f \in done' \cup rejected', UNCHANGED queue
      PROVE  FlowOK(f)'
  <2>1. Entry(status, bytes) \in Card /\ "told" \in Stage  BY <1>n, Entries DEF Stage
  <2>2. /\ task'[t] # None /\ task'[t].file = f /\ task'[t].at = "told"
        /\ task'[t].tells = HandleFileProgress(Entry(status, bytes), status) /\ \A u \in Task \ {t} : task'[u] = task[u]
    BY <1>k, <1>n, <1>t, <2>1, TellTypes DEF Of
  <2>3. task'[t].tells.status = status
    <3>1. PICK entry \in Card : entry = Entry(status, bytes)  BY <2>1
    <3>2. status \in Statuses /\ status \in Terminal  BY <1>n
    <3>3. HandleFileProgress(entry, status).status = status  BY <3>2, Progress
    <3> QED  BY <2>2, <3>1, <3>3
  <2>4. row'[f] = status /\ Ended(f)'  BY <1>k, <1>t DEF FlagsOK, Ended
  <2>5. InStage(t, f)'  BY <1>n, <1>t, <2>2, <2>3, <2>4 DEF InStage, Registered
  <2> QED  BY <1>f, <1>t, <2>2, <2>5, FlowMoves
<1>u. ASSUME UNCHANGED <<row, queue, slot, running, done, rejected, canceled, task>>  PROVE FlowOK(f)'
  <2>1. Ended(f)' <=> Ended(f)  BY <1>u DEF Ended
  <2>2. \A t \in Task : Of(t, f) /\ InStage(t, f) => InStage(t, f)'  BY <1>u, <2>1 DEF InStage
  <2>3. Waits(f) => Waits(f)'  BY <1>u, <2>1 DEF Waits
  <2> QED  BY <1>f, <1>u, <2>2, <2>3, FlowStays
<1>1. CASE HandleAccepted(c, f)
  <2>1. UNCHANGED <<queue, slot, running, done, rejected, canceled>>  BY <1>1 DEF HandleAccepted, line, flags
  <2>2. ASSUME NEW t \in Task, At(t, f, {"asked"}), Goto(t, "sending"), row' = [row EXCEPT ![f] = "accepted"]
        PROVE  FlowOK(f)'
    <3>1. Of(t, f) /\ task[t].at = "asked" /\ task[t] # None  BY <1>o, <2>2 DEF Of
    <3>2. "sending" \in Stage \ Telling  BY DEF Stage, Telling
    <3>3. /\ task'[t] # None /\ task'[t].file = f /\ task'[t].at = "sending" /\ \A u \in Task \ {t} : task'[u] = task[u]
      BY <1>k, <2>2, <3>1, <3>2, GotoTypes DEF Of
    <3>4. row'[f] \in Active  BY <1>k, <2>2 DEF FlagsOK, Active
    <3>5. Ended(f)' <=> Ended(f)  BY <2>1 DEF Ended
    <3>6. InStage(t, f) => InStage(t, f)'  BY <2>1, <3>1, <3>3, <3>4, <3>5 DEF InStage, Registered
    <3> QED  BY <1>f, <3>1, <3>3, <3>6, FlowMoves
  <2>3. CASE UNCHANGED <<row, task>>  BY <1>u, <2>1, <2>3
  <2> QED  BY <1>1, <2>2, <2>3 DEF HandleAccepted
<1>2. ASSUME NEW status \in {"rejected", "canceled"}, HandleRefused(c, f, status)  PROVE FlowOK(f)'
  <2>1. UNCHANGED <<queue, slot, running, done>>  BY <1>2 DEF HandleRefused, line
  <2>2. CASE UNCHANGED <<row, task, rejected, canceled>>  BY <1>u, <2>1, <2>2
  <2>3. ASSUME NEW t \in Task, At(t, f, {"asked", "sending"}), Tell(t, "told", Entry(status, 0), status),
               row' = [row EXCEPT ![f] = status], rejected' = rejected \cup {f}
        PROVE  FlowOK(f)'
    <3>1. Of(t, f) /\ InStage(t, f)  BY <1>f, <1>o, <2>3 DEF FlowOK
    <3> QED  BY <1>t, <2>1, <2>3, <3>1
  <2> QED  BY <1>2, <2>2, <2>3 DEF HandleRefused
<1>3. ASSUME NEW type, NEW status \in {"complete", "failed", "canceled"}, HandleVerdict(c, f, type, status)
      PROVE  FlowOK(f)'
  <2>1. /\ row' = [row EXCEPT ![f] = status] /\ running' \subseteq running /\ done' = done \cup {f} /\ UNCHANGED queue
    BY <1>3 DEF HandleVerdict, line
  <2>2. PICK t \in Task : At(t, f, {"sent"}) /\ Tell(t, "told", Entry(status, 1), status)  BY <1>3 DEF HandleVerdict
  <2>3. Of(t, f) /\ InStage(t, f)  BY <1>f, <1>o, <2>2 DEF FlowOK
  <2> QED  BY <1>t, <2>1, <2>2, <2>3
<1>4. ASSUME NEW type, DropVerdict(c, f, type)  PROVE FlowOK(f)'
  BY <1>4, <1>u DEF DropVerdict, runs, line, flags
<1>5. ASSUME NEW status, HandleLateVerdict(c, f, status)  PROVE FlowOK(f)'
  <2>1. UNCHANGED <<queue, slot, task, rejected, canceled>> /\ ~ Listening(f)  BY <1>5 DEF HandleLateVerdict, line
  <2>2. CASE UNCHANGED <<row, done, running>>  BY <1>u, <2>1, <2>2
  <2>3. CASE /\ row' = [row EXCEPT ![f] = "complete"] /\ done' = done \cup {f} /\ running' = running \ {f}
             /\ crossed' = IF \E t \in Task : At(t, f, {"begun"}) THEN crossed \cup {f} ELSE crossed
    <3>1. row'[f] \in Terminal /\ Ended(f)' /\ f \notin running'  BY <1>k, <2>3 DEF FlagsOK, Ended, Terminal
    <3>2. ASSUME NEW t \in Task, Of(t, f), InStage(t, f)  PROVE InStage(t, f)'
      <4>1. task[t].at \notin Registered  BY <1>o, <2>1, <3>2 DEF Listening
      <4>2. task[t].at # "begun"  BY <1>o, <1>s, <2>3, <3>2
      <4> QED  BY <2>1, <2>3, <3>1, <3>2, <4>1, <4>2 DEF InStage, Registered
    <3>3. Waits(f)'  BY <3>1 DEF Waits, Active, Terminal
    <3> QED  BY <1>f, <2>1, <3>2, <3>3, FlowStays
  <2> QED  BY <1>5, <2>2, <2>3 DEF HandleLateVerdict
<1>6. CASE HandleCancelReply(c, f)
  <2>1. /\ UNCHANGED <<queue, slot, running, done, rejected, canceled, task>> /\ ~ Listening(f)
        /\ row' = [row EXCEPT ![f] = "canceled"]
    BY <1>6 DEF HandleCancelReply, line, flags
  <2>2. row'[f] \in Terminal  BY <1>k, <2>1 DEF FlagsOK, Terminal
  <2>3. Ended(f)' <=> Ended(f)  BY <2>1 DEF Ended
  <2>4. ASSUME NEW t \in Task, Of(t, f), InStage(t, f)  PROVE InStage(t, f)'
    <3>1. task[t].at \notin Registered  BY <1>o, <2>1, <2>4 DEF Listening
    <3> QED  BY <2>1, <2>2, <2>3, <2>4, <3>1 DEF InStage, Registered
  <2>5. Waits(f) => Waits(f)'  BY <2>1, <2>2 DEF Waits, Active, Terminal
  <2> QED  BY <1>f, <2>1, <2>4, <2>5, FlowStays
<1> QED  BY <1>1, <1>2, <1>3, <1>4, <1>5, <1>6 DEF Hear

LEMMA FlowUser ==
  ASSUME Types, FlowInv, NEW f \in File, User(f)
  PROVE  FlowInv'
<1>k. TaskOK /\ FlagsOK /\ LineOK  BY DEF Types
<1>0. \A g \in File \ {f} : Same(g)  BY UserFrame
<1>s. SUFFICES ASSUME f \notin crossed'  PROVE FlowOK(f)'
  BY <1>0, FlowKept
<1>c. f \notin crossed
  <2>1. crossed \subseteq crossed'  BY DEF User, CancelQueued, CancelRunning, CancelEnded, RetryTransfer, ShowClick
  <2> QED  BY <1>s, <2>1
<1>f. FlowOK(f)  BY <1>c DEF FlowInv
<1>q. ToSet(Dequeue(f)) = ToSet(queue) \ {f} /\ ToSet(Enqueue(f, FALSE)) = ToSet(queue) \cup {f}
  BY <1>k, Queueing
<1>1. CASE CancelQueued(f)
  <2>1. /\ f \notin running /\ ~ Ended(f) /\ row' = [row EXCEPT ![f] = "canceled"]
        /\ done' = done \cup {f} /\ canceled' = canceled \cup {f} /\ UNCHANGED <<running, rejected, task>>
    BY <1>1 DEF CancelQueued
  <2>2. row'[f] = "canceled" /\ Ended(f)'  BY <1>k, <2>1 DEF FlagsOK, Ended
  <2>3. \A t \in Task : Of(t, f) /\ InStage(t, f) => InStage(t, f)'
    BY <2>1, <2>2 DEF InStage, Registered, Terminal, Ended
  <2>4. Waits(f)'  BY <2>1, <2>2 DEF Waits, Active, Terminal
  <2> QED  BY <1>f, <2>1, <2>3, <2>4, FlowStays
<1>2. CASE CancelRunning(f)
  <2>1. /\ f \in running /\ ~ Ended(f) /\ canceled' = canceled \cup {f} /\ UNCHANGED <<row, running, done, rejected, task>>
    BY <1>2 DEF CancelRunning
  <2>2. Ended(f)'  BY <2>1 DEF Ended
  <2>3. \A t \in Task : Of(t, f) /\ InStage(t, f) => InStage(t, f)'
    BY <2>1, <2>2 DEF InStage, Registered
  <2>4. ~ Waits(f)  BY <2>1 DEF Waits
  <2> QED  BY <1>f, <2>1, <2>3, <2>4, FlowStays
<1>3. CASE CancelEnded(f) \/ ShowClick(f)
  <2>1. UNCHANGED <<runs, crossed>>  BY <1>3 DEF CancelEnded, ShowClick
  <2> QED  BY <1>f, <2>1, Quiet, Framed
<1>4. CASE RetryTransfer(f)
  <2>1. /\ f \notin running /\ row' = [row EXCEPT ![f] = "pending"] /\ queue' = Enqueue(f, FALSE)
        /\ done' = done \ {f} /\ rejected' = rejected \ {f} /\ canceled' = canceled \ {f}
        /\ crossed' = (IF Busy(f) THEN crossed \cup {f} ELSE crossed) /\ UNCHANGED <<running, task>>
    BY <1>4 DEF RetryTransfer
  <2>2. ~ Busy(f)  BY <1>s, <2>1
  <2>3. \A t \in Task : ~ Of(t, f)'  BY <1>k, <2>1, <2>2, BusyOf DEF Of
  <2>4. Waits(f)'  BY <1>q, <2>1 DEF Waits, Ended
  <2> QED  BY <2>3, <2>4, FlowWaits
<1> QED  BY <1>1, <1>2, <1>3, <1>4 DEF User

LEMMA FlowStep ==
  ASSUME Types, QueueInv, FlowInv, [Next]_vars
  PROVE  FlowInv'
<1>k. TaskOK /\ FlagsOK /\ LineOK  BY DEF Types
<1>1. ASSUME NEW t \in Task, Run(t)  PROVE FlowInv'  BY <1>1, FlowRun
<1>2. ASSUME NEW c \in Conn, NEW f \in File, Hear(c, f)  PROVE FlowInv'  BY <1>2, FlowHear
<1>3. ASSUME NEW f \in File, User(f)  PROVE FlowInv'  BY <1>3, FlowUser
<1>4. CASE QueueFile
  <2>0. next \in File /\ \A g \in File \ {next} : Same(g)  BY <1>4, DropFrame
  <2>p. PICK f \in File : f = next  BY <2>0
  <2>1. /\ phase = "queueing" /\ row' = [row EXCEPT ![f] = "pending"] /\ queue' = Enqueue(f, FALSE)
        /\ UNCHANGED <<task, running, done, rejected, canceled, crossed>>
    BY <1>4, <2>p DEF QueueFile, flags
  <2>2. row[f] = "none"
    <3>1. f >= next  BY <2>p, FileOf
    <3> QED  BY <2>1, <3>1 DEF QueueInv, InOrder
  <2>3. ~ Busy(f) /\ ~ Ended(f)  BY <2>2 DEF QueueInv, Unqueued
  <2>4. f \in ToSet(queue')  BY <1>k, <2>1, Queueing
  <2>5. ASSUME f \notin crossed'  PROVE FlowOK(f)'
    <3>1. FlowOK(f)  BY <2>1, <2>5 DEF FlowInv
    <3>2. \A t \in Task : ~ Of(t, f)  BY <1>k, <2>3, BusyOf
    <3>3. f \notin running  BY <3>1, <3>2 DEF FlowOK, Waits
    <3>4. Waits(f)'  BY <2>1, <2>3, <2>4, <3>3 DEF Waits, Ended
    <3>5. \A t \in Task : ~ Of(t, f)'  BY <2>1, <3>2 DEF Of
    <3> QED  BY <3>4, <3>5, FlowWaits
  <2> QED  BY <2>0, <2>p, <2>5, FlowKept
<1>5. CASE /\ ~ \E t \in Task : Run(t)
           /\ ~ \E c \in Conn, f \in File : Hear(c, f)
           /\ ~ \E f \in File : User(f)
           /\ ~ QueueFile
  <2>1. UNCHANGED <<runs, crossed>>
    BY <1>5 DEF Next, Folder, Peer, SendFolder, FolderTimesOut, DecideFolder, HandleFolderResponse, HandleFolderRequest,
                QueueFails, ShowQueued, ClearCompleted, ShowHeard, HandleFileRequest, HandleFileComplete, HandleCancel,
                WindowPasses, Lose, Reconnect, Restart, vars
  <2>2. \A f \in File : FlowOK(f) => FlowOK(f)'  BY <2>1, Quiet, Framed
  <2> QED  BY <2>1, <2>2 DEF FlowInv
<1> QED  BY <1>1, <1>2, <1>3, <1>4, <1>5

-----------------------------------------------------------------------------
(* The cards.                                                              *)

\* Who changes what is still to be told.
LEMMA NewsFrame ==
  /\ \A t \in Task : Run(t) => UNCHANGED <<heard, click, late>>
  /\ \A c \in Conn, f \in File : Hear(c, f) => UNCHANGED <<card, click, late>>
  /\ \A f \in File : User(f) => UNCHANGED heard
  /\ \A c \in Conn : ShowHeard(c) => UNCHANGED <<runs, click, late, crossed>>
  /\ ShowQueued => UNCHANGED <<runs, heard, click, crossed>>
  /\ QueueFile => UNCHANGED <<task, cards, crossed>>
  /\ ClearCompleted => UNCHANGED <<runs, heard, click, late, crossed>>
  /\ \/ SendFolder \/ FolderTimesOut \/ QueueFails
     \/ \E status \in {"accepted", "rejected"} :
          DecideFolder(status) \/ \E c \in Conn : HandleFolderResponse(c, status)
     \/ \E c \in Conn : HandleFolderRequest(c)
     \/ \E c \in Conn, f \in File : Peer(c, f)
     \/ WindowPasses \/ Lose \/ Reconnect \/ Restart \/ UNCHANGED vars
     => UNCHANGED <<runs, cards, crossed>>
<1>1. \A t \in Task : Run(t) => UNCHANGED <<heard, click, late>>
  BY DEF Run, StartNext, AskFile, SendData, SendComplete, RunStops, RunGivesUp, CaptureOutcome, RequeuePending,
         RecordCanceled, FinishRun, Show, cards
<1>2. \A c \in Conn, f \in File : Hear(c, f) => UNCHANGED <<card, click, late>>
  BY DEF Hear, HandleAccepted, HandleRefused, HandleVerdict, DropVerdict, HandleLateVerdict, HandleCancelReply, cards
<1>3. \A f \in File : User(f) => UNCHANGED heard
  BY DEF User, CancelQueued, CancelRunning, CancelEnded, RetryTransfer, ShowClick
<1>4. /\ \A c \in Conn : ShowHeard(c) => UNCHANGED <<runs, click, late, crossed>>
      /\ ShowQueued => UNCHANGED <<runs, heard, click, crossed>>
      /\ QueueFile => UNCHANGED <<task, cards, crossed>>
      /\ ClearCompleted => UNCHANGED <<runs, heard, click, late, crossed>>
  BY DEF ShowHeard, ShowQueued, QueueFile, ClearCompleted
<1>5. \A c \in Conn, f \in File : Peer(c, f) => UNCHANGED <<runs, cards, crossed>>
  BY DEF Peer, HandleFileRequest, HandleFileComplete, HandleCancel
<1>6. \/ SendFolder \/ FolderTimesOut \/ QueueFails
      \/ \E status \in {"accepted", "rejected"} :
           DecideFolder(status) \/ \E c \in Conn : HandleFolderResponse(c, status)
      \/ \E c \in Conn : HandleFolderRequest(c)
      \/ WindowPasses \/ Lose \/ Reconnect \/ Restart \/ UNCHANGED vars
      => UNCHANGED <<runs, cards, crossed>>
  BY DEF SendFolder, FolderTimesOut, QueueFails, DecideFolder, HandleFolderResponse, HandleFolderRequest,
         WindowPasses, Lose, Reconnect, Restart, vars
<1> QED  BY <1>1, <1>2, <1>3, <1>4, <1>5, <1>6

\* What is still to be told.
LEMMA NewsStep ==
  ASSUME Types, CardInv, [Next]_vars
  PROVE  /\ \A c \in Conn : heard'[c] # None => heard'[c].entry.status \in Terminal
         /\ \A f \in File : \A entry \in ToSet(click'[f]) : entry.status # "accepted"
<1>k. CardsOK  BY DEF Types
<1>p. ASSUME NEW status \in Terminal, NEW bytes \in {0, 1}
      PROVE  /\ HandleFileProgress(Entry(status, bytes), status).status = status
             /\ Entry(status, bytes).status = status
  <2>1. PICK entry \in Card : entry = Entry(status, bytes)  BY Entries, Names
  <2>2. status \in Statuses /\ status \in Terminal  BY Names
  <2>3. HandleFileProgress(entry, status).status = status  BY <2>2, Progress
  <2> QED  BY <2>1, <2>2, <2>3, Entries
<1>t. {"complete", "canceled"} \subseteq Terminal  BY DEF Terminal
<1>1. \A c \in Conn : heard'[c] # None => heard'[c].entry.status \in Terminal
  <2>1. ASSUME NEW c \in Conn, NEW f, NEW status \in Terminal, NEW bytes \in {0, 1},
               heard' = [heard EXCEPT ![c] =
                           [file |-> f, entry |-> HandleFileProgress(Entry(status, bytes), status)]]
        PROVE  \A d \in Conn : heard'[d] # None => heard'[d].entry.status \in Terminal
    <3>1. heard'[c].entry = HandleFileProgress(Entry(status, bytes), status)
          /\ \A d \in Conn \ {c} : heard'[d] = heard[d]
      BY <1>k, <2>1 DEF CardsOK
    <3>2. heard'[c].entry.status = status  BY <1>p, <3>1
    <3> QED  BY <3>1, <3>2 DEF CardInv
  <2>2. ASSUME NEW c \in Conn, heard' = [heard EXCEPT ![c] = None]
        PROVE  \A d \in Conn : heard'[d] # None => heard'[d].entry.status \in Terminal
    BY <1>k, <2>2 DEF CardsOK, CardInv
  <2>3. \/ heard' = heard
        \/ \E c \in Conn : heard' = [heard EXCEPT ![c] = None]
        \/ \E c \in Conn, f \in File, status \in {"complete", "canceled"}, bytes \in {0, 1} :
             heard' = [heard EXCEPT ![c] =
                         [file |-> f, entry |-> HandleFileProgress(Entry(status, bytes), status)]]
    <3>1. CASE \E c \in Conn : ShowHeard(c)  BY <3>1 DEF ShowHeard
    <3>2. ASSUME NEW c \in Conn, NEW f \in File, NEW status, HandleLateVerdict(c, f, status)
          PROVE  heard' = heard \/ heard' = [heard EXCEPT ![c] =
                   [file |-> f, entry |-> HandleFileProgress(Entry("complete", 1), "complete")]]
      BY <3>2 DEF HandleLateVerdict
    <3>3. ASSUME NEW c \in Conn, NEW f \in File, HandleCancelReply(c, f)
          PROVE  heard' = [heard EXCEPT ![c] =
                   [file |-> f, entry |-> HandleFileProgress(Entry("canceled", 0), "canceled")]]
      BY <3>3 DEF HandleCancelReply
    <3>4. CASE /\ ~ \E c \in Conn : ShowHeard(c)
               /\ ~ \E c \in Conn, f \in File : HandleCancelReply(c, f)
               /\ ~ \E c \in Conn, f \in File, status \in {"complete", "failed"} : HandleLateVerdict(c, f, status)
      <4>1. ASSUME NEW c \in Conn, NEW f \in File, Hear(c, f)  PROVE heard' = heard
        BY <3>4, <4>1 DEF Hear, HandleAccepted, HandleRefused, HandleVerdict, DropVerdict, cards
      <4>2. ASSUME NEW f \in File, User(f)  PROVE heard' = heard  BY <4>2, NewsFrame
      <4>3. ASSUME NEW t \in Task, Run(t)  PROVE heard' = heard  BY <4>3, NewsFrame
      <4> QED  BY <3>4, <4>1, <4>2, <4>3, NewsFrame DEF Next, Folder, cards
    <3> QED  BY <3>1, <3>2, <3>3, <3>4
  <2> QED  BY <1>t, <2>1, <2>2, <2>3 DEF CardInv
<1>2. \A f \in File : \A entry \in ToSet(click'[f]) : entry.status # "accepted"
  <2>e. /\ \A a : ToSet(<<a>>) = {a}
        /\ \A a, b : ToSet(<<a, b>>) = {a, b}
    BY DEF ToSet
  <2>1. ASSUME NEW f \in File, User(f)
        PROVE  \A entry \in ToSet(click'[f]) : entry.status # "accepted"
    <3>1. CASE CancelQueued(f)
      <4>1. click'[f] = <<HandleFileProgress(Entry("canceled", Bytes(f)), "canceled"), Entry("canceled", 0)>>
        BY <1>k, <3>1 DEF CardsOK, CancelQueued
      <4>2. Bytes(f) \in {0, 1}  BY DEF Bytes
      <4> QED  BY <1>p, <1>t, <2>e, <4>1, <4>2
    <3>2. CASE CancelRunning(f) \/ CancelEnded(f)
      <4>1. click'[f] = <<Entry("canceled", 0)>>  BY <1>k, <3>2 DEF CardsOK, CancelRunning, CancelEnded
      <4> QED  BY <1>p, <1>t, <2>e, <4>1
    <3>3. CASE RetryTransfer(f)
      <4>1. click'[f] = <<Entry("pending", 0)>>  BY <1>k, <3>3 DEF CardsOK, RetryTransfer
      <4>2. Entry("pending", 0).status = "pending"  BY Entries, Names
      <4> QED  BY <2>e, <4>1, <4>2
    <3>4. CASE ShowClick(f)
      <4>1. click[f] \in Seq(Card) /\ click[f] # <<>> /\ click'[f] = Tail(click[f])
        BY <1>k, <3>4 DEF CardsOK, ShowClick
      <4>2. ToSet(Tail(click[f])) \subseteq ToSet(click[f])  BY <4>1, Elements
      <4> QED  BY <4>1, <4>2 DEF CardInv
    <3> QED  BY <2>1, <3>1, <3>2, <3>3, <3>4 DEF User
  <2>2. ASSUME NEW f \in File, User(f)  PROVE \A g \in File \ {f} : click'[g] = click[g]
    BY <2>2, UserFrame DEF Same, SameCard
  <2>3. CASE ~ \E f \in File : User(f)
    <3>1. click' = click
      BY <2>3, NewsFrame DEF Next, Folder, cards
    <3> QED  BY <3>1 DEF CardInv
  <2> QED  BY <2>1, <2>2, <2>3 DEF CardInv
<1> QED  BY <1>1, <1>2

\* Nothing that is told is taken back, and nothing about an end changes.
LEMMA CardStays ==
  ASSUME NEW f \in File, CardOK(f), row'[f] = row[f] \/ row'[f] \notin Terminal, card'[f] \in {card[f], None},
         click'[f] = click[f],
         \A c \in Conn : heard[c] # None /\ heard[c].file = f => heard'[c] = heard[c],
         \A t \in Task : At(t, f, {"told", "recorded"}) => task'[t] = task[t]
  PROVE  CardOK(f)'
<1>1. Due(f) => Due(f)'
  <2>1. \A t \in Task : At(t, f, {"told", "recorded"}) => At(t, f, {"told", "recorded"})'  BY DEF At
  <2> QED  BY <2>1 DEF Due
<1> QED  BY <1>1 DEF CardOK

\* A card that has been told.
LEMMA CardTold ==
  ASSUME Types, NEW f \in File, NEW entry \in Card, card' = [card EXCEPT ![f] = UpsertFileTransfer(@, entry)],
         entry.status \in Terminal \/ row'[f] \notin Terminal
  PROVE  CardOK(f)'
<1>1. card[f] \in Card \cup {None} /\ card'[f] = UpsertFileTransfer(card[f], entry)  BY DEF Types, CardsOK
<1>2. card'[f].status = entry.status  BY <1>1, Upserts
<1>3. \A s \in Active : s \notin Terminal  BY DEF Active, Terminal
<1> QED  BY <1>2, <1>3 DEF CardOK

\* A step about one file.
LEMMA CardsKept ==
  ASSUME CardInv, NEW g, \A f \in File \ {g} : Same(f), g \in File \ (late' \cup crossed') => CardOK(g)'
  PROVE  \A f \in File \ (late' \cup crossed') : CardOK(f)'
<1> SUFFICES ASSUME NEW f \in File \ (late' \cup crossed'), f # g  PROVE CardOK(f)'
  OBVIOUS
<1>1. SameRun(f) /\ SameCard(f) /\ f \notin late \cup crossed  BY DEF Same, SameCard
<1> QED  BY <1>1, Framed DEF CardInv

\* The card of the file of a goroutine ...
LEMMA CardRun ==
  ASSUME Types, FlowInv, CardInv, NEW t \in Task, Run(t)
  PROVE  \A f \in File \ (late' \cup crossed') : CardOK(f)'
<1>0. FileAt(t) \in File /\ \A f \in File \ {FileAt(t)} : Same(f)  BY RunFrame
<1>p. PICK f \in File : f = FileAt(t)  BY <1>0
<1>f. task[t] # None => task[t].file = f  BY <1>p DEF FileAt
<1>k. TaskOK /\ CardsOK  BY DEF Types
<1>n. UNCHANGED <<heard, click, late>>  BY NewsFrame
<1> SUFFICES ASSUME f \notin late' \cup crossed'  PROVE CardOK(f)'
  BY <1>0, <1>p, CardsKept
<1>c. crossed \subseteq crossed'
  BY DEF Run, StartNext, AskFile, SendData, SendComplete, RunStops, RunGivesUp, CaptureOutcome, RequeuePending,
         RecordCanceled, FinishRun, Show
<1>o. CardOK(f) /\ FlowOK(f)  BY <1>c, <1>n DEF CardInv, FlowInv
<1>1. ASSUME UNCHANGED card, row'[f] = row[f] \/ row'[f] \notin Terminal, \A u \in Task \ {t} : task'[u] = task[u],
             task[t] # None => task[t].at \notin {"told", "recorded"}
      PROVE  CardOK(f)'
  <2>1. \A u \in Task : At(u, f, {"told", "recorded"}) => task'[u] = task[u]  BY <1>1 DEF At
  <2> QED  BY <1>1, <1>n, <1>o, <2>1, CardStays
<1>2. ASSUME NEW stage \in Stage \ Telling, Goto(t, stage), task[t] # None
      PROVE  \A u \in Task \ {t} : task'[u] = task[u]
  BY <1>k, <1>2, GotoTypes
<1>g. {"asked", "sending", "sent", "over", "record", "finish", "requeue"} \subseteq Stage \ Telling
  BY DEF Stage, Telling
<1>3. CASE StartNext(t)
  <2>1. UNCHANGED <<card, row>> /\ task[t] = None /\ \A u \in Task \ {t} : task'[u] = task[u]
    BY <1>k, <1>3 DEF StartNext, cards, TaskOK
  <2> QED  BY <1>1, <2>1
<1>4. CASE AskFile(t) \/ SendComplete(t) \/ RunStops(t) \/ RunGivesUp(t) \/ CaptureOutcome(t)
  <2>1. UNCHANGED <<card, row>> /\ task[t] # None /\ task[t].at \notin {"told", "recorded"}
    BY <1>4 DEF AskFile, SendComplete, RunStops, RunGivesUp, CaptureOutcome, cards
  <2>2. \E stage \in Stage \ Telling : Goto(t, stage)
    BY <1>4, <1>g DEF AskFile, SendComplete, RunStops, RunGivesUp, CaptureOutcome
  <2> QED  BY <1>1, <1>2, <2>1, <2>2
<1>5. CASE FinishRun(t)
  <2>1. /\ UNCHANGED <<card, row>> /\ task[t] # None /\ task[t].at \notin {"told", "recorded"}
        /\ \A u \in Task \ {t} : task'[u] = task[u]
    BY <1>k, <1>5 DEF FinishRun, cards, TaskOK
  <2> QED  BY <1>1, <2>1
<1>6. CASE SendData(t)
  <2>1. /\ UNCHANGED <<card, row>> /\ task[t] # None /\ task[t].at \notin {"told", "recorded"}
        /\ \A u \in Task \ {t} : task'[u] = task[u]
    BY <1>k, <1>6 DEF SendData, Tell, cards, TaskOK
  <2> QED  BY <1>1, <2>1
<1>7. CASE RequeuePending(t)
  <2>1. /\ UNCHANGED card /\ task[t] # None /\ task[t].at \notin {"told", "recorded"} /\ Goto(t, "finish")
        /\ row'[f] = "pending"
    BY <1>f, <1>7 DEF RequeuePending, cards, Types, FlagsOK
  <2>2. row'[f] \notin Terminal  BY <2>1, Names
  <2> QED  BY <1>1, <1>2, <1>g, <2>1, <2>2
<1>8. CASE RecordCanceled(t)
  <2>1. task[t] # None /\ Tell(t, "recorded", Entry("canceled", Bytes(f)), "canceled")
    BY <1>f, <1>8 DEF RecordCanceled
  <2>2. Entry("canceled", Bytes(f)) \in Card /\ "canceled" \in Statuses /\ "recorded" \in Stage
    BY Entries, Names DEF Bytes, Stage
  <2>3. PICK event \in Card : event = Entry("canceled", Bytes(f))  BY <2>2
  <2>4. task'[t] # None /\ task'[t].file = f /\ task'[t].at = "recorded"
    BY <1>f, <1>k, <2>1, <2>2, <2>3, TellTypes
  <2> QED  BY <2>4 DEF CardOK, Due, At
<1>9. CASE Show(t)
  <2>1. /\ task[t] # None /\ task[t].at \in Telling /\ UNCHANGED row
        /\ card' = [card EXCEPT ![f] = UpsertFileTransfer(@, task[t].tells)]
    BY <1>f, <1>9 DEF Show, Telling
  <2>2. PICK entry \in Card : entry = task[t].tells  BY <1>k, <2>1, TaskOf
  <2>3. InStage(t, f)  BY <1>f, <1>o, <2>1 DEF FlowOK, Of
  <2>4. entry.status \in Terminal \/ row'[f] \notin Terminal
    BY <2>1, <2>2, <2>3, Names DEF InStage, Telling
  <2> QED  BY <2>1, <2>2, <2>4, CardTold
<1> QED  BY <1>3, <1>4, <1>5, <1>6, <1>7, <1>8, <1>9 DEF Run

\* ... of that of a message to a connection loop ...
LEMMA CardHear ==
  ASSUME Types, CardInv, NEW c \in Conn, NEW f \in File, Hear(c, f)
  PROVE  \A g \in File \ (late' \cup crossed') : CardOK(g)'
<1>0. \A g \in File \ {f} : Same(g)  BY HearFrame
<1>k. TaskOK /\ CardsOK /\ FlagsOK  BY DEF Types
<1>n. UNCHANGED <<card, click, late>>  BY NewsFrame
<1> SUFFICES ASSUME f \notin late' \cup crossed'  PROVE CardOK(f)'
  BY <1>0, CardsKept
<1>c. crossed \subseteq crossed'
  BY DEF Hear, HandleAccepted, HandleRefused, HandleVerdict, DropVerdict, HandleLateVerdict, HandleCancelReply
<1>o. CardOK(f)  BY <1>c, <1>n DEF CardInv
<1>1. ASSUME UNCHANGED <<row, task, heard>>  PROVE CardOK(f)'  BY <1>1, <1>n, <1>o, CardStays
<1>2. ASSUME NEW t \in Task, task[t] # None, task[t].file = f, NEW status \in Statuses, NEW bytes \in {0, 1},
             Tell(t, "told", Entry(status, bytes), status)
      PROVE  CardOK(f)'
  <2>1. PICK event \in Card : event = Entry(status, bytes)  BY Entries
  <2>2. task'[t] # None /\ task'[t].file = f /\ task'[t].at = "told"
    <3>1. "told" \in Stage  BY DEF Stage
    <3> QED  BY <1>k, <1>2, <2>1, <3>1, TellTypes
  <2> QED  BY <2>2 DEF CardOK, Due, At
<1>3. ASSUME NEW entry \in Card, heard' = [heard EXCEPT ![c] = [file |-> f, entry |-> entry]]
      PROVE  CardOK(f)'
  <2>1. PICK news \in News : news = [file |-> f, entry |-> entry] /\ news # None  BY Hearings
  <2>2. heard'[c] = news /\ news.file = f  BY <1>k, <1>3, <2>1 DEF CardsOK
  <2> QED  BY <2>1, <2>2 DEF CardOK, Due
<1>4. CASE HandleAccepted(c, f)
  <2>1. CASE UNCHANGED <<row, task>>  BY <1>1, <1>4, <2>1 DEF HandleAccepted, cards
  <2>2. ASSUME NEW t \in Task, At(t, f, {"asked"}), Goto(t, "sending"), row' = [row EXCEPT ![f] = "accepted"]
        PROVE  CardOK(f)'
    <3>1. row'[f] = "accepted"  BY <1>k, <2>2 DEF FlagsOK
    <3>2. row'[f] \notin Terminal  BY <3>1, Names
    <3> QED  BY <3>2 DEF CardOK
  <2> QED  BY <1>4, <2>1, <2>2 DEF HandleAccepted
<1>5. ASSUME NEW status \in {"rejected", "canceled"}, HandleRefused(c, f, status)  PROVE CardOK(f)'
  <2>1. CASE UNCHANGED <<row, task>>  BY <1>1, <1>5, <2>1 DEF HandleRefused, cards
  <2>2. ASSUME NEW t \in Task, At(t, f, {"asked", "sending"}), Tell(t, "told", Entry(status, 0), status)
        PROVE  CardOK(f)'
    BY <1>2, <2>2, Names DEF At
  <2> QED  BY <1>5, <2>1, <2>2 DEF HandleRefused
<1>6. ASSUME NEW type, NEW status \in {"complete", "failed", "canceled"}, HandleVerdict(c, f, type, status)
      PROVE  CardOK(f)'
  <2>1. PICK t \in Task : At(t, f, {"sent"}) /\ Tell(t, "told", Entry(status, 1), status)
    BY <1>6 DEF HandleVerdict
  <2> QED  BY <1>2, <2>1, Names DEF At
<1>7. ASSUME NEW type, DropVerdict(c, f, type)  PROVE CardOK(f)'
  BY <1>1, <1>7 DEF DropVerdict, runs, cards
<1>8. ASSUME NEW status, HandleLateVerdict(c, f, status)  PROVE CardOK(f)'
  <2>1. CASE UNCHANGED <<row, heard>>  BY <1>1, <1>8, <2>1 DEF HandleLateVerdict
  <2>2. CASE heard' = [heard EXCEPT ![c] =
                         [file |-> f, entry |-> HandleFileProgress(Entry("complete", 1), "complete")]]
    <3>1. PICK event \in Card : event = Entry("complete", 1)  BY Entries, Names
    <3>2. HandleFileProgress(event, "complete") \in Card  BY Progress, Names
    <3> QED  BY <1>3, <2>2, <3>1, <3>2
  <2> QED  BY <1>8, <2>1, <2>2 DEF HandleLateVerdict
<1>9. CASE HandleCancelReply(c, f)
  <2>1. PICK event \in Card : event = Entry("canceled", 0)  BY Entries, Names
  <2>2. HandleFileProgress(event, "canceled") \in Card  BY Progress, Names
  <2> QED  BY <1>3, <1>9, <2>1, <2>2 DEF HandleCancelReply
<1> QED  BY <1>4, <1>5, <1>6, <1>7, <1>8, <1>9 DEF Hear

\* ... of that of a click ...
LEMMA CardUser ==
  ASSUME Types, CardInv, NEW f \in File, User(f)
  PROVE  \A g \in File \ (late' \cup crossed') : CardOK(g)'
<1>0. \A g \in File \ {f} : Same(g)  BY UserFrame
<1>k. CardsOK /\ FlagsOK  BY DEF Types
<1> SUFFICES ASSUME f \notin late' \cup crossed'  PROVE CardOK(f)'
  BY <1>0, CardsKept
<1>p. /\ Entry("canceled", 0).status = "canceled"
      /\ HandleFileProgress(Entry("canceled", Bytes(f)), "canceled").status = "canceled"
  <2>1. Entry("canceled", 0).status = "canceled"  BY Entries, Names
  <2>2. PICK event \in Card : event = Entry("canceled", Bytes(f))  BY Entries, Names DEF Bytes
  <2>3. HandleFileProgress(event, "canceled").status = "canceled"  BY Progress, Names
  <2> QED  BY <2>1, <2>2, <2>3
<1>1. CASE CancelQueued(f)
  <2>1. click'[f] = <<HandleFileProgress(Entry("canceled", Bytes(f)), "canceled"), Entry("canceled", 0)>>
    BY <1>k, <1>1 DEF CardsOK, CancelQueued
  <2>2. \A a, b : <<a, b>> # <<>> /\ Head(<<a, b>>) = a  OBVIOUS
  <2>3. click'[f] # <<>> /\ Head(click'[f]).status = "canceled"  BY <1>p, <2>1, <2>2
  <2> QED  BY <2>3, Names DEF CardOK, Due
<1>2. CASE CancelRunning(f) \/ CancelEnded(f)
  <2>1. click'[f] = <<Entry("canceled", 0)>>  BY <1>k, <1>2 DEF CardsOK, CancelRunning, CancelEnded
  <2>2. \A a : <<a>> # <<>> /\ Head(<<a>>) = a  OBVIOUS
  <2>3. click'[f] # <<>> /\ Head(click'[f]).status = "canceled"  BY <1>p, <2>1, <2>2
  <2> QED  BY <2>3, Names DEF CardOK, Due
<1>3. CASE RetryTransfer(f)
  <2>1. row'[f] = "pending"  BY <1>k, <1>3 DEF FlagsOK, RetryTransfer
  <2>2. row'[f] \notin Terminal  BY <2>1, Names
  <2> QED  BY <2>2 DEF CardOK
<1>4. CASE ShowClick(f)
  <2>1. /\ click[f] \in Seq(Card) /\ click[f] # <<>> /\ row' = row
        /\ card' = [card EXCEPT ![f] = UpsertFileTransfer(@, Head(click[f]))]
    BY <1>k, <1>4 DEF CardsOK, ShowClick, runs
  <2>2. PICK entry \in Card : entry = Head(click[f]) /\ entry \in ToSet(click[f])  BY <2>1, Elements
  <2>3. entry.status \in Statuses /\ entry.status # "accepted"  BY <2>2 DEF CardInv, Card, Statuses
  <2>4. entry.status \in Terminal \/ row[f] \notin Terminal
    <3>1. ASSUME entry.status = "pending"  PROVE row[f] \notin Terminal
      BY <1>4, <2>2, <3>1 DEF ShowClick, CallPending
    <3> QED  BY <2>3, <3>1, Names
  <2> QED  BY <2>1, <2>2, <2>4, CardTold
<1> QED  BY <1>1, <1>2, <1>3, <1>4 DEF User

\* ... and those of the drop, the connection loops and the user's clearing.
LEMMA CardsStep ==
  ASSUME Types, FlowInv, CardInv, [Next]_vars
  PROVE  CardInv'
<1>k. CardsOK /\ FlagsOK  BY DEF Types
<1> SUFFICES \A f \in File \ (late' \cup crossed') : CardOK(f)'
  BY NewsStep DEF CardInv
<1>1. ASSUME NEW t \in Task, Run(t)  PROVE \A f \in File \ (late' \cup crossed') : CardOK(f)'
  BY <1>1, CardRun
<1>2. ASSUME NEW c \in Conn, NEW f \in File, Hear(c, f)
      PROVE  \A g \in File \ (late' \cup crossed') : CardOK(g)'
  BY <1>2, CardHear
<1>3. ASSUME NEW f \in File, User(f)  PROVE \A g \in File \ (late' \cup crossed') : CardOK(g)'
  BY <1>3, CardUser
<1>4. ASSUME NEW c \in Conn, ShowHeard(c)  PROVE \A f \in File \ (late' \cup crossed') : CardOK(f)'
  <2>0. heard[c].file \in File /\ \A f \in File \ {heard[c].file} : Same(f)  BY <1>4, HeardFrame
  <2>p. PICK f \in File : f = heard[c].file  BY <2>0
  <2>1. /\ heard[c] # None /\ UNCHANGED row
        /\ card' = [card EXCEPT ![f] = UpsertFileTransfer(@, heard[c].entry)]
    BY <1>4, <2>p DEF ShowHeard, runs
  <2>2. PICK entry \in Card : entry = heard[c].entry  BY <1>k, <2>1 DEF CardsOK, News
  <2>3. entry.status \in Terminal  BY <2>1, <2>2 DEF CardInv
  <2>4. CardOK(f)'  BY <2>1, <2>2, <2>3, CardTold
  <2> QED  BY <2>0, <2>p, <2>4, CardsKept
<1>5. CASE ShowQueued
  <2>0. next \in File /\ \A f \in File \ {next} : Same(f)  BY <1>5, DropFrame
  <2>p. PICK f \in File : f = next  BY <2>0
  <2>1. /\ UNCHANGED row /\ card' = [card EXCEPT ![f] = UpsertFileTransfer(@, Entry("pending", 0))]
        /\ f \notin late' => row[f] \notin Terminal
    BY <1>5, <2>p DEF ShowQueued, CallPending, runs
  <2>2. PICK entry \in Card : entry = Entry("pending", 0)  BY Entries, Names
  <2>3. f \notin late' => CardOK(f)'  BY <2>1, <2>2, CardTold
  <2> QED  BY <2>0, <2>p, <2>3, CardsKept
<1>6. CASE QueueFile
  <2>0. next \in File /\ \A f \in File \ {next} : Same(f)  BY <1>6, DropFrame
  <2>p. PICK f \in File : f = next  BY <2>0
  <2>1. row'[f] = "pending"  BY <1>k, <1>6, <2>p DEF QueueFile, FlagsOK
  <2>2. row'[f] \notin Terminal  BY <2>1, Names
  <2>3. CardOK(f)'  BY <2>2 DEF CardOK
  <2> QED  BY <2>0, <2>p, <2>3, CardsKept
<1>7. CASE ClearCompleted
  <2> SUFFICES ASSUME NEW f \in File \ (late' \cup crossed')  PROVE CardOK(f)'
    OBVIOUS
  <2>1. UNCHANGED <<row, task, heard, click, late, crossed>> /\ card'[f] \in {card[f], None}
    BY <1>7 DEF ClearCompleted, runs
  <2>2. CardOK(f)  BY <2>1 DEF CardInv
  <2> QED  BY <2>1, <2>2, CardStays
<1>8. CASE /\ ~ \E t \in Task : Run(t)
           /\ ~ \E c \in Conn, f \in File : Hear(c, f)
           /\ ~ \E f \in File : User(f)
           /\ ~ \E c \in Conn : ShowHeard(c)
           /\ ~ ShowQueued /\ ~ QueueFile /\ ~ ClearCompleted
  <2>1. UNCHANGED <<runs, cards, crossed>>  BY <1>8, NewsFrame DEF Next, Folder
  <2> SUFFICES ASSUME NEW f \in File \ (late' \cup crossed')  PROVE CardOK(f)'
    OBVIOUS
  <2>2. CardOK(f) /\ SameRun(f) /\ SameCard(f)  BY <2>1, Quiet DEF CardInv, cards
  <2> QED  BY <2>2, Framed
<1> QED  BY <1>1, <1>2, <1>3, <1>4, <1>5, <1>6, <1>7, <1>8

-----------------------------------------------------------------------------
(* The theorems.                                                           *)

\* Nothing has happened at first.
LEMMA InitInv == Init => Inv
<1> SUFFICES ASSUME Init PROVE Inv  OBVIOUS
<1>1. Types  BY InitTypes
<1>2. /\ \A c \in Conn : toReceiver[c] = <<>> /\ heard[c] = None
      /\ \A m : ~ OnWire(toReceiver, m) /\ ~ OnWire(toSender, m)
  <2>1. toReceiver = [c \in Conn |-> <<>>] /\ toSender = [c \in Conn |-> <<>>]  BY DEF Init
  <2>2. \A m : ~ OnWire(toReceiver, m) /\ ~ OnWire(toSender, m)  BY <2>1, Silence
  <2> QED  BY <2>1, <2>2 DEF Init
<1>3. \A f \in File : row[f] = "none" /\ card[f] = None /\ click[f] = <<>>  BY DEF Init
<1>4. \A t \in Task : task[t] = None  BY DEF Init
<1>5. /\ ToSet(queue) = {} /\ ToSet(admitted) = {}
      /\ running = {} /\ done = {} /\ rejected = {} /\ canceled = {} /\ sent = {} /\ recent = {}
      /\ phase = "idle" /\ prompt = 0 /\ answer = "none" /\ envelope = "none"
  BY NoElements DEF Init
<1>6. \A f \in File : ~ Busy(f) /\ ~ Ended(f)  BY <1>4, <1>5 DEF Busy, At, Ended
<1>7. QueueInv  BY <1>2, <1>3, <1>5, <1>6 DEF QueueInv, Unqueued, InOrder
<1>8. EnvelopeInv
  <2>1. Nothing  BY <1>2 DEF Nothing
  <2> QED  BY <1>2, <1>5, <2>1 DEF EnvelopeInv, Answered, EnvelopeAgrees
<1>9. RefusalInv  BY <1>2, <1>3, <1>5 DEF RefusalInv, RefusedForReason
<1>10. FlowInv
  <2>1. ASSUME NEW f \in File  PROVE FlowOK(f)
    <3>1. Waits(f)  BY <1>3, <1>5, <1>6, Names DEF Waits
    <3>2. \A t \in Task : ~ Of(t, f)  BY <1>4 DEF Of
    <3> QED  BY <3>1, <3>2 DEF FlowOK, OneTask
  <2> QED  BY <2>1 DEF FlowInv
<1>11. CardInv  BY <1>2, <1>3, NoElements DEF CardInv, CardOK
<1> QED  BY <1>1, <1>7, <1>8, <1>9, <1>10, <1>11 DEF Inv

\* Every step keeps it.
LEMMA StepInv == Inv /\ [Next]_vars => Inv'
<1> SUFFICES ASSUME Inv, [Next]_vars PROVE Inv'  OBVIOUS
<1> USE DEF Inv
<1>1. Types'  BY TypesStep
<1>2. QueueInv'  BY <1>1, QueueStep
<1>3. EnvelopeInv'  BY <1>1, EnvelopeStep
<1>4. RefusalInv'  BY <1>1, RefusalStep
<1>5. FlowInv'  BY FlowStep
<1>6. CardInv'  BY CardsStep
<1> QED  BY <1>1, <1>2, <1>3, <1>4, <1>5, <1>6

\* The inductive invariant holds of every state.
THEOREM Invariant == Spec => []Inv
BY InitInv, StepInv, PTL DEF Spec

\* Every variable stays in its domain, and a file is in the queue of the peer at
\* most once, whichever of the drop, an interrupted run and a retry queues it
\* (enqueueOutboundTransfer, beginOutboundFileTransfer, RetryTransfer).
THEOREM TypeCorrect == Spec => []TypeOK
<1>1. Inv => TypeOK
  <2> SUFFICES ASSUME Inv PROVE TypeOK  OBVIOUS
  <2>1. WireOK /\ ThreadOK /\ LineOK /\ FlagsOK /\ TaskOK /\ CardsOK /\ ReceiverOK /\ LimiterOK
    BY DEF Inv, Types
  <2>2. conn \in Conn /\ up \in BOOLEAN /\ {toReceiver, toSender} \subseteq Channel
    <3>1. Channel = [Conn -> Seq(Wire)]  BY DEF Channel, Wire, MessageTypes
    <3> QED  BY <2>1, <3>1 DEF WireOK
  <2>3. /\ phase \in {"idle", "waiting", "queueing", "showing", "returned"} /\ next \in 1..FileCount \cup {1}
        /\ {envelope, answer} \subseteq FolderStatus
    BY <2>1 DEF ThreadOK, ReceiverOK, Phases
  <2>4. row \in [File -> Active \cup Terminal \cup {"none"}]  BY <2>1 DEF FlagsOK, Statuses
  <2>5. /\ queue \in Seq(File) /\ slot \in 0..FileCount
        /\ \A i, j \in DOMAIN queue : queue[i] = queue[j] => i = j
    <3>1. DOMAIN queue = 1..Len(queue)  BY <2>1 DEF LineOK
    <3> QED  BY <2>1, <3>1 DEF LineOK, Once
  <2>6. task \in [Task -> Work \cup {None}]  BY <2>1 DEF TaskOK
  <2>7. running \cup done \cup rejected \cup canceled \cup sent \cup late \cup crossed \cup recent \cup limited \subseteq File
    BY <2>1 DEF FlagsOK, CardsOK, LimiterOK
  <2>8. /\ card \in [File -> Card \cup {None}] /\ heard \in [Conn -> News \cup {None}]
        /\ click \in [File -> Seq(Card)]
    BY <2>1 DEF CardsOK
  <2>9. /\ prompt \in 0..(MaxFaults + 1) /\ folder \in {"none", "full", "empty"}
        /\ inbound \in [File -> {"none", "accepted", "complete", "failed", "canceled"}]
    BY <2>1 DEF ReceiverOK
  <2>10. admitted \in Seq(File) /\ forgot \in BOOLEAN  BY <2>1 DEF LimiterOK
  <2> QED  BY <2>2, <2>3, <2>4, <2>5, <2>6, <2>7, <2>8, <2>9, <2>10 DEF TypeOK
<1> QED  BY <1>1, Invariant, PTL

\* What the sender records of the envelope is what the receiver recorded, or the
\* refusal of one it could not unpack (SendFolder, handleFolderTransferRequest).
THEOREM EnvelopesAgree == Spec => []EnvelopeAgrees
<1>1. Inv => EnvelopeAgrees  BY DEF Inv, EnvelopeInv
<1> QED  BY <1>1, Invariant, PTL

\* A file of an accepted folder is refused only for the limit of the window or by
\* a receiver that has lost the envelope (allowFileRequest, handleFileRequest).
THEOREM RefusalsHaveReason == Spec => []RefusedForReason
<1>1. Inv => RefusedForReason  BY DEF Inv, RefusalInv
<1> QED  BY <1>1, Invariant, PTL

\* What the chat shows of a row that has ended and a card that is not active.
LEMMA Shown ==
  ASSUME NEW status \in Terminal, NEW live \in Card \cup {None}, live # None => live.status \notin Active
  PROVE  /\ MergeChatFileEntry(status, live).status = status
         /\ MergeChatFileEntry(status, live).completed
         /\ status = "complete" => MergeChatFileEntry(status, live).bytes = 1
<1>1. /\ FromMetadata(status).status = status /\ FromMetadata(status).completed
      /\ FromMetadata(status).bytes = IF status = "complete" THEN 1 ELSE 0
  BY DEF FromMetadata, Entry
<1>2. CASE live = None  BY <1>1, <1>2 DEF MergeChatFileEntry
<1>3. CASE live # None
  <2>1. live.status \notin Active /\ live.bytes \in {0, 1}  BY <1>3 DEF Card
  <2>2. MergeChatFileEntry(status, live) =
          [status |-> status, completed |-> TRUE,
           bytes |-> IF live.bytes > FromMetadata(status).bytes THEN live.bytes
                     ELSE FromMetadata(status).bytes]
    BY <1>3, <2>1 DEF MergeChatFileEntry
  <2> QED  BY <1>1, <2>1, <2>2
<1> QED  BY <1>2, <1>3

\* When a file is at rest it has ended and its card shows how, unless the
\* interface called it pending after its end or its end crossed the steps of a
\* goroutine (upsertFileTransfer, mergeChatFileEntry, handleFileProgress,
\* beginOutboundFileTransfer).
THEOREM CardsFollowRows == Spec => []CardFollowsRow
<1>1. Inv => CardFollowsRow
  <2> SUFFICES ASSUME Inv, NEW f \in File \ (late \cup crossed), AtRest(f)
               PROVE  /\ row[f] \in Terminal
                      /\ Display(f).status = row[f]
                      /\ Display(f).completed
                      /\ row[f] = "complete" => Display(f).bytes = 1
    BY DEF CardFollowsRow
  <2>1. row[f] \in Terminal
    <3>1. \A t \in Task : ~ Of(t, f)  BY BusyOf DEF Inv, Types, AtRest
    <3>2. Waits(f)  BY <3>1 DEF Inv, FlowInv, FlowOK
    <3> QED  BY <3>2 DEF Inv, Types, FlagsOK, Statuses, Waits, AtRest
  <2>2. ~ Due(f)
    <3>1. {"told", "recorded"} \subseteq Stage  BY DEF Stage
    <3>2. \A t \in Task : ~ At(t, f, {"told", "recorded"})  BY <3>1 DEF AtRest, Busy, At
    <3> QED  BY <3>2 DEF AtRest, Due
  <2>3. card[f] # None => card[f].status \notin Active  BY <2>1, <2>2 DEF Inv, CardInv, CardOK
  <2>4. card[f] \in Card \cup {None}  BY DEF Inv, Types, CardsOK
  <2> QED  BY <2>1, <2>3, <2>4, Shown DEF Display
<1> QED  BY <1>1, Invariant, PTL

=============================================================================
