--------------------------- MODULE OcppTaskProofs ---------------------------
(***************************************************************************)
(* What holds of the delivery of OCPP calls for every bound, and up to     *)
(* which of the coincidences in met.                                       *)
(***************************************************************************)
EXTENDS OcppTask, OcppTransactionProofs

-----------------------------------------------------------------------------
(* Unique ids.                                                             *)

\* A finite set leaves a number free, and the ones below the least are taken.
LEMMA FreeNumber ==
  ASSUME NEW S, IsFiniteSet(S)
  PROVE  \E u \in 1 .. Cardinality(S) + 1 : u \notin S /\ \A v \in 1 .. u - 1 : v \in S
<1> DEFINE n == Cardinality(S)
           Free == (1 .. n + 1) \ S
<1>1. n \in Nat
  BY FS_CardinalityType
<1>2. Free # {}
  <2> SUFFICES ASSUME 1 .. n + 1 \subseteq S PROVE FALSE
    OBVIOUS
  <2>1. Cardinality(1 .. n + 1) <= n
    BY FS_Subset
  <2>2. Cardinality(1 .. n + 1) = n + 1
    BY <1>1, FS_Interval
  <2> QED BY <1>1, <2>1, <2>2
<1>3. Free \in SUBSET Nat
  BY <1>1
<1>4. PICK u \in Free : \A v \in Free : u <= v
  BY <1>2, <1>3, LeastNumber
<1>5. \A v \in 1 .. u - 1 : v \in S
  BY <1>1, <1>4
<1> QED BY <1>4, <1>5

LEMMA NewUidReal ==
  ASSUME IsFiniteSet(wire)
  PROVE  NewUid \in Nat \ {0} /\ NewUid \notin InUse
<1>1. IsFiniteSet(InUse)
  <2>1. IsFiniteSet(wire \cup {active.uid})
    BY FS_AddElement
  <2>2. IsFiniteSet(wire \cup {active.uid} \cup {failed.uid})
    BY <2>1, FS_AddElement
  <2>3. IsFiniteSet(wire \cup {active.uid} \cup {failed.uid} \cup {blocked.uid})
    BY <2>2, FS_AddElement
  <2>4. IsFiniteSet(wire \cup {active.uid} \cup {failed.uid} \cup {blocked.uid} \cup {held.uid})
    BY <2>3, FS_AddElement
  <2>5. InUse = wire \cup {active.uid} \cup {failed.uid} \cup {blocked.uid} \cup {held.uid}
    BY DEF InUse
  <2> QED BY <2>4, <2>5
<1>2. NewUid \in 1 .. Cardinality(InUse) + 1 /\ NewUid \notin InUse
  BY <1>1, FreeNumber DEF NewUid
<1> QED BY <1>1, <1>2, FS_CardinalityType

-----------------------------------------------------------------------------
(* The task is woken while it waits for an answer.                         *)

Woken == "matching" \in bits \/ "timeout" \in bits

\* A call is being sent or waited for only while somebody will tell the task
\* what becomes of it.
TaskInv ==
    /\ IsFiniteSet(wire)
    /\ awaiting => pc = "wait"
    /\ pc \in {"activate", "send"} => IsCall(held)
    /\ pc = "send" => IsCall(active) \/ answering \/ Woken
    /\ pc = "wait" /\ awaiting => Woken \/ answering \/ (IsCall(active) /\ timer)

LEMMA GenericIsCall ==
  ASSUME IsFiniteSet(wire), NEW c,
         c = [NoActive EXCEPT !.uid = NewUid] \/ (\E n : c = [no |-> n, uid |-> NewUid, tries |-> 0])
  PROVE  IsCall(c)
BY NewUidReal DEF IsCall, NoActive

LEMMA WakeAwaits ==
  ASSUME TaskInv, Wake
  PROVE  TaskInv'
<1>1. IsFiniteSet(wire)'
  BY DEF TaskInv, Wake, network
<1>2. CASE "timeout" \in bits
  BY <1>1, <1>2 DEF TaskInv, Wake, StillAwaiting, Woken
<1>3. CASE "timeout" \notin bits
  BY <1>1, <1>3 DEF TaskInv, Wake, StillAwaiting, Woken, Onward, calls
<1> QED BY <1>2, <1>3

LEMMA TimeoutActiveAwaits ==
  ASSUME TaskInv, TimeoutActive
  PROVE  TaskInv'
BY DEF TaskInv, TimeoutActive, Onward, Woken, network

LEMMA CountAwaits ==
  ASSUME TaskInv, Count
  PROVE  TaskInv'
BY DEF TaskInv, Count, Woken, network, calls

LEMMA AcquireAwaits ==
  ASSUME TaskInv, Acquire
  PROVE  TaskInv'
<1>1. ~awaiting' /\ IsFiniteSet(wire)'
  BY DEF TaskInv, Acquire, network
<1>2. pc' # "send"
  BY DEF Acquire, Sleep
<1>3. pc' = "activate" => IsCall(held')
  <2>1. CASE AcquireFailed
    BY <2>1 DEF AcquireFailed
  <2>2. CASE AcquireBlocked
    BY <2>2 DEF AcquireBlocked
  <2>3. CASE AcquireStored
    BY <2>3, GenericIsCall DEF AcquireStored, TaskInv
  <2>4. CASE held' = [NoActive EXCEPT !.uid = NewUid]
    BY <2>4, GenericIsCall DEF TaskInv
  <2>5. CASE Sleep
    BY <2>5 DEF Sleep
  <2> QED BY <2>1, <2>2, <2>3, <2>4, <2>5 DEF Acquire
<1> QED BY <1>1, <1>2, <1>3 DEF TaskInv

LEMMA ActivateAwaits ==
  ASSUME TaskInv, Activate
  PROVE  TaskInv'
BY DEF TaskInv, Activate, Woken, network

LEMMA BlockAwaits ==
  ASSUME TaskInv, Block
  PROVE  TaskInv'
<1>1. ~awaiting' /\ IsFiniteSet(wire)'
  BY DEF TaskInv, Block, network
<1>2. CASE generic > 0
  <2>1. IsCall(held')
    BY <1>2, GenericIsCall DEF Block, TaskInv
  <2> QED BY <1>1, <1>2, <2>1 DEF TaskInv, Block
<1>3. CASE ~(generic > 0)
  BY <1>1, <1>3 DEF TaskInv, Block, Sleep
<1> QED BY <1>2, <1>3

LEMMA SendAwaits ==
  ASSUME TaskInv, Send
  PROVE  TaskInv'
<1>1. IsFiniteSet(wire)'
  <2>1. IsFiniteSet(wire \cap {failed.uid, blocked.uid})
    BY FS_Subset DEF TaskInv
  <2> QED BY <2>1, FS_AddElement DEF Send
<1> QED BY <1>1 DEF TaskInv, Send, Sleep, Woken, calls

LEMMA SendFailsAwaits ==
  ASSUME TaskInv, SendFails
  PROVE  TaskInv'
BY DEF TaskInv, SendFails, Sleep, Woken, network

LEMMA AnswerAwaits ==
  ASSUME TaskInv, NEW uid, NEW result, Answer(uid, result)
  PROVE  TaskInv'
<1>1. IsFiniteSet(wire)'
  BY FS_RemoveElement DEF TaskInv, Answer
<1> QED BY <1>1 DEF TaskInv, Answer, Woken, task

LEMMA OtherAwaits ==
  ASSUME TaskInv,
         Start \/ Sample \/ Stop \/ Generic \/ Answered \/ Timeout \/ Ripen \/ Connect
         \/ (\E uid \in wire : Lose(uid)) \/ Disconnect \/ UNCHANGED vars
  PROVE  TaskInv'
<1>1. IsFiniteSet(wire)'
  <2>1. CASE \E uid \in wire : Lose(uid)
    BY <2>1, FS_RemoveElement DEF TaskInv, Lose
  <2>2. CASE Disconnect
    BY <2>2, FS_EmptySet DEF Disconnect
  <2>3. CASE wire' = wire
    BY <2>3 DEF TaskInv
  <2> QED BY <2>1, <2>2, <2>3 DEF Start, Sample, Stop, Generic, Answered, Timeout, Ripen, Connect,
             network, vars
<1>2. pc' = pc /\ held' = held /\ awaiting' = awaiting /\ active' = active
  BY DEF Start, Sample, Stop, Generic, Answered, Timeout, Ripen, Connect, Lose, Disconnect,
         vars, task, calls
<1>3. Woken => Woken'
  BY DEF Woken, Start, Sample, Stop, Generic, Answered, Timeout, Ripen, Connect, Lose,
         Disconnect, Notify, vars
<1>4. answering => answering' \/ Woken'
  BY DEF Woken, Start, Sample, Stop, Generic, Answered, Timeout, Ripen, Connect, Lose,
         Disconnect, Notify, vars
<1>5. timer /\ IsCall(active) => timer' \/ Woken'
  BY DEF Woken, Start, Sample, Stop, Generic, Answered, Timeout, Ripen, Connect, Lose,
         Disconnect, Notify, vars
<1> QED BY <1>1, <1>2, <1>3, <1>4, <1>5 DEF TaskInv

LEMMA TaskNext ==
  ASSUME TaskInv, [Next]_vars
  PROVE  TaskInv'
BY WakeAwaits, TimeoutActiveAwaits, CountAwaits, AcquireAwaits, ActivateAwaits, BlockAwaits,
   SendAwaits, SendFailsAwaits, AnswerAwaits, OtherAwaits DEF Next, MainStep

LEMMA TaskInvariant == Spec => []TaskInv
<1>1. Init => TaskInv
  BY FS_EmptySet DEF Init, TaskInv
<1> QED BY <1>1, TaskNext, PTL DEF Spec

\* The OCPP task never sleeps on an answer that nobody can give any more: while
\* awaiting_response is set, there is an active call whose timer runs, the
\* callback of its answer is about to notify the task, or a notification is
\* there already, however timers, answers, drops and retries interleave.
THEOREM NeverStuckHolds == Spec => []NeverStuck
<1>1. TaskInv => NeverStuck
  BY DEF TaskInv, NeverStuck, Woken
<1> QED BY <1>1, TaskInvariant, PTL

-----------------------------------------------------------------------------
(* What is owed, and the message that is out: the storage's side.          *)

\* The storage without its counts.
StorageInv == /\ FilesInv /\ CacheInv /\ LoadedInv /\ QueueInv /\ RingInv
              /\ OrderInv /\ CacheOrder /\ TimesInv

Waits(n) == \E m \in Pending \cup Queued : m[2] = n

\* What is owed is stored, queued or out, and the other way round.
OwedIs(o) ==
    /\ owed \subseteq 1 .. clock
    /\ \A m \in Pending \cup Queued : m[2] \in owed
    /\ \A n \in owed : n = o \/ Waits(n)

\* The message o is out, or none when o is 0: it is the oldest one owed, and
\* either still on file and loaded, or in no file and no longer queued.
OutIs(o) ==
    o # 0 =>
      /\ o \in owed
      /\ \A n \in owed : o <= n
      /\ last_from_file => loaded.data /\ loaded.call.no = o
      /\ ~last_from_file => /\ \A i \in 1 .. Len(queue) : o < queue[i].no
                            /\ \A e \in Entry : o \notin Numbers(files[e])

Due(o) == o \in Nat /\ OwedIs(o) /\ OutIs(o)

-----------------------------------------------------------------------------
(* The message that is out: the task's side.                               *)

CallIs(c) == /\ c = [no |-> c.no, uid |-> c.uid, tries |-> c.tries]
             /\ c # NoActive => c.uid # 0

\* One of the calls the task holds is the message that is out.
Holds(o) ==
    /\ CallIs(active) /\ CallIs(failed) /\ CallIs(held)
    /\ blocked = NoActive
    /\ {active.no, failed.no, held.no} \subseteq {0, o}
    /\ o \in {0, active.no, failed.no, held.no}
    /\ failed # NoActive => failed.no # 0 /\ active.no = 0 /\ held.no = 0

\* Which calls there are at each place of the task.
PlacesInv ==
    /\ pc \in {"wait", "timeout", "count", "acquire", "activate", "send"}
    /\ pc \notin {"activate", "send"} => held = NoActive
    /\ pc = "send" => active = held
    /\ pc \in {"count", "acquire", "activate"} => active = NoActive
    /\ pc = "wait" /\ ~awaiting => active = NoActive
    /\ answering \/ "matching" \in bits =>
         pc = "wait" /\ awaiting /\ active = NoActive
    /\ ~(answering /\ "matching" \in bits)
    /\ 0 \notin wire

-----------------------------------------------------------------------------
(* What the operations of the storage keep.                                *)

\* Two messages on file have different numbers.
LEMMA NumberInFile ==
  ASSUME NEW f, NEW n \in Nat, Tidy(f, n), NEW l \in PendingIn(f), NEW m \in PendingIn(f), l[2] = m[2]
  PROVE  l = m
<1>1. /\ Len(f.meters) \in Nat /\ f.start \in Nat /\ f.stop \in Nat
      /\ \A i \in 1 .. Len(f.meters) : f.meters[i] \in Nat
      /\ FirstMeter(f) \in Nat \ {0}
  BY FileNumbers
<1>2. /\ \A i \in 1 .. Len(f.meters) :
            f.start < f.meters[i] /\ (f.stop # 0 => f.meters[i] < f.stop)
      /\ f.stop # 0 => f.start < f.stop
  BY DEF Tidy, Ordered
<1> DEFINE IsStart(x) == x = <<"start", f.start>>
           IsMeter(x) == \E i \in 1 .. Len(f.meters) : x = <<"meter", f.meters[i]>>
           IsStop(x) == x = <<"stop", f.stop>> /\ f.stop # 0
<1>3. ASSUME NEW x \in PendingIn(f) PROVE IsStart(x) \/ IsMeter(x) \/ IsStop(x)
  <2>1. \A i \in FirstMeter(f) .. Len(f.meters) : i \in 1 .. Len(f.meters)
    BY <1>1
  <2> QED BY <2>1, PendingAre
<1>4. (IsStart(l) \/ IsMeter(l) \/ IsStop(l)) /\ (IsStart(m) \/ IsMeter(m) \/ IsStop(m))
  BY <1>3
<1>5. ASSUME NEW x, NEW y, IsStart(x), IsMeter(y) \/ IsStop(y)
      PROVE  x[2] # y[2]
  <2>1. x[2] = f.start
    BY <1>5
  <2>2. ASSUME IsMeter(y) PROVE f.start < y[2] /\ y[2] \in Nat
    <3>1. PICK i \in 1 .. Len(f.meters) : y = <<"meter", f.meters[i]>>
      BY <2>2
    <3> QED BY <1>1, <1>2, <3>1
  <2>3. ASSUME IsStop(y) PROVE f.start < y[2] /\ y[2] \in Nat
    BY <1>1, <1>2, <2>3
  <2> QED BY <1>1, <1>5, <2>1, <2>2, <2>3
<1>6. ASSUME NEW x, NEW y, IsMeter(x), IsStop(y)
      PROVE  x[2] # y[2]
  <2>1. PICK i \in 1 .. Len(f.meters) : x = <<"meter", f.meters[i]>>
    BY <1>6
  <2>2. y[2] = f.stop /\ f.stop # 0 /\ x[2] = f.meters[i]
    BY <1>6, <2>1
  <2> QED BY <1>1, <1>2, <2>1, <2>2
<1>7. ASSUME NEW x, NEW y, IsMeter(x), IsMeter(y), x[2] = y[2]
      PROVE  x = y
  BY <1>7
<1>8. CASE (IsStart(l) /\ IsStart(m)) \/ (IsStop(l) /\ IsStop(m))
  BY <1>8
<1> HIDE DEF IsStart, IsMeter, IsStop
<1> QED BY <1>4, <1>5, <1>6, <1>7, <1>8, Zenon

LEMMA NumberOnce ==
  ASSUME OrderInv, clock \in Nat, NEW l \in Pending, NEW m \in Pending, l[2] = m[2]
  PROVE  l = m
<1>1. PICK d \in Entry : l \in PendingIn(files[d])
  BY DEF Pending
<1>2. PICK e \in Entry : m \in PendingIn(files[e])
  BY DEF Pending
<1>3. Tidy(files[d], clock) /\ Tidy(files[e], clock)
  BY DEF OrderInv, TidyAll
<1>4. /\ l[2] \in Numbers(files[d]) /\ m[2] \in Numbers(files[e]) /\ l[2] # 0
      /\ files[d].start # 0 /\ files[e].start # 0
      /\ files[d].start \in Nat /\ files[e].start \in Nat
  BY <1>1, <1>2, <1>3, PendingNumbers, HasStarted
<1>5. CASE d = e
  BY <1>1, <1>2, <1>3, <1>5, NumberInFile
<1>6. CASE d # e
  <2>1. /\ files[d].start # files[e].start
        /\ files[d].start < files[e].start => files[d].stop # 0 /\ files[d].stop < files[e].start
        /\ files[e].start < files[d].start => files[e].stop # 0 /\ files[e].stop < files[d].start
    BY <1>4, <1>6 DEF OrderInv, Apart
  <2>2. CASE files[d].start < files[e].start
    BY <1>3, <1>4, <2>1, <2>2, ApartNumbers
  <2>3. CASE files[e].start < files[d].start
    BY <1>3, <1>4, <2>1, <2>3, ApartNumbers
  <2> QED BY <1>4, <2>1, <2>2, <2>3
<1> QED BY <1>5, <1>6

\* What a step that stores the next message does.
Adding ==
    /\ clock' = clock + 1
    /\ \A m \in Pending' \cup Queued' : m \in Pending \cup Queued \/ m[2] = clock'
    /\ Pending \cup Queued \subseteq Pending' \cup Queued'
    /\ \E m \in Pending' \cup Queued' : m[2] = clock'
    /\ \A i \in 1 .. Len(queue') : queue'[i].no = clock' \/ (i \in 1 .. Len(queue) /\ queue'[i] = queue[i])
    /\ Fresh(files, files', clock)
    /\ UNCHANGED <<loaded, last_from_file>>

\* The files have grown by one message.
LEMMA GrownStorage ==
  ASSUME StorageInv, CacheOrder', OrderInv', AddsAll(files'), Fresh(files, files', clock),
         clock' = clock + 1, clock < MaxNo,
         NEW m, m[2] = clock', m \in Pending', Pending' \subseteq Pending \cup {m},
         UNCHANGED <<oldest, loaded, queue, ring, last_from_file>>
  PROVE  StorageInv' /\ Adding
<1>1. FilesInv /\ CacheInv /\ LoadedInv /\ QueueInv /\ RingInv /\ TimesInv /\ clock \in Nat
  BY DEF StorageInv, RingInv
<1> PICK new : new = files'
  OBVIOUS
<1>2. new = [e \in Entry |-> new[e]] /\ \A e \in Entry : Adds(files[e], new[e])
  BY Zenon DEF AddsAll
<1>3. \A e \in Entry : IsRight(new[e]) /\ new[e] \in FileType
  BY <1>2 DEF Adds, IsRight
<1>4. FilesInv'
  BY <1>2, <1>3 DEF FilesInv
<1>5. LoadedRight(loaded, new)
  <2> SUFFICES ASSUME loaded.data PROVE LoadedRight(loaded, new)
    BY DEF LoadedRight
  <2> PICK e : e = loaded.entry
    OBVIOUS
  <2>1. e \in Entry /\ NextKind(files[e]) # "none"
        /\ Message(loaded.call) = <<NextKind(files[e]), NextNo(files[e])>>
        /\ loaded.next = files[e].conf + 1
    BY <1>1 DEF LoadedInv, LoadedRight
  <2>2. NextKind(new[e]) = NextKind(files[e]) /\ NextNo(new[e]) = NextNo(files[e])
        /\ new[e].conf = files[e].conf
    BY <1>2, <2>1 DEF Adds
  <2> QED BY <2>1, <2>2, Zenon DEF LoadedRight
<1>6. LoadedInv'
  BY <1>1, <1>5 DEF LoadedInv
<1>7. Pending \subseteq Pending'
  <2> SUFFICES ASSUME NEW e \in Entry, NEW x \in PendingIn(files[e]) PROVE x \in Pending'
    BY DEF Pending
  <2>1. x \in PendingIn(files'[e])
    BY <1>2 DEF Adds
  <2> QED BY <2>1 DEF Pending
<1>8. CacheInv' /\ QueueInv' /\ TimesInv'
  BY <1>1, Zenon DEF CacheInv, QueueInv, TimesInv
<1>9. RingInv'
  <2>1. clock' \in Nat /\ clock <= clock' /\ clock' <= MaxNo
    BY <1>1, MaxNoType
  <2> QED BY <1>1, <2>1, SameRing
<1>10. Queued' = Queued
  BY SameQueued
<1>11. Adding
  BY <1>7, <1>10, Zenon DEF Adding
<1> QED BY <1>4, <1>6, <1>8, <1>9, <1>11 DEF StorageInv

LEMMA StartStores ==
  ASSUME StorageInv, EnqueueStart, Active = {}, Vacant # {}, clock < MaxNo,
         \A c \in oldest : c.entry # VacantEntry
  PROVE  StorageInv' /\ Adding
<1>1. FilesInv /\ CacheInv /\ LoadedInv /\ QueueInv /\ OrderInv /\ CacheOrder /\ clock \in Nat
  BY DEF StorageInv, RingInv
<1>2. /\ OrderInv' /\ clock' = clock + 1 /\ UNCHANGED <<oldest, loaded, queue, ring, last_from_file>>
      /\ Pending' \subseteq Pending \cup StartMessages(clock')
  BY <1>1, StartOrdered DEF EnqueueStart
<1>3. CacheOrder' /\ Fresh(files, files', clock)
  BY <1>1, StartCached, StartFresh
<1> PICK n : n = clock'
  OBVIOUS
<1> PICK v : v = VacantEntry
  OBVIOUS
<1>4. v \in Entry /\ files[v] = NoFile /\ n \in Nat \ {0}
  BY <1>1, <1>2, VacantIs
<1>5. Adds(files[v], Started(n)) /\ <<"start", n>> \in PendingIn(Started(n))
  BY <1>4, StartedAdds, Zenon
<1>6. files' = [files EXCEPT ![v] = Started(n)]
  BY Zenon DEF EnqueueStart, StopActive
<1>7. AddsAll(files') /\ files'[v] = Started(n)
  BY <1>1, <1>4, <1>5, <1>6, UpdateAdds, Zenon
<1>8. <<"start", n>> \in Pending'
  <2>1. <<"start", n>> \in PendingIn(files'[v])
    BY <1>5, <1>7, Zenon
  <2> QED BY <1>4, <2>1 DEF Pending
<1>9. Pending' \subseteq Pending \cup {<<"start", n>>} /\ <<"start", n>>[2] = clock'
  BY <1>2 DEF StartMessages
<1> QED BY <1>2, <1>3, <1>7, <1>8, <1>9, GrownStorage

LEMMA StopStores ==
  ASSUME StorageInv, EnqueueStop, Active # {}, clock < MaxNo
  PROVE  StorageInv' /\ Adding
<1>1. /\ FilesInv /\ CacheInv /\ LoadedInv /\ QueueInv /\ OrderInv /\ CacheOrder /\ clock \in Nat
      /\ TidyAll(files, clock)
  BY DEF StorageInv, RingInv, OrderInv
<1>2. UNCHANGED <<oldest, loaded, queue, ring, last_from_file>> /\ files' = StopActive(clock')
  BY DEF EnqueueStop
<1> PICK n : n = clock'
  OBVIOUS
<1> PICK M : M = {<<"stop", n>>}
  OBVIOUS
<1>3. Moves(files, files', clock, clock', M) /\ clock' = clock + 1
  BY <1>1, StopMoves DEF StopMessages
<1>4. n \in Nat \ {0} /\ clock <= clock' /\ \A m \in M : clock < m[2]
  BY <1>1, <1>3
<1>5. OrderInv' /\ Pending' \subseteq Pending \cup M
  BY <1>1, <1>2, <1>3, <1>4, MovesKeep
<1>6. /\ AddsAll(files') /\ <<"stop", n>> \in PendingIn(files'[ActiveEntry])
  BY <1>1, <1>2, <1>4, StopActiveAdds DEF AddsAll
<1>7. CacheOrder'
  <2>1. loaded.data => NextNo(files'[loaded.entry]) = NextNo(files[loaded.entry])
    BY <1>1, <1>6, AddsNext DEF AddsAll
  <2> QED BY <1>1, <1>2, <1>3, <1>4, <2>1, MovesCache
<1>8. Fresh(files, files', clock)
  BY <1>1, <1>3, MovesFresh
<1>9. <<"stop", n>> \in Pending'
  BY <1>6, ActiveIs DEF Pending
<1>10. Pending' \subseteq Pending \cup {<<"stop", n>>} /\ <<"stop", n>>[2] = clock'
  BY <1>5
<1> QED BY <1>2, <1>3, <1>5, <1>6, <1>7, <1>8, <1>9, <1>10, GrownStorage

LEMMA WriteStores ==
  ASSUME StorageInv, WriteMeterValue, clock < MaxNo
  PROVE  StorageInv' /\ Adding
<1>1. /\ FilesInv /\ CacheInv /\ LoadedInv /\ QueueInv /\ OrderInv /\ CacheOrder /\ clock \in Nat
      /\ TidyAll(files, clock)
  BY DEF StorageInv, RingInv, OrderInv
<1>2. UNCHANGED <<oldest, loaded, queue, ring, last_from_file>>
  BY DEF WriteMeterValue
<1> PICK n : n = clock'
  OBVIOUS
<1> PICK M : M = {<<"meter", n>>}
  OBVIOUS
<1>3. Moves(files, files', clock, clock', M) /\ clock' = clock + 1
  BY <1>1, WriteMoves
<1>4. n \in Nat \ {0} /\ clock <= clock' /\ \A m \in M : clock < m[2]
  BY <1>1, <1>3
<1>5. OrderInv' /\ Pending' \subseteq Pending \cup M
  BY <1>1, <1>2, <1>3, <1>4, MovesKeep
<1>6. AddsAll(files') /\ ActiveEntry \in Entry /\ <<"meter", n>> \in PendingIn(files'[ActiveEntry])
  BY <1>1, WriteAdds
<1>7. CacheOrder'
  <2>1. loaded.data => NextNo(files'[loaded.entry]) = NextNo(files[loaded.entry])
    BY <1>1, <1>6, AddsNext DEF AddsAll
  <2> QED BY <1>1, <1>2, <1>3, <1>4, <2>1, MovesCache
<1>8. Fresh(files, files', clock)
  BY <1>1, <1>3, MovesFresh
<1>9. <<"meter", n>> \in Pending'
  BY <1>6 DEF Pending
<1>10. Pending' \subseteq Pending \cup {<<"meter", n>>} /\ <<"meter", n>>[2] = clock'
  BY <1>5
<1> QED BY <1>2, <1>3, <1>5, <1>6, <1>7, <1>8, <1>9, <1>10, GrownStorage

LEMMA SendStores ==
  ASSUME StorageInv, NEW t \in Nat, NEW i \in Id, QueueSend(t, i), clock < MaxNo
  PROVE  StorageInv' /\ Adding
<1>1. /\ FilesInv /\ CacheInv /\ LoadedInv /\ QueueInv /\ RingInv /\ OrderInv /\ CacheOrder /\ TimesInv
      /\ clock \in Nat /\ TidyAll(files, clock)
  BY DEF StorageInv, RingInv, OrderInv
<1> PICK n : n = clock'
  OBVIOUS
<1> PICK c : c = Call("meter", t, n, i)
  OBVIOUS
<1>2. /\ clock' = clock + 1 /\ UNCHANGED <<files, oldest, loaded, last_from_file>>
      /\ queue' = Append(queue, c) /\ ring' = SetTime(ring, clock')
  BY DEF QueueSend
<1>3. n \in Nat /\ clock <= n /\ n <= MaxNo
  BY <1>1, <1>2, MaxNoType
<1>4. c \in CallType /\ c.kind = "meter" /\ c.no = n
  BY <1>3 DEF Call, CallType, Kind
<1>5. OrderInv'
  BY <1>1, <1>2, <1>4, AppendOrder
<1>6. TimesInv'
  BY <1>1, SendTimes
<1>7. CacheOrder'
  <2>1. Moves(files, files', clock, clock', {})
    BY <1>1, <1>2, <1>3, SameMoves, Zenon
  <2> QED BY <1>1, <1>2, <1>3, <2>1, MovesCache
<1>8. /\ queue' \in Seq(CallType) /\ Len(queue') = Len(queue) + 1 /\ Len(queue) \in Nat
      /\ queue'[Len(queue) + 1] = c /\ \A k \in 1 .. Len(queue) : queue'[k] = queue[k]
  <2>1. queue \in Seq(CallType)
    BY <1>1 DEF QueueInv
  <2> HIDE DEF CallType
  <2> QED BY <1>2, <1>4, <2>1
<1>9. QueueInv'
  <2>1. \A k \in 1 .. Len(queue') : queue'[k].kind = "meter"
    BY <1>1, <1>4, <1>8 DEF QueueInv
  <2> QED BY <1>8, <2>1 DEF QueueInv
<1>10. RingInv'
  BY <1>1, <1>2, <1>3, TimeSet
<1>11. FilesInv' /\ CacheInv' /\ LoadedInv'
  BY <1>1, <1>2, Zenon DEF FilesInv, CacheInv, LoadedInv
<1>12. \A k \in 1 .. Len(queue') : queue'[k].no = clock' \/ (k \in 1 .. Len(queue) /\ queue'[k] = queue[k])
  BY <1>4, <1>8
<1>13. Pending' = Pending /\ Fresh(files, files', clock)
  BY <1>2, SamePending DEF Fresh
<1>14. \A m \in Queued' : m \in Queued \/ m[2] = clock'
  BY <1>12 DEF Queued
<1>15. Queued \subseteq Queued' /\ <<"meter", n>> \in Queued'
  <2>1. \A k \in 1 .. Len(queue) : k \in 1 .. Len(queue') /\ queue'[k].no = queue[k].no
    BY <1>8
  <2>2. Len(queue') \in 1 .. Len(queue') /\ queue'[Len(queue')].no = n
    BY <1>4, <1>8
  <2> QED BY <2>1, <2>2 DEF Queued
<1>16. Adding
  <2>1. <<"meter", n>>[2] = clock'
    OBVIOUS
  <2>2. \E m \in Pending' \cup Queued' : m[2] = clock'
    BY <1>15, <2>1
  <2> QED BY <1>2, <1>12, <1>13, <1>14, <1>15, <2>2 DEF Adding
<1> QED BY <1>5, <1>6, <1>7, <1>9, <1>10, <1>11, <1>16 DEF StorageInv

\* A new message is owed, and younger than what is out.
LEMMA AddingDue ==
  ASSUME StorageInv, NEW o, Due(o), Adding, owed' = owed \cup {clock'}
  PROVE  Due(o)' /\ \A m \in owed' \ owed : \A n \in owed : n < m
<1>1. /\ clock \in Nat /\ clock' = clock + 1 /\ o \in Nat /\ owed \subseteq 1 .. clock
      /\ \A m \in Pending \cup Queued : m[2] \in owed
      /\ \A n \in owed : n = o \/ Waits(n)
  BY DEF StorageInv, RingInv, Due, OwedIs, Adding
<1>2. OwedIs(o)'
  <2>1. owed' \subseteq 1 .. clock'
    BY <1>1
  <2>2. \A m \in Pending' \cup Queued' : m[2] \in owed'
    BY <1>1 DEF Adding
  <2>3. \A n \in owed : Waits(n) => Waits(n)'
    BY DEF Waits, Adding
  <2> PICK k : k = clock'
    OBVIOUS
  <2>4. Waits(k)'
    BY DEF Waits, Adding
  <2>5. \A n \in owed' : n = o \/ Waits(n)'
    BY <1>1, <2>3, <2>4
  <2> QED BY <2>1, <2>2, <2>5 DEF OwedIs
<1>3. ASSUME o # 0
      PROVE  /\ o \in owed' /\ \A n \in owed' : o <= n
             /\ last_from_file' => loaded'.data /\ loaded'.call.no = o
             /\ ~last_from_file' => /\ \A i \in 1 .. Len(queue') : o < queue'[i].no
                                    /\ \A e \in Entry : o \notin Numbers(files'[e])
  <2>1. /\ o \in owed /\ \A n \in owed : o <= n
        /\ last_from_file => loaded.data /\ loaded.call.no = o
        /\ ~last_from_file => /\ \A i \in 1 .. Len(queue) : o < queue[i].no
                              /\ \A e \in Entry : o \notin Numbers(files[e])
    BY <1>3, Zenon DEF Due, OutIs
  <2>2. o < clock' /\ ~(clock < o)
    BY <1>1, <2>1
  <2>3. o \in owed' /\ \A n \in owed' : o <= n
    BY <1>1, <2>1, <2>2
  <2>4. ASSUME ~last_from_file
        PROVE  /\ \A i \in 1 .. Len(queue') : o < queue'[i].no
               /\ \A e \in Entry : o \notin Numbers(files'[e])
    <3>1. \A i \in 1 .. Len(queue') : o < queue'[i].no
      BY <2>1, <2>2, <2>4, Zenon DEF Adding
    <3>2. \A e \in Entry : o \notin Numbers(files'[e])
      BY <1>3, <2>1, <2>2, <2>4, Zenon DEF Adding, Fresh
    <3> QED BY <3>1, <3>2
  <2> QED BY <2>1, <2>3, <2>4, Zenon DEF Adding
<1>4. OutIs(o)'
  BY <1>3, Zenon DEF OutIs
<1>5. \A m \in owed' \ owed : \A n \in owed : n < m
  BY <1>1
<1> QED BY <1>1, <1>2, <1>4, <1>5 DEF Due

LEMMA TakeStorage ==
  ASSUME StorageInv, GetNextMessage
  PROVE  StorageInv'
<1>1. /\ FilesInv /\ CacheInv /\ LoadedInv /\ QueueInv /\ RingInv /\ OrderInv /\ CacheOrder /\ TimesInv
      /\ clock \in Nat /\ Oldest(oldest, files, clock)
  BY DEF StorageInv, RingInv, CacheOrder
<1>2. /\ loaded' = Loaded /\ oldest' = IF loaded.data THEN oldest ELSE OldestKnown
      /\ UNCHANGED <<files, clock>>
      /\ UNCHANGED <<queue, ring>> \/ (queue # <<>> /\ queue' = Tail(queue) /\ ring' = GetTime(ring))
  BY Zenon DEF GetNextMessage
<1>3. FilesInv' /\ CacheInv'
  BY <1>1, <1>2, CacheKeeps DEF FilesInv
<1>4. LoadedInv'
  BY <1>1, <1>2, LoadedNext DEF LoadedInv
<1>5. CacheOrder'
  <2>1. Oldest(oldest', files, clock)
    BY <1>1, <1>2, KnownOldest, Zenon
  <2>2. First(Loaded, files)
    BY <1>1, LoadedFirst
  <2> QED BY <1>2, <2>1, <2>2, Zenon DEF CacheOrder
<1>6. CASE UNCHANGED <<queue, ring>>
  <2>1. QueueInv' /\ RingInv' /\ TimesInv'
    BY <1>1, <1>2, <1>6, Zenon DEF QueueInv, RingInv, TimesInv
  <2>2. OrderInv'
    BY <1>1, <1>2, <1>6, Zenon DEF OrderInv
  <2> QED BY <1>3, <1>4, <1>5, <2>1, <2>2 DEF StorageInv
<1>7. CASE queue # <<>> /\ queue' = Tail(queue) /\ ring' = GetTime(ring)
  <2>1. OrderInv' /\ TimesInv' /\ RingInv'
    BY <1>1, <1>2, <1>7, TailOrder, GetTimes, TimeGot
  <2>2. QueueInv'
    <3>1. queue \in Seq(CallType) /\ \A i \in 1 .. Len(queue) : queue[i].kind = "meter"
      BY <1>1 DEF QueueInv
    <3> HIDE DEF CallType
    <3>2. /\ queue' \in Seq(CallType) /\ Len(queue') = Len(queue) - 1 /\ Len(queue) \in Nat
          /\ \A i \in 1 .. Len(queue') : queue'[i] = queue[i + 1]
      BY <1>7, <3>1
    <3>3. \A i \in 1 .. Len(queue') : queue'[i].kind = "meter"
      BY <3>1, <3>2
    <3> QED BY <3>2, <3>3 DEF QueueInv
  <2> QED BY <1>3, <1>4, <1>5, <2>1, <2>2 DEF StorageInv
<1> QED BY <1>2, <1>6, <1>7

\* What is owed while nothing is out is on file or queued.
LEMMA OwedWaits ==
  ASSUME Due(0), NEW n \in owed
  PROVE  n \in 1 .. clock /\ (\/ \E e \in Entry : \E m \in PendingIn(files[e]) : m[2] = n
                              \/ \E i \in 1 .. Len(queue) : queue[i].no = n)
<1>1. n \in 1 .. clock /\ (n = 0 \/ Waits(n))
  BY DEF Due, OwedIs
<1>2. PICK m \in Pending \cup Queued : m[2] = n
  BY <1>1 DEF Waits
<1> QED BY <1>1, <1>2 DEF Pending, Queued

\* What is taken from a file is the oldest message owed.
LEMMA FileOldest ==
  ASSUME StorageInv, Due(0), FromFile
  PROVE  /\ Loaded.data /\ Loaded.call.no \in owed
         /\ \A n \in owed : Loaded.call.no <= n
<1>1. FilesInv /\ CacheInv /\ LoadedInv /\ QueueInv /\ RingInv /\ OrderInv /\ CacheOrder /\ TimesInv /\ clock \in Nat
  BY DEF StorageInv, RingInv
<1> PICK l : l = Loaded
  OBVIOUS
<1> PICK t : t = l.time
  OBVIOUS
<1>2. l.data /\ LoadedRight(l, files) /\ First(l, files) /\ t \in 1 .. clock
  BY <1>1, FromFileLoaded, LoadedNext, LoadedFirst
<1> PICK f : f = files[l.entry]
  OBVIOUS
<1>3. l.entry \in Entry /\ NextKind(f) # "none" /\ Message(l.call) = <<NextKind(f), NextNo(f)>> /\ t = NextNo(f)
  BY <1>2, Zenon DEF LoadedRight, First
<1>4. l.call.no = t
  BY <1>3 DEF Message
<1>5. <<NextKind(f), NextNo(f)>> \in PendingIn(f)
  <2>1. Tidy(f, clock)
    BY <1>1, <1>3 DEF OrderInv, TidyAll
  <2> QED BY <1>1, <1>3, <2>1, NextIsOld
<1>6. l.call.no \in owed
  <2>1. <<NextKind(f), NextNo(f)>> \in Pending
    BY <1>3, <1>5 DEF Pending
  <2> QED BY <1>3, <1>4, <2>1 DEF Due, OwedIs
<1>7. ASSUME NEW n \in owed PROVE t <= n
  <2>1. CASE \E e \in Entry : \E m \in PendingIn(files[e]) : m[2] = n
    BY <1>2, <2>1, Zenon DEF First
  <2>2. CASE \E i \in 1 .. Len(queue) : queue[i].no = n
    <3>1. PICK i \in 1 .. Len(queue) : n = queue[i].no
      BY <2>2
    <3>2. queue # <<>> /\ 1 \in 1 .. Len(queue) /\ 1 <= i
      BY <1>1, <3>1, QueueIs
    <3>3. queue[1].no <= queue[i].no /\ queue[1].no \in 1 .. clock /\ queue[i].no \in 1 .. clock
      BY <1>1, <3>1, <3>2, QueueIs
    <3>4. t < queue[1].no
      BY <1>1, <3>2, PeekIs DEF FromFile
    <3> QED BY <1>2, <3>1, <3>3, <3>4
  <2> QED BY <2>1, <2>2, OwedWaits
<1> QED BY <1>2, <1>4, <1>6, <1>7

\* What is taken from the queue is the oldest message owed.
LEMMA QueueOldest ==
  ASSUME StorageInv, Due(0), ~FromFile, queue # <<>>
  PROVE  /\ queue[1].no \in owed /\ queue[1].kind = "meter"
         /\ \A n \in owed : queue[1].no <= n
         /\ \A e \in Entry : queue[1].no \notin Numbers(files[e])
<1>1. FilesInv /\ CacheInv /\ LoadedInv /\ QueueInv /\ RingInv /\ OrderInv /\ CacheOrder /\ TimesInv /\ clock \in Nat
  BY DEF StorageInv, RingInv
<1>2. Len(queue) \in Nat \ {0} /\ PeekTime(ring) = queue[1].no /\ 1 \in 1 .. Len(queue)
  BY <1>1, PeekIs
<1> PICK h : h = queue[1].no
  OBVIOUS
<1>3. h \in 1 .. clock /\ queue[1].kind = "meter"
  BY <1>1, <1>2, QueueIs
<1>4. \A e \in Entry : h \notin Numbers(files[e])
  BY <1>1, <1>2 DEF OrderInv, Line
<1>5. h \in owed
  <2>1. <<"meter", h>> \in Queued
    BY <1>2 DEF Queued
  <2> QED BY <2>1 DEF Due, OwedIs
<1>6. ~(Loaded.time < h)
  BY <1>2, Zenon DEF FromFile
<1>7. ASSUME NEW n \in owed PROVE h <= n
  <2>1. CASE \E e \in Entry : \E m \in PendingIn(files[e]) : m[2] = n
    <3>1. PICK e \in Entry : \E m \in PendingIn(files[e]) : m[2] = n
      BY <2>1
    <3>2. Loaded.data
      BY <1>1, <3>1, LoadedFirst DEF Pending
    <3>3. Loaded.time \in 1 .. clock /\ Loaded.time <= n
      BY <1>1, <3>1, <3>2, LoadedFirst DEF First
    <3>4. n \in Nat
      BY OwedWaits
    <3> QED BY <1>3, <1>6, <3>3, <3>4
  <2>2. CASE \E i \in 1 .. Len(queue) : queue[i].no = n
    BY <1>1, <1>2, <2>2, QueueIs
  <2> QED BY <2>1, <2>2, OwedWaits
<1> QED BY <1>3, <1>4, <1>5, <1>7

\* The message taken is out now; when there is none, nothing is owed.
LEMMA TakeDue ==
  ASSUME StorageInv, Due(0), GetNextMessage, owed' = owed, NEW c, c = NextCall
  PROVE  IF c = NoCall THEN Due(0)'
         ELSE Due(c.no)' /\ c.no \in owed /\ c.no # 0 /\ \A n \in owed : c.no <= n
<1>1. FilesInv /\ CacheInv /\ LoadedInv /\ QueueInv /\ RingInv /\ OrderInv /\ TimesInv /\ clock \in Nat
  BY DEF StorageInv, RingInv
<1>2. loaded' = Loaded /\ UNCHANGED <<files, clock>> /\ Pending' = Pending
  BY SamePending DEF GetNextMessage
<1>3. /\ owed \subseteq 1 .. clock /\ \A m \in Pending \cup Queued : m[2] \in owed
      /\ \A n \in owed : Waits(n)
  BY <1>1 DEF Due, OwedIs
<1>0. \A n \in owed : n \in Nat /\ n # 0
  BY <1>1, <1>3
<1>9. NoCall.no = 0
  BY DEF NoCall, Call
<1>4. CASE FromFile
  <2>1. last_from_file' = TRUE /\ UNCHANGED queue /\ c = Loaded.call
    BY <1>4 DEF GetNextMessage, NextCall
  <2>2. Loaded.data /\ c.no \in owed /\ \A n \in owed : c.no <= n
    BY <1>4, <2>1, FileOldest
  <2>3. Queued' = Queued
    BY <2>1, SameQueued
  <2>4. c # NoCall /\ c.no # 0 /\ c.no \in Nat
    BY <1>0, <1>9, <2>2, Zenon
  <2>5. OwedIs(c.no)'
    BY <1>2, <1>3, <2>3, Zenon DEF OwedIs, Waits
  <2>6. OutIs(c.no)'
    BY <1>2, <2>1, <2>2, Zenon DEF OutIs
  <2> QED BY <2>2, <2>4, <2>5, <2>6 DEF Due
<1>5. CASE ~FromFile /\ queue # <<>>
  <2>1. last_from_file' = FALSE /\ queue' = Tail(queue) /\ c = Head(queue)
    BY <1>5 DEF GetNextMessage, NextCall
  <2>2. /\ Queued' \subseteq Queued /\ Head(queue) = queue[1]
        /\ \A i \in 1 .. Len(queue') : queue[1].no < queue'[i].no
    BY <1>1, <1>2, <1>5, <2>1, TailOrder
  <2>3. c = queue[1]
    BY <2>1, <2>2
  <2>4. /\ c.no \in owed /\ c.kind = "meter" /\ \A n \in owed : c.no <= n
        /\ \A e \in Entry : c.no \notin Numbers(files[e])
    BY <1>5, <2>3, QueueOldest
  <2>5. c # NoCall /\ c.no # 0 /\ c.no \in Nat
    BY <1>0, <1>9, <2>4, Zenon
  <2>6. \A n \in owed : n = c.no \/ Waits(n)'
    <3> SUFFICES ASSUME NEW n \in owed, n # c.no PROVE Waits(n)'
      OBVIOUS
    <3>1. PICK m \in Pending \cup Queued : m[2] = n
      BY <1>3 DEF Waits
    <3>2. CASE m \in Pending
      BY <1>2, <3>1, <3>2 DEF Waits
    <3>3. CASE m \in Queued
      <4>1. PICK i \in 1 .. Len(queue) : m = <<"meter", queue[i].no>>
        BY <3>3 DEF Queued
      <4>2. queue \in Seq(CallType) /\ i # 1
        BY <1>1, <2>3, <3>1, <4>1 DEF QueueInv
      <4> HIDE DEF CallType
      <4>3. i - 1 \in 1 .. Len(queue') /\ queue'[i - 1] = queue[i]
        BY <1>5, <2>1, <4>2
      <4>4. m \in Queued'
        BY <4>1, <4>3 DEF Queued
      <4> QED BY <3>1, <4>4 DEF Waits
    <3> QED BY <3>1, <3>2, <3>3
  <2>7. OwedIs(c.no)'
    <3>1. \A m \in Pending' \cup Queued' : m[2] \in owed'
      BY <1>2, <1>3, <2>2
    <3> QED BY <1>2, <1>3, <2>6, <3>1, Zenon DEF OwedIs
  <2>8. OutIs(c.no)'
    BY <1>2, <2>1, <2>2, <2>3, <2>4, Zenon DEF OutIs
  <2> QED BY <2>4, <2>5, <2>7, <2>8 DEF Due
<1>6. CASE ~FromFile /\ queue = <<>>
  <2>1. UNCHANGED queue /\ c = NoCall
    BY <1>6 DEF GetNextMessage, NextCall
  <2>2. Queued' = Queued
    BY <2>1, SameQueued
  <2>3. OwedIs(0)'
    BY <1>2, <1>3, <2>2, Zenon DEF OwedIs, Waits
  <2>4. OutIs(0)'
    BY DEF OutIs
  <2> QED BY <2>1, <2>3, <2>4 DEF Due
<1> QED BY <1>4, <1>5, <1>6

\* Confirming the message that is out settles it and no other.
LEMMA ConfirmStorage ==
  ASSUME StorageInv, NEW o, Due(o), o # 0, ConfirmLast
  PROVE  /\ StorageInv' /\ Queued' = Queued /\ clock' = clock
         /\ Pending' \subseteq Pending
         /\ \A m \in Pending : m \in Pending' \/ m[2] = o
         /\ \A m \in Pending' \cup Queued' : m[2] # o
<1>1. /\ FilesInv /\ CacheInv /\ LoadedInv /\ QueueInv /\ RingInv /\ OrderInv /\ CacheOrder /\ TimesInv
      /\ clock \in Nat /\ clock <= clock /\ TidyAll(files, clock)
  BY DEF StorageInv, RingInv, OrderInv
<1>2. UNCHANGED <<oldest, queue, ring, last_from_file, clock>>
  BY DEF ConfirmLast
<1>3. /\ last_from_file => loaded.data /\ loaded.call.no = o
      /\ ~last_from_file => /\ \A i \in 1 .. Len(queue) : o < queue[i].no
                            /\ \A e \in Entry : o \notin Numbers(files[e])
  BY Zenon DEF Due, OutIs
<1>4. Moves(files, files', clock, clock, {})
  BY <1>1, <1>3, ConfirmMoves
<1>5. OrderInv' /\ Pending' \subseteq Pending
  <2>1. clock' \in Nat /\ clock <= clock' /\ Moves(files, files', clock, clock', {})
    BY <1>1, <1>2, <1>4
  <2> QED BY <1>1, <1>2, <2>1, MovesKeep
<1>6. Oldest(oldest', files', clock')
  <2>1. Oldest(oldest, files', clock)
    BY <1>1, <1>4, OldestMoves DEF CacheInv, CacheOrder
  <2> QED BY <1>2, <2>1, Zenon
<1>7. CacheInv' /\ QueueInv' /\ RingInv' /\ TimesInv' /\ Queued' = Queued
  BY <1>1, <1>2, SameQueued DEF CacheInv, QueueInv, RingInv, TimesInv
<1>8. CASE last_from_file
  <2> PICK e : e = loaded.entry
    OBVIOUS
  <2> PICK f : f = files[e]
    OBVIOUS
  <2> PICK new : new = files'
    OBVIOUS
  <2>1. loaded.data /\ loaded.call.no = o
    BY <1>3, <1>8
  <2>2. /\ e \in Entry /\ NextKind(f) # "none"
        /\ Message(loaded.call) = <<NextKind(f), NextNo(f)>> /\ loaded.next = f.conf + 1
        /\ loaded \in LoadedType
    BY <1>1, <2>1, Zenon DEF LoadedInv, LoadedRight
  <2>3. loaded.call.kind = NextKind(f) /\ NextNo(f) = o /\ e # NoEntry
    BY <2>1, <2>2, EntryIs DEF Message
  <2>4. IsRight(f) /\ f # NoFile
    BY <1>1, <2>2, NoFileRight DEF FilesInv
  <2>5. new = [files EXCEPT ![e] = Confirmed(f)] /\ loaded' = [loaded EXCEPT !.data = FALSE]
    BY <1>8, <2>3, <2>4, Zenon DEF ConfirmLast
  <2>6. IsRight(Confirmed(f)) /\ \A m \in PendingIn(f) : m \in PendingIn(Confirmed(f)) \/ m = <<NextKind(f), NextNo(f)>>
    BY <2>2, <2>3, <2>4, ConfirmedLoses
  <2> PICK g : g = Confirmed(f)
    OBVIOUS
  <2>7. files \in [Entry -> FileType] /\ \A d \in Entry : IsRight(files[d])
    BY <1>1 DEF FilesInv
  <2>8. g \in FileType
    BY <2>6 DEF IsRight
  <2>9. new \in [Entry -> FileType] /\ new[e] = g /\ \A d \in Entry : d # e => new[d] = files[d]
    <3> HIDE DEF FileType
    <3> QED BY <2>2, <2>5, <2>7, <2>8
  <2>10. FilesInv'
    <3>1. \A d \in Entry : IsRight(new[d])
      BY <2>6, <2>7, <2>9, Zenon
    <3> QED BY <2>9, <3>1 DEF FilesInv
  <2>11. LoadedInv' /\ ~loaded'.data
    <3>1. loaded' = LoadLit(FALSE, e, loaded.time, loaded.call, loaded.next)
      BY <2>2, <2>5, UnloadIs, Zenon
    <3>2. loaded.time \in Nat /\ e \in Entry \cup {NoEntry}
      BY <2>2, LoadFields
    <3>3. IsUnloaded(loaded', e, loaded.time)
      BY <2>2, <3>1, <3>2, UnloadFields, Zenon
    <3> QED BY <3>3, Zenon DEF IsUnloaded, LoadedInv, LoadedRight
  <2>12. CacheOrder'
    BY <1>6, <2>11, Zenon DEF CacheOrder, First
  <2>13. ASSUME NEW m \in Pending PROVE m \in Pending' \/ m[2] = o
    <3>1. PICK d \in Entry : m \in PendingIn(files[d])
      BY DEF Pending
    <3>2. m \in PendingIn(new[d]) \/ m = <<NextKind(f), NextNo(f)>>
      BY <2>6, <2>9, <3>1, Zenon
    <3> QED BY <2>3, <3>2 DEF Pending
  <2>14. Tidy(f, clock)
    BY <1>1, <2>2 DEF TidyAll
  <2>15. <<NextKind(f), NextNo(f)>> \in Pending /\ NextNo(f) \in Numbers(f)
    BY <1>1, <2>2, <2>14, NextIsOld DEF Pending
  <2>16. ASSUME NEW m \in Pending' PROVE m[2] # o
    <3>1. Message(loaded.call) \notin Pending'
      BY <1>1, <1>8, <2>1, ConfirmGone
    <3>2. m \in Pending /\ m # <<NextKind(f), NextNo(f)>>
      BY <1>5, <2>2, <3>1
    <3> QED BY <1>1, <2>3, <2>15, <3>2, NumberOnce
  <2>17. ASSUME NEW m \in Queued' PROVE m[2] # o
    <3>1. \A i \in 1 .. Len(queue) : queue[i].no # o
      BY <1>1, <2>2, <2>3, <2>15 DEF OrderInv, Line
    <3> QED BY <1>7, <3>1 DEF Queued
  <2> QED BY <1>2, <1>5, <1>7, <2>10, <2>11, <2>12, <2>13, <2>16, <2>17 DEF StorageInv
<1>9. CASE ~last_from_file
  <2>1. UNCHANGED <<files, loaded>>
    BY <1>9, Zenon DEF ConfirmLast
  <2>2. FilesInv' /\ LoadedInv' /\ CacheOrder'
    BY <1>1, <1>2, <2>1, Zenon DEF FilesInv, LoadedInv, CacheOrder
  <2>3. Pending' = Pending
    BY <2>1, SamePending
  <2>4. ASSUME NEW m \in Queued' PROVE m[2] # o
    <3>1. \A i \in 1 .. Len(queue) : queue[i].no # o
      BY <1>1, <1>3, <1>9, QueueIs DEF Due
    <3> QED BY <1>7, <3>1 DEF Queued
  <2>5. ASSUME NEW m \in Pending PROVE m[2] # o
    <3>1. PICK e \in Entry : m \in PendingIn(files[e])
      BY DEF Pending
    <3>2. Tidy(files[e], clock)
      BY <1>1 DEF TidyAll
    <3>3. m[2] \in Numbers(files[e])
      BY <1>1, <3>1, <3>2, PendingNumbers
    <3> QED BY <1>3, <1>9, <3>3
  <2> QED BY <1>2, <1>5, <1>7, <2>2, <2>3, <2>4, <2>5 DEF StorageInv
<1> QED BY <1>8, <1>9

LEMMA ConfirmDue ==
  ASSUME StorageInv, NEW o, Due(o), o # 0, ConfirmLast, owed' = owed \ {o}
  PROVE  StorageInv' /\ Due(0)' /\ o \in owed
<1>1. /\ StorageInv' /\ Queued' = Queued /\ clock' = clock /\ Pending' \subseteq Pending
      /\ \A m \in Pending : m \in Pending' \/ m[2] = o
      /\ \A m \in Pending' \cup Queued' : m[2] # o
  BY ConfirmStorage
<1>2. /\ owed \subseteq 1 .. clock /\ \A m \in Pending \cup Queued : m[2] \in owed
      /\ \A n \in owed : n = o \/ Waits(n)
      /\ o \in owed
  BY DEF Due, OwedIs, OutIs
<1>3. \A n \in owed' : Waits(n)'
  <2> SUFFICES ASSUME NEW n \in owed, n # o PROVE Waits(n)'
    OBVIOUS
  <2>1. PICK m \in Pending \cup Queued : m[2] = n
    BY <1>2 DEF Waits
  <2>2. m \in Pending' \cup Queued'
    BY <1>1, <2>1
  <2> QED BY <2>1, <2>2 DEF Waits
<1>4. OwedIs(0)'
  <2>1. owed' \subseteq 1 .. clock'
    BY <1>1, <1>2
  <2>2. \A m \in Pending' \cup Queued' : m[2] \in owed'
    BY <1>1, <1>2
  <2> QED BY <1>3, <2>1, <2>2, Zenon DEF OwedIs
<1>5. OutIs(0)'
  BY DEF OutIs
<1> QED BY <1>1, <1>2, <1>4, <1>5 DEF Due

\* A step that leaves the storage but its count alone.
LEMMA SameDue ==
  ASSUME StorageInv, NEW o, Due(o),
         UNCHANGED <<files, oldest, loaded, queue, ring, last_from_file, clock, owed>>
  PROVE  StorageInv' /\ Due(o)'
<1>1. StorageInv'
  BY Zenon DEF StorageInv, FilesInv, CacheInv, LoadedInv, QueueInv, RingInv, OrderInv, CacheOrder, TimesInv
<1>2. Pending' = Pending /\ Queued' = Queued
  BY SamePending, SameQueued
<1>3. OwedIs(o)'
  BY <1>2, Zenon DEF Due, OwedIs, Waits
<1>4. OutIs(o)'
  BY Zenon DEF Due, OutIs
<1> QED BY <1>1, <1>3, <1>4 DEF Due

-----------------------------------------------------------------------------
(* From the message that is out to the one that is out after a step.       *)

\* A step from o to p, as Delivery takes it.
Delivers(o, p) ==
    \/ p = o /\ owed \subseteq owed' /\ \A m \in owed' \ owed : \A n \in owed : n < m
    \/ o = 0 /\ p \in owed /\ (\A n \in owed : p <= n) /\ owed' = owed
    \/ o \in owed /\ owed' = owed \ {o} /\ p = 0

StoreGoes(o, p) == StorageInv' /\ Due(p)' /\ Delivers(o, p)
TaskGoes(p) == Holds(p)' /\ PlacesInv'

Delivering(o) == StorageInv /\ TaskInv /\ Due(o) /\ Holds(o) /\ PlacesInv

LEMMA StoreStays ==
  ASSUME NEW o, Delivering(o), UNCHANGED <<store, owed>>
  PROVE  StoreGoes(o, o)
<1>1. StorageInv' /\ Due(o)'
  BY SameDue DEF Delivering, store
<1>2. Delivers(o, o)
  BY DEF Delivers
<1> QED BY <1>1, <1>2 DEF StoreGoes

LEMMA NoneIs == NoActive.no = 0 /\ NoActive.uid = 0 /\ CallIs(NoActive)
BY DEF NoActive, CallIs

LEMMA OutIsNat ==
  ASSUME NEW o, Delivering(o)
  PROVE  o \in Nat
BY DEF Delivering, Due

\* What failing the call c makes of the message that is out: c is none, or is
\* kept for another attempt, or is settled.
FailsTo(c, o, p) ==
    \/ c.no = 0 /\ p = o /\ UNCHANGED failed
    \/ c.no = o /\ o # 0 /\ p = o /\ CallIs(failed)' /\ failed'.no = o
    \/ c.no = o /\ o # 0 /\ p = 0 /\ UNCHANGED failed

LEMMA FinishGoes ==
  ASSUME NEW o, Delivering(o), NEW c, c.no = o, o # 0, Finish(c)
  PROVE  StoreGoes(o, 0) /\ FailsTo(c, o, 0)
<1>1. ConfirmLast /\ owed' = owed \ {o} /\ UNCHANGED failed
  BY DEF Finish
<1>2. StorageInv' /\ Due(0)' /\ o \in owed
  BY <1>1, ConfirmDue DEF Delivering
<1>3. Delivers(o, 0)
  BY <1>1, <1>2 DEF Delivers
<1> QED BY <1>1, <1>2, <1>3 DEF StoreGoes, FailsTo

LEMMA FailGoes ==
  ASSUME NEW o, Delivering(o), NEW c, CallIs(c), c.no \in {0, o}, Fail(c)
  PROVE  \E p \in {0, o} : StoreGoes(o, p) /\ FailsTo(c, o, p)
<1>1. CASE c.no = 0
  <2>1. UNCHANGED <<store, owed, failed>>
    BY <1>1 DEF Fail, IsTransaction
  <2> QED BY <1>1, <2>1, StoreStays DEF FailsTo
<1>2. CASE c.no # 0 /\ MayRetry(c)
  <2>1. UNCHANGED <<store, owed>> /\ failed' = [c EXCEPT !.tries = @ + 1]
    BY <1>2 DEF Fail, IsTransaction, Retry
  <2>2. /\ c = [no |-> c.no, uid |-> c.uid, tries |-> c.tries]
        /\ c # NoActive /\ c.uid # 0
    BY <1>2, NoneIs DEF CallIs
  <2> PICK d : d = [no |-> c.no, uid |-> c.uid, tries |-> c.tries + 1]
    OBVIOUS
  <2>3. failed' = d
    BY <2>1, <2>2
  <2>4. d.no = c.no /\ CallIs(d)
    BY <2>2 DEF CallIs
  <2>5. CallIs(failed)' /\ failed'.no = o
    BY <1>2, <2>3, <2>4, Zenon DEF CallIs
  <2> QED BY <1>2, <2>1, <2>5, StoreStays DEF FailsTo
<1>3. CASE c.no # 0 /\ ~MayRetry(c)
  <2>1. Finish(c)
    BY <1>3 DEF Fail, IsTransaction
  <2> QED BY <1>3, <2>1, FinishGoes
<1> QED BY <1>1, <1>2, <1>3

\* The active call is gone, after it has failed or been settled.
LEMMA ActiveGone ==
  ASSUME NEW o, Holds(o), held = NoActive \/ active = held, NEW p, FailsTo(active, o, p),
         active' = NoActive, held' = NoActive, UNCHANGED blocked
  PROVE  Holds(p)'
<1>1. CASE active.no = 0 /\ p = o /\ UNCHANGED failed
  BY <1>1, NoneIs DEF Holds, CallIs
<1>2. CASE active.no = o /\ o # 0 /\ p = o /\ CallIs(failed)' /\ failed'.no = o
  BY <1>2, NoneIs DEF Holds, CallIs
<1>3. CASE active.no = o /\ o # 0 /\ p = 0 /\ UNCHANGED failed
  BY <1>3, NoneIs DEF Holds, CallIs
<1> QED BY <1>1, <1>2, <1>3 DEF FailsTo

-----------------------------------------------------------------------------
(* The steps of the tasks.                                                 *)

LEMMA SessionGoes ==
  ASSUME met' = {}, NEW o, Delivering(o), Start \/ Sample \/ Stop
  PROVE  StoreGoes(o, o) /\ TaskGoes(o)
<1>1. StorageInv /\ Due(o)
  BY DEF Delivering
<1>2. StorageInv' /\ Adding
  <2>1. CASE Start
    <3>1. \A c \in oldest : c.entry # VacantEntry
      BY <2>1 DEF Start, Meet
    <3> QED BY <1>1, <2>1, <3>1, StartStores DEF Start, Room
  <2>2. CASE Stop
    BY <1>1, <2>2, StopStores DEF Stop, Room
  <2>3. CASE Sample /\ Queueable
    <3>1. QueueSend(files[ActiveEntry].start, UnknownId) /\ clock < MaxNo /\ Active # {}
      BY <2>3 DEF Sample, Room
    <3>2. files[ActiveEntry].start \in Nat
      BY <1>1, <3>1, ActiveIs DEF StorageInv, FilesInv, FileType
    <3>3. UnknownId \in Id
      BY DEF Id
    <3> QED BY <1>1, <3>1, <3>2, <3>3, SendStores
  <2>4. CASE Sample /\ ~Queueable
    BY <1>1, <2>4, WriteStores DEF Sample, Room
  <2> QED BY <2>1, <2>2, <2>3, <2>4
<1>3. owed' = owed \cup {clock'}
  BY DEF Start, Sample, Stop
<1>4. StoreGoes(o, o)
  <2>1. Due(o)' /\ \A m \in owed' \ owed : \A n \in owed : n < m
    BY <1>1, <1>2, <1>3, AddingDue
  <2>2. Delivers(o, o)
    BY <1>3, <2>1 DEF Delivers
  <2> QED BY <1>2, <2>1, <2>2 DEF StoreGoes
<1>5. UNCHANGED <<active, failed, blocked, held, pc, awaiting, answering, wire>> /\ bits' = bits \cup {"enqueued"}
  BY DEF Start, Sample, Stop, Notify, calls, task, network
<1>6. Holds(o)' /\ PlacesInv'
  BY <1>5 DEF Delivering, Holds, PlacesInv, CallIs
<1> QED BY <1>4, <1>6 DEF TaskGoes

LEMMA WakeGoes ==
  ASSUME met' = {}, NEW o, Delivering(o), Wake
  PROVE  StoreGoes(o, o) /\ TaskGoes(o)
<1>1. StoreGoes(o, o)
  BY StoreStays DEF Wake
<1>2. UNCHANGED <<active, failed, blocked, held, answering, wire>> /\ pc = "wait" /\ bits' = {}
  BY DEF Wake, calls, network
<1>3. Holds(o)'
  BY <1>2 DEF Delivering, Holds, CallIs
<1>4. PlacesInv'
  <2>1. PlacesInv
    BY DEF Delivering
  <2>2. awaiting' = (awaiting /\ "matching" \notin bits /\ "timeout" \notin bits)
    BY DEF Wake, StillAwaiting
  <2>3. CASE "timeout" \in bits
    <3>1. pc' = "timeout" /\ ~answering
      BY <2>3 DEF Wake, Meet
    <3> QED BY <1>2, <2>1, <2>3, <3>1 DEF PlacesInv
  <2>4. CASE "timeout" \notin bits
    <3>1. pc' = "wait" \/ (pc' = "count" /\ ~awaiting')
      BY <2>4 DEF Wake, Onward
    <3> QED BY <1>2, <2>1, <2>2, <2>4, <3>1 DEF PlacesInv
  <2> QED BY <2>3, <2>4
<1> QED BY <1>1, <1>3, <1>4 DEF TaskGoes

LEMMA TimeoutActiveGoes ==
  ASSUME NEW o, Delivering(o), TimeoutActive
  PROVE  \E p \in Nat : StoreGoes(o, p) /\ TaskGoes(p)
<1>1. Holds(o) /\ PlacesInv /\ held = NoActive /\ active.no \in {0, o} /\ CallIs(active)
  BY DEF Delivering, TimeoutActive, PlacesInv, Holds
<1>2. PICK p \in {0, o} : StoreGoes(o, p) /\ FailsTo(active, o, p)
  BY <1>1, FailGoes DEF TimeoutActive
<1>3. active' = NoActive /\ UNCHANGED <<blocked, held, answering, bits, wire, awaiting>> /\ pc' \in {"count", "wait"} /\ pc = "timeout"
  BY DEF TimeoutActive, Onward, network
<1>4. Holds(p)'
  BY <1>1, <1>2, <1>3, ActiveGone
<1>5. PlacesInv'
  BY <1>1, <1>3 DEF PlacesInv
<1>6. p \in Nat
  BY OutIsNat
<1> QED BY <1>2, <1>4, <1>5, <1>6 DEF TaskGoes

LEMMA CountGoes ==
  ASSUME NEW o, Delivering(o), Count
  PROVE  StoreGoes(o, o) /\ TaskGoes(o)
<1>1. UNCHANGED <<files, oldest, loaded, queue, ring, last_from_file, clock, owed>>
  BY DEF Count, CountMessages
<1>2. StoreGoes(o, o)
  <2>1. StorageInv' /\ Due(o)'
    BY <1>1, SameDue DEF Delivering
  <2> QED BY <1>1, <2>1 DEF StoreGoes, Delivers
<1>3. UNCHANGED <<active, failed, blocked, held, bits, answering, awaiting, wire>> /\ pc = "count" /\ pc' = "acquire"
  BY DEF Count, calls, network
<1>4. Holds(o)' /\ PlacesInv'
  BY <1>3 DEF Delivering, Holds, CallIs, PlacesInv
<1> QED BY <1>2, <1>4 DEF TaskGoes

\* With no call at hand, nothing is out.
LEMMA NoneOut ==
  ASSUME NEW o, Holds(o), active = NoActive, failed = NoActive, held = NoActive
  PROVE  o = 0
BY NoneIs DEF Holds

LEMMA AcquirePlaces ==
  ASSUME NEW o, Delivering(o), Acquire
  PROVE  /\ active = NoActive /\ held = NoActive /\ blocked = NoActive /\ Holds(o)
         /\ UNCHANGED <<owed, active>>
         /\ (pc' = "wait" => held' = NoActive) => PlacesInv'
<1>1. PlacesInv /\ Holds(o) /\ pc = "acquire"
  BY DEF Delivering, Acquire
<1>2. UNCHANGED <<owed, active, bits, awaiting, answering, wire>> /\ pc' \in {"activate", "wait"}
  BY DEF Acquire, Sleep, network
<1> QED BY <1>1, <1>2 DEF PlacesInv, Holds

\* Asking the storage for a message while no transaction message is at hand.
LEMMA NextGoes ==
  ASSUME NEW o, Delivering(o), o = 0, GetNextMessage, UNCHANGED owed, NEW c, c = NextCall
  PROVE  IF c = NoCall THEN StoreGoes(o, o) ELSE c.no \in Nat \ {0} /\ StoreGoes(o, c.no)
<1>1. StorageInv /\ Due(0)
  BY DEF Delivering
<1>2. StorageInv'
  BY <1>1, TakeStorage
<1>3. CASE c = NoCall
  BY <1>1, <1>2, <1>3, TakeDue DEF StoreGoes, Delivers
<1>4. CASE c # NoCall
  <2>1. Due(c.no)' /\ c.no \in owed /\ c.no # 0 /\ \A n \in owed : c.no <= n
    BY <1>1, <1>4, TakeDue
  <2>2. c.no \in Nat
    BY <2>1 DEF Due
  <2> QED BY <1>2, <1>4, <2>1, <2>2 DEF StoreGoes, Delivers
<1> QED BY <1>3, <1>4

LEMMA NoneGoes ==
  ASSUME NEW o, Delivering(o), NoneStored, UNCHANGED owed, active = NoActive, held = NoActive
  PROVE  StoreGoes(o, o)
<1>1. CASE UNCHANGED store
  BY <1>1, StoreStays
<1>2. CASE ~IsCall(failed) /\ GetNextMessage /\ NextCall = NoCall
  <2>1. o = 0
    BY <1>2, NoneOut DEF IsCall, Delivering
  <2> QED BY <1>2, <2>1, NextGoes
<1> QED BY <1>1, <1>2 DEF NoneStored

LEMMA AcquireGoes ==
  ASSUME NEW o, Delivering(o), Acquire
  PROVE  \E p \in Nat : StoreGoes(o, p) /\ TaskGoes(p)
<1>1. /\ active = NoActive /\ held = NoActive /\ blocked = NoActive /\ Holds(o)
      /\ UNCHANGED <<owed, active>>
      /\ (pc' = "wait" => held' = NoActive) => PlacesInv'
  BY AcquirePlaces
<1>2. o \in Nat /\ NewUid # 0
  BY OutIsNat, NewUidReal DEF Delivering, TaskInv
<1>3. CASE AcquireFailed /\ pc' = "activate"
  <2>1. held' = failed /\ failed' = NoActive /\ blocked' = NoActive /\ UNCHANGED store
    BY <1>1, <1>3 DEF AcquireFailed, IsCall
  <2>2. StoreGoes(o, o)
    BY <1>1, <2>1, StoreStays
  <2>3. Holds(o)'
    BY <1>1, <2>1, NoneIs DEF Holds, CallIs
  <2> QED BY <1>1, <1>2, <1>3, <2>2, <2>3 DEF TaskGoes
<1>4. CASE AcquireBlocked
  BY <1>1, <1>4 DEF AcquireBlocked, IsCall
<1>5. CASE AcquireStored /\ pc' = "activate"
  <2> PICK c : c = NextCall
    OBVIOUS
  <2>1. /\ failed = NoActive /\ GetNextMessage /\ c # NoCall
        /\ held' = [no |-> c.no, uid |-> NewUid, tries |-> 0]
        /\ UNCHANGED <<failed, blocked>>
    BY <1>5 DEF AcquireStored, IsCall
  <2>2. o = 0
    BY <1>1, <2>1, NoneOut
  <2>3. c.no \in Nat \ {0} /\ StoreGoes(o, c.no)
    BY <1>1, <2>1, <2>2, NextGoes
  <2>4. held'.no = c.no /\ CallIs(held)'
    BY <1>2, <2>1 DEF CallIs
  <2>5. Holds(c.no)'
    BY <1>1, <2>1, <2>4, NoneIs DEF Holds, CallIs
  <2> QED BY <1>1, <1>5, <2>3, <2>5 DEF TaskGoes
<1>6. CASE NoneStored /\ held' = [NoActive EXCEPT !.uid = NewUid] /\ pc' = "activate" /\ UNCHANGED <<failed, blocked>>
  <2>1. StoreGoes(o, o)
    BY <1>1, <1>6, NoneGoes
  <2>2. held' = [no |-> 0, uid |-> NewUid, tries |-> 0]
    BY <1>6 DEF NoActive
  <2>3. held'.no = 0 /\ CallIs(held)'
    BY <1>2, <2>2 DEF CallIs
  <2>4. Holds(o)'
    BY <1>1, <1>6, <2>3, NoneIs DEF Holds, CallIs
  <2> QED BY <1>1, <1>2, <1>6, <2>1, <2>4 DEF TaskGoes
<1>7. CASE NoneStored /\ held' = NoActive /\ UNCHANGED <<failed, blocked>>
  <2>1. StoreGoes(o, o)
    BY <1>1, <1>7, NoneGoes
  <2>2. Holds(o)'
    BY <1>1, <1>7 DEF Holds, CallIs
  <2> QED BY <1>1, <1>2, <1>7, <2>1, <2>2 DEF TaskGoes
<1> QED BY <1>3, <1>4, <1>5, <1>6, <1>7 DEF Acquire, Sleep

LEMMA ActivateGoes ==
  ASSUME NEW o, Delivering(o), Activate
  PROVE  StoreGoes(o, o) /\ TaskGoes(o)
<1>1. PlacesInv /\ Holds(o) /\ pc = "activate" /\ active = NoActive
  BY DEF Delivering, Activate, PlacesInv
<1>2. UNCHANGED <<store, owed, failed>>
  BY <1>1 DEF Activate, IsCall
<1>3. active' = held /\ pc' = "send" /\ UNCHANGED <<blocked, held, bits, answering, awaiting, wire>>
  BY DEF Activate, network
<1>4. Holds(o)' /\ PlacesInv'
  BY <1>1, <1>2, <1>3 DEF Holds, CallIs, PlacesInv
<1> QED BY <1>2, <1>4, StoreStays DEF TaskGoes

\* A retry is at hand before anything else is, so no call has to wait for one.
LEMMA NoBlock ==
  ASSUME NEW o, Delivering(o)
  PROVE  ~Block
BY DEF Delivering, Holds, Block, MustWait, IsTransaction, IsCall

LEMMA SendGoes ==
  ASSUME NEW o, Delivering(o), Send
  PROVE  StoreGoes(o, o) /\ TaskGoes(o)
<1>1. PlacesInv /\ Holds(o) /\ pc = "send" /\ active = held /\ held # NoActive /\ held.uid # 0
  BY DEF Delivering, Send, PlacesInv, TaskInv, IsCall, Holds, CallIs
<1>2. /\ UNCHANGED <<store, owed, active, failed, blocked, bits, answering>>
      /\ held' = NoActive /\ pc' = "wait" /\ awaiting' = TRUE
      /\ wire' \subseteq wire \cup {held.uid}
  BY DEF Send, Sleep, calls
<1>3. Holds(o)'
  BY <1>1, <1>2, NoneIs DEF Holds, CallIs
<1>4. PlacesInv'
  BY <1>1, <1>2 DEF PlacesInv
<1> QED BY <1>2, <1>3, <1>4, StoreStays DEF TaskGoes

LEMMA SendFailsGoes ==
  ASSUME NEW o, Delivering(o), SendFails
  PROVE  \E p \in Nat : StoreGoes(o, p) /\ TaskGoes(p)
<1>1. Holds(o) /\ PlacesInv /\ pc = "send" /\ active = held /\ active.no \in {0, o} /\ CallIs(active)
  BY DEF Delivering, SendFails, PlacesInv, Holds
<1>2. PICK p \in {0, o} : StoreGoes(o, p) /\ FailsTo(active, o, p)
  BY <1>1, FailGoes DEF SendFails
<1>3. /\ active' = NoActive /\ held' = NoActive /\ pc' = "wait"
      /\ UNCHANGED <<blocked, answering, bits, wire, awaiting>>
  BY DEF SendFails, Sleep, network
<1>4. Holds(p)'
  BY <1>1, <1>2, <1>3, ActiveGone
<1>5. PlacesInv'
  BY <1>1, <1>3 DEF PlacesInv
<1>6. p \in Nat
  BY OutIsNat
<1> QED BY <1>2, <1>4, <1>5, <1>6 DEF TaskGoes

LEMMA AnswerGoes ==
  ASSUME met' = {}, NEW o, Delivering(o), NEW uid, NEW result, Answer(uid, result)
  PROVE  \E p \in Nat : StoreGoes(o, p) /\ TaskGoes(p)
<1>1. /\ PlacesInv /\ Holds(o) /\ uid \in wire /\ uid # 0 /\ ~answering
      /\ o \in Nat
  BY OutIsNat DEF Answer, Delivering, PlacesInv
<1>2. UNCHANGED <<blocked, bits, pc, held, awaiting>> /\ wire' = wire \ {uid}
  BY DEF Answer, task
<1>3. CASE active.uid = uid
  <2>1. active # NoActive
    BY <1>1, <1>3, NoneIs
  <2>2. pc = "wait" /\ awaiting /\ "matching" \notin bits /\ held = NoActive
    <3>1. pc # "timeout" /\ pc # "send"
      BY <1>3 DEF Answer, Meet
    <3> QED BY <1>1, <2>1, <3>1 DEF PlacesInv
  <2>3. active.no \in {0, o} /\ CallIs(active)
    BY <1>1 DEF Holds
  <2>4. active' = NoActive /\ answering' = TRUE
    BY <1>3 DEF Answer
  <2>5. (Finish(active) /\ active.no # 0) \/ Fail(active)
    BY <1>3 DEF Answer, IsTransaction
  <2>6. PICK p \in {0, o} : StoreGoes(o, p) /\ FailsTo(active, o, p)
    <3>1. CASE Finish(active) /\ active.no # 0
      BY <2>3, <3>1, FinishGoes
    <3>2. CASE Fail(active)
      BY <2>3, <3>2, FailGoes
    <3> QED BY <2>5, <3>1, <3>2
  <2>7. Holds(p)'
    BY <1>1, <1>2, <2>2, <2>4, <2>6, ActiveGone
  <2>8. PlacesInv'
    BY <1>1, <1>2, <2>2, <2>4 DEF PlacesInv
  <2> QED BY <1>1, <2>6, <2>7, <2>8 DEF TaskGoes
<1>4. CASE active.uid # uid
  <2>1. UNCHANGED <<store, owed, failed, active, answering>>
    BY <1>4 DEF Answer
  <2>2. Holds(o)' /\ PlacesInv'
    BY <1>1, <1>2, <2>1 DEF Holds, CallIs, PlacesInv
  <2> QED BY <1>1, <2>1, <2>2, StoreStays DEF TaskGoes
<1> QED BY <1>3, <1>4

\* The steps that leave the storage, what is owed and the calls alone.
LEMMA OtherGoes ==
  ASSUME NEW o, Delivering(o),
         Generic \/ Answered \/ Timeout \/ Ripen \/ Connect
         \/ (\E uid \in wire : Lose(uid)) \/ Disconnect \/ UNCHANGED vars
  PROVE  StoreGoes(o, o) /\ TaskGoes(o)
<1>1. UNCHANGED <<store, owed, active, failed, blocked, held, pc, awaiting>>
  BY DEF Generic, Answered, Timeout, Ripen, Connect, Lose, Disconnect, calls, task, vars
<1>2. Holds(o)'
  BY <1>1 DEF Delivering, Holds, CallIs
<1>3. wire' \subseteq wire
  BY DEF Generic, Answered, Timeout, Ripen, Connect, Lose, Disconnect, network, vars
<1>4. PlacesInv'
  <2>1. CASE Answered
    <3>1. answering /\ ~answering' /\ bits' = bits \cup {"matching"}
      BY <2>1 DEF Answered, Notify
    <3> QED BY <1>1, <1>3, <3>1 DEF Delivering, PlacesInv
  <2>2. CASE Timeout
    <3>1. UNCHANGED answering /\ (bits' = bits \/ (active # NoActive /\ bits' = bits \cup {"timeout"}))
      BY <2>2 DEF Timeout, Notify, IsCall
    <3> QED BY <1>1, <1>3, <3>1 DEF Delivering, PlacesInv
  <2>3. CASE Generic \/ Ripen \/ Connect \/ (\E uid \in wire : Lose(uid)) \/ Disconnect \/ UNCHANGED vars
    <3>1. UNCHANGED answering /\ bits' \subseteq bits \cup {"enqueued", "changed"} /\ bits \subseteq bits'
      BY <2>3 DEF Generic, Ripen, Connect, Lose, Disconnect, Notify, vars
    <3> QED BY <1>1, <1>3, <3>1 DEF Delivering, PlacesInv
  <2> QED BY <2>1, <2>2, <2>3
<1> QED BY <1>1, <1>2, <1>4, StoreStays DEF TaskGoes

LEMMA DeliveringNext ==
  ASSUME met' = {}, NEW o, Delivering(o), [Next]_vars
  PROVE  \E p \in Nat : Delivering(p)' /\ Delivers(o, p)
<1>1. TaskInv'
  BY TaskNext DEF Delivering
<1>2. \E p \in Nat : StoreGoes(o, p) /\ TaskGoes(p)
  <2>1. o \in Nat
    BY OutIsNat
  <2>2. CASE Start \/ Sample \/ Stop
    BY <2>1, <2>2, SessionGoes
  <2>3. CASE MainStep
    BY <2>1, <2>3, WakeGoes, TimeoutActiveGoes, CountGoes, AcquireGoes, ActivateGoes, NoBlock, SendGoes,
       SendFailsGoes DEF MainStep
  <2>4. CASE \E uid \in wire : \E result \in BOOLEAN : Answer(uid, result)
    BY <2>4, AnswerGoes
  <2>5. CASE Generic \/ Answered \/ Timeout \/ Ripen \/ Connect
             \/ (\E uid \in wire : Lose(uid)) \/ Disconnect \/ UNCHANGED vars
    BY <2>1, <2>5, OtherGoes
  <2> QED BY <2>2, <2>3, <2>4, <2>5 DEF Next
<1>3. PICK p \in Nat : StoreGoes(o, p) /\ TaskGoes(p)
  BY <1>2
<1>4. Delivering(p)'
  BY <1>1, <1>3 DEF Delivering, StoreGoes, TaskGoes
<1> QED BY <1>3, <1>4 DEF StoreGoes

\* Nothing is stored at first.
LEMMA DeliveringInit ==
  ASSUME Init
  PROVE  Delivering(0)
<1>1. TaskInv
  BY FS_EmptySet DEF Init, TaskInv
<1>2. StorageInv /\ Pending = {} /\ Queued = {}
  BY EmptyStorage DEF Init, StorageInv
<1>3. Due(0)
  BY <1>2 DEF Due, OwedIs, OutIs, Init
<1>4. Holds(0) /\ PlacesInv
  BY NoneIs DEF Init, Holds, PlacesInv
<1> QED BY <1>1, <1>2, <1>3, <1>4 DEF Delivering

-----------------------------------------------------------------------------
(* The refinement.                                                         *)

LEMMA OnlyOne ==
  ASSUME NEW S, NEW o, S = {o} \ {0}
  PROVE  (IF S = {} THEN 0 ELSE CHOOSE n \in S : TRUE) = o
OBVIOUS

LEMMA TakenIs ==
  ASSUME NEW a, NEW f, NEW b, NEW h, NEW o, b = NoActive,
         {a.no, f.no, h.no} \subseteq {0, o}, o \in {0, a.no, f.no, h.no}
  PROVE  {c.no : c \in {a, f, b, h}} \ {0} = {o} \ {0}
BY NoneIs

LEMMA OutIsDue ==
  ASSUME NEW o, NEW p, Delivering(o), Delivering(p)'
  PROVE  Out = o /\ Out' = p
<1>1. Taken = {o} \ {0}
  BY TakenIs DEF Taken, Delivering, Holds
<1>2. Taken' = {p} \ {0}
  BY TakenIs DEF Taken, Delivering, Holds
<1> QED BY <1>1, <1>2, OnlyOne DEF Out

DeliveryInv == met = {} => \E o \in Nat : Delivering(o)

\* A coincidence that has come about stays on record.
LEMMA MetStays ==
  ASSUME [Next]_vars, met' = {}
  PROVE  met = {}
<1>1. CASE Start \/ Sample \/ Stop \/ Generic
  BY <1>1 DEF Start, Sample, Stop, Generic, Meet
<1>2. CASE MainStep
  BY <1>2 DEF MainStep, Wake, TimeoutActive, Count, Acquire, Activate, Block, Send, SendFails, Meet
<1>3. CASE \E uid \in wire : Lose(uid) \/ \E result \in BOOLEAN : Answer(uid, result)
  BY <1>3 DEF Lose, Answer, Meet
<1>4. CASE Answered \/ Timeout \/ Ripen \/ Disconnect \/ Connect \/ UNCHANGED vars
  BY <1>4 DEF Answered, Timeout, Ripen, Disconnect, Connect, vars
<1> QED BY <1>1, <1>2, <1>3, <1>4 DEF Next

\* The calls the OCPP task holds implement delivery in order.  Until a file
\* number is reused while it is cached, a call times out between the match of
\* its answer and the notification, or an answer to an earlier attempt is
\* matched while the call is sent again, each transaction message is handed
\* out as the oldest one owed and alone, stays out through its retries, and is
\* settled once, whatever the session task stores meanwhile, whenever the
\* timer expires and however often the network drops.
THEOREM DeliversInOrder == Spec => ImplementsDelivery
<1>1. Init => Delivery!Init /\ DeliveryInv
  <2> SUFFICES ASSUME Init PROVE Delivery!Init /\ DeliveryInv
    OBVIOUS
  <2>1. Taken = {}
    BY NoneIs DEF Init, Taken
  <2> QED BY <2>1, DeliveringInit DEF Delivery!Init, Init, DeliveryInv, Out
<1>2. DeliveryInv /\ [Next]_vars => DeliveryInv' /\ [met' = {} => Delivery!Next]_<<owed, Out>>
  <2> SUFFICES ASSUME DeliveryInv, [Next]_vars, met' = {}
               PROVE  DeliveryInv' /\ Delivery!Next
    BY DEF DeliveryInv
  <2>1. PICK o \in Nat : Delivering(o)
    BY MetStays DEF DeliveryInv
  <2>2. PICK p \in Nat : Delivering(p)' /\ Delivers(o, p)
    BY <2>1, DeliveringNext
  <2>3. Out = o /\ Out' = p
    BY <2>1, <2>2, OutIsDue
  <2>4. Delivery!Next
    BY <2>2, <2>3 DEF Delivers, Delivery!Next, Delivery!Accept, Delivery!Take, Delivery!Settle
  <2> QED BY <2>2, <2>4 DEF DeliveryInv
<1> QED BY <1>1, <1>2, PTL DEF Spec, ImplementsDelivery
=============================================================================
