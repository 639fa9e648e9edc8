---------------------------- MODULE MidLtsProofs ----------------------------
(***************************************************************************)
(* Theorems about the MID storage for any number of pages, records per     *)
(* page and writers: its type invariant and, when calls are serialized,    *)
(* the retention of meter values, the order of the record ids, that the    *)
(* pages implement the legal log, that a restart can replay them and       *)
(* brings back the numbering and the session, and that no reading of a     *)
(* session is lost while it is open or once it is closed.                  *)
(***************************************************************************)
EXTENDS MCMidLts, FiniteSetTheorems, WellFoundedInduction, TLAPS

\* A finite set has a minimal element under a strict order given as a set of
\* pairs: it provides the first and last page of the scan of mid_init and the
\* record that try_purge looks at.
LEMMA MinimalElement ==
    ASSUME NEW S, IsFiniteSet(S), S # {}, NEW R,
           \A x \in S : <<x, x>> \notin R,
           \A x, y, z \in S : <<x, y>> \in R /\ <<y, z>> \in R => <<x, z>> \in R
    PROVE  \E x \in S : \A y \in S : <<y, x>> \notin R
  <1> DEFINE Below(x) == {y \in S : <<y, x>> \in R}
             T == {Below(x) : x \in S}
  <1>1. IsWellFoundedOn(StrictSubsetOrdering(S), SUBSET S)
    BY FS_StrictSubsetOrderingWellFounded, FS_FiniteSubsetsOfFinite
  <1>2. T \subseteq SUBSET S /\ T # {}
    <2>1. \A x \in S : Below(x) \in SUBSET S
      OBVIOUS
    <2> HIDE DEF Below
    <2> QED BY <2>1
  <1>3. PICK U \in T : \A V \in T : ~(<<V, U>> \in StrictSubsetOrdering(S))
    <2> HIDE DEF T
    <2> QED BY <1>1, <1>2, WFMin
  <1>4. PICK x \in S : U = Below(x)
    BY <1>3
  <1>5. ASSUME NEW y \in S, <<y, x>> \in R PROVE FALSE
    <2>1. Below(y) \subseteq Below(x) /\ y \in Below(x) /\ y \notin Below(y)
      BY <1>5
    <2>2. <<Below(y), Below(x)>> \in StrictSubsetOrdering(S)
      <3>1. Below(y) \in SUBSET S /\ Below(x) \in SUBSET S /\ Below(y) # Below(x)
        BY <2>1
      <3> HIDE DEF Below
      <3> QED BY <2>1, <3>1 DEF StrictSubsetOrdering
    <2>3. Below(y) \in T
      OBVIOUS
    <2> HIDE DEF T, Below
    <2> QED BY <1>3, <1>4, <2>2, <2>3
  <1> QED BY <1>5

\* The index of the latest meter value of a page exists.
LEMMA LastIndex ==
    ASSUME NEW n \in Nat, NEW S \in SUBSET (1 .. n), S # {}
    PROVE  \E i \in S : \A j \in S : j <= i
  <1> DEFINE R == {ij \in S \X S : ij[1] > ij[2]}
  <1>1. IsFiniteSet(S)
    <2>1. IsFiniteSet(1 .. n)
      BY FS_Interval
    <2> QED BY <2>1, FS_Subset
  <1>2. \A x \in S : <<x, x>> \notin R
    OBVIOUS
  <1>3. \A x, y, z \in S : <<x, y>> \in R /\ <<y, z>> \in R => <<x, z>> \in R
    OBVIOUS
  <1>4. PICK i \in S : \A j \in S : <<j, i>> \notin R
    <2> HIDE DEF R
    <2> QED BY <1>1, <1>2, <1>3, MinimalElement
  <1>5. ASSUME NEW j \in S PROVE j <= i
    <2>1. i \in Int /\ j \in Int
      OBVIOUS
    <2>2. ~(j > i)
      BY <1>4
    <2> QED BY <2>1, <2>2
  <1> QED BY <1>5

\* The pages of the scan are numbers, with a first id each.
LEMMA ScanTypes ==
    ASSUME TypeOK, \A p \in files : log[p] # <<>>
    PROVE  IsFiniteSet(files) /\ files \subseteq Int /\ \A p \in files : FirstId(p) \in Nat
  <1>1. IsFiniteSet(files) /\ files \subseteq Int
    <2>1. IsFiniteSet(0 .. MaxPages - 1)
      BY MidLtsAssumption, FS_Interval
    <2>2. files \in SUBSET (0 .. MaxPages - 1)
      BY DEF TypeOK, Page
    <2>3. IsFiniteSet(files)
      BY <2>1, <2>2, FS_Subset
    <2> QED BY <2>2, <2>3
  <1>2. ASSUME NEW p \in files PROVE FirstId(p) \in Nat
    <2>1. log[p] \in Seq(Record) /\ log[p] # <<>>
      BY DEF TypeOK
    <2>2. log[p][1] \in Record
      BY <2>1
    <2> QED BY <2>2 DEF Record, FirstId
  <1> QED BY <1>1, <1>2

\* The page whose first id is the least.
LEMMA FirstPage ==
    ASSUME TypeOK, files # {}, \A p \in files : log[p] # <<>>
    PROVE  \E p \in files : \A q \in files :
              FirstId(p) < FirstId(q) \/ (FirstId(p) = FirstId(q) /\ p <= q)
  <1> DEFINE R == {pq \in files \X files :
                     \/ FirstId(pq[1]) < FirstId(pq[2])
                     \/ FirstId(pq[1]) = FirstId(pq[2]) /\ pq[1] < pq[2]}
  <1> HIDE DEF FirstId
  <1>1. \A x \in files : <<x, x>> \notin R
    BY ScanTypes
  <1>2. \A x, y, z \in files : <<x, y>> \in R /\ <<y, z>> \in R => <<x, z>> \in R
    BY ScanTypes
  <1>3. PICK p \in files : \A q \in files : <<q, p>> \notin R
    <2> HIDE DEF R
    <2> QED BY ScanTypes, <1>1, <1>2, MinimalElement
  <1>4. ASSUME NEW q \in files
        PROVE  FirstId(p) < FirstId(q) \/ (FirstId(p) = FirstId(q) /\ p <= q)
    <2>1. FirstId(p) \in Nat /\ FirstId(q) \in Nat /\ p \in Int /\ q \in Int
      BY ScanTypes
    <2>2. <<q, p>> \notin R
      BY <1>3
    <2> QED BY <2>1, <2>2
  <1> QED BY <1>4

\* The page whose first id is the greatest.
LEMMA LastPage ==
    ASSUME TypeOK, files # {}, \A p \in files : log[p] # <<>>
    PROVE  \E p \in files : \A q \in files :
              FirstId(p) > FirstId(q) \/ (FirstId(p) = FirstId(q) /\ p <= q)
  <1> DEFINE R == {pq \in files \X files :
                     \/ FirstId(pq[1]) > FirstId(pq[2])
                     \/ FirstId(pq[1]) = FirstId(pq[2]) /\ pq[1] < pq[2]}
  <1> HIDE DEF FirstId
  <1>1. \A x \in files : <<x, x>> \notin R
    BY ScanTypes
  <1>2. \A x, y, z \in files : <<x, y>> \in R /\ <<y, z>> \in R => <<x, z>> \in R
    BY ScanTypes
  <1>3. PICK p \in files : \A q \in files : <<q, p>> \notin R
    <2> HIDE DEF R
    <2> QED BY ScanTypes, <1>1, <1>2, MinimalElement
  <1>4. ASSUME NEW q \in files
        PROVE  FirstId(p) > FirstId(q) \/ (FirstId(p) = FirstId(q) /\ p <= q)
    <2>1. FirstId(p) \in Nat /\ FirstId(q) \in Nat /\ p \in Int /\ q \in Int
      BY ScanTypes
    <2>2. <<q, p>> \notin R
      BY <1>3
    <2> QED BY <2>1, <2>2
  <1> QED BY <1>4

\* The scan of mid_session_init_internal finds its first and its last page.
LEMMA ScanPages ==
    ASSUME TypeOK, files # {}, \A p \in files : log[p] # <<>>
    PROVE  MinPage \in files /\ MaxPage \in files
  BY FirstPage, LastPage DEF MinPage, MaxPage

-----------------------------------------------------------------------------
(* Type correctness.                                                       *)

LEMMA AppendType ==
    ASSUME NEW S, NEW s \in Seq(S), NEW e \in S
    PROVE  /\ Append(s, e) \in Seq(S)
           /\ Len(Append(s, e)) = Len(s) + 1
           /\ \A i \in 1 .. Len(s) : Append(s, e)[i] = s[i]
           /\ Append(s, e)[Len(s) + 1] = e
  OBVIOUS

\* mid_session_log_update_state keeps the context well formed.
LEMMA UpdateStateType ==
    ASSUME NEW c \in Context, NEW pos \in Pos, NEW r \in Record
    PROVE  UpdateState(c, pos, r) \in Context
  <1>1. NoActive \in Active
    BY MidLtsAssumption DEF NoActive, NoPos, Active, Pos, Page
  <1>2. c.active \in Active /\ c.active.events \in Seq(Record)
    BY DEF Context, Active
  <1>3. Append(c.active.events, r) \in Seq(Record) /\ <<r>> \in Seq(Record)
    BY <1>2, AppendType
  <1>4. [NoActive EXCEPT !.pos = pos, !.events = <<r>>] \in Active
    BY <1>1, <1>3 DEF Active
  <1>5. [c.active EXCEPT !.events = Append(@, r)] \in Active
    BY <1>2, <1>3 DEF Active
  <1>6. /\ [c.active EXCEPT !.has_id = TRUE] \in Active
        /\ [c.active EXCEPT !.has_auth = TRUE] \in Active
    BY <1>2 DEF Active
  <1>7. NextActive(c, pos, r) \in Active
    <2> HIDE DEF NoActive, Active
    <2> QED BY <1>2, <1>4, <1>5, <1>6 DEF NextActive
  <1>8. ASSUME NEW a \in Active, NEW b \in BOOLEAN
        PROVE  [c EXCEPT !.active = a, !.open = b] \in Context
    BY DEF Context
  <1>9. (IF r.kind = "START" THEN TRUE ELSE IF r.kind = "END" THEN FALSE ELSE c.open) \in BOOLEAN
    BY DEF Context
  <1> QED BY <1>7, <1>8, <1>9 DEF UpdateState

LEMMA CountedType == ASSUME NEW c \in Context PROVE Counted(c) \in Context
  BY DEF Context, Counted

LEMMA ZeroTypes ==
    /\ ZeroCtx \in Context
    /\ ZeroWalk \in Walk
    /\ NoJob \in Job
  BY MidLtsAssumption DEF ZeroCtx, Context, NoActive, Active, NoPos, Pos, Page,
     ZeroWalk, Walk, Error, NoJob, Job, Kind, MeterKind

\* What a step that boots, records or purges leaves well formed: the moves of
\* a writer and its locals.
LEMMA MoveType ==
    ASSUME TypeOK, NEW w \in Writers
    PROVE  /\ \A s \in WriterStates : Goto(w, s) => pc' \in [Writers -> WriterStates]
           /\ Return(w) => pc' \in [Writers -> WriterStates] /\ job' \in [Writers -> Job]
  <1>1. "idle" \in WriterStates
    BY DEF WriterStates
  <1> QED BY <1>1, ZeroTypes DEF TypeOK, Goto, Return

\* The next page of the ring is a page.
LEMMA NextPageType == ASSUME NEW p \in Page PROVE NextPage(p) \in Page
  BY MidLtsAssumption DEF Page, NextPage

\* The locals of the replay after a record.
LEMMA WalkStep ==
    ASSUME NEW v \in Walk, NEW i \in Nat, NEW e \in Error, NEW b \in BOOLEAN
    PROVE  [v EXCEPT !.i = i, !.ret = e, !.allow = b] \in Walk
  <1>1. CASE b = TRUE
    BY <1>1 DEF Walk
  <1>2. CASE b = FALSE
    BY <1>2 DEF Walk
  <1> QED BY <1>1, <1>2

LEMMA TypeInit == Init => TypeOK
  <1> SUFFICES ASSUME Init PROVE TypeOK
    OBVIOUS
  <1>1. log \in [Page -> Seq(Record)]
    BY DEF Init
  <1> QED BY <1>1, ZeroTypes DEF Init, TypeOK, WriterStates

LEMMA TypeBoot == TypeOK /\ Boot => TypeOK'
  <1> SUFFICES ASSUME TypeOK, Boot PROVE TypeOK'
    OBVIOUS
  <1>1. ASSUME NEW e \in Error PROVE [ZeroWalk EXCEPT !.ret = e] \in Walk
    BY ZeroTypes DEF Walk
  <1>2. CASE Scan
    <2>1. CASE \E p \in files : log[p] = <<>>
      BY <1>2, <2>1, <1>1 DEF Scan, BootFails, TypeOK, Error
    <2>2. CASE files = {}
      BY <1>2, <2>2 DEF Scan, TypeOK
    <2>3. CASE files # {} /\ \A p \in files : log[p] # <<>>
      <3>1. MinPage \in Page /\ MaxPage \in Page
        BY <2>3, ScanPages DEF TypeOK
      <3>2. [ZeroWalk EXCEPT !.page = MinPage, !.min = MinPage, !.max = MaxPage] \in Walk
        BY <3>1, ZeroTypes DEF Walk
      <3> QED BY <1>2, <2>3, <3>2 DEF Scan, TypeOK
    <2> QED BY <2>1, <2>2, <2>3
  <1>3. CASE ReplayRecord
    <2> DEFINE r == log[walk.page][walk.i]
               first == walk.page = walk.min /\ walk.i = 1
               c == IF first THEN [ctx EXCEPT !.msg_id = r.rec_id] ELSE ctx
               counted == Counted(c)
               err == Refusal(c, r)
    <2>1. walk.page \in Page /\ walk.i \in Nat \ {0} /\ log[walk.page] \in Seq(Record)
      BY <1>3 DEF ReplayRecord, TypeOK, Walk
    <2>2. r \in Record /\ r.rec_id \in Nat
      <3>1. r \in Record
        BY <1>3, <2>1 DEF ReplayRecord
      <3> QED BY <3>1 DEF Record
    <2>3. c \in Context
      BY <2>2 DEF TypeOK, Context
    <2>4. counted \in Context
      <3> HIDE DEF c
      <3> QED BY <2>3, CountedType
    <2>5. ReplayPos \in Pos
      BY <2>1 DEF Pos, ReplayPos
    <2>6. UpdateState(counted, ReplayPos, r) \in Context
      BY <2>2, <2>4, <2>5, UpdateStateType
    <2>7. err \in Error
      BY DEF Refusal, Error
    <2>8. ctx' \in Context
      <3>1. ctx' = c \/ ctx' = UpdateState(counted, ReplayPos, r)
        BY <1>3 DEF ReplayRecord
      <3> QED BY <2>3, <2>6, <3>1
    <2>9. walk' \in Walk /\ mode' \in {"scan", "replay", "ready", "failed"}
      <3>1. CASE BootFails("MSG_OUT_OF_ORDER") \/ BootFails(err)
        BY <1>1, <2>7, <3>1 DEF BootFails, Error
      <3>2. CASE /\ walk' = [walk EXCEPT !.i = @ + 1, !.ret = err, !.allow = @ /\ err = "OK"]
                 /\ mode' = mode
        <4>1. walk \in Walk /\ walk.i + 1 \in Nat
          BY DEF TypeOK, Walk
        <4>2. (walk.allow /\ err = "OK") \in BOOLEAN
          OBVIOUS
        <4> HIDE DEF err
        <4>3. walk' \in Walk
          BY <2>7, <3>2, <4>1, <4>2, WalkStep
        <4> QED BY <3>2, <4>3 DEF TypeOK
      <3> QED BY <1>3, <3>1, <3>2 DEF ReplayRecord
    <2> QED BY <1>3, <2>8, <2>9 DEF ReplayRecord, TypeOK
  <1>4. CASE ReplayPageEnd
    <2>1. walk \in Walk /\ walk.page \in Page /\ walk.max \in Page /\ walk.ret \in Error
      BY DEF TypeOK, Walk
    <2>2. NextPage(walk.page) \in Page
      BY <2>1, NextPageType
    <2>3. ctx' \in Context
      BY <1>4, <2>1 DEF ReplayPageEnd, TypeOK, Context
    <2>4. [walk EXCEPT !.page = NextPage(walk.page), !.i = 1] \in Walk
      BY <2>1, <2>2 DEF Walk
    <2>5. walk' \in Walk /\ mode' \in {"scan", "replay", "ready", "failed"}
      BY <1>1, <1>4, <2>1, <2>4, ZeroTypes DEF ReplayPageEnd, BootFails, TypeOK, Error
    <2> QED BY <1>4, <2>3, <2>5 DEF ReplayPageEnd, TypeOK
  <1> QED BY <1>2, <1>3, <1>4 DEF Boot

LEMMA TypeCrash == TypeOK /\ Crash => TypeOK'
  BY ZeroTypes DEF TypeOK, Crash, WriterStates

LEMMA LandedType == ASSUME TypeOK, NEW w \in Writers PROVE Landed(w) \in Record
  BY DEF TypeOK, Job, Landed, Record

LEMMA TypeAddEvent ==
    ASSUME TypeOK, NEW w \in Writers, NEW kind \in Events, AddEvent(w, kind)
    PROVE  TypeOK'
  <1>1. [NoJob EXCEPT !.kind = kind, !.time = now] \in Job
    BY ZeroTypes, MidLtsAssumption DEF TypeOK, Job
  <1> QED BY <1>1 DEF TypeOK, AddEvent, Goto, WriterStates

LEMMA TypeCall ==
    ASSUME TypeOK, NEW w \in Writers, Call(w)
    PROVE  TypeOK'
  <1>1. job[w] \in Job /\ ctx.msg_page \in Page /\ ctx.msg_id \in Nat /\ job[w].page \in Page
    BY DEF TypeOK, Job, Context
  <1>2. Append(log[job[w].page], Landed(w)) \in Seq(Record)
    BY <1>1, LandedType, AppendType DEF TypeOK
  <1>3. CASE OpenPage(w)
    <2>1. Len(log[ctx.msg_page]) \in Nat
      BY <1>1 DEF TypeOK
    <2>2. [job[w] EXCEPT !.rec_id = ctx.msg_id, !.page = ctx.msg_page,
                         !.size = Len(log[ctx.msg_page])] \in Job
      BY <1>1, <2>1 DEF Job
    <2>3. job' \in [Writers -> Job]
      BY <1>3, <2>2 DEF OpenPage, TypeOK
    <2> QED BY <1>1, <1>3, <2>3 DEF OpenPage, TypeOK, Goto, WriterStates
  <1>4. CASE OpenFails(w)
    BY <1>1, <1>4, MoveType DEF OpenFails, TypeOK
  <1>5. CASE PageFull(w)
    <2>1. [job[w] EXCEPT !.try = 2] \in Job
      BY <1>1 DEF Job
    <2>2. [ctx EXCEPT !.msg_page = NextPage(@)] \in Context
      BY <1>1, NextPageType DEF TypeOK, Context
    <2>3. ctx' \in Context
      BY <1>5, <2>2 DEF PageFull, TypeOK
    <2>4. job' \in [Writers -> Job] /\ pc' \in [Writers -> WriterStates]
      BY <1>5, <2>1, MoveType DEF PageFull, TypeOK, Goto, WriterStates
    <2> QED BY <1>5, <2>3, <2>4 DEF PageFull, TypeOK
  <1>6. CASE WriteRecord(w)
    BY <1>2, <1>6 DEF WriteRecord, TypeOK, Goto, WriterStates
  <1>7. CASE WriteFails(w)
    BY <1>2, <1>7, MoveType DEF WriteFails, TypeOK
  <1>8. CASE UpdateContext(w)
    <2> DEFINE pos == [page |-> job[w].page, offset |-> job[w].size]
               updated == UpdateState(ctx, pos, Landed(w))
    <2>1. pos \in Pos
      BY <1>1 DEF Pos, Job
    <2>2. updated \in Context
      BY <2>1, LandedType, UpdateStateType DEF TypeOK
    <2>3. Counted(updated) \in Context
      <3> HIDE DEF updated
      <3> QED BY <2>2, CountedType
    <2>4. ctx' \in Context
      BY <1>8, <2>3 DEF UpdateContext, TypeOK
    <2> QED BY <1>8, <2>4, MoveType DEF UpdateContext, TypeOK
  <1>9. CASE Purge(w)
    <2>1. [job[w] EXCEPT !.try = 3] \in Job
      BY <1>1 DEF Job
    <2>2. log' \in [Page -> Seq(Record)]
      BY <1>1, <1>9 DEF Purge, TypeOK
    <2> QED BY <1>9, <2>1, <2>2 DEF Purge, TypeOK, Goto, WriterStates
  <1>10. CASE PurgeRefused(w)
    BY <1>10, MoveType DEF PurgeRefused, TypeOK
  <1> QED BY <1>3, <1>4, <1>5, <1>6, <1>7, <1>8, <1>9, <1>10 DEF Call

LEMMA TypeNext == TypeOK /\ [Next]_vars => TypeOK'
  <1> SUFFICES ASSUME TypeOK, [Next]_vars PROVE TypeOK'
    OBVIOUS
  <1>1. CASE Tick
    BY <1>1 DEF Tick, TypeOK
  <1>2. CASE UNCHANGED vars
    BY <1>2 DEF vars, TypeOK
  <1> QED BY <1>1, <1>2, TypeBoot, TypeCrash, TypeAddEvent, TypeCall DEF Next

\* The state keeps its shape, whatever the writers, the faults and the restarts.
THEOREM TypeCorrect == Spec => []TypeOK
  BY TypeInit, TypeNext, PTL DEF Spec

-----------------------------------------------------------------------------
(* Retention.  try_purge compares the last meter value of a page with the  *)
(* time its caller read: this is enough because, with one call at a time,  *)
(* meter values reach the pages in the order of their times.               *)

\* One task records, or the tasks take turns ("serialize events", mid.c).
Serial == \A v, w \in Writers : v = w

MetersInOrder(p) ==
    \A i, j \in MeterAt(p) : i < j => log[p][i].time <= log[p][j].time
NoMeterAfter(p, t) == \A i \in MeterAt(p) : log[p][i].time <= t

\* Meter values are in the order of their times, none is from the future, and
\* none is later than the call in progress.
TimeInv ==
    /\ \A p \in Page : MetersInOrder(p) /\ NoMeterAfter(p, now)
    /\ \A w \in Writers : pc[w] # "idle" =>
          /\ job[w].time <= now
          /\ \A p \in Page : NoMeterAfter(p, job[w].time)

\* The meter values of a page after an append.
LEMMA MeterAppend ==
    ASSUME TypeOK, NEW p \in Page, NEW r \in Record,
           log' = [log EXCEPT ![p] = Append(@, r)],
           MetersInOrder(p), NoMeterAfter(p, r.time)
    PROVE  /\ MetersInOrder(p)'
           /\ \A t \in Nat : r.time <= t => NoMeterAfter(p, t)'
  <1> DEFINE n == Len(log[p])
  <1>1. log[p] \in Seq(Record) /\ n \in Nat
    BY DEF TypeOK
  <1>2. log'[p] = Append(log[p], r)
    BY DEF TypeOK
  <1>3. /\ log'[p] \in Seq(Record) /\ Len(log'[p]) = n + 1
        /\ log'[p][n + 1] = r
        /\ \A i \in 1 .. n : log'[p][i] = log[p][i]
    BY <1>1, <1>2, AppendType
  <1>4. \A i \in MeterAt(p)' : i \in 1 .. n + 1 /\ (i # n + 1 => i \in MeterAt(p))
    BY <1>1, <1>3 DEF MeterAt
  <1>5. \A i \in MeterAt(p) : i \in 1 .. n /\ log[p][i].time \in Nat
    <2>1. \A i \in 1 .. n : log[p][i] \in Record
      BY <1>1
    <2> QED BY <2>1 DEF MeterAt, Record
  <1>6. r.time \in Nat
    BY DEF Record
  <1>7. ASSUME NEW i \in MeterAt(p)'
        PROVE  log'[p][i].time \in Nat /\ log'[p][i].time <= r.time
    BY <1>1, <1>3, <1>4, <1>5, <1>6, <1>7 DEF NoMeterAfter
  <1>8. MetersInOrder(p)'
    <2> SUFFICES ASSUME NEW i \in MeterAt(p)', NEW j \in MeterAt(p)', i < j
                 PROVE  log'[p][i].time <= log'[p][j].time
      BY DEF MetersInOrder
    <2>1. i \in 1 .. n /\ i \in MeterAt(p)
      BY <1>1, <1>4
    <2>2. CASE j = n + 1
      BY <1>3, <1>7, <2>2
    <2>3. CASE j # n + 1
      BY <1>3, <1>4, <1>5, <2>1, <2>3 DEF MetersInOrder
    <2> QED BY <2>2, <2>3
  <1>9. ASSUME NEW t \in Nat, r.time <= t PROVE NoMeterAfter(p, t)'
    <2> SUFFICES ASSUME NEW i \in MeterAt(p)' PROVE log'[p][i].time <= t
      BY DEF NoMeterAfter
    <2>1. log'[p][i].time \in Nat /\ log'[p][i].time <= r.time
      BY <1>7
    <2>2. \A x \in Nat : x <= r.time => x <= t
      BY <1>6, <1>9
    <2> QED BY <2>1, <2>2, Zenon
  <1> QED BY <1>8, <1>9

LEMMA TimeInit == Init => TimeInv
  <1> SUFFICES ASSUME Init PROVE TimeInv
    OBVIOUS
  <1>1. \A p \in Page : MeterAt(p) = {}
    BY DEF Init, MeterAt
  <1> QED BY <1>1 DEF Init, TimeInv, MetersInOrder, NoMeterAfter

\* Steps that leave the log and the clock alone, and start no call.
LEMMA TimeQuiet ==
    ASSUME TimeInv, log' = log, now' = now,
           \A w \in Writers : pc'[w] # "idle" => pc[w] # "idle" /\ job'[w].time = job[w].time
    PROVE  TimeInv'
  <1>1. \A p \in Page : MetersInOrder(p)' /\ NoMeterAfter(p, now)'
    BY DEF TimeInv, MetersInOrder, NoMeterAfter, MeterAt
  <1>2. ASSUME NEW w \in Writers, pc'[w] # "idle"
        PROVE  /\ job'[w].time <= now'
               /\ \A p \in Page : NoMeterAfter(p, job[w].time)'
    <2>1. /\ job'[w].time = job[w].time /\ job[w].time <= now
          /\ \A p \in Page : NoMeterAfter(p, job[w].time)
      BY <1>2 DEF TimeInv
    <2> QED BY <2>1 DEF NoMeterAfter, MeterAt
  <1> QED BY <1>1, <1>2 DEF TimeInv

LEMMA TimeAddEvent ==
    ASSUME TypeOK, TimeInv, NEW w \in Writers, NEW kind \in Events, AddEvent(w, kind)
    PROVE  TimeInv'
  <1>1. log' = log /\ now' = now
    BY DEF AddEvent
  <1>2. \A p \in Page : MetersInOrder(p)' /\ NoMeterAfter(p, now)'
    BY <1>1 DEF TimeInv, MetersInOrder, NoMeterAfter, MeterAt
  <1>3. job'[w].time = now
    BY DEF AddEvent, TypeOK, NoJob
  <1>4. ASSUME NEW v \in Writers, v # w
        PROVE  pc'[v] = pc[v] /\ job'[v] = job[v]
    BY <1>4 DEF AddEvent, Goto, TypeOK
  <1>5. ASSUME NEW v \in Writers, pc'[v] # "idle"
        PROVE  /\ job'[v].time <= now'
               /\ \A p \in Page : NoMeterAfter(p, job[v].time)'
    <2>1. CASE v = w
      <3>1. job'[v].time = now /\ now <= now
        BY <1>3, <2>1 DEF TypeOK
      <3>2. \A p \in Page : NoMeterAfter(p, now)
        BY DEF TimeInv
      <3> QED BY <1>1, <3>1, <3>2 DEF NoMeterAfter, MeterAt
    <2>2. CASE v # w
      <3>1. /\ job'[v].time = job[v].time /\ job[v].time <= now
            /\ \A p \in Page : NoMeterAfter(p, job[v].time)
        BY <1>4, <1>5, <2>2 DEF TimeInv
      <3> QED BY <1>1, <3>1 DEF NoMeterAfter, MeterAt
    <2> QED BY <2>1, <2>2
  <1> QED BY <1>2, <1>5 DEF TimeInv

\* The append of WriteRecord and of a WriteFails whose record lands.
LEMMA TimeAppend ==
    ASSUME TypeOK, TimeInv, Serial, NEW w \in Writers, pc[w] = "write",
           log' = [log EXCEPT ![job[w].page] = Append(@, Landed(w))], now' = now,
           pc'[w] # "idle" => job' = job
    PROVE  TimeInv'
  <1>1. PICK q \in Page : q = job[w].page
    BY DEF TypeOK, Job
  <1>2. PICK r \in Record : r = Landed(w)
    BY LandedType
  <1>3. r.time = job[w].time /\ r.time \in Nat
    BY <1>2 DEF Landed, TypeOK, Job
  <1>4. /\ r.time <= now /\ now \in Nat
        /\ \A p \in Page : NoMeterAfter(p, r.time) /\ MetersInOrder(p) /\ NoMeterAfter(p, now)
    BY <1>3 DEF TimeInv, TypeOK
  <1>5. /\ MetersInOrder(q)'
        /\ \A t \in Nat : r.time <= t => NoMeterAfter(q, t)'
    BY <1>1, <1>2, <1>4, MeterAppend
  <1>6. ASSUME NEW p \in Page, NEW t \in Nat, r.time <= t, NoMeterAfter(p, t)
        PROVE  MetersInOrder(p)' /\ NoMeterAfter(p, t)'
    <2>1. CASE p = q
      BY <1>5, <1>6, <2>1
    <2>2. CASE p # q
      <3>1. log'[p] = log[p]
        BY <1>1, <2>2 DEF TypeOK
      <3> QED BY <1>4, <1>6, <3>1 DEF MetersInOrder, NoMeterAfter, MeterAt
    <2> QED BY <2>1, <2>2
  <1>7. \A p \in Page : MetersInOrder(p)' /\ NoMeterAfter(p, now)'
    <2>1. PICK t \in Nat : t = now
      BY DEF TypeOK
    <2>2. \A p \in Page : MetersInOrder(p)' /\ NoMeterAfter(p, t)'
      BY <1>4, <1>6, <2>1
    <2> QED BY <2>1, <2>2 DEF NoMeterAfter, MeterAt
  <1>8. ASSUME NEW v \in Writers, pc'[v] # "idle"
        PROVE  /\ job'[v].time <= now'
               /\ \A p \in Page : NoMeterAfter(p, job[v].time)'
    <2>1. v = w /\ job' = job
      BY <1>8 DEF Serial
    <2>2. \A p \in Page : NoMeterAfter(p, r.time)'
      BY <1>3, <1>4, <1>6
    <2>3. job'[v].time = r.time
      BY <1>3, <2>1
    <2> QED BY <1>4, <2>2, <2>3 DEF NoMeterAfter, MeterAt
  <1> QED BY <1>7, <1>8 DEF TimeInv

LEMMA TimePurge ==
    ASSUME TypeOK, TimeInv, NEW w \in Writers, Purge(w)
    PROVE  TimeInv'
  <1>1. ctx.msg_page \in Page
    BY DEF TypeOK, Context
  <1>2. ASSUME NEW p \in Page PROVE MeterAt(p)' = {} \/ log'[p] = log[p]
    BY <1>1 DEF Purge, TypeOK, MeterAt
  <1>3. now' = now
    BY DEF Purge
  <1>4. \A p \in Page : MetersInOrder(p)' /\ NoMeterAfter(p, now)'
    BY <1>2, <1>3 DEF TimeInv, MetersInOrder, NoMeterAfter, MeterAt
  <1>5. ASSUME NEW v \in Writers, pc'[v] # "idle"
        PROVE  /\ job'[v].time <= now'
               /\ \A p \in Page : NoMeterAfter(p, job[v].time)'
    <2>1. pc[v] # "idle" /\ job'[v].time = job[v].time
      BY <1>5 DEF Purge, Goto, TypeOK, Job
    <2>2. /\ job[v].time <= now
          /\ \A p \in Page : NoMeterAfter(p, job[v].time)
      BY <2>1 DEF TimeInv
    <2> QED BY <1>2, <1>3, <2>1, <2>2 DEF NoMeterAfter, MeterAt
  <1> QED BY <1>4, <1>5 DEF TimeInv

LEMMA TimeTick == ASSUME TypeOK, TimeInv, Tick PROVE TimeInv'
  <1>1. /\ now \in Nat /\ now' = now + 1
        /\ log' = log /\ pc' = pc /\ job' = job
    BY DEF Tick, TypeOK
  <1>2. \A p \in Page : \A i \in MeterAt(p) : log[p][i].time \in Nat
    <2>1. \A p \in Page : log[p] \in Seq(Record)
      BY DEF TypeOK
    <2>2. \A p \in Page : \A i \in 1 .. Len(log[p]) : log[p][i] \in Record
      BY <2>1
    <2> QED BY <2>2 DEF MeterAt, Record
  <1>3. \A p \in Page : MetersInOrder(p)' /\ NoMeterAfter(p, now)'
    BY <1>1, <1>2 DEF TimeInv, MetersInOrder, NoMeterAfter, MeterAt
  <1>4. ASSUME NEW v \in Writers, pc[v] # "idle"
        PROVE  /\ job[v].time <= now'
               /\ \A p \in Page : NoMeterAfter(p, job[v].time)'
    <2>1. job[v].time <= now /\ job[v].time \in Nat
      BY <1>4 DEF TimeInv, TypeOK, Job
    <2>2. \A p \in Page : NoMeterAfter(p, job[v].time)
      BY <1>4 DEF TimeInv
    <2> QED BY <1>1, <2>1, <2>2 DEF NoMeterAfter, MeterAt
  <1> QED BY <1>1, <1>3, <1>4 DEF TimeInv

LEMMA TimeNext == TypeOK /\ Serial /\ TimeInv /\ [Next]_vars => TimeInv'
  <1> SUFFICES ASSUME TypeOK, Serial, TimeInv, [Next]_vars PROVE TimeInv'
    OBVIOUS
  <1>1. CASE Boot
    <2>1. log' = log /\ now' = now /\ pc' = pc /\ job' = job
      BY <1>1 DEF Boot, Scan, ReplayRecord, ReplayPageEnd
    <2> QED BY <2>1, TimeQuiet
  <1>2. CASE Crash
    <2>1. log' = log /\ now' = now /\ \A w \in Writers : pc'[w] = "idle"
      BY <1>2 DEF Crash
    <2> QED BY <2>1, TimeQuiet
  <1>3. CASE Tick
    BY <1>3, TimeTick
  <1>4. ASSUME NEW w \in Writers, NEW kind \in Events, AddEvent(w, kind) PROVE TimeInv'
    BY <1>4, TimeAddEvent
  <1>5. ASSUME NEW w \in Writers, Call(w) PROVE TimeInv'
    <2>1. CASE WriteRecord(w)
      BY <2>1, TimeAppend DEF WriteRecord
    <2>2. CASE WriteFails(w)
      <3>1. CASE log' = log
        <4>1. \A v \in Writers : pc'[v] # "idle" => pc[v] # "idle" /\ job'[v].time = job[v].time
          BY <2>2 DEF WriteFails, Return, Goto, TypeOK
        <4>2. now' = now
          BY <2>2 DEF WriteFails
        <4> QED BY <3>1, <4>1, <4>2, TimeQuiet
      <3>2. CASE log' # log
        <4>1. /\ log' = [log EXCEPT ![job[w].page] = Append(@, Landed(w))]
              /\ pc[w] = "write" /\ now' = now
          BY <2>2, <3>2 DEF WriteFails
        <4>2. pc'[w] = "idle"
          BY <2>2 DEF WriteFails, Return, Goto, TypeOK
        <4> QED BY <4>1, <4>2, TimeAppend
      <3> QED BY <3>1, <3>2
    <2>3. CASE Purge(w)
      BY <2>3, TimePurge
    <2>4. CASE OpenPage(w) \/ OpenFails(w) \/ PageFull(w) \/ UpdateContext(w) \/ PurgeRefused(w)
      <3>1. log' = log /\ now' = now
        BY <2>4 DEF OpenPage, OpenFails, PageFull, UpdateContext, PurgeRefused
      <3>2. ASSUME NEW v \in Writers, pc'[v] # "idle"
            PROVE  pc[v] # "idle" /\ job'[v].time = job[v].time
        <4>1. CASE OpenPage(w)
          BY <3>2, <4>1 DEF OpenPage, Goto, TypeOK, Job
        <4>2. CASE OpenFails(w)
          BY <3>2, <4>2 DEF OpenFails, Return, Goto, TypeOK
        <4>3. CASE PageFull(w)
          BY <3>2, <4>3 DEF PageFull, Return, Goto, TypeOK, Job
        <4>4. CASE UpdateContext(w)
          BY <3>2, <4>4 DEF UpdateContext, Return, Goto, TypeOK
        <4>5. CASE PurgeRefused(w)
          BY <3>2, <4>5 DEF PurgeRefused, Return, Goto, TypeOK
        <4> QED BY <2>4, <4>1, <4>2, <4>3, <4>4, <4>5
      <3> QED BY <3>1, <3>2, TimeQuiet
    <2> QED BY <1>5, <2>1, <2>2, <2>3, <2>4 DEF Call
  <1>6. CASE UNCHANGED vars
    <2>1. log' = log /\ now' = now /\ pc' = pc /\ job' = job
      BY <1>6 DEF vars
    <2> QED BY <2>1, TimeQuiet
  <1> QED BY <1>1, <1>2, <1>3, <1>4, <1>5, <1>6 DEF Next

\* What the purge compares with the retention period is the latest of all.
LEMMA LatestIsLast ==
    ASSUME TypeOK, NEW p \in Page, MetersInOrder(p), NEW i \in MeterAt(p)
    PROVE  log[p][i].time <= LatestMeter(p).time
  <1>1. log[p] \in Seq(Record) /\ Len(log[p]) \in Nat
    BY DEF TypeOK
  <1>2. MeterAt(p) \in SUBSET (1 .. Len(log[p])) /\ MeterAt(p) # {}
    BY DEF MeterAt
  <1>3. \E k \in MeterAt(p) : \A j \in MeterAt(p) : j <= k
    BY <1>1, <1>2, LastIndex
  <1>4. PICK k \in MeterAt(p) : /\ \A j \in MeterAt(p) : j <= k
                                /\ LatestMeter(p) = log[p][k]
    BY <1>3 DEF LatestMeter
  <1>5. i <= k /\ i \in Nat /\ k \in Nat
    BY <1>1, <1>2, <1>4
  <1>6. log[p][i].time \in Nat
    <2>1. log[p][i] \in Record
      BY <1>1, <1>2
    <2> QED BY <2>1 DEF Record
  <1>7. CASE i = k
    BY <1>4, <1>6, <1>7
  <1>8. CASE i < k
    BY <1>4, <1>8 DEF MetersInOrder
  <1> QED BY <1>5, <1>7, <1>8

RetentionStep ==
    \A p \in Page : \A i \in MeterAt(p) : log'[p] = <<>> => now - log[p][i].time > MaxAge

LEMMA PurgeKeepsRetention ==
    ASSUME TypeOK, TimeInv, NEW w \in Writers, Purge(w)
    PROVE  RetentionStep
  <1> SUFFICES ASSUME NEW p \in Page, NEW i \in MeterAt(p), log'[p] = <<>>
               PROVE  now - log[p][i].time > MaxAge
    BY DEF RetentionStep
  <1>1. log[p] \in Seq(Record) /\ i \in 1 .. Len(log[p])
    BY DEF TypeOK, MeterAt
  <1>2. log[p] # <<>> /\ log[p][i].time \in Nat
    <2>1. log[p][i] \in Record
      BY <1>1
    <2> QED BY <1>1, <2>1 DEF Record
  <1>3. p = ctx.msg_page
    BY <1>2 DEF Purge, TypeOK
  <1>4. job[w].time - LatestMeter(p).time > MaxAge
    BY <1>3 DEF Purge, Expired
  <1>5. log[p][i].time <= LatestMeter(p).time
    BY LatestIsLast DEF TimeInv
  <1>6. LatestMeter(p).time \in Nat
    <2>1. \E k \in MeterAt(p) : \A j \in MeterAt(p) : j <= k
      <3>1. MeterAt(p) \in SUBSET (1 .. Len(log[p])) /\ MeterAt(p) # {} /\ Len(log[p]) \in Nat
        BY <1>1 DEF MeterAt
      <3> QED BY <3>1, LastIndex
    <2>2. PICK k \in MeterAt(p) : LatestMeter(p) = log[p][k]
      BY <2>1 DEF LatestMeter
    <2>3. log[p][k] \in Record
      BY <1>1 DEF MeterAt
    <2> QED BY <2>2, <2>3 DEF Record
  <1>7. job[w].time \in Nat /\ now \in Nat /\ job[w].time <= now
    BY DEF Purge, TimeInv, TypeOK, Job
  <1>8. \A x, y, t, m \in Nat : t - y > MaxAge /\ x <= y /\ t <= m => m - x > MaxAge
    BY MidLtsAssumption
  <1> QED BY <1>2, <1>4, <1>5, <1>6, <1>7, <1>8

LEMMA RetentionNext == TypeOK /\ TimeInv /\ Next => RetentionStep
  <1> SUFFICES ASSUME TypeOK, TimeInv, Next, NEW p \in Page, NEW i \in MeterAt(p), log'[p] = <<>>
               PROVE  now - log[p][i].time > MaxAge
    BY DEF RetentionStep
  <1>1. log[p] \in Seq(Record) /\ log[p] # <<>>
    BY DEF TypeOK, MeterAt
  <1>2. log' # log
    BY <1>1
  <1>3. PICK w \in Writers : WriteRecord(w) \/ WriteFails(w) \/ Purge(w)
    BY <1>2 DEF Next, Boot, Scan, ReplayRecord, ReplayPageEnd, Crash, Tick, Call, AddEvent,
       OpenPage, OpenFails, PageFull, UpdateContext, PurgeRefused
  <1>4. CASE Purge(w)
    BY <1>4, PurgeKeepsRetention DEF RetentionStep
  <1>5. CASE WriteRecord(w) \/ WriteFails(w)
    <2>1. log' = [log EXCEPT ![job[w].page] = Append(@, Landed(w))]
      BY <1>2, <1>5 DEF WriteRecord, WriteFails
    <2>2. \A s \in Seq(Record) : Append(s, Landed(w)) # <<>>
      BY LandedType
    <2>3. log'[p] # <<>>
      BY <1>1, <2>1, <2>2 DEF TypeOK
    <2> QED BY <2>3
  <1> QED BY <1>3, <1>4, <1>5

\* With one call at a time, no meter value younger than the retention period is
\* ever removed, whatever fails and wherever the charger loses power.
THEOREM Retention ==
    ASSUME Serial
    PROVE  Spec => RetentionKept
  <1>1. TypeOK /\ TimeInv /\ [Next]_vars => [RetentionStep]_vars
    BY RetentionNext
  <1> QED BY <1>1, TypeInit, TypeNext, TimeInit, TimeNext, PTL
          DEF Spec, RetentionKept, RetentionStep

-----------------------------------------------------------------------------
(* Record ids.  An append takes the id of the context, which the replay    *)
(* gets from the pages: it stays ahead because the pages that are full     *)
(* are older than the one that grows, and a replay that succeeds has gone  *)
(* up to the page that starts last.                                        *)

Filled == {p \in Page : log[p] # <<>>}
Growing == {p \in Filled : Len(log[p]) < PageCap}

\* Only a record that landed although its sync failed has the id of another.
Before(m, n) == m < n \/ ("sync" \in Faults /\ m = n)
PageBefore(p, n) == \A i \in 1 .. Len(log[p]) : Before(log[p][i].rec_id, n)

\* Of two pages one is the older one, and at most one page grows, the newest.
PagesInv ==
    /\ Filled \subseteq files
    /\ \A p \in Page : Len(log[p]) <= PageCap
    /\ \A p, q \in Filled : p # q => PageBefore(p, FirstId(q)) \/ PageBefore(q, FirstId(p))
    /\ \A p \in Growing, q \in Filled : p # q => PageBefore(q, FirstId(p))
    /\ \A p, q \in Growing : p = q

Landing == \E w \in Writers : pc[w] = "update"

\* No record is ahead of the id of the context, and a record has that id only
\* until the context is updated.
ReadyInv ==
    mode = "ready" =>
        /\ \A p \in Growing : p = ctx.msg_page
        /\ \A p \in Page : \A i \in 1 .. Len(log[p]) : log[p][i].rec_id <= ctx.msg_id
        /\ ~Landing => \A p \in Page : PageBefore(p, ctx.msg_id)

\* A call is for the id and the page of the context, and is not refused.
JobInv ==
    \A w \in Writers :
        /\ pc[w] # "idle" => mode = "ready" /\ Refusal(ctx, job[w]) = "OK"
        /\ pc[w] \in {"write", "update"} => job[w].rec_id = ctx.msg_id /\ job[w].page = ctx.msg_page
        /\ pc[w] = "write" => ctx.msg_page \in files /\ Len(log[ctx.msg_page]) < PageCap

\* No page is empty; the replay ends at the page that starts last, and within a
\* page the ids increase up to that of the context.
BootInv ==
    mode = "replay" =>
        /\ files \subseteq Filled
        /\ walk.page \in Filled /\ walk.max \in Filled /\ walk.i # 0
        /\ \A q \in Filled : FirstId(q) <= FirstId(walk.max)
        /\ \A i \in 1 .. Len(log[walk.page]) : i < walk.i =>
              /\ log[walk.page][i].rec_id < ctx.msg_id
              /\ \A j \in 1 .. i - 1 : log[walk.page][j].rec_id < log[walk.page][i].rec_id

IdInv == PagesInv /\ ReadyInv /\ JobInv /\ BootInv /\ (mode = "scan" => ctx = ZeroCtx)

LEMMA PageTypes ==
    ASSUME TypeOK, NEW p \in Page
    PROVE  /\ log[p] \in Seq(Record) /\ Len(log[p]) \in Nat
           /\ \A i \in 1 .. Len(log[p]) : log[p][i] \in Record /\ log[p][i].rec_id \in Nat
           /\ p \in Filled => FirstId(p) \in Nat /\ 1 \in 1 .. Len(log[p])
  <1>1. log[p] \in Seq(Record) /\ Len(log[p]) \in Nat
    BY DEF TypeOK
  <1>2. \A i \in 1 .. Len(log[p]) : log[p][i] \in Record /\ log[p][i].rec_id \in Nat
    <2>1. \A i \in 1 .. Len(log[p]) : log[p][i] \in Record
      BY <1>1
    <2> QED BY <2>1 DEF Record
  <1>3. p \in Filled => 1 \in 1 .. Len(log[p])
    BY <1>1 DEF Filled
  <1> QED BY <1>1, <1>2, <1>3 DEF FirstId

LEMMA ContextTypes == ASSUME TypeOK PROVE ctx.msg_id \in Nat /\ ctx.msg_page \in Page /\ ctx.open \in BOOLEAN
  BY DEF TypeOK, Context

LEMMA PagesStay ==
    ASSUME PagesInv, log' = log, files \subseteq files'
    PROVE  PagesInv'
  <1>1. Filled' = Filled /\ Growing' = Growing /\ \A p \in Page : FirstId(p)' = FirstId(p)
    BY DEF Filled, Growing, FirstId
  <1>2. \A p, n : PageBefore(p, n)' = PageBefore(p, n)
    BY DEF PageBefore, Before
  <1> QED BY <1>1, <1>2 DEF PagesInv, FirstId, PageBefore

LEMMA ReadyStays ==
    ASSUME ReadyInv, log' = log, mode' = "ready" => mode = "ready" /\ (Landing => Landing') /\ ctx'.msg_id = ctx.msg_id,
           mode' = "ready" => ctx'.msg_page = ctx.msg_page \/ Growing = {}
    PROVE  ReadyInv'
  <1>1. Growing' = Growing
    BY DEF Filled, Growing
  <1> QED BY <1>1 DEF ReadyInv, PageBefore

LEMMA IdsStart == Init => IdInv
  <1> SUFFICES ASSUME Init PROVE IdInv
    OBVIOUS
  <1>1. \A p \in Page : log[p] = <<>> /\ Len(log[p]) = 0
    BY DEF Init
  <1>2. Filled = {} /\ Growing = {}
    BY <1>1 DEF Filled, Growing
  <1>3. PagesInv
    BY <1>1, <1>2, MidLtsAssumption DEF PagesInv
  <1>4. mode = "scan" /\ ctx = ZeroCtx /\ \A w \in Writers : pc[w] = "idle"
    BY DEF Init
  <1> QED BY <1>3, <1>4 DEF IdInv, ReadyInv, JobInv, BootInv

LEMMA IdsIdle == ASSUME JobInv, mode # "ready" PROVE \A w \in Writers : pc[w] = "idle"
  BY DEF JobInv

\* The last page of the scan starts last.
LEMMA ScanLast ==
    ASSUME TypeOK, PagesInv, files # {}, \A p \in files : log[p] # <<>>
    PROVE  \A q \in Filled : FirstId(q) <= FirstId(MaxPage)
  <1>1. files \subseteq Page /\ \A p \in files : FirstId(p) \in Nat
    <2>1. files \subseteq Page
      BY DEF TypeOK
    <2> QED BY <2>1, PageTypes DEF Filled
  <1>2. \E p \in files : \A q \in files :
           FirstId(p) > FirstId(q) \/ (FirstId(p) = FirstId(q) /\ p <= q)
    BY LastPage
  <1>3. \A q \in files : FirstId(MaxPage) > FirstId(q) \/ (FirstId(MaxPage) = FirstId(q) /\ MaxPage <= q)
    BY <1>2 DEF MaxPage
  <1>4. MaxPage \in files
    BY ScanPages
  <1> HIDE DEF FirstId, MaxPage
  <1> QED BY <1>1, <1>3, <1>4 DEF PagesInv

LEMMA IdsScan ==
    ASSUME TypeOK, IdInv, Scan
    PROVE  IdInv'
  <1>1. log' = log /\ files' = files /\ ctx' = ctx /\ pc' = pc /\ job' = job /\ mode = "scan"
    BY DEF Scan
  <1>2. PagesInv'
    BY <1>1, PagesStay DEF IdInv
  <1>3. \A w \in Writers : pc[w] = "idle"
    BY <1>1, IdsIdle DEF IdInv
  <1>4. JobInv'
    BY <1>1, <1>3 DEF JobInv
  <1>5. ctx = ZeroCtx
    BY <1>1 DEF IdInv
  <1>6. CASE \E p \in files : log[p] = <<>>
    <2>1. mode' = "failed"
      BY <1>6 DEF Scan, BootFails
    <2> QED BY <1>2, <1>4, <2>1 DEF IdInv, ReadyInv, BootInv
  <1>7. CASE files = {}
    <2>1. mode' = "ready"
      BY <1>7 DEF Scan
    <2>2. Filled = {}
      BY <1>7 DEF IdInv, PagesInv
    <2>3. Filled' = {} /\ Growing' = {}
      BY <2>2, <1>1 DEF Filled, Growing
    <2>4. \A p \in Page : Len(log'[p]) = 0
      BY <1>1, <2>2 DEF Filled
    <2>5. ReadyInv'
      BY <2>3, <2>4 DEF ReadyInv, PageBefore
    <2> QED BY <1>2, <1>4, <2>1, <2>5 DEF IdInv, BootInv
  <1>8. CASE files # {} /\ \A p \in files : log[p] # <<>>
    <2>1. mode' = "replay" /\ walk' = [ZeroWalk EXCEPT !.page = MinPage, !.min = MinPage, !.max = MaxPage]
      BY <1>8 DEF Scan
    <2>2. MinPage \in files /\ MaxPage \in files
      BY <1>8, ScanPages
    <2>3. walk'.page = MinPage /\ walk'.max = MaxPage /\ walk'.i = 1
      BY <2>1 DEF ZeroWalk
    <2>4. MinPage \in Filled /\ MaxPage \in Filled
      BY <1>8, <2>2 DEF TypeOK, Filled
    <2>5. Filled' = Filled /\ \A q \in Page : FirstId(q)' = FirstId(q)
      BY <1>1 DEF Filled, FirstId
    <2>6. \A q \in Filled : FirstId(q) <= FirstId(MaxPage)
      BY <1>8, ScanLast DEF IdInv
    <2>7. \A i \in 1 .. Len(log'[walk'.page]) : ~(i < walk'.i)
      BY <2>3
    <2>8. \A q \in Filled' : FirstId(q)' <= FirstId(walk.max)'
      <3> SUFFICES ASSUME NEW q \in Filled PROVE FirstId(q)' <= FirstId(walk.max)'
        BY <2>5
      <3>1. FirstId(walk.max)' = FirstId(MaxPage)
        BY <1>1, <2>3 DEF FirstId
      <3>2. FirstId(q)' = FirstId(q)
        BY <1>1 DEF FirstId
      <3> QED BY <3>1, <3>2, <2>6
    <2>9. files' \subseteq Filled'
      BY <1>1, <1>8, <2>5 DEF TypeOK, Filled
    <2>10. BootInv'
      BY <2>3, <2>4, <2>5, <2>7, <2>8, <2>9 DEF BootInv
    <2> QED BY <1>2, <1>4, <2>1, <2>10 DEF IdInv, ReadyInv
  <1> QED BY <1>6, <1>7, <1>8

\* mid_session_log_update_state leaves the id and the page alone.
LEMMA UpdateIds ==
    ASSUME NEW c \in Context, NEW pos, NEW r
    PROVE  UpdateState(c, pos, r).msg_id = c.msg_id /\ UpdateState(c, pos, r).msg_page = c.msg_page
  BY DEF Context, UpdateState

LEMMA CountedIds ==
    ASSUME NEW c \in Context
    PROVE  /\ Counted(c) \in Context
           /\ Counted(c).msg_id = c.msg_id + 1 /\ Counted(c).msg_page = c.msg_page /\ Counted(c).open = c.open
  BY DEF Context, Counted

\* A record that is replayed has the id of the context, which moves on.
LEMMA IdsReplayRecord ==
    ASSUME TypeOK, IdInv, ReplayRecord
    PROVE  IdInv'
  <1>1. log' = log /\ files' = files /\ pc' = pc /\ job' = job /\ mode = "replay"
    BY DEF ReplayRecord
  <1>2. PagesInv'
    BY <1>1, PagesStay DEF IdInv
  <1>3. \A w \in Writers : pc[w] = "idle"
    BY <1>1, IdsIdle DEF IdInv
  <1>4. JobInv'
    BY <1>1, <1>3 DEF JobInv
  <1> DEFINE r == log[walk.page][walk.i]
             c == IF walk.page = walk.min /\ walk.i = 1 THEN [ctx EXCEPT !.msg_id = r.rec_id] ELSE ctx
             err == Refusal(c, r)
  <1>5. /\ walk.i \in 1 .. Len(log[walk.page]) /\ walk.page \in Page /\ walk.i \in Nat
    BY DEF ReplayRecord, TypeOK, Walk
  <1>6. r \in Record /\ r.rec_id \in Nat
    BY <1>5, PageTypes
  <1>7. c \in Context /\ (c.msg_id = ctx.msg_id \/ walk.i = 1)
    BY <1>6 DEF TypeOK, Context
  <1>8. CASE r.rec_id # c.msg_id
    <2>1. mode' = "failed"
      BY <1>8 DEF ReplayRecord, BootFails
    <2> QED BY <1>2, <1>4, <2>1 DEF IdInv, ReadyInv, BootInv
  <1>9. CASE r.rec_id = c.msg_id /\ ~(err = "OK" \/ (err = "SESSION_NOT_OPEN" /\ walk.allow))
    <2>1. mode' = "failed"
      BY <1>9 DEF ReplayRecord, BootFails
    <2> QED BY <1>2, <1>4, <2>1 DEF IdInv, ReadyInv, BootInv
  <1>10. CASE r.rec_id = c.msg_id /\ (err = "OK" \/ (err = "SESSION_NOT_OPEN" /\ walk.allow))
    <2>1. /\ ctx' = UpdateState(Counted(c), ReplayPos, r)
          /\ mode' = mode
          /\ walk' = [walk EXCEPT !.i = @ + 1, !.ret = err, !.allow = @ /\ err = "OK"]
      BY <1>10 DEF ReplayRecord
    <2>2. ctx'.msg_id = r.rec_id + 1
      <3> HIDE DEF c, r
      <3> QED BY <1>7, <1>10, <2>1, UpdateIds, CountedIds
    <2>3. walk'.page = walk.page /\ walk'.max = walk.max /\ walk'.i = walk.i + 1
      <3>1. walk \in Walk
        BY DEF TypeOK
      <3> HIDE DEF err
      <3> QED BY <3>1, <2>1 DEF Walk
    <2>4. BootInv
      BY DEF IdInv
    <2>5. Filled' = Filled
      BY <1>1 DEF Filled
    <2>6. walk'.page \in Filled' /\ walk'.max \in Filled' /\ walk'.i # 0 /\ files' \subseteq Filled'
      BY <1>1, <1>5, <2>3, <2>4, <2>5 DEF BootInv
    <2>7. \A q \in Filled' : FirstId(q)' <= FirstId(walk.max)'
      <3>1. \A q \in Filled : FirstId(q) <= FirstId(walk.max)
        BY <1>1, <2>4 DEF BootInv
      <3>2. log'[walk'.max] = log[walk.max]
        BY <1>1, <2>3
      <3> QED BY <1>1, <2>5, <3>1, <3>2 DEF FirstId
    <2>8. ASSUME NEW i \in 1 .. Len(log[walk.page]), i < walk.i + 1
          PROVE  /\ log[walk.page][i].rec_id < ctx'.msg_id
                 /\ \A j \in 1 .. i - 1 : log[walk.page][j].rec_id < log[walk.page][i].rec_id
      <3>0. \A k \in 1 .. Len(log[walk.page]) : log[walk.page][k].rec_id \in Nat
        BY <1>5, PageTypes
      <3>1. CASE i = walk.i
        <4>1. ASSUME NEW j \in 1 .. i - 1 PROVE log[walk.page][j].rec_id < log[walk.page][i].rec_id
          <5>1. j \in 1 .. Len(log[walk.page]) /\ j < walk.i /\ walk.i # 1
            BY <1>5, <3>1
          <5>2. log[walk.page][j].rec_id < ctx.msg_id
            BY <1>1, <2>4, <5>1 DEF BootInv
          <5>3. r.rec_id = ctx.msg_id
            BY <1>7, <1>10, <5>1
          <5> QED BY <3>1, <5>2, <5>3
        <4>2. log[walk.page][i].rec_id < ctx'.msg_id
          BY <1>6, <2>2, <3>1
        <4> QED BY <4>1, <4>2
      <3>2. CASE i < walk.i
        <4>1. /\ log[walk.page][i].rec_id < ctx.msg_id
              /\ \A j \in 1 .. i - 1 : log[walk.page][j].rec_id < log[walk.page][i].rec_id
          BY <1>1, <2>4, <3>2 DEF BootInv
        <4>2. ctx.msg_id = r.rec_id
          BY <1>5, <1>7, <1>10, <3>2
        <4>3. log[walk.page][i].rec_id < ctx'.msg_id
          <5> HIDE DEF r
          <5>1. \A x, y, z \in Nat : x < y /\ y = z => x < z + 1
            OBVIOUS
          <5> QED BY <1>6, <2>2, <2>8, <3>0, <4>1, <4>2, <5>1
        <4> QED BY <4>1, <4>3
      <3> QED BY <1>5, <2>8, <3>1, <3>2
    <2>9. BootInv'
      BY <1>1, <2>3, <2>6, <2>7, <2>8 DEF BootInv
    <2> QED BY <1>1, <1>2, <1>4, <2>1, <2>9 DEF IdInv, ReadyInv
  <1> QED BY <1>8, <1>9, <1>10

\* When the replay has come to the end of the last page, the other pages are
\* older than the records it has counted there.
LEMMA ReplayedIsLast ==
    ASSUME TypeOK, PagesInv, BootInv, mode = "replay",
           walk.page = walk.max, walk.i > Len(log[walk.page])
    PROVE  /\ \A p \in Page : \A i \in 1 .. Len(log[p]) : log[p][i].rec_id < ctx.msg_id
           /\ \A p \in Growing : p = walk.max
  <1> DEFINE m == walk.max
             n == Len(log[m])
  <1>1. m \in Filled /\ m \in Page /\ \A q \in Filled : FirstId(q) <= FirstId(m)
    BY DEF BootInv, Filled
  <1>2. n \in Nat /\ 1 \in 1 .. n /\ FirstId(m) \in Nat /\ \A i \in 1 .. n : log[m][i].rec_id \in Nat
    BY <1>1, PageTypes
  <1>3. \A i \in 1 .. n : /\ log[m][i].rec_id < ctx.msg_id
                          /\ \A j \in 1 .. i - 1 : log[m][j].rec_id < log[m][i].rec_id
    <2>1. walk.i \in Nat
      BY DEF TypeOK, Walk
    <2>2. \A i \in 1 .. n : i < walk.i
      BY <1>2, <2>1
    <2> QED BY <2>2 DEF BootInv
  <1>4. ctx.msg_id \in Nat /\ FirstId(m) < ctx.msg_id
    BY <1>2, <1>3, ContextTypes DEF FirstId
  <1>5. ASSUME NEW q \in Filled, q # m, PageBefore(m, FirstId(q))
        PROVE  n = 1 /\ FirstId(q) = FirstId(m)
    <2>1. q \in Page /\ FirstId(q) \in Nat /\ FirstId(q) <= FirstId(m)
      BY <1>1, PageTypes DEF Filled
    <2>2. \A i \in 1 .. n : Before(log[m][i].rec_id, FirstId(q))
      BY <1>5 DEF PageBefore
    <2>3. n = 1
      <3> SUFFICES ASSUME n > 1 PROVE FALSE
        <4> HIDE DEF n
        <4> QED BY <1>2
      <3>1. 2 \in 1 .. n /\ 1 \in 1 .. 2 - 1
        BY <1>2
      <3>2. FirstId(m) < log[m][2].rec_id
        BY <1>3, <3>1 DEF FirstId
      <3>3. Before(log[m][2].rec_id, FirstId(q)) /\ log[m][2].rec_id \in Nat
        BY <1>2, <2>2, <3>1
      <3> QED BY <1>2, <2>1, <3>2, <3>3 DEF Before
    <2>4. FirstId(q) = FirstId(m)
      <3>1. Before(FirstId(m), FirstId(q))
        BY <1>2, <2>2 DEF FirstId
      <3> QED BY <1>2, <2>1, <3>1 DEF Before
    <2> QED BY <2>3, <2>4
  <1>6. ASSUME NEW q \in Filled, NEW i \in 1 .. Len(log[q])
        PROVE  log[q][i].rec_id < ctx.msg_id
    <2>1. q \in Page /\ log[q][i].rec_id \in Nat /\ FirstId(q) \in Nat /\ Len(log[q]) \in Nat
      BY PageTypes DEF Filled
    <2>2. CASE q = m
      BY <1>3, <2>2
    <2>3. CASE PageBefore(q, FirstId(m))
      <3>1. Before(log[q][i].rec_id, FirstId(m))
        BY <2>3 DEF PageBefore
      <3> QED BY <1>2, <1>4, <2>1, <3>1 DEF Before
    <2>4. CASE q # m /\ ~PageBefore(q, FirstId(m))
      <3>1. PageBefore(m, FirstId(q))
        BY <1>1, <2>4 DEF PagesInv
      <3>2. n = 1 /\ FirstId(q) = FirstId(m)
        BY <1>5, <2>4, <3>1
      <3>3. ~(m \in Growing)
        BY <2>4 DEF PagesInv
      <3>4. PageCap = 1
        <4>1. ~(Len(log[m]) < PageCap)
          BY <1>1, <3>3 DEF Growing
        <4> QED BY <3>2, <4>1, MidLtsAssumption
      <3>5. i = 1
        BY <2>1, <3>4 DEF PagesInv
      <3>6. log[q][i].rec_id = FirstId(q)
        BY <3>5 DEF FirstId
      <3> QED BY <1>4, <3>2, <3>6
    <2> QED BY <2>2, <2>3, <2>4
  <1>7. ASSUME NEW p \in Page, NEW i \in 1 .. Len(log[p])
        PROVE  log[p][i].rec_id < ctx.msg_id
    <2>1. p \in Filled
      BY PageTypes DEF Filled
    <2> QED BY <1>6, <2>1
  <1>8. ASSUME NEW p \in Growing, p # m
        PROVE  FALSE
    <2>1. p \in Filled /\ p \in Page /\ Len(log[p]) < PageCap
      BY DEF Growing, Filled
    <2>2. PageBefore(m, FirstId(p))
      BY <1>1, <1>8, <2>1 DEF PagesInv
    <2>3. n = 1
      BY <1>5, <1>8, <2>1, <2>2
    <2>4. PageCap # 1
      BY <2>1, PageTypes
    <2>5. m \in Growing
      <3>1. Len(log[m]) < PageCap
        BY <2>3, <2>4, MidLtsAssumption
      <3> QED BY <1>1, <3>1 DEF Growing
    <2> QED BY <1>8, <2>5 DEF PagesInv
  <1> QED BY <1>7, <1>8

LEMMA IdsReplayPageEnd ==
    ASSUME TypeOK, IdInv, ReplayPageEnd
    PROVE  IdInv'
  <1>1. log' = log /\ files' = files /\ pc' = pc /\ job' = job /\ mode = "replay"
    BY DEF ReplayPageEnd
  <1>2. PagesInv'
    BY <1>1, PagesStay DEF IdInv
  <1>3. \A w \in Writers : pc[w] = "idle"
    BY <1>1, IdsIdle DEF IdInv
  <1>4. JobInv'
    BY <1>1, <1>3 DEF JobInv
  <1>5. Filled' = Filled /\ Growing' = Growing
    BY <1>1 DEF Filled, Growing
  <1>6. CASE walk.ret # "OK" \/ (~AtLastPage /\ NextPage(walk.page) \notin files)
    <2>1. mode' = "failed"
      BY <1>6 DEF ReplayPageEnd, BootFails
    <2> QED BY <1>2, <1>4, <2>1 DEF IdInv, ReadyInv, BootInv
  <1>7. CASE walk.ret = "OK" /\ AtLastPage
    <2>1. mode' = "ready" /\ ctx' = [ctx EXCEPT !.msg_page = walk.max]
      BY <1>7 DEF ReplayPageEnd
    <2>2. ctx'.msg_page = walk.max /\ ctx'.msg_id = ctx.msg_id
      BY <2>1 DEF TypeOK, Context
    <2>3. /\ \A p \in Page : \A i \in 1 .. Len(log[p]) : log[p][i].rec_id < ctx.msg_id
          /\ \A p \in Growing : p = walk.max
      BY <1>1, <1>7, ReplayedIsLast DEF IdInv, AtLastPage, ReplayPageEnd
    <2>4. \A p \in Page : \A i \in 1 .. Len(log[p]) : log[p][i].rec_id \in Nat
      BY PageTypes
    <2>5. \A p \in Page : \A i \in 1 .. Len(log[p]) : log[p][i].rec_id <= ctx.msg_id
      BY <2>3, <2>4, ContextTypes
    <2>6. \A p \in Page : PageBefore(p, ctx.msg_id)
      BY <2>3 DEF PageBefore, Before
    <2>7. ReadyInv'
      <3>1. \A p \in Growing' : p = ctx'.msg_page
        BY <1>5, <2>2, <2>3
      <3>2. \A p \in Page : \A i \in 1 .. Len(log'[p]) : log'[p][i].rec_id <= ctx'.msg_id
        BY <1>1, <2>2, <2>5
      <3>3. \A p \in Page : PageBefore(p, ctx.msg_id)'
        BY <1>1, <2>2, <2>6 DEF PageBefore
      <3> QED BY <3>1, <3>2, <3>3 DEF ReadyInv
    <2> QED BY <1>2, <1>4, <2>1, <2>7 DEF IdInv, BootInv
  <1>8. CASE walk.ret = "OK" /\ ~AtLastPage /\ NextPage(walk.page) \in files
    <2>1. mode' = mode /\ ctx' = ctx /\ walk' = [walk EXCEPT !.page = NextPage(walk.page), !.i = 1]
      BY <1>8 DEF ReplayPageEnd
    <2>2. walk'.page = NextPage(walk.page) /\ walk'.max = walk.max /\ walk'.i = 1
      BY <2>1 DEF TypeOK, Walk
    <2>3. BootInv
      BY DEF IdInv
    <2>4. walk'.page \in Filled' /\ walk'.max \in Filled' /\ walk'.i # 0 /\ files' \subseteq Filled'
      BY <1>1, <1>5, <1>8, <2>2, <2>3 DEF BootInv
    <2>5. \A q \in Filled' : FirstId(q)' <= FirstId(walk.max)'
      <3>1. \A q \in Filled : FirstId(q) <= FirstId(walk.max)
        BY <1>1, <2>3 DEF BootInv
      <3>2. log'[walk'.max] = log[walk.max]
        BY <1>1, <2>2
      <3> QED BY <1>1, <1>5, <3>1, <3>2 DEF FirstId
    <2>6. \A i \in 1 .. Len(log'[walk'.page]) : ~(i < walk'.i)
      BY <2>2
    <2>7. BootInv'
      BY <2>4, <2>5, <2>6 DEF BootInv
    <2> QED BY <1>1, <1>2, <1>4, <2>1, <2>7 DEF IdInv, ReadyInv
  <1> QED BY <1>6, <1>7, <1>8

\* Steps of a call that leave the log and the context alone.
LEMMA IdsQuiet ==
    ASSUME TypeOK, Serial, IdInv, log' = log, files \subseteq files', ctx' = ctx, mode' = mode, walk' = walk,
           mode = "ready", ~Landing, NEW w \in Writers, pc'[w] # "update",
           pc'[w] # "idle" => Refusal(ctx, job'[w]) = "OK",
           pc'[w] # "write"
    PROVE  IdInv'
  <1>1. PagesInv'
    BY PagesStay DEF IdInv
  <1>2. ReadyInv'
    <2>1. ReadyInv
      BY DEF IdInv
    <2> QED BY <2>1, ReadyStays
  <1>3. JobInv'
    <2> SUFFICES ASSUME NEW v \in Writers
                 PROVE  /\ pc'[v] # "idle" => mode' = "ready" /\ Refusal(ctx', job'[v]) = "OK"
                        /\ pc'[v] \notin {"write", "update"}
      BY DEF JobInv
    <2>1. v = w
      BY DEF Serial
    <2> QED BY <2>1
  <1> QED BY <1>1, <1>2, <1>3 DEF IdInv, BootInv

LEMMA RefusalOfKind ==
    ASSUME NEW c, NEW r, NEW s, r.kind = s.kind
    PROVE  Refusal(c, r) = Refusal(c, s)
  BY DEF Refusal

LEMMA IdsAddEvent ==
    ASSUME TypeOK, Serial, IdInv, NEW w \in Writers, NEW kind \in Events, AddEvent(w, kind)
    PROVE  IdInv'
  <1>1. UNCHANGED <<files, log, ctx, mode, walk>> /\ mode = "ready" /\ pc[w] = "idle" /\ Accepts(kind)
    BY DEF AddEvent, Serving
  <1>2. pc'[w] = "open" /\ job'[w].kind = kind
    BY DEF AddEvent, Goto, TypeOK, NoJob
  <1>3. Refusal(ctx, job'[w]) = "OK"
    BY <1>1, <1>2 DEF Refusal, Accepts
  <1>4. ~Landing
    BY <1>1 DEF Landing, Serial
  <1> QED BY <1>1, <1>2, <1>3, <1>4, IdsQuiet

LEMMA IdsCrash == ASSUME TypeOK, IdInv, Crash PROVE IdInv'
  <1>1. log' = log /\ files' = files /\ mode' = "scan" /\ ctx' = ZeroCtx /\ \A w \in Writers : pc'[w] = "idle"
    BY DEF Crash
  <1>2. PagesInv'
    BY <1>1, PagesStay DEF IdInv
  <1> QED BY <1>1, <1>2 DEF IdInv, ReadyInv, JobInv, BootInv

LEMMA IdsTick == ASSUME IdInv, Tick \/ UNCHANGED vars PROVE IdInv'
  <1>1. UNCHANGED <<files, log, ctx, mode, walk, pc, job>>
    BY DEF Tick, vars
  <1>2. PagesInv' /\ ReadyInv'
    <2>1. Landing => Landing'
      BY <1>1 DEF Landing
    <2> QED BY <1>1, <2>1, PagesStay, ReadyStays DEF IdInv
  <1>3. JobInv' /\ BootInv'
    BY <1>1 DEF IdInv, JobInv, BootInv, Filled, FirstId
  <1> QED BY <1>1, <1>2, <1>3 DEF IdInv

\* What a call relies on: it is the only one.
LEMMA IdsCalling ==
    ASSUME Serial, IdInv, NEW w \in Writers, pc[w] # "idle"
    PROVE  /\ mode = "ready" /\ Refusal(ctx, job[w]) = "OK"
           /\ Landing <=> pc[w] = "update"
           /\ \A v \in Writers : v = w
  BY DEF IdInv, JobInv, Landing, Serial

LEMMA IdsOpenPage ==
    ASSUME TypeOK, Serial, IdInv, NEW w \in Writers, OpenPage(w)
    PROVE  IdInv'
  <1>1. /\ log' = log /\ files' = files \cup {ctx.msg_page} /\ UNCHANGED <<ctx, mode, walk>>
        /\ pc[w] = "open" /\ Len(log[ctx.msg_page]) < PageCap
    BY DEF OpenPage
  <1>2. mode = "ready" /\ Refusal(ctx, job[w]) = "OK" /\ ~Landing /\ \A v \in Writers : v = w
    BY <1>1, IdsCalling
  <1>3. pc'[w] = "write" /\ job'[w].rec_id = ctx.msg_id /\ job'[w].page = ctx.msg_page /\ job'[w].kind = job[w].kind
    BY DEF OpenPage, Goto, TypeOK, Job
  <1>4. PagesInv'
    BY <1>1, PagesStay DEF IdInv
  <1>5. ReadyInv'
    <2>1. ReadyInv
      BY DEF IdInv
    <2> QED BY <1>1, <1>2, <2>1, ReadyStays
  <1>6. Refusal(ctx, job'[w]) = "OK"
    BY <1>2, <1>3, RefusalOfKind
  <1>7. JobInv'
    <2> SUFFICES ASSUME NEW v \in Writers
                 PROVE  /\ mode' = "ready" /\ Refusal(ctx', job'[v]) = "OK"
                        /\ job'[v].rec_id = ctx'.msg_id /\ job'[v].page = ctx'.msg_page
                        /\ ctx'.msg_page \in files' /\ Len(log'[ctx'.msg_page]) < PageCap
      BY DEF JobInv
    <2>1. v = w
      BY <1>2
    <2> QED BY <1>1, <1>2, <1>3, <1>6, <2>1
  <1> QED BY <1>1, <1>2, <1>4, <1>5, <1>7 DEF IdInv, BootInv

LEMMA IdsPageFull ==
    ASSUME TypeOK, Serial, IdInv, NEW w \in Writers, PageFull(w)
    PROVE  IdInv'
  <1>1. UNCHANGED <<files, log, mode, walk>> /\ pc[w] = "open" /\ ~(Len(log[ctx.msg_page]) < PageCap)
    BY MidLtsAssumption, PageTypes, ContextTypes DEF PageFull
  <1>2. mode = "ready" /\ Refusal(ctx, job[w]) = "OK" /\ ~Landing /\ \A v \in Writers : v = w
    BY <1>1, IdsCalling
  <1>3. CASE job[w].try = 1
    <2>1. ctx' = [ctx EXCEPT !.msg_page = NextPage(@)] /\ job' = [job EXCEPT ![w].try = 2] /\ pc' = pc
      BY <1>3 DEF PageFull
    <2>2. ctx'.msg_id = ctx.msg_id /\ ctx'.open = ctx.open
      BY <2>1 DEF TypeOK, Context
    <2>3. job'[w].kind = job[w].kind
      BY <2>1 DEF TypeOK, Job
    <2>4. Growing = {}
      BY <1>1, <1>2 DEF IdInv, ReadyInv, Growing
    <2>5. ReadyInv'
      <3>1. ReadyInv
        BY DEF IdInv
      <3> QED BY <1>1, <1>2, <2>2, <2>4, <3>1, ReadyStays
    <2>6. Refusal(ctx', job'[w]) = "OK"
      BY <1>2, <2>2, <2>3 DEF Refusal
    <2>7. JobInv'
      <3> SUFFICES ASSUME NEW v \in Writers
                   PROVE  mode' = "ready" /\ Refusal(ctx', job'[v]) = "OK" /\ pc'[v] \notin {"write", "update"}
        BY DEF JobInv
      <3>1. v = w
        BY <1>2
      <3> QED BY <1>1, <1>2, <2>1, <2>6, <3>1
    <2>8. PagesInv'
      BY <1>1, PagesStay DEF IdInv
    <2> QED BY <1>1, <1>2, <2>5, <2>7, <2>8 DEF IdInv, BootInv
  <1>4. CASE job[w].try # 1
    <2>1. ctx' = ctx /\ ((pc'[w] = "purge" /\ job' = job) \/ pc'[w] = "idle")
      BY <1>4 DEF PageFull, Goto, Return, TypeOK
    <2> QED BY <1>1, <1>2, <2>1, IdsQuiet
  <1> QED BY <1>3, <1>4

LEMMA IdsReturns ==
    ASSUME TypeOK, Serial, IdInv, NEW w \in Writers,
           OpenFails(w) \/ PurgeRefused(w) \/ (WriteFails(w) /\ log' = log)
    PROVE  IdInv'
  <1>1. UNCHANGED <<log, ctx, mode, walk>> /\ files \subseteq files' /\ pc[w] \in {"open", "purge", "write"}
    BY DEF OpenFails, PurgeRefused, WriteFails
  <1>2. pc'[w] = "idle"
    BY DEF OpenFails, PurgeRefused, WriteFails, Return, Goto, TypeOK
  <1>3. mode = "ready" /\ ~Landing
    BY <1>1, IdsCalling
  <1> QED BY <1>1, <1>2, <1>3, IdsQuiet

\* A record that lands is the last of the page that grows.
LEMMA IdsAppend ==
    ASSUME TypeOK, Serial, IdInv, NEW w \in Writers, pc[w] = "write",
           log' = [log EXCEPT ![job[w].page] = Append(@, Landed(w))],
           UNCHANGED <<files, ctx, mode, walk>>,
           \/ pc'[w] = "update" /\ job' = job
           \/ pc'[w] = "idle" /\ "sync" \in Faults
    PROVE  IdInv'
  <1> DEFINE c == ctx.msg_page
             n == Len(log[c])
  <1>1. /\ mode = "ready" /\ Refusal(ctx, job[w]) = "OK" /\ ~Landing /\ \A v \in Writers : v = w
    BY IdsCalling
  <1>2. /\ job[w].page = c /\ job[w].rec_id = ctx.msg_id /\ c \in files /\ n < PageCap
    BY DEF IdInv, JobInv
  <1>3. c \in Page /\ ctx.msg_id \in Nat /\ n \in Nat
    BY PageTypes, ContextTypes
  <1>4. PICK r \in Record : r = Landed(w) /\ r.rec_id = ctx.msg_id
    BY <1>2, LandedType DEF Landed
  <1>5. /\ Len(log'[c]) = n + 1 /\ log'[c][n + 1] = r
        /\ \A i \in 1 .. n : log'[c][i] = log[c][i]
        /\ \A p \in Page : p # c => log'[p] = log[p]
    <2>1. log'[c] = Append(log[c], r) /\ \A p \in Page : p # c => log'[p] = log[p]
      BY <1>2, <1>3, <1>4 DEF TypeOK
    <2>2. log[c] \in Seq(Record)
      BY <1>3, PageTypes
    <2> QED BY <2>1, <2>2, AppendType
  <1>6. /\ PagesInv
        /\ \A p \in Growing : p = c
        /\ \A p \in Page : PageBefore(p, ctx.msg_id)
    BY <1>1 DEF IdInv, ReadyInv
  <1>7. /\ \A p \in Filled' : p # c => p \in Filled
        /\ \A p \in Growing' : p # c => p \in Growing
        /\ \A p \in Growing' : p = c
    <2>1. /\ \A p \in Filled' : p # c => p \in Filled
          /\ \A p \in Growing' : p # c => p \in Growing
      BY <1>5 DEF Filled, Growing
    <2> QED BY <1>6, <2>1
  <1>8. \A p \in Page : \A i \in 1 .. Len(log'[p]) :
            \/ i \in 1 .. Len(log[p]) /\ log'[p][i] = log[p][i]
            \/ p = c /\ i = n + 1 /\ log'[p][i] = r
    <2> SUFFICES ASSUME NEW p \in Page, NEW i \in 1 .. Len(log'[p])
                 PROVE  \/ i \in 1 .. Len(log[p]) /\ log'[p][i] = log[p][i]
                        \/ p = c /\ i = n + 1 /\ log'[p][i] = r
      OBVIOUS
    <2>1. CASE p = c
      <3> HIDE DEF n, c
      <3> QED BY <1>3, <1>5, <2>1 DEF n
    <2>2. CASE p # c
      BY <1>5, <2>2
    <2> QED BY <2>1, <2>2
  <1>9. ASSUME NEW q \in Filled', q # c PROVE PageBefore(q, FirstId(c))'
    <2>1. q \in Filled /\ q \in Page /\ log'[q] = log[q]
      BY <1>5, <1>7, <1>9 DEF Filled
    <2>2. PageBefore(q, FirstId(c)')
      <3>1. CASE c \in Filled
        <4>1. FirstId(c)' = FirstId(c)
          BY <1>3, <1>5, <3>1, PageTypes DEF FirstId
        <4>2. c \in Growing
          BY <1>2, <3>1 DEF Growing
        <4> QED BY <1>6, <1>9, <2>1, <4>1, <4>2 DEF PagesInv
      <3>2. CASE c \notin Filled
        <4>1. n = 0
          BY <1>3, <3>2 DEF Filled
        <4>2. FirstId(c)' = ctx.msg_id
          BY <1>4, <1>5, <4>1 DEF FirstId
        <4> QED BY <1>6, <2>1, <4>2
      <3> QED BY <3>1, <3>2
    <2> QED BY <2>1, <2>2 DEF PageBefore
  <1>10. PagesInv'
    <2>1. Filled' \subseteq files'
      BY <1>2, <1>6, <1>7 DEF PagesInv
    <2>2. \A p \in Page : Len(log'[p]) <= PageCap
      <3> SUFFICES ASSUME NEW p \in Page PROVE Len(log'[p]) <= PageCap
        OBVIOUS
      <3>1. CASE p = c
        <4> HIDE DEF n, c
        <4> QED BY <1>2, <1>3, <1>5, <3>1, MidLtsAssumption
      <3>2. CASE p # c
        BY <1>5, <1>6, <3>2 DEF PagesInv
      <3> QED BY <3>1, <3>2
    <2>3. ASSUME NEW p \in Filled', NEW q \in Filled', p # q
          PROVE  PageBefore(p, FirstId(q))' \/ PageBefore(q, FirstId(p))'
      <3>1. CASE p = c \/ q = c
        BY <1>9, <2>3, <3>1
      <3>2. CASE p # c /\ q # c
        <4>1. p \in Filled /\ q \in Filled /\ p \in Page /\ q \in Page
          BY <1>7, <3>2 DEF Filled
        <4>2. log'[p] = log[p] /\ log'[q] = log[q]
          BY <1>5, <3>2, <4>1
        <4>3. PageBefore(p, FirstId(q)) \/ PageBefore(q, FirstId(p))
          BY <1>6, <2>3, <4>1 DEF PagesInv
        <4> QED BY <4>2, <4>3 DEF PageBefore, FirstId
      <3> QED BY <3>1, <3>2
    <2>4. \A p \in Growing', q \in Filled' : p # q => PageBefore(q, FirstId(p))'
      BY <1>7, <1>9
    <2>5. \A p, q \in Growing' : p = q
      BY <1>7
    <2> QED BY <2>1, <2>2, <2>3, <2>4, <2>5 DEF PagesInv
  <1>11. ReadyInv'
    <2>1. \A p \in Page : \A i \in 1 .. Len(log'[p]) : log'[p][i].rec_id <= ctx.msg_id
      <3> SUFFICES ASSUME NEW p \in Page, NEW i \in 1 .. Len(log'[p]) PROVE log'[p][i].rec_id <= ctx.msg_id
        OBVIOUS
      <3>1. CASE i \in 1 .. Len(log[p]) /\ log'[p][i] = log[p][i]
        BY <1>1, <3>1 DEF IdInv, ReadyInv
      <3>2. CASE log'[p][i] = r
        BY <1>3, <1>4, <3>2
      <3> QED BY <1>8, <3>1, <3>2
    <2>2. ASSUME ~Landing', NEW p \in Page PROVE PageBefore(p, ctx.msg_id)'
      <3>1. "sync" \in Faults
        BY <2>2 DEF Landing
      <3> SUFFICES ASSUME NEW i \in 1 .. Len(log'[p]) PROVE Before(log'[p][i].rec_id, ctx.msg_id)
        BY DEF PageBefore
      <3>2. CASE i \in 1 .. Len(log[p]) /\ log'[p][i] = log[p][i]
        BY <1>6, <3>2 DEF PageBefore
      <3>3. CASE log'[p][i] = r
        BY <1>4, <3>1, <3>3 DEF Before
      <3> QED BY <1>8, <3>2, <3>3
    <2>3. \A p \in Growing' : p = ctx'.msg_page
      BY <1>7
    <2> QED BY <2>1, <2>2, <2>3 DEF ReadyInv
  <1>12. JobInv'
    <2> SUFFICES ASSUME NEW v \in Writers
                 PROVE  /\ pc'[v] # "idle" => mode' = "ready" /\ Refusal(ctx', job'[v]) = "OK"
                        /\ pc'[v] = "update" => job'[v].rec_id = ctx'.msg_id /\ job'[v].page = ctx'.msg_page
                        /\ pc'[v] # "write"
      BY DEF JobInv
    <2>1. v = w
      BY <1>1
    <2> QED BY <1>1, <1>2, <2>1
  <1> QED BY <1>1, <1>10, <1>11, <1>12 DEF IdInv, BootInv

LEMMA IdsUpdateContext ==
    ASSUME TypeOK, Serial, IdInv, NEW w \in Writers, UpdateContext(w)
    PROVE  IdInv'
  <1>1. UNCHANGED <<files, log, mode, walk>> /\ pc[w] = "update" /\ Return(w)
    BY DEF UpdateContext
  <1>2. mode = "ready" /\ Refusal(ctx, job[w]) = "OK" /\ \A v \in Writers : v = w
    BY <1>1, IdsCalling
  <1>3. Refusal(ctx, Landed(w)) = "OK"
    BY <1>2, RefusalOfKind DEF Landed
  <1> DEFINE pos == [page |-> job[w].page, offset |-> job[w].size]
  <1>4. ctx' = Counted(UpdateState(ctx, pos, Landed(w)))
    BY <1>3 DEF UpdateContext
  <1>5. ctx \in Context /\ UpdateState(ctx, pos, Landed(w)) \in Context
    <2>1. pos \in Pos
      BY DEF TypeOK, Job, Pos
    <2> QED BY <2>1, LandedType, UpdateStateType DEF TypeOK
  <1>6. ctx'.msg_id = ctx.msg_id + 1 /\ ctx'.msg_page = ctx.msg_page
    <2> HIDE DEF pos
    <2> QED BY <1>4, <1>5, UpdateIds, CountedIds
  <1>7. pc'[w] = "idle"
    BY <1>1 DEF Return, Goto, TypeOK
  <1>8. PagesInv' /\ Growing' = Growing
    BY <1>1, PagesStay DEF IdInv, Filled, Growing
  <1>9. ReadyInv'
    <2>1. \A p \in Page : \A i \in 1 .. Len(log[p]) : log[p][i].rec_id < ctx'.msg_id
      <3> SUFFICES ASSUME NEW p \in Page, NEW i \in 1 .. Len(log[p]) PROVE log[p][i].rec_id < ctx'.msg_id
        OBVIOUS
      <3>1. log[p][i].rec_id \in Nat /\ ctx.msg_id \in Nat
        BY PageTypes, ContextTypes
      <3>2. log[p][i].rec_id <= ctx.msg_id
        BY <1>2 DEF IdInv, ReadyInv
      <3> QED BY <1>6, <3>1, <3>2
    <2>2. \A p \in Page : \A i \in 1 .. Len(log[p]) : log[p][i].rec_id <= ctx'.msg_id
      <3> SUFFICES ASSUME NEW p \in Page, NEW i \in 1 .. Len(log[p]) PROVE log[p][i].rec_id <= ctx'.msg_id
        OBVIOUS
      <3>1. log[p][i].rec_id \in Nat /\ ctx'.msg_id \in Nat
        BY <1>6, PageTypes, ContextTypes
      <3> QED BY <2>1, <3>1
    <2>3. \A p \in Page : PageBefore(p, ctx.msg_id)'
      BY <1>1, <2>1 DEF PageBefore, Before
    <2>4. \A p \in Growing' : p = ctx'.msg_page
      BY <1>2, <1>6, <1>8 DEF IdInv, ReadyInv
    <2> QED BY <1>1, <2>2, <2>3, <2>4 DEF ReadyInv
  <1>10. JobInv'
    BY <1>2, <1>7 DEF JobInv
  <1> QED BY <1>1, <1>2, <1>8, <1>9, <1>10 DEF IdInv, BootInv

LEMMA IdsPurge ==
    ASSUME TypeOK, Serial, IdInv, NEW w \in Writers, Purge(w)
    PROVE  IdInv'
  <1> DEFINE c == ctx.msg_page
  <1>1. /\ UNCHANGED <<ctx, mode, walk>> /\ pc[w] = "purge"
        /\ files' = files \ {c} /\ log' = [log EXCEPT ![c] = <<>>]
    BY DEF Purge
  <1>2. mode = "ready" /\ Refusal(ctx, job[w]) = "OK" /\ ~Landing /\ \A v \in Writers : v = w
    BY <1>1, IdsCalling
  <1>3. pc'[w] = "open" /\ job'[w].kind = job[w].kind
    BY DEF Purge, Goto, TypeOK, Job
  <1>4. c \in Page /\ log'[c] = <<>> /\ \A p \in Page : p # c => log'[p] = log[p]
    BY <1>1, ContextTypes DEF TypeOK
  <1>5. /\ \A p \in Filled' : p # c /\ p \in Filled /\ p \in Page /\ log'[p] = log[p]
        /\ \A p \in Growing' : p # c /\ p \in Growing /\ p \in Page /\ p \in Filled'
    BY <1>4 DEF Filled, Growing
  <1>6. PagesInv /\ ReadyInv
    BY DEF IdInv
  <1>7. PagesInv'
    <2>1. Filled' \subseteq files'
      BY <1>1, <1>5, <1>6 DEF PagesInv
    <2>2. \A p \in Page : Len(log'[p]) <= PageCap
      BY <1>4, <1>6, MidLtsAssumption DEF PagesInv
    <2>3. \A p, q \in Filled' : p # q => PageBefore(p, FirstId(q))' \/ PageBefore(q, FirstId(p))'
      BY <1>5, <1>6 DEF PagesInv, PageBefore, FirstId
    <2>4. \A p \in Growing', q \in Filled' : p # q => PageBefore(q, FirstId(p))'
      BY <1>5, <1>6 DEF PagesInv, PageBefore, FirstId
    <2>5. \A p, q \in Growing' : p = q
      BY <1>5, <1>6 DEF PagesInv
    <2> QED BY <2>1, <2>2, <2>3, <2>4, <2>5 DEF PagesInv
  <1>8. ReadyInv'
    <2>1. \A p \in Growing' : p = ctx'.msg_page
      BY <1>1, <1>2, <1>5, <1>6 DEF ReadyInv
    <2>2. \A p \in Page : \A i \in 1 .. Len(log'[p]) : i \in 1 .. Len(log[p]) /\ log'[p][i] = log[p][i]
      BY <1>4
    <2>3. \A p \in Page : \A i \in 1 .. Len(log'[p]) : log'[p][i].rec_id <= ctx'.msg_id
      BY <1>1, <1>2, <1>6, <2>2 DEF ReadyInv
    <2>4. \A p \in Page : PageBefore(p, ctx.msg_id)'
      BY <1>1, <1>2, <1>6, <2>2 DEF ReadyInv, PageBefore
    <2> QED BY <2>1, <2>3, <2>4 DEF ReadyInv
  <1>9. JobInv'
    <2>1. Refusal(ctx, job'[w]) = "OK"
      BY <1>2, <1>3, RefusalOfKind
    <2> QED BY <1>1, <1>2, <1>3, <2>1 DEF JobInv
  <1> QED BY <1>1, <1>2, <1>7, <1>8, <1>9 DEF IdInv, BootInv

LEMMA IdsNext == TypeOK /\ Serial /\ IdInv /\ [Next]_vars => IdInv'
  <1> SUFFICES ASSUME TypeOK, Serial, IdInv, [Next]_vars PROVE IdInv'
    OBVIOUS
  <1>1. CASE Boot
    BY <1>1, IdsScan, IdsReplayRecord, IdsReplayPageEnd DEF Boot
  <1>2. CASE Crash
    BY <1>2, IdsCrash
  <1>3. CASE Tick \/ UNCHANGED vars
    BY <1>3, IdsTick
  <1>4. ASSUME NEW w \in Writers, NEW kind \in Events, AddEvent(w, kind) PROVE IdInv'
    BY <1>4, IdsAddEvent
  <1>5. ASSUME NEW w \in Writers, Call(w) PROVE IdInv'
    <2>1. CASE WriteRecord(w)
      <3>1. pc'[w] = "update" /\ job' = job
        BY <2>1 DEF WriteRecord, Goto, TypeOK
      <3> QED BY <2>1, <3>1, IdsAppend DEF WriteRecord
    <2>2. CASE WriteFails(w) /\ log' # log
      <3>1. pc'[w] = "idle"
        BY <2>2 DEF WriteFails, Return, Goto, TypeOK
      <3> QED BY <2>2, <3>1, IdsAppend DEF WriteFails
    <2>3. CASE OpenFails(w) \/ PurgeRefused(w) \/ (WriteFails(w) /\ log' = log)
      BY <2>3, IdsReturns
    <2> QED BY <1>5, <2>1, <2>2, <2>3, IdsOpenPage, IdsPageFull, IdsUpdateContext, IdsPurge DEF Call
  <1> QED BY <1>1, <1>2, <1>3, <1>4, <1>5 DEF Next

\* With one call at a time no record on flash is ahead of the id the next append
\* will use, whatever fails half-way and wherever the charger loses power: a
\* boot that succeeds has found the newest record (mid_lts.c).
THEOREM IdsAhead ==
    ASSUME Serial
    PROVE  Spec => []NoIdAhead
  <1>1. IdInv => NoIdAhead
    <2> SUFFICES ASSUME IdInv, mode = "ready", NEW s \in Slots PROVE At(s).rec_id <= ctx.msg_id
      BY DEF NoIdAhead
    <2>1. PICK p \in Page : \E i \in 1 .. Len(log[p]) : s = <<p, i>>
      BY DEF Slots
    <2>2. PICK i \in 1 .. Len(log[p]) : s = <<p, i>>
      BY <2>1
    <2> QED BY <2>2 DEF IdInv, ReadyInv, At
  <1> QED BY <1>1, TypeInit, TypeNext, IdsStart, IdsNext, PTL DEF Spec

-----------------------------------------------------------------------------
(* The refinement: pages, retries and restarts implement a log to which    *)
(* records are added with larger ids and removed when they are too old.    *)

OnPages == {At(s) : s \in Slots}

LEMMA OnPage ==
    /\ \A r \in OnPages : \E p \in Page : \E i \in 1 .. Len(log[p]) : r = log[p][i]
    /\ \A p \in Page : \A i \in 1 .. Len(log[p]) : log[p][i] \in OnPages
  <1>1. ASSUME NEW r \in OnPages
        PROVE  \E p \in Page : \E i \in 1 .. Len(log[p]) : r = log[p][i]
    <2>1. PICK s \in Slots : r = At(s)
      BY DEF OnPages
    <2>2. PICK p \in Page : \E i \in 1 .. Len(log[p]) : s = <<p, i>>
      BY DEF Slots
    <2>3. PICK i \in 1 .. Len(log[p]) : s = <<p, i>>
      BY <2>2
    <2> QED BY <2>1, <2>3 DEF At
  <1>2. ASSUME NEW p \in Page, NEW i \in 1 .. Len(log[p])
        PROVE  log[p][i] \in OnPages
    <2>1. <<p, i>> \in Slots /\ At(<<p, i>>) = log[p][i]
      BY DEF Slots, At
    <2> QED BY <2>1 DEF OnPages
  <1> QED BY <1>1, <1>2

LEMMA OnPageAfter ==
    /\ \A r \in OnPages' : \E p \in Page : \E i \in 1 .. Len(log'[p]) : r = log'[p][i]
    /\ \A p \in Page : \A i \in 1 .. Len(log'[p]) : log'[p][i] \in OnPages'
  <1>1. ASSUME NEW r \in OnPages'
        PROVE  \E p \in Page : \E i \in 1 .. Len(log'[p]) : r = log'[p][i]
    <2>1. PICK s \in Slots' : r = At(s)'
      BY DEF OnPages
    <2>2. PICK p \in Page : \E i \in 1 .. Len(log'[p]) : s = <<p, i>>
      BY DEF Slots
    <2>3. PICK i \in 1 .. Len(log'[p]) : s = <<p, i>>
      BY <2>2
    <2> QED BY <2>1, <2>3 DEF At
  <1>2. ASSUME NEW p \in Page, NEW i \in 1 .. Len(log'[p])
        PROVE  log'[p][i] \in OnPages'
    <2>1. <<p, i>> \in Slots' /\ At(<<p, i>>)' = log'[p][i]
      BY DEF Slots, At
    <2> QED BY <2>1 DEF OnPages
  <1> QED BY <1>1, <1>2

\* A record that has landed is newer than all there are.
LEMMA LegalAppend ==
    ASSUME TypeOK, TimeInv, Serial, IdInv, "sync" \notin Faults, NEW w \in Writers, WriteRecord(w)
    PROVE  LegalLog!Add
  <1>1. /\ log' = [log EXCEPT ![job[w].page] = Append(@, Landed(w))] /\ now' = now
        /\ pc[w] = "write"
    BY DEF WriteRecord
  <1>2. mode = "ready" /\ ~Landing
    BY <1>1, IdsCalling
  <1>3. job[w].rec_id = ctx.msg_id /\ job[w].time <= now
    BY <1>1 DEF IdInv, JobInv, TimeInv
  <1>4. PICK c \in Page : c = job[w].page
    BY DEF TypeOK, Job
  <1>5. PICK r \in Record : r = Landed(w) /\ r.rec_id = ctx.msg_id /\ r.time <= now
    BY <1>3, LandedType DEF Landed
  <1> DEFINE n == Len(log[c])
  <1>6. n \in Nat /\ log[c] \in Seq(Record)
    BY PageTypes
  <1>7. /\ Len(log'[c]) = n + 1 /\ log'[c][n + 1] = r
        /\ \A i \in 1 .. n : log'[c][i] = log[c][i]
        /\ \A p \in Page : p # c => log'[p] = log[p]
    <2>1. log'[c] = Append(log[c], r) /\ \A p \in Page : p # c => log'[p] = log[p]
      BY <1>1, <1>4, <1>5 DEF TypeOK
    <2> QED BY <2>1, <1>6, AppendType
  <1>8. OnPages' = OnPages \cup {r}
    <2>1. ASSUME NEW x \in OnPages' PROVE x \in OnPages \cup {r}
      <3>1. PICK p \in Page : \E i \in 1 .. Len(log'[p]) : x = log'[p][i]
        BY OnPageAfter
      <3>2. PICK i \in 1 .. Len(log'[p]) : x = log'[p][i]
        BY <3>1
      <3>3. CASE p # c \/ i \in 1 .. n
        <4>1. i \in 1 .. Len(log[p]) /\ x = log[p][i]
          BY <1>7, <3>2, <3>3
        <4> QED BY <4>1, OnPage
      <3>4. CASE p = c /\ i \notin 1 .. n
        <4>1. i = n + 1
          BY <1>6, <1>7, <3>4
        <4> QED BY <1>7, <3>2, <3>4, <4>1
      <3> QED BY <3>3, <3>4
    <2>2. ASSUME NEW x \in OnPages PROVE x \in OnPages'
      <3>1. PICK p \in Page : \E i \in 1 .. Len(log[p]) : x = log[p][i]
        BY OnPage
      <3>2. PICK i \in 1 .. Len(log[p]) : x = log[p][i]
        BY <3>1
      <3>3. i \in 1 .. Len(log'[p]) /\ log'[p][i] = x
        BY <1>6, <1>7, <3>2
      <3> QED BY <3>3, OnPageAfter
    <2>3. r \in OnPages'
      <3>1. n + 1 \in 1 .. Len(log'[c])
        BY <1>6, <1>7
      <3> QED BY <1>7, <3>1, OnPageAfter
    <2> QED BY <2>1, <2>2, <2>3
  <1>9. \A old \in OnPages : old.rec_id < r.rec_id
    <2> SUFFICES ASSUME NEW old \in OnPages PROVE old.rec_id < ctx.msg_id
      BY <1>5
    <2>1. PICK p \in Page : \E i \in 1 .. Len(log[p]) : old = log[p][i]
      BY OnPage
    <2>2. PICK i \in 1 .. Len(log[p]) : old = log[p][i]
      BY <2>1
    <2>3. Before(old.rec_id, ctx.msg_id)
      BY <1>2, <2>2 DEF IdInv, ReadyInv, PageBefore
    <2> QED BY <2>3 DEF Before
  <1> HIDE DEF OnPages
  <1>10. r \in OnPages' /\ OnPages' = OnPages \cup {r} /\ \A old \in OnPages : old.rec_id < r.rec_id
    BY <1>8, <1>9
  <1> QED BY <1>1, <1>5, <1>10 DEF LegalLog!Add, OnPages

\* A page that is purged is past the retention period.
LEMMA LegalPurge ==
    ASSUME TypeOK, TimeInv, NEW w \in Writers, Purge(w)
    PROVE  LegalLog!Expire
  <1> DEFINE c == ctx.msg_page
  <1>1. log' = [log EXCEPT ![c] = <<>>] /\ now' = now /\ RetentionStep
    BY PurgeKeepsRetention DEF Purge
  <1>2. c \in Page /\ log'[c] = <<>> /\ \A p \in Page : p # c => log'[p] = log[p]
    BY <1>1, ContextTypes DEF TypeOK
  <1>3. OnPages' \subseteq OnPages
    <2> SUFFICES ASSUME NEW x \in OnPages' PROVE x \in OnPages
      OBVIOUS
    <2>1. PICK p \in Page : \E i \in 1 .. Len(log'[p]) : x = log'[p][i]
      BY OnPageAfter
    <2>2. PICK i \in 1 .. Len(log'[p]) : x = log'[p][i]
      BY <2>1
    <2>3. p # c
      BY <1>2
    <2>4. i \in 1 .. Len(log[p]) /\ x = log[p][i]
      BY <1>2, <2>2, <2>3
    <2> QED BY <2>4, OnPage
  <1>4. ASSUME NEW r \in OnPages \ OnPages', r.kind \in {"START", "TARIFF", "END"}
        PROVE  now - r.time > MaxAge
    <2>1. PICK p \in Page : \E i \in 1 .. Len(log[p]) : r = log[p][i]
      BY OnPage
    <2>2. PICK i \in 1 .. Len(log[p]) : r = log[p][i]
      BY <2>1
    <2>3. p = c
      <3> SUFFICES ASSUME p # c PROVE FALSE
        OBVIOUS
      <3>1. log'[p] = log[p]
        BY <1>2
      <3> QED BY <2>2, <3>1, OnPageAfter
    <2>4. i \in MeterAt(p)
      BY <1>4, <2>2 DEF MeterAt, IsMeter, MeterKind
    <2> QED BY <1>1, <1>2, <2>2, <2>3, <2>4 DEF RetentionStep
  <1> QED BY <1>1, <1>3, <1>4 DEF LegalLog!Expire, OnPages

LEMMA LegalNext ==
    ASSUME TypeOK, TimeInv, Serial, IdInv, "sync" \notin Faults, [Next]_vars
    PROVE  \/ LegalLog!Add \/ LegalLog!Expire \/ LegalLog!Advance
           \/ UNCHANGED <<OnPages, now>>
  <1>1. ASSUME log' = log PROVE OnPages' = OnPages
    BY <1>1 DEF OnPages, Slots, At
  <1>2. CASE Boot \/ Crash \/ UNCHANGED vars
    BY <1>1, <1>2 DEF Boot, Scan, ReplayRecord, ReplayPageEnd, Crash, vars
  <1>3. CASE Tick
    <2>1. now' > now /\ log' = log
      BY <1>3 DEF Tick, TypeOK
    <2> QED BY <1>1, <2>1 DEF LegalLog!Advance, OnPages
  <1>4. ASSUME NEW w \in Writers, NEW kind \in Events, AddEvent(w, kind) PROVE UNCHANGED <<OnPages, now>>
    BY <1>1, <1>4 DEF AddEvent
  <1>5. ASSUME NEW w \in Writers, Call(w)
        PROVE  LegalLog!Add \/ LegalLog!Expire \/ UNCHANGED <<OnPages, now>>
    <2>1. CASE WriteRecord(w)
      BY <2>1, LegalAppend
    <2>2. CASE Purge(w)
      BY <2>2, LegalPurge
    <2>3. CASE OpenPage(w) \/ OpenFails(w) \/ PageFull(w) \/ UpdateContext(w) \/ PurgeRefused(w) \/ WriteFails(w)
      BY <1>1, <2>3 DEF OpenPage, OpenFails, PageFull, UpdateContext, PurgeRefused, WriteFails
    <2> QED BY <1>5, <2>1, <2>2, <2>3 DEF Call
  <1> QED BY <1>2, <1>3, <1>4, <1>5 DEF Next

\* With one call at a time and no record that lands although its sync failed,
\* the pages with their appends, purges, retries, restarts and replays implement
\* the legal log: records are added with ever larger ids, none from the future,
\* and go away only when they are past the retention period.
THEOREM Implements ==
    ASSUME Serial, "sync" \notin Faults
    PROVE  Spec => ImplementsLegalLog
  <1>1. Init => LegalLog!Init
    <2> SUFFICES ASSUME Init PROVE LegalLog!Init
      OBVIOUS
    <2>1. Slots = {}
      BY DEF Init, Slots
    <2> QED BY <2>1 DEF LegalLog!Init, Init
  <1>2. TypeOK /\ TimeInv /\ IdInv /\ [Next]_vars
            => [LegalLog!Add \/ LegalLog!Expire \/ LegalLog!Advance]_<<OnPages, now>>
    BY LegalNext
  <1> QED BY <1>1, <1>2, TypeInit, TypeNext, TimeInit, TimeNext, IdsStart, IdsNext, PTL
          DEF Spec, ImplementsLegalLog, LegalLog!Spec, OnPages

-----------------------------------------------------------------------------
(* The ring and the session it tells.  The ids go on without a gap from    *)
(* page to page of an arc of the ring, so the replay meets each record in  *)
(* the order it was written; the records since a START tell the session    *)
(* the context holds, so replaying them rebuilds it.  All of it needs that *)
(* no write has failed half-way and that only the oldest page was purged,  *)
(* or that no call has failed at all (Steady).                             *)

Past(p) == FirstId(p) + Len(log[p])
InRow == \A p \in Filled : \A i \in 1 .. Len(log[p]) : log[p][i].rec_id = FirstId(p) + i - 1
Newest(p) == p \in Filled /\ \A q \in Filled : FirstId(q) <= FirstId(p)
Oldest(p) == p \in Filled /\ \A q \in Filled : FirstId(p) <= FirstId(q)

\* The pages form an arc of the ring in which the ids go on without a gap, and only the
\* newest page may have room.
ChainInv ==
    /\ \A p \in Filled : \A i \in 1 .. Len(log[p]) : log[p][i].rec_id = FirstId(p) + i - 1
    /\ \A p, q \in Filled : p = q \/ Past(p) <= FirstId(q) \/ Past(q) <= FirstId(p)
    /\ \A p \in Filled : Newest(p) \/ (NextPage(p) \in Filled /\ FirstId(NextPage(p)) = Past(p))
    /\ \A q \in Filled : Oldest(q) \/ \E p \in Filled : q = NextPage(p) /\ FirstId(q) = Past(p)
    /\ \A p \in Filled : Newest(p) \/ Len(log[p]) >= PageCap

\* The records with their places.
PlacedOf(pages) == UNION {{<<[page |-> p, offset |-> i - 1], pages[p][i]>> : i \in 1 .. Len(pages[p])} : p \in Page}
Placed == PlacedOf(log)

Unique(G) == \A x, y \in G : x[2].rec_id = y[2].rec_id => x = y
NoEnd(G, m, n) == \A e \in G : e[2].kind = "END" => ~(m < e[2].rec_id /\ e[2].rec_id < n)

\* Between two starts there is an end.
Alternates(G) == \A x, y \in G :
    x[2].kind = "START" /\ y[2].kind = "START" /\ x[2].rec_id < y[2].rec_id => ~NoEnd(G, x[2].rec_id, y[2].rec_id)

Records(G) == {x[2] : x \in G}

\* The session is the one the records up to n tell.
Rebuilt(G, a, n) ==
    LET start == a.events[1]
        since == {x \in G : start.rec_id <= x[2].rec_id /\ x[2].rec_id < n}
    IN /\ <<a.pos, start>> \in G
       /\ \A k \in 1 .. Len(a.events) : a.events[k] \in Records(since) /\ IsMeter(a.events[k])
       /\ \A x \in since : IsMeter(x[2]) => \E k \in 1 .. Len(a.events) : a.events[k] = x[2]
       /\ a.has_id <=> \E x \in since : x[2].kind = "ID"
       /\ a.has_auth <=> \E x \in since : x[2].kind = "AUTH"

Increasing(events) == \A j, k \in 1 .. Len(events) : j < k => events[j].rec_id < events[k].rec_id

Follows(G, c, n) ==
    /\ c.msg_id = n
    /\ ~c.open => \A x \in G : x[2].kind = "START" /\ x[2].rec_id < n => ~NoEnd(G, x[2].rec_id, n)
    /\ c.open =>
          /\ c.active.events # <<>> /\ c.active.events[1].kind = "START"
          /\ Increasing(c.active.events) /\ c.active.events[Len(c.active.events)].rec_id < n
          /\ NoEnd(G, c.active.events[1].rec_id, n)
          /\ c.active.events[1] \in Records(G) => Rebuilt(G, c.active, n)

UpTo(c) == Follows(Placed, c, c.msg_id) /\ \A p \in Page : Newest(p) => Past(p) = c.msg_id

AtPage ==
    \/ Newest(ctx.msg_page)
    \/ ctx.msg_page \notin Filled /\ \A p \in Page : Newest(p) => ctx.msg_page = NextPage(p)
    \/ /\ ctx.msg_page \in Filled /\ Len(log[ctx.msg_page]) >= PageCap
       /\ \A p \in Page : Newest(p) => NextPage(p) \in Filled

TwoTry(w) == pc[w] \in {"open", "purge"} /\ job[w].try = 2

CallInv ==
    \A w \in Writers :
        /\ pc[w] = "purge" => job[w].try = 2 /\ ctx.msg_page \in Filled
        /\ pc[w] = "write" => job[w].size = Len(log[ctx.msg_page])

\* While nothing fails, a call that meets the oldest page has just left the newest, and
\* only a call leaves a file without records.
WholeInv ==
    /\ ctx.msg_page \in Filled /\ ~Newest(ctx.msg_page) => \E w \in Writers : TwoTry(w)
    /\ \A w \in Writers : TwoTry(w) /\ ctx.msg_page \in Filled => \E p \in Page : Newest(p) /\ ctx.msg_page = NextPage(p)
    /\ files \subseteq Filled \/ \E w \in Writers : pc[w] = "write"

ServeInv ==
    mode = "ready" =>
        /\ UpTo(Promised) /\ AtPage /\ CallInv
        /\ files \subseteq Filled \cup {ctx.msg_page}
        /\ intact => WholeInv

ReplayInv ==
    mode = "replay" =>
        LET n == FirstId(walk.page) + walk.i - 1
        IN /\ Oldest(walk.min) /\ Newest(walk.max)
           /\ walk.i <= Len(log[walk.page]) + 1
           /\ (walk.page = walk.min /\ walk.i = 1) \/ ctx.msg_id = n
           /\ Follows(Placed, [ctx EXCEPT !.msg_id = n], n)
           /\ ctx.open => ctx.active.events[1] \in Records(Placed)
           /\ walk.ret \in {"OK", "SESSION_NOT_OPEN"}

SavedInv == mode # "ready" => UpTo(saved) /\ (intact => files \subseteq Filled)
FailedInv == intact /\ mode = "failed" => walk.ret = "SESSION_NOT_OPEN"

Steady == intact \/ (~skipped /\ Faults \cap {"write", "sync"} = {})
RingBody == ChainInv /\ Alternates(Placed) /\ ServeInv /\ ReplayInv /\ SavedInv /\ FailedInv
RingInv == Steady => RingBody

-----------------------------------------------------------------------------
(* Records with places, and the contexts that follow them.                 *)

\* What a record that is not refused does to the context.
Moves(d, c, pos, r) ==
    /\ d.msg_id = c.msg_id + 1 /\ d.msg_page = c.msg_page
    /\ r.kind = "START" =>
          /\ d.open /\ d.active.pos = pos /\ d.active.events = <<r>>
          /\ ~d.active.has_id /\ ~d.active.has_auth
    /\ r.kind # "START" /\ ~c.open => ~d.open /\ d.active = c.active
    /\ r.kind # "START" /\ c.open =>
          /\ d.open <=> r.kind # "END"
          /\ d.active.pos = c.active.pos
          /\ d.active.events = IF IsMeter(r) THEN Append(c.active.events, r) ELSE c.active.events
          /\ d.active.has_id <=> c.active.has_id \/ r.kind = "ID"
          /\ d.active.has_auth <=> c.active.has_auth \/ r.kind = "AUTH"

LEMMA UpdateMoves ==
    ASSUME NEW c \in Context, NEW pos \in Pos, NEW r \in Record, Refusal(c, r) = "OK"
    PROVE  Moves(Counted(UpdateState(c, pos, r)), c, pos, r)
  <1> DEFINE a == NextActive(c, pos, r)
             open == IF r.kind = "START" THEN TRUE ELSE IF r.kind = "END" THEN FALSE ELSE c.open
             u == UpdateState(c, pos, r)
             d == Counted(u)
  <1>1. c = [open |-> c.open, msg_page |-> c.msg_page, msg_id |-> c.msg_id, active |-> c.active]
        /\ c.open \in BOOLEAN /\ c.active \in Active /\ c.msg_id \in Nat
    BY DEF Context
  <1>2. u = [c EXCEPT !.active = a, !.open = open]
    BY DEF UpdateState
  <1>3. u.active = a /\ u.open = open /\ u.msg_id = c.msg_id /\ u.msg_page = c.msg_page /\ u \in [open : BOOLEAN, msg_page : {c.msg_page}, msg_id : {c.msg_id}, active : {a}]
    <2> HIDE DEF a, u
    <2>1. open \in BOOLEAN
      BY <1>1
    <2> HIDE DEF open
    <2> QED BY <1>1, <1>2, <2>1
  <1>4. d.active = a /\ d.open = open /\ d.msg_id = c.msg_id + 1 /\ d.msg_page = c.msg_page
    <2> HIDE DEF a, u, open
    <2> QED BY <1>1, <1>3 DEF Counted
  <1>5. r.kind \in Kind
    BY DEF Record
  <1>6. c.active = [pos |-> c.active.pos, has_id |-> c.active.has_id, has_auth |-> c.active.has_auth, events |-> c.active.events]
        /\ c.active.has_id \in BOOLEAN /\ c.active.has_auth \in BOOLEAN
    BY <1>1 DEF Active
  <1> HIDE DEF d, u
  <1>7. CASE r.kind = "START"
    <2>1. a = [NoActive EXCEPT !.pos = pos, !.events = <<r>>]
      BY <1>7 DEF NextActive
    <2>2. a.pos = pos /\ a.events = <<r>> /\ a.has_id = FALSE /\ a.has_auth = FALSE
      <3> HIDE DEF a
      <3> QED BY <2>1 DEF NoActive
    <2> HIDE DEF a
    <2> QED BY <1>4, <1>7, <2>2 DEF Moves, d, u
  <1>8. CASE r.kind \in {"TARIFF", "END"} /\ c.open
    <2>1. a = [c.active EXCEPT !.events = Append(@, r)]
      BY <1>8 DEF NextActive
    <2>2. a.pos = c.active.pos /\ a.events = Append(c.active.events, r) /\ a.has_id = c.active.has_id /\ a.has_auth = c.active.has_auth
      <3> HIDE DEF a
      <3> QED BY <1>6, <2>1
    <2>3. open <=> r.kind # "END"
      BY <1>8
    <2>4. IsMeter(r)
      BY <1>8 DEF IsMeter, MeterKind
    <2> HIDE DEF a, open
    <2> QED BY <1>4, <1>8, <2>2, <2>3, <2>4 DEF Moves, d, u
  <1>9. CASE r.kind = "ID" /\ c.open
    <2>1. a = [c.active EXCEPT !.has_id = TRUE]
      BY <1>9 DEF NextActive
    <2>2. a.pos = c.active.pos /\ a.events = c.active.events /\ a.has_id = TRUE /\ a.has_auth = c.active.has_auth
      <3> HIDE DEF a
      <3> QED BY <1>6, <2>1
    <2>3. open
      BY <1>9
    <2>4. ~IsMeter(r)
      BY <1>9 DEF IsMeter, MeterKind
    <2> HIDE DEF a, open
    <2> QED BY <1>4, <1>9, <2>2, <2>3, <2>4 DEF Moves, d, u
  <1>10. CASE r.kind = "AUTH" /\ c.open
    <2>1. a = [c.active EXCEPT !.has_auth = TRUE]
      BY <1>10 DEF NextActive
    <2>2. a.pos = c.active.pos /\ a.events = c.active.events /\ a.has_auth = TRUE /\ a.has_id = c.active.has_id
      <3> HIDE DEF a
      <3> QED BY <1>6, <2>1
    <2>3. open
      BY <1>10
    <2>4. ~IsMeter(r)
      BY <1>10 DEF IsMeter, MeterKind
    <2> HIDE DEF a, open
    <2> QED BY <1>4, <1>10, <2>2, <2>3, <2>4 DEF Moves, d, u
  <1>11. CASE r.kind # "START" /\ ~c.open
    <2>1. open = FALSE
      BY <1>1, <1>11
    <2>2. a = c.active
      BY <1>11 DEF NextActive
    <2> HIDE DEF a, open
    <2> QED BY <1>4, <1>11, <2>1, <2>2 DEF Moves, d, u
  <1> QED BY <1>5, <1>7, <1>8, <1>9, <1>10, <1>11 DEF Kind, MeterKind

InPlace(G) == G \subseteq Pos \X Record /\ Unique(G)

LEMMA PlacedTypes ==
    ASSUME NEW G, InPlace(G), NEW x \in G
    PROVE  /\ x[1] \in Pos /\ x[2] \in Record /\ x = <<x[1], x[2]>>
           /\ x[2].rec_id \in Nat /\ x[2].kind \in Kind
  <1>1. x \in Pos \X Record
    BY DEF InPlace
  <1> QED BY <1>1 DEF Record

\* The place and the record of an id.
LEMMA OneOfId ==
    ASSUME NEW G, InPlace(G), NEW x \in G, NEW y \in G, x[2].rec_id = y[2].rec_id
    PROVE  x = y
  BY DEF InPlace, Unique

\* One record more: what ends between m and the next id.
LEMMA EndsOn ==
    ASSUME NEW G, InPlace(G), NEW x \in G, NEW n \in Nat, x[2].rec_id = n, NEW m \in Nat
    PROVE  /\ NoEnd(G, m, n + 1) => NoEnd(G, m, n)
           /\ NoEnd(G, m, n) /\ x[2].kind # "END" => NoEnd(G, m, n + 1)
           /\ x[2].kind = "END" /\ m < n => ~NoEnd(G, m, n + 1)
           /\ NoEnd(G, n, n + 1)
  <1>1. \A e \in G : e[2].rec_id \in Nat /\ (e[2].rec_id = n => e = x)
    BY PlacedTypes, OneOfId
  <1> QED BY <1>1 DEF NoEnd

\* The fields that are read of the session of a context.
LEMMA EventTypes ==
    ASSUME NEW c \in Context
    PROVE  /\ c.active.events \in Seq(Record) /\ Len(c.active.events) \in Nat
           /\ \A k \in 1 .. Len(c.active.events) : c.active.events[k] \in Record /\ c.active.events[k].rec_id \in Nat
           /\ c.active.events # <<>> => 1 \in 1 .. Len(c.active.events) /\ Len(c.active.events) \in 1 .. Len(c.active.events)
           /\ c.msg_id \in Nat /\ c.open \in BOOLEAN
  <1>1. c.active.events \in Seq(Record) /\ c.msg_id \in Nat /\ c.open \in BOOLEAN
    BY DEF Context, Active
  <1>2. \A k \in 1 .. Len(c.active.events) : c.active.events[k] \in Record /\ c.active.events[k].rec_id \in Nat
    <2>1. \A k \in 1 .. Len(c.active.events) : c.active.events[k] \in Record
      BY <1>1
    <2> QED BY <2>1 DEF Record
  <1> QED BY <1>1, <1>2

\* The first event has the smallest id.
LEMMA FirstEvent ==
    ASSUME NEW q \in Seq(Record), q # <<>>, Increasing(q)
    PROVE  q[1].rec_id \in Nat /\ q[Len(q)].rec_id \in Nat /\ q[1].rec_id <= q[Len(q)].rec_id
  <1>1. PICK n \in Nat : n = Len(q) /\ n > 0
    OBVIOUS
  <1>2. 1 \in 1 .. n /\ n \in 1 .. n
    BY <1>1
  <1>3. q[1] \in Record /\ q[n] \in Record
    BY <1>1, <1>2
  <1>4. q[1].rec_id \in Nat /\ q[n].rec_id \in Nat
    BY <1>3 DEF Record
  <1>5. n = 1 \/ q[1].rec_id < q[n].rec_id
    BY <1>1, <1>2 DEF Increasing
  <1> QED BY <1>1, <1>4, <1>5

LEMMA IncreasingAppend ==
    ASSUME NEW q \in Seq(Record), q # <<>>, Increasing(q), NEW r \in Record, q[Len(q)].rec_id < r.rec_id
    PROVE  /\ Increasing(Append(q, r))
           /\ Append(q, r)[1] = q[1] /\ Len(Append(q, r)) = Len(q) + 1 /\ Append(q, r)[Len(q) + 1] = r
           /\ \A k \in 1 .. Len(q) : Append(q, r)[k] = q[k]
           /\ Append(q, r) # <<>>
  <1>1. PICK n \in Nat : n = Len(q) /\ n > 0
    OBVIOUS
  <1>2. PICK s : s = Append(q, r)
    OBVIOUS
  <1>3. Len(s) = n + 1 /\ s[n + 1] = r /\ \A k \in 1 .. n : s[k] = q[k]
    BY <1>1, <1>2, AppendType
  <1>4. \A k \in 1 .. n : q[k].rec_id \in Nat
    <2>1. \A k \in 1 .. n : q[k] \in Record
      BY <1>1
    <2> QED BY <2>1 DEF Record
  <1>5. \A k \in 1 .. n : q[k].rec_id < r.rec_id
    <2> SUFFICES ASSUME NEW k \in 1 .. n PROVE q[k].rec_id < r.rec_id
      OBVIOUS
    <2>1. r.rec_id \in Nat /\ n \in 1 .. n
      BY <1>1 DEF Record
    <2>2. k = n \/ q[k].rec_id < q[n].rec_id
      BY <1>1, <2>1 DEF Increasing
    <2> QED BY <1>1, <1>4, <2>1, <2>2
  <1>6. Increasing(s)
    <2> SUFFICES ASSUME NEW j \in 1 .. n + 1, NEW k \in 1 .. n + 1, j < k PROVE s[j].rec_id < s[k].rec_id
      BY <1>3 DEF Increasing
    <2>1. j \in 1 .. n
      BY <1>1
    <2>2. CASE k \in 1 .. n
      BY <1>1, <1>3, <2>1, <2>2 DEF Increasing
    <2>3. CASE k = n + 1
      BY <1>3, <1>5, <2>1, <2>3
    <2> QED BY <1>1, <2>2, <2>3
  <1>7. 1 \in 1 .. n
    BY <1>1
  <1>8. s # <<>>
    BY <1>1, <1>3
  <1> QED BY <1>1, <1>2, <1>3, <1>6, <1>7, <1>8

LEMMA FollowsStart ==
    ASSUME NEW G, InPlace(G), NEW c \in Context, NEW x \in G, x[2].rec_id = c.msg_id, x[2].kind = "START",
           NEW d, Moves(d, c, x[1], x[2])
    PROVE  Follows(G, d, c.msg_id + 1)
  <1>1. PICK n \in Nat : n = c.msg_id
    BY EventTypes
  <1>2. PICK r \in Record : r = x[2] /\ x = <<x[1], r>>
    BY PlacedTypes
  <1>3. /\ d.msg_id = n + 1 /\ d.open /\ d.active.pos = x[1] /\ d.active.events = <<r>>
        /\ ~d.active.has_id /\ ~d.active.has_auth
    BY <1>1, <1>2 DEF Moves
  <1> DEFINE since == {y \in G : r.rec_id <= y[2].rec_id /\ y[2].rec_id < n + 1}
  <1>4. since = {x}
    <2>1. \A y \in G : y[2].rec_id \in Nat /\ (y[2].rec_id = n => y = x)
      BY <1>1, PlacedTypes, OneOfId
    <2> QED BY <1>1, <1>2, <2>1
  <1>5. Rebuilt(G, d.active, n + 1)
    <2>1. d.active.events[1] = r /\ Len(d.active.events) = 1
      BY <1>3
    <2>2. r.kind = "START" /\ IsMeter(r)
      BY <1>2 DEF IsMeter, MeterKind
    <2>3. r \in Records(since)
      BY <1>2, <1>4 DEF Records
    <2>4. \A k \in 1 .. Len(d.active.events) : d.active.events[k] = r
      BY <2>1
    <2>5. \A y \in since : y[2] = r
      BY <1>2, <1>4
    <2>6. 1 \in 1 .. Len(d.active.events)
      BY <2>1
    <2>7. <<d.active.pos, r>> \in G
      BY <1>2, <1>3
    <2>8. PICK a : a = d.active
      OBVIOUS
    <2> HIDE DEF since
    <2>9. /\ \A k \in 1 .. Len(a.events) : a.events[k] \in Records(since) /\ IsMeter(a.events[k])
          /\ \A y \in since : IsMeter(y[2]) => \E k \in 1 .. Len(a.events) : a.events[k] = y[2]
      BY <2>2, <2>3, <2>4, <2>5, <2>6, <2>8
    <2>10. /\ a.has_id <=> \E y \in since : y[2].kind = "ID"
           /\ a.has_auth <=> \E y \in since : y[2].kind = "AUTH"
      BY <1>3, <2>2, <2>5, <2>8
    <2>11. a.events[1] = r /\ <<a.pos, a.events[1]>> \in G
      BY <2>1, <2>7, <2>8
    <2> QED BY <2>8, <2>9, <2>10, <2>11 DEF Rebuilt, since
  <1>6. NoEnd(G, n, n + 1)
    BY <1>1, EndsOn
  <1>7. /\ d.active.events # <<>> /\ d.active.events[1] = r /\ Len(d.active.events) = 1
        /\ Increasing(d.active.events) /\ r.rec_id < n + 1
    BY <1>1, <1>2, <1>3 DEF Increasing
  <1>8. r.rec_id = n /\ r.kind = "START"
    BY <1>1, <1>2
  <1> HIDE DEF since
  <1> QED BY <1>1, <1>3, <1>5, <1>6, <1>7, <1>8 DEF Follows

LEMMA FollowsClosed ==
    ASSUME NEW G, InPlace(G), NEW c \in Context, NEW x \in G, x[2].rec_id = c.msg_id, x[2].kind # "START",
           Follows(G, c, c.msg_id), NEW d, d.msg_id = c.msg_id + 1, ~d.open, ~c.open \/ x[2].kind = "END"
    PROVE  Follows(G, d, c.msg_id + 1)
  <1>1. PICK n \in Nat : n = c.msg_id
    BY EventTypes
  <1>2. ASSUME NEW y \in G, y[2].kind = "START", y[2].rec_id < n + 1 PROVE ~NoEnd(G, y[2].rec_id, n + 1)
    <2>1. y[2].rec_id \in Nat
      BY PlacedTypes
    <2>2. y[2].rec_id # n
      BY <1>1, <1>2, OneOfId
    <2>3. y[2].rec_id < n
      BY <1>2, <2>1, <2>2
    <2>4. CASE x[2].kind = "END"
      BY <1>1, <2>1, <2>3, <2>4, EndsOn
    <2>5. CASE ~c.open
      <3>1. ~NoEnd(G, y[2].rec_id, n)
        BY <1>1, <1>2, <2>3, <2>5 DEF Follows
      <3> QED BY <1>1, <2>1, <3>1, EndsOn
    <2> QED BY <2>4, <2>5
  <1> QED BY <1>1, <1>2 DEF Follows

LEMMA FollowsOpen ==
    ASSUME NEW G, InPlace(G), NEW c \in Context, NEW x \in G, x[2].rec_id = c.msg_id, x[2].kind \notin {"START", "END"},
           Follows(G, c, c.msg_id), c.open, NEW d, Moves(d, c, x[1], x[2])
    PROVE  Follows(G, d, c.msg_id + 1)
  <1>1. PICK n \in Nat : n = c.msg_id
    BY EventTypes
  <1>2. PICK r \in Record : r = x[2] /\ r.rec_id = n /\ r.kind \notin {"START", "END"} /\ r.kind \in Kind
    BY <1>1, PlacedTypes
  <1>3. PICK q \in Seq(Record) : q = c.active.events
    BY EventTypes
  <1>4. PICK a : a = d.active
    OBVIOUS
  <1>5. PICK b : b = c.active
    OBVIOUS
  <1>6. /\ d.msg_id = n + 1 /\ d.open /\ a.pos = b.pos
        /\ a.events = IF IsMeter(r) THEN Append(q, r) ELSE q
        /\ a.has_id <=> b.has_id \/ r.kind = "ID"
        /\ a.has_auth <=> b.has_auth \/ r.kind = "AUTH"
    BY <1>1, <1>2, <1>3, <1>4, <1>5 DEF Moves
  <1>7. /\ q # <<>> /\ q[1].kind = "START" /\ Increasing(q) /\ q[Len(q)].rec_id < n
        /\ NoEnd(G, q[1].rec_id, n) /\ (q[1] \in Records(G) => Rebuilt(G, b, n))
    BY <1>1, <1>3, <1>5 DEF Follows
  <1>8. /\ Len(q) \in Nat /\ \A k \in 1 .. Len(q) : q[k] \in Record /\ q[k].rec_id \in Nat
        /\ 1 \in 1 .. Len(q) /\ Len(q) \in 1 .. Len(q)
    BY <1>3, <1>7, EventTypes
  <1>9. PICK s : s = a.events
    OBVIOUS
  <1>10. /\ s # <<>> /\ s[1] = q[1] /\ Increasing(s)
         /\ Len(s) = (IF IsMeter(r) THEN Len(q) + 1 ELSE Len(q))
         /\ \A k \in 1 .. Len(q) : s[k] = q[k]
         /\ IsMeter(r) => s[Len(q) + 1] = r
    <2>1. CASE IsMeter(r)
      BY <1>2, <1>6, <1>7, <1>9, <2>1, IncreasingAppend
    <2>2. CASE ~IsMeter(r)
      BY <1>6, <1>7, <1>9, <2>2
    <2> QED BY <2>1, <2>2
  <1>11. s[Len(s)].rec_id < n + 1
    <2>1. CASE IsMeter(r)
      BY <1>2, <1>10, <2>1
    <2>2. CASE ~IsMeter(r)
      <3>1. s[Len(s)] = q[Len(q)]
        BY <1>8, <1>10, <2>2
      <3> QED BY <1>7, <1>8, <3>1
    <2> QED BY <2>1, <2>2
  <1>12. NoEnd(G, q[1].rec_id, n + 1)
    BY <1>1, <1>2, <1>7, <1>8, EndsOn
  <1>13. ASSUME q[1] \in Records(G) PROVE Rebuilt(G, a, n + 1)
    <2> DEFINE old == {y \in G : q[1].rec_id <= y[2].rec_id /\ y[2].rec_id < n}
               since == {y \in G : q[1].rec_id <= y[2].rec_id /\ y[2].rec_id < n + 1}
    <2>1. b.events[1] = q[1] /\ b.events = q
      BY <1>3, <1>5
    <2>2. /\ <<b.pos, q[1]>> \in G
          /\ \A k \in 1 .. Len(q) : q[k] \in Records(old) /\ IsMeter(q[k])
          /\ \A y \in old : IsMeter(y[2]) => \E k \in 1 .. Len(q) : q[k] = y[2]
          /\ b.has_id <=> \E y \in old : y[2].kind = "ID"
          /\ b.has_auth <=> \E y \in old : y[2].kind = "AUTH"
      BY <1>7, <1>13, <2>1 DEF Rebuilt
    <2>3. \A y \in G : y[2].rec_id \in Nat /\ (y[2].rec_id = n => y = x)
      BY <1>1, PlacedTypes, OneOfId
    <2>4. q[1].rec_id <= n
      BY <1>7, FirstEvent
    <2>5. since = old \cup {x}
      <3>1. q[1].rec_id \in Nat /\ x[2].rec_id = n
        BY <1>2, <1>8
      <3>2. \A y \in since : y \in old \cup {x}
        <4> SUFFICES ASSUME NEW y \in since, y # x PROVE y \in old
          OBVIOUS
        <4>1. y[2].rec_id \in Nat /\ y[2].rec_id # n
          BY <2>3
        <4> QED BY <3>1, <4>1
      <3>3. \A y \in old : y \in since
        <4> SUFFICES ASSUME NEW y \in old PROVE y \in since
          OBVIOUS
        <4>1. y[2].rec_id \in Nat
          BY <2>3
        <4> QED BY <3>1, <4>1
      <3>4. x \in since
        BY <2>4, <3>1
      <3> QED BY <3>2, <3>3, <3>4
    <2> HIDE DEF old, since
    <2>6. \A k \in 1 .. Len(s) : s[k] \in Records(since) /\ IsMeter(s[k])
      <3> SUFFICES ASSUME NEW k \in 1 .. Len(s) PROVE s[k] \in Records(since) /\ IsMeter(s[k])
        OBVIOUS
      <3>1. Records(since) = Records(old) \cup {r}
        BY <1>2, <2>5 DEF Records
      <3>2. k \in 1 .. Len(q) \/ (IsMeter(r) /\ k = Len(q) + 1)
        BY <1>8, <1>10
      <3> QED BY <1>10, <2>2, <3>1, <3>2
    <2>7. ASSUME NEW y \in since, IsMeter(y[2]) PROVE \E k \in 1 .. Len(s) : s[k] = y[2]
      <3>1. CASE y \in old
        <4>1. PICK k \in 1 .. Len(q) : q[k] = y[2]
          BY <2>2, <2>7, <3>1
        <4>2. k \in 1 .. Len(s) /\ s[k] = y[2]
          BY <1>8, <1>10, <4>1
        <4> QED BY <4>2
      <3>2. CASE y = x
        <4>1. IsMeter(r) /\ Len(q) + 1 \in 1 .. Len(s) /\ s[Len(q) + 1] = r
          BY <1>2, <1>8, <1>10, <2>7, <3>2
        <4> QED BY <1>2, <3>2, <4>1
      <3> QED BY <2>5, <3>1, <3>2
    <2>8. /\ a.has_id <=> \E y \in since : y[2].kind = "ID"
          /\ a.has_auth <=> \E y \in since : y[2].kind = "AUTH"
      BY <1>2, <1>6, <2>2, <2>5
    <2>9. <<a.pos, s[1]>> \in G
      BY <1>6, <1>10, <2>2
    <2>10. since = {y \in G : a.events[1].rec_id <= y[2].rec_id /\ y[2].rec_id < n + 1}
      BY <1>9, <1>10 DEF since
    <2> QED BY <1>9, <2>6, <2>7, <2>8, <2>9, <2>10 DEF Rebuilt
  <1>14. s[1].kind = "START"
    BY <1>7, <1>10
  <1> QED BY <1>1, <1>4, <1>6, <1>9, <1>10, <1>11, <1>12, <1>13, <1>14 DEF Follows

\* A record that is not refused extends what the context follows.
LEMMA FollowsOn ==
    ASSUME NEW G, InPlace(G), NEW c \in Context, NEW x \in G, x[2].rec_id = c.msg_id,
           Follows(G, c, c.msg_id), Refusal(c, x[2]) = "OK"
    PROVE  Follows(G, Counted(UpdateState(c, x[1], x[2])), c.msg_id + 1)
  <1>1. PICK d : d = Counted(UpdateState(c, x[1], x[2]))
    OBVIOUS
  <1>2. Moves(d, c, x[1], x[2])
    BY <1>1, UpdateMoves, PlacedTypes
  <1>3. CASE x[2].kind = "START"
    BY <1>1, <1>2, <1>3, FollowsStart
  <1>4. CASE x[2].kind # "START" /\ (~c.open \/ x[2].kind = "END")
    <2>1. d.msg_id = c.msg_id + 1 /\ ~d.open
      BY <1>2, <1>4 DEF Moves
    <2> QED BY <1>1, <1>4, <2>1, FollowsClosed
  <1>5. CASE x[2].kind \notin {"START", "END"} /\ c.open
    BY <1>1, <1>2, <1>5, FollowsOpen
  <1> QED BY <1>3, <1>4, <1>5

\* A record is added whose id is that of the context.
LEMMA FollowsGrown ==
    ASSUME NEW G, NEW H, NEW x, H = G \cup {x}, NEW c \in Context, x[2].rec_id = c.msg_id,
           \A y \in G : y[2].rec_id \in Nat /\ y[2].rec_id < c.msg_id,
           Follows(G, c, c.msg_id)
    PROVE  Follows(H, c, c.msg_id)
  <1>1. PICK n \in Nat : n = c.msg_id
    BY EventTypes
  <1>2. /\ \A y \in G : y[2].rec_id \in Nat /\ y[2].rec_id < n
        /\ x[2].rec_id = n
    BY <1>1
  <1>3. \A m : NoEnd(H, m, n) <=> NoEnd(G, m, n)
    BY <1>2 DEF NoEnd
  <1>4. PICK a : a = c.active
    OBVIOUS
  <1>5. CASE ~c.open
    <2>1. \A y \in G : y[2].kind = "START" /\ y[2].rec_id < n => ~NoEnd(G, y[2].rec_id, n)
      BY <1>1, <1>5 DEF Follows
    <2>2. \A y \in H : y[2].rec_id < n => y \in G
      BY <1>1, <1>2
    <2>3. \A y \in H : y[2].kind = "START" /\ y[2].rec_id < n => ~NoEnd(H, y[2].rec_id, n)
      BY <1>3, <2>1, <2>2
    <2> QED BY <1>1, <1>5, <2>3 DEF Follows
  <1>6. CASE c.open
    <2>1. /\ a.events # <<>> /\ a.events[1].kind = "START"
          /\ Increasing(a.events) /\ a.events[Len(a.events)].rec_id < n
          /\ NoEnd(G, a.events[1].rec_id, n)
          /\ a.events[1] \in Records(G) => Rebuilt(G, a, n)
      BY <1>1, <1>4, <1>6 DEF Follows
    <2>2. ASSUME a.events[1] \in Records(H) PROVE Rebuilt(H, a, n)
      <3>1. a.events[1].rec_id < n
        <4>1. a.events \in Seq(Record) /\ a.events # <<>> /\ Increasing(a.events) /\ a.events[Len(a.events)].rec_id < n
          BY <1>4, <2>1, EventTypes
        <4> QED BY ONLY <1>1, <4>1, FirstEvent
      <3>2. a.events[1] \in Records(G)
        BY <1>1, <1>2, <2>2, <3>1 DEF Records
      <3>3. \A m : {y \in H : m <= y[2].rec_id /\ y[2].rec_id < n} = {y \in G : m <= y[2].rec_id /\ y[2].rec_id < n}
        BY <1>1, <1>2
      <3> QED BY <2>1, <3>2, <3>3 DEF Rebuilt
    <2> QED BY <1>1, <1>3, <1>4, <1>6, <2>1, <2>2 DEF Follows
  <1> QED BY <1>1, <1>5, <1>6, EventTypes

\* The oldest records are removed.
LEMMA FollowsShrunk ==
    ASSUME NEW G, InPlace(G), NEW H \in SUBSET G, NEW c \in Context,
           \A x \in G \ H, y \in H : x[2].rec_id < y[2].rec_id,
           Follows(G, c, c.msg_id)
    PROVE  Follows(H, c, c.msg_id)
  <1>1. PICK n \in Nat : n = c.msg_id
    BY EventTypes
  <1>2. \A y \in G : y[2].rec_id \in Nat
    BY PlacedTypes
  <1>3. \A y \in H : \A k : NoEnd(H, y[2].rec_id, k) => NoEnd(G, y[2].rec_id, k)
    <2> SUFFICES ASSUME NEW y \in H, NEW k, NoEnd(H, y[2].rec_id, k), NEW e \in G, e[2].kind = "END", y[2].rec_id < e[2].rec_id,
                        e[2].rec_id < k PROVE FALSE
      BY DEF NoEnd
    <2>1. e \in H
      BY <1>2
    <2> QED BY <2>1 DEF NoEnd
  <1>4. \A m : NoEnd(G, m, n) => NoEnd(H, m, n)
    BY DEF NoEnd
  <1>5. CASE ~c.open
    BY <1>1, <1>3, <1>5 DEF Follows
  <1>6. CASE c.open
    <2>1. PICK a : a = c.active
      OBVIOUS
    <2>2. /\ a.events # <<>> /\ a.events[1].kind = "START"
          /\ Increasing(a.events) /\ a.events[Len(a.events)].rec_id < n
          /\ NoEnd(G, a.events[1].rec_id, n)
          /\ a.events[1] \in Records(G) => Rebuilt(G, a, n)
      BY <1>1, <1>6, <2>1 DEF Follows
    <2>3. ASSUME a.events[1] \in Records(H) PROVE Rebuilt(H, a, n)
      <3>1. PICK x \in H : x[2] = a.events[1]
        BY <2>3 DEF Records
      <3>2. Rebuilt(G, a, n)
        BY <2>2, <3>1 DEF Records
      <3>3. {y \in H : a.events[1].rec_id <= y[2].rec_id /\ y[2].rec_id < n}
            = {y \in G : a.events[1].rec_id <= y[2].rec_id /\ y[2].rec_id < n}
        <4>1. ASSUME NEW y \in G, a.events[1].rec_id <= y[2].rec_id PROVE y \in H
          BY <1>2, <3>1, <4>1
        <4> QED BY <4>1
      <3>4. <<a.pos, a.events[1]>> \in H
        <4>1. PICK y \in G : y = <<a.pos, a.events[1]>>
          BY <3>2 DEF Rebuilt
        <4>2. y[2] = x[2]
          BY <3>1, <4>1
        <4>3. y = x
          BY <4>2, OneOfId
        <4> QED BY <4>1, <4>3
      <3> QED BY <3>2, <3>3, <3>4 DEF Rebuilt
    <2> QED BY <1>1, <1>4, <1>6, <2>1, <2>2, <2>3 DEF Follows
  <1> QED BY <1>1, <1>5, <1>6, EventTypes

LEMMA AlternatesGrown ==
    ASSUME NEW G, NEW H, NEW x, H = G \cup {x}, NEW c \in Context, x[2].rec_id = c.msg_id,
           \A y \in G : y[2].rec_id \in Nat /\ y[2].rec_id < c.msg_id,
           Follows(G, c, c.msg_id), Refusal(c, x[2]) = "OK", Alternates(G)
    PROVE  Alternates(H)
  <1>1. PICK n \in Nat : n = c.msg_id
    BY EventTypes
  <1>2. /\ \A y \in G : y[2].rec_id \in Nat /\ y[2].rec_id < n
        /\ x[2].rec_id = n
    BY <1>1
  <1> SUFFICES ASSUME NEW y \in H, NEW z \in H, y[2].kind = "START", z[2].kind = "START", y[2].rec_id < z[2].rec_id,
                      NoEnd(H, y[2].rec_id, z[2].rec_id) PROVE FALSE
    BY DEF Alternates
  <1>3. y \in G
    BY <1>2
  <1>4. NoEnd(G, y[2].rec_id, z[2].rec_id)
    BY DEF NoEnd
  <1>5. CASE z \in G
    BY <1>3, <1>4, <1>5 DEF Alternates
  <1>6. CASE z = x
    <2>1. ~c.open
      BY <1>6 DEF Refusal
    <2> QED BY <1>1, <1>2, <1>3, <1>4, <1>6, <2>1 DEF Follows
  <1> QED BY <1>5, <1>6

LEMMA AlternatesShrunk ==
    ASSUME NEW G, InPlace(G), NEW H \in SUBSET G, \A x \in G \ H, y \in H : x[2].rec_id < y[2].rec_id, Alternates(G)
    PROVE  Alternates(H)
  <1>1. \A y \in G : y[2].rec_id \in Nat
    BY PlacedTypes
  <1> SUFFICES ASSUME NEW y \in H, NEW z \in H, y[2].kind = "START", z[2].kind = "START", y[2].rec_id < z[2].rec_id,
                      NoEnd(H, y[2].rec_id, z[2].rec_id) PROVE FALSE
    BY DEF Alternates
  <1>2. PICK e \in G : e[2].kind = "END" /\ y[2].rec_id < e[2].rec_id /\ e[2].rec_id < z[2].rec_id
    BY DEF Alternates, NoEnd
  <1>3. e \in H
    BY <1>1, <1>2
  <1> QED BY <1>2, <1>3 DEF NoEnd

LEMMA EqualSequences ==
    ASSUME NEW S, NEW q \in Seq(S), NEW s \in Seq(S), Len(q) = Len(s), \A k \in 1 .. Len(q) : q[k] = s[k]
    PROVE  q = s
  OBVIOUS

\* Sequences of records with increasing ids and the same elements are equal.
LEMMA SameEvents ==
    ASSUME NEW q \in Seq(Record), NEW s \in Seq(Record), Increasing(q), Increasing(s),
           \A k \in 1 .. Len(q) : \E j \in 1 .. Len(s) : s[j] = q[k],
           \A j \in 1 .. Len(s) : \E k \in 1 .. Len(q) : q[k] = s[j]
    PROVE  q = s
  <1>1. PICK n \in Nat : n = Len(q)
    OBVIOUS
  <1>2. PICK m \in Nat : m = Len(s)
    OBVIOUS
  <1>3. /\ \A k \in 1 .. n : q[k].rec_id \in Nat
        /\ \A j \in 1 .. m : s[j].rec_id \in Nat
    <2>1. (\A k \in 1 .. n : q[k] \in Record) /\ (\A j \in 1 .. m : s[j] \in Record)
      BY <1>1, <1>2
    <2> QED BY <2>1 DEF Record
  <1>4. \A j, k \in 1 .. n : (j < k => q[j].rec_id < q[k].rec_id) /\ (q[j] = q[k] => j = k)
    <2>1. \A j, k \in 1 .. n : j < k => q[j].rec_id < q[k].rec_id
      BY <1>1 DEF Increasing
    <2> QED BY <1>3, <2>1
  <1>5. \A j, k \in 1 .. m : (j < k => s[j].rec_id < s[k].rec_id) /\ (s[j] = s[k] => j = k)
    <2>1. \A j, k \in 1 .. m : j < k => s[j].rec_id < s[k].rec_id
      BY <1>2 DEF Increasing
    <2> QED BY <1>3, <2>1
  <1> DEFINE T == {k \in 1 .. n + 1 : \A j \in 1 .. k - 1 : j <= m /\ q[j] = s[j]}
  <1>6. 1 \in T
    OBVIOUS
  <1>7. PICK i \in T : \A k \in T : k <= i
    <2>1. T \in SUBSET (1 .. n + 1)
      BY Zenon
    <2> HIDE DEF T
    <2>2. n + 1 \in Nat
      OBVIOUS
    <2> QED BY <1>6, <2>1, <2>2, LastIndex
  <1>8. i \in 1 .. n + 1 /\ \A j \in 1 .. i - 1 : j <= m /\ q[j] = s[j]
    OBVIOUS
  <1>9. CASE i = n + 1
    <2>1. \A j \in 1 .. n : j \in 1 .. m /\ q[j] = s[j]
      BY <1>8, <1>9
    <2>2. m <= n
      <3> SUFFICES ASSUME n < m PROVE FALSE
        OBVIOUS
      <3>1. n + 1 \in 1 .. m
        OBVIOUS
      <3>2. PICK k \in 1 .. n : q[k] = s[n + 1]
        BY <1>1, <1>2, <3>1
      <3>3. k \in 1 .. m /\ s[k] = s[n + 1]
        BY <2>1, <3>2
      <3> QED BY <1>5, <3>1, <3>3
    <2>3. n <= m
      <3>1. (n = 0 \/ n \in 1 .. n) /\ n \in Nat /\ m \in Nat
        OBVIOUS
      <3> QED BY ONLY <2>1, <3>1
    <2>4. n = m
      BY <2>2, <2>3
    <2>5. Len(q) = Len(s) /\ \A k \in 1 .. Len(q) : q[k] = s[k]
      BY <1>1, <1>2, <2>1, <2>4
    <2> QED BY <2>5, EqualSequences
  <1>10. CASE i \in 1 .. n
    <2>1. ~(i <= m /\ q[i] = s[i])
      <3> SUFFICES ASSUME i <= m, q[i] = s[i] PROVE FALSE
        OBVIOUS
      <3>1. i + 1 \in T
        <4>1. \A j \in 1 .. (i + 1) - 1 : j <= m /\ q[j] = s[j]
          BY <1>8, <1>10
        <4> QED BY <1>10, <4>1
      <3> HIDE DEF T
      <3> QED BY <1>7, <1>10, <3>1
    <2>2. PICK u \in 1 .. m : s[u] = q[i]
      BY <1>1, <1>2, <1>10
    <2>3. ~(u < i)
      <3> SUFFICES ASSUME u < i PROVE FALSE
        OBVIOUS
      <3>1. u \in 1 .. i - 1 /\ u \in 1 .. n
        BY <1>10
      <3>2. q[u] = q[i]
        BY <1>8, <2>2, <3>1
      <3> QED BY <1>4, <1>10, <3>1, <3>2
    <2>4. u # i
      BY <2>1, <2>2
    <2>5. i < u /\ i \in 1 .. m
      BY <1>10, <2>3, <2>4
    <2>6. PICK k \in 1 .. n : q[k] = s[i]
      BY <1>1, <1>2, <2>5
    <2>7. ~(k < i)
      <3> SUFFICES ASSUME k < i PROVE FALSE
        OBVIOUS
      <3>1. k \in 1 .. i - 1 /\ k \in 1 .. m
        BY <1>10, <2>5
      <3>2. s[k] = s[i]
        BY <1>8, <2>6, <3>1
      <3> QED BY <1>5, <2>5, <3>1, <3>2
    <2>8. q[i].rec_id <= q[k].rec_id
      <3>1. k = i \/ i < k
        BY <1>10, <2>7
      <3> QED BY <1>3, <1>4, <1>10, <3>1
    <2>9. s[i].rec_id < s[u].rec_id
      BY <1>5, <2>5
    <2> QED BY <1>3, <1>10, <2>2, <2>5, <2>6, <2>8, <2>9
  <1> QED BY <1>8, <1>9, <1>10

\* What a context that follows the records to n says of its start.
LEMMA OpenStart ==
    ASSUME NEW G, InPlace(G), NEW c \in Context, NEW n \in Nat, Follows(G, c, n), c.open, c.active.events[1] \in Records(G)
    PROVE  \E x \in G : /\ x[2] = c.active.events[1] /\ x[2].kind = "START" /\ x[2].rec_id < n
                        /\ NoEnd(G, x[2].rec_id, n) /\ x = <<c.active.pos, x[2]>>
  <1>1. PICK q : q = c.active.events
    OBVIOUS
  <1>2. /\ q # <<>> /\ q[1].kind = "START" /\ Increasing(q) /\ q[Len(q)].rec_id < n
        /\ NoEnd(G, q[1].rec_id, n) /\ Rebuilt(G, c.active, n)
    BY <1>1 DEF Follows
  <1>3. q \in Seq(Record)
    BY <1>1, EventTypes
  <1>4. q[1].rec_id < n
    BY <1>2, <1>3, FirstEvent
  <1>5. <<c.active.pos, q[1]>> \in G
    BY <1>1, <1>2 DEF Rebuilt
  <1> QED BY <1>1, <1>2, <1>4, <1>5

\* A context whose session, if it has one, started on flash is the one to find.
LEMMA SameFollow ==
    ASSUME NEW G, InPlace(G), Alternates(G), NEW n \in Nat, NEW c \in Context, Follows(G, c, n),
           NEW d \in Context, Follows(G, d, n), d.open => d.active.events[1] \in Records(G)
    PROVE  /\ ~c.open => ~d.open
           /\ c.open /\ c.active.events[1] \in Records(G) => d.open /\ d.active = c.active
  <1>1. ASSUME ~c.open PROVE ~d.open
    <2> SUFFICES ASSUME d.open PROVE FALSE
      OBVIOUS
    <2>1. PICK x \in G : x[2].kind = "START" /\ x[2].rec_id < n /\ NoEnd(G, x[2].rec_id, n)
      BY OpenStart
    <2> QED BY <1>1, <2>1 DEF Follows
  <1>2. ASSUME c.open, c.active.events[1] \in Records(G) PROVE d.open /\ d.active = c.active
    <2>1. PICK x \in G : /\ x[2] = c.active.events[1] /\ x[2].kind = "START" /\ x[2].rec_id < n
                         /\ NoEnd(G, x[2].rec_id, n) /\ x = <<c.active.pos, x[2]>>
      BY <1>2, OpenStart
    <2>2. d.open
      BY <2>1 DEF Follows
    <2>3. PICK y \in G : /\ y[2] = d.active.events[1] /\ y[2].kind = "START" /\ y[2].rec_id < n
                         /\ NoEnd(G, y[2].rec_id, n) /\ y = <<d.active.pos, y[2]>>
      BY <2>2, OpenStart
    <2>4. x[2].rec_id \in Nat /\ y[2].rec_id \in Nat
      BY PlacedTypes
    <2>5. ASSUME NEW u \in G, NEW v \in G, u[2].kind = "START", v[2].kind = "START", NoEnd(G, u[2].rec_id, n),
                 u[2].rec_id \in Nat, v[2].rec_id \in Nat, v[2].rec_id < n
          PROVE  ~(u[2].rec_id < v[2].rec_id)
      <3> SUFFICES ASSUME u[2].rec_id < v[2].rec_id PROVE FALSE
        OBVIOUS
      <3>1. PICK e \in G : e[2].kind = "END" /\ u[2].rec_id < e[2].rec_id /\ e[2].rec_id < v[2].rec_id
        BY <2>5 DEF Alternates, NoEnd
      <3>2. e[2].rec_id \in Nat
        BY PlacedTypes
      <3> QED BY <2>5, <3>1, <3>2 DEF NoEnd
    <2>6. x = y
      <3>1. ~(x[2].rec_id < y[2].rec_id) /\ ~(y[2].rec_id < x[2].rec_id)
        BY <2>1, <2>3, <2>4, <2>5
      <3>2. x[2].rec_id = y[2].rec_id
        BY <2>4, <3>1
      <3> QED BY <3>2, OneOfId
    <2>7. PICK a : a = c.active
      OBVIOUS
    <2>8. PICK b : b = d.active
      OBVIOUS
    <2>9. a.pos = b.pos /\ a.events[1] = b.events[1]
      <3>1. x[1] = a.pos /\ y[1] = b.pos
        BY <2>1, <2>3, <2>7, <2>8
      <3> QED BY <2>1, <2>3, <2>6, <2>7, <2>8, <3>1
    <2> DEFINE since == {z \in G : a.events[1].rec_id <= z[2].rec_id /\ z[2].rec_id < n}
    <2>10. /\ \A k \in 1 .. Len(a.events) : a.events[k] \in Records(since) /\ IsMeter(a.events[k])
           /\ \A z \in since : IsMeter(z[2]) => \E k \in 1 .. Len(a.events) : a.events[k] = z[2]
           /\ a.has_id <=> \E z \in since : z[2].kind = "ID"
           /\ a.has_auth <=> \E z \in since : z[2].kind = "AUTH"
      <3>1. Rebuilt(G, a, n)
        BY <1>2, <2>7 DEF Follows
      <3> QED BY <3>1 DEF Rebuilt
    <2>11. /\ \A k \in 1 .. Len(b.events) : b.events[k] \in Records(since) /\ IsMeter(b.events[k])
           /\ \A z \in since : IsMeter(z[2]) => \E k \in 1 .. Len(b.events) : b.events[k] = z[2]
           /\ b.has_id <=> \E z \in since : z[2].kind = "ID"
           /\ b.has_auth <=> \E z \in since : z[2].kind = "AUTH"
      <3>1. Rebuilt(G, b, n)
        BY <2>2, <2>8 DEF Follows
      <3> QED BY <2>9, <3>1 DEF Rebuilt
    <2> HIDE DEF since
    <2>12. a.events = b.events
      <3>1. a.events \in Seq(Record) /\ b.events \in Seq(Record)
        BY <2>7, <2>8, EventTypes
      <3>2. Increasing(a.events) /\ Increasing(b.events)
        BY <1>2, <2>2, <2>7, <2>8 DEF Follows
      <3>3. \A k \in 1 .. Len(a.events) : \E j \in 1 .. Len(b.events) : b.events[j] = a.events[k]
        BY <2>10, <2>11 DEF Records
      <3>4. \A k \in 1 .. Len(b.events) : \E j \in 1 .. Len(a.events) : a.events[j] = b.events[k]
        BY <2>10, <2>11 DEF Records
      <3> QED BY <3>1, <3>2, <3>3, <3>4, SameEvents
    <2>13. /\ a = [pos |-> a.pos, has_id |-> a.has_id, has_auth |-> a.has_auth, events |-> a.events]
           /\ b = [pos |-> b.pos, has_id |-> b.has_id, has_auth |-> b.has_auth, events |-> b.events]
           /\ a.has_id \in BOOLEAN /\ b.has_id \in BOOLEAN /\ a.has_auth \in BOOLEAN /\ b.has_auth \in BOOLEAN
      <3>1. a \in Active /\ b \in Active
        BY <2>7, <2>8 DEF Context
      <3> QED BY <3>1 DEF Active
    <2>14. a.has_id = b.has_id /\ a.has_auth = b.has_auth
      BY <2>10, <2>11, <2>13
    <2>15. a = b
      BY ONLY <2>9, <2>12, <2>13, <2>14
    <2> QED BY <2>2, <2>7, <2>8, <2>15
  <1> QED BY <1>1, <1>2

-----------------------------------------------------------------------------
(* The ring.                                                               *)

LEMMA NextPageOnce ==
    ASSUME NEW p \in Page, NEW q \in Page, NextPage(p) = NextPage(q)
    PROVE  p = q
  <1>1. PICK m \in Nat : m = MaxPages /\ m > 0
    BY MidLtsAssumption
  <1>2. ASSUME NEW x \in 0 .. m - 1 PROVE (x + 1) % m = IF x + 1 = m THEN 0 ELSE x + 1
    BY <1>1
  <1>3. p \in 0 .. m - 1 /\ q \in 0 .. m - 1 /\ (p + 1) % m = (q + 1) % m
    BY <1>1 DEF Page, NextPage
  <1> QED BY <1>1, <1>2, <1>3

LEMMA RingTypes ==
    ASSUME TypeOK, NEW p \in Filled
    PROVE  /\ p \in Page /\ FirstId(p) \in Nat /\ Past(p) \in Nat /\ FirstId(p) < Past(p)
           /\ Past(p) = FirstId(p) + Len(log[p]) /\ Len(log[p]) \in Nat \ {0}
  <1>1. p \in Page
    BY DEF Filled
  <1>2. FirstId(p) \in Nat /\ 1 \in 1 .. Len(log[p]) /\ Len(log[p]) \in Nat
    BY <1>1, PageTypes
  <1> QED BY <1>1, <1>2 DEF Past

LEMMA OneNewest ==
    ASSUME TypeOK, ChainInv, NEW p, NEW q, Newest(p), Newest(q)
    PROVE  p = q
  <1>1. p \in Filled /\ q \in Filled /\ FirstId(q) <= FirstId(p) /\ FirstId(p) <= FirstId(q)
    BY DEF Newest
  <1>2. p = q \/ Past(p) <= FirstId(q) \/ Past(q) <= FirstId(p)
    BY <1>1 DEF ChainInv
  <1>3. FirstId(p) \in Nat /\ FirstId(q) \in Nat /\ Past(p) \in Nat /\ Past(q) \in Nat /\ FirstId(p) < Past(p) /\ FirstId(q) < Past(q)
    BY <1>1, RingTypes
  <1> HIDE DEF FirstId
  <1> QED BY <1>1, <1>2, <1>3

LEMMA OneOldest ==
    ASSUME TypeOK, ChainInv, NEW p, NEW q, Oldest(p), Oldest(q)
    PROVE  p = q
  <1>1. p \in Filled /\ q \in Filled /\ FirstId(q) <= FirstId(p) /\ FirstId(p) <= FirstId(q)
    BY DEF Oldest
  <1>2. p = q \/ Past(p) <= FirstId(q) \/ Past(q) <= FirstId(p)
    BY <1>1 DEF ChainInv
  <1>3. FirstId(p) \in Nat /\ FirstId(q) \in Nat /\ Past(p) \in Nat /\ Past(q) \in Nat /\ FirstId(p) < Past(p) /\ FirstId(q) < Past(q)
    BY <1>1, RingTypes
  <1> HIDE DEF FirstId
  <1> QED BY <1>1, <1>2, <1>3

\* The page before, in the ring, of one that is filled, unless it is the oldest.
LEMMA AfterNewest ==
    ASSUME TypeOK, ChainInv, NEW p, Newest(p), NextPage(p) \in Filled
    PROVE  Oldest(NextPage(p))
  <1> SUFFICES ASSUME ~Oldest(NextPage(p)) PROVE FALSE
    OBVIOUS
  <1>1. PICK q \in Filled : NextPage(p) = NextPage(q) /\ FirstId(NextPage(p)) = Past(q)
    BY DEF ChainInv
  <1>2. p \in Filled /\ FirstId(NextPage(p)) <= FirstId(p)
    BY DEF Newest
  <1>3. p = q
    BY <1>1, <1>2, RingTypes, NextPageOnce
  <1>4. FirstId(p) < Past(p) /\ FirstId(p) \in Nat /\ Past(p) \in Nat
    BY <1>2, RingTypes
  <1> HIDE DEF FirstId
  <1> QED BY <1>1, <1>2, <1>3, <1>4

LEMMA SomeNewest ==
    ASSUME TypeOK, Filled # {}
    PROVE  \E p \in Filled : Newest(p)
  <1> DEFINE R == {pq \in Filled \X Filled : FirstId(pq[1]) > FirstId(pq[2])}
  <1>1. IsFiniteSet(Filled)
    <2>1. IsFiniteSet(0 .. MaxPages - 1)
      BY MidLtsAssumption, FS_Interval
    <2>2. Filled \in SUBSET (0 .. MaxPages - 1)
      BY DEF Filled, Page
    <2> QED BY <2>1, <2>2, FS_Subset
  <1>2. \A p \in Filled : FirstId(p) \in Nat
    BY RingTypes
  <1> HIDE DEF FirstId
  <1>3. \A x \in Filled : <<x, x>> \notin R
    BY <1>2
  <1>4. \A x, y, z \in Filled : <<x, y>> \in R /\ <<y, z>> \in R => <<x, z>> \in R
    BY <1>2
  <1>5. PICK p \in Filled : \A q \in Filled : <<q, p>> \notin R
    <2> HIDE DEF R
    <2> QED BY <1>1, <1>3, <1>4, MinimalElement
  <1>6. ASSUME NEW q \in Filled PROVE FirstId(q) <= FirstId(p)
    <2>0. PICK qp : qp = <<q, p>>
      OBVIOUS
    <2>1. qp = <<q, p>> /\ qp[1] = q /\ qp[2] = p /\ qp \in Filled \X Filled
      BY <2>0
    <2>2. ~(FirstId(qp[1]) > FirstId(qp[2]))
      BY <1>5, <2>1
    <2> QED BY <1>2, <2>1, <2>2
  <1> QED BY <1>5, <1>6 DEF Newest

\* The records with their places, page by page.
LEMMA PlacedIn ==
    ASSUME NEW pages, NEW x
    PROVE  x \in PlacedOf(pages) <=> \E p \in Page, i \in Nat : i \in 1 .. Len(pages[p]) /\ x = <<[page |-> p, offset |-> i - 1], pages[p][i]>>
  <1>1. ASSUME x \in PlacedOf(pages)
        PROVE  \E p \in Page, i \in Nat : i \in 1 .. Len(pages[p]) /\ x = <<[page |-> p, offset |-> i - 1], pages[p][i]>>
    <2>1. PICK p \in Page : x \in {<<[page |-> p, offset |-> i - 1], pages[p][i]>> : i \in 1 .. Len(pages[p])}
      BY <1>1 DEF PlacedOf
    <2>2. PICK i \in 1 .. Len(pages[p]) : x = <<[page |-> p, offset |-> i - 1], pages[p][i]>>
      BY <2>1
    <2>3. i \in Nat
      OBVIOUS
    <2> QED BY <2>2, <2>3
  <1> QED BY <1>1 DEF PlacedOf

LEMMA PlacedAt ==
    ASSUME TypeOK, NEW x
    PROVE  x \in Placed <=> \E p \in Filled, i \in Nat : i \in 1 .. Len(log[p]) /\ x = <<[page |-> p, offset |-> i - 1], log[p][i]>>
  <1>1. x \in Placed <=> \E p \in Page, i \in Nat : i \in 1 .. Len(log[p]) /\ x = <<[page |-> p, offset |-> i - 1], log[p][i]>>
    BY PlacedIn DEF Placed
  <1>2. \A p \in Page, i \in Nat : i \in 1 .. Len(log[p]) => p \in Filled
    BY DEF Filled
  <1>3. Filled \subseteq Page
    BY DEF Filled
  <1> QED BY <1>1, <1>2, <1>3

\* The id of a record is that of the first of its page and its place.
LEMMA RowId ==
    ASSUME TypeOK, InRow, NEW p \in Filled, NEW i \in 1 .. Len(log[p])
    PROVE  /\ log[p][i] \in Record /\ log[p][i].rec_id = FirstId(p) + i - 1
           /\ FirstId(p) <= log[p][i].rec_id /\ log[p][i].rec_id < Past(p) /\ log[p][i].rec_id \in Nat
  <1>1. log[p][i] \in Record /\ log[p][i].rec_id \in Nat
    BY RingTypes, PageTypes
  <1>2. log[p][i].rec_id = FirstId(p) + i - 1
    BY DEF InRow
  <1>3. FirstId(p) \in Nat /\ Past(p) = FirstId(p) + Len(log[p]) /\ Len(log[p]) \in Nat
    BY RingTypes
  <1> QED BY ONLY <1>1, <1>2, <1>3, i \in 1 .. Len(log[p])

LEMMA IdOfPlace ==
    ASSUME TypeOK, ChainInv, NEW p \in Filled, NEW i \in 1 .. Len(log[p])
    PROVE  /\ log[p][i] \in Record /\ log[p][i].rec_id = FirstId(p) + i - 1
           /\ FirstId(p) <= log[p][i].rec_id /\ log[p][i].rec_id < Past(p) /\ log[p][i].rec_id \in Nat
  BY RowId DEF ChainInv, InRow

LEMMA PlacedInPlace ==
    ASSUME TypeOK, ChainInv
    PROVE  InPlace(Placed)
  <1>1. ASSUME NEW x \in Placed PROVE x \in Pos \X Record
    <2>1. PICK p \in Filled, i \in Nat : i \in 1 .. Len(log[p]) /\ x = <<[page |-> p, offset |-> i - 1], log[p][i]>>
      BY PlacedAt
    <2>2. log[p][i] \in Record /\ p \in Page
      BY <2>1, IdOfPlace, RingTypes
    <2>3. i - 1 \in Nat
      BY <2>1
    <2> QED BY <2>1, <2>2, <2>3 DEF Pos
  <1>2. ASSUME NEW x \in Placed, NEW y \in Placed, x[2].rec_id = y[2].rec_id PROVE x = y
    <2>1. PICK p \in Filled, i \in Nat : i \in 1 .. Len(log[p]) /\ x = <<[page |-> p, offset |-> i - 1], log[p][i]>>
      BY PlacedAt
    <2>2. PICK q \in Filled, j \in Nat : j \in 1 .. Len(log[q]) /\ y = <<[page |-> q, offset |-> j - 1], log[q][j]>>
      BY PlacedAt
    <2>3. log[p][i].rec_id = log[q][j].rec_id
      BY <1>2, <2>1, <2>2
    <2>4. /\ log[p][i].rec_id = FirstId(p) + i - 1 /\ FirstId(p) <= log[p][i].rec_id /\ log[p][i].rec_id < Past(p) /\ log[p][i].rec_id \in Nat
          /\ log[q][j].rec_id = FirstId(q) + j - 1 /\ FirstId(q) <= log[q][j].rec_id /\ log[q][j].rec_id < Past(q)
      BY <2>1, <2>2, IdOfPlace
    <2>5. FirstId(p) \in Nat /\ FirstId(q) \in Nat /\ Past(p) \in Nat /\ Past(q) \in Nat
      BY RingTypes
    <2>6. p = q \/ Past(p) <= FirstId(q) \/ Past(q) <= FirstId(p)
      BY DEF ChainInv
    <2> HIDE DEF FirstId
    <2>7. p = q
      BY <2>3, <2>4, <2>5, <2>6
    <2>8. i = j
      <3>1. PICK f \in Nat : f = FirstId(p)
        BY <2>5
      <3>2. f + i - 1 = f + j - 1
        BY <2>3, <2>4, <2>7, <3>1
      <3> QED BY <3>2
    <2> QED BY <2>1, <2>2, <2>7, <2>8
  <1> QED BY <1>1, <1>2 DEF InPlace, Unique

\* Every record is before the end of the newest page, and after the start of the oldest.
LEMMA PlacedBelow ==
    ASSUME TypeOK, ChainInv, NEW n \in Nat, \A p \in Page : Newest(p) => Past(p) = n
    PROVE  \A x \in Placed : x[2].rec_id \in Nat /\ x[2].rec_id < n
  <1> SUFFICES ASSUME NEW x \in Placed PROVE x[2].rec_id \in Nat /\ x[2].rec_id < n
    OBVIOUS
  <1>1. PICK p \in Filled, i \in Nat : i \in 1 .. Len(log[p]) /\ x = <<[page |-> p, offset |-> i - 1], log[p][i]>>
    BY PlacedAt
  <1>2. x[2].rec_id < Past(p) /\ x[2].rec_id \in Nat
    BY <1>1, IdOfPlace
  <1>3. PICK q \in Filled : Newest(q)
    BY SomeNewest
  <1>4. q \in Page /\ Past(q) = n /\ FirstId(q) \in Nat /\ FirstId(q) < Past(q) /\ Past(p) \in Nat /\ FirstId(p) \in Nat
    BY <1>3, RingTypes
  <1>5. FirstId(p) <= FirstId(q)
    BY <1>3 DEF Newest
  <1>6. p = q \/ Past(p) <= FirstId(q) \/ Past(q) <= FirstId(p)
    BY DEF ChainInv
  <1> HIDE DEF FirstId
  <1> QED BY <1>2, <1>4, <1>5, <1>6

LEMMA LogStays ==
    ASSUME log' = log
    PROVE  /\ Filled' = Filled /\ Placed' = Placed /\ (ChainInv' <=> ChainInv)
           /\ \A p : FirstId(p)' = FirstId(p) /\ Past(p)' = Past(p) /\ (Newest(p)' <=> Newest(p)) /\ (Oldest(p)' <=> Oldest(p))
           /\ \A c : UpTo(c) => /\ Follows(Placed', c, c.msg_id)
                                /\ \A p \in Page : Newest(p)' => Past(p)' = c.msg_id
  <1>1. Filled' = Filled
    BY DEF Filled
  <1>2. Placed' = Placed
    BY DEF Placed
  <1>3. \A p : FirstId(p)' = FirstId(p) /\ Past(p)' = Past(p)
    BY DEF FirstId, Past
  <1>4. \A p : (Newest(p)' <=> Newest(p)) /\ (Oldest(p)' <=> Oldest(p))
    BY <1>1 DEF Newest, Oldest, FirstId
  <1>5. ChainInv' <=> ChainInv
    BY <1>1, <1>4 DEF ChainInv, FirstId, Past
  <1> QED BY <1>1, <1>2, <1>3, <1>4, <1>5 DEF UpTo

\* A record is appended to the newest page, or to the free one after it.
Appends(p, r) ==
    /\ log' = [log EXCEPT ![p] = Append(@, r)]
    /\ \A q \in Page : Newest(q) => Past(q) = r.rec_id
    /\ \A q \in Filled : q = p \/ Len(log[q]) >= PageCap
    /\ Newest(p) \/ (p \notin Filled /\ \A q \in Page : Newest(q) => p = NextPage(q))

LEMMA AppendPages ==
    ASSUME TypeOK, ChainInv, NEW p \in Page, NEW r \in Record, Appends(p, r)
    PROVE  /\ Filled' = Filled \cup {p} /\ Past(p)' = r.rec_id + 1
           /\ FirstId(p)' = IF p \in Filled THEN FirstId(p) ELSE r.rec_id
           /\ FirstId(p)' \in Nat /\ FirstId(p)' < Past(p)'
           /\ \A q \in Filled \ {p} : /\ log'[q] = log[q] /\ FirstId(q)' = FirstId(q) /\ Past(q)' = Past(q)
                                      /\ Past(q) <= FirstId(p)'
           /\ Len(log'[p]) = Len(log[p]) + 1 /\ Len(log[p]) \in Nat
           /\ \A i \in 1 .. Len(log[p]) : log'[p][i] = log[p][i]
           /\ log'[p][Len(log[p]) + 1] = r
  <1>1. log' = [log EXCEPT ![p] = Append(@, r)] /\ log \in [Page -> Seq(Record)] /\ log[p] \in Seq(Record)
    BY DEF Appends, TypeOK
  <1>2. log'[p] = Append(log[p], r) /\ \A q \in Page \ {p} : log'[q] = log[q]
    BY <1>1
  <1>3. /\ Len(log'[p]) = Len(log[p]) + 1 /\ Len(log[p]) \in Nat
        /\ \A i \in 1 .. Len(log[p]) : log'[p][i] = log[p][i]
        /\ log'[p][Len(log[p]) + 1] = r /\ log'[p] # <<>>
    <2>1. Len(log[p]) \in Nat
      BY <1>1
    <2>2. Len(log'[p]) = Len(log[p]) + 1 /\ log'[p][Len(log[p]) + 1] = r /\ \A i \in 1 .. Len(log[p]) : log'[p][i] = log[p][i]
      BY <1>1, <1>2, AppendType
    <2>3. log'[p] # <<>>
      BY <2>1, <2>2
    <2> QED BY <2>1, <2>2, <2>3
  <1>4. Filled' = Filled \cup {p}
    BY <1>2, <1>3 DEF Filled
  <1>5. \A q \in Filled \ {p} : log'[q] = log[q] /\ FirstId(q)' = FirstId(q) /\ Past(q)' = Past(q)
    <2>1. \A q \in Filled \ {p} : log'[q] = log[q]
      BY <1>2 DEF Filled
    <2> QED BY <2>1 DEF FirstId, Past
  <1>6. r.rec_id \in Nat
    BY DEF Record
  <1>7. p \in Filled => Newest(p) /\ Past(p) = r.rec_id /\ FirstId(p) \in Nat /\ FirstId(p) < Past(p)
                        /\ Past(p) = FirstId(p) + Len(log[p]) /\ 1 \in 1 .. Len(log[p])
    <2> SUFFICES ASSUME p \in Filled PROVE Newest(p) /\ Past(p) = r.rec_id /\ FirstId(p) \in Nat /\ FirstId(p) < Past(p)
                        /\ Past(p) = FirstId(p) + Len(log[p]) /\ 1 \in 1 .. Len(log[p])
      OBVIOUS
    <2>1. Newest(p) /\ Past(p) = r.rec_id
      BY DEF Appends
    <2>2. 1 \in 1 .. Len(log[p])
      BY PageTypes
    <2> QED BY <2>1, <2>2, RingTypes
  <1>8. p \notin Filled => Len(log[p]) = 0
    BY <1>1 DEF Filled
  <1>9. FirstId(p)' = IF p \in Filled THEN FirstId(p) ELSE r.rec_id
    <2>1. FirstId(p)' = log'[p][1].rec_id
      BY DEF FirstId
    <2>2. CASE p \in Filled
      BY <1>3, <1>7, <2>1, <2>2 DEF FirstId
    <2>3. CASE p \notin Filled
      BY <1>3, <1>8, <2>1, <2>3
    <2> QED BY <2>2, <2>3
  <1>10. Past(p)' = r.rec_id + 1
    <2>1. Past(p)' = FirstId(p)' + Len(log'[p])
      BY DEF Past
    <2> HIDE DEF FirstId
    <2>2. CASE p \in Filled
      BY <1>3, <1>7, <1>9, <2>1, <2>2
    <2>3. CASE p \notin Filled
      BY <1>3, <1>6, <1>8, <1>9, <2>1, <2>3
    <2> QED BY <2>2, <2>3
  <1>11. FirstId(p)' \in Nat /\ FirstId(p)' < Past(p)'
    <2> HIDE DEF FirstId
    <2> QED BY <1>6, <1>7, <1>9, <1>10
  <1>12. ASSUME NEW q \in Filled \ {p} PROVE Past(q) <= FirstId(p)'
    <2>1. PICK n \in Filled : Newest(n) /\ (p \in Filled => n = p)
      BY <1>7, SomeNewest
    <2>2. n \in Page /\ FirstId(n) \in Nat /\ Past(n) \in Nat /\ FirstId(q) \in Nat /\ Past(q) \in Nat /\ FirstId(q) < Past(q) /\ FirstId(n) < Past(n)
      BY RingTypes
    <2>3. Past(n) = r.rec_id
      BY <2>1, <2>2 DEF Appends
    <2>4. q = n \/ Past(q) <= FirstId(n) \/ Past(n) <= FirstId(q)
      BY DEF ChainInv
    <2>5. FirstId(q) <= FirstId(n)
      BY <2>1 DEF Newest
    <2> HIDE DEF FirstId
    <2>6. q = n \/ Past(q) <= FirstId(n)
      BY <2>2, <2>4, <2>5
    <2>7. CASE p \in Filled
      BY <1>9, <2>1, <2>6, <2>7
    <2>8. CASE p \notin Filled
      BY <1>9, <2>2, <2>3, <2>6, <2>8
    <2> QED BY <2>7, <2>8
  <1> QED BY <1>3, <1>4, <1>5, <1>9, <1>10, <1>11, <1>12

LEMMA AppendChain ==
    ASSUME TypeOK, ChainInv, NEW p \in Page, NEW r \in Record, Appends(p, r)
    PROVE  ChainInv' /\ Newest(p)'
  <1>1. /\ Filled' = Filled \cup {p} /\ Past(p)' = r.rec_id + 1
        /\ FirstId(p)' = IF p \in Filled THEN FirstId(p) ELSE r.rec_id
        /\ FirstId(p)' \in Nat /\ FirstId(p)' < Past(p)'
        /\ \A q \in Filled \ {p} : /\ log'[q] = log[q] /\ FirstId(q)' = FirstId(q) /\ Past(q)' = Past(q)
                                   /\ Past(q) <= FirstId(p)'
        /\ Len(log'[p]) = Len(log[p]) + 1 /\ Len(log[p]) \in Nat
        /\ \A i \in 1 .. Len(log[p]) : log'[p][i] = log[p][i]
        /\ log'[p][Len(log[p]) + 1] = r
    BY AppendPages
  <1>2. \A q \in Filled : FirstId(q) \in Nat /\ Past(q) \in Nat /\ FirstId(q) < Past(q) /\ q \in Page
    BY RingTypes
  <1>3. r.rec_id \in Nat
    BY DEF Record
  <1>4. p \in Filled => Newest(p) /\ Past(p) = r.rec_id
    BY DEF Appends
  <1>5. p \notin Filled => \A q \in Page : Newest(q) => p = NextPage(q) /\ Past(q) = r.rec_id
    BY DEF Appends, Newest
  <1>6. Newest(p)'
    <2> HIDE DEF FirstId
    <2>1. \A q \in Filled' : FirstId(q)' <= FirstId(p)'
      <3> SUFFICES ASSUME NEW q \in Filled' PROVE FirstId(q)' <= FirstId(p)'
        OBVIOUS
      <3>1. CASE q = p
        BY <1>1, <3>1
      <3>2. CASE q # p
        BY <1>1, <1>2, <3>2
      <3> QED BY <3>1, <3>2
    <2> QED BY <1>1, <2>1 DEF Newest
  <1>7. ASSUME NEW q \in Filled', NEW i \in 1 .. Len(log'[q]) PROVE log'[q][i].rec_id = FirstId(q)' + i - 1
    <2>1. CASE q # p
      <3>1. log[q][i].rec_id = FirstId(q) + i - 1
        BY <1>1, <1>7, <2>1 DEF ChainInv
      <3> QED BY <1>1, <2>1, <3>1
    <2>2. CASE q = p /\ i \in 1 .. Len(log[p]) /\ p \in Filled
      <3>1. log[p][i].rec_id = FirstId(p) + i - 1
        BY <2>2 DEF ChainInv
      <3> QED BY <1>1, <2>2, <3>1
    <2>3. CASE q = p /\ i = Len(log[p]) + 1
      <3>1. log'[q][i].rec_id = r.rec_id
        BY <1>1, <2>3
      <3>2. Past(p)' = FirstId(p)' + Len(log'[p])
        BY DEF Past
      <3> HIDE DEF FirstId
      <3>3. r.rec_id + 1 = FirstId(p)' + (Len(log[p]) + 1) /\ FirstId(p)' \in Nat /\ Len(log[p]) \in Nat
        BY <1>1, <3>2
      <3>4. r.rec_id = FirstId(p)' + i - 1
        BY ONLY <1>3, <2>3, <3>3
      <3> QED BY <2>3, <3>1, <3>4
    <2>4. i \in 1 .. Len(log[p]) => p \in Filled
      BY DEF Filled
    <2>5. q = p => i \in 1 .. Len(log[p]) \/ i = Len(log[p]) + 1
      BY <1>1
    <2> QED BY <2>1, <2>2, <2>3, <2>4, <2>5
  <1>8. ASSUME NEW q \in Filled', NEW s \in Filled' PROVE q = s \/ Past(q)' <= FirstId(s)' \/ Past(s)' <= FirstId(q)'
    <2>1. CASE q # p /\ s # p
      <3>1. q = s \/ Past(q) <= FirstId(s) \/ Past(s) <= FirstId(q)
        BY <1>1, <2>1 DEF ChainInv
      <3> QED BY <1>1, <2>1, <3>1
    <2>2. CASE q = p \/ s = p
      BY <1>1, <2>2
    <2> QED BY <2>1, <2>2
  <1>9. ASSUME NEW q \in Filled', q # p PROVE NextPage(q) \in Filled' /\ FirstId(NextPage(q))' = Past(q)'
    <2>1. q \in Filled
      BY <1>1, <1>9
    <2>2. CASE ~Newest(q)
      <3>1. NextPage(q) \in Filled /\ FirstId(NextPage(q)) = Past(q)
        BY <2>1, <2>2 DEF ChainInv
      <3>2. FirstId(NextPage(q))' = FirstId(NextPage(q))
        BY <1>1, <3>1
      <3> QED BY <1>1, <1>9, <2>1, <3>1, <3>2
    <2>3. CASE Newest(q)
      <3>1. p \notin Filled
        BY <1>4, <1>9, <2>3, OneNewest
      <3>2. p = NextPage(q) /\ Past(q) = r.rec_id
        BY <1>2, <1>5, <2>1, <2>3, <3>1
      <3> QED BY <1>1, <1>9, <2>1, <3>1, <3>2
    <2> QED BY <2>2, <2>3
  <1>10. ASSUME NEW s \in Filled, NEW q \in Filled, q = NextPage(s), FirstId(q) = Past(s) PROVE s # p
    <2> SUFFICES ASSUME s = p PROVE FALSE
      OBVIOUS
    <2>1. FirstId(q) <= FirstId(p)
      BY <1>4 DEF Newest
    <2> HIDE DEF FirstId
    <2> QED BY <1>2, <1>10, <2>1
  <1>11. ASSUME NEW q \in Filled' PROVE Oldest(q)' \/ \E s \in Filled' : q = NextPage(s) /\ FirstId(q)' = Past(s)'
    <2>1. CASE q \in Filled /\ ~Oldest(q)
      <3>1. PICK s \in Filled : q = NextPage(s) /\ FirstId(q) = Past(s)
        BY <2>1 DEF ChainInv
      <3>2. s # p
        BY <1>10, <2>1, <3>1
      <3>3. FirstId(q)' = FirstId(q)
        BY <1>1, <2>1
      <3>4. Past(s)' = Past(s) /\ s \in Filled'
        BY <1>1, <3>2
      <3> QED BY <3>1, <3>3, <3>4
    <2>2. CASE q \in Filled /\ Oldest(q)
      <3>1. FirstId(q)' = FirstId(q)
        BY <1>1, <2>2
      <3>2. ASSUME NEW s \in Filled' PROVE FirstId(q)' <= FirstId(s)'
        <4>1. CASE s \in Filled
          <5>1. FirstId(s)' = FirstId(s) /\ FirstId(q) <= FirstId(s)
            BY <1>1, <2>2, <4>1 DEF Oldest
          <5> HIDE DEF FirstId
          <5> QED BY <3>1, <5>1
        <4>2. CASE s \notin Filled
          <5>1. s = p /\ q # p /\ Past(q) <= FirstId(p)'
            BY <1>1, <2>2, <4>2
          <5> HIDE DEF FirstId
          <5> QED BY <1>1, <1>2, <2>2, <3>1, <5>1
        <4> QED BY <4>1, <4>2
      <3> QED BY <3>2 DEF Oldest
    <2>3. CASE q \notin Filled
      <3>1. q = p /\ FirstId(p)' = r.rec_id
        BY <1>1, <2>3
      <3>2. CASE Filled = {}
        <4>1. Filled' = {p}
          BY <1>1, <3>2
        <4>2. FirstId(p)' <= FirstId(p)'
          <5> HIDE DEF FirstId
          <5> QED BY <1>1
        <4> QED BY <3>1, <4>1, <4>2 DEF Oldest
      <3>3. CASE Filled # {}
        <4>1. PICK n \in Filled : Newest(n)
          BY <3>3, SomeNewest
        <4>2. p = NextPage(n) /\ Past(n) = r.rec_id
          BY <1>2, <1>5, <2>3, <3>1, <4>1
        <4>3. n \in Filled' /\ Past(n)' = Past(n)
          BY <1>1, <2>3, <3>1
        <4> QED BY <3>1, <4>2, <4>3
      <3> QED BY <3>2, <3>3
    <2> QED BY <2>1, <2>2, <2>3
  <1>12. ASSUME NEW q \in Filled', q # p PROVE Len(log'[q]) >= PageCap
    BY <1>1, <1>12 DEF Appends
  <1>13. ChainInv'
    <2>1. \A q \in Filled' : Newest(q)' \/ q # p
      BY <1>6
    <2> QED BY <1>7, <1>8, <1>9, <1>11, <1>12, <2>1 DEF ChainInv
  <1> QED BY <1>6, <1>13

\* One record more on a page.
LEMMA PageGrows ==
    ASSUME TypeOK, NEW p \in Page, NEW r \in Record, log' = [log EXCEPT ![p] = Append(@, r)]
    PROVE  /\ \A q \in Page \ {p} : log'[q] = log[q]
           /\ Len(log'[p]) = Len(log[p]) + 1 /\ Len(log[p]) \in Nat
           /\ \A i \in 1 .. Len(log[p]) : log'[p][i] = log[p][i]
           /\ log'[p][Len(log[p]) + 1] = r
  <1>1. log'[p] = Append(log[p], r) /\ \A q \in Page \ {p} : log'[q] = log[q]
    BY DEF TypeOK
  <1>2. log[p] \in Seq(Record)
    BY PageTypes
  <1> QED BY <1>1, <1>2, AppendType

LEMMA PlacedGrows ==
    ASSUME TypeOK, NEW p \in Page, NEW r \in Record, log' = [log EXCEPT ![p] = Append(@, r)]
    PROVE  Placed' = Placed \cup {<<[page |-> p, offset |-> Len(log[p])], r>>}
  <1>1. /\ \A q \in Page \ {p} : log'[q] = log[q]
        /\ Len(log'[p]) = Len(log[p]) + 1 /\ Len(log[p]) \in Nat
        /\ \A i \in 1 .. Len(log[p]) : log'[p][i] = log[p][i]
        /\ log'[p][Len(log[p]) + 1] = r
    BY PageGrows
  <1>2. \A x : x \in Placed' <=> \E q \in Page, i \in Nat : i \in 1 .. Len(log'[q]) /\ x = <<[page |-> q, offset |-> i - 1], log'[q][i]>>
    <2>1. Placed' = PlacedOf(log')
      BY DEF Placed
    <2> QED BY ONLY <2>1, PlacedIn
  <1>3. \A x : x \in Placed <=> \E q \in Page, i \in Nat : i \in 1 .. Len(log[q]) /\ x = <<[page |-> q, offset |-> i - 1], log[q][i]>>
    BY PlacedIn DEF Placed
  <1> DEFINE y == <<[page |-> p, offset |-> Len(log[p])], r>>
  <1>4. ASSUME NEW x \in Placed' PROVE x \in Placed \cup {y}
    <2>1. PICK q \in Page, i \in Nat : i \in 1 .. Len(log'[q]) /\ x = <<[page |-> q, offset |-> i - 1], log'[q][i]>>
      BY <1>2
    <2>2. CASE q # p
      BY <1>1, <1>3, <2>1, <2>2
    <2>3. CASE q = p /\ i \in 1 .. Len(log[p])
      BY <1>1, <1>3, <2>1, <2>3
    <2>4. CASE q = p /\ i = Len(log[p]) + 1
      <3>1. i - 1 = Len(log[p])
        BY <1>1, <2>4
      <3> QED BY <1>1, <2>1, <2>4, <3>1
    <2>5. q = p => i \in 1 .. Len(log[p]) \/ i = Len(log[p]) + 1
      BY <1>1, <2>1
    <2> QED BY <2>2, <2>3, <2>4, <2>5
  <1>5. ASSUME NEW x \in Placed PROVE x \in Placed'
    <2>1. PICK q \in Page, i \in Nat : i \in 1 .. Len(log[q]) /\ x = <<[page |-> q, offset |-> i - 1], log[q][i]>>
      BY <1>3
    <2>2. i \in 1 .. Len(log'[q]) /\ log'[q][i] = log[q][i]
      <3>1. CASE q # p
        BY <1>1, <2>1, <3>1
      <3>2. CASE q = p
        BY <1>1, <2>1, <3>2
      <3> QED BY <3>1, <3>2
    <2> QED BY <1>2, <2>1, <2>2
  <1>6. y \in Placed'
    <2>1. PICK i \in Nat : i = Len(log[p]) + 1
      BY <1>1
    <2>2. i \in 1 .. Len(log'[p]) /\ i - 1 = Len(log[p]) /\ log'[p][i] = r
      BY <1>1, <2>1
    <2> QED BY <1>2, <2>2
  <1> HIDE DEF y
  <1>7. Placed' = Placed \cup {y}
    BY <1>4, <1>5, <1>6
  <1> QED BY <1>7 DEF y

LEMMA AppendPlaced ==
    ASSUME TypeOK, ChainInv, NEW p \in Page, NEW r \in Record, Appends(p, r)
    PROVE  Placed' = Placed \cup {<<[page |-> p, offset |-> Len(log[p])], r>>}
  BY PlacedGrows DEF Appends

\* The oldest page is removed.
LEMMA PurgePages ==
    ASSUME TypeOK, ChainInv, NEW p, Oldest(p), log' = [log EXCEPT ![p] = <<>>]
    PROVE  /\ Filled' = Filled \ {p}
           /\ \A q \in Filled' : /\ log'[q] = log[q] /\ FirstId(q)' = FirstId(q) /\ Past(q)' = Past(q)
                                 /\ Past(p) <= FirstId(q) /\ (Newest(q)' <=> Newest(q))
           /\ \A q : Newest(q)' => Newest(q)
  <1>1. p \in Filled /\ p \in Page
    BY RingTypes DEF Oldest
  <1>2. log'[p] = <<>> /\ \A q \in Page \ {p} : log'[q] = log[q]
    BY <1>1 DEF TypeOK
  <1>3. Filled' = Filled \ {p}
    BY <1>1, <1>2 DEF Filled
  <1>4. \A q \in Filled' : log'[q] = log[q] /\ FirstId(q)' = FirstId(q) /\ Past(q)' = Past(q)
    <2>1. \A q \in Filled' : log'[q] = log[q]
      BY <1>2, <1>3 DEF Filled
    <2> QED BY <2>1 DEF FirstId, Past
  <1>5. \A q \in Filled : FirstId(q) \in Nat /\ Past(q) \in Nat /\ FirstId(q) < Past(q)
    BY RingTypes
  <1>6. ASSUME NEW q \in Filled' PROVE Past(p) <= FirstId(q)
    <2>1. q \in Filled /\ q # p
      BY <1>3
    <2>2. Past(p) <= FirstId(q) \/ Past(q) <= FirstId(p)
      BY <1>1, <2>1 DEF ChainInv
    <2>3. FirstId(p) <= FirstId(q)
      BY <2>1 DEF Oldest
    <2> HIDE DEF FirstId
    <2> QED BY <1>1, <1>5, <2>1, <2>2, <2>3
  <1>7. ASSUME NEW q \in Filled' PROVE Newest(q)' <=> Newest(q)
    <2>1. q \in Filled
      BY <1>3
    <2>2. FirstId(p) <= FirstId(q)
      BY <2>1 DEF Oldest
    <2>3. Newest(q)' <=> \A s \in Filled' : FirstId(s)' <= FirstId(q)'
      BY DEF Newest
    <2>4. Newest(q) <=> \A s \in Filled : FirstId(s) <= FirstId(q)
      BY <2>1 DEF Newest
    <2> HIDE DEF FirstId
    <2> QED BY <1>3, <1>4, <2>2, <2>3, <2>4
  <1>8. \A q : Newest(q)' => q \in Filled'
    BY DEF Newest
  <1> HIDE DEF FirstId, Past
  <1> QED BY <1>3, <1>4, <1>6, <1>7, <1>8

LEMMA PurgeChain ==
    ASSUME TypeOK, ChainInv, NEW p, Oldest(p), log' = [log EXCEPT ![p] = <<>>]
    PROVE  ChainInv'
  <1>1. /\ Filled' = Filled \ {p}
        /\ \A q \in Filled' : /\ log'[q] = log[q] /\ FirstId(q)' = FirstId(q) /\ Past(q)' = Past(q)
                              /\ Past(p) <= FirstId(q) /\ (Newest(q)' <=> Newest(q))
    BY PurgePages
  <1>2. \A q \in Filled' : q \in Filled
    BY <1>1
  <1>3. ASSUME NEW q \in Filled', NEW i \in 1 .. Len(log'[q]) PROVE log'[q][i].rec_id = FirstId(q)' + i - 1
    <2>1. log[q][i].rec_id = FirstId(q) + i - 1
      BY <1>1, <1>2, <1>3 DEF ChainInv
    <2> QED BY <1>1, <2>1
  <1>4. ASSUME NEW q \in Filled', NEW s \in Filled' PROVE q = s \/ Past(q)' <= FirstId(s)' \/ Past(s)' <= FirstId(q)'
    <2>1. q = s \/ Past(q) <= FirstId(s) \/ Past(s) <= FirstId(q)
      BY <1>2 DEF ChainInv
    <2> QED BY <1>1, <2>1
  <1>5. p \in Filled /\ FirstId(p) \in Nat /\ Past(p) \in Nat /\ FirstId(p) < Past(p)
    BY RingTypes DEF Oldest
  <1>6. \A q \in Filled : FirstId(q) \in Nat /\ Past(q) \in Nat /\ FirstId(q) < Past(q) /\ FirstId(p) <= FirstId(q)
    BY RingTypes DEF Oldest
  <1>7. ASSUME NEW q \in Filled', ~Newest(q)' PROVE NextPage(q) \in Filled' /\ FirstId(NextPage(q))' = Past(q)'
    <2>1. q \in Filled /\ ~Newest(q)
      BY <1>1, <1>2, <1>7
    <2>2. NextPage(q) \in Filled /\ FirstId(NextPage(q)) = Past(q)
      BY <2>1 DEF ChainInv
    <2>3. Past(p) <= FirstId(q)
      BY <1>1
    <2>4. NextPage(q) # p
      <3> HIDE DEF FirstId
      <3> QED BY <1>5, <1>6, <2>1, <2>2, <2>3
    <2> QED BY <1>1, <2>2, <2>4
  <1>8. ASSUME NEW q \in Filled' PROVE Oldest(q)' \/ \E s \in Filled' : q = NextPage(s) /\ FirstId(q)' = Past(s)'
    <2>1. CASE Oldest(q)
      <3>1. p = q
        BY <2>1, OneOldest
      <3> QED BY <1>1, <3>1
    <2>2. CASE ~Oldest(q)
      <3>1. PICK s \in Filled : q = NextPage(s) /\ FirstId(q) = Past(s)
        BY <1>2, <2>2 DEF ChainInv
      <3>2. CASE s # p
        <4>1. s \in Filled'
          BY <1>1, <3>2
        <4> QED BY <1>1, <3>1, <4>1
      <3>3. CASE s = p
        <4>1. \A t \in Filled' : FirstId(q)' <= FirstId(t)'
          <5> HIDE DEF FirstId
          <5> QED BY <1>1, <3>1, <3>3
        <4> QED BY <4>1 DEF Oldest
      <3> QED BY <3>2, <3>3
    <2> QED BY <2>1, <2>2
  <1>9. ASSUME NEW q \in Filled', ~Newest(q)' PROVE Len(log'[q]) >= PageCap
    BY <1>1, <1>2, <1>9 DEF ChainInv
  <1> QED BY <1>3, <1>4, <1>7, <1>8, <1>9 DEF ChainInv

LEMMA PurgePlaced ==
    ASSUME TypeOK, ChainInv, NEW p, Oldest(p), log' = [log EXCEPT ![p] = <<>>]
    PROVE  Placed' \in SUBSET Placed /\ \A x \in Placed \ Placed', y \in Placed' : x[2].rec_id < y[2].rec_id
  <1>1. /\ Filled' = Filled \ {p}
        /\ \A q \in Filled' : log'[q] = log[q] /\ Past(p) <= FirstId(q)
    BY PurgePages
  <1>2. \A x : x \in Placed' <=> \E q \in Page, i \in Nat : i \in 1 .. Len(log'[q]) /\ x = <<[page |-> q, offset |-> i - 1], log'[q][i]>>
    <2>1. Placed' = PlacedOf(log')
      BY DEF Placed
    <2> QED BY ONLY <2>1, PlacedIn
  <1>3. \A x : x \in Placed <=> \E q \in Page, i \in Nat : i \in 1 .. Len(log[q]) /\ x = <<[page |-> q, offset |-> i - 1], log[q][i]>>
    BY PlacedIn DEF Placed
  <1>4. ASSUME NEW x \in Placed' PROVE x \in Placed /\ Past(p) <= x[2].rec_id
    <2>1. PICK q \in Page, i \in Nat : i \in 1 .. Len(log'[q]) /\ x = <<[page |-> q, offset |-> i - 1], log'[q][i]>>
      BY <1>2
    <2>2. q \in Filled'
      BY <2>1 DEF Filled
    <2>3. i \in 1 .. Len(log[q]) /\ x = <<[page |-> q, offset |-> i - 1], log[q][i]>> /\ q \in Filled
      BY <1>1, <2>1, <2>2
    <2>4. FirstId(q) <= log[q][i].rec_id /\ log[q][i].rec_id \in Nat /\ FirstId(q) \in Nat
      BY <2>3, IdOfPlace, RingTypes
    <2>5. Past(p) \in Nat /\ Past(p) <= FirstId(q)
      BY <1>1, <2>2, RingTypes DEF Oldest
    <2> HIDE DEF FirstId
    <2>6. Past(p) <= x[2].rec_id
      BY <2>3, <2>4, <2>5
    <2> QED BY <1>3, <2>1, <2>3, <2>6
  <1>5. ASSUME NEW x \in Placed \ Placed' PROVE x[2].rec_id < Past(p) /\ x[2].rec_id \in Nat
    <2>1. PICK q \in Page, i \in Nat : i \in 1 .. Len(log[q]) /\ x = <<[page |-> q, offset |-> i - 1], log[q][i]>>
      BY <1>3
    <2>2. q \in Filled
      BY <2>1 DEF Filled
    <2>3. q = p
      <3> SUFFICES ASSUME q # p PROVE FALSE
        OBVIOUS
      <3>1. log'[q] = log[q]
        BY <1>1, <2>2
      <3> QED BY <1>2, <2>1, <3>1
    <2> QED BY <2>1, <2>2, <2>3, IdOfPlace
  <1>6. Past(p) \in Nat
    BY RingTypes DEF Oldest
  <1>7. ASSUME NEW x \in Placed \ Placed', NEW y \in Placed' PROVE x[2].rec_id < y[2].rec_id
    <2>1. x[2].rec_id < Past(p) /\ x[2].rec_id \in Nat /\ Past(p) <= y[2].rec_id
      BY <1>4, <1>5
    <2>2. y[2].rec_id \in Nat
      BY <1>4, PlacedInPlace, PlacedTypes
    <2> QED BY <1>6, <2>1, <2>2
  <1> QED BY <1>4, <1>7

-----------------------------------------------------------------------------
(* A call.                                                                 *)

LEMMA PromisedIdle ==
    /\ (\A w \in Writers : pc[w] # "update") => Promised = ctx
    /\ (\A w \in Writers : pc'[w] # "update") => Promised' = ctx'
  BY DEF Promised

LEMMA PromisedLanded ==
    ASSUME Serial, NEW w \in Writers
    PROVE  /\ pc[w] = "update" => Promised = Counted(UpdateState(ctx, [page |-> job[w].page, offset |-> job[w].size], Landed(w)))
           /\ pc'[w] = "update" => Promised' = Counted(UpdateState(ctx', [page |-> job'[w].page, offset |-> job'[w].size], Landed(w)'))
  <1>1. \A v \in Writers : v = w
    BY DEF Serial
  <1>2. (CHOOSE x \in {w} : TRUE) = w
    OBVIOUS
  <1>3. pc[w] = "update" => {v \in Writers : pc[v] = "update"} = {w}
    BY <1>1
  <1>4. pc'[w] = "update" => {v \in Writers : pc'[v] = "update"} = {w}
    BY <1>1
  <1> QED BY <1>2, <1>3, <1>4 DEF Promised, Counted

LEMMA PromisedType == ASSUME TypeOK, Serial PROVE Promised \in Context
  <1>1. CASE \A w \in Writers : pc[w] # "update"
    BY <1>1, PromisedIdle DEF TypeOK
  <1>2. CASE \E w \in Writers : pc[w] = "update"
    <2>1. PICK w \in Writers : pc[w] = "update"
      BY <1>2
    <2>2. Landed(w) \in Record /\ ctx \in Context /\ [page |-> job[w].page, offset |-> job[w].size] \in Pos
      BY LandedType DEF TypeOK, Job, Pos
    <2>3. UpdateState(ctx, [page |-> job[w].page, offset |-> job[w].size], Landed(w)) \in Context
      BY <2>2, UpdateStateType
    <2> QED BY <2>1, <2>3, PromisedLanded, CountedType
  <1> QED BY <1>1, <1>2

\* Only the id, the state and the session of a context follow the records.
LEMMA FollowsSame ==
    ASSUME NEW G, NEW n, NEW c, NEW d, c.msg_id = d.msg_id, c.open = d.open, c.active = d.active, Follows(G, c, n)
    PROVE  Follows(G, d, n)
  BY DEF Follows

LEMMA UpToSame ==
    ASSUME NEW c, log' = log, UpTo(c), Promised'.msg_id = c.msg_id, Promised'.open = c.open, Promised'.active = c.active
    PROVE  UpTo(Promised)'
  <1>1. Follows(Placed', Promised', Promised'.msg_id)
    <2>1. Follows(Placed, c, Promised'.msg_id)
      BY DEF UpTo
    <2>2. Placed' = Placed
      BY LogStays
    <2> QED BY <2>1, <2>2, FollowsSame
  <1>2. \A p \in Page : Newest(p)' => Past(p)' = Promised'.msg_id
    BY LogStays
  <1> QED BY <1>1, <1>2 DEF UpTo

\* A step of a call that leaves the records and the context alone.
LEMMA CallStays ==
    ASSUME log' = log, ctx' = ctx, files' \subseteq files \cup {ctx.msg_page},
           \A w \in Writers : pc[w] # "update" /\ pc'[w] # "update",
           UpTo(Promised), AtPage, files \subseteq Filled \cup {ctx.msg_page}
    PROVE  UpTo(Promised)' /\ AtPage' /\ files' \subseteq Filled' \cup {ctx'.msg_page}
  <1>1. Promised = ctx /\ Promised' = ctx'
    BY PromisedIdle
  <1>2. UpTo(Promised)'
    BY <1>1, UpToSame
  <1>3. Filled' = Filled /\ \A p \in Page : Newest(p)' <=> Newest(p)
    BY LogStays
  <1>4. Newest(ctx.msg_page)' <=> Newest(ctx'.msg_page)
    BY LogStays
  <1>5. AtPage'
    BY <1>3, LogStays DEF AtPage
  <1> QED BY <1>2, <1>3, <1>5

\* A step of a call, by what it leaves to show.
LEMMA CallServes ==
    ASSUME mode' = "ready", ChainInv', Alternates(Placed)', UpTo(Promised)', AtPage', CallInv',
           files' \subseteq Filled' \cup {ctx'.msg_page}, intact' => WholeInv'
    PROVE  RingBody'
  BY DEF RingBody, ServeInv, ReplayInv, SavedInv, FailedInv

\* The state of a call: it runs alone once the charger has booted.
LEMMA Calling ==
    ASSUME IdInv, RingBody, Serial, NEW w \in Writers, pc[w] # "idle"
    PROVE  /\ mode = "ready" /\ \A v \in Writers : v = w
           /\ ChainInv /\ Alternates(Placed) /\ UpTo(Promised) /\ AtPage /\ CallInv
           /\ files \subseteq Filled \cup {ctx.msg_page} /\ (intact => WholeInv)
  <1>1. mode = "ready"
    BY DEF IdInv, JobInv
  <1>2. \A v \in Writers : v = w
    BY DEF Serial
  <1> QED BY <1>1, <1>2 DEF RingBody, ServeInv

LEMMA RingAddEvent ==
    ASSUME TypeOK, IdInv, RingBody, Serial, NEW w \in Writers, NEW kind, AddEvent(w, kind), intact' => intact
    PROVE  RingBody'
  <1>1. /\ mode = "ready" /\ mode' = "ready" /\ log' = log /\ ctx' = ctx /\ files' = files
        /\ pc[w] = "idle" /\ pc' = [pc EXCEPT ![w] = "open"]
        /\ job' = [job EXCEPT ![w] = [NoJob EXCEPT !.kind = kind, !.time = now]]
    BY DEF AddEvent, Goto, Serving
  <1>2. \A v \in Writers : v = w
    BY DEF Serial
  <1>3. pc'[w] = "open" /\ job'[w].try = 1
    BY <1>1 DEF TypeOK, NoJob
  <1>4. UpTo(Promised) /\ AtPage /\ files \subseteq Filled \cup {ctx.msg_page} /\ (intact => WholeInv) /\ ChainInv /\ Alternates(Placed)
    BY <1>1 DEF RingBody, ServeInv
  <1>5. UpTo(Promised)' /\ AtPage' /\ files' \subseteq Filled' \cup {ctx'.msg_page}
    BY <1>1, <1>2, <1>3, <1>4, CallStays
  <1>6. ChainInv' /\ Alternates(Placed)'
    BY <1>1, <1>4, LogStays
  <1>7. CallInv'
    BY <1>2, <1>3 DEF CallInv
  <1>8. ASSUME intact' PROVE WholeInv'
    <2>1. ~TwoTry(w) /\ ~TwoTry(w)'
      BY <1>1, <1>3 DEF TwoTry
    <2>2. Filled' = Filled /\ (Newest(ctx.msg_page)' <=> Newest(ctx.msg_page))
      BY <1>1, LogStays DEF Newest, FirstId
    <2>3. ~(ctx.msg_page \in Filled /\ ~Newest(ctx.msg_page)) /\ files \subseteq Filled
      BY <1>1, <1>2, <1>4, <1>8, <2>1 DEF WholeInv
    <2> QED BY <1>1, <1>2, <2>1, <2>2, <2>3 DEF WholeInv
  <1> QED BY <1>1, <1>5, <1>6, <1>7, <1>8, CallServes

\* A call that ends with an error, the records being what they were.
LEMMA RingReturn ==
    ASSUME TypeOK, IdInv, RingBody, Serial, NEW w \in Writers, pc[w] \in {"open", "write", "purge"},
           Return(w), log' = log, ctx' = ctx, mode' = mode, files' \subseteq files \cup {ctx.msg_page},
           intact' => intact /\ ~TwoTry(w) /\ files' \subseteq Filled
    PROVE  RingBody'
  <1>1. /\ mode = "ready" /\ \A v \in Writers : v = w
        /\ ChainInv /\ Alternates(Placed) /\ UpTo(Promised) /\ AtPage /\ CallInv
        /\ files \subseteq Filled \cup {ctx.msg_page} /\ (intact => WholeInv)
    BY Calling
  <1>2. pc'[w] = "idle"
    BY DEF Return, Goto, TypeOK
  <1>3. UpTo(Promised)' /\ AtPage' /\ files' \subseteq Filled' \cup {ctx'.msg_page}
    <2>1. \A v \in Writers : pc[v] # "update" /\ pc'[v] # "update"
      BY <1>1, <1>2
    <2> QED BY <1>1, <2>1, CallStays
  <1>4. ChainInv' /\ Alternates(Placed)'
    BY <1>1, LogStays
  <1>5. CallInv'
    BY <1>1, <1>2 DEF CallInv
  <1>6. ASSUME intact' PROVE WholeInv'
    <2>1. ~TwoTry(w)' /\ ~TwoTry(w)
      BY <1>2, <1>6 DEF TwoTry
    <2>2. Filled' = Filled /\ (Newest(ctx.msg_page)' <=> Newest(ctx.msg_page))
      BY LogStays DEF Newest, FirstId
    <2>3. ~(ctx.msg_page \in Filled /\ ~Newest(ctx.msg_page)) /\ files' \subseteq Filled
      BY <1>1, <1>6, <2>1 DEF WholeInv
    <2> QED BY <1>1, <2>1, <2>2, <2>3 DEF WholeInv
  <1> QED BY <1>1, <1>3, <1>4, <1>5, <1>6, CallServes

LEMMA RingOpenPage ==
    ASSUME TypeOK, IdInv, RingBody, Serial, NEW w \in Writers, OpenPage(w), intact' => intact
    PROVE  RingBody'
  <1>1. pc[w] = "open" /\ log' = log /\ ctx' = ctx /\ mode' = mode /\ files' = files \cup {ctx.msg_page} /\ Len(log[ctx.msg_page]) < PageCap
        /\ pc' = [pc EXCEPT ![w] = "write"]
        /\ job' = [job EXCEPT ![w].rec_id = ctx.msg_id, ![w].page = ctx.msg_page, ![w].size = Len(log[ctx.msg_page])]
    BY DEF OpenPage, Goto
  <1>2. /\ mode = "ready" /\ \A v \in Writers : v = w
        /\ ChainInv /\ Alternates(Placed) /\ UpTo(Promised) /\ AtPage /\ CallInv
        /\ files \subseteq Filled \cup {ctx.msg_page} /\ (intact => WholeInv)
    BY <1>1, Calling
  <1>3. pc'[w] = "write"
    BY <1>1 DEF TypeOK
  <1>4. job'[w].size = Len(log[ctx.msg_page])
    <2>1. job[w] \in Job /\ job \in [Writers -> Job]
      BY DEF TypeOK
    <2> QED BY <1>1, <2>1 DEF Job
  <1>5. UpTo(Promised)' /\ AtPage' /\ files' \subseteq Filled' \cup {ctx'.msg_page}
    <2>1. \A v \in Writers : pc[v] # "update" /\ pc'[v] # "update"
      BY <1>1, <1>2, <1>3
    <2> QED BY <1>1, <1>2, <2>1, CallStays
  <1>6. ChainInv' /\ Alternates(Placed)'
    BY <1>1, <1>2, LogStays
  <1>7. CallInv'
    BY <1>1, <1>2, <1>3, <1>4 DEF CallInv
  <1>8. ASSUME intact' PROVE WholeInv'
    <2>1. ~TwoTry(w)'
      BY <1>3 DEF TwoTry
    <2>2. Filled' = Filled /\ (Newest(ctx.msg_page)' <=> Newest(ctx.msg_page))
      BY <1>1, LogStays DEF Newest, FirstId
    <2>3. ctx.msg_page \in Filled => Newest(ctx.msg_page)
      <3>1. ctx.msg_page \in Page
        BY ContextTypes
      <3>2. ~(Len(log[ctx.msg_page]) >= PageCap)
        BY <1>1, <3>1, PageTypes, MidLtsAssumption
      <3> QED BY <1>2, <3>2 DEF ChainInv
    <2> QED BY <1>1, <1>2, <1>3, <2>1, <2>2, <2>3 DEF WholeInv
  <1> QED BY <1>1, <1>2, <1>5, <1>6, <1>7, <1>8, CallServes

LEMMA RingUpdate ==
    ASSUME TypeOK, IdInv, RingBody, Serial, NEW w \in Writers, UpdateContext(w), intact' => intact
    PROVE  RingBody'
  <1>1. pc[w] = "update" /\ log' = log /\ mode' = mode /\ files' = files /\ Return(w)
    BY DEF UpdateContext
  <1>2. /\ mode = "ready" /\ \A v \in Writers : v = w
        /\ ChainInv /\ Alternates(Placed) /\ UpTo(Promised) /\ AtPage /\ CallInv
        /\ files \subseteq Filled \cup {ctx.msg_page} /\ (intact => WholeInv)
    BY <1>1, Calling
  <1>3. pc'[w] = "idle"
    BY <1>1 DEF Return, Goto, TypeOK
  <1>4. Refusal(ctx, Landed(w)) = "OK"
    <2>1. Refusal(ctx, job[w]) = "OK"
      BY <1>1 DEF IdInv, JobInv
    <2>2. Landed(w).kind = job[w].kind
      BY DEF Landed
    <2> QED BY <2>1, <2>2 DEF Refusal
  <1>5. ctx' = Promised
    BY <1>1, <1>4, PromisedLanded DEF UpdateContext
  <1>6. Promised' = Promised
    BY <1>2, <1>3, <1>5, PromisedIdle
  <1>7. ctx'.msg_page = ctx.msg_page
    <2>1. ctx \in Context
      BY DEF TypeOK
    <2> PICK u : u = UpdateState(ctx, [page |-> job[w].page, offset |-> job[w].size], Landed(w))
      OBVIOUS
    <2>2. u \in Context /\ u.msg_page = ctx.msg_page
      <3>1. Landed(w) \in Record /\ [page |-> job[w].page, offset |-> job[w].size] \in Pos
        BY LandedType DEF TypeOK, Job, Pos
      <3> QED BY <2>1, <3>1, UpdateStateType, UpdateIds
    <2>3. Promised = Counted(u)
      BY <1>1, PromisedLanded
    <2> QED BY <1>5, <2>2, <2>3, CountedIds
  <1>8. UpTo(Promised)'
    BY <1>1, <1>2, <1>6, UpToSame
  <1>9. Filled' = Filled /\ (\A p \in Page : Newest(p)' <=> Newest(p)) /\ (Newest(ctx.msg_page)' <=> Newest(ctx'.msg_page)) /\ (Newest(ctx.msg_page)' <=> Newest(ctx.msg_page))
    BY <1>1, <1>7, LogStays DEF Newest, FirstId
  <1>10. AtPage' /\ files' \subseteq Filled' \cup {ctx'.msg_page}
    BY <1>1, <1>2, <1>7, <1>9 DEF AtPage
  <1>11. ChainInv' /\ Alternates(Placed)'
    BY <1>1, <1>2, LogStays
  <1>12. CallInv'
    BY <1>2, <1>3 DEF CallInv
  <1>13. ASSUME intact' PROVE WholeInv'
    <2>1. ~TwoTry(w)' /\ ~TwoTry(w)
      BY <1>1, <1>3 DEF TwoTry
    <2>2. (ctx.msg_page \in Filled => Newest(ctx.msg_page)) /\ files \subseteq Filled
      BY <1>1, <1>2, <1>13, <2>1 DEF WholeInv
    <2> QED BY <1>1, <1>2, <1>7, <1>9, <2>1, <2>2 DEF WholeInv
  <1> QED BY <1>1, <1>2, <1>8, <1>10, <1>11, <1>12, <1>13, CallServes

\* The append moves on to the next page, or to the purge of the page it has moved to.
LEMMA RingPageFull ==
    ASSUME TypeOK, IdInv, RingBody, Serial, NEW w \in Writers, PageFull(w), intact' => intact
    PROVE  RingBody'
  <1>1. pc[w] = "open" /\ log' = log /\ mode' = mode /\ files' = files /\ Len(log[ctx.msg_page]) >= PageCap
    BY DEF PageFull
  <1>2. /\ mode = "ready" /\ \A v \in Writers : v = w
        /\ ChainInv /\ Alternates(Placed) /\ UpTo(Promised) /\ AtPage /\ CallInv
        /\ files \subseteq Filled \cup {ctx.msg_page} /\ (intact => WholeInv)
    BY <1>1, Calling
  <1>3. ctx.msg_page \in Filled /\ ctx.msg_page \in Page
    <2>1. ctx.msg_page \in Page
      BY ContextTypes
    <2>2. log[ctx.msg_page] # <<>>
      BY <1>1, <2>1, PageTypes, MidLtsAssumption
    <2> QED BY <2>1, <2>2 DEF Filled
  <1>4. files \subseteq Filled
    BY <1>2, <1>3
  <1>5. Filled' = Filled /\ (\A p : Newest(p)' <=> Newest(p)) /\ ChainInv' /\ Alternates(Placed)'
    BY <1>1, <1>2, LogStays
  <1>6. CASE job[w].try = 1
    <2>1. ctx' = [ctx EXCEPT !.msg_page = NextPage(@)] /\ job' = [job EXCEPT ![w].try = 2] /\ pc' = pc
      BY <1>6 DEF PageFull
    <2>2. ctx'.msg_page = NextPage(ctx.msg_page) /\ ctx'.msg_id = ctx.msg_id /\ ctx'.open = ctx.open /\ ctx'.active = ctx.active
      <3>1. ctx \in Context
        BY DEF TypeOK
      <3> QED BY <2>1, <3>1 DEF Context
    <2>3. pc'[w] = "open" /\ job'[w].try = 2
      <3>1. job[w] \in Job /\ job \in [Writers -> Job]
        BY DEF TypeOK
      <3> QED BY <1>1, <2>1, <3>1 DEF Job
    <2>4. Promised = ctx /\ Promised' = ctx'
      BY <1>1, <1>2, <2>1, PromisedIdle
    <2>5. UpTo(Promised)'
      BY <1>1, <1>2, <2>2, <2>4, UpToSame
    <2>6. \A p : Newest(p) => p \in Page /\ p \in Filled
      BY DEF Newest, Filled
    <2>7. AtPage'
      <3> PICK m : m = ctx'.msg_page
        OBVIOUS
      <3>1. Newest(ctx.msg_page)' <=> Newest(m)'
        BY <1>1, <2>2, LogStays
      <3>2. m = NextPage(ctx.msg_page) /\ m \in Page
        BY <1>3, <2>2, NextPageType
      <3>3. m \in Filled /\ ~Newest(m) => Len(log[m]) >= PageCap
        BY <1>2 DEF ChainInv
      <3>4. Newest(ctx.msg_page) => \A p \in Page : Newest(p) => p = ctx.msg_page
        BY <1>2, OneNewest
      <3>5. ~Newest(ctx.msg_page) => m \in Filled /\ \A p \in Page : Newest(p) => NextPage(p) \in Filled
        <4>1. ~Newest(ctx.msg_page) => m \in Filled
          BY <1>2, <1>3, <3>2 DEF ChainInv
        <4> QED BY <1>2, <1>3, <4>1 DEF AtPage
      <3>6. Newest(m)' <=> Newest(m)
        BY <1>5
      <3>7. CASE Newest(m)
        <4>1. Newest(ctx.msg_page)'
          BY <3>6, <3>7
        <4> QED BY <4>1 DEF AtPage
      <3>8. CASE m \notin Filled
        <4>1. \A p \in Page : Newest(p)' => ctx'.msg_page = NextPage(p)
          BY <1>5, <2>2, <3>4, <3>5, <3>8
        <4> QED BY <1>5, <3>8, <4>1 DEF AtPage
      <3>9. CASE m \in Filled /\ ~Newest(m)
        <4>1. \A p \in Page : Newest(p)' => NextPage(p) \in Filled'
          BY <1>5, <3>2, <3>4, <3>5, <3>9
        <4> QED BY <1>1, <1>5, <3>3, <3>9, <4>1 DEF AtPage
      <3> QED BY <3>7, <3>8, <3>9
    <2>8. CallInv'
      BY <1>1, <1>2, <2>1 DEF CallInv
    <2>9. ASSUME intact' PROVE WholeInv'
      <3>1. TwoTry(w)' /\ ~TwoTry(w)
        BY <1>6, <2>3 DEF TwoTry
      <3>2. Newest(ctx.msg_page)
        BY <1>2, <1>3, <2>9, <3>1 DEF WholeInv
      <3>3. \E p \in Page : Newest(p)' /\ ctx'.msg_page = NextPage(p)
        BY <1>3, <1>5, <2>2, <3>2
      <3> QED BY <1>1, <1>4, <1>5, <3>1, <3>3 DEF WholeInv
    <2>10. files' \subseteq Filled' \cup {ctx'.msg_page}
      BY <1>1, <1>4, <1>5
    <2> QED BY <1>1, <1>2, <1>5, <2>5, <2>7, <2>8, <2>9, <2>10, CallServes
  <1>7. CASE job[w].try = 2
    <2>1. ctx' = ctx /\ job' = job /\ pc' = [pc EXCEPT ![w] = "purge"]
      BY <1>7 DEF PageFull, Goto
    <2>2. pc'[w] = "purge"
      BY <2>1 DEF TypeOK
    <2>3. UpTo(Promised)' /\ AtPage' /\ files' \subseteq Filled' \cup {ctx'.msg_page}
      <3>1. \A v \in Writers : pc[v] # "update" /\ pc'[v] # "update"
        BY <1>1, <1>2, <2>2
      <3> QED BY <1>1, <1>2, <2>1, <3>1, CallStays
    <2>4. CallInv'
      BY <1>2, <1>3, <1>5, <1>7, <2>1, <2>2 DEF CallInv
    <2>5. ASSUME intact' PROVE WholeInv'
      <3>1. TwoTry(w)' /\ TwoTry(w)
        BY <1>1, <1>7, <2>1, <2>2 DEF TwoTry
      <3>2. \E p \in Page : Newest(p) /\ ctx.msg_page = NextPage(p)
        BY <1>2, <1>3, <2>5, <3>1 DEF WholeInv
      <3>3. \E p \in Page : Newest(p)' /\ ctx'.msg_page = NextPage(p)
        BY <1>5, <2>1, <3>2
      <3> QED BY <1>1, <1>4, <1>5, <3>1, <3>3 DEF WholeInv
    <2> QED BY <1>1, <1>2, <1>5, <2>3, <2>4, <2>5, CallServes
  <1>8. CASE job[w].try \notin {1, 2}
    <2>1. Return(w) /\ ctx' = ctx
      BY <1>8 DEF PageFull
    <2>2. ~TwoTry(w)
      BY <1>8 DEF TwoTry
    <2> QED BY <1>1, <1>4, <2>1, <2>2, RingReturn
  <1> QED BY <1>6, <1>7, <1>8

LEMMA InPlaceGrown ==
    ASSUME NEW G, InPlace(G), NEW n \in Nat, \A y \in G : y[2].rec_id < n,
           NEW pos \in Pos, NEW r \in Record, r.rec_id = n
    PROVE  InPlace(G \cup {<<pos, r>>})
  <1>1. PICK x : x = <<pos, r>>
    OBVIOUS
  <1>2. x \in Pos \X Record /\ x[2].rec_id = n
    BY <1>1
  <1>3. \A y \in G : y[2].rec_id \in Nat /\ y[2].rec_id < n
    BY PlacedTypes
  <1>4. ASSUME NEW y \in G \cup {x}, NEW z \in G \cup {x}, y[2].rec_id = z[2].rec_id PROVE y = z
    <2>1. CASE y \in G /\ z \in G
      BY <1>4, <2>1, OneOfId
    <2>2. CASE y = x \/ z = x
      BY <1>2, <1>3, <1>4, <2>2
    <2> QED BY <2>1, <2>2
  <1>5. G \cup {x} \subseteq Pos \X Record
    BY <1>2 DEF InPlace
  <1> QED BY <1>1, <1>4, <1>5 DEF InPlace, Unique

\* The record lands: the context that is promised takes it in.
LEMMA RingWrite ==
    ASSUME TypeOK, IdInv, RingBody, Serial, NEW w \in Writers, WriteRecord(w), intact' => intact
    PROVE  RingBody'
  <1>1. /\ pc[w] = "write" /\ ctx' = ctx /\ mode' = mode /\ files' = files /\ job' = job
        /\ log' = [log EXCEPT ![job[w].page] = Append(@, Landed(w))]
        /\ pc' = [pc EXCEPT ![w] = "update"]
    BY DEF WriteRecord, Goto
  <1>2. /\ mode = "ready" /\ \A v \in Writers : v = w
        /\ ChainInv /\ Alternates(Placed) /\ UpTo(Promised) /\ AtPage /\ CallInv
        /\ files \subseteq Filled \cup {ctx.msg_page} /\ (intact => WholeInv)
    BY <1>1, Calling
  <1>3. pc'[w] = "update"
    BY <1>1 DEF TypeOK
  <1>4. PICK p \in Page : p = ctx.msg_page
    BY ContextTypes
  <1>5. PICK n \in Nat : n = ctx.msg_id
    BY ContextTypes
  <1>6. PICK r \in Record : r = Landed(w)
    BY LandedType
  <1>7. job[w].page = p /\ r.rec_id = n /\ r.kind = job[w].kind /\ Len(log[p]) < PageCap /\ Refusal(ctx, r) = "OK"
    <2>1. /\ job[w].rec_id = ctx.msg_id /\ job[w].page = ctx.msg_page /\ Len(log[ctx.msg_page]) < PageCap
          /\ Refusal(ctx, job[w]) = "OK"
      BY <1>1 DEF IdInv, JobInv
    <2>2. r.kind = job[w].kind /\ r.rec_id = job[w].rec_id
      BY <1>6 DEF Landed
    <2>3. Refusal(ctx, r) = Refusal(ctx, job[w])
      BY <2>2 DEF Refusal
    <2> QED BY <1>4, <1>5, <2>1, <2>2, <2>3
  <1>8. PICK size \in Nat : size = Len(log[p]) /\ job[w].size = size
    <2>1. Len(log[p]) \in Nat
      BY PageTypes
    <2> QED BY <1>1, <1>2, <1>4, <2>1 DEF CallInv
  <1>9. Promised = ctx
    BY <1>1, <1>2, PromisedIdle
  <1>10. Appends(p, r)
    <2>1. \A q \in Page : Newest(q) => Past(q) = r.rec_id
      BY <1>2, <1>5, <1>7, <1>9 DEF UpTo
    <2>2. \A q \in Filled : q = p \/ Len(log[q]) >= PageCap
      <3> SUFFICES ASSUME NEW q \in Filled, q # p PROVE Len(log[q]) >= PageCap
        OBVIOUS
      <3>1. q \notin Growing
        BY <1>2, <1>4 DEF IdInv, ReadyInv
      <3>2. Len(log[q]) \in Nat
        BY RingTypes
      <3> QED BY <3>1, <3>2, MidLtsAssumption DEF Growing
    <2>3. Newest(p) \/ (p \notin Filled /\ \A q \in Page : Newest(q) => p = NextPage(q))
      <3>1. ~(Len(log[p]) >= PageCap)
        BY <1>7, PageTypes, MidLtsAssumption
      <3> QED BY <1>2, <1>4, <3>1 DEF AtPage
    <2> QED BY <1>1, <1>6, <1>7, <2>1, <2>2, <2>3 DEF Appends
  <1>11. ChainInv' /\ Newest(p)'
    BY <1>2, <1>10, AppendChain
  <1> DEFINE pos == [page |-> p, offset |-> size]
             x == <<pos, r>>
  <1>12. Placed' = Placed \cup {x}
    BY <1>2, <1>8, <1>10, AppendPlaced
  <1>13. InPlace(Placed) /\ \A y \in Placed : y[2].rec_id \in Nat /\ y[2].rec_id < n
    <2>1. \A q \in Page : Newest(q) => Past(q) = n
      BY <1>2, <1>5, <1>9 DEF UpTo
    <2> QED BY <1>2, <2>1, PlacedInPlace, PlacedBelow
  <1>14. pos \in Pos
    BY DEF Pos
  <1>15. InPlace(Placed') /\ x \in Placed'
    BY <1>7, <1>12, <1>13, <1>14, InPlaceGrown
  <1>16. x[1] = pos /\ x[2] = r /\ x[2].rec_id = ctx.msg_id
    BY <1>5, <1>7
  <1>17. ctx \in Context
    BY DEF TypeOK
  <1> HIDE DEF x
  <1>18. Follows(Placed, ctx, ctx.msg_id)
    BY <1>2, <1>9 DEF UpTo
  <1>19. Follows(Placed', ctx, ctx.msg_id)
    BY <1>5, <1>12, <1>13, <1>16, <1>17, <1>18, FollowsGrown
  <1>20. Alternates(Placed')
    BY <1>2, <1>5, <1>7, <1>12, <1>13, <1>16, <1>17, <1>18, AlternatesGrown
  <1>21. Promised' = Counted(UpdateState(ctx, pos, r))
    <2>1. Landed(w)' = r
      BY <1>1, <1>6 DEF Landed
    <2>2. [page |-> job'[w].page, offset |-> job'[w].size] = pos
      BY <1>1, <1>7, <1>8
    <2>3. Promised' = Counted(UpdateState(ctx', [page |-> job'[w].page, offset |-> job'[w].size], Landed(w)'))
      BY <1>3, PromisedLanded
    <2> HIDE DEF pos
    <2> QED BY <1>1, <2>1, <2>2, <2>3
  <1>22. Follows(Placed', Promised', n + 1)
    <2> HIDE DEF pos
    <2>1. Follows(Placed', Counted(UpdateState(ctx, x[1], x[2])), ctx.msg_id + 1)
      BY <1>7, <1>15, <1>16, <1>17, <1>19, FollowsOn
    <2> QED BY <1>5, <1>16, <1>21, <2>1
  <1>23. Promised'.msg_id = n + 1
    BY <1>22 DEF Follows
  <1>24. /\ Filled' = Filled \cup {p} /\ Past(p)' = n + 1
         /\ \A q \in Filled' : q # p => ~Newest(q)'
    <2>1. /\ Filled' = Filled \cup {p} /\ Past(p)' = r.rec_id + 1
          /\ FirstId(p)' \in Nat
          /\ \A q \in Filled \ {p} : FirstId(q)' = FirstId(q) /\ Past(q) <= FirstId(p)'
      BY <1>2, <1>10, AppendPages
    <2>2. \A q \in Filled : FirstId(q) \in Nat /\ Past(q) \in Nat /\ FirstId(q) < Past(q)
      BY RingTypes
    <2>3. ASSUME NEW q \in Filled', q # p PROVE ~Newest(q)'
      <3>1. q \in Filled \ {p} /\ p \in Filled'
        BY <2>1, <2>3
      <3>2. Newest(q)' => FirstId(p)' <= FirstId(q)'
        BY <3>1 DEF Newest
      <3> HIDE DEF FirstId
      <3> QED BY <2>1, <2>2, <3>1, <3>2
    <2> QED BY <1>7, <2>1, <2>3
  <1>25. UpTo(Promised)'
    <2>1. \A q \in Page : Newest(q)' => Past(q)' = Promised'.msg_id
      <3>1. \A q \in Page : Newest(q)' => q \in Filled'
        BY DEF Newest
      <3> QED BY <1>23, <1>24, <3>1
    <2> QED BY <1>22, <1>23, <2>1 DEF UpTo
  <1>26. Newest(ctx.msg_page)'
    <2>1. Newest(ctx.msg_page)' <=> (ctx'.msg_page \in Filled' /\ \A q \in Filled' : FirstId(q)' <= FirstId(ctx.msg_page)')
      BY DEF Newest
    <2>2. Newest(p)' <=> (p \in Filled' /\ \A q \in Filled' : FirstId(q)' <= FirstId(p)')
      BY DEF Newest
    <2>3. FirstId(p)' = FirstId(ctx.msg_page)'
      BY <1>1, <1>4 DEF FirstId
    <2> QED BY <1>1, <1>4, <1>11, <2>1, <2>2, <2>3
  <1>27. AtPage'
    BY <1>26 DEF AtPage
  <1>28. CallInv'
    BY <1>2, <1>3 DEF CallInv
  <1>29. files' \subseteq Filled'
    BY <1>1, <1>2, <1>4, <1>24
  <1>30. WholeInv'
    <2>1. ~TwoTry(w)'
      BY <1>3 DEF TwoTry
    <2> QED BY <1>2, <1>26, <1>29, <2>1 DEF WholeInv
  <1> QED BY <1>1, <1>2, <1>11, <1>20, <1>25, <1>27, <1>28, <1>29, <1>30, CallServes

\* The page to purge is the oldest one: the writer has come to it from the newest, or
\* no purge has taken another.
LEMMA RingPurge ==
    ASSUME TypeOK, IdInv, RingBody, Serial, NEW w \in Writers, Purge(w), intact' => intact,
           intact \/ ~(\E q \in files \ files' : q # MinPage)
    PROVE  RingBody'
  <1>1. PICK p \in Page : p = ctx.msg_page
    BY ContextTypes
  <1>2. /\ pc[w] = "purge" /\ p \in files /\ files' = files \ {p} /\ log' = [log EXCEPT ![p] = <<>>]
        /\ ctx' = ctx /\ mode' = mode /\ pc' = [pc EXCEPT ![w] = "open"]
        /\ job' = [job EXCEPT ![w].try = 3]
    BY <1>1 DEF Purge, Goto
  <1>3. /\ mode = "ready" /\ \A v \in Writers : v = w
        /\ ChainInv /\ Alternates(Placed) /\ UpTo(Promised) /\ AtPage /\ CallInv
        /\ files \subseteq Filled \cup {ctx.msg_page} /\ (intact => WholeInv)
    BY <1>2, Calling
  <1>4. pc'[w] = "open" /\ job'[w].try = 3
    <2>1. job[w] \in Job /\ job \in [Writers -> Job]
      BY DEF TypeOK
    <2>2. job'[w].try = 3
      BY <1>2, <2>1 DEF Job
    <2> QED BY <1>2, <2>2 DEF TypeOK
  <1>5. p \in Filled /\ TwoTry(w) /\ files \subseteq Filled
    BY <1>1, <1>2, <1>3 DEF CallInv, TwoTry
  <1>6. Oldest(p)
    <2>1. CASE intact
      <3>1. PICK q \in Page : Newest(q) /\ p = NextPage(q)
        BY <1>1, <1>3, <1>5, <2>1 DEF WholeInv
      <3> QED BY <1>3, <1>5, <3>1, AfterNewest
    <2>2. CASE ~(\E q \in files \ files' : q # MinPage)
      <3>1. p = MinPage
        BY <1>2, <2>2
      <3>2. \A q \in files : log[q] # <<>>
        BY <1>5 DEF Filled
      <3>3. \E s \in files : \A q \in files : FirstId(s) < FirstId(q) \/ (FirstId(s) = FirstId(q) /\ s <= q)
        BY <1>2, <3>2, FirstPage
      <3>4. \A q \in files : FirstId(MinPage) < FirstId(q) \/ (FirstId(MinPage) = FirstId(q) /\ MinPage <= q)
        BY <3>3 DEF MinPage
      <3>5. Filled \subseteq files
        BY DEF IdInv, PagesInv
      <3>6. \A q \in Filled : FirstId(q) \in Nat
        BY RingTypes
      <3>7. \A q \in Filled : FirstId(p) <= FirstId(q)
        <4> HIDE DEF FirstId, MinPage
        <4> QED BY <1>5, <3>1, <3>4, <3>5, <3>6
      <3> QED BY <1>5, <3>7 DEF Oldest
    <2> QED BY <2>1, <2>2
  <1>7. /\ Filled' = Filled \ {p}
        /\ \A q \in Filled' : Past(q)' = Past(q)
        /\ \A q : Newest(q)' => Newest(q)
    BY <1>2, <1>3, <1>6, PurgePages
  <1>8. ChainInv'
    BY <1>2, <1>3, <1>6, PurgeChain
  <1>9. InPlace(Placed) /\ Placed' \in SUBSET Placed /\ \A x \in Placed \ Placed', y \in Placed' : x[2].rec_id < y[2].rec_id
    BY <1>2, <1>3, <1>6, PurgePlaced, PlacedInPlace
  <1>10. Alternates(Placed')
    BY <1>3, <1>9, AlternatesShrunk
  <1>11. Promised = ctx /\ Promised' = ctx
    BY <1>2, <1>3, <1>4, PromisedIdle
  <1>12. ctx \in Context
    BY DEF TypeOK
  <1>13. Follows(Placed', ctx, ctx.msg_id)
    <2>1. Follows(Placed, ctx, ctx.msg_id)
      BY <1>3, <1>11 DEF UpTo
    <2> QED BY <1>9, <1>12, <2>1, FollowsShrunk
  <1>14. \A q \in Page : Newest(q)' => q \in Filled' /\ Newest(q) /\ Past(q)' = ctx.msg_id
    <2>1. \A q \in Page : Newest(q) => Past(q) = ctx.msg_id
      BY <1>3, <1>11 DEF UpTo
    <2>2. \A q \in Page : Newest(q)' => q \in Filled'
      BY DEF Newest
    <2> QED BY <1>7, <2>1, <2>2
  <1>15. UpTo(Promised)'
    BY <1>11, <1>13, <1>14 DEF UpTo
  <1>16. AtPage'
    <2>1. ASSUME NEW q \in Page, Newest(q)' PROVE p = NextPage(q)
      <3>1. Newest(q) /\ q # p
        BY <1>7, <1>14, <2>1
      <3>2. ~Newest(p)
        BY <1>3, <3>1, OneNewest
      <3>3. NextPage(q) \in Filled
        BY <1>1, <1>3, <1>5, <3>1, <3>2 DEF AtPage
      <3> QED BY <1>3, <1>6, <3>1, <3>3, AfterNewest, OneOldest
    <2>2. ctx'.msg_page = p /\ p \notin Filled'
      BY <1>1, <1>2, <1>7
    <2> QED BY <2>1, <2>2 DEF AtPage
  <1>17. CallInv'
    BY <1>3, <1>4 DEF CallInv
  <1>18. files' \subseteq Filled'
    BY <1>2, <1>5, <1>7
  <1>19. WholeInv'
    <2>1. ctx'.msg_page = p /\ p \notin Filled'
      BY <1>1, <1>2, <1>7
    <2> QED BY <1>18, <2>1 DEF WholeInv
  <1> QED BY <1>2, <1>3, <1>8, <1>10, <1>15, <1>16, <1>17, <1>18, <1>19, CallServes

-----------------------------------------------------------------------------
(* Booting.                                                                *)

LEMMA BootKeeps ==
    ASSUME RingBody, mode # "ready", log' = log, files' = files, saved' = saved, intact' => intact
    PROVE  ChainInv' /\ Alternates(Placed)' /\ SavedInv'
  <1>1. ChainInv /\ Alternates(Placed) /\ UpTo(saved) /\ (intact => files \subseteq Filled)
    BY DEF RingBody, SavedInv
  <1>2. Filled' = Filled /\ Placed' = Placed /\ ChainInv'
    BY <1>1, LogStays
  <1>3. Follows(Placed', saved, saved.msg_id) /\ \A p \in Page : Newest(p)' => Past(p)' = saved.msg_id
    BY <1>1, LogStays
  <1>4. UpTo(saved)'
    BY <1>3 DEF UpTo
  <1> QED BY <1>1, <1>2, <1>4 DEF SavedInv

LEMMA RingScan ==
    ASSUME TypeOK, IdInv, RingBody, Scan, saved' = saved, intact' => intact
    PROVE  RingBody'
  <1>1. log' = log /\ files' = files /\ ctx' = ctx /\ pc' = pc /\ job' = job /\ mode = "scan" /\ ctx = ZeroCtx
    BY DEF Scan, IdInv
  <1>2. \A w \in Writers : pc[w] = "idle"
    BY <1>1, IdsIdle DEF IdInv
  <1>3. ChainInv /\ (intact => files \subseteq Filled)
    BY <1>1 DEF RingBody, SavedInv
  <1>4. ChainInv' /\ Alternates(Placed)' /\ SavedInv'
    BY <1>1, BootKeeps
  <1>5. Filled' = Filled /\ Placed' = Placed /\ \A p : FirstId(p)' = FirstId(p) /\ (Newest(p)' <=> Newest(p)) /\ (Oldest(p)' <=> Oldest(p))
    BY <1>1, LogStays
  <1>6. Filled \subseteq files /\ Filled \subseteq Page
    BY DEF IdInv, PagesInv, Filled
  <1>7. CASE \E p \in files : log[p] = <<>>
    <2>1. mode' = "failed"
      BY <1>7 DEF Scan, BootFails
    <2>2. ~intact'
      BY <1>3, <1>7 DEF Filled
    <2> QED BY <1>4, <2>1, <2>2 DEF RingBody, ServeInv, ReplayInv, FailedInv
  <1>8. CASE files = {}
    <2>1. mode' = "ready"
      BY <1>8 DEF Scan
    <2>2. Filled' = {} /\ files' = {}
      BY <1>1, <1>5, <1>6, <1>8
    <2>3. Placed' = {}
      <3>1. Filled = {}
        BY <1>6, <1>8
      <3> QED BY <1>5, <3>1, PlacedAt
    <2>4. Promised' = ZeroCtx
      BY <1>1, <1>2, PromisedIdle
    <2>5. \A p : ~Newest(p)'
      BY <2>2 DEF Newest
    <2>6. UpTo(Promised)'
      <3>1. ZeroCtx.open = FALSE
        BY DEF ZeroCtx
      <3>2. Follows(Placed', Promised', Promised'.msg_id)
        BY <2>3, <2>4, <3>1 DEF Follows
      <3> QED BY <2>5, <3>2 DEF UpTo
    <2>7. AtPage'
      BY <2>2, <2>5 DEF AtPage
    <2>8. CallInv'
      BY <1>1, <1>2 DEF CallInv
    <2>9. WholeInv'
      <3>1. \A w \in Writers : ~TwoTry(w)'
        BY <1>1, <1>2 DEF TwoTry
      <3> QED BY <2>2, <3>1 DEF WholeInv
    <2> QED BY <1>4, <2>1, <2>2, <2>6, <2>7, <2>8, <2>9, CallServes
  <1>9. CASE files # {} /\ \A p \in files : log[p] # <<>>
    <2>1. mode' = "replay" /\ walk' = [ZeroWalk EXCEPT !.page = MinPage, !.min = MinPage, !.max = MaxPage]
      BY <1>9 DEF Scan
    <2>2. walk'.page = MinPage /\ walk'.min = MinPage /\ walk'.max = MaxPage /\ walk'.i = 1 /\ walk'.ret = "OK"
      BY <2>1 DEF ZeroWalk
    <2>3. MinPage \in Filled /\ MaxPage \in Filled
      <3>1. MinPage \in files /\ MaxPage \in files
        BY <1>9, ScanPages
      <3> QED BY <1>9, <3>1 DEF TypeOK, Filled
    <2>4. \A q \in Filled : FirstId(q) \in Nat
      BY RingTypes
    <2>5. Oldest(MinPage)
      <3>1. \E s \in files : \A q \in files : FirstId(s) < FirstId(q) \/ (FirstId(s) = FirstId(q) /\ s <= q)
        BY <1>9, FirstPage
      <3>2. \A q \in files : FirstId(MinPage) < FirstId(q) \/ (FirstId(MinPage) = FirstId(q) /\ MinPage <= q)
        BY <3>1 DEF MinPage
      <3>3. \A q \in Filled : FirstId(MinPage) <= FirstId(q)
        <4> HIDE DEF FirstId, MinPage
        <4> QED BY <1>6, <2>3, <2>4, <3>2
      <3> QED BY <2>3, <3>3 DEF Oldest
    <2>6. Newest(MaxPage)
      <3>1. \A q \in Filled : FirstId(q) <= FirstId(MaxPage)
        BY <1>9, ScanLast DEF IdInv
      <3> QED BY <2>3, <3>1 DEF Newest
    <2>7. PICK n \in Nat : n = FirstId(MinPage)
      BY <2>3, <2>4
    <2>8. FirstId(walk.page)' + walk'.i - 1 = n
      <3>1. FirstId(walk.page)' = FirstId(MinPage)
        BY <1>1, <2>2 DEF FirstId
      <3> HIDE DEF FirstId, MinPage
      <3> QED BY <2>2, <2>7, <3>1
    <2>9. \A x \in Placed : ~(x[2].rec_id < n)
      <3> SUFFICES ASSUME NEW x \in Placed PROVE ~(x[2].rec_id < n)
        OBVIOUS
      <3>1. PICK p \in Filled, i \in Nat : i \in 1 .. Len(log[p]) /\ x = <<[page |-> p, offset |-> i - 1], log[p][i]>>
        BY PlacedAt
      <3>2. FirstId(p) <= log[p][i].rec_id /\ log[p][i].rec_id \in Nat /\ x[2] = log[p][i]
        BY <1>3, <3>1, IdOfPlace
      <3>3. FirstId(MinPage) <= FirstId(p)
        BY <2>5 DEF Oldest
      <3> HIDE DEF FirstId, MinPage
      <3> QED BY <2>4, <2>7, <3>1, <3>2, <3>3
    <2>10. ctx'.open = FALSE
      BY <1>1 DEF ZeroCtx
    <2>11. Follows(Placed', [ctx' EXCEPT !.msg_id = n], n)
      <3>1. [ctx' EXCEPT !.msg_id = n].msg_id = n /\ [ctx' EXCEPT !.msg_id = n].open = FALSE
        BY <1>1 DEF ZeroCtx
      <3>2. PICK c : c = [ctx' EXCEPT !.msg_id = n]
        OBVIOUS
      <3> QED BY <1>5, <2>9, <3>1, <3>2 DEF Follows
    <2>12. Oldest(walk.min)' /\ Newest(walk.max)'
      BY <1>1, <1>5, <2>2, <2>5, <2>6 DEF Oldest, Newest, FirstId
    <2>13. walk'.i <= Len(log'[walk'.page]) + 1
      <3>1. Len(log[MinPage]) \in Nat
        BY <2>3, RingTypes
      <3> HIDE DEF MinPage
      <3> QED BY <1>1, <2>2, <3>1
    <2>14. ReplayInv'
      <3> HIDE DEF MinPage, FirstId
      <3> QED BY <2>2, <2>8, <2>10, <2>11, <2>12, <2>13 DEF ReplayInv
    <2> QED BY <1>4, <2>1, <2>14 DEF RingBody, ServeInv, FailedInv
  <1> QED BY <1>7, <1>8, <1>9

LEMMA SetFields ==
    ASSUME NEW o, NEW p, NEW i, NEW v, NEW a, NEW b,
           NEW f, f = [open |-> o, msg_page |-> p, msg_id |-> i, active |-> v],
           NEW h, h = [f EXCEPT !.active = a, !.open = b]
    PROVE  h = [open |-> b, msg_page |-> p, msg_id |-> i, active |-> a]
  <1>1. PICK g : g = [f EXCEPT !.active = a]
    OBVIOUS
  <1>2. g = [open |-> o, msg_page |-> p, msg_id |-> i, active |-> a]
    BY <1>1
  <1>3. h = [g EXCEPT !.open = b]
    BY <1>1
  <1> QED BY <1>2, <1>3

\* Counting a record before or after it is taken in makes no difference.
LEMMA CountedFirst ==
    ASSUME NEW c \in Context, NEW pos \in Pos, NEW r \in Record
    PROVE  UpdateState(Counted(c), pos, r) = IF Refusal(c, r) = "OK" THEN Counted(UpdateState(c, pos, r)) ELSE Counted(c)
  <1>1. PICK d \in Context : d = Counted(c)
    BY CountedType
  <1>2. d = [c EXCEPT !.msg_id = c.msg_id + 1] /\ d.open = c.open /\ d.active = c.active
    BY <1>1 DEF Counted, Context
  <1>3. Refusal(d, r) = Refusal(c, r)
    BY <1>2 DEF Refusal
  <1>4. CASE Refusal(c, r) # "OK"
    BY <1>1, <1>3, <1>4 DEF UpdateState
  <1>5. CASE Refusal(c, r) = "OK"
    <2>1. PICK a : a = NextActive(c, pos, r)
      OBVIOUS
    <2>2. NextActive(d, pos, r) = a
      BY <1>2, <2>1 DEF NextActive
    <2>3. PICK b : b = (IF r.kind = "START" THEN TRUE ELSE IF r.kind = "END" THEN FALSE ELSE c.open)
      OBVIOUS
    <2>4. PICK g : g = [d EXCEPT !.active = a, !.open = b]
      OBVIOUS
    <2>5. PICK h : h = [c EXCEPT !.active = a, !.open = b]
      OBVIOUS
    <2>6. UpdateState(d, pos, r) = g
      BY <1>2, <1>3, <1>5, <2>2, <2>3, <2>4 DEF UpdateState
    <2>7. UpdateState(c, pos, r) = h
      BY <1>5, <2>1, <2>3, <2>5 DEF UpdateState
    <2>8. PICK o, p, i, v : c = [open |-> o, msg_page |-> p, msg_id |-> i, active |-> v]
      BY DEF Context
    <2>9. d = [open |-> o, msg_page |-> p, msg_id |-> i + 1, active |-> v]
      BY <1>2, <2>8
    <2>10. h = [open |-> b, msg_page |-> p, msg_id |-> i, active |-> a]
      BY ONLY <2>5, <2>8, SetFields
    <2>11. g = [open |-> b, msg_page |-> p, msg_id |-> i + 1, active |-> a]
      BY ONLY <2>4, <2>9, SetFields
    <2>12. g = Counted(h)
      BY <2>10, <2>11 DEF Counted
    <2> QED BY <1>1, <1>5, <2>6, <2>7, <2>12
  <1> QED BY <1>4, <1>5

\* The start of an open session is that of the session before, or the record taken in.
LEMMA StartKept ==
    ASSUME NEW c \in Context, NEW pos, NEW r, NEW d, Moves(d, c, pos, r), d.open, NEW R, r \in R,
           c.open => c.active.events # <<>> /\ c.active.events[1] \in R
    PROVE  d.active.events[1] \in R
  <1>1. CASE r.kind = "START"
    <2>1. d.active.events = <<r>>
      BY <1>1 DEF Moves
    <2> QED BY <2>1
  <1>2. CASE r.kind # "START"
    <2>1. PICK q \in Seq(Record) : q = c.active.events
      BY EventTypes
    <2>2. c.open /\ d.active.events = IF IsMeter(r) THEN Append(q, r) ELSE q
      BY <1>2, <2>1 DEF Moves
    <2>3. q # <<>> /\ q[1] \in R
      BY <2>1, <2>2
    <2>4. Append(q, r)[1] = q[1]
      BY <2>3
    <2> QED BY <2>2, <2>3, <2>4
  <1> QED BY <1>1, <1>2

LEMMA RingReplayRecord ==
    ASSUME TypeOK, IdInv, RingBody, ReplayRecord, saved' = saved, intact' => intact
    PROVE  RingBody'
  <1>1. log' = log /\ files' = files /\ mode = "replay"
    BY DEF ReplayRecord
  <1>2. ChainInv /\ Alternates(Placed) /\ ReplayInv
    BY DEF RingBody
  <1>3. ChainInv' /\ Alternates(Placed)' /\ SavedInv'
    BY <1>1, BootKeeps
  <1>4. Placed' = Placed /\ \A p : FirstId(p)' = FirstId(p) /\ (Newest(p)' <=> Newest(p)) /\ (Oldest(p)' <=> Oldest(p))
    BY <1>1, LogStays
  <1>5. walk.i \in 1 .. Len(log[walk.page]) /\ walk.i \in Nat /\ walk.page \in Filled /\ walk \in Walk
    BY <1>1 DEF ReplayRecord, TypeOK, Walk, IdInv, BootInv
  <1>6. PICK n \in Nat : n = FirstId(walk.page) + walk.i - 1
    <2>1. FirstId(walk.page) \in Nat
      BY <1>5, RingTypes
    <2> HIDE DEF FirstId
    <2> QED BY <1>5, <2>1
  <1>7. PICK r \in Record : r = log[walk.page][walk.i] /\ r.rec_id = n
    BY <1>2, <1>5, <1>6, IdOfPlace
  <1>8. PICK x \in Placed : x = <<ReplayPos, r>>
    BY <1>5, <1>7, PlacedAt DEF ReplayPos
  <1>9. /\ Oldest(walk.min) /\ Newest(walk.max)
        /\ (walk.page = walk.min /\ walk.i = 1) \/ ctx.msg_id = n
        /\ Follows(Placed, [ctx EXCEPT !.msg_id = n], n)
        /\ ctx.open => ctx.active.events[1] \in Records(Placed)
    BY <1>1, <1>2, <1>6 DEF ReplayInv
  <1>10. PICK c \in Context : c = [ctx EXCEPT !.msg_id = n]
    BY DEF TypeOK, Context
  <1>11. ctx \in Context /\ c.msg_id = n /\ c.open = ctx.open /\ c.active = ctx.active
    BY <1>10 DEF TypeOK, Context
  <1>12. InPlace(Placed)
    BY <1>2, PlacedInPlace
  <1>13. Follows(Placed, c, n) /\ x[1] = ReplayPos /\ x[2] = r /\ x[2].rec_id = n /\ ReplayPos \in Pos
    BY <1>7, <1>8, <1>9, <1>10, <1>12, PlacedTypes
  <1>14. (IF walk.page = walk.min /\ walk.i = 1 THEN [ctx EXCEPT !.msg_id = r.rec_id] ELSE ctx) = c
    <2>1. ctx.msg_id = n => [ctx EXCEPT !.msg_id = n] = ctx
      BY <1>11 DEF Context
    <2> QED BY <1>7, <1>9, <1>10, <2>1
  <1>15. PICK err : err = Refusal(c, r)
    OBVIOUS
  <1>16. /\ ctx' = UpdateState(Counted(c), ReplayPos, r)
         /\ IF err = "OK" \/ (err = "SESSION_NOT_OPEN" /\ walk.allow)
            THEN /\ walk' = [walk EXCEPT !.i = @ + 1, !.ret = err, !.allow = @ /\ err = "OK"]
                 /\ mode' = mode
            ELSE BootFails(err)
    <2> DEFINE rr == log[walk.page][walk.i]
               cc == IF walk.page = walk.min /\ walk.i = 1 THEN [ctx EXCEPT !.msg_id = rr.rec_id] ELSE ctx
    <2>1. rr = r /\ cc = c
      BY <1>7, <1>14
    <2>2. rr.rec_id = cc.msg_id
      <3> HIDE DEF rr, cc
      <3> QED BY <1>7, <1>11, <2>1
    <2>3. /\ ctx' = UpdateState(Counted(cc), ReplayPos, rr)
          /\ IF Refusal(cc, rr) = "OK" \/ (Refusal(cc, rr) = "SESSION_NOT_OPEN" /\ walk.allow)
             THEN /\ walk' = [walk EXCEPT !.i = @ + 1, !.ret = Refusal(cc, rr), !.allow = @ /\ Refusal(cc, rr) = "OK"]
                  /\ mode' = mode
             ELSE BootFails(Refusal(cc, rr))
      BY <2>2 DEF ReplayRecord
    <2> HIDE DEF rr, cc
    <2> QED BY <1>15, <2>1, <2>3, Zenon
  <1>17. ctx' = IF err = "OK" THEN Counted(UpdateState(c, ReplayPos, r)) ELSE Counted(c)
    BY <1>13, <1>15, <1>16, CountedFirst
  <1>18. err # "SESSION_ALREADY_OPEN"
    <2> SUFFICES ASSUME err = "SESSION_ALREADY_OPEN" PROVE FALSE
      OBVIOUS
    <2>1. r.kind = "START" /\ c.open
      BY <1>15 DEF Refusal
    <2>2. c.active.events[1] \in Records(Placed)
      BY <1>9, <1>11, <2>1
    <2>3. PICK y \in Placed : y[2].kind = "START" /\ y[2].rec_id < n /\ NoEnd(Placed, y[2].rec_id, n)
      BY <1>12, <1>13, <2>1, <2>2, OpenStart
    <2> QED BY <1>2, <1>13, <2>1, <2>3 DEF Alternates
  <1>19. err \in {"OK", "SESSION_NOT_OPEN"}
    BY <1>15, <1>18 DEF Refusal
  <1>20. CASE err = "SESSION_NOT_OPEN" /\ ~walk.allow
    <2>1. mode' = "failed" /\ walk'.ret = "SESSION_NOT_OPEN"
      BY <1>16, <1>20 DEF BootFails, ZeroWalk
    <2> QED BY <1>3, <2>1 DEF RingBody, ServeInv, ReplayInv, FailedInv
  <1>21. CASE err = "OK" \/ (err = "SESSION_NOT_OPEN" /\ walk.allow)
    <2>1. walk' = [walk EXCEPT !.i = @ + 1, !.ret = err, !.allow = @ /\ err = "OK"] /\ mode' = "replay"
      BY <1>1, <1>16, <1>21
    <2>2. walk'.page = walk.page /\ walk'.min = walk.min /\ walk'.max = walk.max /\ walk'.i = walk.i + 1 /\ walk'.ret = err
      BY <1>5, <2>1 DEF Walk
    <2>3. Follows(Placed, ctx', n + 1) /\ ctx' \in Context
      <3>1. CASE err = "OK"
        <4>1. ctx' = Counted(UpdateState(c, x[1], x[2]))
          BY <1>13, <1>17, <3>1
        <4>2. UpdateState(c, x[1], x[2]) \in Context
          BY <1>13, UpdateStateType
        <4> QED BY <1>11, <1>12, <1>13, <1>15, <3>1, <4>1, <4>2, FollowsOn, CountedType
      <3>2. CASE err = "SESSION_NOT_OPEN"
        <4>1. r.kind = "END" /\ ~c.open
          BY <1>15, <3>2 DEF Refusal
        <4>2. ctx' = Counted(c)
          BY <1>17, <3>2
        <4>3. ctx' \in Context /\ ctx'.msg_id = c.msg_id + 1 /\ ~ctx'.open
          BY <4>1, <4>2, CountedIds
        <4>4. x[2].kind # "START" /\ x[2].rec_id = c.msg_id /\ Follows(Placed, c, c.msg_id)
          BY <1>11, <1>13, <4>1
        <4>5. Follows(Placed, ctx', c.msg_id + 1)
          BY <1>12, <4>1, <4>3, <4>4, FollowsClosed
        <4> QED BY <1>11, <4>3, <4>5
      <3> QED BY <1>19, <3>1, <3>2
    <2>4. ASSUME ctx'.open PROVE ctx'.active.events[1] \in Records(Placed)
      <3>1. err = "OK"
        <4> SUFFICES ASSUME err = "SESSION_NOT_OPEN" PROVE FALSE
          BY <1>19
        <4>1. ~c.open
          BY <1>15 DEF Refusal
        <4>2. ctx' = Counted(c)
          BY <1>17
        <4> QED BY <2>4, <4>1, <4>2, CountedIds
      <3>2. ctx' = Counted(UpdateState(c, ReplayPos, r))
        BY <1>17, <3>1
      <3>3. Moves(ctx', c, ReplayPos, r)
        BY <1>13, <1>15, <3>1, <3>2, UpdateMoves
      <3>4. r \in Records(Placed)
        BY <1>13 DEF Records
      <3>5. c.open => c.active.events # <<>> /\ c.active.events[1] \in Records(Placed)
        BY <1>9, <1>11, <1>13 DEF Follows
      <3> QED BY <2>4, <3>3, <3>4, <3>5, StartKept
    <2>5. FirstId(walk.page)' + walk'.i - 1 = n + 1
      <3>1. FirstId(walk.page)' = FirstId(walk.page) /\ FirstId(walk.page) \in Nat
        <4>1. FirstId(walk.page)' = FirstId(walk.page)
          BY <1>1, <2>2 DEF FirstId
        <4> QED BY <1>5, <4>1, RingTypes
      <3> HIDE DEF FirstId
      <3> QED BY <1>5, <1>6, <2>2, <3>1
    <2>6. ctx'.msg_id = n + 1 /\ [ctx' EXCEPT !.msg_id = n + 1] = ctx'
      <3>1. ctx'.msg_id = n + 1
        BY <2>3 DEF Follows
      <3> QED BY <2>3, <3>1 DEF Context
    <2>7. Oldest(walk.min)' /\ Newest(walk.max)'
      BY <1>1, <1>9, <2>2 DEF Oldest, Newest, Filled, FirstId
    <2>8. walk'.i <= Len(log'[walk'.page]) + 1
      BY <1>1, <1>5, <2>2
    <2>9. ReplayInv'
      <3> HIDE DEF FirstId
      <3> QED BY <1>4, <1>21, <2>2, <2>3, <2>4, <2>5, <2>6, <2>7, <2>8 DEF ReplayInv
    <2> QED BY <1>3, <2>1, <2>9 DEF RingBody, ServeInv, FailedInv
  <1> QED BY <1>19, <1>20, <1>21

\* The replay has come to the end of a page, and the context to the id after it.
LEMMA PageReplayed ==
    ASSUME TypeOK, IdInv, RingBody, ReplayPageEnd
    PROVE  /\ mode = "replay" /\ log' = log /\ files' = files /\ pc' = pc /\ job' = job
           /\ \A w \in Writers : pc[w] = "idle"
           /\ walk.page \in Filled /\ walk.page \in Page /\ walk.i = Len(log[walk.page]) + 1
           /\ FirstId(walk.page) + walk.i - 1 = Past(walk.page)
           /\ ctx \in Context /\ ctx.msg_id = Past(walk.page)
           /\ Follows(Placed, ctx, ctx.msg_id) /\ (ctx.open => ctx.active.events[1] \in Records(Placed))
           /\ Oldest(walk.min) /\ Newest(walk.max) /\ walk.ret \in {"OK", "SESSION_NOT_OPEN"}
           /\ ChainInv /\ InPlace(Placed) /\ Alternates(Placed) /\ files \subseteq Filled
  <1>1. /\ mode = "replay" /\ log' = log /\ files' = files /\ pc' = pc /\ job' = job
        /\ walk.i > Len(log[walk.page])
    BY DEF ReplayPageEnd
  <1>2. \A w \in Writers : pc[w] = "idle"
    BY <1>1, IdsIdle DEF IdInv
  <1>3. walk.page \in Filled /\ files \subseteq Filled /\ walk.i \in Nat
    BY <1>1 DEF IdInv, BootInv, TypeOK, Walk
  <1>4. /\ walk.page \in Page /\ FirstId(walk.page) \in Nat /\ Past(walk.page) = FirstId(walk.page) + Len(log[walk.page])
        /\ Len(log[walk.page]) \in Nat \ {0}
    BY <1>3, RingTypes
  <1>5. ChainInv /\ Alternates(Placed) /\ ReplayInv
    BY DEF RingBody
  <1> DEFINE n == FirstId(walk.page) + walk.i - 1
  <1>6. /\ Oldest(walk.min) /\ Newest(walk.max) /\ walk.i <= Len(log[walk.page]) + 1
        /\ (walk.page = walk.min /\ walk.i = 1) \/ ctx.msg_id = n
        /\ Follows(Placed, [ctx EXCEPT !.msg_id = n], n)
        /\ ctx.open => ctx.active.events[1] \in Records(Placed)
        /\ walk.ret \in {"OK", "SESSION_NOT_OPEN"}
    BY <1>1, <1>5 DEF ReplayInv
  <1>7. walk.i = Len(log[walk.page]) + 1
    BY <1>1, <1>3, <1>4, <1>6
  <1>8. n = Past(walk.page)
    <2> HIDE DEF FirstId
    <2> QED BY <1>4, <1>7
  <1>9. ctx.msg_id = n
    <2> HIDE DEF n
    <2> QED BY <1>4, <1>6, <1>7
  <1>10. ctx \in Context /\ [ctx EXCEPT !.msg_id = n] = ctx
    <2> HIDE DEF n
    <2> QED BY <1>9 DEF TypeOK, Context
  <1>11. InPlace(Placed)
    BY <1>5, PlacedInPlace
  <1>12. Follows(Placed, ctx, ctx.msg_id) /\ ctx.msg_id = Past(walk.page)
    BY <1>6, <1>8, <1>9, <1>10
  <1> HIDE DEF FirstId
  <1> QED BY <1>1, <1>2, <1>3, <1>4, <1>5, <1>6, <1>7, <1>8, <1>10, <1>11, <1>12

LEMMA RingReplayPageEnd ==
    ASSUME TypeOK, IdInv, RingBody, ReplayPageEnd, saved' = saved, intact' => intact
    PROVE  RingBody'
  <1>1. /\ mode = "replay" /\ log' = log /\ files' = files /\ pc' = pc /\ job' = job
        /\ \A w \in Writers : pc[w] = "idle"
        /\ walk.page \in Filled /\ walk.page \in Page
        /\ ctx \in Context /\ ctx.msg_id = Past(walk.page)
        /\ Follows(Placed, ctx, ctx.msg_id) /\ (ctx.open => ctx.active.events[1] \in Records(Placed))
        /\ Oldest(walk.min) /\ Newest(walk.max) /\ walk.ret \in {"OK", "SESSION_NOT_OPEN"}
        /\ ChainInv /\ files \subseteq Filled
    BY PageReplayed
  <1>2. ChainInv' /\ Alternates(Placed)' /\ SavedInv'
    BY <1>1, BootKeeps
  <1>3. Filled' = Filled /\ Placed' = Placed /\ \A p : (Newest(p)' <=> Newest(p)) /\ Past(p)' = Past(p) /\ FirstId(p)' = FirstId(p)
    BY <1>1, LogStays
  <1>4. \A p \in Page : Newest(p) => p = walk.max
    BY <1>1, OneNewest
  <1>5. CASE walk.ret # "OK"
    <2>1. mode' = "failed" /\ walk'.ret = "SESSION_NOT_OPEN"
      BY <1>1, <1>5 DEF ReplayPageEnd, BootFails, ZeroWalk
    <2> QED BY <1>2, <2>1 DEF RingBody, ServeInv, ReplayInv, FailedInv
  <1>6. CASE walk.ret = "OK" /\ walk.page = walk.max
    <2>1. mode' = "ready" /\ ctx' = [ctx EXCEPT !.msg_page = walk.max]
      BY <1>6 DEF ReplayPageEnd, AtLastPage
    <2>2. ctx'.msg_page = walk.max /\ ctx'.msg_id = ctx.msg_id /\ ctx'.open = ctx.open /\ ctx'.active = ctx.active
      BY <1>1, <2>1 DEF Context
    <2>3. Promised' = ctx'
      BY <1>1, PromisedIdle
    <2>4. UpTo(ctx)
      BY <1>1, <1>4, <1>6 DEF UpTo
    <2>5. UpTo(Promised)'
      BY <1>1, <2>2, <2>3, <2>4, UpToSame
    <2>6. Newest(ctx.msg_page)'
      BY <1>1, <1>3, <2>2 DEF Newest, FirstId
    <2>7. AtPage'
      BY <2>6 DEF AtPage
    <2>8. CallInv'
      BY <1>1 DEF CallInv
    <2>9. files' \subseteq Filled'
      BY <1>1, <1>3
    <2>10. WholeInv'
      <3>1. \A w \in Writers : ~TwoTry(w)'
        BY <1>1 DEF TwoTry
      <3> QED BY <2>6, <2>9, <3>1 DEF WholeInv
    <2> QED BY <1>2, <2>1, <2>5, <2>7, <2>8, <2>9, <2>10, CallServes
  <1>7. CASE walk.ret = "OK" /\ walk.page # walk.max
    <2>1. PICK next : next = NextPage(walk.page)
      OBVIOUS
    <2>2. ~Newest(walk.page)
      BY <1>1, <1>4, <1>7
    <2>3. next \in Filled /\ FirstId(next) = Past(walk.page)
      BY <1>1, <2>1, <2>2 DEF ChainInv
    <2>4. next \in files
      BY <2>3 DEF IdInv, PagesInv
    <2>5. walk' = [walk EXCEPT !.page = next, !.i = 1] /\ mode' = mode /\ ctx' = ctx
      BY <1>7, <2>1, <2>4 DEF ReplayPageEnd, AtLastPage
    <2>6. walk'.page = next /\ walk'.i = 1 /\ walk'.min = walk.min /\ walk'.max = walk.max /\ walk'.ret = walk.ret
      <3>1. walk \in Walk
        BY DEF TypeOK
      <3> QED BY <2>5, <3>1 DEF Walk
    <2>7. FirstId(walk.page)' + walk'.i - 1 = ctx.msg_id
      <3>1. FirstId(walk.page)' = FirstId(next)
        BY <1>1, <2>6 DEF FirstId
      <3>2. ctx.msg_id \in Nat
        BY ContextTypes
      <3> HIDE DEF FirstId
      <3> QED BY <1>1, <2>3, <2>6, <3>1, <3>2
    <2>8. [ctx EXCEPT !.msg_id = ctx.msg_id] = ctx
      BY <1>1 DEF Context
    <2>9. Oldest(walk.min)' /\ Newest(walk.max)'
      BY <1>1, <2>6 DEF Oldest, Newest, Filled, FirstId
    <2>10. walk'.i <= Len(log'[walk'.page]) + 1
      <3>1. Len(log[next]) \in Nat
        BY <2>3, RingTypes
      <3> QED BY <1>1, <2>6, <3>1
    <2>11. ReplayInv'
      <3> HIDE DEF FirstId
      <3> QED BY <1>1, <1>3, <2>5, <2>6, <2>7, <2>8, <2>9, <2>10 DEF ReplayInv
    <2> QED BY <1>1, <1>2, <2>5, <2>11 DEF RingBody, ServeInv, FailedInv
  <1> QED BY <1>5, <1>6, <1>7

\* What the restart brings back.
Brings(c, d) ==
    /\ d.msg_id = c.msg_id
    /\ IF c.open THEN OnFlash(c.active.events[1]) => d.open /\ d.active = c.active ELSE ~d.open

LEMMA RestartBrings ==
    ASSUME TypeOK, IdInv, RingBody, ReplayPageEnd, mode' = "ready", saved \in Context
    PROVE  Brings(saved, ctx')
  <1>1. /\ mode = "replay" /\ walk.page \in Filled /\ walk.page \in Page
        /\ ctx \in Context /\ ctx.msg_id = Past(walk.page)
        /\ Follows(Placed, ctx, ctx.msg_id) /\ (ctx.open => ctx.active.events[1] \in Records(Placed))
        /\ Newest(walk.max) /\ InPlace(Placed) /\ Alternates(Placed)
    BY PageReplayed
  <1>2. walk.page = walk.max /\ ctx' = [ctx EXCEPT !.msg_page = walk.max]
    BY <1>1 DEF ReplayPageEnd, AtLastPage, BootFails
  <1>3. ctx'.msg_id = ctx.msg_id /\ ctx'.open = ctx.open /\ ctx'.active = ctx.active
    BY <1>1, <1>2 DEF Context
  <1>4. UpTo(saved)
    BY <1>1 DEF RingBody, SavedInv
  <1>5. PICK n \in Nat : n = ctx.msg_id
    BY ContextTypes
  <1>6. saved.msg_id = n
    BY <1>1, <1>2, <1>4, <1>5 DEF UpTo
  <1>7. Follows(Placed, saved, n) /\ Follows(Placed, ctx, n)
    BY <1>1, <1>4, <1>5, <1>6 DEF UpTo
  <1>8. /\ ~saved.open => ~ctx.open
        /\ saved.open /\ saved.active.events[1] \in Records(Placed) => ctx.open /\ ctx.active = saved.active
    BY <1>1, <1>7, SameFollow
  <1>9. \A r : OnFlash(r) => r \in Records(Placed)
    <2> SUFFICES ASSUME NEW r, OnFlash(r) PROVE r \in Records(Placed)
      OBVIOUS
    <2>1. PICK s \in Slots : At(s) = r
      BY DEF OnFlash
    <2>2. PICK p \in Page : s \in {<<p, i>> : i \in 1 .. Len(log[p])}
      BY <2>1 DEF Slots
    <2>3. PICK i \in 1 .. Len(log[p]) : s = <<p, i>>
      BY <2>2
    <2>4. log[p][i] = r /\ p \in Filled /\ i \in Nat
      BY <2>1, <2>3 DEF At, Filled
    <2>5. PICK x : x = <<[page |-> p, offset |-> i - 1], log[p][i]>>
      OBVIOUS
    <2>6. x \in Placed /\ x[2] = r
      BY <2>4, <2>5, PlacedAt
    <2> QED BY <2>6 DEF Records
  <1> QED BY <1>3, <1>5, <1>6, <1>8, <1>9 DEF Brings

-----------------------------------------------------------------------------
(* The restart, and the invariant of the ring.                             *)

\* The replay has to bring back what was promised when the power was lost; when no call
\* was cut short, no file is without records.
LEMMA RingCrash ==
    ASSUME TypeOK, IdInv, RingBody, Crash, saved' = IF mode = "ready" THEN Promised ELSE saved,
           intact' => intact /\ Quiet
    PROVE  RingBody'
  <1>1. mode' = "scan" /\ log' = log /\ files' = files
    BY DEF Crash
  <1>2. ChainInv' /\ Alternates(Placed)'
    BY <1>1, LogStays DEF RingBody
  <1>3. UpTo(saved')
    BY DEF RingBody, ServeInv, SavedInv
  <1>4. UpTo(saved)'
    <2>1. Follows(Placed', saved', saved'.msg_id) /\ \A p \in Page : Newest(p)' => Past(p)' = saved'.msg_id
      BY <1>1, <1>3, LogStays
    <2> QED BY <2>1 DEF UpTo
  <1>5. ASSUME intact' PROVE files' \subseteq Filled'
    <2>1. Filled' = Filled /\ intact /\ \A w \in Writers : pc[w] = "idle"
      BY <1>1, <1>5, LogStays DEF Quiet
    <2> QED BY <1>1, <2>1 DEF RingBody, ServeInv, SavedInv, WholeInv
  <1> QED BY <1>1, <1>2, <1>4, <1>5 DEF RingBody, ServeInv, ReplayInv, SavedInv, FailedInv

LEMMA RingStays ==
    ASSUME RingBody, UNCHANGED <<files, log, ctx, mode, walk, pc, job, saved>>, intact' => intact
    PROVE  RingBody'
  <1>1. Promised' = Promised
    BY DEF Promised, Landed
  <1>2. Filled' = Filled /\ Placed' = Placed /\ ChainInv' /\ \A p : FirstId(p)' = FirstId(p)
    BY LogStays DEF RingBody
  <1>3. \A p : (Newest(p)' <=> Newest(p)) /\ (Oldest(p)' <=> Oldest(p)) /\ Past(p)' = Past(p)
    BY LogStays
  <1>4. Alternates(Placed)'
    BY <1>2 DEF RingBody
  <1>5. AtPage' <=> AtPage
    BY DEF AtPage, Newest, Filled, FirstId
  <1>6. CallInv' <=> CallInv
    BY <1>2 DEF CallInv
  <1>7. WholeInv' <=> WholeInv
    BY DEF WholeInv, TwoTry, Newest, Filled, FirstId
  <1>8. UpTo(Promised)' <=> UpTo(Promised)
    BY <1>1 DEF UpTo, Placed, Newest, Filled, Past, FirstId
  <1>9. UpTo(saved)' <=> UpTo(saved)
    BY DEF UpTo, Placed, Newest, Filled, Past, FirstId
  <1>10. ServeInv'
    BY <1>2, <1>5, <1>6, <1>7, <1>8 DEF RingBody, ServeInv
  <1>11. SavedInv' /\ FailedInv'
    BY <1>2, <1>9 DEF RingBody, SavedInv, FailedInv
  <1>12. ReplayInv'
    BY DEF RingBody, ReplayInv, Placed, Newest, Oldest, Filled, FirstId
  <1> QED BY <1>2, <1>4, <1>10, <1>11, <1>12 DEF RingBody

LEMMA RingStart == MCInit => RingInv
  <1> SUFFICES ASSUME MCInit PROVE RingBody
    BY DEF RingInv
  <1>1. /\ files = {} /\ mode = "scan" /\ saved = ZeroCtx
        /\ \A p \in Page : log[p] = <<>>
    BY DEF MCInit, Init
  <1>2. Filled = {}
    BY <1>1 DEF Filled
  <1>3. Placed = {}
    BY <1>1 DEF Placed, PlacedOf
  <1>4. ChainInv
    BY <1>2 DEF ChainInv
  <1>5. Alternates(Placed)
    BY <1>3 DEF Alternates
  <1>6. Follows(Placed, ZeroCtx, ZeroCtx.msg_id) /\ ~ZeroCtx.open
    BY <1>3 DEF Follows, ZeroCtx
  <1>7. UpTo(saved)
    BY <1>1, <1>2, <1>6 DEF UpTo, Newest
  <1> QED BY <1>1, <1>4, <1>5, <1>7 DEF RingBody, ServeInv, ReplayInv, SavedInv, FailedInv

SavedOK == saved \in Context

LEMMA SavedStart == MCInit => SavedOK
  BY ZeroTypes DEF MCInit, SavedOK

LEMMA SavedNext == TypeOK /\ Serial /\ SavedOK /\ [MCNext]_mcvars => SavedOK'
  BY PromisedType DEF MCNext, mcvars, SavedOK

LEMMA RingCall ==
    ASSUME TypeOK, Serial, IdInv, RingBody, NEW w \in Writers, Call(w),
           intact' => intact, Faults \cap {"write", "sync"} = {} \/ intact',
           intact' => ~(OpenFails(w) \/ WriteFails(w) \/ PurgeRefused(w)),
           intact \/ ~(\E q \in files \ files' : q # MinPage)
    PROVE  RingBody'
  <1>1. CASE OpenFails(w)
    <2>1. /\ pc[w] \in {"open", "write", "purge"} /\ Return(w)
          /\ log' = log /\ ctx' = ctx /\ mode' = mode /\ files' \subseteq files \cup {ctx.msg_page}
      BY <1>1 DEF OpenFails
    <2>2. ~intact'
      BY <1>1
    <2> QED BY <2>1, <2>2, RingReturn
  <1>2. CASE WriteFails(w)
    BY <1>2 DEF WriteFails
  <1>3. CASE PurgeRefused(w)
    <2>1. /\ pc[w] \in {"open", "write", "purge"} /\ Return(w)
          /\ log' = log /\ ctx' = ctx /\ mode' = mode /\ files' \subseteq files \cup {ctx.msg_page}
      BY <1>3 DEF PurgeRefused
    <2>2. ~intact'
      BY <1>3
    <2> QED BY <2>1, <2>2, RingReturn
  <1>4. CASE OpenPage(w) \/ PageFull(w) \/ WriteRecord(w)
    BY <1>4, RingOpenPage, RingPageFull, RingWrite
  <1>5. CASE UpdateContext(w) \/ Purge(w)
    BY <1>5, RingUpdate, RingPurge
  <1> QED BY <1>1, <1>2, <1>3, <1>4, <1>5 DEF Call

LEMMA RingNext == TypeOK /\ Serial /\ IdInv /\ RingInv /\ [MCNext]_mcvars => RingInv'
  <1> SUFFICES ASSUME TypeOK, Serial, IdInv, RingInv, [MCNext]_mcvars, Steady' PROVE RingBody'
    BY DEF RingInv
  <1>1. CASE UNCHANGED mcvars
    <2>1. RingBody
      BY <1>1 DEF RingInv, Steady, mcvars
    <2> QED BY <1>1, <2>1, RingStays DEF mcvars, vars
  <1>2. CASE MCNext
    <2>1. Next /\ saved' = IF mode = "ready" /\ mode' = "scan" THEN Promised ELSE saved
      BY <1>2 DEF MCNext
    <2>2. intact' => intact /\ (Crash => Quiet) /\ ~\E w \in Writers : OpenFails(w) \/ WriteFails(w) \/ PurgeRefused(w)
      BY <1>2 DEF MCNext
    <2>3. ~skipped' => ~skipped /\ ~\E q \in files \ files' : q # MinPage
      BY <1>2 DEF MCNext
    <2>4. RingBody
      BY <2>2, <2>3 DEF RingInv, Steady
    <2>5. (intact \/ ~\E q \in files \ files' : q # MinPage) /\ (Faults \cap {"write", "sync"} = {} \/ intact')
      BY <2>2, <2>3 DEF Steady
    <2>6. CASE Boot
      <3>1. saved' = saved
        BY <2>1, <2>6 DEF Boot, Scan, ReplayRecord, ReplayPageEnd
      <3> QED BY <2>2, <2>4, <2>6, <3>1, RingScan, RingReplayRecord, RingReplayPageEnd DEF Boot
    <2>7. CASE Crash
      <3>1. saved' = IF mode = "ready" THEN Promised ELSE saved
        BY <2>1, <2>7 DEF Crash
      <3> QED BY <2>2, <2>4, <2>7, <3>1, RingCrash
    <2>8. CASE Tick
      <3>1. saved' = saved
        BY <2>1, <2>8 DEF Tick
      <3> QED BY <2>2, <2>4, <2>8, <3>1, RingStays DEF Tick
    <2>9. ASSUME NEW w \in Writers, NEW kind \in Events, AddEvent(w, kind) PROVE RingBody'
      BY <2>2, <2>4, <2>9, RingAddEvent
    <2>10. ASSUME NEW w \in Writers, Call(w) PROVE RingBody'
      BY <2>2, <2>4, <2>5, <2>10, RingCall
    <2> QED BY <2>1, <2>6, <2>7, <2>8, <2>9, <2>10 DEF Next
  <1> QED BY <1>1, <1>2

LEMMA StepOfMid == [MCNext]_mcvars => [Next]_vars
  BY DEF MCNext, mcvars

LEMMA StartOfMid == MCInit => Init
  BY DEF MCInit

LEMMA BootFromRing == RingInv => BootSucceeds
  BY DEF RingInv, Steady, RingBody, FailedInv, BootSucceeds

\* With one call at a time, whatever was recorded, replaced and purged before, a replay
\* (mid_session_log_replay) fails on no log that calls which ran to their end have
\* left, but for the END without its START that mid_session_init_internal tolerates
\* only when another record follows it on its page.
THEOREM BootSucceedsHolds ==
    ASSUME Serial PROVE MCSpec => []BootSucceeds
  BY TypeInit, TypeNext, IdsStart, IdsNext, RingStart, RingNext, StepOfMid, StartOfMid, BootFromRing, PTL DEF MCSpec

RestartStep == mode = "replay" /\ mode' = "ready" /\ ~skipped => Brings(saved, ctx')

LEMMA RestartNext ==
    ASSUME Faults \cap {"write", "sync"} = {}, TypeOK, IdInv, RingInv, SavedOK, [MCNext]_mcvars
    PROVE  RestartStep
  <1> SUFFICES ASSUME mode = "replay", mode' = "ready", ~skipped PROVE Brings(saved, ctx')
    BY DEF RestartStep
  <1>1. RingBody
    BY DEF RingInv, Steady
  <1>2. Next
    BY DEF MCNext, mcvars, vars
  <1>3. CASE Boot
    <2>1. ReplayPageEnd
      BY <1>3 DEF Boot, Scan, ReplayRecord, BootFails
    <2> QED BY <1>1, <2>1, RestartBrings DEF SavedOK
  <1>4. CASE Crash \/ Tick
    BY <1>4 DEF Crash, Tick
  <1>5. ASSUME NEW w \in Writers, NEW kind \in Events, AddEvent(w, kind) PROVE FALSE
    BY <1>5 DEF AddEvent, Serving
  <1>6. ASSUME NEW w \in Writers, Call(w) PROVE FALSE
    <2>1. pc[w] # "idle"
      BY <1>6 DEF Call, OpenPage, OpenFails, PageFull, WriteRecord, WriteFails, UpdateContext, Purge, PurgeRefused
    <2> QED BY <2>1 DEF IdInv, JobInv
  <1> QED BY <1>2, <1>3, <1>4, <1>5, <1>6 DEF Next

LEMMA RestartOfStep ==
    /\ [RestartStep]_mcvars => [mode = "replay" /\ mode' = "ready" /\ ~skipped => ctx'.msg_id = saved.msg_id]_mcvars
    /\ [RestartStep]_mcvars =>
          [mode = "replay" /\ mode' = "ready" /\ ~skipped =>
             IF saved.open
             THEN OnFlash(saved.active.events[1]) => ctx'.open /\ ctx'.active = saved.active
             ELSE ~ctx'.open]_mcvars
  BY DEF RestartStep, Brings

\* With one call at a time and no failing write or sync, a restart loses neither the
\* numbering nor the session as long as the purges took the oldest page first: the
\* replay brings back the context that mid_session_add_event had left, the record that
\* had landed without its update included.
THEOREM RestartHolds ==
    ASSUME Serial, Faults \cap {"write", "sync"} = {}
    PROVE  MCSpec => RestartKeepsContext
  <1>1. TypeOK /\ IdInv /\ RingInv /\ SavedOK /\ [MCNext]_mcvars => [RestartStep]_mcvars
    BY RestartNext
  <1> QED BY <1>1, RestartOfStep, TypeInit, TypeNext, IdsStart, IdsNext, RingStart, RingNext, SavedStart, SavedNext,
             StepOfMid, StartOfMid, PTL
          DEF MCSpec, RestartKeepsContext, RestartKeepsMsgId, RestartKeepsSession

-----------------------------------------------------------------------------
(* The readings of a session.  The context holds the session that the      *)
(* records it has been told tell: the meter values from a START on, up to  *)
(* an END, each of them once and in their order.  A record is told when    *)
(* its call updates the context, or when the replay meets it; as long as   *)
(* no sync fails, each record is told before the next one is written.      *)

\* The records told so far: those before the id n.
Told(G, n) == {x \in G : x[2].rec_id < n}

\* The context holds the session that the records of G tell.
Tells(G, c) ==
    LET e == c.active.events
    IN /\ c.open => e # <<>>
       /\ e # <<>> =>
             /\ e[1].kind = "START" /\ Increasing(e) /\ e[Len(e)].rec_id < c.msg_id
             /\ \A k \in 1 .. Len(e) : IsMeter(e[k]) /\ (e[k].kind = "END" => ~c.open /\ k = Len(e))
             /\ c.open \/ e[Len(e)].kind = "END"
             /\ \A x \in G : x[2].rec_id = e[1].rec_id => x[1] = c.active.pos
             /\ \A x \in G, k \in 1 .. Len(e) : x[2].rec_id = e[k].rec_id => x[2] = e[k]
             /\ \A x \in G : IsMeter(x[2]) /\ e[1].rec_id <= x[2].rec_id /\ (c.open \/ x[2].rec_id <= e[Len(e)].rec_id)
                                => \E k \in 1 .. Len(e) : e[k] = x[2]

\* The page that has room ends at the next id, except while a record waits for its update.
NextInRow == mode = "ready" => \A p \in Growing : Past(p) = ctx.msg_id + (IF Landing THEN 1 ELSE 0)

\* A record lands at the place that the update gives it.
LandInv ==
    \A w \in Writers :
        /\ pc[w] = "write" => job[w].size = Len(log[ctx.msg_page])
        /\ pc[w] = "update" => <<[page |-> job[w].page, offset |-> job[w].size], Landed(w)>> \in Placed

\* The replay does not come back to its first page.
FromMin(p) == IF walk.min <= p THEN p - walk.min ELSE p + MaxPages - walk.min

BackInv ==
    mode = "replay" =>
        /\ FromMin(walk.page) <= FromMin(walk.max)
        /\ walk.i <= Len(log[walk.page]) + 1
        /\ walk.page = walk.min /\ walk.i = 1 => ctx = ZeroCtx
        /\ walk.i > 1 => ctx.msg_id = FirstId(walk.page) + walk.i - 1

TellInv ==
    /\ InRow /\ NextInRow /\ LandInv /\ BackInv
    /\ mode \in {"replay", "ready"} => Tells(Told(Placed, ctx.msg_id), ctx)

\* What is told of one record more.
LEMMA ToldOn ==
    ASSUME NEW G, InPlace(G), NEW x \in G, NEW n \in Nat, x[2].rec_id = n
    PROVE  Told(G, n + 1) = Told(G, n) \cup {x} /\ Told(G, n) \subseteq G /\ \A y \in G : y[2].rec_id \in Nat
  <1>1. \A y \in G : y[2].rec_id \in Nat /\ (y[2].rec_id = n => y = x)
    BY PlacedTypes, OneOfId
  <1> QED BY <1>1 DEF Told

LEMMA EventsBelow ==
    ASSUME NEW q \in Seq(Record), Increasing(q), NEW n \in Nat, q # <<>> => q[Len(q)].rec_id < n
    PROVE  \A k \in 1 .. Len(q) : q[k].rec_id \in Nat /\ q[k].rec_id < n
  <1> SUFFICES ASSUME NEW k \in 1 .. Len(q) PROVE q[k].rec_id \in Nat /\ q[k].rec_id < n
    OBVIOUS
  <1>1. PICK m \in Nat : m = Len(q)
    OBVIOUS
  <1>2. q # <<>> /\ m \in 1 .. m /\ k \in 1 .. m
    BY <1>1
  <1>3. q[k] \in Record /\ q[m] \in Record
    BY <1>1, <1>2
  <1>4. q[k].rec_id \in Nat /\ q[m].rec_id \in Nat
    BY <1>3 DEF Record
  <1>5. k = m \/ q[k].rec_id < q[m].rec_id
    BY <1>1, <1>2 DEF Increasing
  <1> QED BY <1>1, <1>2, <1>4, <1>5

LEMMA TellsFewer ==
    ASSUME NEW G, NEW H, H \subseteq G, NEW c, Tells(G, c)
    PROVE  Tells(H, c)
  <1>1. PICK e : e = c.active.events
    OBVIOUS
  <1> QED BY <1>1 DEF Tells

LEMMA TellsSame ==
    ASSUME NEW G, NEW c, NEW d, c.msg_id = d.msg_id, c.open = d.open, c.active = d.active, Tells(G, c)
    PROVE  Tells(G, d)
  BY DEF Tells

LEMMA TellsNothing ==
    ASSUME NEW G, NEW c, ~c.open, c.active.events = <<>>
    PROVE  Tells(G, c)
  BY DEF Tells

\* A record that is not part of the session.
LEMMA TellsPass ==
    ASSUME NEW G, InPlace(G), NEW c \in Context, NEW x \in G, x[2].rec_id = c.msg_id,
           Tells(Told(G, c.msg_id), c), ~c.open \/ ~IsMeter(x[2]),
           NEW d, d.msg_id = c.msg_id + 1, d.open = c.open,
           d.active.events = c.active.events, d.active.pos = c.active.pos
    PROVE  Tells(Told(G, c.msg_id + 1), d)
  <1>1. PICK n \in Nat : n = c.msg_id
    BY EventTypes
  <1>2. PICK e \in Seq(Record) : e = c.active.events
    BY EventTypes
  <1>3. Told(G, n + 1) = Told(G, n) \cup {x} /\ x[2].rec_id = n
    BY <1>1, ToldOn
  <1>4. c.open => e # <<>>
    BY <1>2 DEF Tells
  <1>5. ASSUME e # <<>>
        PROVE  /\ e[1].kind = "START" /\ Increasing(e) /\ e[Len(e)].rec_id < n
               /\ \A k \in 1 .. Len(e) : IsMeter(e[k]) /\ (e[k].kind = "END" => ~c.open /\ k = Len(e))
               /\ c.open \/ e[Len(e)].kind = "END"
               /\ \A y \in Told(G, n) : y[2].rec_id = e[1].rec_id => y[1] = c.active.pos
               /\ \A y \in Told(G, n), k \in 1 .. Len(e) : y[2].rec_id = e[k].rec_id => y[2] = e[k]
               /\ \A y \in Told(G, n) : IsMeter(y[2]) /\ e[1].rec_id <= y[2].rec_id /\ (c.open \/ y[2].rec_id <= e[Len(e)].rec_id)
                                           => \E k \in 1 .. Len(e) : e[k] = y[2]
    BY <1>1, <1>2, <1>5 DEF Tells
  <1>6. ASSUME e # <<>>
        PROVE  /\ 1 \in 1 .. Len(e) /\ Len(e) \in 1 .. Len(e)
               /\ \A k \in 1 .. Len(e) : e[k].rec_id \in Nat /\ e[k].rec_id < n
    <2>1. 1 \in 1 .. Len(e) /\ Len(e) \in 1 .. Len(e)
      BY <1>6
    <2> QED BY <1>5, <1>6, <2>1, EventsBelow
  <1>7. ASSUME e # <<>>
        PROVE  /\ e[Len(e)].rec_id < n + 1
               /\ \A y \in Told(G, n + 1) : y[2].rec_id = e[1].rec_id => y[1] = c.active.pos
               /\ \A y \in Told(G, n + 1), k \in 1 .. Len(e) : y[2].rec_id = e[k].rec_id => y[2] = e[k]
               /\ \A y \in Told(G, n + 1) : IsMeter(y[2]) /\ e[1].rec_id <= y[2].rec_id /\ (c.open \/ y[2].rec_id <= e[Len(e)].rec_id)
                                           => \E k \in 1 .. Len(e) : e[k] = y[2]
    <2>1. \A k \in 1 .. Len(e) : x[2].rec_id # e[k].rec_id /\ ~(x[2].rec_id <= e[k].rec_id) /\ e[k].rec_id < n + 1
      BY <1>3, <1>6, <1>7
    <2>2. 1 \in 1 .. Len(e) /\ Len(e) \in 1 .. Len(e)
      BY <1>6, <1>7
    <2>3. \A y \in Told(G, n + 1) : y \in Told(G, n) \/ y = x
      BY <1>3
    <2> QED BY <1>5, <1>7, <2>1, <2>2, <2>3
  <1> QED BY <1>1, <1>2, <1>4, <1>5, <1>7 DEF Tells

LEMMA TellsStart ==
    ASSUME NEW G, InPlace(G), NEW n \in Nat, NEW x \in G, x[2].rec_id = n, x[2].kind = "START",
           NEW d, d.msg_id = n + 1, d.open, d.active.events = <<x[2]>>, d.active.pos = x[1]
    PROVE  Tells(Told(G, n + 1), d)
  <1>1. PICK e : e = <<x[2]>>
    OBVIOUS
  <1>2. Len(e) = 1 /\ e[1] = x[2] /\ e # <<>> /\ \A k \in 1 .. Len(e) : k = 1
    BY <1>1
  <1>3. \A y \in G : y[2].rec_id \in Nat /\ (y[2].rec_id = n => y = x)
    BY PlacedTypes, OneOfId
  <1>4. \A y \in Told(G, n + 1) : y \in G /\ (y[2].rec_id >= n => y = x)
    BY <1>3 DEF Told
  <1>5. Increasing(e)
    BY <1>2 DEF Increasing
  <1>6. IsMeter(x[2]) /\ x[2].kind # "END"
    BY DEF IsMeter, MeterKind
  <1>7. /\ \A y \in Told(G, n + 1) : y[2].rec_id = e[1].rec_id => y = x
        /\ \A y \in Told(G, n + 1) : e[1].rec_id <= y[2].rec_id => y = x
    BY <1>2, <1>3, <1>4
  <1> QED BY <1>1, <1>2, <1>5, <1>6, <1>7 DEF Tells

\* A reading of the session that is open.
LEMMA TellsGrown ==
    ASSUME NEW G, InPlace(G), NEW c \in Context, NEW x \in G, x[2].rec_id = c.msg_id, x[2].kind \in {"TARIFF", "END"},
           c.open, Tells(Told(G, c.msg_id), c),
           NEW d, d.msg_id = c.msg_id + 1, d.open <=> x[2].kind # "END",
           d.active.events = Append(c.active.events, x[2]), d.active.pos = c.active.pos
    PROVE  Tells(Told(G, c.msg_id + 1), d)
  <1>1. PICK n \in Nat : n = c.msg_id
    BY EventTypes
  <1>2. PICK e \in Seq(Record) : e = c.active.events
    BY EventTypes
  <1>3. Told(G, n + 1) = Told(G, n) \cup {x} /\ x[2].rec_id = n
    <2>1. x[2].rec_id = n
      BY <1>1
    <2> QED BY <2>1, ToldOn
  <1>4. e # <<>>
    BY <1>2 DEF Tells
  <1>5. /\ e[1].kind = "START" /\ Increasing(e) /\ e[Len(e)].rec_id < n
        /\ \A k \in 1 .. Len(e) : IsMeter(e[k]) /\ e[k].kind # "END"
        /\ \A y \in Told(G, n) : y[2].rec_id = e[1].rec_id => y[1] = c.active.pos
        /\ \A y \in Told(G, n), k \in 1 .. Len(e) : y[2].rec_id = e[k].rec_id => y[2] = e[k]
        /\ \A y \in Told(G, n) : IsMeter(y[2]) /\ e[1].rec_id <= y[2].rec_id => \E k \in 1 .. Len(e) : e[k] = y[2]
    BY <1>1, <1>2, <1>4 DEF Tells
  <1>6. \A k \in 1 .. Len(e) : e[k].rec_id \in Nat /\ e[k].rec_id < n
    BY <1>5, EventsBelow
  <1>7. PICK m \in Nat : m = Len(e) /\ m > 0
    BY <1>4
  <1>8. PICK r \in Record : r = x[2] /\ r.rec_id = n /\ IsMeter(r)
    <2>1. IsMeter(x[2])
      BY DEF IsMeter, MeterKind
    <2> QED BY <1>3, <2>1, PlacedTypes
  <1>9. PICK s : s = Append(e, r)
    OBVIOUS
  <1>10. /\ Increasing(s) /\ s[1] = e[1] /\ Len(s) = m + 1 /\ s[m + 1] = r
         /\ \A k \in 1 .. m : s[k] = e[k]
         /\ s # <<>>
    BY <1>4, <1>5, <1>7, <1>8, <1>9, IncreasingAppend
  <1>11. \A k \in 1 .. m + 1 : k \in 1 .. m \/ k = m + 1
    BY <1>7
  <1>12. \A k \in 1 .. m + 1 : IsMeter(s[k]) /\ (s[k].kind = "END" => ~d.open /\ k = m + 1)
    BY <1>5, <1>7, <1>8, <1>10, <1>11
  <1>13. d.open \/ s[m + 1].kind = "END"
    BY <1>8, <1>10
  <1>14. \A y \in Told(G, n + 1) : y \in Told(G, n) \/ y = x
    BY <1>3
  <1>15. \A y \in Told(G, n) : y[2].rec_id \in Nat /\ y[2].rec_id < n
    BY <1>1, <1>3, ToldOn DEF Told
  <1>16. 1 \in 1 .. m
    BY <1>7
  <1>17. \A y \in Told(G, n + 1) : y[2].rec_id = s[1].rec_id => y[1] = c.active.pos
    BY <1>3, <1>5, <1>6, <1>7, <1>10, <1>14, <1>16
  <1>18. \A y \in Told(G, n + 1), k \in 1 .. m + 1 : y[2].rec_id = s[k].rec_id => y[2] = s[k]
    <2> SUFFICES ASSUME NEW y \in Told(G, n + 1), NEW k \in 1 .. m + 1, y[2].rec_id = s[k].rec_id PROVE y[2] = s[k]
      OBVIOUS
    <2>1. CASE y = x /\ k \in 1 .. m
      BY <1>3, <1>6, <1>7, <1>10, <2>1
    <2>2. CASE y = x /\ k = m + 1
      BY <1>8, <1>10, <2>2
    <2>3. CASE y \in Told(G, n) /\ k \in 1 .. m
      BY <1>5, <1>7, <1>10, <2>3
    <2>4. CASE y \in Told(G, n) /\ k = m + 1
      BY <1>8, <1>10, <1>15, <2>4
    <2> QED BY <1>11, <1>14, <2>1, <2>2, <2>3, <2>4
  <1>19. ASSUME NEW y \in Told(G, n + 1), IsMeter(y[2]), s[1].rec_id <= y[2].rec_id
         PROVE  \E k \in 1 .. m + 1 : s[k] = y[2]
    <2>1. CASE y = x
      <3>1. m + 1 \in 1 .. m + 1
        BY <1>7
      <3> QED BY <1>8, <1>10, <2>1, <3>1
    <2>2. CASE y \in Told(G, n)
      <3>1. PICK k \in 1 .. m : e[k] = y[2]
        BY <1>5, <1>7, <1>10, <1>19, <2>2
      <3>2. k \in 1 .. m + 1
        BY <1>7
      <3> QED BY <1>10, <3>1, <3>2
    <2> QED BY <1>14, <2>1, <2>2
  <1>20. s[1].kind = "START" /\ s[m + 1].rec_id < n + 1
    BY <1>5, <1>8, <1>10
  <1>21. d.active.events = s /\ d.active.pos = c.active.pos /\ d.msg_id = n + 1 /\ Len(s) = m + 1
    BY <1>1, <1>2, <1>8, <1>9, <1>10
  <1>22. /\ s # <<>> /\ s[1].kind = "START" /\ Increasing(s) /\ s[Len(s)].rec_id < d.msg_id
         /\ \A k \in 1 .. Len(s) : IsMeter(s[k]) /\ (s[k].kind = "END" => ~d.open /\ k = Len(s))
         /\ d.open \/ s[Len(s)].kind = "END"
    BY <1>10, <1>12, <1>13, <1>20, <1>21
  <1>23. PICK H : H = Told(G, n + 1) /\ H = Told(G, c.msg_id + 1)
    BY <1>1
  <1>24. /\ \A y \in H : y[2].rec_id = s[1].rec_id => y[1] = d.active.pos
         /\ \A y \in H, k \in 1 .. Len(s) : y[2].rec_id = s[k].rec_id => y[2] = s[k]
         /\ \A y \in H : IsMeter(y[2]) /\ s[1].rec_id <= y[2].rec_id => \E k \in 1 .. Len(s) : s[k] = y[2]
    BY <1>17, <1>18, <1>19, <1>21, <1>23
  <1>25. Tells(H, d)
    BY <1>21, <1>22, <1>24 DEF Tells
  <1> QED BY <1>23, <1>25

\* The context takes in the record after those it tells.
LEMMA TellsOn ==
    ASSUME NEW G, InPlace(G), NEW c \in Context, NEW x \in G, x[2].rec_id = c.msg_id, Refusal(c, x[2]) = "OK",
           Tells(Told(G, c.msg_id), c), NEW d, d = Counted(UpdateState(c, x[1], x[2]))
    PROVE  Tells(Told(G, d.msg_id), d) /\ d.msg_id = c.msg_id + 1
  <1>1. x[1] \in Pos /\ x[2] \in Record /\ x[2].kind \in Kind
    BY PlacedTypes
  <1>2. Moves(d, c, x[1], x[2])
    BY <1>1, UpdateMoves
  <1>3. d.msg_id = c.msg_id + 1 /\ c.msg_id \in Nat
    BY <1>2, EventTypes DEF Moves
  <1>4. CASE x[2].kind = "START"
    <2>1. d.open /\ d.active.pos = x[1] /\ d.active.events = <<x[2]>>
      BY <1>2, <1>4 DEF Moves
    <2> QED BY <1>3, <1>4, <2>1, TellsStart
  <1>5. CASE x[2].kind # "START" /\ ~c.open
    <2>1. ~d.open /\ d.active = c.active
      BY <1>2, <1>5 DEF Moves
    <2>2. d.open = c.open
      <3>1. d \in Context
        BY <1>1, UpdateStateType, CountedType
      <3> QED BY <1>5, <2>1, <3>1, EventTypes
    <2> QED BY <1>3, <1>5, <2>1, <2>2, TellsPass
  <1>6. CASE x[2].kind \in {"TARIFF", "END"} /\ c.open
    <2>1. IsMeter(x[2]) /\ x[2].kind # "START"
      BY <1>6 DEF IsMeter, MeterKind
    <2>2. (d.open <=> x[2].kind # "END") /\ d.active.pos = c.active.pos /\ d.active.events = Append(c.active.events, x[2])
      BY <1>2, <1>6, <2>1 DEF Moves
    <2> QED BY <1>3, <1>6, <2>2, TellsGrown
  <1>7. CASE x[2].kind \in {"ID", "AUTH"} /\ c.open
    <2>1. ~IsMeter(x[2]) /\ x[2].kind # "START" /\ x[2].kind # "END"
      BY <1>7 DEF IsMeter, MeterKind
    <2>2. d.open /\ d.active.pos = c.active.pos /\ d.active.events = c.active.events
      BY <1>2, <1>7, <2>1 DEF Moves
    <2> QED BY <1>3, <1>7, <2>1, <2>2, TellsPass
  <1> QED BY <1>1, <1>4, <1>5, <1>6, <1>7 DEF Kind, MeterKind

-----------------------------------------------------------------------------
(* The steps that keep TellInv.                                             *)

\* Unless a sync fails, no two records have the same id.
LEMMA RowsInPlace ==
    ASSUME TypeOK, PagesInv, InRow, "sync" \notin Faults
    PROVE  InPlace(Placed)
  <1>1. ASSUME NEW x \in Placed PROVE x \in Pos \X Record
    <2>1. PICK p \in Filled, i \in Nat : i \in 1 .. Len(log[p]) /\ x = <<[page |-> p, offset |-> i - 1], log[p][i]>>
      BY PlacedAt
    <2>2. log[p][i] \in Record /\ p \in Page
      BY <2>1, RowId, RingTypes
    <2>3. i - 1 \in Nat
      BY <2>1
    <2> QED BY <2>1, <2>2, <2>3 DEF Pos
  <1>2. ASSUME NEW x \in Placed, NEW y \in Placed, x[2].rec_id = y[2].rec_id PROVE x = y
    <2>1. PICK p \in Filled, i \in Nat : i \in 1 .. Len(log[p]) /\ x = <<[page |-> p, offset |-> i - 1], log[p][i]>>
      BY PlacedAt
    <2>2. PICK q \in Filled, j \in Nat : j \in 1 .. Len(log[q]) /\ y = <<[page |-> q, offset |-> j - 1], log[q][j]>>
      BY PlacedAt
    <2>3. log[p][i].rec_id = log[q][j].rec_id
      BY <1>2, <2>1, <2>2
    <2>4. /\ log[p][i].rec_id = FirstId(p) + i - 1 /\ FirstId(p) <= log[p][i].rec_id /\ log[p][i].rec_id \in Nat
          /\ log[q][j].rec_id = FirstId(q) + j - 1 /\ FirstId(q) <= log[q][j].rec_id
      BY <2>1, <2>2, RowId
    <2>5. FirstId(p) \in Nat /\ FirstId(q) \in Nat
      BY RingTypes
    <2>6. p = q \/ log[p][i].rec_id < FirstId(q) \/ log[q][j].rec_id < FirstId(p)
      <3>1. p = q \/ PageBefore(p, FirstId(q)) \/ PageBefore(q, FirstId(p))
        BY DEF PagesInv
      <3> QED BY <2>1, <2>2, <3>1 DEF PageBefore, Before
    <2> HIDE DEF FirstId
    <2>7. p = q
      BY <2>3, <2>4, <2>5, <2>6
    <2>8. i = j
      <3>1. PICK f \in Nat : f = FirstId(p)
        BY <2>5
      <3>2. f + i - 1 = f + j - 1
        BY <2>3, <2>4, <2>7, <3>1
      <3> QED BY <3>2
    <2> QED BY <2>1, <2>2, <2>7, <2>8
  <1> QED BY <1>1, <1>2 DEF InPlace, Unique

LEMMA PlacedShrinks ==
    ASSUME TypeOK, NEW p \in Page, log' = [log EXCEPT ![p] = <<>>]
    PROVE  /\ Filled' = Filled \ {p}
           /\ \A q \in Filled' : log'[q] = log[q] /\ FirstId(q)' = FirstId(q) /\ Past(q)' = Past(q)
           /\ Placed' \in SUBSET Placed
  <1>1. /\ Filled' = Filled \ {p}
        /\ \A q \in Filled' : log'[q] = log[q] /\ FirstId(q)' = FirstId(q) /\ Past(q)' = Past(q)
    <2>1. log'[p] = <<>> /\ \A q \in Page \ {p} : log'[q] = log[q]
      BY DEF TypeOK
    <2> QED BY <2>1 DEF Filled, FirstId, Past
  <1>2. ASSUME NEW x \in Placed' PROVE x \in Placed
    <2>0. Placed' = PlacedOf(log')
      BY DEF Placed
    <2>1. PICK q \in Page, i \in Nat : i \in 1 .. Len(log'[q]) /\ x = <<[page |-> q, offset |-> i - 1], log'[q][i]>>
      BY ONLY <2>0, <1>2, PlacedIn
    <2>2. q \in Filled'
      BY <2>1 DEF Filled
    <2> QED BY <1>1, <2>1, <2>2, PlacedIn DEF Placed
  <1> QED BY <1>1, <1>2

\* Steps of a call that leave the records and what the context says of them alone.
LEMMA TellQuiet ==
    ASSUME TypeOK, Serial, TellInv, log' = log, mode = "ready", mode' = "ready",
           ctx'.msg_id = ctx.msg_id, ctx'.open = ctx.open, ctx'.active = ctx.active,
           ~Landing, NEW w \in Writers, pc'[w] # "update",
           pc'[w] = "write" => job'[w].size = Len(log[ctx.msg_page]) /\ ctx'.msg_page = ctx.msg_page
    PROVE  TellInv'
  <1>1. Filled' = Filled /\ Placed' = Placed /\ \A p : FirstId(p)' = FirstId(p) /\ Past(p)' = Past(p)
    BY LogStays
  <1>2. InRow'
    BY <1>1 DEF TellInv, InRow
  <1>3. \A v \in Writers : v = w
    BY DEF Serial
  <1>4. ~Landing' /\ Growing' = Growing
    BY <1>1, <1>3 DEF Landing, Growing
  <1>5. NextInRow'
    BY <1>1, <1>4 DEF TellInv, NextInRow
  <1>6. LandInv'
    BY <1>3 DEF LandInv
  <1>7. Tells(Told(Placed, ctx.msg_id), ctx)'
    <2>1. Tells(Told(Placed, ctx.msg_id), ctx)
      BY DEF TellInv
    <2>2. Tells(Told(Placed, ctx.msg_id), ctx')
      BY <2>1, TellsSame
    <2> QED BY <1>1, <2>2
  <1> QED BY <1>2, <1>5, <1>6, <1>7 DEF TellInv, BackInv

LEMMA TellAddEvent ==
    ASSUME TypeOK, Serial, TellInv, NEW w \in Writers, NEW kind \in Events, AddEvent(w, kind)
    PROVE  TellInv'
  <1>1. UNCHANGED <<log, ctx, mode>> /\ mode = "ready" /\ pc[w] = "idle" /\ pc'[w] = "open"
    BY DEF AddEvent, Serving, Goto, TypeOK
  <1>2. ~Landing
    BY <1>1 DEF Landing, Serial
  <1> QED BY <1>1, <1>2, TellQuiet

LEMMA TellCalls ==
    ASSUME TypeOK, Serial, IdInv, TellInv, "sync" \notin Faults, NEW w \in Writers,
           OpenPage(w) \/ OpenFails(w) \/ PageFull(w) \/ WriteFails(w) \/ PurgeRefused(w)
    PROVE  TellInv'
  <1>1. pc[w] \in {"open", "write", "purge"} /\ log' = log /\ mode' = mode
    BY DEF OpenPage, OpenFails, PageFull, WriteFails, PurgeRefused
  <1>2. mode = "ready" /\ ~Landing
    BY <1>1, IdsCalling
  <1>3. CASE OpenPage(w)
    <2>1. ctx' = ctx /\ pc'[w] = "write" /\ job'[w].size = Len(log[ctx.msg_page])
      BY <1>3 DEF OpenPage, Goto, TypeOK, Job
    <2> QED BY <1>1, <1>2, <2>1, TellQuiet
  <1>4. CASE OpenFails(w) \/ WriteFails(w) \/ PurgeRefused(w)
    <2>1. ctx' = ctx /\ pc'[w] = "idle"
      BY <1>4 DEF OpenFails, WriteFails, PurgeRefused, Return, Goto, TypeOK
    <2> QED BY <1>1, <1>2, <2>1, TellQuiet
  <1>5. CASE PageFull(w)
    <2>1. pc'[w] \in {"open", "purge", "idle"}
      BY <1>5 DEF PageFull, Return, Goto, TypeOK
    <2>2. ctx' = [ctx EXCEPT !.msg_page = NextPage(@)] \/ ctx' = ctx
      BY <1>5 DEF PageFull
    <2>3. ctx'.msg_id = ctx.msg_id /\ ctx'.open = ctx.open /\ ctx'.active = ctx.active
      BY <2>2 DEF TypeOK, Context
    <2> QED BY <1>1, <1>2, <2>1, <2>3, TellQuiet
  <1> QED BY <1>3, <1>4, <1>5

\* The record that lands is the next of its page, and not told yet.
LEMMA TellWrite ==
    ASSUME TypeOK, Serial, IdInv, TellInv, "sync" \notin Faults, NEW w \in Writers, WriteRecord(w)
    PROVE  TellInv'
  <1>1. /\ pc[w] = "write" /\ log' = [log EXCEPT ![job[w].page] = Append(@, Landed(w))]
        /\ UNCHANGED <<files, ctx, mode, walk, now, job>> /\ pc'[w] = "update"
    BY DEF WriteRecord, Goto, TypeOK
  <1>2. mode = "ready" /\ ~Landing /\ \A v \in Writers : v = w
    BY <1>1, IdsCalling
  <1>3. PICK p \in Page : p = ctx.msg_page
    BY ContextTypes
  <1>4. PICK n \in Nat : n = ctx.msg_id
    BY ContextTypes
  <1>5. /\ job[w].page = p /\ job[w].rec_id = n /\ job[w].size = Len(log[p]) /\ Len(log[p]) < PageCap
        /\ \A q \in Growing : q = p
    BY <1>1, <1>2, <1>3, <1>4 DEF IdInv, JobInv, ReadyInv, TellInv, LandInv
  <1>6. PICK r \in Record : r = Landed(w) /\ r.rec_id = n
    BY <1>5, LandedType DEF Landed
  <1>7. log' = [log EXCEPT ![p] = Append(@, r)]
    BY <1>1, <1>5, <1>6
  <1>8. PICK m \in Nat : m = Len(log[p])
    BY PageTypes
  <1>9. /\ \A q \in Page \ {p} : log'[q] = log[q]
        /\ Len(log'[p]) = m + 1 /\ log'[p][m + 1] = r /\ \A i \in 1 .. m : log'[p][i] = log[p][i]
    BY <1>7, <1>8, PageGrows
  <1>10. PICK y : y = <<[page |-> p, offset |-> m], r>>
    OBVIOUS
  <1>11. Placed' = Placed \cup {y} /\ y[2].rec_id = n
    BY <1>6, <1>7, <1>8, <1>10, PlacedGrows
  <1>12. Told(Placed, n)' = Told(Placed, n)
    BY <1>11 DEF Told
  <1>13. Tells(Told(Placed, ctx.msg_id), ctx)'
    <2>1. Tells(Told(Placed, n), ctx)
      BY <1>2, <1>4 DEF TellInv
    <2>2. ctx' = ctx /\ ctx'.msg_id = n
      BY <1>1, <1>4
    <2>3. Tells(Told(Placed, n)', ctx')
      BY <1>12, <2>1, <2>2
    <2> QED BY <1>4, <2>2, <2>3
  <1>14. LandInv'
    <2>1. Landed(w)' = r
      BY <1>1, <1>6 DEF Landed
    <2>2. job'[w].page = p /\ job'[w].size = m
      BY <1>1, <1>5, <1>8
    <2> QED BY <1>1, <1>2, <1>10, <1>11, <2>1, <2>2 DEF LandInv
  <1>15. FirstId(p)' + m = n /\ FirstId(p)' \in Nat /\ (m > 0 => p \in Filled /\ FirstId(p)' = FirstId(p))
    <2>1. CASE m = 0
      <3>1. FirstId(p)' = r.rec_id
        BY <1>9, <2>1 DEF FirstId
      <3> QED BY <1>6, <2>1, <3>1
    <2>2. CASE m > 0
      <3>1. p \in Filled
        BY <1>8, <2>2 DEF Filled
      <3>2. p \in Growing
        BY <1>5, <3>1 DEF Growing
      <3>3. Past(p) = n
        BY <1>2, <1>4, <3>2, ContextTypes DEF TellInv, NextInRow
      <3>4. FirstId(p)' = FirstId(p)
        BY <1>8, <1>9, <2>2 DEF FirstId
      <3>5. FirstId(p) \in Nat
        BY <3>1, RingTypes
      <3> QED BY <1>8, <3>1, <3>3, <3>4, <3>5 DEF Past
    <2> QED BY <2>1, <2>2
  <1>16. InRow'
    <2> SUFFICES ASSUME NEW q \in Filled', NEW i \in 1 .. Len(log'[q])
                 PROVE  log'[q][i].rec_id = FirstId(q)' + i - 1
      BY DEF InRow
    <2>1. q \in Page
      BY DEF Filled
    <2>2. CASE q # p
      <3>1. log'[q] = log[q] /\ q \in Filled
        BY <1>9, <2>1, <2>2 DEF Filled
      <3>2. log[q][i].rec_id = FirstId(q) + i - 1
        BY <3>1 DEF TellInv, InRow
      <3> QED BY <3>1, <3>2 DEF FirstId
    <2>3. CASE q = p /\ i \in 1 .. m
      <3>1. p \in Filled /\ FirstId(p)' = FirstId(p)
        BY <1>15, <2>3
      <3>2. log[p][i].rec_id = FirstId(p) + i - 1
        BY <1>8, <2>3, <3>1 DEF TellInv, InRow
      <3> QED BY <1>9, <2>3, <3>1, <3>2
    <2>4. CASE q = p /\ i = m + 1
      <3> HIDE DEF FirstId
      <3> QED BY <1>6, <1>9, <1>15, <2>4
    <2>5. q = p => i \in 1 .. m \/ i = m + 1
      BY <1>9
    <2> QED BY <2>2, <2>3, <2>4, <2>5
  <1>17. NextInRow'
    <2> SUFFICES ASSUME NEW q \in Growing' PROVE Past(q)' = ctx'.msg_id + (IF Landing' THEN 1 ELSE 0)
      BY DEF NextInRow
    <2>1. q = p
      <3> SUFFICES ASSUME q # p PROVE FALSE
        OBVIOUS
      <3>1. q \in Page /\ log'[q] = log[q]
        BY <1>9 DEF Growing, Filled
      <3>2. q \in Growing
        BY <3>1 DEF Growing, Filled
      <3> QED BY <1>5, <3>2
    <2>2. Landing' /\ ctx'.msg_id = n
      BY <1>1, <1>4 DEF Landing
    <2>3. Past(p)' = FirstId(p)' + m + 1
      BY <1>9, <1>15 DEF Past
    <2> HIDE DEF FirstId
    <2> QED BY <1>15, <2>1, <2>2, <2>3
  <1> QED BY <1>1, <1>2, <1>13, <1>14, <1>16, <1>17 DEF TellInv, BackInv

\* The record that has landed is told when the context takes it in.
LEMMA TellUpdate ==
    ASSUME TypeOK, Serial, IdInv, TellInv, "sync" \notin Faults, NEW w \in Writers, UpdateContext(w)
    PROVE  TellInv'
  <1>1. pc[w] = "update" /\ log' = log /\ mode' = mode /\ pc'[w] = "idle"
    BY DEF UpdateContext, Return, Goto, TypeOK
  <1>2. mode = "ready" /\ Landing /\ \A v \in Writers : v = w
    BY <1>1, IdsCalling
  <1>3. PICK x : x = <<[page |-> job[w].page, offset |-> job[w].size], Landed(w)>>
    OBVIOUS
  <1>4. x \in Placed /\ x[2].rec_id = ctx.msg_id
    BY <1>1, <1>3 DEF TellInv, LandInv, IdInv, JobInv, Landed
  <1>5. Refusal(ctx, x[2]) = "OK"
    <2>1. Refusal(ctx, job[w]) = "OK"
      BY <1>1 DEF IdInv, JobInv
    <2>2. x[2].kind = job[w].kind
      BY <1>3 DEF Landed
    <2> QED BY <2>1, <2>2, RefusalOfKind
  <1>6. ctx' = Counted(UpdateState(ctx, x[1], x[2]))
    BY <1>3, <1>5 DEF UpdateContext
  <1>7. InPlace(Placed) /\ ctx \in Context /\ Tells(Told(Placed, ctx.msg_id), ctx)
    BY <1>2, RowsInPlace DEF TellInv, IdInv, TypeOK
  <1>8. Tells(Told(Placed, ctx'.msg_id), ctx') /\ ctx'.msg_id = ctx.msg_id + 1
    BY <1>4, <1>5, <1>6, <1>7, TellsOn
  <1>9. Filled' = Filled /\ Placed' = Placed /\ \A p : FirstId(p)' = FirstId(p) /\ Past(p)' = Past(p)
    BY <1>1, LogStays
  <1>10. InRow' /\ LandInv'
    BY <1>1, <1>2, <1>9 DEF TellInv, InRow, LandInv
  <1>11. NextInRow'
    <2>1. ~Landing' /\ Growing' = Growing
      BY <1>1, <1>2, <1>9 DEF Landing, Growing
    <2>2. \A p \in Growing : Past(p) = ctx.msg_id + 1
      BY <1>2 DEF TellInv, NextInRow
    <2> QED BY <1>8, <1>9, <2>1, <2>2, ContextTypes DEF NextInRow
  <1> QED BY <1>1, <1>2, <1>8, <1>9, <1>10, <1>11 DEF TellInv, BackInv

LEMMA TellPurge ==
    ASSUME TypeOK, Serial, IdInv, TellInv, NEW w \in Writers, Purge(w)
    PROVE  TellInv'
  <1>1. /\ pc[w] = "purge" /\ log' = [log EXCEPT ![ctx.msg_page] = <<>>] /\ ctx' = ctx /\ mode' = mode
        /\ pc'[w] = "open"
    BY DEF Purge, Goto, TypeOK
  <1>2. mode = "ready" /\ ~Landing /\ \A v \in Writers : v = w
    BY <1>1, IdsCalling
  <1>3. /\ Filled' = Filled \ {ctx.msg_page}
        /\ \A q \in Filled' : log'[q] = log[q] /\ FirstId(q)' = FirstId(q) /\ Past(q)' = Past(q)
        /\ Placed' \in SUBSET Placed
    BY <1>1, ContextTypes, PlacedShrinks
  <1>4. InRow'
    BY <1>3 DEF TellInv, InRow
  <1>5. NextInRow'
    <2>1. ~Landing' /\ \A q \in Growing' : q \in Growing /\ q \in Filled'
      BY <1>1, <1>2, <1>3 DEF Landing, Growing
    <2> QED BY <1>1, <1>2, <1>3, <2>1 DEF TellInv, NextInRow
  <1>6. LandInv'
    BY <1>1, <1>2 DEF LandInv
  <1>7. Tells(Told(Placed, ctx.msg_id), ctx)'
    <2>1. Told(Placed', ctx.msg_id) \subseteq Told(Placed, ctx.msg_id)
      BY <1>3 DEF Told
    <2>2. Tells(Told(Placed, ctx.msg_id), ctx)
      BY <1>2 DEF TellInv
    <2>3. Tells(Told(Placed', ctx.msg_id), ctx)
      BY <2>1, <2>2, TellsFewer
    <2> QED BY <1>1, <2>3
  <1> QED BY <1>1, <1>2, <1>4, <1>5, <1>6, <1>7 DEF TellInv, BackInv

LEMMA TellCrash == ASSUME TellInv, Crash PROVE TellInv'
  <1>1. log' = log /\ mode' = "scan" /\ \A w \in Writers : pc'[w] = "idle"
    BY DEF Crash
  <1>2. Filled' = Filled /\ \A p : FirstId(p)' = FirstId(p)
    BY <1>1, LogStays
  <1> QED BY <1>1, <1>2 DEF TellInv, InRow, NextInRow, LandInv, BackInv

LEMMA TellStays ==
    ASSUME TellInv, UNCHANGED <<log, ctx, mode, walk, pc, job>>
    PROVE  TellInv'
  <1>1. Filled' = Filled /\ Placed' = Placed /\ \A p : FirstId(p)' = FirstId(p) /\ Past(p)' = Past(p)
    BY LogStays
  <1>2. Growing' = Growing /\ (Landing' <=> Landing)
    BY <1>1 DEF Growing, Landing
  <1>3. InRow' /\ NextInRow'
    BY <1>1, <1>2 DEF TellInv, InRow, NextInRow
  <1>4. LandInv'
    BY <1>1 DEF TellInv, LandInv, Landed
  <1>5. BackInv'
    BY <1>1 DEF TellInv, BackInv, FromMin
  <1>6. mode' \in {"replay", "ready"} => Tells(Told(Placed, ctx.msg_id), ctx)'
    BY <1>1 DEF TellInv
  <1> QED BY <1>3, <1>4, <1>5, <1>6 DEF TellInv

\* The replay comes to its last page before it is back at its first one.
LEMMA NextFromMin ==
    ASSUME NEW p \in Page, walk.min \in Page, walk.max \in Page, p # walk.max, FromMin(p) <= FromMin(walk.max)
    PROVE  FromMin(NextPage(p)) <= FromMin(walk.max) /\ NextPage(p) # walk.min
  <1>1. PICK m \in Nat : m = MaxPages /\ m > 0
    BY MidLtsAssumption
  <1>2. PICK a \in 0 .. m - 1 : a = walk.min
    BY <1>1 DEF Page
  <1>3. PICK b \in 0 .. m - 1 : b = walk.max
    BY <1>1 DEF Page
  <1>4. p \in 0 .. m - 1
    BY <1>1 DEF Page
  <1>5. NextPage(p) = IF p + 1 = m THEN 0 ELSE p + 1
    BY <1>1, <1>4 DEF NextPage
  <1>6. \A q : FromMin(q) = IF a <= q THEN q - a ELSE q + m - a
    BY <1>1, <1>2 DEF FromMin
  <1> QED BY <1>1, <1>2, <1>3, <1>4, <1>5, <1>6

LEMMA WalkTypes == ASSUME TypeOK PROVE walk.page \in Page /\ walk.min \in Page /\ walk.max \in Page /\ walk.i \in Nat
  BY DEF TypeOK, Walk

LEMMA TellScan == ASSUME TypeOK, IdInv, TellInv, Scan PROVE TellInv'
  <1>1. log' = log /\ ctx' = ctx /\ pc' = pc /\ job' = job /\ mode = "scan"
    BY DEF Scan
  <1>2. Filled' = Filled /\ Placed' = Placed /\ \A p : FirstId(p)' = FirstId(p) /\ Past(p)' = Past(p)
    BY <1>1, LogStays
  <1>3. ctx = ZeroCtx /\ \A w \in Writers : pc[w] = "idle"
    BY <1>1, IdsIdle DEF IdInv
  <1>4. InRow' /\ LandInv'
    BY <1>1, <1>2, <1>3 DEF TellInv, InRow, LandInv
  <1>5. Tells(Told(Placed, ctx.msg_id), ctx)'
    BY <1>1, <1>3, TellsNothing DEF ZeroCtx, NoActive
  <1>6. CASE \E p \in files : log[p] = <<>>
    <2>1. mode' = "failed"
      BY <1>6 DEF Scan, BootFails
    <2> QED BY <1>4, <2>1 DEF TellInv, NextInRow, BackInv
  <1>7. CASE files = {}
    <2>1. mode' = "ready"
      BY <1>7 DEF Scan
    <2>2. Filled = {}
      BY <1>7 DEF IdInv, PagesInv
    <2> QED BY <1>2, <1>4, <1>5, <2>1, <2>2 DEF TellInv, NextInRow, BackInv, Growing
  <1>8. CASE files # {} /\ \A p \in files : log[p] # <<>>
    <2>1. mode' = "replay" /\ walk' = [ZeroWalk EXCEPT !.page = MinPage, !.min = MinPage, !.max = MaxPage]
      BY <1>8 DEF Scan
    <2>2. walk'.page = walk'.min /\ walk'.i = 1 /\ walk'.page = MinPage /\ walk'.max = MaxPage
      <3> HIDE DEF MinPage, MaxPage
      <3> QED BY <2>1 DEF ZeroWalk
    <2>3. MinPage \in 0 .. MaxPages - 1 /\ MaxPage \in 0 .. MaxPages - 1
      BY <1>8, ScanPages DEF TypeOK, Page
    <2>4. FromMin(walk.page)' <= FromMin(walk.max)'
      <3>1. PICK m \in Nat : m = MaxPages /\ m > 0
        BY MidLtsAssumption
      <3>2. PICK a \in 0 .. m - 1 : a = walk'.min
        BY <2>2, <2>3, <3>1
      <3>3. PICK b \in 0 .. m - 1 : b = walk'.max
        BY <2>2, <2>3, <3>1
      <3>4. walk'.page = a /\ walk'.max = b /\ walk'.min = a
        BY <2>2, <3>2, <3>3
      <3>5. FromMin(walk.page)' = IF a <= a THEN a - a ELSE a + m - a
        BY <3>1, <3>4 DEF FromMin
      <3>6. FromMin(walk.max)' = IF a <= b THEN b - a ELSE b + m - a
        BY <3>1, <3>4 DEF FromMin
      <3> QED BY <3>1, <3>2, <3>3, <3>5, <3>6
    <2>5. walk'.i <= Len(log'[walk'.page]) + 1
      <3>1. MinPage \in Page
        BY <2>3 DEF Page
      <3> HIDE DEF MinPage
      <3> QED BY <1>1, <2>2, <3>1, PageTypes
    <2>6. BackInv'
      BY <1>1, <1>3, <2>2, <2>4, <2>5 DEF BackInv
    <2> QED BY <1>4, <1>5, <2>1, <2>6 DEF TellInv, NextInRow
  <1> QED BY <1>6, <1>7, <1>8

LEMMA TellReplayRecord ==
    ASSUME TypeOK, IdInv, TellInv, "sync" \notin Faults, ReplayRecord
    PROVE  TellInv'
  <1>1. log' = log /\ pc' = pc /\ job' = job /\ mode = "replay" /\ walk.i \in 1 .. Len(log[walk.page])
    BY DEF ReplayRecord
  <1>2. Filled' = Filled /\ Placed' = Placed /\ \A p : FirstId(p)' = FirstId(p) /\ Past(p)' = Past(p)
    BY <1>1, LogStays
  <1>3. InRow' /\ LandInv'
    <2>1. \A w \in Writers : pc[w] = "idle"
      BY <1>1, IdsIdle DEF IdInv
    <2> QED BY <1>1, <1>2, <2>1 DEF TellInv, InRow, LandInv
  <1>4. PICK r : r = log[walk.page][walk.i]
    OBVIOUS
  <1>5. PICK c : c = IF walk.page = walk.min /\ walk.i = 1 THEN [ctx EXCEPT !.msg_id = r.rec_id] ELSE ctx
    OBVIOUS
  <1>6. walk.page \in Filled /\ walk.page \in Page /\ walk.i \in Nat
    BY <1>1, WalkTypes DEF Filled
  <1>7. r \in Record /\ r.rec_id = FirstId(walk.page) + walk.i - 1 /\ r.rec_id \in Nat /\ FirstId(walk.page) \in Nat
    BY <1>1, <1>4, <1>6, RowId, RingTypes DEF TellInv
  <1>8. c \in Context /\ c.open = ctx.open /\ c.active = ctx.active /\ (c = ctx \/ (walk.page = walk.min /\ walk.i = 1))
    BY <1>5, <1>7 DEF TypeOK, Context
  <1>9. CASE mode' = "failed"
    BY <1>3, <1>9 DEF TellInv, NextInRow, BackInv
  <1>10. CASE mode' # "failed"
    <2>1. /\ r.rec_id = c.msg_id /\ mode' = mode
          /\ ctx' = UpdateState(Counted(c), ReplayPos, r)
          /\ \E err, allow : walk' = [walk EXCEPT !.i = @ + 1, !.ret = err, !.allow = allow]
          /\ Refusal(c, r) \in {"OK", "SESSION_NOT_OPEN"}
      BY <1>4, <1>5, <1>10 DEF ReplayRecord, BootFails
    <2>2. walk'.page = walk.page /\ walk'.min = walk.min /\ walk'.max = walk.max /\ walk'.i = walk.i + 1
      <3>1. walk \in Walk
        BY DEF TypeOK
      <3> QED BY <2>1, <3>1 DEF Walk
    <2>3. PICK x : x = <<ReplayPos, r>>
      OBVIOUS
    <2>4. x \in Placed /\ x[1] = ReplayPos /\ x[2] = r /\ InPlace(Placed)
      <3>1. InPlace(Placed)
        BY RowsInPlace DEF TellInv, IdInv
      <3>2. ReplayPos = [page |-> walk.page, offset |-> walk.i - 1]
        BY DEF ReplayPos
      <3>3. x \in Placed
        BY <1>1, <1>4, <1>6, <2>3, <3>2, PlacedAt
      <3> QED BY <2>3, <3>1, <3>3
    <2>5. Tells(Told(Placed, c.msg_id), c)
      <3>1. CASE c = ctx
        BY <1>1, <3>1 DEF TellInv
      <3>2. CASE walk.page = walk.min /\ walk.i = 1
        <4>1. ctx = ZeroCtx
          BY <1>1, <3>2 DEF TellInv, BackInv
        <4>2. ~c.open /\ c.active.events = <<>>
          BY <1>8, <4>1 DEF ZeroCtx, NoActive
        <4> QED BY <4>2, TellsNothing
      <3> QED BY <1>8, <3>1, <3>2
    <2>6. ctx' = IF Refusal(c, r) = "OK" THEN Counted(UpdateState(c, ReplayPos, r)) ELSE Counted(c)
      <3>1. ReplayPos \in Pos
        BY <2>4, PlacedTypes
      <3> QED BY <1>7, <1>8, <2>1, <3>1, CountedFirst
    <2>7. Tells(Told(Placed, ctx'.msg_id), ctx') /\ ctx'.msg_id = r.rec_id + 1
      <3>1. CASE Refusal(c, r) = "OK"
        BY <1>8, <2>1, <2>4, <2>5, <2>6, <3>1, TellsOn
      <3>2. CASE Refusal(c, r) # "OK"
        <4>1. ~c.open /\ ctx' = Counted(c)
          BY <2>1, <2>6, <3>2 DEF Refusal
        <4>2. ctx'.msg_id = c.msg_id + 1 /\ ctx'.open = c.open /\ ctx'.active = c.active
          BY <1>8, <4>1 DEF Counted, Context
        <4>3. Tells(Told(Placed, c.msg_id + 1), ctx')
          BY <1>8, <2>1, <2>4, <2>5, <4>1, <4>2, TellsPass
        <4> QED BY <2>1, <4>2, <4>3
      <3> QED BY <3>1, <3>2
    <2>8. BackInv'
      <3>1. FromMin(walk.page)' <= FromMin(walk.max)'
        BY <1>1, <2>2 DEF TellInv, BackInv, FromMin
      <3>2. walk'.i <= Len(log'[walk'.page]) + 1 /\ walk'.i # 1
        BY <1>1, <1>6, <2>2, PageTypes
      <3>3. ctx'.msg_id = FirstId(walk.page)' + walk'.i - 1
        <4>1. FirstId(walk.page)' = FirstId(walk.page)
          BY <1>1, <2>2 DEF FirstId
        <4> HIDE DEF FirstId
        <4> QED BY <1>6, <1>7, <2>2, <2>7, <4>1
      <3> QED BY <3>1, <3>2, <3>3 DEF BackInv
    <2> QED BY <1>1, <1>2, <1>3, <2>1, <2>7, <2>8 DEF TellInv, NextInRow
  <1> QED BY <1>9, <1>10

LEMMA TellReplayPageEnd ==
    ASSUME TypeOK, IdInv, TellInv, ReplayPageEnd
    PROVE  TellInv'
  <1>1. log' = log /\ pc' = pc /\ job' = job /\ mode = "replay" /\ walk.i > Len(log[walk.page])
    BY DEF ReplayPageEnd
  <1>2. Filled' = Filled /\ Placed' = Placed /\ \A p : FirstId(p)' = FirstId(p) /\ Past(p)' = Past(p)
    BY <1>1, LogStays
  <1>3. InRow' /\ LandInv' /\ \A w \in Writers : pc'[w] = "idle"
    <2>1. \A w \in Writers : pc[w] = "idle"
      BY <1>1, IdsIdle DEF IdInv
    <2> QED BY <1>1, <1>2, <2>1 DEF TellInv, InRow, LandInv
  <1>4. Tells(Told(Placed, ctx.msg_id), ctx)
    BY <1>1 DEF TellInv
  <1>5. CASE mode' = "failed"
    BY <1>3, <1>5 DEF TellInv, NextInRow, BackInv
  <1>6. CASE mode' # "failed" /\ AtLastPage
    <2>1. mode' = "ready" /\ ctx' = [ctx EXCEPT !.msg_page = walk.max] /\ walk.page = walk.max
      BY <1>6 DEF ReplayPageEnd, BootFails, AtLastPage
    <2>2. ctx'.msg_id = ctx.msg_id /\ ctx'.open = ctx.open /\ ctx'.active = ctx.active
      BY <2>1 DEF TypeOK, Context
    <2>3. Tells(Told(Placed, ctx.msg_id), ctx)'
      <3>1. Tells(Told(Placed, ctx.msg_id), ctx')
        BY <1>4, <2>2, TellsSame
      <3> QED BY <1>2, <2>2, <3>1
    <2>4. NextInRow'
      <3>1. \A p \in Growing : p = walk.max
        BY <1>1, <2>1, ReplayedIsLast DEF IdInv
      <3>2. Growing' = Growing /\ ~Landing'
        BY <1>1, <1>2, <1>3 DEF Growing, Landing
      <3>3. walk.page \in Filled /\ walk.i \in Nat
        BY <1>1, WalkTypes DEF IdInv, BootInv
      <3>4. PICK n \in Nat \ {0} : n = Len(log[walk.page])
        BY <3>3, RingTypes
      <3>5. walk.i = n + 1
        BY <1>1, <3>3, <3>4 DEF TellInv, BackInv
      <3>6. ctx.msg_id = FirstId(walk.page) + walk.i - 1
        BY <1>1, <3>4, <3>5 DEF TellInv, BackInv
      <3>7. Past(walk.page) = ctx.msg_id
        <4>1. FirstId(walk.page) \in Nat /\ Past(walk.page) = FirstId(walk.page) + n
          BY <3>3, <3>4, RingTypes
        <4> HIDE DEF FirstId, Past
        <4> QED BY <3>4, <3>5, <3>6, <4>1
      <3> QED BY <1>2, <2>1, <2>2, <3>1, <3>2, <3>7, ContextTypes DEF NextInRow
    <2> QED BY <1>3, <2>1, <2>3, <2>4 DEF TellInv, BackInv
  <1>7. CASE mode' # "failed" /\ ~AtLastPage
    <2>1. mode' = mode /\ ctx' = ctx /\ walk' = [walk EXCEPT !.page = NextPage(walk.page), !.i = 1] /\ walk.page # walk.max
      BY <1>7 DEF ReplayPageEnd, BootFails, AtLastPage
    <2>2. walk'.page = NextPage(walk.page) /\ walk'.min = walk.min /\ walk'.max = walk.max /\ walk'.i = 1
      BY <2>1 DEF TypeOK, Walk
    <2>3. FromMin(NextPage(walk.page)) <= FromMin(walk.max) /\ NextPage(walk.page) # walk.min
      BY <1>1, <2>1, WalkTypes, NextFromMin DEF TellInv, BackInv
    <2>4. FromMin(walk.page)' <= FromMin(walk.max)'
      BY <2>2, <2>3 DEF FromMin
    <2>5. walk'.i <= Len(log'[walk'.page]) + 1
      <3>1. PICK p \in Page : p = NextPage(walk.page)
        BY WalkTypes, NextPageType
      <3>2. Len(log[p]) \in Nat
        BY PageTypes
      <3> QED BY <1>1, <2>2, <3>1, <3>2
    <2>6. BackInv'
      BY <2>2, <2>3, <2>4, <2>5 DEF BackInv
    <2> QED BY <1>1, <1>2, <1>3, <1>4, <2>1, <2>6 DEF TellInv, NextInRow
  <1> QED BY <1>5, <1>6, <1>7

LEMMA TellStart == Init => TellInv
  <1> SUFFICES ASSUME Init PROVE TellInv
    OBVIOUS
  <1>1. mode = "scan" /\ Filled = {} /\ \A w \in Writers : pc[w] = "idle"
    BY DEF Init, Filled
  <1> QED BY <1>1 DEF TellInv, InRow, NextInRow, LandInv, BackInv

LEMMA TellNext == TypeOK /\ Serial /\ IdInv /\ TellInv /\ "sync" \notin Faults /\ [Next]_vars => TellInv'
  <1> SUFFICES ASSUME TypeOK, Serial, IdInv, TellInv, "sync" \notin Faults, [Next]_vars PROVE TellInv'
    OBVIOUS
  <1>1. CASE Boot
    BY <1>1, TellScan, TellReplayRecord, TellReplayPageEnd DEF Boot
  <1>2. CASE Crash
    BY <1>2, TellCrash
  <1>3. CASE Tick \/ UNCHANGED vars
    <2>1. UNCHANGED <<log, ctx, mode, walk, pc, job>>
      BY <1>3 DEF Tick, vars
    <2> QED BY <2>1, TellStays
  <1>4. ASSUME NEW w \in Writers, NEW kind \in Events, AddEvent(w, kind) PROVE TellInv'
    BY <1>4, TellAddEvent
  <1>5. ASSUME NEW w \in Writers, Call(w) PROVE TellInv'
    BY <1>5, TellCalls, TellWrite, TellUpdate, TellPurge DEF Call
  <1> QED BY <1>1, <1>2, <1>3, <1>4, <1>5 DEF Next

-----------------------------------------------------------------------------
(* Reading a session back: mid_session_read_session.                       *)

\* Counting up from 0 reaches every number: what a definition by recursion needs.
LEMMA CountUp ==
    ASSUME NEW n \in Nat, NEW S, 0 \in S, \A k \in 0 .. n - 1 : k \in S => k + 1 \in S
    PROVE  \A k \in 0 .. n : k \in S
  <1> DEFINE T == {k \in 1 .. n + 1 : \A j \in 0 .. k - 1 : j \in S}
  <1>1. 1 \in T
    <2>1. \A j \in 0 .. 1 - 1 : j = 0
      OBVIOUS
    <2> QED BY <2>1
  <1>2. PICK m \in T : \A k \in T : k <= m
    <2>1. T \in SUBSET (1 .. n + 1)
      BY Zenon
    <2>2. n + 1 \in Nat
      OBVIOUS
    <2> HIDE DEF T
    <2> QED BY <1>1, <2>1, <2>2, LastIndex
  <1>3. m \in 1 .. n + 1 /\ \A j \in 0 .. m - 1 : j \in S
    OBVIOUS
  <1>4. m = n + 1
    <2> SUFFICES ASSUME m \in 1 .. n PROVE FALSE
      BY <1>3
    <2>1. m - 1 \in 0 .. n - 1 /\ m - 1 \in S /\ m - 1 + 1 = m
      BY <1>3
    <2>2. m \in S
      <3>1. (m - 1) + 1 \in S
        BY <2>1
      <3> QED BY <2>1, <3>1
    <2>3. \A j \in 0 .. (m + 1) - 1 : j \in S
      BY <1>3, <2>2
    <2>4. m + 1 \in T
      BY <2>3
    <2> HIDE DEF T
    <2> QED BY <1>2, <2>4
  <1>5. \A k \in 0 .. n : k \in 0 .. m - 1
    BY <1>4
  <1> QED BY <1>3, <1>5

\* The function that Readings is read from, up to the record `last`.
ReadsOf(q, from, last, f) ==
    f = [i \in 0 .. last |-> IF i < from THEN <<>>
                             ELSE IF IsMeter(q[i]) THEN Append(f[i - 1], q[i])
                             ELSE f[i - 1]]

LEMMA ReadsExist ==
    ASSUME NEW q, NEW from \in Nat \ {0}, NEW last \in Nat
    PROVE  \E f : ReadsOf(q, from, last, f)
  <1> DEFINE S == {k \in 0 .. last : \E f : ReadsOf(q, from, k, f)}
  <1>1. 0 \in S
    <2>1. PICK f : f = [i \in 0 .. 0 |-> <<>>]
      OBVIOUS
    <2>2. ReadsOf(q, from, 0, f)
      BY <2>1 DEF ReadsOf
    <2> QED BY <2>2
  <1>2. ASSUME NEW k \in 0 .. last - 1, k \in S PROVE k + 1 \in S
    <2>1. PICK f : ReadsOf(q, from, k, f)
      BY <1>2
    <2> DEFINE next == IF k + 1 < from THEN <<>> ELSE IF IsMeter(q[k + 1]) THEN Append(f[k], q[k + 1]) ELSE f[k]
               g == [i \in 0 .. k + 1 |-> IF i = k + 1 THEN next ELSE f[i]]
    <2>2. ASSUME NEW i \in 0 .. k + 1
          PROVE  g[i] = IF i < from THEN <<>> ELSE IF IsMeter(q[i]) THEN Append(g[i - 1], q[i]) ELSE g[i - 1]
      <3>1. CASE i = k + 1
        <4>1. g[i] = next /\ g[i - 1] = f[k]
          BY <3>1
        <4> QED BY <3>1, <4>1
      <3>2. CASE i \in 0 .. k
        <4>1. g[i] = f[i] /\ (i > 0 => g[i - 1] = f[i - 1])
          BY <3>2
        <4>2. f[i] = IF i < from THEN <<>> ELSE IF IsMeter(q[i]) THEN Append(f[i - 1], q[i]) ELSE f[i - 1]
          BY <2>1, <3>2 DEF ReadsOf
        <4>3. i = 0 => i < from
          BY <3>2
        <4> HIDE DEF g
        <4> QED BY <3>2, <4>1, <4>2, <4>3
      <3> QED BY <3>1, <3>2
    <2>3. ReadsOf(q, from, k + 1, g)
      BY <2>2, Zenon DEF ReadsOf
    <2> QED BY <2>3
  <1>3. last \in S
    <2>1. \A k \in 0 .. last : k \in S
      <3> HIDE DEF S
      <3> QED BY <1>1, <1>2, CountUp
    <2> QED BY <2>1
  <1> QED BY <1>3

\* What has been read up to the record i.
ReadTo(q, from, i, s) ==
    /\ s \in Seq(Record) /\ Increasing(s)
    /\ s # <<>> => s[Len(s)].rec_id <= q[i].rec_id /\ from <= i
    /\ \A k \in 1 .. Len(s) : \E j \in from .. i : IsMeter(q[j]) /\ s[k] = q[j]
    /\ \A j \in from .. i : IsMeter(q[j]) => \E k \in 1 .. Len(s) : s[k] = q[j]

LEMMA ReadOneMore ==
    ASSUME NEW q \in Seq(Record), Increasing(q), NEW from \in Nat \ {0}, NEW i \in 1 .. Len(q), from <= i,
           NEW s, ReadTo(q, from, i - 1, s)
    PROVE  ReadTo(q, from, i, IF IsMeter(q[i]) THEN Append(s, q[i]) ELSE s)
  <1>1. q[i] \in Record /\ s \in Seq(Record) /\ Increasing(s) /\ i \in Nat
    BY DEF ReadTo
  <1>2. s # <<>> => s[Len(s)].rec_id <= q[i - 1].rec_id /\ q[i - 1].rec_id < q[i].rec_id /\ s[Len(s)].rec_id \in Nat /\ q[i - 1].rec_id \in Nat /\ q[i].rec_id \in Nat
    <2> SUFFICES ASSUME s # <<>> PROVE s[Len(s)].rec_id <= q[i - 1].rec_id /\ q[i - 1].rec_id < q[i].rec_id /\ s[Len(s)].rec_id \in Nat /\ q[i - 1].rec_id \in Nat /\ q[i].rec_id \in Nat
      OBVIOUS
    <2>1. s[Len(s)].rec_id <= q[i - 1].rec_id /\ from <= i - 1
      BY DEF ReadTo
    <2>2. i - 1 \in 1 .. Len(q)
      BY <2>1
    <2>3. q[i - 1] \in Record /\ s[Len(s)] \in Record
      BY <1>1, <2>2
    <2>4. q[i].rec_id \in Nat /\ q[i - 1].rec_id \in Nat /\ s[Len(s)].rec_id \in Nat
      BY <1>1, <2>3 DEF Record
    <2>5. q[i - 1].rec_id < q[i].rec_id
      <3>1. i - 1 < i
        BY <1>1
      <3> QED BY <2>2, <3>1 DEF Increasing
    <2> QED BY <2>1, <2>4, <2>5
  <1>3. \A j \in from .. i : j \in from .. i - 1 \/ j = i
    BY <1>1
  <1>4. CASE IsMeter(q[i])
    <2>1. PICK t : t = Append(s, q[i])
      OBVIOUS
    <2>2. /\ t \in Seq(Record) /\ Len(t) = Len(s) + 1 /\ t[Len(s) + 1] = q[i] /\ t # <<>>
          /\ Len(s) \in Nat /\ \A k \in 1 .. Len(s) : t[k] = s[k]
      BY <1>1, <2>1
    <2>3. Increasing(t)
      <3>1. CASE s = <<>>
        <4>1. \A j, k \in 1 .. Len(t) : ~(j < k)
          BY <2>2, <3>1
        <4> QED BY <4>1 DEF Increasing
      <3>2. CASE s # <<>>
        <4>1. s[Len(s)].rec_id < q[i].rec_id
          BY <1>2, <3>2
        <4> QED BY <1>1, <2>1, <3>2, <4>1, IncreasingAppend
      <3> QED BY <3>1, <3>2
    <2>4. \A k \in 1 .. Len(t) : k \in 1 .. Len(s) \/ k = Len(s) + 1
      BY <2>2
    <2>5. \A k \in 1 .. Len(t) : \E j \in from .. i : IsMeter(q[j]) /\ t[k] = q[j]
      <3> SUFFICES ASSUME NEW k \in 1 .. Len(t) PROVE \E j \in from .. i : IsMeter(q[j]) /\ t[k] = q[j]
        OBVIOUS
      <3>1. CASE k = Len(s) + 1
        <4>1. i \in from .. i
          BY <1>1
        <4> QED BY <1>4, <2>2, <3>1, <4>1
      <3>2. CASE k \in 1 .. Len(s)
        <4>1. PICK j \in from .. i - 1 : IsMeter(q[j]) /\ s[k] = q[j]
          BY <3>2 DEF ReadTo
        <4>2. j \in from .. i /\ t[k] = s[k]
          BY <1>1, <2>2, <3>2
        <4> QED BY <4>1, <4>2
      <3> QED BY <2>4, <3>1, <3>2
    <2>6. \A j \in from .. i : IsMeter(q[j]) => \E k \in 1 .. Len(t) : t[k] = q[j]
      <3> SUFFICES ASSUME NEW j \in from .. i, IsMeter(q[j]) PROVE \E k \in 1 .. Len(t) : t[k] = q[j]
        OBVIOUS
      <3>1. CASE j = i
        <4>1. Len(s) + 1 \in 1 .. Len(t)
          BY <2>2
        <4> QED BY <2>2, <3>1, <4>1
      <3>2. CASE j \in from .. i - 1
        <4>1. PICK k \in 1 .. Len(s) : s[k] = q[j]
          BY <3>2 DEF ReadTo
        <4>2. k \in 1 .. Len(t) /\ t[k] = s[k]
          BY <2>2
        <4> QED BY <4>1, <4>2
      <3> QED BY <1>3, <3>1, <3>2
    <2>7. t[Len(t)].rec_id <= q[i].rec_id
      <3>1. q[i].rec_id \in Nat
        BY <1>1 DEF Record
      <3> QED BY <2>2, <3>1
    <2>8. ReadTo(q, from, i, t)
      BY <2>2, <2>3, <2>5, <2>6, <2>7 DEF ReadTo
    <2> QED BY <1>4, <2>1, <2>8
  <1>5. CASE ~IsMeter(q[i])
    <2>1. s # <<>> => s[Len(s)].rec_id <= q[i].rec_id /\ from <= i
      BY <1>2
    <2>2. ASSUME NEW k \in 1 .. Len(s) PROVE \E j \in from .. i : IsMeter(q[j]) /\ s[k] = q[j]
      <3>1. PICK j \in from .. i - 1 : IsMeter(q[j]) /\ s[k] = q[j]
        BY DEF ReadTo
      <3>2. j \in from .. i
        BY <1>1
      <3> QED BY <3>1, <3>2
    <2>3. ASSUME NEW j \in from .. i, IsMeter(q[j]) PROVE \E k \in 1 .. Len(s) : s[k] = q[j]
      BY <1>3, <1>5, <2>3 DEF ReadTo
    <2>4. ReadTo(q, from, i, s)
      BY <1>1, <2>1, <2>2, <2>3 DEF ReadTo
    <2> QED BY <1>5, <2>4
  <1> QED BY <1>4, <1>5

\* What is read of the records from `from` to `last` of a page.
LEMMA ReadingsAre ==
    ASSUME TypeOK, NEW p \in Page, Increasing(log[p]), NEW from \in Nat \ {0}, NEW last \in 1 .. Len(log[p]), from <= last
    PROVE  ReadTo(log[p], from, last, Readings(p, from, last))
  <1>1. PICK q \in Seq(Record) : q = log[p]
    BY PageTypes
  <1>2. last \in Nat
    OBVIOUS
  <1>3. PICK f : f = CHOOSE g : ReadsOf(q, from, last, g)
    OBVIOUS
  <1>4. ReadsOf(q, from, last, f)
    BY <1>2, <1>3, ReadsExist
  <1>5. Readings(p, from, last) = f[last]
    BY <1>1, <1>3 DEF Readings, ReadsOf
  <1>6. \A i \in 0 .. last : f[i] = IF i < from THEN <<>> ELSE IF IsMeter(q[i]) THEN Append(f[i - 1], q[i]) ELSE f[i - 1]
    BY <1>4 DEF ReadsOf
  <1> DEFINE S == {i \in 0 .. last : ReadTo(q, from, i, f[i])}
  <1>7. ASSUME NEW i \in 0 .. last, i < from PROVE i \in S
    <2>1. f[i] = <<>>
      BY <1>6, <1>7
    <2>2. \A j \in from .. i : FALSE
      BY <1>7
    <2>3. <<>> \in Seq(Record) /\ Increasing(<<>>) /\ \A k \in 1 .. Len(<<>>) : FALSE
      BY DEF Increasing
    <2>4. PICK s : s = f[i]
      OBVIOUS
    <2>5. s = <<>> /\ \A k \in 1 .. Len(s) : FALSE
      BY <2>1, <2>3, <2>4
    <2>6. ReadTo(q, from, i, s)
      BY <2>2, <2>3, <2>5, Zenon DEF ReadTo
    <2> QED BY <2>4, <2>6
  <1>8. ASSUME NEW i \in 0 .. last - 1, i \in S PROVE i + 1 \in S
    <2>1. CASE i + 1 < from
      <3>1. i + 1 \in 0 .. last
        OBVIOUS
      <3> QED BY <1>7, <2>1, <3>1
    <2>2. CASE ~(i + 1 < from)
      <3>1. i + 1 \in 1 .. Len(q) /\ from <= i + 1 /\ i + 1 - 1 = i /\ i + 1 \in 0 .. last
        BY <1>1, <1>2, <2>2
      <3>2. ReadTo(q, from, (i + 1) - 1, f[i])
        BY <1>8, <3>1
      <3>3. ReadTo(q, from, i + 1, IF IsMeter(q[i + 1]) THEN Append(f[i], q[i + 1]) ELSE f[i])
        <4>1. Increasing(q)
          BY <1>1
        <4> QED BY <3>1, <3>2, <4>1, ReadOneMore
      <3>4. f[i + 1] = IF IsMeter(q[i + 1]) THEN Append(f[i], q[i + 1]) ELSE f[i]
        BY <1>6, <2>2, <3>1
      <3> QED BY <3>1, <3>3, <3>4
    <2> QED BY <2>1, <2>2
  <1>9. 0 \in S
    <2>1. 0 \in 0 .. last /\ 0 < from
      OBVIOUS
    <2> QED BY <1>7, <2>1
  <1>10. last \in S
    <2>1. \A i \in 0 .. last : i \in S
      <3> HIDE DEF S
      <3> QED BY <1>2, <1>8, <1>9, CountUp
    <2> QED BY <1>2, <2>1
  <1> QED BY <1>1, <1>5, <1>10

\* The function that ReadSession is read from, for the pages from k to m.
PagesOf(here, k, m, f) ==
    f = [q \in k .. m |-> IF here[q].ret # "OK" \/ here[q].done THEN here[q]
                          ELSE [f[q + 1] EXCEPT !.events = here[q].events \o @]]

LEMMA PagesExist ==
    ASSUME NEW m \in Nat, NEW here, here[m].ret # "OK"
    PROVE  \E f : PagesOf(here, 0, m, f)
  <1> DEFINE S == {k \in 0 .. m : \E f : PagesOf(here, m - k, m, f)}
  <1>1. 0 \in S
    <2>1. PICK f : f = [q \in m .. m |-> here[q]]
      OBVIOUS
    <2>2. PagesOf(here, m, m, f)
      <3>1. \A q \in m .. m : q = m
        OBVIOUS
      <3> QED BY <2>1, <3>1 DEF PagesOf
    <2>3. m - 0 = m /\ 0 \in 0 .. m
      OBVIOUS
    <2> QED BY <2>2, <2>3
  <1>2. ASSUME NEW k \in 0 .. m - 1, k \in S PROVE k + 1 \in S
    <2>1. PICK f : PagesOf(here, m - k, m, f)
      BY <1>2
    <2>2. PICK a \in 0 .. m - 1 : a = m - (k + 1) /\ m - k = a + 1
      OBVIOUS
    <2> DEFINE next == IF here[a].ret # "OK" \/ here[a].done THEN here[a] ELSE [f[a + 1] EXCEPT !.events = here[a].events \o @]
               g == [q \in a .. m |-> IF q = a THEN next ELSE f[q]]
    <2>3. ASSUME NEW q \in a .. m
          PROVE  g[q] = IF here[q].ret # "OK" \/ here[q].done THEN here[q] ELSE [g[q + 1] EXCEPT !.events = here[q].events \o @]
      <3>1. CASE q = a
        <4>1. a + 1 \in a .. m /\ a + 1 # a
          OBVIOUS
        <4>2. g[q] = next /\ g[q + 1] = f[a + 1]
          <5> HIDE DEF next
          <5> QED BY <3>1, <4>1
        <4> HIDE DEF g
        <4> QED BY <3>1, <4>2
      <3>2. CASE q \in a + 1 .. m
        <4>1. f[q] = IF here[q].ret # "OK" \/ here[q].done THEN here[q] ELSE [f[q + 1] EXCEPT !.events = here[q].events \o @]
          BY <2>1, <2>2, <3>2 DEF PagesOf
        <4>2. g[q] = f[q] /\ (q # m => g[q + 1] = f[q + 1])
          <5>1. q # a /\ (q # m => q + 1 \in a .. m /\ q + 1 # a)
            BY <3>2
          <5> HIDE DEF next
          <5> QED BY <5>1
        <4> HIDE DEF g
        <4> QED BY <4>1, <4>2
      <3> QED BY <3>1, <3>2
    <2>4. PagesOf(here, a, m, g)
      <3>1. g = [q \in a .. m |-> g[q]]
        OBVIOUS
      <3>2. PICK h : h = g
        OBVIOUS
      <3> HIDE DEF g
      <3> QED BY <2>3, <3>1 DEF PagesOf
    <2>5. k + 1 \in 0 .. m
      OBVIOUS
    <2> HIDE DEF g
    <2> QED BY <2>2, <2>4, <2>5
  <1>3. m \in S
    <2>1. \A k \in 0 .. m : k \in S
      <3> HIDE DEF S
      <3> QED BY <1>1, <1>2, CountUp
    <2> QED BY <2>1
  <1>4. PICK f : PagesOf(here, m - m, m, f)
    BY <1>3
  <1>5. m - m = 0
    OBVIOUS
  <1> QED BY <1>4, <1>5

\* A session whose END is on the page of its START is read from that page.
LEMMA OnePageRead ==
    ASSUME TypeOK, NEW pos \in Pos, NEW read, read = ReadPage(pos.page, pos.offset + 1),
           read.ret = "OK", read.done
    PROVE  ReadSession(pos) = read
  <1> DEFINE Here(q) == ReadPage(q, IF q = pos.page THEN pos.offset + 1 ELSE 1)
  <1>1. PICK m \in Nat : m = MaxPages /\ pos.page \in 0 .. m
    BY MidLtsAssumption DEF Pos, Page
  <1>2. PICK here : here = [q \in 0 .. m |-> Here(q)]
    OBVIOUS
  <1>3. here[m].ret # "OK"
    <2>1. m \notin files
      BY <1>1 DEF TypeOK, Page
    <2>2. \A from : ReadPage(m, from).ret = "STAT"
      BY <2>1 DEF ReadPage
    <2>3. here[m] = Here(m)
      <3> HIDE DEF Here
      <3> QED BY <1>2
    <2> QED BY <2>2, <2>3
  <1>4. PICK f : f = CHOOSE g : PagesOf(here, 0, m, g)
    OBVIOUS
  <1>5. PagesOf(here, 0, m, f)
    BY <1>3, <1>4, PagesExist
  <1>6. ReadSession(pos) = f[pos.page]
    <2>1. \A q \in 0 .. m : here[q] = Here(q)
      <3> HIDE DEF Here
      <3> QED BY <1>2
    <2>2. \A g : PagesOf(here, 0, m, g) <=>
             g = [q \in 0 .. m |-> IF Here(q).ret # "OK" \/ Here(q).done THEN Here(q)
                                   ELSE [g[q + 1] EXCEPT !.events = Here(q).events \o @]]
      <3> HIDE DEF Here
      <3> QED BY <2>1, Zenon DEF PagesOf
    <2>3. f = CHOOSE g : g = [q \in 0 .. m |-> IF Here(q).ret # "OK" \/ Here(q).done THEN Here(q)
                                   ELSE [g[q + 1] EXCEPT !.events = Here(q).events \o @]]
      <3> HIDE DEF Here
      <3> QED BY <1>4, <2>2
    <2> HIDE DEF ReadPage
    <2> QED BY <1>1, <2>3 DEF ReadSession
  <1>7. here[pos.page] = read
    BY <1>1, <1>2
  <1>8. f[pos.page] = here[pos.page]
    BY <1>1, <1>5, <1>7 DEF PagesOf
  <1> QED BY <1>6, <1>7, <1>8

\* Between two calls every record has been told to the context.
LEMMA AllTold ==
    ASSUME TypeOK, IdInv, TellInv, "sync" \notin Faults, mode = "ready", Quiet
    PROVE  Tells(Placed, ctx)
  <1>1. ~Landing
    BY DEF Quiet, Landing
  <1>2. ASSUME NEW x \in Placed PROVE x[2].rec_id < ctx.msg_id
    <2>1. PICK p \in Filled, i \in Nat : i \in 1 .. Len(log[p]) /\ x = <<[page |-> p, offset |-> i - 1], log[p][i]>>
      BY PlacedAt
    <2>2. p \in Page
      BY DEF Filled
    <2>3. Before(log[p][i].rec_id, ctx.msg_id)
      BY <1>1, <2>1, <2>2 DEF IdInv, ReadyInv, PageBefore
    <2> QED BY <2>1, <2>3 DEF Before
  <1>3. Told(Placed, ctx.msg_id) = Placed
    BY <1>2 DEF Told
  <1> QED BY <1>3 DEF TellInv

LEMMA SlotPlaced ==
    ASSUME TypeOK, NEW s \in Slots
    PROVE  \E x \in Placed : x[2] = At(s)
  <1>1. PICK p \in Page : s \in {<<p, i>> : i \in 1 .. Len(log[p])}
    BY DEF Slots
  <1>2. PICK i \in 1 .. Len(log[p]) : s = <<p, i>>
    BY <1>1
  <1>3. log[p][i] = At(s) /\ p \in Filled /\ i \in Nat
    BY <1>2 DEF At, Filled
  <1>4. PICK x : x = <<[page |-> p, offset |-> i - 1], log[p][i]>>
    OBVIOUS
  <1>5. x \in Placed /\ x[2] = At(s)
    BY <1>3, <1>4, PlacedAt
  <1> QED BY <1>5

LEMMA OpenHasAll ==
    ASSUME TypeOK, IdInv, TellInv, "sync" \notin Faults
    PROVE  ActiveHasEveryReading
  <1> SUFFICES ASSUME mode = "ready", Quiet, ctx.open
               PROVE  /\ ctx.active.events # <<>>
                      /\ \A s \in Slots : IsMeter(At(s)) /\ At(s).rec_id >= ctx.active.events[1].rec_id
                            => At(s) \in {ctx.active.events[k] : k \in 1 .. Len(ctx.active.events)}
    BY Zenon DEF ActiveHasEveryReading
  <1>1. PICK e : e = ctx.active.events
    OBVIOUS
  <1>2. Tells(Placed, ctx)
    BY AllTold
  <1>3. e # <<>> /\ \A x \in Placed : IsMeter(x[2]) /\ e[1].rec_id <= x[2].rec_id => \E k \in 1 .. Len(e) : e[k] = x[2]
    BY <1>1, <1>2 DEF Tells
  <1>4. ASSUME NEW s \in Slots, IsMeter(At(s)), At(s).rec_id >= e[1].rec_id
        PROVE  \E k \in 1 .. Len(e) : e[k] = At(s)
    <2>1. PICK x \in Placed : x[2] = At(s)
      BY SlotPlaced
    <2> QED BY <1>3, <1>4, <2>1
  <1> QED BY <1>1, <1>3, <1>4

\* The records of a closed session on its page: from the START at i to the END at j.
LEMMA ClosedOnPage ==
    ASSUME TypeOK, InRow, NEW p \in Filled, NEW e \in Seq(Record), NEW pos, e # <<>>,
           NEW i \in 1 .. Len(log[p]), log[p][i] = e[1], NEW j \in 1 .. Len(log[p]), log[p][j] = e[Len(e)],
           e[1].kind = "START", Increasing(e), e[Len(e)].kind = "END",
           \A k \in 1 .. Len(e) : IsMeter(e[k]) /\ (e[k].kind = "END" => k = Len(e)),
           \A x \in Placed, k \in 1 .. Len(e) : x[2].rec_id = e[k].rec_id => x[2] = e[k],
           \A x \in Placed : IsMeter(x[2]) /\ e[1].rec_id <= x[2].rec_id /\ x[2].rec_id <= e[Len(e)].rec_id
                                => \E k \in 1 .. Len(e) : e[k] = x[2]
    PROVE  /\ i <= j /\ \A k \in i .. j : log[p][k].kind = "END" => k = j
           /\ \A k \in i .. j : IsMeter(log[p][k]) => \E u \in 1 .. Len(e) : e[u] = log[p][k]
           /\ \A u \in 1 .. Len(e) : \E k \in i .. j : IsMeter(log[p][k]) /\ log[p][k] = e[u]
  <1>1. PICK n \in Nat : n = Len(log[p])
    BY RingTypes
  <1>2. PICK first \in Nat : first = FirstId(p)
    BY RingTypes
  <1>3. \A k \in 1 .. n : log[p][k].rec_id = first + k - 1
    BY <1>1, <1>2, RowId
  <1>4. \A k \in 1 .. n : \E x \in Placed : x[2] = log[p][k]
    <2> SUFFICES ASSUME NEW k \in 1 .. n PROVE \E x \in Placed : x[2] = log[p][k]
      OBVIOUS
    <2>1. PICK x : x = <<[page |-> p, offset |-> k - 1], log[p][k]>>
      OBVIOUS
    <2>2. k \in Nat /\ x \in Placed /\ x[2] = log[p][k]
      BY <1>1, <2>1, PlacedAt
    <2> QED BY <2>2
  <1>5. PICK l \in Nat : l = Len(e) /\ l > 0
    OBVIOUS
  <1>6. \A k \in 1 .. l : e[k].rec_id \in Nat
    <2>1. \A k \in 1 .. l : e[k] \in Record
      BY <1>5
    <2> QED BY <2>1 DEF Record
  <1>7. \A k \in 1 .. l : e[1].rec_id <= e[k].rec_id /\ e[k].rec_id <= e[l].rec_id
    <2> SUFFICES ASSUME NEW k \in 1 .. l PROVE e[1].rec_id <= e[k].rec_id /\ e[k].rec_id <= e[l].rec_id
      OBVIOUS
    <2>1. 1 \in 1 .. l /\ l \in 1 .. l
      BY <1>5
    <2>2. (k = 1 \/ e[1].rec_id < e[k].rec_id) /\ (k = l \/ e[k].rec_id < e[l].rec_id)
      BY <1>5, <2>1 DEF Increasing
    <2> QED BY <1>6, <2>1, <2>2
  <1>8. e[1].rec_id = first + i - 1 /\ e[l].rec_id = first + j - 1 /\ i \in 1 .. n /\ j \in 1 .. n
    BY <1>1, <1>3, <1>5
  <1>9. i <= j
    <2>1. e[1].rec_id <= e[l].rec_id
      BY <1>5, <1>7
    <2> QED BY <1>8, <2>1
  <1>10. ASSUME NEW k \in i .. j, IsMeter(log[p][k]) PROVE \E u \in 1 .. Len(e) : e[u] = log[p][k]
    <2>1. k \in 1 .. n /\ e[1].rec_id <= log[p][k].rec_id /\ log[p][k].rec_id <= e[l].rec_id
      <3>1. k \in 1 .. n /\ i <= k /\ k <= j
        BY <1>8
      <3> QED BY <1>3, <1>8, <3>1
    <2>2. PICK x \in Placed : x[2] = log[p][k]
      BY <1>4, <2>1
    <2> QED BY <1>5, <1>10, <2>1, <2>2
  <1>11. ASSUME NEW k \in i .. j, log[p][k].kind = "END" PROVE k = j
    <2>1. IsMeter(log[p][k])
      BY <1>11 DEF IsMeter, MeterKind
    <2>2. PICK u \in 1 .. Len(e) : e[u] = log[p][k]
      BY <1>10, <2>1
    <2>3. u = l
      BY <1>5, <1>11, <2>2
    <2>4. log[p][k].rec_id = log[p][j].rec_id /\ k \in 1 .. n
      BY <1>5, <1>8, <2>2, <2>3
    <2>5. first + k - 1 = first + j - 1
      BY <1>3, <1>8, <2>4
    <2> QED BY <1>8, <2>4, <2>5
  <1>12. ASSUME NEW u \in 1 .. Len(e) PROVE \E k \in i .. j : IsMeter(log[p][k]) /\ log[p][k] = e[u]
    <2>1. PICK m \in Nat : m = e[u].rec_id
      BY <1>5, <1>6
    <2>2. first + i - 1 <= m /\ m <= first + j - 1
      BY <1>5, <1>7, <1>8, <2>1
    <2>3. PICK k \in i .. j : k = m - first + 1
      BY <1>8, <2>2
    <2>4. k \in 1 .. n /\ log[p][k].rec_id = m
      <3>1. k \in 1 .. n
        BY <1>8
      <3>2. log[p][k].rec_id = first + k - 1
        BY <1>3, <3>1
      <3>3. first + k - 1 = m
        BY <2>3
      <3> QED BY <3>1, <3>2, <3>3
    <2>5. PICK x \in Placed : x[2] = log[p][k]
      BY <1>4, <2>4
    <2>6. log[p][k] = e[u]
      BY <2>1, <2>4, <2>5
    <2> QED BY <2>6
  <1> QED BY <1>9, <1>10, <1>11, <1>12

\* The query of one page ends at the END of the session.
LEMMA PageRead ==
    ASSUME TypeOK, NEW p \in Page, p \in files, NEW i \in 1 .. Len(log[p]), NEW j \in i .. Len(log[p]),
           log[p][i].kind = "START", log[p][j].kind = "END",
           \A k \in i .. j : log[p][k].kind = "END" => k = j
    PROVE  ReadPage(p, i) = [ret |-> "OK", done |-> TRUE, events |-> Readings(p, i, j)]
  <1>1. PICK n \in Nat : n = Len(log[p])
    BY PageTypes
  <1>2. PICK ends : ends = {k \in i .. n : log[p][k].kind = "END"}
    OBVIOUS
  <1>3. j \in ends /\ \A k \in ends : j <= k /\ k \in Int
    <2>1. j \in ends /\ j \in Int
      BY <1>1, <1>2
    <2>2. ASSUME NEW k \in ends PROVE j <= k
      <3>1. k \in i .. n /\ log[p][k].kind = "END"
        BY <1>2
      <3>2. k \in i .. j \/ j <= k
        BY <2>1, <3>1
      <3> QED BY <2>1, <3>1, <3>2
    <2> QED BY <1>2, <2>1, <2>2
  <1>4. FirstEnd(ends) = j
    <2>1. \A k \in ends : (\A u \in ends : k <= u) => k = j
      BY <1>3
    <2> QED BY <1>3, <2>1 DEF FirstEnd
  <1>5. i <= n
    BY <1>1
  <1> QED BY <1>1, <1>2, <1>3, <1>4, <1>5 DEF ReadPage

LEMMA ClosedReadBack ==
    ASSUME TypeOK, IdInv, TellInv, "sync" \notin Faults
    PROVE  SessionReadBack
  <1>1. PICK e : e = ctx.active.events
    OBVIOUS
  <1>2. PICK p : p = ctx.active.pos.page
    OBVIOUS
  <1> SUFFICES ASSUME ClosedSession, \A r \in {e[1], e[Len(e)]} : \E k \in 1 .. Len(log[p]) : log[p][k] = r
               PROVE  ReadBack
    BY <1>1, <1>2 DEF SessionReadBack
  <1>3. mode = "ready" /\ Quiet /\ ~ctx.open /\ e # <<>>
    BY <1>1 DEF ClosedSession
  <1>4. Tells(Placed, ctx)
    BY <1>3, AllTold
  <1>5. /\ e[1].kind = "START" /\ Increasing(e) /\ e[Len(e)].kind = "END"
        /\ \A k \in 1 .. Len(e) : IsMeter(e[k]) /\ (e[k].kind = "END" => k = Len(e))
        /\ \A x \in Placed : x[2].rec_id = e[1].rec_id => x[1] = ctx.active.pos
        /\ \A x \in Placed, k \in 1 .. Len(e) : x[2].rec_id = e[k].rec_id => x[2] = e[k]
        /\ \A x \in Placed : IsMeter(x[2]) /\ e[1].rec_id <= x[2].rec_id /\ x[2].rec_id <= e[Len(e)].rec_id
                                => \E k \in 1 .. Len(e) : e[k] = x[2]
    BY <1>1, <1>3, <1>4 DEF Tells
  <1>6. e \in Seq(Record) /\ ctx.active.pos \in Pos /\ p \in Page
    <2>1. ctx.active \in Active
      BY DEF TypeOK, Context
    <2> QED BY <1>1, <1>2, <2>1 DEF Active, Pos
  <1>7. PICK i \in 1 .. Len(log[p]) : log[p][i] = e[1]
    OBVIOUS
  <1>8. PICK j \in 1 .. Len(log[p]) : log[p][j] = e[Len(e)]
    OBVIOUS
  <1>9. p \in Filled /\ p \in files
    <2>1. p \in Filled
      BY <1>6, <1>7 DEF Filled
    <2> QED BY <2>1 DEF IdInv, PagesInv
  <1>10. /\ i <= j /\ \A k \in i .. j : log[p][k].kind = "END" => k = j
         /\ \A k \in i .. j : IsMeter(log[p][k]) => \E u \in 1 .. Len(e) : e[u] = log[p][k]
         /\ \A u \in 1 .. Len(e) : \E k \in i .. j : IsMeter(log[p][k]) /\ log[p][k] = e[u]
    <2>1. InRow
      BY DEF TellInv
    <2> QED BY <1>3, <1>5, <1>6, <1>7, <1>8, <1>9, <2>1, ClosedOnPage
  <1>11. ctx.active.pos.offset + 1 = i
    <2>1. PICK x : x = <<[page |-> p, offset |-> i - 1], log[p][i]>>
      OBVIOUS
    <2>2. x \in Placed /\ x[1] = [page |-> p, offset |-> i - 1] /\ x[2] = e[1]
      BY <1>7, <1>9, <2>1, PlacedAt
    <2>3. ctx.active.pos = [page |-> p, offset |-> i - 1]
      BY <1>5, <2>2
    <2>4. ctx.active.pos.offset = i - 1
      BY <2>3
    <2> QED BY <2>4
  <1>12. ReadPage(p, i) = [ret |-> "OK", done |-> TRUE, events |-> Readings(p, i, j)]
    <2>1. j \in i .. Len(log[p])
      BY <1>10
    <2> QED BY <1>5, <1>6, <1>7, <1>8, <1>9, <1>10, <2>1, PageRead
  <1>13. ReadTo(log[p], i, j, Readings(p, i, j))
    <2>1. Increasing(log[p])
      <3>1. PICK first \in Nat : first = FirstId(p)
        BY <1>9, RingTypes
      <3>2. PICK n \in Nat : n = Len(log[p])
        BY <1>6, PageTypes
      <3>3. \A k \in 1 .. n : log[p][k].rec_id = first + k - 1
        BY <1>9, <3>1, <3>2, RowId DEF TellInv
      <3>4. \A k, u \in 1 .. n : k < u => log[p][k].rec_id < log[p][u].rec_id
        BY <3>3
      <3> QED BY <3>2, <3>4 DEF Increasing
    <2>2. i \in Nat \ {0}
      OBVIOUS
    <2> QED BY <1>6, <1>10, <2>1, <2>2, ReadingsAre
  <1>14. Readings(p, i, j) = e
    <2>1. PICK s : s = Readings(p, i, j)
      OBVIOUS
    <2>2. /\ s \in Seq(Record) /\ Increasing(s)
          /\ \A k \in 1 .. Len(s) : \E u \in i .. j : IsMeter(log[p][u]) /\ s[k] = log[p][u]
          /\ \A u \in i .. j : IsMeter(log[p][u]) => \E k \in 1 .. Len(s) : s[k] = log[p][u]
      BY <1>13, <2>1 DEF ReadTo
    <2>3. \A k \in 1 .. Len(s) : \E u \in 1 .. Len(e) : e[u] = s[k]
      BY <1>10, <2>2
    <2>4. \A u \in 1 .. Len(e) : \E k \in 1 .. Len(s) : s[k] = e[u]
      BY <1>10, <2>2
    <2>5. s = e
      BY <1>5, <1>6, <2>2, <2>3, <2>4, SameEvents
    <2> QED BY <2>1, <2>5
  <1>15. ReadSession(ctx.active.pos) = [ret |-> "OK", done |-> TRUE, events |-> e]
    <2>1. PICK read : read = [ret |-> "OK", done |-> TRUE, events |-> e]
      OBVIOUS
    <2>2. read.ret = "OK" /\ read.done /\ read = ReadPage(ctx.active.pos.page, ctx.active.pos.offset + 1)
      BY <1>2, <1>11, <1>12, <1>14, <2>1
    <2> QED BY <1>6, <2>1, <2>2, OnePageRead
  <1> QED BY <1>1, <1>15 DEF ReadBack

\* With one call at a time and no failing sync, no reading of a session is lost,
\* whatever else fails, however the pages were purged and wherever the charger loses
\* power: while the session is open the context has each reading on flash, and once it
\* is closed mid_session_read_session gives back each that is still within its page.
THEOREM SessionKept ==
    ASSUME Serial, "sync" \notin Faults
    PROVE  Spec => []SessionWhole
  <1>1. TypeOK /\ IdInv /\ TellInv => SessionWhole
    BY OpenHasAll, ClosedReadBack DEF SessionWhole
  <1>2. Spec => [](TypeOK /\ IdInv /\ TellInv)
    <2>1. Init => TypeOK /\ IdInv /\ TellInv
      BY TypeInit, IdsStart, TellStart
    <2>2. TypeOK /\ IdInv /\ TellInv /\ [Next]_vars => (TypeOK /\ IdInv /\ TellInv)'
      BY TypeNext, IdsNext, TellNext
    <2> QED BY <2>1, <2>2, PTL DEF Spec
  <1> QED BY <1>1, <1>2, PTL
=============================================================================
