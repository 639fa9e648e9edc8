--------------------------- MODULE OcppStoreProofs ---------------------------
(***************************************************************************)
(* Proofs about OcppStore, for any number of files, any sizes, all faults  *)
(* and all risks.                                                          *)
(***************************************************************************)
EXTENDS MCOcppStore, OcppTransactionProofs

(* What is needed of the type of a file: its fields. *)
IsFile(f) == f = [start |-> f.start, active |-> f.active, id |-> f.id, await |-> f.await,
                  conf |-> f.conf, meters |-> f.meters, stop |-> f.stop]

(* A file that has become g is not active anew, nor under another start. *)
Tame(f, g) == IsFile(g) /\ (g.active => f.active /\ g.start = f.start)

AllFiles == files = [e \in Entry |-> files[e]] /\ \A e \in Entry : IsFile(files[e])

OneEntry == \A d, e \in Active : d = e

IsSession(s) == s = [on |-> s.on, tx |-> s.tx, entry |-> s.entry, id |-> s.id, valid |-> s.valid]

ActiveInv == AllFiles /\ OneEntry /\ OneActive /\ IsSession(session)

-----------------------------------------------------------------------------
(* What the operations do to one file. *)

LEMMA NoFileTame == ASSUME NEW f PROVE Tame(f, NoFile)
BY DEF Tame, IsFile, NoFile

LEMMA ConfirmedTame == ASSUME NEW f, IsFile(f) PROVE Tame(f, Confirmed(f))
<1>1. CASE loaded.call.kind = "stop"
  BY <1>1, NoFileTame DEF Confirmed
<1>2. CASE loaded.call.kind = "start"
  <2>1. Confirmed(f) = [f EXCEPT !.conf = AtMeter(1), !.await = Await(f, -1)]
    BY <1>2 DEF Confirmed
  <2> QED BY <2>1 DEF Tame, IsFile
<1>3. CASE loaded.call.kind # "stop" /\ loaded.call.kind # "start"
  <2>1. Confirmed(f) = [f EXCEPT !.conf = loaded.next, !.await = Await(f, -1)]
    BY <1>3 DEF Confirmed
  <2> QED BY <2>1 DEF Tame, IsFile
<1> QED BY <1>1, <1>2, <1>3

LEMMA GivenUpTame == ASSUME NEW f, IsFile(f) PROVE Tame(f, GivenUp(f))
BY NoFileTame DEF GivenUp, Tame, IsFile

LEMMA StoppedTame ==
  ASSUME NEW f, IsFile(f), NEW n
  PROVE  Tame(f, Stopped(f, n)) /\ ~Stopped(f, n).active
<1>b. PICK b : b = FALSE
  OBVIOUS
<1> DEFINE f1 == [f EXCEPT !.active = b]
           f2 == [f1 EXCEPT !.stop = n]
           f3 == [f2 EXCEPT !.await = Await(f, 1)]
<1>1. IsFile(f1) /\ f1.active = b
  BY DEF IsFile
<1>2. IsFile(f2) /\ f2.active = b
  <2> HIDE DEF f1
  <2> QED BY <1>1 DEF IsFile
<1>3. IsFile(f3) /\ f3.active = b
  <2> HIDE DEF f2
  <2> QED BY <1>2 DEF IsFile
<1>4. Stopped(f, n) = f3
  BY <1>b, Zenon DEF Stopped
<1>5. ~f3.active
  <2> HIDE DEF f3
  <2> QED BY <1>b, <1>3, Zenon
<1> QED
  <2> HIDE DEF f3
  <2> QED BY <1>3, <1>4, <1>5, Zenon DEF Tame

LEMMA StartedActive ==
  ASSUME NEW n
  PROVE  IsFile(Started(n)) /\ Started(n).start = n
<1>b. PICK b : b = TRUE
  OBVIOUS
<1> DEFINE f1 == [NoFile EXCEPT !.start = n]
           f2 == [f1 EXCEPT !.active = b]
           f3 == [f2 EXCEPT !.await = 1]
<1>0. IsFile(NoFile)
  BY NoFileTame DEF Tame
<1>1. IsFile(f1) /\ f1.start = n
  BY <1>0 DEF IsFile
<1>2. IsFile(f2) /\ f2.start = n
  <2> HIDE DEF f1
  <2> QED BY <1>1 DEF IsFile
<1>3. IsFile(f3) /\ f3.start = n
  <2> HIDE DEF f2
  <2> QED BY <1>2 DEF IsFile
<1>4. Started(n) = f3
  BY <1>b, Zenon DEF Started
<1> QED BY <1>3, <1>4, Zenon

LEMMA MeterTame ==
  ASSUME NEW f, IsFile(f), NEW s, NEW m,
         NEW g, g = [f EXCEPT !.meters = s, !.await = m]
  PROVE  Tame(f, g)
BY DEF Tame, IsFile

LEMMA IdTame == ASSUME NEW f, IsFile(f), NEW i PROVE Tame(f, [f EXCEPT !.id = i])
BY DEF Tame, IsFile

-----------------------------------------------------------------------------
(* What the operations do to the files.                                    *)

(* The files may change as long as each stays tame. *)
Tamed == /\ files' = [e \in Entry |-> files'[e]]
         /\ \A e \in Entry : Tame(files[e], files'[e])

LEMMA UnchangedTamed == AllFiles /\ UNCHANGED files => Tamed
BY Zenon DEF AllFiles, Tamed, Tame

LEMMA UpdateTamed ==
  ASSUME AllFiles, NEW e, NEW g, e \in Entry => Tame(files[e], g),
         files' = [files EXCEPT ![e] = g]
  PROVE  Tamed
<1>1. ASSUME NEW d \in Entry PROVE files'[d] = IF d = e THEN g ELSE files[d]
  BY DEF AllFiles
<1>2. ASSUME NEW d \in Entry PROVE Tame(files[d], files'[d])
  BY <1>1, <1>2, Zenon DEF AllFiles, Tame
<1>3. files' = [d \in Entry |-> files'[d]]
  BY DEF AllFiles
<1> QED BY <1>2, <1>3, Zenon DEF Tamed

LEMMA TamedKeeps ==
  ASSUME ActiveInv, Tamed, IsSession(session'),
         session.on => session'.on, session'.tx = session.tx
  PROVE  ActiveInv'
<1>1. AllFiles'
  BY Zenon DEF Tamed, Tame, AllFiles
<1>2. ASSUME NEW e \in Active' PROVE e \in Active /\ files'[e].start = files[e].start
  BY <1>2, Zenon DEF Active, Tamed, Tame
<1>3. OneEntry'
  BY <1>2, Zenon DEF ActiveInv, OneEntry
<1>4. OneActive'
  BY <1>2, Zenon DEF ActiveInv, OneActive
<1> QED BY <1>1, <1>3, <1>4, Zenon DEF ActiveInv

LEMMA ConfirmTamed == AllFiles /\ ConfirmLast => Tamed
<1> SUFFICES ASSUME AllFiles, ConfirmLast PROVE Tamed
  OBVIOUS
<1>1. CASE UNCHANGED files
  BY <1>1, UnchangedTamed
<1>2. CASE files' = [files EXCEPT ![loaded.entry] = Confirmed(files[loaded.entry])]
  <2>1. loaded.entry \in Entry => Tame(files[loaded.entry], Confirmed(files[loaded.entry]))
    BY ConfirmedTame, Zenon DEF AllFiles
  <2> QED BY <1>2, <2>1, UpdateTamed, Zenon
<1> QED BY <1>1, <1>2, Zenon DEF ConfirmLast

LEMMA GetNextTamed == AllFiles /\ GetNextFails => Tamed
<1> SUFFICES ASSUME AllFiles, GetNextFails PROVE Tamed
  OBVIOUS
<1>1. files' = [files EXCEPT ![Loaded.entry] = GivenUp(files[Loaded.entry])]
  BY Zenon DEF GetNextFails
<1>2. Loaded.entry \in Entry => Tame(files[Loaded.entry], GivenUp(files[Loaded.entry]))
  BY GivenUpTame, Zenon DEF AllFiles
<1> QED BY <1>1, <1>2, UpdateTamed, Zenon

LEMMA MeterTamed == AllFiles /\ WriteMeterValue => Tamed
<1> SUFFICES ASSUME AllFiles, WriteMeterValue PROVE Tamed
  OBVIOUS
<1> DEFINE f == files[ActiveEntry]
<1>1. PICK s, m : files' = [files EXCEPT ![ActiveEntry] = [f EXCEPT !.meters = s, !.await = m]]
  BY Zenon DEF WriteMeterValue
<1> DEFINE g == [f EXCEPT !.meters = s, !.await = m]
<1>2. ActiveEntry \in Entry => Tame(f, g)
  <2>1. ActiveEntry \in Entry => IsFile(f)
    BY Zenon DEF AllFiles
  <2> HIDE DEF f
  <2> QED BY <2>1, MeterTame, Zenon
<1>3. files' = [files EXCEPT ![ActiveEntry] = g]
  BY <1>1, Zenon
<1> HIDE DEF g
<1> QED BY <1>2, <1>3, UpdateTamed, Zenon

LEMMA IdTamed ==
  ASSUME AllFiles, NEW e, NEW i, SetRealId(e, i)
  PROVE  Tamed
<1>1. CASE UNCHANGED files
  BY <1>1, UnchangedTamed
<1>2. CASE files' = [files EXCEPT ![e].id = i]
  <2> DEFINE g == [files[e] EXCEPT !.id = i]
  <2>1. e \in Entry => Tame(files[e], g)
    BY IdTame, Zenon DEF AllFiles
  <2>2. files' = [files EXCEPT ![e] = g]
    BY <1>2, Zenon
  <2> HIDE DEF g
  <2> QED BY <2>1, <2>2, UpdateTamed, Zenon
<1> QED BY <1>1, <1>2, Zenon DEF SetRealId

LEMMA ClearTamed == AllFiles /\ ClearAll => Tamed
BY NoFileTame, Zenon DEF ClearAll, Tamed, AllFiles

(* A stop leaves no active file. *)
LEMMA StopTamed ==
  ASSUME AllFiles, OneEntry, NEW n, files' = StopActive(n)
  PROVE  Tamed /\ Active' = {}
<1>1. CASE Active = {}
  <2>1. UNCHANGED files
    BY <1>1, Zenon DEF StopActive
  <2> QED BY <1>1, <2>1, UnchangedTamed, Zenon DEF Active
<1>2. CASE Active # {}
  <2> DEFINE a == ActiveEntry
             g == Stopped(files[a], n)
  <2>1. a \in Active
    BY <1>2, Zenon DEF ActiveEntry
  <2>2. a \in Entry
    BY <2>1, Zenon DEF Active
  <2>3. Tame(files[a], g) /\ ~g.active
    BY <2>2, StoppedTame, Zenon DEF AllFiles
  <2>4. files' = [files EXCEPT ![a] = g]
    BY <1>2, Zenon DEF StopActive
  <2> HIDE DEF a, g
  <2>5. Tamed
    BY <2>3, <2>4, UpdateTamed, Zenon
  <2>6. files'[a] = g
    BY <2>2, <2>4 DEF AllFiles
  <2>7. Active' \subseteq Active
    BY <2>5, Zenon DEF Tamed, Tame, Active
  <2>8. a \notin Active'
    BY <2>3, <2>6, Zenon DEF Active
  <2> QED BY <2>1, <2>5, <2>7, <2>8, Zenon DEF OneEntry
<1> QED BY <1>1, <1>2

-----------------------------------------------------------------------------
(* The steps.                                                              *)

LEMMA NoSessionIs == IsSession(NoSession) /\ ~NoSession.on
BY DEF IsSession, NoSession

LEMMA NewSession ==
  ASSUME NEW t, NEW e
  PROVE  LET s == [NoSession EXCEPT !.on = TRUE, !.tx = t, !.entry = e]
         IN IsSession(s) /\ s.on /\ s.tx = t
<1>b. PICK b : b = TRUE
  OBVIOUS
<1> DEFINE s1 == [NoSession EXCEPT !.on = b]
           s2 == [s1 EXCEPT !.tx = t]
           s3 == [s2 EXCEPT !.entry = e]
<1>1. IsSession(s1) /\ s1.on = b
  BY NoSessionIs DEF IsSession
<1>2. IsSession(s2) /\ s2.on = b /\ s2.tx = t
  <2> HIDE DEF s1
  <2> QED BY <1>1 DEF IsSession
<1>3. IsSession(s3) /\ s3.on = b /\ s3.tx = t
  <2> HIDE DEF s2
  <2> QED BY <1>2 DEF IsSession
<1>4. [NoSession EXCEPT !.on = TRUE, !.tx = t, !.entry = e] = s3
  BY <1>b, Zenon
<1>5. s3.on
  <2> HIDE DEF s3
  <2> QED BY <1>b, <1>3, Zenon
<1> QED
  <2> HIDE DEF s3
  <2> QED BY <1>3, <1>4, <1>5, Zenon

LEMMA BareSession ==
  LET s == [NoSession EXCEPT !.on = TRUE] IN IsSession(s)
<1>b. PICK b : b = TRUE
  OBVIOUS
<1> DEFINE s == [NoSession EXCEPT !.on = b]
<1>1. IsSession(s)
  BY NoSessionIs DEF IsSession
<1>2. [NoSession EXCEPT !.on = TRUE] = s
  BY <1>b, Zenon
<1> QED
  <2> HIDE DEF s
  <2> QED BY <1>1, <1>2, Zenon

(* No transaction is active before the start, and the new one is the session's. *)
LEMMA StartStep == ActiveInv /\ StartTransaction => ActiveInv'
<1> SUFFICES ASSUME ActiveInv, StartTransaction PROVE ActiveInv'
  OBVIOUS
<1>1. Active = {}
  BY Zenon DEF ActiveInv, OneActive, StartTransaction
<1>2. StopActive(clock + 1) = files
  BY <1>1, Zenon DEF StopActive
<1>3. CASE Vacant = {}
  <2>1. UNCHANGED files
    BY <1>2, <1>3, Zenon DEF StartTransaction, EnqueueStart
  <2>2. session' = [NoSession EXCEPT !.on = TRUE]
    BY <1>3, Zenon DEF StartTransaction
  <2>3. Active' = {}
    BY <1>1, <2>1, Zenon DEF Active
  <2>4. AllFiles'
    BY <2>1, Zenon DEF ActiveInv, AllFiles
  <2> QED BY <2>2, <2>3, <2>4, BareSession, Zenon DEF ActiveInv, OneEntry, OneActive
<1>4. CASE Vacant # {}
  <2> DEFINE v == VacantEntry
             f == Started(clock')
  <2>1. files' = [files EXCEPT ![v] = f]
    BY <1>2, <1>4, Zenon DEF StartTransaction, EnqueueStart
  <2>2. session' = [NoSession EXCEPT !.on = TRUE, !.tx = clock', !.entry = v]
    BY <1>4, Zenon DEF StartTransaction
  <2>3. IsSession(session') /\ session'.on /\ session'.tx = clock'
    <3> PICK t : t = clock'
      OBVIOUS
    <3> QED BY <2>2, NewSession, Zenon
  <2>4. IsFile(f) /\ f.start = clock'
    BY StartedActive, Zenon
  <2> HIDE DEF v, f
  <2>5. ASSUME NEW e \in Entry PROVE files'[e] = IF e = v THEN f ELSE files[e]
    BY <2>1 DEF ActiveInv, AllFiles
  <2>6. AllFiles'
    <3>1. files' = [e \in Entry |-> files'[e]]
      BY <2>1 DEF ActiveInv, AllFiles
    <3>2. ASSUME NEW e \in Entry PROVE IsFile(files'[e])
      BY <2>4, <2>5, Zenon DEF ActiveInv, AllFiles
    <3> QED BY <3>1, <3>2, Zenon DEF AllFiles
  <2>7. ASSUME NEW e \in Active' PROVE e = v /\ files'[e].start = clock'
    BY <1>1, <2>4, <2>5, <2>7, Zenon DEF Active
  <2> QED BY <2>3, <2>6, <2>7, Zenon DEF ActiveInv, OneEntry, OneActive
<1> QED BY <1>3, <1>4

LEMMA StopStep == ActiveInv /\ StopTransaction => ActiveInv'
<1> SUFFICES ASSUME ActiveInv, StopTransaction PROVE ActiveInv'
  OBVIOUS
<1>1. Tamed /\ Active' = {}
  BY StopTamed, Zenon DEF StopTransaction, EnqueueStop, ActiveInv
<1>2. AllFiles'
  BY <1>1, Zenon DEF Tamed, Tame, AllFiles
<1> QED BY <1>1, <1>2, NoSessionIs, Zenon
        DEF ActiveInv, OneEntry, OneActive, StopTransaction

LEMMA ValidSession ==
  ASSUME NEW s, IsSession(s)
  PROVE  LET v == [s EXCEPT !.valid = TRUE] IN IsSession(v) /\ v.on = s.on /\ v.tx = s.tx
<1>b. PICK b : b = TRUE
  OBVIOUS
<1> DEFINE v == [s EXCEPT !.valid = b]
<1>1. IsSession(v) /\ v.on = s.on /\ v.tx = s.tx
  BY DEF IsSession
<1>2. [s EXCEPT !.valid = TRUE] = v
  BY <1>b, Zenon
<1> QED
  <2> HIDE DEF v
  <2> QED BY <1>1, <1>2, Zenon

LEMMA LearntSession ==
  ASSUME NEW s, IsSession(s), NEW i
  PROVE  LET v == [s EXCEPT !.id = i, !.valid = TRUE]
         IN IsSession(v) /\ v.on = s.on /\ v.tx = s.tx
<1> DEFINE s1 == [s EXCEPT !.id = i]
<1>1. IsSession(s1) /\ s1.on = s.on /\ s1.tx = s.tx
  BY DEF IsSession
<1>2. [s EXCEPT !.id = i, !.valid = TRUE] = [s1 EXCEPT !.valid = TRUE]
  BY Zenon
<1> HIDE DEF s1
<1> QED BY <1>1, <1>2, ValidSession, Zenon

LEMMA LearnStep == ActiveInv /\ LearnId => ActiveInv'
<1> SUFFICES ASSUME ActiveInv, LearnId PROVE ActiveInv'
  OBVIOUS
<1>0. AllFiles /\ IsSession(session)
  BY Zenon DEF ActiveInv
<1>1. Tamed
  <2>1. CASE UNCHANGED store
    BY <1>0, <2>1, UnchangedTamed, Zenon DEF store
  <2>2. CASE SetRealId(answered.entry, answered.tx)
    BY <1>0, <2>2, IdTamed, Zenon
  <2> QED BY <2>1, <2>2, Zenon DEF LearnId
<1>2. IsSession(session') /\ session'.on = session.on /\ session'.tx = session.tx
  <2>1. CASE session' = session
    BY <1>0, <2>1, Zenon
  <2>2. CASE session' = [session EXCEPT !.id = answered.tx, !.valid = TRUE]
    <3> PICK s, i : s = session /\ i = answered.tx
      OBVIOUS
    <3> QED BY <1>0, <2>2, LearntSession, Zenon
  <2> QED BY <2>1, <2>2, Zenon DEF LearnId
<1> QED BY <1>1, <1>2, TamedKeeps, Zenon

LEMMA RejectStep == ActiveInv /\ Rejected => ActiveInv'
<1> SUFFICES ASSUME ActiveInv, Rejected PROVE ActiveInv'
  OBVIOUS
<1>0. AllFiles /\ IsSession(session)
  BY Zenon DEF ActiveInv
<1>1. Tamed
  BY <1>0, ConfirmTamed, Zenon DEF Rejected
<1>2. IsSession(session') /\ session'.on = session.on /\ session'.tx = session.tx
  <2>1. CASE session' = session
    BY <1>0, <2>1, Zenon
  <2>2. CASE session' = [session EXCEPT !.valid = TRUE]
    <3> PICK s : s = session
      OBVIOUS
    <3> QED BY <1>0, <2>2, ValidSession, Zenon
  <2> QED BY <2>1, <2>2, Zenon DEF Rejected
<1> QED BY <1>1, <1>2, TamedKeeps, Zenon

(* A restart finds the session of the active file, which is the only one. *)
LEMMA RestartStep == ActiveInv /\ Restart => ActiveInv'
<1> SUFFICES ASSUME ActiveInv, Restart PROVE ActiveInv'
  OBVIOUS
<1>1. UNCHANGED files /\ session' = Restored
  BY Zenon DEF Restart, Booted
<1>2. AllFiles' /\ OneEntry' /\ Active' = Active
  BY <1>1, Zenon DEF ActiveInv, AllFiles, OneEntry, Active
<1>3. CASE Active = {}
  <2>1. session' = NoSession
    BY <1>1, <1>3, Zenon DEF Restored
  <2> QED BY <1>2, <1>3, <2>1, NoSessionIs, Zenon DEF ActiveInv, OneActive
<1>4. CASE Active # {}
  <2> DEFINE f == files[ActiveEntry]
  <2>1. PICK v : session' = [on |-> TRUE, tx |-> f.start, entry |-> NoEntry, id |-> f.id,
                             valid |-> v]
    BY <1>1, <1>4, Zenon DEF Restored
  <2>2. IsSession(session') /\ session'.on /\ session'.tx = f.start
    <3> HIDE DEF f
    <3> QED BY <2>1 DEF IsSession
  <2>3. ActiveEntry \in Active
    BY <1>4, Zenon DEF ActiveEntry
  <2>4. \A e \in Active' : e = ActiveEntry
    BY <1>2, <2>3, Zenon DEF ActiveInv, OneEntry
  <2>5. OneActive'
    BY <1>1, <2>2, <2>4, Zenon DEF OneActive
  <2> QED BY <1>2, <2>2, <2>5, Zenon DEF ActiveInv
<1> QED BY <1>3, <1>4

LEMMA ActiveInit == Init => ActiveInv
<1> SUFFICES ASSUME Init PROVE ActiveInv
  OBVIOUS
<1>1. files = [e \in Entry |-> NoFile] /\ session = NoSession
  BY Zenon DEF Init, StoreInit
<1>2. IsFile(NoFile) /\ ~NoFile.active
  BY DEF IsFile, NoFile
<1>3. AllFiles /\ Active = {}
  BY <1>1, <1>2, Zenon DEF AllFiles, Active
<1> QED BY <1>1, <1>3, NoSessionIs, Zenon DEF ActiveInv, OneEntry, OneActive

LEMMA ActiveNext == ActiveInv /\ [Next]_vars => ActiveInv'
<1> SUFFICES ASSUME ActiveInv, [Next]_vars PROVE ActiveInv'
  OBVIOUS
<1>0. AllFiles /\ IsSession(session)
  BY Zenon DEF ActiveInv
<1>keep. ASSUME Tamed, UNCHANGED session PROVE ActiveInv'
  BY <1>0, <1>keep, TamedKeeps, Zenon
<1>1. CASE StartTransaction
  BY <1>1, StartStep
<1>2. CASE StopTransaction
  BY <1>2, StopStep
<1>3. CASE SampleQueued \/ TakeMessage \/ Count \/ UNCHANGED vars
  <2>1. UNCHANGED <<files, session>>
    BY <1>3, Zenon
       DEF SampleQueued, QueueSend, TakeMessage, GetNextMessage, Count, CountMessages, vars, store
  <2> QED BY <1>0, <1>keep, <2>1, UnchangedTamed, Zenon
<1>4. CASE SampleStored
  BY <1>0, <1>4, <1>keep, MeterTamed, Zenon DEF SampleStored
<1>5. CASE TakeFails
  BY <1>0, <1>5, <1>keep, GetNextTamed, Zenon DEF TakeFails
<1>6. CASE Accepted
  BY <1>0, <1>6, <1>keep, ConfirmTamed, Zenon DEF Accepted
<1>7. CASE LearnId
  BY <1>7, LearnStep
<1>8. CASE Rejected
  BY <1>8, RejectStep
<1>9. CASE Clear
  BY <1>0, <1>9, <1>keep, ClearTamed, Zenon DEF Clear
<1>10. CASE Restart
  BY <1>10, RestartStep
<1> QED BY <1>1, <1>2, <1>3, <1>4, <1>5, <1>6, <1>7, <1>8, <1>9, <1>10, Zenon DEF Next

(* At most one file is active, and it is the session's: find_active_entry, *)
(* which takes the first active file it meets, finds the session's, in     *)
(* every run of the two tasks with any faults and restarts.                *)
THEOREM ActiveIsSession == Spec => []OneActive
<1>1. ActiveInv => OneActive
  BY Zenon DEF ActiveInv
<1> QED BY ActiveInit, ActiveNext, <1>1, PTL DEF Spec

\* A message from a file that is out for an answer is the loaded one.
CallInv ==
    /\ call # NoCall /\ last_from_file /\ loaded.entry # NoEntry =>
         loaded.data /\ Message(call) = Message(loaded.call)
    /\ call # NoCall /\ ~last_from_file => call.kind = "meter"

ClientInv ==
    /\ session \in [on : BOOLEAN, tx : Nat, entry : Entry \cup {NoEntry}, id : Id, valid : BOOLEAN]
    /\ call \in CallType
    /\ answered \in [entry : Entry \cup {NoEntry}, tx : Nat]
    /\ owed \subseteq {"start", "meter", "stop"} \X Nat
    /\ assigned \subseteq Nat

\* Starts and stops are on file until they are settled.
OwedInv == \A m \in owed : m[1] # "meter" => m \in Pending

StoreInv == FilesInv /\ CacheInv /\ LoadedInv /\ QueueInv /\ RingInv /\ ClientInv /\ CallInv
            /\ OwedInv /\ NothingLost

\* Files that have only been added to.
LEMMA Grown ==
  ASSUME FilesInv, LoadedInv, CallInv, NEW new, files' = new, new = [e \in Entry |-> new[e]],
         \A e \in Entry : Adds(files[e], new[e]),
         UNCHANGED <<loaded, call, last_from_file>>
  PROVE  FilesInv' /\ LoadedInv' /\ CallInv' /\ Pending \subseteq Pending'
<1>1. \A e \in Entry : IsRight(new[e]) /\ new[e] \in FileType
  BY DEF Adds, IsRight
<1>2. FilesInv'
  BY <1>1 DEF FilesInv
<1>3. LoadedRight(loaded, new)
  <2> SUFFICES ASSUME loaded.data PROVE LoadedRight(loaded, new)
    BY DEF LoadedRight
  <2> PICK e : e = loaded.entry
    OBVIOUS
  <2>1. e \in Entry /\ NextKind(files[e]) # "none"
        /\ Message(loaded.call) = <<NextKind(files[e]), NextNo(files[e])>>
        /\ loaded.next = files[e].conf + 1
    BY DEF LoadedInv, LoadedRight
  <2>2. NextKind(new[e]) = NextKind(files[e]) /\ NextNo(new[e]) = NextNo(files[e])
        /\ new[e].conf = files[e].conf
    BY <2>1 DEF Adds
  <2> QED BY <2>1, <2>2, Zenon DEF LoadedRight
<1>4. LoadedInv'
  BY <1>3 DEF LoadedInv
<1>5. CallInv'
  BY Zenon DEF CallInv
<1>6. ASSUME NEW e \in Entry, NEW m \in PendingIn(files[e]) PROVE m \in Pending'
  <2>1. m \in PendingIn(files'[e])
    BY <1>6 DEF Adds
  <2> QED BY <2>1 DEF Pending
<1>7. Pending \subseteq Pending'
  BY <1>6 DEF Pending
<1> QED BY <1>2, <1>4, <1>5, <1>7

LEMMA OwedMore ==
  ASSUME OwedInv, NothingLost, Pending \subseteq Pending', Queued \subseteq Queued', call' = call,
         NEW N, owed' = owed \cup N,
         \A m \in N : m \in Pending' \/ (m[1] = "meter" /\ m \in Queued')
  PROVE  OwedInv' /\ NothingLost'
<1>1. Message(call)' = Message(call)
  BY DEF Message
<1>2. \A m \in owed' : m \in Pending' \cup Queued' \cup {Message(call)'}
  BY <1>1 DEF NothingLost
<1>3. \A m \in owed' : m[1] # "meter" => m \in Pending'
  BY DEF OwedInv
<1> QED BY <1>2, <1>3 DEF OwedInv, NothingLost

LEMMA OwedLess ==
  ASSUME OwedInv, NothingLost, owed' \subseteq owed,
         \A m \in owed' : m \in Pending => m \in Pending',
         \A m \in owed' : m \in Queued \cup {Message(call)} =>
             m \in Pending' \cup Queued' \cup {Message(call)'}
  PROVE  OwedInv' /\ NothingLost'
<1>2. \A m \in owed' : m \in Pending' \cup Queued' \cup {Message(call)'}
  BY DEF NothingLost
<1>3. \A m \in owed' : m[1] # "meter" => m \in Pending'
  BY DEF OwedInv
<1> QED BY <1>2, <1>3 DEF OwedInv, NothingLost

-----------------------------------------------------------------------------
(* The session task.                                                       *)

SessionType == [on : BOOLEAN, tx : Nat, entry : Entry \cup {NoEntry}, id : Id, valid : BOOLEAN]

LEMMA NoSessionType == NoSession \in SessionType
BY DEF NoSession, SessionType, Id

LEMMA StopKeeps == ASSUME StoreInv, StopTransaction PROVE StoreInv'
<1>0. FilesInv /\ CacheInv /\ LoadedInv /\ QueueInv /\ RingInv /\ ClientInv /\ CallInv /\ OwedInv /\ NothingLost
  BY DEF StoreInv
<1>1. clock' = clock + 1 /\ clock < MaxNo /\ files' = StopActive(clock')
      /\ UNCHANGED <<oldest, loaded, queue, ring, last_from_file, call, answered, assigned>>
      /\ session' = NoSession
      /\ owed' = IF Active = {} THEN owed ELSE owed \cup {<<"stop", clock'>>}
  BY DEF StopTransaction, EnqueueStop
<1> PICK n : n = clock'
  OBVIOUS
<1>2. n \in Nat \ {0} /\ clock <= n /\ n <= MaxNo
  BY <1>0, <1>1, MaxNoType DEF RingInv
<1> PICK new : new = files'
  OBVIOUS
<1>3. new = StopActive(n)
  BY <1>1
<1>4. /\ new = [e \in Entry |-> new[e]]
      /\ \A e \in Entry : Adds(files[e], new[e])
      /\ Active # {} => <<"stop", n>> \in PendingIn(new[ActiveEntry])
  BY <1>0, <1>2, <1>3, StopActiveAdds
<1>5. FilesInv' /\ LoadedInv' /\ CallInv' /\ Pending \subseteq Pending'
  BY <1>0, <1>1, <1>4, Grown
<1>6. OwedInv' /\ NothingLost'
  <2> PICK N : N = IF Active = {} THEN {} ELSE {<<"stop", n>>}
    OBVIOUS
  <2>1. owed' = owed \cup N
    BY <1>1
  <2>2. \A m \in N : m \in Pending'
    BY <1>4, ActiveIs DEF Pending
  <2>3. Queued' = Queued /\ call' = call
    BY <1>1, SameQueued
  <2> QED BY <1>0, <1>5, <2>1, <2>2, <2>3, OwedMore
<1>7. RingInv'
  BY <1>0, <1>1, <1>2, SameRing
<1>8. ClientInv'
  <2>1. NoSession \in SessionType
    BY NoSessionType
  <2>2. owed' \subseteq {"start", "meter", "stop"} \X Nat
    BY <1>0, <1>1, <1>2 DEF ClientInv
  <2> QED BY <1>0, <1>1, <2>1, <2>2 DEF ClientInv, SessionType
<1>9. CacheInv' /\ QueueInv'
  BY <1>0, <1>1 DEF CacheInv, QueueInv
<1> QED BY <1>5, <1>6, <1>7, <1>8, <1>9 DEF StoreInv

LEMMA StartKeeps == ASSUME StoreInv, StartTransaction PROVE StoreInv'
<1>0. FilesInv /\ CacheInv /\ LoadedInv /\ QueueInv /\ RingInv /\ ClientInv /\ CallInv /\ OwedInv /\ NothingLost
  BY DEF StoreInv
<1>1. /\ clock + 1 < MaxNo
      /\ clock' = IF Active = {} THEN clock + 1 ELSE clock + 2
      /\ UNCHANGED <<oldest, loaded, queue, ring, last_from_file, call, answered, assigned>>
  BY DEF StartTransaction, EnqueueStart
<1> PICK n : n = clock'
  OBVIOUS
<1>2. n \in Nat \ {0} /\ clock <= n /\ n <= MaxNo /\ clock + 1 \in Nat \ {0}
  BY <1>0, <1>1, MaxNoType DEF RingInv
<1> PICK old : old = StopActive(clock + 1)
  OBVIOUS
<1>3. /\ old = [e \in Entry |-> old[e]]
      /\ \A e \in Entry : Adds(files[e], old[e])
      /\ Active # {} => <<"stop", clock + 1>> \in PendingIn(old[ActiveEntry])
      /\ \A e \in Entry : (Active = {} \/ e # ActiveEntry) => old[e] = files[e]
  BY <1>0, <1>2, StopActiveAdds
<1> PICK new : new = files'
  OBVIOUS
<1> PICK v : v = VacantEntry
  OBVIOUS
<1>4. new = IF Vacant = {} THEN old ELSE [old EXCEPT ![v] = Started(n)]
  BY Zenon DEF StartTransaction, EnqueueStart
<1>5. /\ new = [e \in Entry |-> new[e]]
      /\ \A e \in Entry : Adds(files[e], new[e])
      /\ Active # {} => <<"stop", clock + 1>> \in PendingIn(new[ActiveEntry])
      /\ Vacant # {} => <<"start", n>> \in PendingIn(new[v])
  <2>1. CASE Vacant = {}
    <3>1. new = old
      BY <1>4, <2>1
    <3> QED BY <1>3, <2>1, <3>1
  <2>2. CASE Vacant # {}
    <3>1. v \in Entry /\ files[v] = NoFile
      BY <1>0, <2>2, VacantIs
    <3>2. new = [e \in Entry |-> IF e = v THEN Started(n) ELSE old[e]]
      BY <1>3, <1>4, <2>2
    <3>3. Active # {} => ActiveEntry \in Entry /\ ActiveEntry # v
      <4>1. ASSUME Active # {} PROVE ActiveEntry \in Entry /\ ActiveEntry # v
        <5>1. ActiveEntry \in Entry /\ files[ActiveEntry].active
          BY <4>1, ActiveIs
        <5>2. files[ActiveEntry].start # 0
          BY <1>0, <5>1, ActiveStarted DEF FilesInv
        <5>3. NoFile.start = 0
          BY DEF NoFile
        <5> QED BY <3>1, <5>1, <5>2, <5>3
      <4> QED BY <4>1
    <3>4. Adds(NoFile, Started(n)) /\ <<"start", n>> \in PendingIn(Started(n))
      BY <1>2, StartedAdds
    <3>5. new[v] = Started(n) /\ \A e \in Entry : e # v => new[e] = old[e]
      BY <3>1, <3>2
    <3>6. new = [e \in Entry |-> new[e]]
      BY <3>2
    <3>7. \A e \in Entry : Adds(files[e], new[e])
      <4> TAKE e \in Entry
      <4>1. CASE e = v
        BY <3>1, <3>4, <3>5, <4>1, Zenon
      <4>2. CASE e # v
        BY <1>3, <3>5, <4>2, Zenon
      <4> QED BY <4>1, <4>2
    <3>8. Active # {} => <<"stop", clock + 1>> \in PendingIn(new[ActiveEntry])
      BY <1>3, <3>3, <3>5, Zenon
    <3>9. <<"start", n>> \in PendingIn(new[v])
      BY <3>4, <3>5, Zenon
    <3> QED BY <3>6, <3>7, <3>8, <3>9, Zenon
  <2> QED BY <2>1, <2>2
<1>6. FilesInv' /\ LoadedInv' /\ CallInv' /\ Pending \subseteq Pending'
  BY <1>0, <1>1, <1>5, Grown
<1> PICK N : N = (IF Vacant = {} THEN {} ELSE {<<"start", n>>})
                 \cup (IF Active = {} THEN {} ELSE {<<"stop", clock + 1>>})
  OBVIOUS
<1>7. owed' = owed \cup N
  <2>1. owed' = owed \cup (IF Vacant = {} THEN {} ELSE {<<"start", clock'>>})
                    \cup (IF Active = {} THEN {} ELSE {<<"stop", clock + 1>>})
    BY Zenon DEF StartTransaction
  <2> QED BY <2>1
<1>8. OwedInv' /\ NothingLost'
  <2>2. \A m \in N : m \in Pending'
    <3> SUFFICES ASSUME NEW m \in N PROVE m \in Pending'
      OBVIOUS
    <3>1. CASE Vacant # {} /\ m = <<"start", n>>
      <4>1. v \in Entry
        BY <1>0, <3>1, VacantIs
      <4> QED BY <1>5, <3>1, <4>1 DEF Pending
    <3>2. CASE Active # {} /\ m = <<"stop", clock + 1>>
      <4>1. ActiveEntry \in Entry
        BY <3>2, ActiveIs
      <4>2. m \in PendingIn(new[ActiveEntry])
        BY <1>5, <3>2
      <4>3. PICK a \in Entry : a = ActiveEntry
        BY <4>1
      <4>4. m \in PendingIn(files'[a])
        BY <4>2, <4>3, Zenon
      <4> QED BY <4>4 DEF Pending
    <3> QED BY <3>1, <3>2
  <2>3. Queued' = Queued /\ call' = call
    BY <1>1, SameQueued
  <2> QED BY <1>0, <1>6, <1>7, <2>2, <2>3, OwedMore
<1>9. RingInv'
  BY <1>0, <1>1, <1>2, SameRing
<1>10. session' \in SessionType
  <2> PICK b : b = TRUE
    OBVIOUS
  <2>1. session' = IF Vacant = {} THEN [NoSession EXCEPT !.on = TRUE]
                   ELSE [NoSession EXCEPT !.on = TRUE, !.tx = n, !.entry = v]
    BY Zenon DEF StartTransaction
  <2> PICK s : s = [NoSession EXCEPT !.on = b]
    OBVIOUS
  <2>2. s \in SessionType
    BY NoSessionType DEF SessionType
  <2>3. CASE Vacant = {}
    BY <2>1, <2>2, <2>3, Zenon
  <2>4. CASE Vacant # {}
    <3>1. v \in Entry
      BY <1>0, <2>4, VacantIs
    <3> PICK s2 : s2 = [s EXCEPT !.tx = n, !.entry = v]
      OBVIOUS
    <3>2. s2 \in SessionType
      BY <1>2, <2>2, <3>1 DEF SessionType
    <3>3. session' = s2
      BY <2>1, <2>4, Zenon
    <3> QED BY <3>2, <3>3
  <2> QED BY <2>3, <2>4
<1>11. ClientInv'
  <2>2. owed' \subseteq {"start", "meter", "stop"} \X Nat
    <3>1. N \subseteq {"start", "meter", "stop"} \X Nat
      BY <1>2
    <3> QED BY <1>0, <1>7, <3>1 DEF ClientInv
  <2> QED BY <1>0, <1>1, <1>10, <2>2 DEF ClientInv, SessionType
<1>12. CacheInv' /\ QueueInv'
  BY <1>0, <1>1 DEF CacheInv, QueueInv
<1> QED BY <1>6, <1>8, <1>9, <1>11, <1>12 DEF StoreInv

LEMMA StoreMeterKeeps == ASSUME StoreInv, SampleStored PROVE StoreInv'
<1>0. FilesInv /\ CacheInv /\ LoadedInv /\ QueueInv /\ RingInv /\ ClientInv /\ CallInv /\ OwedInv /\ NothingLost
  BY DEF StoreInv
<1>1. /\ clock < MaxNo /\ clock' = clock + 1 /\ WriteMeterValue
      /\ UNCHANGED <<oldest, loaded, queue, ring, last_from_file, session, call, answered, assigned>>
      /\ owed' = owed \cup {<<"meter", clock'>>}
  BY DEF SampleStored, WriteMeterValue
<1> PICK n : n = clock'
  OBVIOUS
<1>2. n \in Nat /\ clock <= n /\ n <= MaxNo /\ clock \in Nat
  BY <1>0, <1>1, MaxNoType DEF RingInv
<1>3. AddsAll(files') /\ ActiveEntry \in Entry /\ <<"meter", n>> \in PendingIn(files'[ActiveEntry])
  BY <1>0, <1>1, <1>2, WriteAdds
<1>4. FilesInv' /\ LoadedInv' /\ CallInv' /\ Pending \subseteq Pending'
  BY <1>0, <1>1, <1>3, Grown DEF AddsAll
<1>5. OwedInv' /\ NothingLost'
  <2> PICK N : N = {<<"meter", n>>}
    OBVIOUS
  <2>1. owed' = owed \cup N
    BY <1>1
  <2>2. \A m \in N : m \in Pending'
    BY <1>3 DEF Pending
  <2>3. Queued' = Queued /\ call' = call
    BY <1>1, SameQueued
  <2> QED BY <1>0, <1>4, <2>1, <2>2, <2>3, OwedMore
<1>6. RingInv'
  BY <1>0, <1>1, <1>2, SameRing
<1>7. ClientInv'
  <2>1. owed' \subseteq {"start", "meter", "stop"} \X Nat
    BY <1>0, <1>1, <1>2 DEF ClientInv
  <2> QED BY <1>0, <1>1, <2>1 DEF ClientInv
<1>8. CacheInv' /\ QueueInv'
  BY <1>0, <1>1 DEF CacheInv, QueueInv
<1> QED BY <1>4, <1>5, <1>6, <1>7, <1>8 DEF StoreInv

LEMMA QueueMeterKeeps == ASSUME StoreInv, SampleQueued PROVE StoreInv'
<1>0. FilesInv /\ CacheInv /\ LoadedInv /\ QueueInv /\ RingInv /\ ClientInv /\ CallInv /\ OwedInv /\ NothingLost
  BY DEF StoreInv
<1>1. /\ clock < MaxNo /\ clock' = clock + 1
      /\ UNCHANGED <<files, oldest, loaded, last_from_file, session, call, answered, assigned>>
      /\ owed' = owed \cup {<<"meter", clock'>>}
      /\ ring' = SetTime(ring, clock')
  BY DEF SampleQueued, QueueSend
<1> PICK n : n = clock'
  OBVIOUS
<1>2. n \in Nat /\ clock <= n /\ n <= MaxNo
  BY <1>0, <1>1, MaxNoType DEF RingInv
<1> PICK c : c = Call("meter", session.tx, n, session.id)
  OBVIOUS
<1>3. queue' = Append(queue, c)
  BY DEF SampleQueued, QueueSend
<1>4. c \in CallType /\ c.kind = "meter" /\ c.no = n
  <2>1. session.tx \in Nat /\ session.id \in Id
    BY <1>0 DEF ClientInv
  <2> QED BY <1>2, <2>1 DEF Call, CallType, Kind
<1>5. queue \in Seq(CallType)
  BY <1>0 DEF QueueInv
<1> HIDE DEF CallType
<1>6. /\ queue' \in Seq(CallType) /\ Len(queue') = Len(queue) + 1 /\ Len(queue) \in Nat
      /\ queue'[Len(queue) + 1] = c
      /\ \A i \in 1 .. Len(queue) : queue'[i] = queue[i]
  BY <1>3, <1>4, <1>5
<1>7. QueueInv'
  <2>1. \A i \in 1 .. Len(queue') : queue'[i].kind = "meter"
    BY <1>0, <1>4, <1>6 DEF QueueInv
  <2> QED BY <1>6, <2>1 DEF QueueInv
<1>8. Queued \subseteq Queued' /\ <<"meter", n>> \in Queued'
  <2>1. \A i \in 1 .. Len(queue) : i \in 1 .. Len(queue') /\ queue'[i].no = queue[i].no
    BY <1>6
  <2>2. Len(queue') \in 1 .. Len(queue') /\ queue'[Len(queue')].no = n
    BY <1>4, <1>6
  <2> QED BY <2>1, <2>2 DEF Queued
<1>9. Pending' = Pending
  BY <1>1, SamePending
<1>10. OwedInv' /\ NothingLost'
  <2> PICK N : N = {<<"meter", n>>}
    OBVIOUS
  <2>1. owed' = owed \cup N
    BY <1>1
  <2>2. \A m \in N : m[1] = "meter" /\ m \in Queued'
    BY <1>8
  <2> QED BY <1>0, <1>1, <1>8, <1>9, <2>1, <2>2, OwedMore
<1>11. RingInv'
  BY <1>0, <1>1, <1>2, TimeSet
<1>12. ClientInv'
  <2>2. owed' \subseteq {"start", "meter", "stop"} \X Nat
    BY <1>0, <1>1, <1>2 DEF ClientInv
  <2> QED BY <1>0, <1>1, <2>2 DEF ClientInv
<1>13. FilesInv' /\ CacheInv' /\ LoadedInv' /\ CallInv'
  BY <1>0, <1>1, Zenon DEF FilesInv, CacheInv, LoadedInv, CallInv
<1> QED BY <1>7, <1>10, <1>11, <1>12, <1>13 DEF StoreInv

LEMMA TakeKeeps == ASSUME StoreInv, TakeMessage PROVE StoreInv'
<1>0. FilesInv /\ CacheInv /\ LoadedInv /\ QueueInv /\ RingInv /\ ClientInv /\ CallInv /\ OwedInv /\ NothingLost
  BY DEF StoreInv
<1>1. /\ call = NoCall /\ call' = NextCall /\ loaded' = Loaded
      /\ oldest' = IF loaded.data THEN oldest ELSE OldestKnown
      /\ UNCHANGED <<files, clock, session, answered, owed, assigned>>
  BY DEF TakeMessage, Ready, GetNextMessage
<1>2. \/ FromFile /\ last_from_file' = TRUE /\ UNCHANGED <<queue, ring>>
      \/ ~FromFile /\ queue # <<>> /\ last_from_file' = FALSE /\ queue' = Tail(queue) /\ ring' = GetTime(ring)
      \/ ~FromFile /\ queue = <<>> /\ UNCHANGED <<queue, ring, last_from_file>>
  BY Zenon DEF TakeMessage, GetNextMessage
<1>3. FilesInv' /\ CacheInv'
  BY <1>0, <1>1, CacheKeeps DEF FilesInv
<1>4. Loaded \in LoadedType /\ LoadedRight(Loaded, files)
  BY <1>0, LoadedNext
<1>5. LoadedInv'
  BY <1>1, <1>4 DEF LoadedInv
<1>6. Pending' = Pending
  BY <1>1, SamePending
<1>7. CASE FromFile /\ last_from_file' = TRUE /\ UNCHANGED <<queue, ring>>
  <2>1. Loaded.data
    BY <1>0, <1>7, FromFileLoaded
  <2>2. call' = Loaded.call
    BY <1>1, <1>7 DEF NextCall
  <2>3. CallInv'
    <3>1. loaded'.data /\ call' = loaded'.call
      BY <1>1, <2>1, <2>2, Zenon
    <3>2. Message(call)' = Message(loaded.call)'
      BY <3>1 DEF Message
    <3> QED BY <1>7, <3>1, <3>2, Zenon DEF CallInv
  <2>4. call' \in CallType
    BY <1>4, <2>2, LoadFields
  <2>5. ClientInv'
    BY <1>0, <1>1, <2>4 DEF ClientInv
  <2>6. OwedInv' /\ NothingLost'
    <3>1. \A m \in owed' : m \in Queued \cup {Message(call)} => m \in Queued'
      BY <1>0, <1>1, <1>7, SameQueued, NoCallType DEF ClientInv
    <3> QED BY <1>0, <1>1, <1>6, <3>1, OwedLess
  <2>7. QueueInv'
    BY <1>0, <1>7 DEF QueueInv
  <2>8. RingInv'
    BY <1>0, <1>1, <1>7 DEF RingInv
  <2> QED BY <1>3, <1>5, <2>3, <2>5, <2>6, <2>7, <2>8 DEF StoreInv
<1>8. CASE ~FromFile /\ queue # <<>> /\ last_from_file' = FALSE /\ queue' = Tail(queue) /\ ring' = GetTime(ring)
  <2>1. call' = Head(queue)
    BY <1>1, <1>8 DEF NextCall
  <2>2. queue \in Seq(CallType) /\ \A i \in 1 .. Len(queue) : queue[i].kind = "meter"
    BY <1>0 DEF QueueInv
  <2> HIDE DEF CallType
  <2>3. /\ call' = queue[1] /\ 1 \in 1 .. Len(queue) /\ call' \in CallType
        /\ queue' \in Seq(CallType) /\ Len(queue') = Len(queue) - 1 /\ Len(queue) \in Nat
        /\ \A i \in 1 .. Len(queue') : queue'[i] = queue[i + 1]
    BY <1>8, <2>1, <2>2
  <2>4. call'.kind = "meter"
    BY <2>2, <2>3
  <2>5. QueueInv'
    <3>1. \A i \in 1 .. Len(queue') : queue'[i].kind = "meter"
      BY <2>2, <2>3
    <3> QED BY <2>3, <3>1 DEF QueueInv
  <2>6. CallInv'
    BY <1>8, <2>4, Zenon DEF CallInv
  <2>7. ClientInv'
    BY <1>0, <1>1, <2>3 DEF ClientInv
  <2>8. \A m \in Queued : m \in Queued' \/ m = Message(call)'
    <3> SUFFICES ASSUME NEW m \in Queued PROVE m \in Queued' \/ m = Message(call)'
      OBVIOUS
    <3>1. PICK i \in 1 .. Len(queue) : m = <<"meter", queue[i].no>>
      BY DEF Queued
    <3>2. CASE i = 1
      BY <2>3, <2>4, <3>1, <3>2 DEF Message
    <3>3. CASE i # 1
      <4>1. i - 1 \in 1 .. Len(queue') /\ queue'[i - 1] = queue[i]
        BY <2>3, <3>3
      <4> QED BY <3>1, <4>1 DEF Queued
    <3> QED BY <3>2, <3>3
  <2>9. OwedInv' /\ NothingLost'
    <3>1. \A m \in owed' : m \in Queued \cup {Message(call)} => m \in Queued' \cup {Message(call)'}
      <4>1. \A m \in owed' : m # Message(call)
        BY <1>0, <1>1, NoCallType DEF ClientInv
      <4> QED BY <2>8, <4>1
    <3> QED BY <1>0, <1>1, <1>6, <3>1, OwedLess
  <2>10. RingInv'
    BY <1>0, <1>1, <1>8, TimeGot
  <2> QED BY <1>3, <1>5, <2>5, <2>6, <2>7, <2>9, <2>10 DEF StoreInv
<1>9. CASE ~FromFile /\ queue = <<>> /\ UNCHANGED <<queue, ring, last_from_file>>
  <2>1. call' = NoCall
    BY <1>1, <1>9 DEF NextCall
  <2>2. CallInv'
    BY <2>1, Zenon DEF CallInv, NoCall, Call
  <2>3. ClientInv'
    BY <1>0, <1>1, <2>1, NoCallType DEF ClientInv
  <2>4. OwedInv' /\ NothingLost'
    <3>1. \A m \in owed' : m \in Queued \cup {Message(call)} => m \in Queued'
      BY <1>0, <1>1, <1>9, SameQueued, NoCallType DEF ClientInv
    <3> QED BY <1>0, <1>1, <1>6, <3>1, OwedLess
  <2>5. QueueInv'
    BY <1>0, <1>9 DEF QueueInv
  <2>6. RingInv'
    BY <1>0, <1>1, <1>9 DEF RingInv
  <2> QED BY <1>3, <1>5, <2>2, <2>3, <2>4, <2>5, <2>6 DEF StoreInv
<1> QED BY <1>2, <1>7, <1>8, <1>9

LEMMA TakeFailsKeeps == ASSUME StoreInv, TakeFails PROVE StoreInv'
<1>0. FilesInv /\ CacheInv /\ LoadedInv /\ QueueInv /\ RingInv /\ ClientInv /\ CallInv /\ OwedInv /\ NothingLost
  BY DEF StoreInv
<1> PICK e : e = Loaded.entry
  OBVIOUS
<1> PICK new : new = files'
  OBVIOUS
<1>1. /\ call = NoCall /\ FromFile
      /\ loaded' = [Loaded EXCEPT !.data = FALSE, !.entry = NoEntry]
      /\ oldest' = IF loaded.data THEN oldest ELSE OldestKnown
      /\ new = [files EXCEPT ![e] = GivenUp(files[e])]
      /\ owed' = owed \cap (Pending' \cup Queued')
      /\ UNCHANGED <<queue, ring, last_from_file, clock, session, call, answered, assigned>>
  BY Zenon DEF TakeFails, Ready, GetNextFails
<1>2. Loaded \in LoadedType /\ LoadedRight(Loaded, files) /\ Loaded.data
  BY <1>0, <1>1, LoadedNext, FromFileLoaded
<1>3. e \in Entry /\ NextKind(files[e]) # "none"
  BY <1>2, Zenon DEF LoadedRight
<1>4. IsRight(GivenUp(files[e]))
  <2>1. IsRight(files[e])
    BY <1>0, <1>3 DEF FilesInv
  <2>2. files[e].start # 0
    BY <1>3, <2>1, NextKinds
  <2> QED BY <2>1, <2>2, GivenUpRight
<1>5. FilesInv'
  <2>1. GivenUp(files[e]) \in FileType
    BY <1>4, Zenon DEF IsRight
  <2> PICK g : g = GivenUp(files[e])
    OBVIOUS
  <2>2. files \in [Entry -> FileType] /\ \A d \in Entry : IsRight(files[d])
    BY <1>0 DEF FilesInv
  <2>3. new \in [Entry -> FileType] /\ new[e] = g /\ \A d \in Entry : d # e => new[d] = files[d]
    <3> HIDE DEF FileType
    <3> QED BY <1>1, <1>3, <2>1, <2>2
  <2>4. \A d \in Entry : IsRight(new[d])
    BY <1>4, <2>2, <2>3, Zenon
  <2> QED BY <2>3, <2>4 DEF FilesInv
<1>6. CacheInv'
  BY <1>0, <1>1, CacheKeeps
<1>7. loaded' \in LoadedType /\ ~loaded'.data /\ loaded'.entry = NoEntry
  <2>1. loaded' = LoadLit(FALSE, NoEntry, Loaded.time, Loaded.call, Loaded.next)
    BY <1>1, <1>2, UnloadIs, Zenon
  <2>2. Loaded.time \in Nat
    BY <1>2, LoadFields
  <2>3. IsUnloaded(loaded', NoEntry, Loaded.time)
    <3>1. NoEntry \in Entry \cup {NoEntry}
      OBVIOUS
    <3> QED BY <1>2, <2>1, <2>2, <3>1, UnloadFields, Zenon
  <2> QED BY <2>3, Zenon DEF IsUnloaded
<1>8. LoadedInv'
  BY <1>7, Zenon DEF LoadedInv, LoadedRight
<1>9. CallInv'
  BY <1>1, Zenon DEF CallInv
<1>10. \A m \in owed' : m \in Pending' \cup Queued'
  BY <1>1
<1>11. OwedInv' /\ NothingLost'
  <2>1. Queued' = Queued
    BY <1>1, SameQueued
  <2>2. \A m \in owed' : m[1] # "meter" => m \in Pending'
    BY <1>10, <2>1, QueuedMeters
  <2> QED BY <1>10, <2>2 DEF OwedInv, NothingLost
<1>12. ClientInv'
  <2>1. owed' \subseteq owed
    BY <1>1
  <2> QED BY <1>0, <1>1, <2>1 DEF ClientInv
<1>13. QueueInv' /\ RingInv'
  BY <1>0, <1>1 DEF QueueInv, RingInv
<1> QED BY <1>5, <1>6, <1>8, <1>9, <1>11, <1>12, <1>13 DEF StoreInv

\* Confirming takes the message that is out for an answer and no other.
LEMMA ConfirmKeeps ==
  ASSUME StoreInv, call # NoCall, ConfirmLast, call' = NoCall, owed' = owed \ {Message(call)}
  PROVE  FilesInv' /\ CacheInv' /\ LoadedInv' /\ QueueInv' /\ RingInv' /\ CallInv' /\ OwedInv' /\ NothingLost'
<1>0. FilesInv /\ CacheInv /\ LoadedInv /\ QueueInv /\ RingInv /\ ClientInv /\ CallInv /\ OwedInv /\ NothingLost
  BY DEF StoreInv
<1>1. UNCHANGED <<oldest, queue, ring, last_from_file, clock>>
  BY DEF ConfirmLast
<1>2. CacheInv' /\ QueueInv' /\ RingInv'
  BY <1>0, <1>1 DEF CacheInv, QueueInv, RingInv
<1>3. CallInv'
  BY Zenon DEF CallInv
<1>4. Queued' = Queued
  BY <1>1, SameQueued
<1>5. ASSUME \A m \in Pending : m \in Pending' \/ m = Message(call)
      PROVE  OwedInv' /\ NothingLost'
  <2>1. \A m \in owed' : m \in Pending => m \in Pending'
    BY <1>5
  <2>2. \A m \in owed' : m \in Queued \cup {Message(call)} => m \in Queued'
    BY <1>4
  <2> QED BY <1>0, <2>1, <2>2, OwedLess
<1>6. CASE last_from_file /\ loaded.entry # NoEntry
  <2> PICK e : e = loaded.entry
    OBVIOUS
  <2> PICK f : f = files[e]
    OBVIOUS
  <2> PICK new : new = files'
    OBVIOUS
  <2>1. loaded.data /\ Message(call) = Message(loaded.call)
    BY <1>0, <1>6, Zenon DEF CallInv
  <2>2. /\ e \in Entry /\ NextKind(f) # "none"
        /\ Message(loaded.call) = <<NextKind(f), NextNo(f)>> /\ loaded.next = f.conf + 1
        /\ loaded \in LoadedType
    BY <1>0, <2>1, Zenon DEF LoadedInv, LoadedRight
  <2>3. loaded.call.kind = NextKind(f)
    BY <2>2 DEF Message
  <2>4. IsRight(f)
    BY <1>0, <2>2 DEF FilesInv
  <2>5. f # NoFile
    BY <2>2, NoFileRight
  <2>6. new = [files EXCEPT ![e] = Confirmed(f)] /\ loaded' = [loaded EXCEPT !.data = FALSE]
    BY <1>6, <2>5, Zenon DEF ConfirmLast
  <2>7. IsRight(Confirmed(f)) /\ \A m \in PendingIn(f) : m \in PendingIn(Confirmed(f)) \/ m = <<NextKind(f), NextNo(f)>>
    BY <2>2, <2>3, <2>4, ConfirmedLoses
  <2> PICK g : g = Confirmed(f)
    OBVIOUS
  <2>8. files \in [Entry -> FileType] /\ \A d \in Entry : IsRight(files[d])
    BY <1>0 DEF FilesInv
  <2>9. g \in FileType
    BY <2>7 DEF IsRight
  <2>10. new \in [Entry -> FileType] /\ new[e] = g /\ \A d \in Entry : d # e => new[d] = files[d]
    <3> HIDE DEF FileType
    <3> QED BY <2>2, <2>6, <2>8, <2>9
  <2>11. FilesInv'
    <3>1. \A d \in Entry : IsRight(new[d])
      BY <2>7, <2>8, <2>10, Zenon
    <3> QED BY <2>10, <3>1 DEF FilesInv
  <2>12. LoadedInv'
    <3>1. loaded' = LoadLit(FALSE, e, loaded.time, loaded.call, loaded.next)
      BY <2>2, <2>6, UnloadIs, Zenon
    <3>2. loaded.time \in Nat /\ e \in Entry \cup {NoEntry}
      BY <2>2, LoadFields
    <3>3. IsUnloaded(loaded', e, loaded.time)
      BY <2>2, <3>1, <3>2, UnloadFields, Zenon
    <3> QED BY <3>3, Zenon DEF IsUnloaded, LoadedInv, LoadedRight
  <2>13. \A m \in Pending : m \in Pending' \/ m = Message(call)
    <3> SUFFICES ASSUME NEW m \in Pending, m # Message(call) PROVE m \in Pending'
      OBVIOUS
    <3>1. PICK d \in Entry : m \in PendingIn(files[d])
      BY DEF Pending
    <3>2. m \in PendingIn(new[d])
      BY <2>1, <2>2, <2>7, <2>10, <3>1, Zenon
    <3> QED BY <3>2 DEF Pending
  <2> QED BY <1>2, <1>3, <1>5, <2>11, <2>12, <2>13
<1>7. CASE ~(last_from_file /\ loaded.entry # NoEntry)
  <2>1. UNCHANGED <<files, loaded>>
    BY <1>7 DEF ConfirmLast
  <2>2. Pending' = Pending
    BY <2>1, SamePending
  <2>3. FilesInv' /\ LoadedInv'
    BY <1>0, <2>1 DEF FilesInv, LoadedInv
  <2> QED BY <1>2, <1>3, <1>5, <2>2, <2>3
<1> QED BY <1>6, <1>7

LEMMA AcceptKeeps == ASSUME StoreInv, Accepted PROVE StoreInv'
<1>1. /\ call # NoCall /\ ConfirmLast /\ call' = NoCall /\ owed' = owed \ {Message(call)}
      /\ UNCHANGED session
  BY DEF Accepted
<1>2. FilesInv' /\ CacheInv' /\ LoadedInv' /\ QueueInv' /\ RingInv' /\ CallInv' /\ OwedInv' /\ NothingLost'
  BY <1>1, ConfirmKeeps
<1>3. ClientInv /\ call.tx \in Nat
  BY DEF StoreInv, ClientInv, CallType
<1>4. loaded.entry \in Entry \cup {NoEntry}
  BY LoadFields DEF StoreInv, LoadedInv
<1>5. answered' \in [entry : Entry \cup {NoEntry}, tx : Nat]
  <2>1. NoAnswer \in [entry : Entry \cup {NoEntry}, tx : Nat]
    BY DEF NoAnswer
  <2>2. [entry |-> loaded.entry, tx |-> call.tx] \in [entry : Entry \cup {NoEntry}, tx : Nat]
    BY <1>3, <1>4
  <2> QED BY <2>1, <2>2, Zenon DEF Accepted
<1>6. assigned' \subseteq Nat
  <2>1. assigned' = assigned \cup {call.tx} \/ assigned' = assigned
    BY Zenon DEF Accepted
  <2> QED BY <1>3, <2>1 DEF ClientInv
<1>7. ClientInv'
  BY <1>1, <1>3, <1>5, <1>6, NoCallType DEF ClientInv
<1> QED BY <1>2, <1>7 DEF StoreInv

LEMMA RejectKeeps == ASSUME StoreInv, Rejected PROVE StoreInv'
<1>1. /\ call # NoCall /\ ConfirmLast /\ call' = NoCall /\ owed' = owed \ {Message(call)}
      /\ UNCHANGED <<answered, assigned>>
  BY DEF Rejected
<1>2. FilesInv' /\ CacheInv' /\ LoadedInv' /\ QueueInv' /\ RingInv' /\ CallInv' /\ OwedInv' /\ NothingLost'
  BY <1>1, ConfirmKeeps
<1>3. ClientInv
  BY DEF StoreInv
<1>4. session' \in SessionType
  <2> PICK b : b = TRUE
    OBVIOUS
  <2>1. session \in SessionType
    BY <1>3 DEF ClientInv, SessionType
  <2>2. [session EXCEPT !.valid = b] \in SessionType
    BY <2>1 DEF SessionType
  <2>3. session' = [session EXCEPT !.valid = b] \/ session' = session
    BY Zenon DEF Rejected
  <2> QED BY <2>1, <2>2, <2>3, Zenon
<1>5. ClientInv'
  BY <1>1, <1>3, <1>4, NoCallType DEF ClientInv, SessionType
<1> QED BY <1>2, <1>5 DEF StoreInv

LEMMA LearnAdds ==
  ASSUME FilesInv, answered.tx \in Id, LearnId
  PROVE  AddsAll(files')
<1>1. CASE session.on
  BY <1>1, SetIdAdds DEF LearnId
<1>2. CASE ~session.on
  <2>1. files' = files
    BY <1>2 DEF LearnId, store
  <2> QED BY <2>1, AddsNothing DEF FilesInv, AddsAll
<1> QED BY <1>1, <1>2

LEMMA LearnKeeps == ASSUME StoreInv, LearnId PROVE StoreInv'
<1>0. FilesInv /\ CacheInv /\ LoadedInv /\ QueueInv /\ RingInv /\ ClientInv /\ CallInv /\ OwedInv /\ NothingLost
  BY DEF StoreInv
<1>1. /\ UNCHANGED <<oldest, loaded, queue, ring, last_from_file, clock, call, owed, assigned>>
      /\ answered' = NoAnswer
  BY DEF LearnId, SetRealId, store
<1> PICK i : i = answered.tx
  OBVIOUS
<1>2. i \in Nat /\ i \in Id
  BY <1>0 DEF ClientInv, Id
<1>3. AddsAll(files')
  BY <1>0, <1>2, LearnAdds
<1>6. FilesInv' /\ LoadedInv' /\ CallInv' /\ Pending \subseteq Pending'
  BY <1>0, <1>1, <1>3, Grown DEF AddsAll
<1>7. OwedInv' /\ NothingLost'
  <2> PICK N : N = {}
    OBVIOUS
  <2>1. owed' = owed \cup N /\ \A m \in N : m \in Pending'
    BY <1>1
  <2>2. Queued' = Queued /\ call' = call
    BY <1>1, SameQueued
  <2> QED BY <1>0, <1>6, <2>1, <2>2, OwedMore
<1>8. session' \in SessionType
  <2> PICK b : b = TRUE
    OBVIOUS
  <2>1. session \in SessionType
    BY <1>0 DEF ClientInv, SessionType
  <2>2. [session EXCEPT !.id = i, !.valid = b] \in SessionType
    BY <1>2, <2>1 DEF SessionType
  <2>3. session' = [session EXCEPT !.id = i, !.valid = b] \/ session' = session
    BY Zenon DEF LearnId
  <2> QED BY <2>1, <2>2, <2>3, Zenon
<1>9. ClientInv'
  <2>1. NoAnswer \in [entry : Entry \cup {NoEntry}, tx : Nat]
    BY DEF NoAnswer
  <2> QED BY <1>0, <1>1, <1>8, <2>1 DEF ClientInv, SessionType
<1>10. CacheInv' /\ QueueInv' /\ RingInv'
  BY <1>0, <1>1 DEF CacheInv, QueueInv, RingInv
<1> QED BY <1>6, <1>7, <1>9, <1>10 DEF StoreInv

\* Steps that leave all but the count as it is.
LEMMA CountKeeps ==
  ASSUME StoreInv,
         UNCHANGED <<files, oldest, loaded, queue, ring, last_from_file, clock,
                     session, call, answered, owed, assigned>>
  PROVE  StoreInv'
<1>0. FilesInv /\ CacheInv /\ LoadedInv /\ QueueInv /\ RingInv /\ ClientInv /\ CallInv /\ OwedInv /\ NothingLost
  BY DEF StoreInv
<1>1. Pending' = Pending /\ Queued' = Queued
  BY SamePending, SameQueued
<1>2. OwedInv' /\ NothingLost'
  BY <1>0, <1>1 DEF OwedInv, NothingLost, Message
<1>3. CallInv'
  BY <1>0, Zenon DEF CallInv
<1>4. FilesInv' /\ CacheInv' /\ LoadedInv' /\ QueueInv' /\ RingInv' /\ ClientInv'
  BY <1>0 DEF FilesInv, CacheInv, LoadedInv, QueueInv, RingInv, ClientInv
<1> QED BY <1>2, <1>3, <1>4 DEF StoreInv

LEMMA ClearKeeps == ASSUME StoreInv, Clear PROVE StoreInv'
<1>0. CacheInv /\ LoadedInv /\ RingInv /\ ClientInv /\ CallInv
  BY DEF StoreInv
<1>1. /\ owed' = {} /\ files' = [e \in Entry |-> NoFile] /\ queue' = <<>>
      /\ loaded' = Unloaded(NoEntry)
      /\ UNCHANGED <<session, call, answered, assigned, oldest, ring, last_from_file, clock>>
  BY DEF Clear, ClearAll
<1>2. FilesInv'
  <2>1. NoFile \in FileType
    BY NoFileIs
  <2> QED BY <1>1, <2>1, NoFileRight DEF FilesInv
<1>3. QueueInv'
  BY <1>1, NoQueue
<1>4. IsUnloaded(loaded', NoEntry, Never)
  <2>1. loaded \in LoadedType
    BY <1>0 DEF LoadedInv
  <2>2. loaded' = LoadLit(FALSE, NoEntry, Never, loaded.call, loaded.next)
    BY <1>1, <2>1, UnloadIs, Zenon DEF Unloaded
  <2>3. NoEntry \in Entry \cup {NoEntry} /\ Never \in Nat
    BY MaxNoType
  <2> QED BY <2>1, <2>2, <2>3, UnloadFields, Zenon
<1>5. LoadedInv'
  BY <1>4, Zenon DEF IsUnloaded, LoadedInv, LoadedRight
<1>6. CallInv'
  BY <1>0, <1>1, <1>4, Zenon DEF CallInv, IsUnloaded
<1>7. OwedInv' /\ NothingLost'
  BY <1>1 DEF OwedInv, NothingLost
<1>8. CacheInv' /\ RingInv' /\ ClientInv'
  BY <1>0, <1>1 DEF CacheInv, RingInv, ClientInv
<1> QED BY <1>2, <1>3, <1>5, <1>6, <1>7, <1>8 DEF StoreInv

LEMMA SessionLit ==
  ASSUME NEW o \in BOOLEAN, NEW t \in Nat, NEW i \in Id, NEW b \in BOOLEAN
  PROVE  [on |-> o, tx |-> t, entry |-> NoEntry, id |-> i, valid |-> b] \in SessionType
BY DEF SessionType

LEMMA RestartKeeps == ASSUME StoreInv, Restart PROVE StoreInv'
<1>0. FilesInv /\ RingInv /\ ClientInv /\ OwedInv
  BY DEF StoreInv
<1>1. /\ Booted /\ session' = Restored /\ call' = NoCall /\ answered' = NoAnswer
      /\ owed' = {m \in owed : m[1] # "meter" \/ m \in Pending}
      /\ UNCHANGED assigned
  BY DEF Restart
<1>2. FilesInv' /\ CacheInv' /\ LoadedInv' /\ QueueInv' /\ RingInv' /\ Pending' = Pending
  BY <1>0, <1>1, BootKeeps
<1>3. CallInv'
  BY <1>1, Zenon DEF CallInv, NoCall, Call
<1>4. OwedInv' /\ NothingLost'
  <2>1. \A m \in owed' : m \in Pending'
    BY <1>0, <1>1, <1>2 DEF OwedInv
  <2> QED BY <2>1 DEF OwedInv, NothingLost
<1>5. Restored \in SessionType
  <2>1. CASE Active = {}
    BY <2>1, NoSessionType DEF Restored
  <2>2. CASE Active # {}
    <3> PICK f : f = files[ActiveEntry]
      OBVIOUS
    <3> PICK b : b = (f.conf # AtStart)
      OBVIOUS
    <3> PICK t : t = TRUE
      OBVIOUS
    <3>1. f.start \in Nat /\ f.id \in Id
      BY <1>0, <2>2, ActiveIs, FileFields DEF FilesInv
    <3> PICK s : s = [on |-> t, tx |-> f.start, entry |-> NoEntry, id |-> f.id, valid |-> b]
      OBVIOUS
    <3>2. Restored = s
      BY <2>2, Zenon DEF Restored
    <3>3. s \in SessionType
      <4>1. t \in BOOLEAN /\ b \in BOOLEAN
        OBVIOUS
      <4> QED BY <3>1, <4>1, SessionLit
    <3> QED BY <3>2, <3>3, Zenon
  <2> QED BY <2>1, <2>2
<1>6. ClientInv'
  <2>1. NoAnswer \in [entry : Entry \cup {NoEntry}, tx : Nat]
    BY DEF NoAnswer
  <2> QED BY <1>0, <1>1, <1>5, <2>1, NoCallType DEF ClientInv, SessionType
<1> QED BY <1>2, <1>3, <1>4, <1>6 DEF StoreInv

LEMMA InitStore == Init => StoreInv
<1> SUFFICES ASSUME Init PROVE StoreInv
  OBVIOUS
<1>1. /\ files = [e \in Entry |-> NoFile] /\ oldest = {} /\ loaded = NothingLoaded /\ queue = <<>>
      /\ ring = EmptyRing /\ clock = 0 /\ session = NoSession /\ call = NoCall
      /\ answered = NoAnswer /\ owed = {} /\ assigned = {}
  BY DEF Init, StoreInit
<1>2. FilesInv /\ CacheInv /\ LoadedInv /\ QueueInv /\ RingInv
  BY EmptyStorage DEF Init
<1>3. CallInv
  BY <1>1, Zenon DEF CallInv
<1>4. ClientInv
  <2>1. NoAnswer \in [entry : Entry \cup {NoEntry}, tx : Nat]
    BY DEF NoAnswer
  <2> QED BY <1>1, <2>1, NoSessionType, NoCallType DEF ClientInv, SessionType
<1> QED BY <1>1, <1>2, <1>3, <1>4 DEF StoreInv, OwedInv, NothingLost

LEMMA StoreNext ==
  ASSUME StoreInv, [Next]_vars
  PROVE  StoreInv'
<1>1. CASE Count
  <2>1. UNCHANGED <<files, oldest, loaded, queue, ring, last_from_file, clock,
                    session, call, answered, owed, assigned>>
    BY <1>1 DEF Count, CountMessages
  <2> QED BY <2>1, CountKeeps
<1>2. CASE UNCHANGED vars
  BY <1>2, CountKeeps DEF vars, store
<1> QED BY <1>1, <1>2, StartKeeps, QueueMeterKeeps, StoreMeterKeeps, StopKeeps, TakeKeeps,
           TakeFailsKeeps, AcceptKeeps, LearnKeeps, RejectKeeps, ClearKeeps, RestartKeeps DEF Next

\* Every message the storage has accepted is on file, in the queue or out for an
\* answer until it is answered, given up, cleared or, in the queue, lost to a
\* restart: ocpp_transaction_confirm_last takes the message handed out and no
\* other, whatever was stored, started or stopped since it was loaded.
THEOREM NothingLostHolds == Spec => []NothingLost
<1>1. StoreInv /\ [Next]_vars => StoreInv'
  BY StoreNext
<1>2. StoreInv => NothingLost
  BY DEF StoreInv
<1> QED BY InitStore, <1>1, <1>2, PTL DEF Spec

-----------------------------------------------------------------------------
(* The order in the store.                                                 *)

LEMMA NobodyActive ==
  ASSUME ActiveInv, ~session.on
  PROVE  Active = {}
BY DEF ActiveInv, OneActive

LEMMA StartOrder ==
  ASSUME StoreInv, ActiveInv, OrderInv, StartTransaction
  PROVE  OrderInv'
<1>1. Active = {} /\ EnqueueStart
  BY NobodyActive DEF StartTransaction
<1>2. FilesInv /\ QueueInv /\ clock \in Nat
  BY DEF StoreInv, RingInv
<1> QED BY <1>1, <1>2, StartOrdered

LEMMA StopOrder ==
  ASSUME StoreInv, OrderInv, StopTransaction
  PROVE  /\ OrderInv' /\ Pending' \subseteq Pending \cup StopMessages(clock') /\ clock' = clock + 1
         /\ Moves(files, files', clock, clock', StopMessages(clock'))
<1>1. EnqueueStop /\ UNCHANGED queue
  BY DEF StopTransaction, EnqueueStop
<1>2. FilesInv /\ QueueInv /\ clock \in Nat /\ TidyAll(files, clock)
  BY DEF StoreInv, RingInv, OrderInv
<1>3. Moves(files, files', clock, clock', StopMessages(clock')) /\ clock' = clock + 1
  BY <1>1, <1>2, StopMoves
<1>4. clock' \in Nat /\ clock <= clock'
  BY <1>2, <1>3
<1> QED BY <1>1, <1>2, <1>3, <1>4, MovesKeep

LEMMA WriteOrder ==
  ASSUME StoreInv, OrderInv, SampleStored
  PROVE  /\ OrderInv' /\ Pending' \subseteq Pending \cup {<<"meter", clock'>>} /\ clock' = clock + 1
         /\ Moves(files, files', clock, clock', {<<"meter", clock'>>})
<1>1. WriteMeterValue /\ UNCHANGED queue
  BY DEF SampleStored, WriteMeterValue
<1>2. FilesInv /\ QueueInv /\ clock \in Nat /\ TidyAll(files, clock)
  BY DEF StoreInv, RingInv, OrderInv
<1>3. Moves(files, files', clock, clock', {<<"meter", clock'>>}) /\ clock' = clock + 1
  BY <1>1, <1>2, WriteMoves
<1>4. clock' \in Nat /\ clock <= clock'
  BY <1>2, <1>3
<1> QED BY <1>1, <1>2, <1>3, <1>4, MovesKeep

LEMMA SendOrder ==
  ASSUME StoreInv, OrderInv, SampleQueued
  PROVE  /\ OrderInv' /\ clock' = clock + 1
         /\ Queued' \subseteq Queued \cup {<<"meter", clock'>>}
         /\ \A i \in 1 .. Len(queue') : queue'[i].no = clock' \/ (i \in 1 .. Len(queue) /\ queue'[i] = queue[i])
<1>1. /\ clock' = clock + 1 /\ UNCHANGED files
      /\ queue' = Append(queue, Call("meter", session.tx, clock', session.id))
  BY DEF SampleQueued, QueueSend
<1>2. clock \in Nat /\ QueueInv /\ session.tx \in Nat /\ session.id \in Id
  BY DEF StoreInv, RingInv, ClientInv
<1> PICK c : c = Call("meter", session.tx, clock', session.id)
  OBVIOUS
<1>3. c \in CallType /\ c.no = clock'
  BY <1>1, <1>2 DEF Call, CallType, Kind
<1>4. OrderInv'
  BY <1>1, <1>2, <1>3, AppendOrder
<1>5. \A i \in 1 .. Len(queue') : queue'[i].no = clock' \/ (i \in 1 .. Len(queue) /\ queue'[i] = queue[i])
  <2>1. queue \in Seq(CallType) /\ queue' = Append(queue, c)
    BY <1>1, <1>2 DEF QueueInv
  <2> QED BY <1>3, <2>1
<1>6. Queued' \subseteq Queued \cup {<<"meter", clock'>>}
  BY <1>5 DEF Queued
<1> QED BY <1>1, <1>4, <1>5, <1>6

LEMMA TakeOrder ==
  ASSUME StoreInv, OrderInv, TakeMessage
  PROVE  OrderInv'
<1>1. UNCHANGED <<files, clock>> /\ (UNCHANGED queue \/ (queue # <<>> /\ queue' = Tail(queue)))
  BY DEF TakeMessage, GetNextMessage
<1>2. clock \in Nat /\ QueueInv
  BY DEF StoreInv, RingInv
<1>3. CASE UNCHANGED queue
  BY <1>1, <1>3 DEF OrderInv, TidyAll, Apart, Line
<1>4. CASE queue # <<>> /\ queue' = Tail(queue)
  BY <1>1, <1>2, <1>4, TailOrder
<1> QED BY <1>1, <1>3, <1>4

LEMMA FailOrder ==
  ASSUME StoreInv, OrderInv, TakeFails
  PROVE  /\ OrderInv' /\ Pending' \subseteq Pending
         /\ Moves(files, files', clock, clock', {})
<1>1. GetNextFails /\ UNCHANGED <<queue, clock>>
  BY DEF TakeFails, GetNextFails
<1>2. FilesInv /\ CacheInv /\ LoadedInv /\ QueueInv /\ RingInv /\ clock \in Nat /\ TidyAll(files, clock)
  BY DEF StoreInv, RingInv, OrderInv
<1>3. Moves(files, files', clock, clock', {})
  BY <1>1, <1>2, GiveUpMoves
<1>4. clock' \in Nat /\ clock <= clock'
  BY <1>1, <1>2
<1> QED BY <1>1, <1>2, <1>3, <1>4, MovesKeep

LEMMA ConfirmOrder ==
  ASSUME StoreInv, OrderInv, call # NoCall, ConfirmLast
  PROVE  /\ OrderInv' /\ Pending' \subseteq Pending
         /\ Moves(files, files', clock, clock', {})
<1>1. UNCHANGED <<queue, clock>>
  BY DEF ConfirmLast
<1>2. FilesInv /\ LoadedInv /\ QueueInv /\ clock \in Nat /\ TidyAll(files, clock)
  BY DEF StoreInv, RingInv, OrderInv
<1>3. last_from_file => loaded.entry = NoEntry \/ loaded.data
  BY Zenon DEF StoreInv, CallInv
<1>4. Moves(files, files', clock, clock', {})
  BY <1>1, <1>2, <1>3, ConfirmMoves
<1>5. clock' \in Nat /\ clock <= clock'
  BY <1>1, <1>2
<1> QED BY <1>1, <1>2, <1>4, <1>5, MovesKeep

LEMMA LearnOrder ==
  ASSUME StoreInv, OrderInv, LearnId
  PROVE  /\ OrderInv' /\ Pending' \subseteq Pending
         /\ Moves(files, files', clock, clock', {})
<1>1. UNCHANGED <<queue, clock>>
  BY DEF LearnId, SetRealId, store
<1>2. FilesInv /\ QueueInv /\ clock \in Nat /\ TidyAll(files, clock)
  BY DEF StoreInv, RingInv, OrderInv
<1>3. answered.tx \in Id /\ answered.entry \in Entry \cup {NoEntry}
  BY DEF StoreInv, ClientInv, Id
<1>4. Moves(files, files', clock, clock', {})
  <2>1. CASE files' = files
    BY <1>1, <1>2, <2>1, SameMoves
  <2>2. CASE session.on /\ answered.entry \in Entry
    BY <1>1, <1>2, <1>3, <2>2, SetIdMoves DEF LearnId
  <2>3. CASE session.on /\ answered.entry \notin Entry
    <3>1. files = [e \in Entry |-> files[e]]
      BY <1>2 DEF FilesInv
    <3>2. [files EXCEPT ![answered.entry].id = answered.tx] = files
      BY <2>3, <3>1
    <3>3. files' = files
      BY <2>3, <3>2, Zenon DEF LearnId, SetRealId
    <3> QED BY <2>1, <3>3
  <2>4. CASE ~session.on
    <3>1. files' = files
      BY <2>4 DEF LearnId, store
    <3> QED BY <2>1, <3>1
  <2> QED BY <2>2, <2>3, <2>4
<1>5. clock' \in Nat /\ clock <= clock'
  BY <1>1, <1>2
<1> QED BY <1>1, <1>2, <1>4, <1>5, MovesKeep

LEMMA ClearOrder ==
  ASSUME StoreInv, OrderInv, Clear
  PROVE  OrderInv'
<1>1. files' = [e \in Entry |-> NoFile] /\ queue' = <<>> /\ clock' = clock
  BY DEF Clear, ClearAll
<1>2. clock' \in Nat
  BY <1>1 DEF StoreInv, RingInv
<1>3. \A e \in Entry : files'[e] = NoFile
  BY <1>1
<1>4. TidyAll(files', clock')
  BY <1>2, <1>3, NoFileTidy DEF TidyAll
<1>5. Apart(files')
  BY <1>3 DEF Apart, NoFile
<1>6. Line(queue', files', clock')
  BY <1>1 DEF Line
<1> QED BY <1>4, <1>5, <1>6 DEF OrderInv

LEMMA RestartOrder ==
  ASSUME StoreInv, OrderInv, Restart
  PROVE  OrderInv'
<1>1. UNCHANGED <<files, clock>> /\ queue' = <<>>
  BY DEF Restart, Booted
<1>2. Line(queue', files, clock)
  BY <1>1 DEF Line
<1> QED BY <1>1, <1>2, Zenon DEF OrderInv

\* The messages on file and in the queue stay in the order of their numbers,
\* whatever is stored, settled, given up, cleared or restarted.
LEMMA OrderNext ==
  ASSUME StoreInv, ActiveInv, OrderInv, [Next]_vars
  PROVE  OrderInv'
<1>1. CASE Count \/ UNCHANGED vars
  <2>1. UNCHANGED <<files, queue, clock>>
    BY <1>1 DEF Count, CountMessages, vars, store
  <2> QED BY <2>1 DEF OrderInv, TidyAll, Apart, Line
<1>2. CASE Accepted \/ Rejected
  BY <1>2, ConfirmOrder DEF Accepted, Rejected
<1> QED BY <1>1, <1>2, StartOrder, StopOrder, WriteOrder, SendOrder, TakeOrder, FailOrder, LearnOrder,
           ClearOrder, RestartOrder DEF Next

-----------------------------------------------------------------------------
(* What is out for an answer is the oldest message owed.                   *)

AllOwed == Pending \cup Queued \subseteq owed

OldestOut ==
    call # NoCall => /\ Message(call) \in owed /\ call.no \in 1 .. clock
                     /\ \A m \in owed : call.no <= m[2]

LoadedOut == call # NoCall /\ last_from_file => loaded.data

\* A message that came from the queue is in no file and no longer queued.
QueuedOut ==
    call # NoCall /\ ~last_from_file =>
        /\ \A i \in 1 .. Len(queue) : call.no < queue[i].no
        /\ \A e \in Entry : call.no \notin Numbers(files[e])

DueInv == CacheOrder /\ TimesInv /\ AllOwed /\ OldestOut /\ LoadedOut /\ QueuedOut

LEMMA OwedIs ==
  ASSUME StoreInv, NEW m \in owed
  PROVE  m = <<m[1], m[2]>> /\ m[1] \in {"start", "meter", "stop"} /\ m[2] \in Nat
BY DEF StoreInv, ClientInv

LEMMA SameTimes == ASSUME TimesInv, UNCHANGED <<ring, queue>> PROVE TimesInv'
BY Zenon DEF TimesInv

\* New messages are younger than what is out for an answer.
LEMMA OutMore ==
  ASSUME OldestOut, LoadedOut, clock \in Nat, clock' \in Nat, clock <= clock',
         NEW M, \A m \in M : m[2] \in Nat /\ clock < m[2], owed' = owed \cup M,
         UNCHANGED <<call, loaded, last_from_file>>
  PROVE  OldestOut' /\ LoadedOut'
<1>1. LoadedOut'
  BY Zenon DEF LoadedOut
<1>2. ASSUME call # NoCall
      PROVE  Message(call) \in owed' /\ call.no \in 1 .. clock' /\ \A m \in owed' : call.no <= m[2]
  <2>1. Message(call) \in owed /\ call.no \in 1 .. clock /\ \A m \in owed : call.no <= m[2]
    BY <1>2, Zenon DEF OldestOut
  <2> QED BY <2>1
<1>3. Message(call)' = Message(call) /\ call' = call
  BY Zenon DEF Message
<1> QED BY <1>1, <1>2, <1>3, Zenon DEF OldestOut

LEMMA AsideFresh ==
  ASSUME OldestOut, QueuedOut, clock \in Nat, Fresh(files, files', clock),
         UNCHANGED <<call, queue, last_from_file>>
  PROVE  QueuedOut'
<1> SUFFICES ASSUME call # NoCall, ~last_from_file
             PROVE  /\ \A i \in 1 .. Len(queue) : call.no < queue[i].no
                    /\ \A e \in Entry : call.no \notin Numbers(files'[e])
  BY Zenon DEF QueuedOut
<1>1. call.no \in 1 .. clock
  BY Zenon DEF OldestOut
<1>2. /\ \A i \in 1 .. Len(queue) : call.no < queue[i].no
      /\ \A e \in Entry : call.no \notin Numbers(files[e])
  BY Zenon DEF QueuedOut
<1>3. call.no # 0 /\ ~(clock < call.no)
  BY <1>1
<1> QED BY <1>2, <1>3, Zenon DEF Fresh

\* A step that adds the messages M to the files.
LEMMA StoresDue ==
  ASSUME DueInv, clock \in Nat, clock' \in Nat, clock <= clock', CacheOrder',
         NEW M, \A m \in M : m[2] \in Nat /\ clock < m[2], owed' = owed \cup M,
         Pending' \subseteq Pending \cup M, Fresh(files, files', clock),
         UNCHANGED <<loaded, queue, ring, last_from_file, call>>
  PROVE  DueInv'
<1>1. TimesInv' /\ Queued' = Queued
  BY SameTimes, SameQueued DEF DueInv
<1>2. AllOwed'
  BY <1>1 DEF DueInv, AllOwed
<1>3. OldestOut' /\ LoadedOut'
  BY OutMore DEF DueInv
<1>4. QueuedOut'
  BY AsideFresh DEF DueInv
<1> QED BY <1>1, <1>2, <1>3, <1>4, Zenon DEF DueInv

LEMMA MovesDue ==
  ASSUME StoreInv, OrderInv, DueInv, clock' \in Nat, clock <= clock',
         NEW M, \A m \in M : m[2] \in Nat /\ clock < m[2], owed' = owed \cup M,
         Moves(files, files', clock, clock', M), \A e \in Entry : Adds(files[e], files'[e]),
         Pending' \subseteq Pending \cup M,
         UNCHANGED <<oldest, loaded, queue, ring, last_from_file, call>>
  PROVE  DueInv'
<1>1. CacheInv /\ LoadedInv /\ clock \in Nat /\ CacheOrder
  BY DEF StoreInv, RingInv, DueInv
<1>2. loaded.data => NextNo(files'[loaded.entry]) = NextNo(files[loaded.entry])
  BY <1>1, AddsNext
<1>3. CacheOrder'
  BY <1>1, <1>2, MovesCache
<1>4. Fresh(files, files', clock)
  BY <1>1, MovesFresh
<1> QED BY <1>1, <1>3, <1>4, StoresDue

LEMMA StartDue ==
  ASSUME StoreInv, ActiveInv, OrderInv, DueInv, StartTransaction, \A c \in oldest : c.entry # VacantEntry
  PROVE  DueInv'
<1>1. Active = {} /\ EnqueueStart /\ UNCHANGED <<loaded, queue, ring, last_from_file, call>>
  BY NobodyActive DEF StartTransaction, EnqueueStart
<1>2. FilesInv /\ CacheInv /\ LoadedInv /\ QueueInv /\ clock \in Nat /\ CacheOrder
  BY DEF StoreInv, RingInv, DueInv
<1>3. clock' = clock + 1 /\ Pending' \subseteq Pending \cup StartMessages(clock')
  BY <1>1, <1>2, StartOrdered
<1>4. CacheOrder'
  BY <1>1, <1>2, StartCached
<1>5. Fresh(files, files', clock)
  BY <1>1, <1>2, StartFresh
<1>6. owed' = owed \cup StartMessages(clock')
  BY <1>1 DEF StartTransaction, StartMessages
<1>7. clock' \in Nat /\ clock <= clock' /\ \A m \in StartMessages(clock') : m[2] \in Nat /\ clock < m[2]
  BY <1>2, <1>3 DEF StartMessages
<1> QED BY <1>1, <1>2, <1>3, <1>4, <1>5, <1>6, <1>7, StoresDue

LEMMA StopDue ==
  ASSUME StoreInv, OrderInv, DueInv, StopTransaction
  PROVE  DueInv'
<1>1. files' = StopActive(clock') /\ UNCHANGED <<oldest, loaded, queue, ring, last_from_file, call>>
  BY DEF StopTransaction, EnqueueStop
<1>2. /\ clock' = clock + 1 /\ Pending' \subseteq Pending \cup StopMessages(clock')
      /\ Moves(files, files', clock, clock', StopMessages(clock'))
  BY StopOrder
<1>3. clock \in Nat /\ FilesInv
  BY DEF StoreInv, RingInv
<1>4. clock' \in Nat \ {0} /\ clock <= clock' /\ \A m \in StopMessages(clock') : m[2] \in Nat /\ clock < m[2]
  BY <1>2, <1>3 DEF StopMessages
<1>5. owed' = owed \cup StopMessages(clock')
  BY DEF StopTransaction, StopMessages
<1>6. \A e \in Entry : Adds(files[e], files'[e])
  BY <1>1, <1>3, <1>4, StopActiveAdds
<1> QED BY <1>1, <1>2, <1>4, <1>5, <1>6, MovesDue

LEMMA WriteDue ==
  ASSUME StoreInv, OrderInv, DueInv, SampleStored
  PROVE  DueInv'
<1>1. /\ WriteMeterValue /\ owed' = owed \cup {<<"meter", clock'>>}
      /\ UNCHANGED <<oldest, loaded, queue, ring, last_from_file, call>>
  BY DEF SampleStored, WriteMeterValue
<1>2. /\ clock' = clock + 1 /\ Pending' \subseteq Pending \cup {<<"meter", clock'>>}
      /\ Moves(files, files', clock, clock', {<<"meter", clock'>>})
  BY WriteOrder
<1>3. clock \in Nat /\ FilesInv
  BY DEF StoreInv, RingInv
<1>4. clock' \in Nat /\ clock <= clock' /\ \A m \in {<<"meter", clock'>>} : m[2] \in Nat /\ clock < m[2]
  BY <1>2, <1>3
<1>5. \A e \in Entry : Adds(files[e], files'[e])
  BY <1>1, <1>3, WriteAdds DEF AddsAll
<1> QED BY <1>1, <1>2, <1>4, <1>5, MovesDue

LEMMA LearnDue ==
  ASSUME StoreInv, OrderInv, DueInv, LearnId
  PROVE  DueInv'
<1>1. UNCHANGED <<oldest, loaded, queue, ring, last_from_file, clock, call, owed>>
  BY DEF LearnId, SetRealId, store
<1>2. Pending' \subseteq Pending /\ Moves(files, files', clock, clock', {})
  BY LearnOrder
<1>3. clock \in Nat /\ FilesInv /\ answered.tx \in Id
  BY DEF StoreInv, RingInv, ClientInv, Id
<1>4. \A e \in Entry : Adds(files[e], files'[e])
  BY <1>3, LearnAdds DEF AddsAll
<1> QED BY <1>1, <1>2, <1>3, <1>4, MovesDue

LEMMA SendDue ==
  ASSUME StoreInv, OrderInv, DueInv, SampleQueued
  PROVE  DueInv'
<1>1. /\ QueueSend(session.tx, session.id) /\ owed' = owed \cup {<<"meter", clock'>>}
      /\ UNCHANGED <<files, oldest, loaded, last_from_file, call>>
  BY DEF SampleQueued, QueueSend
<1>2. /\ clock' = clock + 1 /\ Queued' \subseteq Queued \cup {<<"meter", clock'>>}
      /\ \A i \in 1 .. Len(queue') : queue'[i].no = clock' \/ (i \in 1 .. Len(queue) /\ queue'[i] = queue[i])
  BY SendOrder
<1>3. clock \in Nat /\ FilesInv /\ CacheInv /\ LoadedInv /\ QueueInv /\ RingInv /\ session.tx \in Nat /\ session.id \in Id
  BY DEF StoreInv, RingInv, ClientInv
<1>4. clock' \in Nat /\ clock <= clock' /\ \A m \in {<<"meter", clock'>>} : m[2] \in Nat /\ clock < m[2]
  BY <1>2, <1>3
<1>5. TimesInv'
  BY <1>1, <1>3, SendTimes DEF DueInv
<1>6. CacheOrder'
  <2>1. Moves(files, files', clock, clock', {})
    BY <1>1, <1>3, <1>4, SameMoves, Zenon DEF OrderInv
  <2> QED BY <1>1, <1>3, <1>4, <2>1, MovesCache DEF DueInv
<1>7. Pending' = Pending
  BY <1>1, SamePending
<1>8. AllOwed'
  BY <1>1, <1>2, <1>7 DEF DueInv, AllOwed
<1>9. OldestOut' /\ LoadedOut'
  <2> PICK M : M = {<<"meter", clock'>>}
    OBVIOUS
  <2>1. OldestOut /\ LoadedOut /\ UNCHANGED <<call, loaded, last_from_file>>
    BY <1>1 DEF DueInv
  <2>2. (\A m \in M : m[2] \in Nat /\ clock < m[2]) /\ owed' = owed \cup M
    BY <1>1, <1>4
  <2> QED BY <1>3, <1>4, <2>1, <2>2, OutMore
<1>10. QueuedOut'
  <2> SUFFICES ASSUME call # NoCall, ~last_from_file
               PROVE  /\ \A i \in 1 .. Len(queue') : call.no < queue'[i].no
                      /\ \A e \in Entry : call.no \notin Numbers(files[e])
    BY <1>1, Zenon DEF QueuedOut
  <2>1. call.no \in 1 .. clock
    BY Zenon DEF DueInv, OldestOut
  <2>2. /\ \A i \in 1 .. Len(queue) : call.no < queue[i].no
        /\ \A e \in Entry : call.no \notin Numbers(files[e])
    BY Zenon DEF DueInv, QueuedOut
  <2>3. call.no < clock'
    BY <1>2, <1>3, <2>1
  <2> QED BY <1>2, <2>2, <2>3, Zenon
<1> QED BY <1>5, <1>6, <1>8, <1>9, <1>10, Zenon DEF DueInv

\* The cache and what is loaded, once the next message has been looked for.
LEMMA LookedOldest ==
  ASSUME StoreInv, OrderInv, DueInv, oldest' = IF loaded.data THEN oldest ELSE OldestKnown
  PROVE  Oldest(oldest', files, clock)
<1>1. FilesInv /\ CacheInv /\ clock \in Nat /\ Oldest(oldest, files, clock)
  BY DEF StoreInv, RingInv, DueInv, CacheOrder
<1>2. CASE loaded.data
  BY <1>1, <1>2, Zenon
<1>3. CASE ~loaded.data
  BY <1>1, <1>3, KnownOldest, Zenon
<1> QED BY <1>2, <1>3

\* Before a message is taken, what is owed is on file or queued.
LEMMA ReadyOwed ==
  ASSUME StoreInv, OrderInv, call = NoCall, NEW m \in owed
  PROVE  \/ \E e \in Entry : m \in PendingIn(files[e])
         \/ \E i \in 1 .. Len(queue) : m[2] = queue[i].no
<1>1. m \in Pending \cup Queued \cup {Message(call)}
  BY DEF StoreInv, NothingLost
<1>2. m # Message(call)
  <2>1. m[1] # "none"
    BY OwedIs
  <2>2. Message(call) = <<"none", 0>>
    BY NoCallType, Zenon
  <2> QED BY <2>1, <2>2
<1> QED BY <1>1, <1>2 DEF Pending, Queued

\* What is taken from a file is the oldest message owed.
LEMMA FileFirst ==
  ASSUME StoreInv, OrderInv, DueInv, call = NoCall, FromFile
  PROVE  /\ Loaded.data /\ Message(Loaded.call) \in owed /\ Loaded.call.no \in 1 .. clock
         /\ \A m \in owed : Loaded.call.no <= m[2]
<1>1. FilesInv /\ CacheInv /\ LoadedInv /\ QueueInv /\ RingInv /\ clock \in Nat /\ CacheOrder /\ TimesInv
  BY DEF StoreInv, RingInv, DueInv
<1> PICK l : l = Loaded
  OBVIOUS
<1> PICK t : t = l.time
  OBVIOUS
<1>2. l.data /\ LoadedRight(l, files) /\ First(l, files) /\ t \in 1 .. clock
  BY <1>1, FromFileLoaded, LoadedNext, LoadedFirst
<1> PICK f : f = files[l.entry]
  OBVIOUS
<1>3. l.entry \in Entry /\ NextKind(f) # "none" /\ Message(l.call) = <<NextKind(f), NextNo(f)>> /\ t = NextNo(f)
  BY <1>2, Zenon DEF LoadedRight, First
<1>4. l.call.no = t
  BY <1>3 DEF Message
<1>5. <<NextKind(f), NextNo(f)>> \in PendingIn(f)
  <2>1. Tidy(f, clock)
    BY <1>3 DEF OrderInv, TidyAll
  <2> QED BY <1>1, <1>3, <2>1, NextIsOld
<1>6. Message(l.call) \in owed
  BY <1>3, <1>5 DEF Pending, DueInv, AllOwed
<1>7. ASSUME NEW m \in owed PROVE t <= m[2]
  <2>1. CASE \E e \in Entry : m \in PendingIn(files[e])
    BY <1>2, <2>1, Zenon DEF First
  <2>2. CASE \E i \in 1 .. Len(queue) : m[2] = queue[i].no
    <3>1. PICK i \in 1 .. Len(queue) : m[2] = queue[i].no
      BY <2>2
    <3>2. queue # <<>> /\ 1 \in 1 .. Len(queue) /\ 1 <= i
      BY <1>1, <3>1, QueueIs
    <3>3. queue[1].no <= queue[i].no /\ queue[1].no \in 1 .. clock /\ queue[i].no \in 1 .. clock
      BY <1>1, <3>1, <3>2, QueueIs
    <3>4. t < queue[1].no
      BY <1>1, <3>2, PeekIs DEF FromFile
    <3> QED BY <1>2, <3>1, <3>3, <3>4
  <2> QED BY <2>1, <2>2, ReadyOwed
<1> QED BY <1>2, <1>4, <1>6, <1>7

\* What is taken from the queue is the oldest message owed.
LEMMA QueueFirst ==
  ASSUME StoreInv, OrderInv, DueInv, call = NoCall, ~FromFile, queue # <<>>
  PROVE  /\ Message(queue[1]) \in owed /\ queue[1].no \in 1 .. clock
         /\ \A m \in owed : queue[1].no <= m[2]
         /\ \A e \in Entry : queue[1].no \notin Numbers(files[e])
         /\ queue[1].kind = "meter"
<1>1. FilesInv /\ CacheInv /\ LoadedInv /\ QueueInv /\ RingInv /\ clock \in Nat /\ CacheOrder /\ TimesInv
  BY DEF StoreInv, RingInv, DueInv
<1>2. Len(queue) \in Nat \ {0} /\ PeekTime(ring) = queue[1].no /\ 1 \in 1 .. Len(queue)
  BY <1>1, PeekIs
<1> PICK h : h = queue[1].no
  OBVIOUS
<1>3. h \in 1 .. clock /\ queue[1].kind = "meter"
  BY <1>1, <1>2, QueueIs
<1>4. \A e \in Entry : h \notin Numbers(files[e])
  BY <1>2 DEF OrderInv, Line
<1>5. Message(queue[1]) \in owed
  <2>1. Message(queue[1]) = <<"meter", queue[1].no>>
    BY <1>3, Zenon DEF Message
  <2> QED BY <1>2, <2>1 DEF Queued, DueInv, AllOwed
<1>6. ~(Loaded.time < h)
  BY <1>2, Zenon DEF FromFile
<1>7. ASSUME NEW m \in owed PROVE h <= m[2]
  <2>1. CASE \E e \in Entry : m \in PendingIn(files[e])
    <3>1. PICK e \in Entry : m \in PendingIn(files[e])
      BY <2>1
    <3>2. Loaded.data
      BY <1>1, <3>1, LoadedFirst DEF Pending
    <3>3. Loaded.time \in 1 .. clock /\ Loaded.time <= m[2]
      BY <1>1, <3>1, <3>2, LoadedFirst DEF First
    <3>4. m[2] \in Nat
      BY OwedIs
    <3> QED BY <1>3, <1>6, <3>3, <3>4
  <2>2. CASE \E i \in 1 .. Len(queue) : m[2] = queue[i].no
    <3>1. PICK i \in 1 .. Len(queue) : m[2] = queue[i].no
      BY <2>2
    <3>2. 1 <= i
      OBVIOUS
    <3> QED BY <1>1, <1>2, <3>1, <3>2, QueueIs
  <2> QED BY <2>1, <2>2, ReadyOwed
<1> QED BY <1>3, <1>4, <1>5, <1>7

LEMMA TakeDue ==
  ASSUME StoreInv, OrderInv, DueInv, TakeMessage
  PROVE  DueInv'
<1>1. /\ call = NoCall /\ call' = NextCall /\ owed' = owed /\ UNCHANGED <<files, clock>>
      /\ loaded' = Loaded /\ oldest' = IF loaded.data THEN oldest ELSE OldestKnown
  BY DEF TakeMessage, Ready, GetNextMessage
<1>2. FilesInv /\ CacheInv /\ LoadedInv /\ QueueInv /\ RingInv /\ clock \in Nat /\ CacheOrder /\ TimesInv
  BY DEF StoreInv, RingInv, DueInv
<1>3. CacheOrder'
  <2>1. Oldest(oldest', files, clock)
    BY <1>1, LookedOldest
  <2>2. First(Loaded, files)
    BY <1>2, LoadedFirst
  <2> QED BY <1>1, <2>1, <2>2, Zenon DEF CacheOrder
<1>4. Pending' = Pending /\ Pending \cup Queued \subseteq owed
  BY <1>1, SamePending DEF DueInv, AllOwed
<1>5. CASE FromFile
  <2>1. last_from_file' = TRUE /\ UNCHANGED <<queue, ring>> /\ call' = Loaded.call
    BY <1>1, <1>5 DEF TakeMessage, GetNextMessage, NextCall
  <2>2. TimesInv' /\ AllOwed'
    BY <1>1, <1>4, <2>1, SameTimes, SameQueued, <1>2 DEF AllOwed
  <2>3. /\ Loaded.data /\ Message(Loaded.call) \in owed /\ Loaded.call.no \in 1 .. clock
        /\ \A m \in owed : Loaded.call.no <= m[2]
    BY <1>1, <1>5, FileFirst
  <2>4. OldestOut'
    BY <1>1, <2>1, <2>3, Zenon DEF OldestOut, Message
  <2>5. LoadedOut' /\ QueuedOut'
    BY <1>1, <2>1, <2>3, Zenon DEF LoadedOut, QueuedOut
  <2> QED BY <1>3, <2>2, <2>4, <2>5, Zenon DEF DueInv
<1>6. CASE ~FromFile /\ queue # <<>>
  <2>1. /\ last_from_file' = FALSE /\ queue' = Tail(queue) /\ ring' = GetTime(ring) /\ call' = Head(queue)
    BY <1>1, <1>6 DEF TakeMessage, GetNextMessage, NextCall
  <2>2. /\ Queued' \subseteq Queued /\ Head(queue) = queue[1]
        /\ \A i \in 1 .. Len(queue') : queue[1].no < queue'[i].no
    BY <1>1, <1>2, <1>6, <2>1, TailOrder
  <2>3. TimesInv'
    BY <1>2, <1>6, <2>1, GetTimes
  <2>4. AllOwed'
    BY <1>1, <1>4, <2>2 DEF AllOwed
  <2>5. /\ Message(queue[1]) \in owed /\ queue[1].no \in 1 .. clock
        /\ \A m \in owed : queue[1].no <= m[2]
        /\ \A e \in Entry : queue[1].no \notin Numbers(files[e])
    BY <1>1, <1>6, QueueFirst
  <2>6. call' = queue[1]
    BY <2>1, <2>2
  <2>7. OldestOut'
    BY <1>1, <2>5, <2>6, Zenon DEF OldestOut, Message
  <2>8. LoadedOut' /\ QueuedOut'
    BY <1>1, <2>1, <2>2, <2>5, <2>6, Zenon DEF LoadedOut, QueuedOut
  <2> QED BY <1>3, <2>3, <2>4, <2>7, <2>8, Zenon DEF DueInv
<1>7. CASE ~FromFile /\ queue = <<>>
  <2>1. UNCHANGED <<queue, ring>> /\ call' = NoCall
    BY <1>1, <1>7 DEF TakeMessage, GetNextMessage, NextCall
  <2>2. TimesInv' /\ AllOwed'
    BY <1>1, <1>4, <2>1, SameTimes, SameQueued, <1>2 DEF AllOwed
  <2>3. OldestOut' /\ LoadedOut' /\ QueuedOut'
    BY <2>1, Zenon DEF OldestOut, LoadedOut, QueuedOut
  <2> QED BY <1>3, <2>2, <2>3, Zenon DEF DueInv
<1> QED BY <1>5, <1>6, <1>7

LEMMA FailDue ==
  ASSUME StoreInv, OrderInv, DueInv, TakeFails
  PROVE  DueInv'
<1>1. /\ call = NoCall /\ call' = NoCall /\ owed' = owed \cap (Pending' \cup Queued')
      /\ UNCHANGED <<queue, ring, last_from_file, clock>>
      /\ loaded' = [Loaded EXCEPT !.data = FALSE, !.entry = NoEntry]
      /\ oldest' = IF loaded.data THEN oldest ELSE OldestKnown
  BY DEF TakeFails, Ready, GetNextFails
<1>2. FilesInv /\ CacheInv /\ LoadedInv /\ QueueInv /\ RingInv /\ clock \in Nat /\ CacheOrder /\ TimesInv
  BY DEF StoreInv, RingInv, DueInv
<1>3. Pending' \subseteq Pending /\ Moves(files, files', clock, clock', {})
  BY FailOrder
<1>4. CacheOrder'
  <2>1. Oldest(oldest', files, clock)
    BY <1>1, LookedOldest
  <2>2. oldest' \subseteq [entry : Entry, time : Nat]
    BY <1>1, <1>2, CacheKeeps DEF CacheInv
  <2>3. Moves(files, files', clock, clock, {}) /\ clock <= clock
    BY <1>1, <1>2, <1>3
  <2>4. Oldest(oldest', files', clock)
    BY <1>2, <2>1, <2>2, <2>3, OldestMoves
  <2>5. ~loaded'.data
    <3>1. Loaded \in LoadedType
      BY <1>2, LoadedNext
    <3> PICK l : l = Loaded
      OBVIOUS
    <3>2. l \in LoadedType /\ loaded' = LoadLit(FALSE, NoEntry, l.time, l.call, l.next)
      BY <1>1, <3>1, UnloadIs
    <3>3. IsUnloaded(LoadLit(FALSE, NoEntry, l.time, l.call, l.next), NoEntry, l.time)
      BY <3>2, LoadFields DEF IsUnloaded, LoadLit, LoadedType
    <3> QED BY <3>2, <3>3, Zenon DEF IsUnloaded
  <2> QED BY <1>1, <2>4, <2>5, Zenon DEF CacheOrder, First
<1>5. TimesInv' /\ Queued' = Queued
  BY <1>1, <1>2, SameTimes, SameQueued
<1>6. AllOwed'
  BY <1>1, <1>3, <1>5 DEF DueInv, AllOwed
<1>7. OldestOut' /\ LoadedOut' /\ QueuedOut'
  BY <1>1, Zenon DEF OldestOut, LoadedOut, QueuedOut
<1> QED BY <1>4, <1>5, <1>6, <1>7, Zenon DEF DueInv

LEMMA ConfirmDue ==
  ASSUME StoreInv, OrderInv, DueInv, call # NoCall, ConfirmLast, call' = NoCall, owed' = owed \ {Message(call)}
  PROVE  DueInv'
<1>1. UNCHANGED <<oldest, queue, ring, last_from_file, clock>>
  BY DEF ConfirmLast
<1>2. FilesInv /\ CacheInv /\ LoadedInv /\ QueueInv /\ RingInv /\ clock \in Nat /\ CacheOrder /\ TimesInv
  BY DEF StoreInv, RingInv, DueInv
<1>3. Pending' \subseteq Pending /\ Moves(files, files', clock, clock', {})
  BY ConfirmOrder
<1>4. TimesInv' /\ Queued' = Queued
  BY <1>1, <1>2, SameTimes, SameQueued
<1>5. OldestOut' /\ LoadedOut' /\ QueuedOut'
  BY Zenon DEF OldestOut, LoadedOut, QueuedOut
<1>6. Oldest(oldest', files', clock')
  <2>1. Moves(files, files', clock, clock, {}) /\ clock <= clock
    BY <1>1, <1>2, <1>3
  <2>2. Oldest(oldest, files', clock)
    BY <1>2, <2>1, OldestMoves DEF CacheInv, CacheOrder
  <2> QED BY <1>1, <2>2, Zenon
<1>7. CASE last_from_file
  <2>1. loaded.data
    BY <1>7, Zenon DEF DueInv, LoadedOut
  <2> PICK f : f = files[loaded.entry]
    OBVIOUS
  <2>2. loaded.entry \in Entry /\ NextKind(f) # "none" /\ Message(loaded.call) = <<NextKind(f), NextNo(f)>>
    BY <1>2, <2>1, Zenon DEF LoadedInv, LoadedRight
  <2>3. loaded.entry # NoEntry
    BY <2>2, EntryIs
  <2>4. Message(call) = Message(loaded.call)
    BY <1>7, <2>3, Zenon DEF StoreInv, CallInv
  <2>5. Message(call) \notin Pending'
    BY <1>2, <1>7, <2>1, <2>4, ConfirmGone
  <2>6. Message(call) \notin Queued
    <3>1. Tidy(f, clock)
      BY <2>2 DEF OrderInv, TidyAll
    <3>2. NextNo(f) \in Numbers(f)
      BY <1>2, <2>2, <3>1, NextIsOld
    <3>3. \A i \in 1 .. Len(queue) : queue[i].no # NextNo(f)
      BY <2>2, <3>2 DEF OrderInv, Line
    <3> QED BY <2>2, <2>4, <3>3 DEF Queued
  <2>7. AllOwed'
    BY <1>3, <1>4, <2>5, <2>6 DEF DueInv, AllOwed
  <2>8. ~loaded'.data
    <3>1. loaded' = [loaded EXCEPT !.data = FALSE]
      BY <1>7, <2>3, Zenon DEF ConfirmLast
    <3>2. loaded' = LoadLit(FALSE, loaded.entry, loaded.time, loaded.call, loaded.next)
      BY <1>2, <3>1, UnloadIs DEF LoadedInv
    <3>3. IsUnloaded(LoadLit(FALSE, loaded.entry, loaded.time, loaded.call, loaded.next), loaded.entry, loaded.time)
      BY <1>2, UnloadFields, LoadFields DEF LoadedInv
    <3> QED BY <3>2, <3>3, Zenon DEF IsUnloaded
  <2>9. CacheOrder'
    BY <1>6, <2>8, Zenon DEF CacheOrder, First
  <2> QED BY <1>4, <1>5, <2>7, <2>9, Zenon DEF DueInv
<1>8. CASE ~last_from_file
  <2>1. UNCHANGED <<files, loaded>>
    BY <1>8, Zenon DEF ConfirmLast
  <2>2. CacheOrder'
    BY <1>1, <1>2, <2>1, Zenon DEF CacheOrder
  <2>3. /\ \A i \in 1 .. Len(queue) : call.no < queue[i].no
        /\ \A e \in Entry : call.no \notin Numbers(files[e])
    BY <1>8, Zenon DEF DueInv, QueuedOut
  <2>4. Message(call) \notin Queued
    <3>1. \A i \in 1 .. Len(queue) : queue[i].no # call.no
      BY <1>2, <2>3, QueueIs
    <3> QED BY <3>1 DEF Queued, Message
  <2>5. Message(call) \notin Pending
    <3> SUFFICES ASSUME NEW e \in Entry, Message(call) \in PendingIn(files[e]) PROVE FALSE
      BY DEF Pending
    <3>1. Tidy(files[e], clock)
      BY DEF OrderInv, TidyAll
    <3>2. Message(call)[2] \in Numbers(files[e])
      BY <1>2, <3>1, PendingNumbers
    <3> QED BY <2>3, <3>2 DEF Message
  <2>6. AllOwed'
    BY <1>3, <1>4, <2>4, <2>5 DEF DueInv, AllOwed
  <2> QED BY <1>4, <1>5, <2>2, <2>6, Zenon DEF DueInv
<1> QED BY <1>7, <1>8

LEMMA RestartDue ==
  ASSUME StoreInv, OrderInv, DueInv, Restart
  PROVE  DueInv'
<1>1. /\ Booted /\ call' = NoCall /\ owed' = {m \in owed : m[1] # "meter" \/ m \in Pending}
  BY DEF Restart
<1>2. /\ oldest' = {} /\ loaded' = NothingLoaded /\ queue' = <<>> /\ ring' = EmptyRing
      /\ UNCHANGED <<files, clock>>
  BY <1>1 DEF Booted
<1>3. CacheOrder'
  <2>1. Oldest(oldest', files', clock')
    BY <1>2, Zenon DEF Oldest
  <2>2. ~loaded'.data
    BY <1>2, NothingLoadedRight, Zenon DEF IsUnloaded
  <2> QED BY <2>1, <2>2, Zenon DEF CacheOrder, First
<1>4. TimesInv'
  BY <1>2, EmptyTimed
<1>5. AllOwed'
  <2>1. Pending' = Pending
    BY <1>2, SamePending
  <2>2. Queued' = {}
    BY <1>2 DEF Queued
  <2> QED BY <1>1, <2>1, <2>2 DEF DueInv, AllOwed
<1>6. OldestOut' /\ LoadedOut' /\ QueuedOut'
  BY <1>1, Zenon DEF OldestOut, LoadedOut, QueuedOut
<1> QED BY <1>3, <1>4, <1>5, <1>6, Zenon DEF DueInv

LEMMA CountDue ==
  ASSUME DueInv, UNCHANGED <<files, oldest, loaded, queue, ring, last_from_file, clock, call, owed>>
  PROVE  DueInv'
<1>1. CacheOrder' /\ TimesInv'
  BY SameTimes, Zenon DEF DueInv, CacheOrder
<1>2. AllOwed'
  BY SamePending, SameQueued DEF DueInv, AllOwed
<1>3. OldestOut' /\ LoadedOut' /\ QueuedOut'
  BY Zenon DEF DueInv, OldestOut, LoadedOut, QueuedOut, Message
<1> QED BY <1>1, <1>2, <1>3, Zenon DEF DueInv

\* What is due stays so in a step that neither clears the storage nor starts
\* a transaction in a file the cache still names.
LEMMA DueNext ==
  ASSUME StoreInv, ActiveInv, OrderInv, DueInv, [Next]_vars, ~Clear,
         StartTransaction => \A c \in oldest : c.entry # VacantEntry
  PROVE  DueInv'
<1>1. CASE Count \/ UNCHANGED vars
  <2>1. UNCHANGED <<files, oldest, loaded, queue, ring, last_from_file, clock, call, owed>>
    BY <1>1 DEF Count, CountMessages, vars, store
  <2> QED BY <2>1, CountDue
<1>2. CASE Accepted \/ Rejected
  BY <1>2, ConfirmDue DEF Accepted, Rejected
<1>3. CASE StartTransaction
  BY <1>3, StartDue
<1> QED BY <1>1, <1>2, <1>3, StopDue, WriteDue, SendDue, TakeDue, FailDue, LearnDue, RestartDue DEF Next

-----------------------------------------------------------------------------
(* What the run of TLC checks, with the record of the risks taken.         *)

Calm(t) == "reuse" \notin t /\ "clear" \notin t

CalmInv == StoreInv /\ ActiveInv /\ OrderInv /\ (Calm(taken) => DueInv)

LEMMA HasCome ==
  ASSUME NEW r, NEW h, h
  PROVE  r \in Came(r, h)
BY DEF Came

\* A step after which neither risk has been taken takes neither.
LEMMA CalmStep ==
  ASSUME MCNext, Calm(taken'), clock \in Nat
  PROVE  Calm(taken) /\ ~Clear /\ (StartTransaction => \A c \in oldest : c.entry # VacantEntry)
<1>1. /\ taken \subseteq taken'
      /\ Came("clear", clock = clock' /\ Clear) \subseteq taken'
      /\ Came("reuse", clock < clock' /\ (\E c \in oldest : c.entry = VacantEntry) /\ StartTransaction) \subseteq taken'
  BY DEF MCNext
<1>2. Calm(taken)
  BY <1>1 DEF Calm
<1>3. ASSUME Clear PROVE FALSE
  <2>1. clock = clock'
    BY <1>3 DEF Clear, ClearAll
  <2>2. "clear" \in Came("clear", clock = clock' /\ Clear)
    BY <1>3, <2>1, Zenon DEF Came
  <2> QED BY <1>1, <2>2, Zenon DEF Calm
<1>4. ASSUME StartTransaction, NEW c \in oldest, c.entry = VacantEntry PROVE FALSE
  <2>1. clock < clock'
    BY <1>4 DEF StartTransaction, EnqueueStart
  <2>2. "reuse" \in Came("reuse", clock < clock' /\ (\E d \in oldest : d.entry = VacantEntry) /\ StartTransaction)
    BY <1>4, <2>1, Zenon DEF Came
  <2> QED BY <1>1, <2>2, Zenon DEF Calm
<1> QED BY <1>2, <1>3, <1>4

LEMMA InitOrder == ASSUME Init PROVE OrderInv /\ DueInv
<1>1. OrderInv /\ CacheOrder /\ TimesInv /\ Pending = {} /\ Queued = {}
  BY EmptyStorage DEF Init
<1>2. call = NoCall /\ owed = {} /\ ~loaded.data
  BY NothingLoadedRight, Zenon DEF Init, StoreInit, IsUnloaded
<1>3. AllOwed
  BY <1>1 DEF AllOwed
<1> QED BY <1>1, <1>2, <1>3, Zenon DEF DueInv, OldestOut, LoadedOut, QueuedOut

\* The next message can be found while anything is stored or queued.
LEMMA NextIsFound ==
  ASSUME StoreInv, OrderInv, DueInv
  PROVE  NextFound
<1> SUFFICES ASSUME Ready, Pending \cup Queued # {} PROVE NextCall # NoCall
  BY DEF NextFound
<1>1. FilesInv /\ CacheInv /\ LoadedInv /\ QueueInv /\ RingInv /\ clock \in Nat /\ CacheOrder /\ TimesInv
  BY DEF StoreInv, RingInv, DueInv
<1>2. NoCall.kind = "none"
  BY NoCallType
<1>3. CASE FromFile
  <2> PICK l : l = Loaded
    OBVIOUS
  <2>1. l.data /\ LoadedRight(l, files)
    BY <1>1, <1>3, FromFileLoaded, LoadedNext
  <2>2. NextKind(files[l.entry]) # "none" /\ Message(l.call) = <<NextKind(files[l.entry]), NextNo(files[l.entry])>>
    BY <2>1, Zenon DEF LoadedRight
  <2>3. l.call.kind # "none"
    BY <2>2 DEF Message
  <2> QED BY <1>2, <1>3, <2>3, Zenon DEF NextCall
<1>4. CASE ~FromFile /\ queue # <<>>
  <2>1. Head(queue) = queue[1] /\ 1 \in 1 .. Len(queue)
    BY <1>1, <1>4, PeekIs
  <2>2. queue[1].kind = "meter"
    BY <1>1, <2>1, QueueIs
  <2>3. "meter" # "none" /\ NextCall = queue[1]
    BY <1>4, <2>1, Zenon DEF NextCall
  <2> QED BY <1>2, <2>2, <2>3, Zenon
<1>5. CASE ~FromFile /\ queue = <<>>
  <2>1. Queued = {} /\ PeekTime(ring) = Never
    BY <1>1, <1>5, PeekIs DEF Queued
  <2>2. Loaded.data /\ Loaded.time \in 1 .. clock
    BY <1>1, <2>1, LoadedFirst
  <2>3. Loaded.time < Never
    BY <1>1, <2>2, MaxNoType DEF RingInv
  <2> QED BY <1>5, <2>1, <2>3, Zenon DEF FromFile
<1> QED BY <1>3, <1>4, <1>5

\* Messages go out in chronological order although they come from files and
\* from the queue, none twice, and whatever waits is found, as long as no start
\* takes a number the cache still names and no cloud command clears the storage:
\* the comparison of times in ocpp_transaction_get_next_message, the cache of
\* oldest files and the message loaded agree, through restarts and failures.
THEOREM OrderKeptHolds == MCSpec => []OrderKept
<1>1. MCInit => CalmInv
  BY InitStore, ActiveInit, InitOrder DEF MCInit, CalmInv
<1>2. CalmInv /\ [MCNext]_mcvars => CalmInv'
  <2> SUFFICES ASSUME CalmInv, [MCNext]_mcvars PROVE CalmInv'
    OBVIOUS
  <2>1. StoreInv /\ ActiveInv /\ OrderInv /\ [Next]_vars
    BY DEF CalmInv, MCNext, mcvars
  <2>2. StoreInv' /\ ActiveInv' /\ OrderInv'
    BY <2>1, StoreNext, ActiveNext, OrderNext
  <2>3. ASSUME Calm(taken') PROVE DueInv'
    <3>1. CASE MCNext
      <4>1. clock \in Nat
        BY <2>1 DEF StoreInv, RingInv
      <4>2. Calm(taken) /\ ~Clear /\ (StartTransaction => \A c \in oldest : c.entry # VacantEntry)
        BY <2>3, <3>1, <4>1, CalmStep
      <4> QED BY <2>1, <4>2, DueNext DEF CalmInv
    <3>2. CASE UNCHANGED mcvars
      <4>1. UNCHANGED taken /\ UNCHANGED <<files, oldest, loaded, queue, ring, last_from_file, clock, call, owed>>
        BY <3>2 DEF mcvars, vars, store
      <4>2. DueInv
        BY <2>3, <4>1, Zenon DEF CalmInv
      <4> QED BY <4>1, <4>2, CountDue
    <3> QED BY <3>1, <3>2
  <2> QED BY <2>2, <2>3 DEF CalmInv
<1>3. CalmInv => OrderKept
  <2> SUFFICES ASSUME CalmInv, Calm(taken) PROVE InOrder /\ NextFound
    BY DEF OrderKept, Calm
  <2>1. StoreInv /\ OrderInv /\ DueInv
    BY DEF CalmInv
  <2>2. InOrder
    BY <2>1, Zenon DEF DueInv, OldestOut, InOrder
  <2> QED BY <2>1, <2>2, NextIsFound
<1> QED BY <1>1, <1>2, <1>3, PTL DEF MCSpec

-----------------------------------------------------------------------------
(* The ids that files, messages and the session carry.                     *)

Own(i, t) == i = UnknownId \/ i = t

FilesOwn == \A e \in Entry : Own(files[e].id, files[e].start)

LoadedOwn == loaded.data => loaded.call.tx = files[loaded.entry].start /\ Own(loaded.call.id, loaded.call.tx)

QueueOwn == \A i \in 1 .. Len(queue) : Own(queue[i].id, queue[i].tx)

\* The file the session names is its own.
SessionOwn ==
    /\ Own(session.id, session.tx)
    /\ session.entry \in Entry =>
         session.on /\ files[session.entry].active /\ files[session.entry].start = session.tx

\* A message is out for an answer only once the callback of the last start ran.
CallOwn == call # NoCall => /\ Own(call.id, call.tx) /\ answered = NoAnswer
                            /\ last_from_file => loaded.data /\ call = loaded.call

\* The file of a start that was answered stays until its callback.
AnswerOwn == answered # NoAnswer =>
                 answered.entry \in Entry /\ answered.tx # 0 /\ files[answered.entry].start = answered.tx

OwnInv == FilesOwn /\ LoadedOwn /\ QueueOwn /\ SessionOwn /\ CallOwn /\ AnswerOwn

LEMMA FilesOwnKept ==
  ASSUME FilesInv', NEW n, PassesAll(files', n), FilesOwn
  PROVE  FilesOwn'
<1> SUFFICES ASSUME NEW e \in Entry PROVE Own(files'[e].id, files'[e].start)
  BY Zenon DEF FilesOwn
<1>1. CASE files[e].start = 0
  BY <1>1, Zenon DEF PassesAll, Own
<1>2. CASE files[e].start # 0
  <2>1. Passes(files[e], files'[e]) /\ Own(files[e].id, files[e].start)
    BY <1>2, Zenon DEF PassesAll, FilesOwn
  <2>2. CASE files'[e].start = 0
    <3>1. files'[e] = NoFile
      BY <2>2, Zenon DEF FilesInv, IsRight, FileRight
    <3> QED BY <3>1, NoFileFields, Zenon DEF Own
  <2>3. CASE files'[e].start = files[e].start
    BY <2>1, <2>3, Zenon DEF Passes, Own
  <2> QED BY <2>1, <2>2, <2>3, Zenon DEF Passes
<1> QED BY <1>1, <1>2

LEMMA LoadedOwnKept ==
  ASSUME FilesInv, LoadedInv, LoadedOwn, StartsAll(files'), UNCHANGED loaded
  PROVE  LoadedOwn'
<1> SUFFICES ASSUME loaded.data
             PROVE  loaded.call.tx = files'[loaded.entry].start /\ Own(loaded.call.id, loaded.call.tx)
  BY Zenon DEF LoadedOwn
<1> PICK a : a = loaded.entry
  OBVIOUS
<1>1. a \in Entry /\ NextKind(files[a]) # "none"
  BY Zenon DEF LoadedInv, LoadedRight
<1>2. IsRight(files[a])
  BY <1>1 DEF FilesInv
<1>3. files[a].start # 0
  BY <1>1, <1>2, NextKinds
<1> QED BY <1>1, <1>3, Zenon DEF StartsAll, LoadedOwn

\* A file that is active and stays so keeps its transaction.
LEMMA StaysOwn ==
  ASSUME FilesInv, NEW n, PassesAll(files', n), StaysAll(files'), NEW e \in Entry, files[e].active
  PROVE  files'[e].active /\ files'[e].start = files[e].start /\ files[e].start # 0
         /\ Passes(files[e], files'[e])
<1>1. IsRight(files[e])
  BY DEF FilesInv
<1>2. files[e].start # 0
  BY <1>1, ActiveStarted
<1>3. Passes(files[e], files'[e]) /\ files'[e].active
  BY <1>2, Zenon DEF PassesAll, StaysAll, Stays
<1> QED BY <1>2, <1>3, Zenon DEF Passes

LEMMA SessionOwnKept ==
  ASSUME FilesInv, SessionOwn, NEW n, PassesAll(files', n), StaysAll(files'),
         session'.on = session.on, session'.tx = session.tx, session'.entry = session.entry,
         Own(session'.id, session'.tx)
  PROVE  SessionOwn'
BY StaysOwn, Zenon DEF SessionOwn

LEMMA AnswerOwnKept ==
  ASSUME AnswerOwn, StartsAll(files'), UNCHANGED answered
  PROVE  AnswerOwn'
BY Zenon DEF AnswerOwn, StartsAll

\* Nothing but the session and the files has changed.
LEMMA StoredOwn ==
  ASSUME StoreInv, StoreInv', OwnInv, NEW n, PassesAll(files', n), StartsAll(files'),
         UNCHANGED <<loaded, queue, call, answered, last_from_file>>
  PROVE  FilesOwn' /\ LoadedOwn' /\ QueueOwn' /\ CallOwn' /\ AnswerOwn'
<1>1. FilesInv /\ FilesInv' /\ LoadedInv
  BY DEF StoreInv
<1>2. FilesOwn' /\ LoadedOwn'
  BY <1>1, FilesOwnKept, LoadedOwnKept, Zenon DEF OwnInv
<1>3. AnswerOwn'
  BY AnswerOwnKept, Zenon DEF OwnInv
<1>4. CallOwn'
  BY Zenon DEF OwnInv, CallOwn
<1>5. QueueOwn'
  BY DEF OwnInv, QueueOwn
<1> QED BY <1>2, <1>3, <1>4, <1>5

LEMMA SameOwn ==
  ASSUME StoreInv, StoreInv', OwnInv,
         UNCHANGED <<files, loaded, queue, session, call, answered, last_from_file>>
  PROVE  OwnInv'
<1>1. FilesInv
  BY DEF StoreInv
<1>2. PassesAll(files, 0) /\ StaysAll(files) /\ StartsAll(files)
  BY <1>1, SamePassesAll
<1>3. FilesOwn' /\ LoadedOwn' /\ QueueOwn' /\ CallOwn' /\ AnswerOwn'
  BY <1>2, StoredOwn, Zenon
<1>4. SessionOwn'
  BY Zenon DEF OwnInv, SessionOwn
<1> QED BY <1>3, <1>4, Zenon DEF OwnInv

\* A new session, field by field.
SessionIs(s, o, t, e, i, v) == (s.on <=> o) /\ s.tx = t /\ s.entry = e /\ s.id = i /\ (s.valid <=> v)

LEMMA SessionFields ==
  ASSUME NEW o \in BOOLEAN, NEW t, NEW e, NEW i, NEW v \in BOOLEAN
  PROVE  SessionIs([on |-> o, tx |-> t, entry |-> e, id |-> i, valid |-> v], o, t, e, i, v)
<1> PICK s : s = [on |-> o, tx |-> t, entry |-> e, id |-> i, valid |-> v]
  OBVIOUS
<1>1. s.on = o /\ s.valid = v
  OBVIOUS
<1>2. s.tx = t /\ s.entry = e /\ s.id = i
  OBVIOUS
<1> QED BY <1>1, <1>2, Zenon DEF SessionIs

LEMMA NoSessionFields == SessionIs(NoSession, FALSE, 0, NoEntry, UnknownId, FALSE)
<1>1. FALSE \in BOOLEAN
  OBVIOUS
<1>2. SessionIs([on |-> FALSE, tx |-> 0, entry |-> NoEntry, id |-> UnknownId, valid |-> FALSE],
                FALSE, 0, NoEntry, UnknownId, FALSE)
  BY <1>1, SessionFields
<1> QED BY <1>2, Zenon DEF NoSession

LEMMA StartedSession ==
  ASSUME NEW t, NEW e
  PROVE  /\ SessionIs([NoSession EXCEPT !.on = TRUE, !.tx = t, !.entry = e], TRUE, t, e, UnknownId, FALSE)
         /\ SessionIs([NoSession EXCEPT !.on = TRUE], TRUE, 0, NoEntry, UnknownId, FALSE)
<1>b. PICK b, c : b = TRUE /\ c = FALSE
  OBVIOUS
<1>1. PICK s0 : s0 = NoSession
  OBVIOUS
<1>2. s0 = [on |-> c, tx |-> 0, entry |-> NoEntry, id |-> UnknownId, valid |-> c]
  BY <1>1, <1>b, Zenon DEF NoSession
<1>3. PICK s1 : s1 = [s0 EXCEPT !.on = b]
  OBVIOUS
<1>4. s1 = [on |-> b, tx |-> 0, entry |-> NoEntry, id |-> UnknownId, valid |-> c]
  BY <1>2, <1>3
<1>5. PICK s2 : s2 = [s1 EXCEPT !.tx = t]
  OBVIOUS
<1>6. s2 = [on |-> b, tx |-> t, entry |-> NoEntry, id |-> UnknownId, valid |-> c]
  BY <1>4, <1>5
<1>7. PICK s3 : s3 = [s2 EXCEPT !.entry = e]
  OBVIOUS
<1>8. s3 = [on |-> b, tx |-> t, entry |-> e, id |-> UnknownId, valid |-> c]
  BY <1>6, <1>7
<1>9. b \in BOOLEAN /\ c \in BOOLEAN
  BY <1>b
<1>10. SessionIs(s3, b, t, e, UnknownId, c) /\ SessionIs(s1, b, 0, NoEntry, UnknownId, c)
  BY <1>4, <1>8, <1>9, SessionFields, Zenon
<1>11. [NoSession EXCEPT !.on = TRUE, !.tx = t, !.entry = e] = s3 /\ [NoSession EXCEPT !.on = TRUE] = s1
  BY <1>1, <1>3, <1>5, <1>7, <1>b, Zenon
<1> QED BY <1>10, <1>11, <1>b, Zenon

\* A session whose id is learnt or given up.
LEMMA LearntFields ==
  ASSUME NEW s \in SessionType, NEW i
  PROVE  /\ SessionIs([s EXCEPT !.id = i, !.valid = TRUE], s.on, s.tx, s.entry, i, TRUE)
         /\ SessionIs([s EXCEPT !.valid = TRUE], s.on, s.tx, s.entry, s.id, TRUE)
<1>b. PICK b : b = TRUE
  OBVIOUS
<1>1. s = [on |-> s.on, tx |-> s.tx, entry |-> s.entry, id |-> s.id, valid |-> s.valid]
      /\ s.on \in BOOLEAN
  BY DEF SessionType
<1> PICK o : o = s.on
  OBVIOUS
<1>2. PICK s1 : s1 = [s EXCEPT !.id = i]
  OBVIOUS
<1>3. s1 = [on |-> o, tx |-> s.tx, entry |-> s.entry, id |-> i, valid |-> s.valid]
  BY <1>1, <1>2
<1>4. PICK s2 : s2 = [s1 EXCEPT !.valid = b]
  OBVIOUS
<1>5. s2 = [on |-> o, tx |-> s.tx, entry |-> s.entry, id |-> i, valid |-> b]
  BY <1>3, <1>4
<1>6. PICK s3 : s3 = [s EXCEPT !.valid = b]
  OBVIOUS
<1>7. s3 = [on |-> o, tx |-> s.tx, entry |-> s.entry, id |-> s.id, valid |-> b]
  BY <1>1, <1>6
<1>8. b \in BOOLEAN /\ o \in BOOLEAN
  BY <1>1, <1>b
<1>9. SessionIs(s2, o, s.tx, s.entry, i, b)
  BY <1>5, <1>8, SessionFields, Zenon
<1>10. SessionIs(s3, o, s.tx, s.entry, s.id, b)
  BY <1>7, <1>8, SessionFields, Zenon
<1>11. [s EXCEPT !.id = i, !.valid = TRUE] = s2 /\ [s EXCEPT !.valid = TRUE] = s3
  BY <1>2, <1>4, <1>6, <1>b, Zenon
<1> QED BY <1>9, <1>10, <1>11, <1>b, Zenon

LEMMA StartOwn ==
  ASSUME StoreInv, StoreInv', ActiveInv, OwnInv, StartTransaction
  PROVE  OwnInv'
<1>0. FilesInv /\ clock \in Nat /\ EnqueueStart /\ Active = {}
  BY NobodyActive, Zenon DEF StoreInv, RingInv, StartTransaction
<1>1. UNCHANGED <<loaded, queue, call, answered, last_from_file>>
  BY DEF StartTransaction, EnqueueStart
<1>2. PassesAll(files', clock) /\ StartsAll(files')
      /\ (Vacant # {} => VacantEntry \in Entry /\ files'[VacantEntry].active /\ files'[VacantEntry].start = clock')
  BY <1>0, StartPasses, Zenon
<1>3. FilesOwn' /\ LoadedOwn' /\ QueueOwn' /\ CallOwn' /\ AnswerOwn'
  BY <1>1, <1>2, StoredOwn, Zenon
<1>4. SessionOwn'
  <2>1. CASE Vacant = {}
    <3>1. SessionIs(session', TRUE, 0, NoEntry, UnknownId, FALSE)
      BY <2>1, StartedSession, Zenon DEF StartTransaction
    <3> QED BY <3>1, EntryIs, Zenon DEF SessionIs, SessionOwn, Own
  <2>2. CASE Vacant # {}
    <3> PICK k, v : k = clock' /\ v = VacantEntry
      OBVIOUS
    <3>1. SessionIs([NoSession EXCEPT !.on = TRUE, !.tx = k, !.entry = v], TRUE, k, v, UnknownId, FALSE)
      BY StartedSession, Zenon
    <3>2. session' = [NoSession EXCEPT !.on = TRUE, !.tx = k, !.entry = v]
      BY <2>2, Zenon DEF StartTransaction
    <3> QED BY <1>2, <2>2, <3>1, <3>2, Zenon DEF SessionIs, SessionOwn, Own
  <2> QED BY <2>1, <2>2
<1> QED BY <1>3, <1>4, Zenon DEF OwnInv

LEMMA StopOwn ==
  ASSUME StoreInv, StoreInv', OwnInv, StopTransaction
  PROVE  OwnInv'
<1>1. UNCHANGED <<loaded, queue, call, answered, last_from_file>> /\ files' = StopActive(clock')
      /\ session' = NoSession
  BY DEF StopTransaction, EnqueueStop
<1>2. FilesInv
  BY DEF StoreInv
<1>3. PassesAll(files', 0) /\ StartsAll(files')
  BY <1>1, <1>2, StopPasses, Zenon
<1>4. FilesOwn' /\ LoadedOwn' /\ QueueOwn' /\ CallOwn' /\ AnswerOwn'
  BY <1>1, <1>3, StoredOwn, Zenon
<1>5. SessionOwn'
  BY <1>1, NoSessionFields, EntryIs, Zenon DEF SessionIs, SessionOwn, Own
<1> QED BY <1>4, <1>5, Zenon DEF OwnInv

LEMMA WriteOwn ==
  ASSUME StoreInv, StoreInv', OwnInv, SampleStored
  PROVE  OwnInv'
<1>1. UNCHANGED <<loaded, queue, session, call, answered, last_from_file>> /\ WriteMeterValue
  BY DEF SampleStored, WriteMeterValue
<1>2. FilesInv
  BY DEF StoreInv
<1>3. PassesAll(files', 0) /\ StaysAll(files') /\ StartsAll(files')
  BY <1>1, <1>2, WritePasses, Zenon
<1>4. FilesOwn' /\ LoadedOwn' /\ QueueOwn' /\ CallOwn' /\ AnswerOwn'
  BY <1>1, <1>3, StoredOwn, Zenon
<1>5. SessionOwn'
  BY <1>1, <1>2, <1>3, SessionOwnKept, Zenon DEF OwnInv, SessionOwn
<1> QED BY <1>4, <1>5, Zenon DEF OwnInv

LEMMA SendOwn ==
  ASSUME StoreInv, OwnInv, SampleQueued
  PROVE  OwnInv'
<1>1. UNCHANGED <<files, loaded, session, call, answered, last_from_file>>
  BY DEF SampleQueued, QueueSend
<1> PICK c : c = Call("meter", session.tx, clock', session.id)
  OBVIOUS
<1>2. queue' = Append(queue, c)
  BY DEF SampleQueued, QueueSend
<1>3. Own(c.id, c.tx)
  <2>1. c.id = session.id /\ c.tx = session.tx
    BY DEF Call
  <2> QED BY <2>1, Zenon DEF OwnInv, SessionOwn
<1>4. QueueOwn'
  <2>1. queue \in Seq(CallType) /\ \A i \in 1 .. Len(queue) : Own(queue[i].id, queue[i].tx)
    BY DEF StoreInv, QueueInv, OwnInv, QueueOwn
  <2> HIDE DEF CallType, Own
  <2> SUFFICES ASSUME NEW i \in 1 .. Len(queue') PROVE Own(queue'[i].id, queue'[i].tx)
    BY DEF QueueOwn
  <2>2. Len(queue) \in Nat
    BY <2>1
  <2>4. c \in CallType
    <3>1. session.tx \in Nat /\ session.id \in Id /\ clock' \in Nat
      BY DEF StoreInv, ClientInv, RingInv, SampleQueued, QueueSend
    <3> QED BY <3>1 DEF Call, CallType, Kind
  <2>5. (i \in 1 .. Len(queue) /\ queue'[i] = queue[i]) \/ queue'[i] = c
    BY <1>2, <2>1, <2>2, <2>4
  <2> QED BY <1>3, <2>1, <2>5
<1>5. FilesOwn' /\ LoadedOwn' /\ SessionOwn' /\ CallOwn' /\ AnswerOwn'
  BY <1>1, Zenon DEF OwnInv, FilesOwn, LoadedOwn, SessionOwn, CallOwn, AnswerOwn
<1> QED BY <1>4, <1>5, Zenon DEF OwnInv

LEMMA LoadedIsOwn ==
  ASSUME FilesInv, CacheInv, LoadedInv, FilesOwn, LoadedOwn, Loaded.data
  PROVE  Loaded.call.tx = files[Loaded.entry].start /\ Own(Loaded.call.id, Loaded.call.tx)
<1>1. CASE loaded.data
  BY <1>1, Zenon DEF Loaded, LoadedOwn
<1>2. CASE ~loaded.data
  <2> PICK e : e = OldestEntry
    OBVIOUS
  <2> PICK f : f = files[e]
    OBVIOUS
  <2>0. Loaded = LoadNext /\ loaded \in LoadedType
    BY <1>2, Zenon DEF Loaded, LoadedInv
  <2>1. OldestKnown # {} /\ NextKind(f) # "none"
    <3>1. ASSUME NEW d, Loaded = Unloaded(d) PROVE FALSE
      <4>1. Loaded = LoadLit(FALSE, d, Never, loaded.call, loaded.next)
        BY <2>0, <3>1, UnloadIs, Zenon DEF Unloaded
      <4> PICK b : b = FALSE
        OBVIOUS
      <4>2. Loaded = LoadLit(b, d, Never, loaded.call, loaded.next)
        BY <4>1, Zenon
      <4>3. Loaded.data = b
        BY <4>2 DEF LoadLit
      <4> QED BY <4>3, Zenon
    <3> QED BY <2>0, <3>1, Zenon DEF LoadNext
  <2>2. e \in Entry
    BY <2>1, OldestIsEntry
  <2> PICK c : c = Call(NextKind(f), f.start, NextNo(f), f.id)
    OBVIOUS
  <2>3. Loaded = LoadLit(TRUE, e, NextNo(f), c, f.conf + 1)
    BY <2>0, <2>1, Zenon DEF LoadNext, LoadLit
  <2> PICK b : b = TRUE
    OBVIOUS
  <2>4. Loaded = LoadLit(b, e, NextNo(f), c, f.conf + 1)
    BY <2>3, Zenon
  <2>5. Loaded.call = c /\ Loaded.entry = e
    BY <2>4 DEF LoadLit
  <2>6. c.tx = f.start /\ c.id = f.id
    BY DEF Call
  <2> QED BY <2>2, <2>5, <2>6, Zenon DEF FilesOwn
<1> QED BY <1>1, <1>2

LEMMA TakeOwn ==
  ASSUME StoreInv, OwnInv, TakeMessage
  PROVE  OwnInv'
<1>0. FilesInv /\ CacheInv /\ LoadedInv /\ RingInv /\ QueueInv
  BY DEF StoreInv
<1>1. UNCHANGED <<files, session, answered>> /\ loaded' = Loaded /\ call' = NextCall /\ answered = NoAnswer
  BY DEF TakeMessage, GetNextMessage, Ready
<1>2. LoadedOwn'
  BY <1>0, <1>1, LoadedIsOwn, Zenon DEF OwnInv, LoadedOwn
<1>3. FilesOwn' /\ SessionOwn' /\ AnswerOwn'
  BY <1>1, Zenon DEF OwnInv, FilesOwn, SessionOwn, AnswerOwn
<1>4. CASE FromFile
  <2>1. call' = loaded'.call /\ loaded'.data /\ queue' = queue
    <3>1. Loaded.data
      BY <1>0, <1>4, FromFileLoaded
    <3>2. queue' = queue
      BY <1>4, Zenon DEF TakeMessage, GetNextMessage
    <3> QED BY <1>1, <1>4, <3>1, <3>2, Zenon DEF NextCall
  <2>2. CallOwn'
    BY <1>1, <1>2, <2>1, Zenon DEF CallOwn, LoadedOwn
  <2>3. QueueOwn'
    BY <2>1 DEF OwnInv, QueueOwn
  <2> QED BY <1>2, <1>3, <2>2, <2>3, Zenon DEF OwnInv
<1>5. CASE ~FromFile /\ queue # <<>>
  <2>1. queue' = Tail(queue) /\ last_from_file' = FALSE /\ call' = Head(queue)
    BY <1>1, <1>5, Zenon DEF TakeMessage, GetNextMessage, NextCall
  <2>2. queue \in Seq(CallType) /\ \A i \in 1 .. Len(queue) : Own(queue[i].id, queue[i].tx)
    BY <1>0 DEF QueueInv, OwnInv, QueueOwn
  <2> HIDE DEF CallType, Own
  <2>3. call' = queue[1] /\ 1 \in 1 .. Len(queue)
        /\ \A i \in 1 .. Len(queue') : i + 1 \in 1 .. Len(queue) /\ queue'[i] = queue[i + 1]
    BY <1>5, <2>1, <2>2
  <2>4. Own(call'.id, call'.tx)
    BY <2>2, <2>3
  <2>5. CallOwn'
    BY <1>1, <2>1, <2>4, Zenon DEF CallOwn
  <2>6. QueueOwn'
    BY <2>2, <2>3 DEF QueueOwn
  <2> QED BY <1>2, <1>3, <2>5, <2>6, Zenon DEF OwnInv
<1>6. CASE ~FromFile /\ queue = <<>>
  <2>1. call' = NoCall /\ queue' = queue
    BY <1>1, <1>6, Zenon DEF TakeMessage, GetNextMessage, NextCall
  <2>2. QueueOwn'
    BY <2>1 DEF OwnInv, QueueOwn
  <2> QED BY <1>2, <1>3, <2>1, <2>2, Zenon DEF OwnInv, CallOwn
<1> QED BY <1>4, <1>5, <1>6

LEMMA FailOwn ==
  ASSUME StoreInv, StoreInv', OwnInv, TakeFails
  PROVE  OwnInv'
<1>0. FilesInv /\ FilesInv' /\ CacheInv /\ LoadedInv /\ RingInv /\ GetNextFails
  BY DEF StoreInv, TakeFails
<1>1. UNCHANGED <<queue, session, call, answered, last_from_file>> /\ call = NoCall /\ answered = NoAnswer
      /\ loaded' = [Loaded EXCEPT !.data = FALSE, !.entry = NoEntry]
  BY DEF TakeFails, GetNextFails, Ready
<1>2. PassesAll(files', 0) /\ StaysAll(files')
  BY <1>0, GiveUpPasses, Zenon
<1>3. FilesOwn'
  BY <1>0, <1>2, FilesOwnKept, Zenon DEF OwnInv
<1>4. ~loaded'.data
  <2>1. Loaded \in LoadedType
    BY <1>0, LoadedNext
  <2> PICK b : b = FALSE
    OBVIOUS
  <2>2. loaded' = LoadLit(b, NoEntry, Loaded.time, Loaded.call, Loaded.next)
    BY <1>1, <2>1, UnloadIs, Zenon
  <2>3. loaded'.data = b
    BY <2>2 DEF LoadLit
  <2> QED BY <2>3, Zenon
<1>5. SessionOwn'
  BY <1>0, <1>1, <1>2, SessionOwnKept, Zenon DEF OwnInv, SessionOwn
<1>6. QueueOwn'
  BY <1>1 DEF OwnInv, QueueOwn
<1> QED BY <1>1, <1>3, <1>4, <1>5, <1>6, Zenon DEF OwnInv, LoadedOwn, CallOwn, AnswerOwn

\* What confirming the message that is out leaves of the storage.
LEMMA ConfirmOwn ==
  ASSUME StoreInv, StoreInv', OwnInv, call # NoCall, ConfirmLast, call' = NoCall
  PROVE  /\ PassesAll(files', clock) /\ StaysAll(files') /\ (last_from_file => loaded.data)
         /\ FilesOwn' /\ LoadedOwn' /\ QueueOwn' /\ CallOwn'
<1>0. FilesInv /\ FilesInv' /\ LoadedInv /\ UNCHANGED <<queue, last_from_file>>
  BY DEF StoreInv, ConfirmLast
<1>1. last_from_file => loaded.data
  BY Zenon DEF OwnInv, CallOwn
<1>2. PassesAll(files', clock) /\ StaysAll(files')
  BY <1>0, <1>1, ConfirmPasses, Zenon
<1>3. FilesOwn'
  BY <1>0, <1>2, FilesOwnKept, Zenon DEF OwnInv
<1>4. LoadedOwn'
  <2>1. CASE last_from_file
    <3>1. loaded.entry # NoEntry /\ loaded \in LoadedType
      BY <1>0, <1>1, <2>1, EntryIs, Zenon DEF LoadedInv, LoadedRight
    <3>2. loaded' = [loaded EXCEPT !.data = FALSE]
      BY <2>1, <3>1, Zenon DEF ConfirmLast
    <3> PICK b : b = FALSE
      OBVIOUS
    <3>3. loaded' = LoadLit(b, loaded.entry, loaded.time, loaded.call, loaded.next)
      BY <3>1, <3>2, UnloadIs, Zenon
    <3>4. loaded'.data = b
      BY <3>3 DEF LoadLit
    <3> QED BY <3>4, Zenon DEF LoadedOwn
  <2>2. CASE ~last_from_file
    <3>1. UNCHANGED <<files, loaded>>
      BY <2>2, Zenon DEF ConfirmLast
    <3> QED BY <3>1, Zenon DEF OwnInv, LoadedOwn
  <2> QED BY <2>1, <2>2
<1>5. QueueOwn'
  BY <1>0 DEF OwnInv, QueueOwn
<1>6. CallOwn'
  BY Zenon DEF CallOwn
<1> QED BY <1>1, <1>2, <1>3, <1>4, <1>5, <1>6

\* The start that is out for an answer is the next message of the file of its
\* transaction.
LEMMA StartOut ==
  ASSUME StoreInv, OwnInv, call # NoCall, call.kind = "start"
  PROVE  /\ last_from_file /\ loaded.data /\ call = loaded.call
         /\ loaded.entry \in Entry /\ call.tx = files[loaded.entry].start /\ call.tx # 0
         /\ files[loaded.entry].conf = AtStart
<1> PICK a : a = loaded.entry
  OBVIOUS
<1>1. last_from_file
  <2>1. "start" # "meter"
    OBVIOUS
  <2> QED BY <2>1, Zenon DEF StoreInv, CallInv
<1>2. loaded.data /\ call = loaded.call
  BY <1>1, Zenon DEF OwnInv, CallOwn
<1>3. a \in Entry /\ NextKind(files[a]) # "none" /\ Message(loaded.call) = <<NextKind(files[a]), NextNo(files[a])>>
  BY <1>2, Zenon DEF StoreInv, LoadedInv, LoadedRight
<1>4. NextKind(files[a]) = "start" /\ IsRight(files[a])
  BY <1>2, <1>3 DEF Message, StoreInv, FilesInv
<1>5. files[a].start # 0 /\ files[a].conf = AtStart
  BY <1>4, NextKinds DEF AtStart
<1> QED BY <1>1, <1>2, <1>3, <1>5, Zenon DEF OwnInv, LoadedOwn

\* Its confirmation leaves the file to the callback.
LEMMA StartConfirmed ==
  ASSUME StoreInv, OwnInv, call # NoCall, call.kind = "start", ConfirmLast
  PROVE  PastStart(files[loaded.entry], files'[loaded.entry])
<1>1. last_from_file /\ loaded.data /\ call = loaded.call
  BY StartOut
<1>2. loaded.call.kind = "start" /\ FilesInv /\ LoadedInv
  BY <1>1 DEF StoreInv
<1> QED BY <1>1, <1>2, ConfirmPasses, Zenon

LEMMA AcceptOwn ==
  ASSUME StoreInv, StoreInv', OwnInv, Accepted
  PROVE  OwnInv'
<1>1. call # NoCall /\ ConfirmLast /\ call' = NoCall /\ UNCHANGED session
  BY DEF Accepted
<1>2. /\ PassesAll(files', clock) /\ StaysAll(files')
      /\ FilesOwn' /\ LoadedOwn' /\ QueueOwn' /\ CallOwn'
  BY <1>1, ConfirmOwn, Zenon
<1>3. SessionOwn'
  BY <1>1, <1>2, SessionOwnKept, Zenon DEF OwnInv, SessionOwn, StoreInv
<1>4. AnswerOwn'
  <2>1. CASE answered' = NoAnswer
    BY <2>1, Zenon DEF AnswerOwn
  <2>2. CASE answered' # NoAnswer
    <3>1. call.kind = "start" /\ answered' = [entry |-> loaded.entry, tx |-> call.tx]
      BY <2>2, Zenon DEF Accepted
    <3>2. loaded.entry \in Entry /\ call.tx = files[loaded.entry].start /\ call.tx # 0
      BY <1>1, <3>1, StartOut
    <3>3. files'[loaded.entry].start = files[loaded.entry].start
      BY <1>1, <3>1, StartConfirmed, Zenon DEF PastStart
    <3>4. answered'.entry = loaded.entry /\ answered'.tx = call.tx
      BY <3>1
    <3> QED BY <3>2, <3>3, <3>4, Zenon DEF AnswerOwn
  <2> QED BY <2>1, <2>2
<1> QED BY <1>2, <1>3, <1>4, Zenon DEF OwnInv

\* A rejected start leaves the session its transaction and its id.
LEMMA RejectedSession ==
  ASSUME StoreInv, Rejected
  PROVE  /\ session'.on = session.on /\ session'.tx = session.tx /\ session'.entry = session.entry
         /\ session'.id = session.id
         /\ session'.valid => session.valid \/ (call.kind = "start" /\ session.on /\ session.entry = loaded.entry)
<1> PICK s : s = session
  OBVIOUS
<1>1. s \in SessionType
  BY DEF StoreInv, ClientInv, SessionType
<1>2. CASE session' = session
  BY <1>2, Zenon
<1>3. CASE session' # session
  <2>1. session' = [s EXCEPT !.valid = TRUE] /\ call.kind = "start" /\ session.on /\ session.entry = loaded.entry
    BY <1>3, Zenon DEF Rejected
  <2>2. SessionIs(session', s.on, s.tx, s.entry, s.id, TRUE)
    BY <1>1, <2>1, LearntFields, Zenon
  <2>3. session'.on \in BOOLEAN /\ session.on \in BOOLEAN
    <3>1. session' = [s EXCEPT !.valid = TRUE]
      BY <2>1
    <3>2. \A b \in BOOLEAN : [s EXCEPT !.valid = b] \in SessionType
      BY <1>1 DEF SessionType
    <3>3. session' \in SessionType
      BY <3>1, <3>2, Zenon
    <3> QED BY <1>1, <3>3 DEF SessionType
  <2>4. session'.on = session.on
    <3>1. session'.on <=> session.on
      BY <2>2, Zenon DEF SessionIs
    <3> QED BY <2>3, <3>1
  <2> QED BY <2>1, <2>2, <2>4, Zenon DEF SessionIs
<1> QED BY <1>2, <1>3

LEMMA RejectOwn ==
  ASSUME StoreInv, StoreInv', OwnInv, Rejected
  PROVE  OwnInv'
<1>1. call # NoCall /\ ConfirmLast /\ call' = NoCall /\ UNCHANGED answered
  BY DEF Rejected
<1>2. /\ PassesAll(files', clock) /\ StaysAll(files')
      /\ FilesOwn' /\ LoadedOwn' /\ QueueOwn' /\ CallOwn'
  BY <1>1, ConfirmOwn, Zenon
<1>3. SessionOwn'
  BY <1>2, RejectedSession, SessionOwnKept, Zenon DEF OwnInv, SessionOwn, StoreInv
<1>4. AnswerOwn'
  BY <1>1, Zenon DEF OwnInv, CallOwn, AnswerOwn
<1> QED BY <1>2, <1>3, <1>4, Zenon DEF OwnInv

\* A session learns the id of its own transaction.
LearntBy(s, t) ==
    \/ session' = session
    \/ session.entry = answered.entry /\ SessionIs(s, session.on, session.tx, session.entry, t, TRUE)

LEMMA LearnIs ==
  ASSUME StoreInv, OwnInv, LearnId, session.on
  PROVE  /\ answered.entry \in Entry /\ files[answered.entry].start = answered.tx /\ answered.tx # 0
         /\ Learns(files', answered.entry, answered.tx) /\ LearntBy(session', answered.tx)
<1> PICK a, t, s : a = answered.entry /\ t = answered.tx /\ s = session
  OBVIOUS
<1>1. a \in Entry /\ files[a].start = t /\ t # 0
  BY Zenon DEF LearnId, OwnInv, AnswerOwn
<1>2. Learns(files', a, t)
  <2>1. FilesInv /\ SetRealId(a, t) /\ files[a].start # 0
    BY <1>1, Zenon DEF StoreInv, LearnId
  <2> QED BY <1>1, <2>1, SetIdLearns, Zenon
<1>3. LearntBy(session', t)
  <2>1. CASE session' = session
    BY <2>1, Zenon DEF LearntBy
  <2>2. CASE session' # session
    <3>1. session' = [s EXCEPT !.id = t, !.valid = TRUE] /\ session.entry = answered.entry
      BY <2>2, Zenon DEF LearnId
    <3>2. s \in SessionType
      BY DEF StoreInv, ClientInv, SessionType
    <3>3. SessionIs(session', s.on, s.tx, s.entry, t, TRUE)
      BY <3>1, <3>2, LearntFields, Zenon
    <3> QED BY <3>1, <3>3, Zenon DEF LearntBy
  <2> QED BY <2>1, <2>2
<1> QED BY <1>1, <1>2, <1>3, Zenon

LEMMA LearnOwn ==
  ASSUME StoreInv, OwnInv, LearnId
  PROVE  OwnInv'
<1>1. UNCHANGED <<loaded, queue, call, last_from_file>> /\ answered # NoAnswer /\ answered' = NoAnswer
  BY DEF LearnId, SetRealId, store
<1>2. call = NoCall
  BY <1>1, Zenon DEF OwnInv, CallOwn
<1>3. QueueOwn' /\ CallOwn' /\ AnswerOwn'
  <2>1. QueueOwn'
    BY <1>1 DEF OwnInv, QueueOwn
  <2> QED BY <1>1, <1>2, <2>1, Zenon DEF CallOwn, AnswerOwn
<1>4. CASE session.on
  <2> PICK a, t : a = answered.entry /\ t = answered.tx
    OBVIOUS
  <2>1. a \in Entry /\ files[a].start = t /\ Learns(files', a, t) /\ LearntBy(session', t)
    BY <1>4, LearnIs, Zenon
  <2>2. FilesOwn'
    BY <2>1, Zenon DEF Learns, OwnInv, FilesOwn, Own
  <2>3. LoadedOwn'
    BY <1>1, <2>1, Zenon DEF Learns, OwnInv, LoadedOwn, StoreInv, LoadedInv, LoadedRight
  <2>4. SessionOwn'
    <3>1. CASE session' = session
      BY <2>1, <3>1, Zenon DEF Learns, OwnInv, SessionOwn
    <3>2. CASE session.entry = a /\ SessionIs(session', session.on, session.tx, session.entry, t, TRUE)
      BY <1>4, <2>1, <3>2, Zenon DEF Learns, OwnInv, SessionOwn, SessionIs, Own
    <3> QED BY <2>1, <3>1, <3>2, Zenon DEF LearntBy
  <2> QED BY <1>3, <2>2, <2>3, <2>4, Zenon DEF OwnInv
<1>5. CASE ~session.on
  <2>1. UNCHANGED <<files, session>>
    BY <1>5, Zenon DEF LearnId, store
  <2>2. FilesOwn' /\ LoadedOwn' /\ SessionOwn'
    BY <1>1, <2>1, Zenon DEF OwnInv, FilesOwn, LoadedOwn, SessionOwn
  <2> QED BY <1>3, <2>2, Zenon DEF OwnInv
<1> QED BY <1>4, <1>5

\* The session a restart finds.
LEMMA RestoredIs ==
  ASSUME Restart
  PROVE  \/ Active = {} /\ SessionIs(session', FALSE, 0, NoEntry, UnknownId, FALSE)
         \/ \E a \in Active : SessionIs(session', TRUE, files[a].start, NoEntry, files[a].id, files[a].conf # AtStart)
<1>1. CASE Active = {}
  BY <1>1, NoSessionFields, Zenon DEF Restart, Restored
<1>2. CASE Active # {}
  <2> PICK a : a = ActiveEntry
    OBVIOUS
  <2> PICK f : f = files[a]
    OBVIOUS
  <2>1. a \in Active
    BY <1>2, Zenon DEF ActiveEntry
  <2>2. session' = [on |-> TRUE, tx |-> f.start, entry |-> NoEntry, id |-> f.id, valid |-> f.conf # AtStart]
    BY <1>2, Zenon DEF Restart, Restored
  <2> PICK b, c : b = TRUE /\ c = (f.conf # AtStart)
    OBVIOUS
  <2>3. b \in BOOLEAN /\ c \in BOOLEAN
    OBVIOUS
  <2>4. SessionIs([on |-> b, tx |-> f.start, entry |-> NoEntry, id |-> f.id, valid |-> c],
                  b, f.start, NoEntry, f.id, c)
    BY <2>3, SessionFields
  <2>5. session' = [on |-> b, tx |-> f.start, entry |-> NoEntry, id |-> f.id, valid |-> c]
    BY <2>2, Zenon
  <2>6. SessionIs(session', TRUE, f.start, NoEntry, f.id, f.conf # AtStart)
    BY <2>4, <2>5, Zenon
  <2> QED BY <2>1, <2>6, Zenon
<1> QED BY <1>1, <1>2

LEMMA RestartOwn ==
  ASSUME OwnInv, Restart
  PROVE  OwnInv'
<1>1. UNCHANGED files /\ loaded' = NothingLoaded /\ queue' = <<>> /\ call' = NoCall /\ answered' = NoAnswer
  BY DEF Restart, Booted
<1>2. FilesOwn' /\ CallOwn' /\ AnswerOwn'
  BY <1>1, Zenon DEF OwnInv, FilesOwn, CallOwn, AnswerOwn
<1>3. LoadedOwn'
  BY <1>1, NothingLoadedRight, Zenon DEF LoadedOwn, IsUnloaded
<1>4. QueueOwn'
  <2>1. 1 .. Len(<<>>) = {}
    OBVIOUS
  <2> QED BY <1>1, <2>1 DEF QueueOwn
<1>5. SessionOwn'
  <2>1. CASE SessionIs(session', FALSE, 0, NoEntry, UnknownId, FALSE)
    BY <2>1, EntryIs, Zenon DEF SessionIs, SessionOwn, Own
  <2>2. ASSUME NEW a \in Active,
               SessionIs(session', TRUE, files[a].start, NoEntry, files[a].id, files[a].conf # AtStart)
        PROVE  SessionOwn'
    BY <2>2, EntryIs, Zenon DEF SessionIs, SessionOwn, OwnInv, FilesOwn, Active
  <2> QED BY <2>1, <2>2, RestoredIs, Zenon
<1> QED BY <1>2, <1>3, <1>4, <1>5, Zenon DEF OwnInv

LEMMA OwnNext ==
  ASSUME StoreInv, StoreInv', ActiveInv, OwnInv, [Next]_vars, ~Clear
  PROVE  OwnInv'
<1>1. CASE Count
  <2>1. UNCHANGED <<files, loaded, queue, session, call, answered, last_from_file>>
    BY <1>1 DEF Count, CountMessages
  <2> QED BY <2>1, SameOwn
<1>2. CASE UNCHANGED vars
  BY <1>2, SameOwn DEF vars, store
<1> QED BY <1>1, <1>2, StartOwn, StopOwn, WriteOwn, SendOwn, TakeOwn, FailOwn, AcceptOwn, LearnOwn,
           RejectOwn, RestartOwn DEF Next

-----------------------------------------------------------------------------
(* The ids the central system has given.                                   *)

AssignedReal ==
    /\ 0 \notin assigned /\ \A t \in assigned : t <= clock
    /\ answered # NoAnswer => answered.tx \in assigned

\* A file whose start was answered is past it, and while it is active it has its
\* id, or the callback is still to give it.
FilesReal == \A e \in Entry : files[e].start # 0 /\ files[e].start \in assigned =>
    /\ files[e].conf # AtStart
    /\ files[e].active => files[e].id = files[e].start \/ (answered # NoAnswer /\ answered.entry = e)

\* A valid id is that of a session under way, past its start.
SessionReal ==
    /\ session.valid => session.on /\ \A e \in Active : files[e].conf # AtStart
    /\ session.on /\ session.tx # 0 => \E e \in Active : files[e].start = session.tx

RealInv == AssignedReal /\ FilesReal /\ SessionReal /\ ValidIsReal

LEMMA AssignedKept ==
  ASSUME AssignedReal, ClientInv, clock \in Nat, clock' \in Nat, clock <= clock', UNCHANGED assigned,
         answered' = NoAnswer \/ answered' = answered
  PROVE  AssignedReal'
<1>1. \A t \in assigned : t \in Nat /\ t <= clock
  BY DEF ClientInv, AssignedReal
<1>2. \A t \in assigned : t <= clock'
  BY <1>1
<1> QED BY <1>2 DEF AssignedReal

LEMMA FilesRealKept ==
  ASSUME AssignedReal, FilesReal, ClientInv, clock \in Nat, PassesAll(files', clock), UNCHANGED <<assigned, answered>>
  PROVE  FilesReal'
<1> SUFFICES ASSUME NEW e \in Entry, files'[e].start # 0, files'[e].start \in assigned
             PROVE  /\ files'[e].conf # AtStart
                    /\ files'[e].active =>
                         files'[e].id = files'[e].start \/ (answered # NoAnswer /\ answered.entry = e)
  BY Zenon DEF FilesReal
<1>1. files[e].start # 0
  <2> SUFFICES ASSUME files[e].start = 0 PROVE FALSE
    OBVIOUS
  <2> PICK k : k = files'[e].start
    OBVIOUS
  <2>1. k \in assigned /\ clock < k
    BY Zenon DEF PassesAll
  <2>2. k \in Nat /\ k <= clock
    BY <2>1 DEF ClientInv, AssignedReal
  <2> QED BY <2>1, <2>2
<1>2. Passes(files[e], files'[e])
  BY <1>1, Zenon DEF PassesAll
<1> QED BY <1>1, <1>2, Zenon DEF FilesReal, Passes

LEMMA SessionRealKept ==
  ASSUME FilesInv, SessionReal, PassesAll(files', clock), StaysAll(files'), Tamed,
         session'.on = session.on, session'.tx = session.tx, session'.valid => session.valid
  PROVE  SessionReal'
<1>1. ASSUME NEW e \in Active' PROVE e \in Active /\ (files[e].conf # AtStart => files'[e].conf # AtStart)
  <2>1. e \in Entry /\ files[e].active
    BY <1>1, Zenon DEF Tamed, Tame, Active
  <2> QED BY <2>1, StaysOwn, Zenon DEF Active, Passes
<1>2. ASSUME NEW e \in Active PROVE e \in Active' /\ files'[e].start = files[e].start
  BY <1>2, StaysOwn, Zenon DEF Active
<1> QED BY <1>1, <1>2, Zenon DEF SessionReal

LEMMA SameReal ==
  ASSUME RealInv, ClientInv, clock \in Nat, clock' \in Nat, clock <= clock',
         UNCHANGED <<files, session, answered, assigned>>
  PROVE  RealInv'
<1>1. AssignedReal'
  BY AssignedKept DEF RealInv
<1>2. Active' = Active
  BY DEF Active
<1>3. FilesReal' /\ SessionReal' /\ ValidIsReal'
  BY <1>2, Zenon DEF RealInv, FilesReal, SessionReal, ValidIsReal
<1> QED BY <1>1, <1>3, Zenon DEF RealInv

LEMMA StartReal ==
  ASSUME StoreInv, ActiveInv, RealInv, StartTransaction
  PROVE  RealInv'
<1>0. FilesInv /\ ClientInv /\ clock \in Nat /\ EnqueueStart /\ Active = {}
  BY NobodyActive, Zenon DEF StoreInv, RingInv, StartTransaction
<1>1. UNCHANGED <<answered, assigned>> /\ clock' \in Nat /\ clock < clock' /\ clock <= clock'
  BY <1>0 DEF StartTransaction, EnqueueStart
<1>2. PassesAll(files', clock)
      /\ (Vacant # {} => VacantEntry \in Entry /\ files'[VacantEntry].active /\ files'[VacantEntry].start = clock')
  BY <1>0, StartPasses, Zenon
<1>3. AssignedReal'
  BY <1>0, <1>1, AssignedKept DEF RealInv
<1>4. FilesReal'
  BY <1>0, <1>1, <1>2, FilesRealKept DEF RealInv
<1>5. SessionReal' /\ ~session'.valid
  <2>1. CASE Vacant = {}
    <3>1. SessionIs(session', TRUE, 0, NoEntry, UnknownId, FALSE)
      BY <2>1, StartedSession, Zenon DEF StartTransaction
    <3> QED BY <3>1, Zenon DEF SessionIs, SessionReal
  <2>2. CASE Vacant # {}
    <3> PICK k, v : k = clock' /\ v = VacantEntry
      OBVIOUS
    <3>1. SessionIs([NoSession EXCEPT !.on = TRUE, !.tx = k, !.entry = v], TRUE, k, v, UnknownId, FALSE)
      BY StartedSession, Zenon
    <3>2. session' = [NoSession EXCEPT !.on = TRUE, !.tx = k, !.entry = v]
      BY <2>2, Zenon DEF StartTransaction
    <3> QED BY <1>2, <2>2, <3>1, <3>2, Zenon DEF SessionIs, SessionReal, Active
  <2> QED BY <2>1, <2>2
<1> QED BY <1>3, <1>4, <1>5, Zenon DEF RealInv, ValidIsReal

LEMMA StopReal ==
  ASSUME StoreInv, RealInv, StopTransaction
  PROVE  RealInv'
<1>1. UNCHANGED <<answered, assigned>> /\ files' = StopActive(clock') /\ session' = NoSession /\ clock' = clock + 1
  BY DEF StopTransaction, EnqueueStop
<1>2. FilesInv /\ ClientInv /\ clock \in Nat
  BY DEF StoreInv, RingInv
<1>3. PassesAll(files', clock)
  BY <1>1, <1>2, StopPasses, Zenon
<1>4. AssignedReal'
  BY <1>1, <1>2, AssignedKept DEF RealInv
<1>5. FilesReal'
  BY <1>1, <1>2, <1>3, FilesRealKept DEF RealInv
<1> QED BY <1>1, <1>4, <1>5, NoSessionFields, Zenon DEF RealInv, SessionIs, SessionReal, ValidIsReal

LEMMA WriteReal ==
  ASSUME StoreInv, ActiveInv, RealInv, SampleStored
  PROVE  RealInv'
<1>1. UNCHANGED <<session, answered, assigned>> /\ WriteMeterValue /\ clock' = clock + 1
  BY DEF SampleStored, WriteMeterValue
<1>2. FilesInv /\ ClientInv /\ clock \in Nat
  BY DEF StoreInv, RingInv
<1>3. PassesAll(files', clock) /\ StaysAll(files') /\ Tamed
  BY <1>1, <1>2, WritePasses, MeterTamed, Zenon DEF ActiveInv
<1>4. AssignedReal'
  BY <1>1, <1>2, AssignedKept DEF RealInv
<1>5. FilesReal'
  BY <1>1, <1>2, <1>3, FilesRealKept DEF RealInv
<1>6. SessionReal' /\ ValidIsReal'
  BY <1>1, <1>2, <1>3, SessionRealKept, Zenon DEF RealInv, ValidIsReal
<1> QED BY <1>4, <1>5, <1>6, Zenon DEF RealInv

LEMMA FailReal ==
  ASSUME StoreInv, ActiveInv, RealInv, TakeFails
  PROVE  RealInv'
<1>1. UNCHANGED <<session, answered, assigned, clock>> /\ GetNextFails
  BY DEF TakeFails, GetNextFails
<1>2. FilesInv /\ CacheInv /\ LoadedInv /\ RingInv /\ ClientInv /\ clock \in Nat
  BY DEF StoreInv, RingInv
<1>3. PassesAll(files', clock) /\ StaysAll(files') /\ Tamed
  BY <1>1, <1>2, GiveUpPasses, GetNextTamed, Zenon DEF ActiveInv
<1>4. AssignedReal'
  BY <1>1, <1>2, AssignedKept DEF RealInv
<1>5. FilesReal'
  BY <1>1, <1>2, <1>3, FilesRealKept DEF RealInv
<1>6. SessionReal' /\ ValidIsReal'
  BY <1>1, <1>2, <1>3, SessionRealKept, Zenon DEF RealInv, ValidIsReal
<1> QED BY <1>4, <1>5, <1>6, Zenon DEF RealInv

\* Two files are not of one transaction.
LEMMA StartsDiffer ==
  ASSUME OrderInv, NEW d \in Entry, NEW e \in Entry, files[d].start = files[e].start, files[d].start # 0
  PROVE  d = e
BY Zenon DEF OrderInv, Apart

LEMMA AcceptReal ==
  ASSUME StoreInv, ActiveInv, OrderInv, OwnInv, RealInv, StoreInv', Accepted
  PROVE  RealInv'
<1>1. call # NoCall /\ ConfirmLast /\ call' = NoCall /\ UNCHANGED <<session, clock>>
  BY DEF Accepted, ConfirmLast
<1>2. FilesInv /\ ClientInv /\ clock \in Nat
  BY DEF StoreInv, RingInv
<1>3. PassesAll(files', clock) /\ StaysAll(files') /\ Tamed /\ (last_from_file => loaded.data)
  BY <1>1, ConfirmOwn, ConfirmTamed, Zenon DEF ActiveInv
<1>4. SessionReal'
  BY <1>1, <1>2, <1>3, SessionRealKept, Zenon DEF RealInv
<1>5. answered = NoAnswer
  BY <1>1, Zenon DEF OwnInv, CallOwn
<1>6. CASE call.kind # "start"
  <2>1. UNCHANGED <<answered, assigned>>
    BY <1>5, <1>6, Zenon DEF Accepted
  <2>2. AssignedReal'
    BY <1>1, <1>2, <2>1, AssignedKept DEF RealInv
  <2>3. FilesReal'
    BY <1>1, <1>2, <1>3, <2>1, FilesRealKept DEF RealInv
  <2> QED BY <1>1, <1>4, <2>1, <2>2, <2>3, Zenon DEF RealInv, ValidIsReal
<1>7. CASE call.kind = "start"
  <2> PICK a, t : a = loaded.entry /\ t = call.tx
    OBVIOUS
  <2>1. loaded.data /\ a \in Entry /\ t = files[a].start /\ t # 0 /\ files[a].conf = AtStart
    BY <1>1, <1>7, StartOut
  <2>2. PastStart(files[a], files'[a])
    BY <1>1, <1>7, StartConfirmed, Zenon
  <2>3. assigned' = assigned \cup {t} /\ answered' = [entry |-> a, tx |-> t]
    BY <1>7, <2>1, Zenon DEF Accepted
  <2>4. answered'.entry = a /\ answered'.tx = t
    BY <2>3
  <2>5. answered' # NoAnswer
    <3>1. NoAnswer.tx = 0
      BY DEF NoAnswer
    <3> QED BY <2>1, <2>4, <3>1
  <2>6. AssignedReal'
    <3>1. t \in Nat /\ t <= clock
      <4>1. Tidy(files[a], clock)
        BY <2>1 DEF OrderInv, TidyAll
      <4>2. t <= clock
        BY <2>1, <4>1 DEF Tidy, Ordered
      <4>3. t \in Nat
        BY <1>2, <2>1, FileFields DEF FilesInv
      <4> QED BY <4>2, <4>3
    <3>2. 0 \notin assigned /\ \A u \in assigned : u <= clock
      BY DEF RealInv, AssignedReal
    <3>3. 0 \notin assigned' /\ \A u \in assigned' : u <= clock'
      BY <1>1, <2>1, <2>3, <3>1, <3>2
    <3>4. t \in assigned'
      BY <2>3
    <3> QED BY <2>4, <3>3, <3>4, Zenon DEF AssignedReal
  <2>7. FilesReal'
    <3> SUFFICES ASSUME NEW e \in Entry, files'[e].start # 0, files'[e].start \in assigned'
                 PROVE  /\ files'[e].conf # AtStart
                        /\ files'[e].active =>
                             files'[e].id = files'[e].start \/ (answered' # NoAnswer /\ answered'.entry = e)
      BY Zenon DEF FilesReal
    <3>1. CASE e = a
      BY <2>2, <2>4, <2>5, <3>1, Zenon DEF PastStart
    <3>2. CASE e # a
      <4> PICK k : k = files'[e].start
        OBVIOUS
      <4>1. files[e].start # 0
        <5> SUFFICES ASSUME files[e].start = 0 PROVE FALSE
          OBVIOUS
        <5>1. k \in assigned' /\ clock < k
          BY Zenon, <1>3 DEF PassesAll
        <5>2. assigned' \subseteq Nat /\ \A u \in assigned' : u <= clock
          BY <1>1, <2>6, Zenon DEF AssignedReal, StoreInv, ClientInv
        <5>3. k \in Nat /\ k <= clock
          BY <5>1, <5>2
        <5> QED BY <1>2, <5>1, <5>3
      <4>2. Passes(files[e], files'[e])
        BY <1>3, <4>1, Zenon DEF PassesAll
      <4>3. k = files[e].start
        BY <4>2, Zenon DEF Passes
      <4>4. k # t
        BY <2>1, <3>2, <4>1, <4>3, StartsDiffer
      <4>5. k \in assigned
        BY <2>3, <4>4
      <4>6. files[e].conf # AtStart /\ (files[e].active => files[e].id = files[e].start)
        BY <1>5, <4>1, <4>3, <4>5, Zenon DEF RealInv, FilesReal
      <4> QED BY <4>2, <4>6, Zenon DEF Passes
    <3> QED BY <3>1, <3>2
  <2>8. ValidIsReal'
    <3>1. session.valid => session.tx # t
      <4> SUFFICES ASSUME session.valid, session.tx = t PROVE FALSE
        OBVIOUS
      <4>1. PICK e \in Active : files[e].start = t
        BY <2>1, Zenon DEF RealInv, SessionReal
      <4>2. e \in Entry /\ files[e].conf # AtStart
        BY <4>1, Zenon DEF Active, RealInv, SessionReal
      <4>3. e = a
        BY <2>1, <4>1, <4>2, StartsDiffer
      <4> QED BY <2>1, <4>2, <4>3
    <3>2. session.valid /\ session.tx \in assigned => session.id = session.tx
      BY Zenon DEF RealInv, ValidIsReal
    <3>3. session.valid /\ session.tx \in assigned' => session.tx \in assigned
      BY <2>3, <3>1
    <3> QED BY <1>1, <3>2, <3>3, Zenon DEF ValidIsReal
  <2> QED BY <1>4, <2>6, <2>7, <2>8, Zenon DEF RealInv
<1> QED BY <1>6, <1>7

LEMMA RejectReal ==
  ASSUME StoreInv, ActiveInv, OwnInv, RealInv, StoreInv', Rejected
  PROVE  RealInv'
<1>1. call # NoCall /\ ConfirmLast /\ call' = NoCall /\ UNCHANGED <<answered, assigned, clock>>
  BY DEF Rejected, ConfirmLast
<1>2. FilesInv /\ ClientInv /\ clock \in Nat
  BY DEF StoreInv, RingInv
<1>3. PassesAll(files', clock) /\ StaysAll(files') /\ Tamed
  BY <1>1, ConfirmOwn, ConfirmTamed, Zenon DEF ActiveInv
<1>4. AssignedReal'
  BY <1>1, <1>2, AssignedKept DEF RealInv
<1>5. FilesReal'
  BY <1>1, <1>2, <1>3, FilesRealKept DEF RealInv
<1>6. /\ session'.on = session.on /\ session'.tx = session.tx /\ session'.entry = session.entry
      /\ session'.id = session.id
      /\ session'.valid => session.valid \/ (call.kind = "start" /\ session.on /\ session.entry = loaded.entry)
  BY RejectedSession
<1>7. CASE session'.valid => session.valid
  BY <1>2, <1>3, <1>4, <1>5, <1>6, <1>7, <1>1, SessionRealKept, Zenon DEF RealInv, ValidIsReal
<1>8. CASE call.kind = "start" /\ session.on /\ session.entry = loaded.entry
  <2> PICK a : a = loaded.entry
    OBVIOUS
  <2>1. a \in Entry /\ files[a].start # 0 /\ files[a].conf = AtStart
    BY <1>1, <1>8, StartOut
  <2>2. files[a].active /\ files[a].start = session.tx
    BY <1>8, <2>1, Zenon DEF OwnInv, SessionOwn
  <2>3. ASSUME NEW e \in Active' PROVE files'[e].conf # AtStart
    <3>1. e \in Active
      BY <2>3, Zenon, <1>3 DEF Tamed, Tame, Active
    <3>2. e = a
      BY <2>1, <2>2, <3>1, Zenon DEF ActiveInv, OneEntry, Active
    <3> QED BY <1>1, <1>8, <3>2, StartConfirmed, Zenon DEF PastStart
  <2>4. a \in Active' /\ files'[a].start = session.tx
    BY <1>2, <1>3, <2>1, <2>2, StaysOwn, Zenon DEF Active
  <2>5. SessionReal'
    BY <1>6, <1>8, <2>3, <2>4, Zenon DEF SessionReal
  <2>6. session.tx \notin assigned
    BY <2>1, <2>2, Zenon DEF RealInv, FilesReal
  <2> QED BY <1>1, <1>4, <1>5, <1>6, <2>5, <2>6, Zenon DEF RealInv, ValidIsReal
<1> QED BY <1>6, <1>7, <1>8, Zenon

LEMMA LearnReal ==
  ASSUME StoreInv, ActiveInv, OwnInv, RealInv, LearnId
  PROVE  RealInv'
<1>1. UNCHANGED <<assigned, clock>> /\ answered # NoAnswer /\ answered' = NoAnswer
  BY DEF LearnId, SetRealId, store
<1>2. ClientInv /\ clock \in Nat
  BY DEF StoreInv, RingInv
<1>3. AssignedReal'
  BY <1>1, <1>2, AssignedKept DEF RealInv
<1>4. CASE ~session.on
  <2>1. UNCHANGED <<files, session>>
    BY <1>4, Zenon DEF LearnId, store
  <2>2. \A e \in Entry : ~files[e].active
    BY <1>4, Zenon DEF ActiveInv, OneActive, Active
  <2>3. FilesReal'
    BY <2>1, <2>2, <1>1, Zenon DEF RealInv, FilesReal
  <2>4. SessionReal' /\ ValidIsReal'
    BY <1>1, <2>1, Zenon DEF RealInv, SessionReal, ValidIsReal, Active
  <2> QED BY <1>3, <2>3, <2>4, Zenon DEF RealInv
<1>5. CASE session.on
  <2> PICK a, t : a = answered.entry /\ t = answered.tx
    OBVIOUS
  <2>1. a \in Entry /\ files[a].start = t /\ t # 0 /\ Learns(files', a, t) /\ LearntBy(session', t)
    BY <1>5, LearnIs, Zenon
  <2>2. FilesReal'
    <3> SUFFICES ASSUME NEW e \in Entry, files'[e].start # 0, files'[e].start \in assigned
                 PROVE  files'[e].conf # AtStart /\ (files'[e].active => files'[e].id = files'[e].start)
      BY <1>1, Zenon DEF FilesReal
    <3>1. CASE e = a
      BY <2>1, <3>1, Zenon DEF Learns, RealInv, FilesReal
    <3>2. CASE e # a
      BY <2>1, <3>2, Zenon DEF Learns, RealInv, FilesReal
    <3> QED BY <3>1, <3>2
  <2>3. Active' = Active
    BY <2>1, Zenon DEF Learns, Active
  <2>4. \A e \in Active : files'[e].start = files[e].start /\ files'[e].conf = files[e].conf
    BY <2>1, Zenon DEF Learns, Active
  <2>5. CASE session' = session
    <3>1. SessionReal'
      BY <2>3, <2>4, <2>5, Zenon DEF RealInv, SessionReal
    <3> QED BY <1>1, <1>3, <2>2, <2>5, <3>1, Zenon DEF RealInv, ValidIsReal
  <2>6. CASE session.entry = a /\ SessionIs(session', session.on, session.tx, session.entry, t, TRUE)
    <3>1. files[a].active /\ t = session.tx
      BY <2>1, <2>6, Zenon DEF OwnInv, SessionOwn
    <3>2. ASSUME NEW e \in Active PROVE files[e].conf # AtStart
      <4>1. e = a
        BY <2>1, <3>1, Zenon DEF ActiveInv, OneEntry, Active
      <4>2. t \in assigned
        BY <1>1, Zenon DEF RealInv, AssignedReal
      <4> QED BY <2>1, <4>1, <4>2, Zenon DEF RealInv, FilesReal
    <3>3. SessionReal'
      BY <1>5, <2>3, <2>4, <2>6, <3>2, Zenon DEF SessionIs, RealInv, SessionReal
    <3>4. ValidIsReal'
      BY <2>6, <3>1, Zenon DEF SessionIs, ValidIsReal
    <3> QED BY <1>3, <2>2, <3>3, <3>4, Zenon DEF RealInv
  <2> QED BY <2>1, <2>5, <2>6, Zenon DEF LearntBy
<1> QED BY <1>4, <1>5

LEMMA RestartReal ==
  ASSUME StoreInv, ActiveInv, RealInv, Restart, answered = NoAnswer
  PROVE  RealInv'
<1>1. UNCHANGED <<files, assigned, clock>> /\ answered' = NoAnswer
  BY DEF Restart, Booted
<1>2. FilesInv /\ ClientInv /\ clock \in Nat
  BY DEF StoreInv, RingInv
<1>3. AssignedReal'
  BY <1>1, <1>2, AssignedKept DEF RealInv
<1>4. FilesReal'
  BY <1>1, Zenon DEF RealInv, FilesReal
<1>5. Active' = Active
  BY <1>1 DEF Active
<1>6. CASE Active = {} /\ SessionIs(session', FALSE, 0, NoEntry, UnknownId, FALSE)
  BY <1>3, <1>4, <1>6, Zenon DEF SessionIs, RealInv, SessionReal, ValidIsReal
<1>7. ASSUME NEW a \in Active,
             SessionIs(session', TRUE, files[a].start, NoEntry, files[a].id, files[a].conf # AtStart)
      PROVE  RealInv'
  <2>1. a \in Entry /\ files[a].active /\ \A e \in Active : e = a
    BY Zenon DEF Active, ActiveInv, OneEntry
  <2>2. files[a].start # 0
    <3>1. IsRight(files[a])
      BY <1>2, <2>1 DEF FilesInv
    <3> QED BY <2>1, <3>1, ActiveStarted
  <2>3. SessionReal'
    BY <1>1, <1>5, <1>7, <2>1, Zenon DEF SessionIs, SessionReal
  <2>4. files[a].start \in assigned => files[a].id = files[a].start
    BY <2>1, <2>2, Zenon DEF RealInv, FilesReal
  <2>5. ValidIsReal'
    BY <1>1, <1>7, <2>4, Zenon DEF SessionIs, ValidIsReal
  <2> QED BY <1>3, <1>4, <2>3, <2>5, Zenon DEF RealInv
<1> QED BY <1>6, <1>7, RestoredIs, Zenon

LEMMA RealNext ==
  ASSUME StoreInv, StoreInv', ActiveInv, OrderInv, OwnInv, RealInv, [Next]_vars, ~Clear,
         Restart => answered = NoAnswer
  PROVE  RealInv'
<1>0. ClientInv /\ clock \in Nat
  BY DEF StoreInv, RingInv
<1>1. CASE SampleQueued \/ TakeMessage \/ Count \/ UNCHANGED vars
  <2>1. UNCHANGED <<files, session, answered, assigned>> /\ (clock' = clock \/ clock' = clock + 1)
    BY <1>1 DEF SampleQueued, QueueSend, TakeMessage, GetNextMessage, Count, CountMessages, vars, store
  <2>2. clock' \in Nat /\ clock <= clock'
    BY <1>0, <2>1
  <2> QED BY <1>0, <2>1, <2>2, SameReal
<1> QED BY <1>1, StartReal, StopReal, WriteReal, FailReal, AcceptReal, LearnReal, RejectReal, RestartReal DEF Next

IdsInv == StoreInv /\ ActiveInv /\ OrderInv /\ ("clear" \notin taken => OwnInv)
          /\ ("clear" \notin taken /\ "crash" \notin taken => RealInv)

LEMMA IdsStep ==
  ASSUME clock \in Nat, MCNext, "clear" \notin taken'
  PROVE  /\ "clear" \notin taken /\ ~Clear
         /\ "crash" \notin taken' => "crash" \notin taken /\ (Restart => answered = NoAnswer)
<1>1. taken' = taken
         \cup Came("uncounted", known < 0 /\ SampleQueued)
         \cup Came("reuse", clock < clock' /\ (\E c \in oldest : c.entry = VacantEntry) /\ StartTransaction)
         \cup Came("clear", clock = clock' /\ Clear)
         \cup Came("convert", clock = clock' /\ TakeFails)
         \cup Came("crash", answered # NoAnswer /\ Restart)
  BY DEF MCNext
<1>2. "clear" \notin taken /\ ~(clock = clock' /\ Clear)
  BY <1>1, HasCome
<1>3. Clear => clock = clock'
  BY DEF Clear, ClearAll
<1>4. "crash" \notin taken' => "crash" \notin taken /\ ~(answered # NoAnswer /\ Restart)
  BY <1>1, HasCome
<1> QED BY <1>2, <1>3, <1>4, Zenon

LEMMA InitIds == ASSUME Init PROVE OwnInv /\ RealInv
<1>1. /\ files = [e \in Entry |-> NoFile] /\ loaded = NothingLoaded /\ queue = <<>> /\ session = NoSession
      /\ call = NoCall /\ answered = NoAnswer /\ assigned = {}
  BY DEF Init, StoreInit
<1>2. \A e \in Entry : files[e] = NoFile
  BY <1>1
<1>3. FilesOwn
  BY <1>2, NoFileFields, Zenon DEF FilesOwn, Own
<1>4. LoadedOwn
  BY <1>1, NothingLoadedRight, Zenon DEF LoadedOwn, IsUnloaded
<1>5. QueueOwn
  <2>1. 1 .. Len(<<>>) = {}
    OBVIOUS
  <2> QED BY <1>1, <2>1 DEF QueueOwn
<1>6. SessionOwn /\ SessionReal /\ ValidIsReal
  BY <1>1, NoSessionFields, EntryIs, Zenon DEF SessionIs, SessionOwn, Own, SessionReal, ValidIsReal
<1>7. CallOwn /\ AnswerOwn /\ AssignedReal /\ FilesReal
  BY <1>1, Zenon DEF CallOwn, AnswerOwn, AssignedReal, FilesReal
<1> QED BY <1>3, <1>4, <1>5, <1>6, <1>7, Zenon DEF OwnInv, RealInv

\* No message carries the id of another transaction, and the id a session takes
\* for valid is the one the central system gave it (start_transaction_response_cb
\* and ocpp_transaction_load_into_session), unless the storage was cleared or,
\* for the second, a restart came between an answer and its callback.
THEOREM IdsKeptHolds == MCSpec => []IdsKept
<1>1. MCInit => IdsInv
  BY InitStore, ActiveInit, InitOrder, InitIds DEF MCInit, IdsInv
<1>2. IdsInv /\ [MCNext]_mcvars => IdsInv'
  <2> SUFFICES ASSUME IdsInv, [MCNext]_mcvars PROVE IdsInv'
    OBVIOUS
  <2>1. StoreInv /\ ActiveInv /\ OrderInv /\ [Next]_vars
    BY DEF IdsInv, MCNext, mcvars
  <2>2. StoreInv' /\ ActiveInv' /\ OrderInv'
    BY <2>1, StoreNext, ActiveNext, OrderNext
  <2>3. CASE UNCHANGED mcvars
    <3>1. UNCHANGED taken /\ UNCHANGED vars
      BY <2>3 DEF mcvars
    <3>2. UNCHANGED <<files, loaded, queue, session, call, answered, last_from_file, assigned, clock>>
      BY <3>1 DEF vars, store
    <3>3. OwnInv => OwnInv'
      BY <2>1, <2>2, <3>2, SameOwn
    <3>4. RealInv => RealInv'
      <4>1. ClientInv /\ clock \in Nat
        BY <2>1 DEF StoreInv, RingInv
      <4> QED BY <3>2, <4>1, SameReal
    <3> QED BY <2>2, <3>1, <3>3, <3>4, Zenon DEF IdsInv
  <2>4. CASE MCNext
    <3>1. clock \in Nat
      BY <2>1 DEF StoreInv, RingInv
    <3>2. ASSUME "clear" \notin taken' PROVE OwnInv /\ OwnInv'
      <4>1. "clear" \notin taken /\ ~Clear
        BY <2>4, <3>1, <3>2, IdsStep
      <4>2. OwnInv
        BY <4>1, Zenon DEF IdsInv
      <4> QED BY <2>1, <2>2, <4>1, <4>2, OwnNext
    <3>3. ASSUME "clear" \notin taken', "crash" \notin taken' PROVE RealInv'
      <4>1. "clear" \notin taken /\ ~Clear /\ "crash" \notin taken /\ (Restart => answered = NoAnswer)
        BY <2>4, <3>1, <3>3, IdsStep
      <4>2. RealInv /\ OwnInv
        BY <4>1, Zenon DEF IdsInv
      <4> QED BY <2>1, <2>2, <4>1, <4>2, RealNext
    <3> QED BY <2>2, <3>2, <3>3, Zenon DEF IdsInv
  <2> QED BY <2>3, <2>4
<1>3. IdsInv => IdsKept
  <2>1. OwnInv => OwnId
    BY Zenon DEF OwnInv, CallOwn, OwnId, Own
  <2>2. RealInv => ValidIsReal
    BY Zenon DEF RealInv
  <2>3. taken \cap {"crash", "clear"} = {} => "clear" \notin taken /\ "crash" \notin taken
    OBVIOUS
  <2> QED BY <2>1, <2>2, <2>3, Zenon DEF IdsInv, IdsKept
<1> QED BY <1>1, <1>2, <1>3, PTL DEF MCSpec

-----------------------------------------------------------------------------
(* The sum of the counts in the headers.                                   *)

Choice(s) == CHOOSE x \in s : TRUE

\* One round of the sum over the entries in s.
Round(fs, g, s) == IF s = {} THEN 0 ELSE fs[Choice(s)].await + g[s \ {Choice(s)}]

Sums(fs, g) == g = [s \in SUBSET Entry |-> Round(fs, g, s)]

LEMMA EntriesFinite == IsFiniteSet(Entry) /\ Cardinality(Entry) \in Nat
<1>1. MaxFiles \in Nat
  BY OcppTransactionAssumption
<1>2. IsFiniteSet(Entry)
  BY <1>1, FS_Interval DEF Entry
<1> QED BY <1>2, FS_CardinalityType

LEMMA OneLess ==
  ASSUME NEW s \in SUBSET Entry, s # {}
  PROVE  /\ Choice(s) \in s /\ s \ {Choice(s)} \in SUBSET Entry
         /\ Cardinality(s) \in Nat /\ Cardinality(s \ {Choice(s)}) = Cardinality(s) - 1
<1>1. Choice(s) \in s
  BY DEF Choice
<1>2. IsFiniteSet(s)
  BY EntriesFinite, FS_Subset
<1> QED BY <1>1, <1>2, FS_RemoveElement, FS_CardinalityType

\* The recursion of the sum has a solution.
LEMMA SumExists ==
  ASSUME NEW fs
  PROVE  \E g : Sums(fs, g)
<1> DEFINE Upto(n) == {s \in SUBSET Entry : Cardinality(s) <= n}
           Solved(n) == \E g : /\ g = [s \in SUBSET Entry |-> g[s]]
                               /\ \A s \in Upto(n) : g[s] = Round(fs, g, s)
           Open == {n \in Nat : ~Solved(n)}
<1>1. Solved(0)
  <2> DEFINE g == [s \in SUBSET Entry |-> 0]
  <2>1. \A s \in Upto(0) : s = {}
    BY EntriesFinite, FS_Subset, FS_EmptySet, FS_CardinalityType
  <2>2. \A s \in Upto(0) : g[s] = Round(fs, g, s)
    BY <2>1 DEF Round
  <2>3. g = [s \in SUBSET Entry |-> g[s]]
    OBVIOUS
  <2> HIDE DEF g, Upto
  <2> QED BY <2>2, <2>3
<1>2. ASSUME NEW n \in Nat, NEW g, \A s \in Upto(n) : g[s] = Round(fs, g, s),
             NEW h, h = [s \in SUBSET Entry |-> Round(fs, g, s)]
      PROVE  \A s \in Upto(n + 1) : h[s] = Round(fs, h, s)
  <2> SUFFICES ASSUME NEW s \in Upto(n + 1) PROVE h[s] = Round(fs, h, s)
    OBVIOUS
  <2>1. h[s] = Round(fs, g, s)
    BY <1>2
  <2>2. CASE s = {}
    BY <2>1, <2>2 DEF Round
  <2>3. CASE s # {}
    <3> PICK t : t = s \ {Choice(s)}
      OBVIOUS
    <3>1. t \in Upto(n)
      BY <2>3, OneLess
    <3>2. h[t] = g[t]
      BY <1>2, <3>1
    <3> QED BY <2>1, <2>3, <3>2 DEF Round
  <2> QED BY <2>2, <2>3
<1>3. ASSUME NEW n \in Nat, Solved(n) PROVE Solved(n + 1)
  <2>1. PICK g : \A s \in Upto(n) : g[s] = Round(fs, g, s)
    BY <1>3
  <2> PICK h : h = [s \in SUBSET Entry |-> Round(fs, g, s)]
    OBVIOUS
  <2>2. \A s \in Upto(n + 1) : h[s] = Round(fs, h, s)
    <3> HIDE DEF Upto
    <3> QED BY <1>2, <2>1, Zenon
  <2>3. h = [s \in SUBSET Entry |-> h[s]]
    OBVIOUS
  <2> HIDE DEF Upto
  <2> QED BY <2>2, <2>3
<1>4. \A n \in Nat : Solved(n)
  <2> SUFFICES ASSUME Open # {} PROVE FALSE
    OBVIOUS
  <2> HIDE DEF Solved
  <2>1. PICK n \in Open : \A m \in Open : n <= m
    BY LeastNumber
  <2>2. n # 0 /\ n - 1 \in Nat /\ n - 1 \notin Open
    BY <1>1, <2>1
  <2>3. Solved((n - 1) + 1)
    BY <1>3, <2>2
  <2>4. (n - 1) + 1 = n
    BY <2>1
  <2> QED BY <2>1, <2>3, <2>4
<1>5. PICK g : /\ g = [s \in SUBSET Entry |-> g[s]]
               /\ \A s \in Upto(Cardinality(Entry)) : g[s] = Round(fs, g, s)
  BY <1>4, EntriesFinite
<1>6. \A s \in SUBSET Entry : g[s] = Round(fs, g, s)
  <2>1. \A s \in SUBSET Entry : Cardinality(s) <= Cardinality(Entry)
    BY EntriesFinite, FS_Subset
  <2> QED BY <1>5, <2>1
<1>7. g = [s \in SUBSET Entry |-> Round(fs, g, s)]
  BY <1>5, <1>6
<1> QED BY <1>7 DEF Sums

LEMMA StoredIs ==
  ASSUME NEW fs
  PROVE  \E g : Sums(fs, g) /\ Stored(fs) = g[Entry]
<1> DEFINE It == CHOOSE g : Sums(fs, g)
<1>1. Sums(fs, It)
  BY SumExists
<1>2. Stored(fs) = It[Entry]
  BY DEF Stored, MapThenSumSet, MapThenFoldSet, Sums, Round, Choice
<1> QED BY <1>1, <1>2

\* A change of one count changes the sum by as much.
LEMMA SumDiffers ==
  ASSUME NEW fs, NEW gs, NEW g, NEW h, Sums(fs, g), Sums(gs, h), NEW e, NEW d \in Int,
         \A c \in Entry : fs[c].await \in Int,
         \A c \in Entry : gs[c].await = IF c = e THEN fs[c].await + d ELSE fs[c].await
  PROVE  \A s \in SUBSET Entry : g[s] \in Int /\ h[s] = g[s] + (IF e \in s THEN d ELSE 0)
<1> DEFINE Right(s) == g[s] \in Int /\ h[s] = g[s] + (IF e \in s THEN d ELSE 0)
           Open == {n \in Nat : \E s \in SUBSET Entry : Cardinality(s) = n /\ ~Right(s)}
<1>1. \A s \in SUBSET Entry : g[s] = Round(fs, g, s) /\ h[s] = Round(gs, h, s)
  BY DEF Sums
<1>2. ASSUME NEW s \in SUBSET Entry, s = {} PROVE Right(s)
  <2>1. g[s] = 0 /\ h[s] = 0 /\ e \notin s
    BY <1>1, <1>2, Zenon DEF Round
  <2> QED BY <2>1
<1>3. ASSUME NEW s \in SUBSET Entry, s # {}, Right(s \ {Choice(s)}) PROVE Right(s)
  <2> PICK c : c = Choice(s)
    OBVIOUS
  <2> PICK t : t = s \ {c}
    OBVIOUS
  <2>1. c \in s /\ c \in Entry
    BY <1>3, OneLess
  <2>2. g[s] = fs[c].await + g[t] /\ h[s] = gs[c].await + h[t]
    BY <1>1, <1>3 DEF Round
  <2>3. g[t] \in Int /\ h[t] = g[t] + (IF e \in t THEN d ELSE 0)
    BY <1>3
  <2>4. fs[c].await \in Int /\ gs[c].await = IF c = e THEN fs[c].await + d ELSE fs[c].await
    BY <2>1
  <2> PICK x : x = fs[c].await
    OBVIOUS
  <2> PICK y : y = g[t]
    OBVIOUS
  <2>5. x \in Int /\ y \in Int /\ g[s] = x + y
    BY <2>2, <2>3, <2>4
  <2>6. CASE c = e
    <3>1. e \in s /\ e \notin t
      BY <2>1, <2>6
    <3> QED BY <2>2, <2>3, <2>4, <2>5, <2>6, <3>1
  <2>7. CASE c # e
    <3>1. e \in s <=> e \in t
      BY <2>7
    <3> QED BY <2>2, <2>3, <2>4, <2>5, <2>7, <3>1
  <2> QED BY <2>6, <2>7
<1> HIDE DEF Right
<1> SUFFICES ASSUME Open # {} PROVE FALSE
  <2>1. \A s \in SUBSET Entry : Cardinality(s) \in Nat
    BY EntriesFinite, FS_Subset, FS_CardinalityType
  <2> QED BY <2>1 DEF Right
<1>4. PICK n \in Open : \A m \in Open : n <= m
  BY LeastNumber
<1>5. PICK s \in SUBSET Entry : Cardinality(s) = n /\ ~Right(s)
  BY <1>4
<1>6. s # {}
  BY <1>2, <1>5
<1> PICK t : t = s \ {Choice(s)}
  OBVIOUS
<1>7. t \in SUBSET Entry /\ Cardinality(t) = n - 1 /\ n - 1 \in Nat
  <2>1. n \in Nat /\ Cardinality(t) \in Nat
    BY <1>4, EntriesFinite, FS_Subset, FS_CardinalityType
  <2> QED BY <1>5, <1>6, <2>1, OneLess
<1>8. n - 1 \notin Open
  BY <1>4, <1>7
<1>9. Right(t)
  BY <1>7, <1>8
<1> QED BY <1>3, <1>5, <1>6, <1>9

LEMMA StoredChanges ==
  ASSUME NEW fs, NEW gs, NEW e \in Entry, NEW d \in Int,
         \A c \in Entry : fs[c].await \in Int,
         \A c \in Entry : gs[c].await = IF c = e THEN fs[c].await + d ELSE fs[c].await
  PROVE  Stored(gs) = Stored(fs) + d /\ Stored(fs) \in Int
<1>1. PICK g : Sums(fs, g) /\ Stored(fs) = g[Entry]
  BY StoredIs
<1>2. PICK h : Sums(gs, h) /\ Stored(gs) = h[Entry]
  BY StoredIs
<1>3. g[Entry] \in Int /\ h[Entry] = g[Entry] + (IF e \in Entry THEN d ELSE 0)
  BY <1>1, <1>2, SumDiffers
<1> QED BY <1>1, <1>2, <1>3

-----------------------------------------------------------------------------
(* The count in a header and the messages that wait in the file.           *)

\* M has the meter values of s from a to l, of which no two are alike.
MetersFrom(M, s, a, l) ==
    /\ a \in Nat /\ l \in Nat /\ a <= l + 1
    /\ \A i, j \in a .. l : s[i] = s[j] => i = j
    /\ M = {<<"meter", s[i]>> : i \in a .. l}

LEMMA ManyMeters ==
  ASSUME NEW M, NEW s, NEW a, NEW l, MetersFrom(M, s, a, l)
  PROVE  IsFiniteSet(M) /\ Cardinality(M) = l + 1 - a
<1> USE DEF MetersFrom
<1> DEFINE f == [i \in a .. l |-> <<"meter", s[i]>>]
<1>1. f \in Surjection(a .. l, M)
  BY DEF Surjection
<1>2. f \in Injection(a .. l, M)
  <2>1. \A i, j \in a .. l : f[i] = f[j] => i = j
    OBVIOUS
  <2>2. f \in [a .. l -> M]
    OBVIOUS
  <2> HIDE DEF f
  <2> QED BY <2>1, <2>2 DEF Injection, IsInjective
<1>3. IsFiniteSet(a .. l) /\ Cardinality(a .. l) = l + 1 - a
  <2>1. IsFiniteSet(a .. l) /\ Cardinality(a .. l) = IF a > l THEN 0 ELSE l - a + 1
    BY FS_Interval
  <2> QED BY <2>1
<1> HIDE DEF f
<1>4. IsFiniteSet(M) /\ Cardinality(M) = Cardinality(a .. l)
  BY <1>1, <1>2, <1>3, FS_Surjection
<1> QED BY <1>3, <1>4

LEMMA AwaitIs ==
  ASSUME NEW f, NEW n \in Nat, Tidy(f, n)
  PROVE  f.await = Cardinality(PendingIn(f))
<1>0. /\ f.start \in Nat /\ f.stop \in Nat /\ f.await \in Nat /\ f.meters \in Seq(Nat)
      /\ Len(f.meters) \in Nat /\ \A i \in 1 .. Len(f.meters) : f.meters[i] \in Nat
      /\ FirstMeter(f) \in Nat \ {0} /\ FirstMeter(f) <= Len(f.meters) + 1
  BY FileNumbers
<1>1. CASE f.start = 0
  <2>1. f = NoFile
    BY <1>1 DEF Tidy, IsRight, FileRight
  <2>2. PendingIn(f) = {} /\ f.await = 0
    BY <2>1, NoFileRight DEF NoFile
  <2> QED BY <2>2, FS_EmptySet
<1>2. CASE f.start # 0
  <2> PICK a : a = FirstMeter(f)
    OBVIOUS
  <2> PICK s : s = f.meters
    OBVIOUS
  <2> PICK l : l = Len(s)
    OBVIOUS
  <2> DEFINE M == {<<"meter", s[i]>> : i \in a .. l}
             N == IF f.conf = AtStart THEN M \cup {<<"start", f.start>>} ELSE M
             P == IF f.stop = 0 THEN N ELSE N \cup {<<"stop", f.stop>>}
  <2>1. a \in Nat \ {0} /\ l \in Nat /\ a <= l + 1 /\ \A i \in 1 .. l : s[i] \in Nat
    BY <1>0
  <2>2. \A i, j \in a .. l : s[i] = s[j] => i = j
    <3>1. \A i, j \in 1 .. l : i < j => s[i] < s[j]
      BY DEF Tidy, Ordered
    <3> QED BY <2>1, <3>1
  <2>3. IsFiniteSet(M) /\ Cardinality(M) = l + 1 - a
    <3>1. MetersFrom(M, s, a, l)
      BY <2>1, <2>2 DEF MetersFrom
    <3> HIDE DEF M
    <3> QED BY <3>1, ManyMeters
  <2>4. \A m \in M : m[1] = "meter"
    OBVIOUS
  <2>5. PendingIn(f) = P
    <3>1. PendingIn(f) \subseteq P
      BY <1>2, PendingAre
    <3>2. P \subseteq PendingIn(f)
      BY <1>2, PendingAre
    <3> QED BY <3>1, <3>2
  <2> HIDE DEF M
  <2>6. IsFiniteSet(N) /\ Cardinality(N) = (IF f.conf = AtStart THEN 1 ELSE 0) + (l + 1 - a)
    <3>1. <<"start", f.start>> \notin M
      BY <2>4
    <3> PICK x : x = <<"start", f.start>>
      OBVIOUS
    <3>2. IsFiniteSet(M \cup {x}) /\ Cardinality(M \cup {x}) = Cardinality(M) + 1
      BY <2>3, <3>1, FS_AddElement
    <3>3. CASE f.conf = AtStart
      <4>1. N = M \cup {x}
        BY <3>3
      <4> HIDE DEF N
      <4> QED BY <2>1, <2>3, <3>2, <3>3, <4>1
    <3>4. CASE f.conf # AtStart
      <4>1. N = M
        BY <3>4
      <4> HIDE DEF N
      <4> QED BY <2>1, <2>3, <3>4, <4>1
    <3> QED BY <3>3, <3>4
  <2>7. \A m \in N : m[1] # "stop"
    BY <2>4
  <2> HIDE DEF N
  <2>8. Cardinality(P) = (IF f.conf = AtStart THEN 1 ELSE 0) + (l + 1 - a) + (IF f.stop = 0 THEN 0 ELSE 1)
    <3>1. <<"stop", f.stop>> \notin N
      BY <2>7
    <3> PICK x : x = <<"stop", f.stop>>
      OBVIOUS
    <3> PICK k : k = (IF f.conf = AtStart THEN 1 ELSE 0) + (l + 1 - a)
      OBVIOUS
    <3>2. k \in Int /\ Cardinality(N) = k
      BY <2>1, <2>6
    <3>3. Cardinality(N \cup {x}) = Cardinality(N) + 1
      BY <2>6, <3>1, FS_AddElement
    <3>4. CASE f.stop = 0
      <4>1. P = N
        BY <3>4
      <4> HIDE DEF P
      <4> QED BY <3>2, <3>4, <4>1
    <3>5. CASE f.stop # 0
      <4>1. P = N \cup {x}
        BY <3>5
      <4> HIDE DEF P
      <4> QED BY <3>2, <3>3, <3>5, <4>1
    <3> QED BY <3>4, <3>5
  <2>9. f.await = Waiting(f)
    BY <1>2 DEF Tidy, Counted
  <2> QED BY <2>5, <2>8, <2>9 DEF Waiting
<1> QED BY <1>1, <1>2

-----------------------------------------------------------------------------
(* The count of all messages.                                              *)

CountInv == known \in Int /\ CountRight

\* The counts of fs and gs differ by d at e and nowhere else.
Differs(fs, gs, e, d) ==
    \A c \in Entry : gs[c].await = IF c = e THEN fs[c].await + d ELSE fs[c].await

\* The count follows what is stored and queued, or is not known any more.
Follows(e, d, k) ==
    /\ e \in Entry /\ d \in Int /\ k \in Int
    /\ Differs(files, files', e, d)
    /\ Len(queue) \in Int /\ Len(queue') = Len(queue) + k
    /\ known' \in Int
    /\ known' < 0 \/ (known >= 0 /\ known' = known + d + k)

LEMMA CountFollows ==
  ASSUME CountInv, FilesInv, NEW e, NEW d, NEW k, Follows(e, d, k)
  PROVE  CountInv'
<1>1. \A c \in Entry : files[c].await \in Int
  BY FileFields DEF FilesInv
<1>2. Stored(files') = Stored(files) + d /\ Stored(files) \in Int
  <2>1. e \in Entry /\ d \in Int /\ Differs(files, files', e, d)
    BY DEF Follows
  <2> QED BY <1>1, <2>1, StoredChanges DEF Differs
<1>3. StoredCount = Stored(files) /\ StoredCount' = Stored(files')
  BY DEF StoredCount
<1>4. CASE known' < 0
  BY <1>4 DEF CountInv, CountRight, Follows
<1>5. CASE ~(known' < 0)
  <2> PICK x : x = Stored(files)
    OBVIOUS
  <2> PICK l : l = Len(queue)
    OBVIOUS
  <2> PICK l1 : l1 = Len(queue')
    OBVIOUS
  <2> PICK n1 : n1 = known'
    OBVIOUS
  <2>1. /\ known \in Int /\ known = x + l /\ x \in Int /\ l \in Int
        /\ d \in Int /\ k \in Int /\ l1 = l + k /\ n1 \in Int /\ n1 = known + d + k
    BY <1>2, <1>3, <1>5 DEF CountInv, CountRight, Follows
  <2>2. n1 = (x + d) + l1
    BY <2>1
  <2>3. known' = StoredCount' + Len(queue')
    BY <1>2, <1>3, <2>2
  <2>4. known' \in Int
    BY DEF Follows
  <2> QED BY <2>3, <2>4 DEF CountInv, CountRight
<1> QED BY <1>4, <1>5

LEMMA SomeEntry == 0 \in Entry
BY OcppTransactionAssumption DEF Entry

LEMMA CountSame ==
  ASSUME CountInv, FilesInv, QueueInv, \A c \in Entry : files'[c].await = files[c].await,
         Len(queue') = Len(queue), known' = known
  PROVE  CountInv'
<1>1. Differs(files, files', 0, 0)
  <2>1. \A c \in Entry : files[c].await \in Int
    BY FileFields DEF FilesInv
  <2> QED BY <2>1 DEF Differs
<1>2. known \in Int /\ Len(queue) \in Int
  BY DEF CountInv, QueueInv
<1>3. Len(queue') = Len(queue) + 0 /\ (known' < 0 \/ (known >= 0 /\ known' = known + 0 + 0))
  BY <1>2
<1>4. Follows(0, 0, 0)
  BY <1>1, <1>2, <1>3, SomeEntry DEF Follows
<1> QED BY <1>4, CountFollows

LEMMA CountUnknown ==
  ASSUME known' = -1
  PROVE  CountInv'
BY DEF CountInv, CountRight

\* One more message in the file e.
LEMMA CountOneMore ==
  ASSUME CountInv, FilesInv, QueueInv, NEW e \in Entry, NEW g, files' = [files EXCEPT ![e] = g],
         g.await = Await(files[e], 1), known' = Known(files[e], 1), UNCHANGED queue
  PROVE  CountInv'
<1> PICK w : w = files[e].await
  OBVIOUS
<1>1. w \in Nat /\ files = [c \in Entry |-> files[c]]
  BY FileFields DEF FilesInv
<1>2. g.await = w + 1 /\ known' = IF known >= 0 THEN known + 1 ELSE known
  BY <1>1 DEF Await, Known
<1>3. Differs(files, files', e, 1)
  BY <1>1, <1>2 DEF Differs
<1>4. known \in Int /\ Len(queue) \in Int
  BY DEF CountInv, QueueInv
<1>5. Len(queue') = Len(queue) + 0 /\ known' \in Int /\ (known' < 0 \/ (known >= 0 /\ known' = known + 1 + 0))
  BY <1>2, <1>4
<1>6. Follows(e, 1, 0)
  BY <1>3, <1>4, <1>5 DEF Follows
<1> QED BY <1>6, CountFollows

LEMMA StopCounts ==
  ASSUME CountInv, FilesInv, QueueInv, NEW n, files' = StopActive(n), known' = KnownAfterStop, UNCHANGED queue
  PROVE  CountInv'
<1>1. CASE Active = {}
  <2>1. UNCHANGED <<files, known, queue>>
    BY <1>1 DEF StopActive, KnownAfterStop
  <2> QED BY <2>1, CountSame
<1>2. CASE Active # {}
  <2> PICK e : e = ActiveEntry
    OBVIOUS
  <2> PICK f : f = files[e]
    OBVIOUS
  <2> PICK g : g = Stopped(f, n)
    OBVIOUS
  <2>1. e \in Entry /\ f \in FileType
    BY <1>2, ActiveIs DEF FilesInv
  <2>2. g = FileLit(f.start, FALSE, f.id, Await(f, 1), f.conf, f.meters, n)
    BY <2>1, StoppedIs
  <2>3. g.await = Await(f, 1)
    BY <2>2 DEF FileLit
  <2>4. files' = [files EXCEPT ![e] = g] /\ known' = Known(f, 1)
    BY <1>2 DEF StopActive, KnownAfterStop
  <2> QED BY <2>1, <2>3, <2>4, CountOneMore
<1> QED BY <1>1, <1>2

LEMMA MeterAwaits ==
  ASSUME NEW f \in FileType, NEW m, NEW w
  PROVE  [f EXCEPT !.meters = m, !.await = w].await = w
<1> PICK g : g = [f EXCEPT !.meters = m, !.await = w]
  OBVIOUS
<1>1. g = FileLit(f.start, f.active, f.id, w, f.conf, m, f.stop)
  BY MeterIs, Zenon
<1>2. g.await = w
  BY <1>1 DEF FileLit
<1> QED BY <1>2

LEMMA ConfAwaits ==
  ASSUME NEW f \in FileType, NEW c, NEW w
  PROVE  [f EXCEPT !.conf = c, !.await = w].await = w
<1> PICK g : g = [f EXCEPT !.conf = c, !.await = w]
  OBVIOUS
<1>1. g = FileLit(f.start, f.active, f.id, w, c, f.meters, f.stop)
  BY ConfIs, Zenon
<1>2. g.await = w
  BY <1>1 DEF FileLit
<1> QED BY <1>2

LEMMA WriteCounts ==
  ASSUME CountInv, FilesInv, QueueInv, WriteMeterValue
  PROVE  CountInv'
<1> PICK e : e = ActiveEntry
  OBVIOUS
<1> PICK f : f = files[e]
  OBVIOUS
<1> PICK w : w = Await(f, 1)
  OBVIOUS
<1> PICK m : m = Append(f.meters, clock')
  OBVIOUS
<1> PICK g : g = [f EXCEPT !.meters = m, !.await = w]
  OBVIOUS
<1>1. Active # {} /\ files' = [files EXCEPT ![e] = g] /\ known' = Known(f, 1) /\ UNCHANGED queue
  BY Zenon DEF WriteMeterValue
<1>2. e \in Entry /\ f \in FileType
  BY <1>1, ActiveIs DEF FilesInv
<1>4. g.await = w
  <2>1. f \in FileType
    BY <1>2
  <2>2. [f EXCEPT !.meters = m, !.await = w].await = w
    BY ONLY <2>1, MeterAwaits
  <2> QED BY <2>2
<1> QED BY <1>1, <1>2, <1>4, CountOneMore

\* The last message of a file is its stop, and nothing waits with it.
LEMMA StopAlone ==
  ASSUME NEW f, NEW n \in Nat, Tidy(f, n), NextKind(f) = "stop"
  PROVE  f.await = 1
<1>1. IsRight(f) /\ Len(f.meters) \in Nat /\ f.conf \in Nat \cup {-1} /\ f.conf <= Len(f.meters) + 1
  BY FileNumbers DEF Tidy
<1>2. f.start # 0 /\ f.stop # 0 /\ f.conf # 0 /\ (f.conf = AtStop \/ f.conf > Len(f.meters))
  BY <1>1, NextKinds
<1>3. f.await = Waiting(f)
  BY <1>2 DEF Tidy, Counted
<1>4. FirstMeter(f) = Len(f.meters) + 1
  BY <1>1, <1>2 DEF FirstMeter, AtStart, AtStop
<1> QED BY <1>1, <1>2, <1>3, <1>4 DEF Waiting, AtStart

LEMMA ConfirmCounts ==
  ASSUME CountInv, StoreInv, OrderInv, call # NoCall, ConfirmLast
  PROVE  CountInv'
<1>1. FilesInv /\ QueueInv /\ LoadedInv /\ CallInv /\ clock \in Nat /\ UNCHANGED queue
  BY DEF StoreInv, RingInv, ConfirmLast
<1>2. CASE last_from_file /\ loaded.entry # NoEntry /\ files[loaded.entry] # NoFile
  <2> PICK e : e = loaded.entry
    OBVIOUS
  <2> PICK f : f = files[e]
    OBVIOUS
  <2> PICK g : g = Confirmed(f)
    OBVIOUS
  <2>1. /\ files' = [files EXCEPT ![e] = g]
        /\ known' = IF loaded.call.kind = "stop" THEN IF known >= 0 THEN known - 1 ELSE known
                    ELSE Known(f, -1)
    BY <1>2, Zenon DEF ConfirmLast
  <2>2. loaded.data
    BY <1>1, <1>2 DEF CallInv
  <2>3. e \in Entry /\ NextKind(f) # "none" /\ loaded.call.kind = NextKind(f) /\ loaded.next = f.conf + 1
    BY <1>1, <2>2 DEF LoadedInv, LoadedRight, Message
  <2>4. Tidy(f, clock) /\ IsRight(f) /\ f \in FileType /\ f.await \in Nat
    BY <1>1, <2>3, FileFields DEF OrderInv, TidyAll, Tidy, IsRight
  <2>5. g.await = f.await - 1 /\ known' = (IF known >= 0 THEN known - 1 ELSE known)
    <3>1. CASE NextKind(f) = "stop"
      <4>1. g = NoFile /\ f.await = 1
        BY <1>1, <2>3, <2>4, <3>1, StopAlone, Zenon DEF Confirmed
      <4>2. NoFile.await = 0
        BY DEF NoFile
      <4> QED BY <2>1, <2>3, <3>1, <4>1, <4>2
    <3>2. CASE NextKind(f) # "stop"
      <4>1. f.start # 0 /\ f.conf \in 0 .. Len(f.meters)
        BY <2>3, <2>4, <3>2, NextKinds, FileNumbers
      <4>2. Await(f, -1) = f.await - 1 /\ f.await \in Nat \ {0}
        BY <1>1, <2>4, <4>1, AwaitLess
      <4>3. known' = IF known >= 0 THEN known - 1 ELSE known
        <5>1. known' = Known(f, -1)
          BY <2>1, <2>3, <3>2
        <5>2. ~(f.await + (-1) < 0)
          BY <4>2
        <5>3. known \in Int
          BY DEF CountInv
        <5> QED BY <5>1, <5>2, <5>3 DEF Known
      <4>4. g.await = Await(f, -1)
        <5>1. \A c : [f EXCEPT !.conf = c, !.await = Await(f, -1)].await = Await(f, -1)
          <6>1. f \in FileType
            BY <2>4
          <6> QED BY ONLY <6>1, ConfAwaits
        <5>2. CASE NextKind(f) = "start"
          <6>1. g = [f EXCEPT !.conf = AtMeter(1), !.await = Await(f, -1)]
            BY <2>3, <5>2, Zenon DEF Confirmed
          <6> QED BY <5>1, <6>1, Zenon
        <5>3. CASE NextKind(f) # "start"
          <6>1. g = [f EXCEPT !.conf = loaded.next, !.await = Await(f, -1)]
            BY <2>3, <3>2, <5>3, Zenon DEF Confirmed
          <6> QED BY <5>1, <6>1, Zenon
        <5> QED BY <5>2, <5>3
      <4> QED BY <4>2, <4>3, <4>4
    <3> QED BY <3>1, <3>2
  <2>6. Differs(files, files', e, -1)
    <3>1. files = [c \in Entry |-> files[c]]
      BY <1>1 DEF FilesInv
    <3> QED BY <2>1, <2>4, <2>5, <3>1 DEF Differs
  <2>7. known \in Int /\ Len(queue) \in Int
    BY <1>1 DEF CountInv, QueueInv
  <2>8. Len(queue') = Len(queue) + 0 /\ known' \in Int /\ (known' < 0 \/ (known >= 0 /\ known' = known + (-1) + 0))
    BY <1>1, <2>5, <2>7
  <2>9. Follows(e, -1, 0)
    BY <2>3, <2>6, <2>7, <2>8 DEF Follows
  <2> QED BY <1>1, <2>9, CountFollows
<1>3. CASE ~(last_from_file /\ loaded.entry # NoEntry /\ files[loaded.entry] # NoFile)
  <2>1. UNCHANGED <<files, known, queue>>
    BY <1>3, Zenon DEF ConfirmLast
  <2> QED BY <1>1, <2>1, CountSame
<1> QED BY <1>2, <1>3

LEMMA TakeCounts ==
  ASSUME CountInv, FilesInv, QueueInv, GetNextMessage
  PROVE  CountInv'
<1>1. CASE FromFile
  BY <1>1, CountSame DEF GetNextMessage
<1>2. CASE ~FromFile /\ queue # <<>>
  <2>1. UNCHANGED files /\ queue' = Tail(queue) /\ known' = known - 1
    BY <1>2 DEF GetNextMessage
  <2>2. queue \in Seq(CallType)
    BY DEF QueueInv
  <2> HIDE DEF CallType
  <2>3. Len(queue') = Len(queue) + (-1) /\ Len(queue) \in Nat
    BY <1>2, <2>1, <2>2
  <2>4. known \in Int
    BY DEF CountInv
  <2>5. known' \in Int /\ (known' < 0 \/ (known >= 0 /\ known' = known + 0 + (-1)))
    BY <2>1, <2>4
  <2>6. Differs(files, files', 0, 0)
    <3>1. \A c \in Entry : files[c].await \in Int
      BY FileFields DEF FilesInv
    <3> QED BY <2>1, <3>1 DEF Differs
  <2>7. Follows(0, 0, -1)
    BY <2>3, <2>5, <2>6, SomeEntry DEF Follows
  <2> QED BY <2>7, CountFollows
<1>3. CASE ~FromFile /\ queue = <<>>
  BY <1>3, CountUnknown DEF GetNextMessage
<1> QED BY <1>1, <1>2, <1>3

LEMMA SendCounts ==
  ASSUME CountInv, FilesInv, QueueInv, NEW t, NEW i, QueueSend(t, i), known >= 0
  PROVE  CountInv'
<1> PICK c : c = Call("meter", t, clock', i)
  OBVIOUS
<1>1. UNCHANGED files /\ queue' = Append(queue, c) /\ known' = known + 1
  BY DEF QueueSend
<1>2. Len(queue') = Len(queue) + 1 /\ Len(queue) \in Nat
  BY <1>1 DEF QueueInv
<1>3. known \in Int
  BY DEF CountInv
<1>4. known' \in Int /\ known' = known + 0 + 1
  BY <1>1, <1>3
<1>5. Differs(files, files', 0, 0)
  <2>1. \A d \in Entry : files[d].await \in Int
    BY FileFields DEF FilesInv
  <2> QED BY <1>1, <2>1 DEF Differs
<1>6. Follows(0, 0, 1)
  BY <1>2, <1>4, <1>5, SomeEntry DEF Follows
<1> QED BY <1>6, CountFollows

LEMMA SetIdCounts ==
  ASSUME CountInv, FilesInv, QueueInv, NEW a, NEW i, SetRealId(a, i)
  PROVE  CountInv'
<1>1. /\ files' = IF Exists(a) THEN [files EXCEPT ![a].id = i] ELSE files
      /\ UNCHANGED <<known, queue>>
  BY DEF SetRealId
<1>2. ASSUME NEW c \in Entry PROVE files'[c].await = files[c].await
  <2>1. files[c] \in FileType /\ files = [e \in Entry |-> files[e]]
    BY DEF FilesInv
  <2> PICK g : g = [files[c] EXCEPT !.id = i]
    OBVIOUS
  <2>2. g.await = files[c].await
    <3>1. g = FileLit(files[c].start, files[c].active, i, files[c].await, files[c].conf, files[c].meters, files[c].stop)
      BY <2>1, IdIs, Zenon
    <3> QED BY <3>1 DEF FileLit
  <2>3. files'[c] = files[c] \/ files'[c] = g
    <3> HIDE DEF FileType
    <3> QED BY <1>1, <2>1
  <2> QED BY <2>2, <2>3
<1> QED BY <1>1, <1>2, CountSame

LEMMA CountCounts ==
  ASSUME CountInv, FilesInv, QueueInv, CountMessages
  PROVE  CountInv'
<1>1. \A c \in Entry : files[c].await \in Int
  BY FileFields DEF FilesInv
<1>2. StoredCount \in Int
  <2>1. Stored(files) \in Int
    <3>1. Differs(files, files, 0, 0)
      BY <1>1 DEF Differs
    <3> QED BY <1>1, <3>1, SomeEntry, StoredChanges DEF Differs
  <2> QED BY <2>1 DEF StoredCount
<1>3. Len(queue) \in Int /\ known \in Int
  BY DEF QueueInv, CountInv
<1>4. known' = (IF known >= 0 THEN known ELSE StoredCount + Len(queue)) /\ UNCHANGED <<files, queue>>
  BY DEF CountMessages, MessageCount
<1>5. StoredCount' = StoredCount
  BY <1>4 DEF StoredCount
<1> QED BY <1>2, <1>3, <1>4, <1>5 DEF CountInv, CountRight

LEMMA StartCounts ==
  ASSUME CountInv, FilesInv, QueueInv, StartTransaction
  PROVE  CountInv'
<1>1. CASE Vacant = {}
  <2>1. files' = StopActive(clock + 1) /\ known' = KnownAfterStop /\ UNCHANGED queue
    BY <1>1 DEF StartTransaction, EnqueueStart
  <2> QED BY <2>1, StopCounts
<1>2. CASE Vacant # {}
  <2>1. known' = -1
    BY <1>2 DEF StartTransaction, EnqueueStart
  <2> QED BY <2>1, CountUnknown
<1> QED BY <1>1, <1>2

LEMMA CountNext ==
  ASSUME StoreInv, OrderInv, CountInv, [Next]_vars, SampleQueued => known >= 0
  PROVE  CountInv'
<1>1. FilesInv /\ QueueInv
  BY DEF StoreInv
<1>2. CASE StartTransaction
  BY <1>1, <1>2, StartCounts
<1>3. CASE SampleQueued
  <2>1. PICK t, i : QueueSend(t, i)
    BY <1>3, Zenon DEF SampleQueued
  <2> QED BY <1>1, <1>3, <2>1, SendCounts
<1>4. CASE SampleStored
  <2>1. WriteMeterValue
    BY <1>4 DEF SampleStored
  <2> QED BY <1>1, <2>1, WriteCounts
<1>5. CASE StopTransaction
  <2>1. files' = StopActive(clock') /\ known' = KnownAfterStop /\ UNCHANGED queue
    BY <1>5 DEF StopTransaction, EnqueueStop
  <2> QED BY <1>1, <2>1, StopCounts
<1>6. CASE TakeMessage
  <2>1. GetNextMessage
    BY <1>6 DEF TakeMessage
  <2> QED BY <1>1, <2>1, TakeCounts
<1>7. CASE TakeFails \/ Clear \/ Restart
  <2>1. known' = -1
    BY <1>7 DEF TakeFails, GetNextFails, Clear, ClearAll, Restart, Booted
  <2> QED BY <2>1, CountUnknown
<1>8. CASE Accepted \/ Rejected
  <2>1. call # NoCall /\ ConfirmLast
    BY <1>8 DEF Accepted, Rejected
  <2> QED BY <2>1, ConfirmCounts
<1>9. CASE LearnId
  <2>1. CASE session.on
    <3>1. SetRealId(answered.entry, answered.tx)
      BY <1>9, <2>1 DEF LearnId
    <3> QED BY <1>1, <3>1, SetIdCounts
  <2>2. CASE ~session.on
    <3>1. UNCHANGED <<files, known, queue>>
      BY <1>9, <2>2 DEF LearnId, store
    <3> QED BY <1>1, <3>1, CountSame
  <2> QED BY <2>1, <2>2
<1>10. CASE Count
  <2>1. CountMessages
    BY <1>10 DEF Count
  <2> QED BY <1>1, <2>1, CountCounts
<1>11. CASE UNCHANGED vars
  <2>1. UNCHANGED <<files, known, queue>>
    BY <1>11 DEF vars, store
  <2> QED BY <1>1, <2>1, CountSame
<1> QED BY <1>2, <1>3, <1>4, <1>5, <1>6, <1>7, <1>8, <1>9, <1>10, <1>11 DEF Next

CountsInv == StoreInv /\ ActiveInv /\ OrderInv /\ ("uncounted" \notin taken => CountInv)

LEMMA CountsStep ==
  ASSUME MCNext, "uncounted" \notin taken'
  PROVE  "uncounted" \notin taken /\ (SampleQueued => ~(known < 0))
<1>1. taken' = taken
         \cup Came("uncounted", known < 0 /\ SampleQueued)
         \cup Came("reuse", clock < clock' /\ (\E c \in oldest : c.entry = VacantEntry) /\ StartTransaction)
         \cup Came("clear", clock = clock' /\ Clear)
         \cup Came("convert", clock = clock' /\ TakeFails)
         \cup Came("crash", answered # NoAnswer /\ Restart)
  BY DEF MCNext
<1>2. "uncounted" \notin taken /\ ~(known < 0 /\ SampleQueued)
  BY <1>1, HasCome
<1> QED BY <1>2, Zenon

\* Each header counts the messages that wait in its file (awaiting_message_count,
\* by which the loader skips a file), whatever is stored, confirmed, given up or
\* restarted, and once known the count of all messages is the number of those in
\* the files and in the queue, unless a meter value was queued before the first
\* count of ocpp_transaction_message_count.
THEOREM CountsKeptHolds == MCSpec => []CountsKept
<1>1. MCInit => CountsInv
  <2>1. MCInit => known = -1
    BY DEF MCInit, Init, StoreInit
  <2>2. known = -1 => CountInv
    BY DEF CountInv, CountRight
  <2> QED BY <2>1, <2>2, InitStore, ActiveInit, InitOrder DEF MCInit, CountsInv
<1>2. CountsInv /\ [MCNext]_mcvars => CountsInv'
  <2> SUFFICES ASSUME CountsInv, [MCNext]_mcvars PROVE CountsInv'
    OBVIOUS
  <2>1. StoreInv /\ ActiveInv /\ OrderInv /\ [Next]_vars
    BY DEF CountsInv, MCNext, mcvars
  <2>2. StoreInv' /\ ActiveInv' /\ OrderInv'
    BY <2>1, StoreNext, ActiveNext, OrderNext
  <2>3. ASSUME "uncounted" \notin taken' PROVE CountInv'
    <3>1. "uncounted" \notin taken /\ (SampleQueued => ~(known < 0))
      <4>1. CASE MCNext
        BY <2>3, <4>1, CountsStep
      <4>2. CASE UNCHANGED mcvars
        <5>1. UNCHANGED taken /\ UNCHANGED clock
          BY <4>2 DEF mcvars, vars, store
        <5>2. ASSUME SampleQueued PROVE FALSE
          <6>1. clock' = clock + 1 /\ clock \in Nat
            BY <2>1, <5>2 DEF SampleQueued, QueueSend, StoreInv, RingInv
          <6> QED BY <5>1, <6>1
        <5> QED BY <2>3, <5>1, <5>2
      <4> QED BY <4>1, <4>2
    <3>2. CountInv
      BY <3>1 DEF CountsInv
    <3>3. SampleQueued => known >= 0
      BY <3>1, <3>2 DEF CountInv
    <3> QED BY <2>1, <3>2, <3>3, CountNext
  <2> QED BY <2>2, <2>3 DEF CountsInv
<1>3. CountsInv => CountsKept
  <2> SUFFICES ASSUME CountsInv PROVE CountsKept
    OBVIOUS
  <2>1. AwaitRight
    <3>1. clock \in Nat /\ TidyAll(files, clock)
      BY DEF CountsInv, StoreInv, RingInv, OrderInv
    <3> SUFFICES ASSUME NEW e \in Entry PROVE files[e].await = Cardinality(PendingIn(files[e]))
      BY Zenon DEF AwaitRight
    <3>2. Tidy(files[e], clock)
      BY <3>1 DEF TidyAll
    <3> QED BY <3>1, <3>2, AwaitIs
  <2>2. "uncounted" \notin taken => CountRight
    BY DEF CountsInv, CountInv
  <2> QED BY <2>1, <2>2 DEF CountsKept
<1> QED BY <1>1, <1>2, <1>3, PTL DEF MCSpec
=============================================================================
