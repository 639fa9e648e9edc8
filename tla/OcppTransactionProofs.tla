----------------------- MODULE OcppTransactionProofs -----------------------
(***************************************************************************)
(* Lemmas about the storage of OCPP transaction messages, for any number   *)
(* of files and any sizes: what its operations make of a file, what is     *)
(* loaded, and what each operation keeps.                                  *)
(***************************************************************************)
EXTENDS OcppTransaction, FiniteSetTheorems, WellFoundedInduction, TLAPS

-----------------------------------------------------------------------------
(* Types.                                                                  *)

\* A set of numbers has a least one.
LEMMA LeastNumber ==
  ASSUME NEW S \in SUBSET Nat, S # {}
  PROVE  \E x \in S : \A y \in S : x <= y
<1> DEFINE Below(x) == 0 .. x - 1
           B == {Below(x) : x \in S}
<1>1. B \subseteq FiniteSubsetsOf(Nat)
  <2>1. \A x \in S : Below(x) \in SUBSET Nat /\ IsFiniteSet(Below(x))
    BY FS_Interval
  <2> QED BY <2>1 DEF FiniteSubsetsOf
<1>2. PICK X \in B : \A Y \in B : ~(<<Y, X>> \in StrictSubsetOrdering(Nat))
  <2>1. B # {}
    OBVIOUS
  <2> QED BY <1>1, <2>1, WFMin, FS_StrictSubsetOrderingWellFounded
<1>3. PICK x \in S : X = Below(x)
  OBVIOUS
<1>4. \A y \in S : x <= y
  <2> SUFFICES ASSUME NEW y \in S, y < x PROVE FALSE
    OBVIOUS
  <2>1. Below(y) \subseteq Below(x) /\ y \in Below(x) /\ y \notin Below(y)
    OBVIOUS
  <2>2. Below(y) \in SUBSET Nat /\ Below(x) \in SUBSET Nat /\ Below(y) # Below(x)
    BY <2>1
  <2>3. <<Below(y), Below(x)>> \in StrictSubsetOrdering(Nat)
    BY <2>1, <2>2 DEF StrictSubsetOrdering
  <2> QED BY <1>2, <1>3, <2>3
<1> QED BY <1>4

FileLit(s, a, i, w, c, m, p) ==
    [start |-> s, active |-> a, id |-> i, await |-> w, conf |-> c, meters |-> m, stop |-> p]

LEMMA FileFields ==
  ASSUME NEW f \in FileType
  PROVE  /\ f.start \in Nat /\ f.active \in BOOLEAN /\ f.id \in Id /\ f.await \in Nat
         /\ f.conf \in Offset /\ f.meters \in Seq(Nat) /\ f.stop \in Nat
         /\ f = FileLit(f.start, f.active, f.id, f.await, f.conf, f.meters, f.stop)
BY DEF FileType, FileLit

LEMMA LitIsFile ==
  ASSUME NEW f, NEW s, NEW a, NEW i, NEW w, NEW c, NEW m, NEW p,
         f = FileLit(s, a, i, w, c, m, p),
         s \in Nat, a \in BOOLEAN, i \in Id, w \in Nat, c \in Offset, m \in Seq(Nat), p \in Nat
  PROVE  f \in FileType
BY DEF FileType, FileLit

LEMMA AwaitType == ASSUME NEW f \in FileType, NEW n \in Int PROVE Await(f, n) \in Nat
BY FileFields DEF Await

\* The records the operations make of a file, field by field.
LEMMA StoppedIs ==
  ASSUME NEW f \in FileType, NEW n
  PROVE  Stopped(f, n) = FileLit(f.start, FALSE, f.id, Await(f, 1), f.conf, f.meters, n)
<1>b. PICK b : b = FALSE
  OBVIOUS
<1>0. f = FileLit(f.start, f.active, f.id, f.await, f.conf, f.meters, f.stop)
  BY FileFields
<1>1a. PICK f1 : f1 = [f EXCEPT !.active = b]
  OBVIOUS
<1>1. f1 = FileLit(f.start, b, f.id, f.await, f.conf, f.meters, f.stop)
  BY <1>0, <1>1a DEF FileLit
<1>2a. PICK f2 : f2 = [f1 EXCEPT !.stop = n]
  OBVIOUS
<1>2. f2 = FileLit(f.start, b, f.id, f.await, f.conf, f.meters, n)
  BY <1>1, <1>2a DEF FileLit
<1>3a. PICK f3 : f3 = [f2 EXCEPT !.await = Await(f, 1)]
  OBVIOUS
<1>3. f3 = FileLit(f.start, b, f.id, Await(f, 1), f.conf, f.meters, n)
  BY <1>2, <1>3a DEF FileLit
<1> QED BY <1>3, <1>1a, <1>2a, <1>3a, <1>b, Zenon DEF Stopped

LEMMA ConfIs ==
  ASSUME NEW f \in FileType, NEW c, NEW w
  PROVE  [f EXCEPT !.conf = c, !.await = w] = FileLit(f.start, f.active, f.id, w, c, f.meters, f.stop)
<1>0. f = FileLit(f.start, f.active, f.id, f.await, f.conf, f.meters, f.stop)
  BY FileFields
<1>1a. PICK f1 : f1 = [f EXCEPT !.conf = c]
  OBVIOUS
<1>1. f1 = FileLit(f.start, f.active, f.id, f.await, c, f.meters, f.stop)
  BY <1>0, <1>1a DEF FileLit
<1>2a. PICK f2 : f2 = [f1 EXCEPT !.await = w]
  OBVIOUS
<1>2. f2 = FileLit(f.start, f.active, f.id, w, c, f.meters, f.stop)
  BY <1>1, <1>2a DEF FileLit
<1> QED BY <1>2, <1>1a, <1>2a, Zenon

LEMMA MeterIs ==
  ASSUME NEW f \in FileType, NEW m, NEW w
  PROVE  [f EXCEPT !.meters = m, !.await = w] = FileLit(f.start, f.active, f.id, w, f.conf, m, f.stop)
<1>0. f = FileLit(f.start, f.active, f.id, f.await, f.conf, f.meters, f.stop)
  BY FileFields
<1>1a. PICK f1 : f1 = [f EXCEPT !.meters = m]
  OBVIOUS
<1>1. f1 = FileLit(f.start, f.active, f.id, f.await, f.conf, m, f.stop)
  BY <1>0, <1>1a DEF FileLit
<1>2a. PICK f2 : f2 = [f1 EXCEPT !.await = w]
  OBVIOUS
<1>2. f2 = FileLit(f.start, f.active, f.id, w, f.conf, m, f.stop)
  BY <1>1, <1>2a DEF FileLit
<1> QED BY <1>2, <1>1a, <1>2a, Zenon

LEMMA IdIs ==
  ASSUME NEW f \in FileType, NEW i
  PROVE  [f EXCEPT !.id = i] = FileLit(f.start, f.active, i, f.await, f.conf, f.meters, f.stop)
<1>0. f = FileLit(f.start, f.active, f.id, f.await, f.conf, f.meters, f.stop)
  BY FileFields
<1>1a. PICK f1 : f1 = [f EXCEPT !.id = i]
  OBVIOUS
<1>1. f1 = FileLit(f.start, f.active, i, f.await, f.conf, f.meters, f.stop)
  BY <1>0, <1>1a DEF FileLit
<1> QED BY <1>1, <1>1a, Zenon

LEMMA StartedIs ==
  ASSUME NEW n
  PROVE  Started(n) = FileLit(n, TRUE, UnknownId, 1, AtStart, <<>>, 0)
<1>b. PICK b : b = TRUE
  OBVIOUS
<1>0. NoFile = FileLit(0, FALSE, UnknownId, 0, AtStart, <<>>, 0)
  BY DEF NoFile, FileLit
<1>1a. PICK f1 : f1 = [NoFile EXCEPT !.start = n]
  OBVIOUS
<1>1. f1 = FileLit(n, FALSE, UnknownId, 0, AtStart, <<>>, 0)
  BY <1>0, <1>1a DEF FileLit
<1>2a. PICK f2 : f2 = [f1 EXCEPT !.active = b]
  OBVIOUS
<1>2. f2 = FileLit(n, b, UnknownId, 0, AtStart, <<>>, 0)
  BY <1>1, <1>2a DEF FileLit
<1>3a. PICK f3 : f3 = [f2 EXCEPT !.await = 1]
  OBVIOUS
<1>3. f3 = FileLit(n, b, UnknownId, 1, AtStart, <<>>, 0)
  BY <1>2, <1>3a DEF FileLit
<1> QED BY <1>3, <1>1a, <1>2a, <1>3a, <1>b, Zenon DEF Started

LEMMA NoFileIs ==
  /\ NoFile = FileLit(0, FALSE, UnknownId, 0, AtStart, <<>>, 0)
  /\ NoFile \in FileType
<1>1. NoFile = FileLit(0, FALSE, UnknownId, 0, AtStart, <<>>, 0)
  BY DEF NoFile, FileLit
<1>2. UnknownId \in Id /\ AtStart \in Offset /\ <<>> \in Seq(Nat) /\ 0 \in Nat /\ FALSE \in BOOLEAN
  BY DEF Id, Offset, AtStart
<1>3. PICK g : g = NoFile
  OBVIOUS
<1>4. g = FileLit(0, FALSE, UnknownId, 0, AtStart, <<>>, 0)
  BY <1>1, <1>3, Zenon
<1>5. g \in FileType
  BY <1>2, <1>4, LitIsFile, Zenon
<1> QED BY <1>1, <1>3, <1>5, Zenon

-----------------------------------------------------------------------------
(* What the operations keep of one file.                                   *)

\* A number without a transaction has no file; an active transaction has no
\* stop yet, and its next message is no further than its next meter value.
FileRight(f) ==
    /\ f.start = 0 => f = NoFile
    /\ f.start # 0 => (f.active <=> f.stop = 0)
    /\ f.active => f.conf # AtStop /\ f.conf <= Len(f.meters) + 1

IsRight(f) == f \in FileType /\ FileRight(f)

LEMMA PendingAre ==
  ASSUME NEW f, NEW m
  PROVE  m \in PendingIn(f) <=>
           \/ m = <<"start", f.start>> /\ f.start # 0 /\ f.conf = AtStart
           \/ \E i \in FirstMeter(f) .. Len(f.meters) : m = <<"meter", f.meters[i]>>
           \/ m = <<"stop", f.stop>> /\ f.stop # 0
BY DEF PendingIn

\* A step that only adds to a file: what is pending stays, and so does what is
\* next.
Adds(f, g) ==
    /\ IsRight(g)
    /\ PendingIn(f) \subseteq PendingIn(g)
    /\ NextKind(f) # "none" =>
         NextKind(g) = NextKind(f) /\ NextNo(g) = NextNo(f) /\ g.conf = f.conf /\ g.start = f.start

LEMMA AddsNothing == ASSUME NEW f, IsRight(f) PROVE Adds(f, f)
BY DEF Adds

LEMMA FileLitActive ==
  ASSUME NEW s, NEW a \in BOOLEAN, NEW i, NEW w, NEW c, NEW m, NEW p, NEW f, f = FileLit(s, a, i, w, c, m, p)
  PROVE  f.active = a
BY DEF FileLit

LEMMA NoFileRight == IsRight(NoFile) /\ PendingIn(NoFile) = {} /\ NextKind(NoFile) = "none"
<1>1. NoFile \in FileType /\ NoFile.start = 0 /\ NoFile.conf = 0 /\ NoFile.meters = <<>>
      /\ NoFile.stop = 0 /\ NoFile.await = 0 /\ NoFile.active = FALSE
  <2>1. NoFile.start = 0 /\ NoFile.conf = 0 /\ NoFile.meters = <<>> /\ NoFile.stop = 0 /\ NoFile.await = 0
    BY DEF NoFile, AtStart
  <2>2. NoFile.active = FALSE
    BY NoFileIs, FileLitActive, Zenon
  <2> QED BY NoFileIs, <2>1, <2>2
<1>2. IsRight(NoFile) /\ NextKind(NoFile) = "none"
  BY <1>1 DEF IsRight, FileRight, NextKind
<1>3. ASSUME NEW m \in PendingIn(NoFile) PROVE FALSE
  <2>1. FirstMeter(NoFile) = 1 /\ Len(<<>>) = 0
    BY <1>1 DEF FirstMeter, AtStart
  <2> QED BY <1>1, <1>3, <2>1, PendingAre
<1> QED BY <1>2, <1>3

LEMMA StoppedAdds ==
  ASSUME NEW f, IsRight(f), f.active, NEW n \in Nat \ {0}
  PROVE  /\ Adds(f, Stopped(f, n)) /\ <<"stop", n>> \in PendingIn(Stopped(f, n))
         /\ Stopped(f, n).start = f.start /\ ~Stopped(f, n).active
<1>0. f \in FileType /\ FileRight(f)
  BY DEF IsRight
<1>1. PICK g : g = Stopped(f, n)
  OBVIOUS
<1>2. PICK w \in Nat : w = Await(f, 1) /\ w # 0
  BY <1>0, FileFields, AwaitType DEF Await
<1>3. g = FileLit(f.start, FALSE, f.id, w, f.conf, f.meters, n)
  BY <1>0, <1>1, <1>2, StoppedIs, Zenon
<1>4. /\ g \in FileType
      /\ g.start = f.start /\ g.active = FALSE /\ g.await = w /\ g.conf = f.conf
      /\ g.meters = f.meters /\ g.stop = n
  <2>1. f.start \in Nat /\ FALSE \in BOOLEAN /\ f.id \in Id /\ f.conf \in Offset
        /\ f.meters \in Seq(Nat) /\ n \in Nat
    BY <1>0, FileFields
  <2>2. g \in FileType
    BY <1>2, <1>3, <2>1, LitIsFile, Zenon
  <2>b. PICK b : b = FALSE
    OBVIOUS
  <2>3. g = FileLit(f.start, b, f.id, w, f.conf, f.meters, n)
    BY <1>3, <2>b, Zenon
  <2>4. /\ g.start = f.start /\ g.active = b /\ g.await = w /\ g.conf = f.conf
        /\ g.meters = f.meters /\ g.stop = n
    BY <2>3 DEF FileLit
  <2> QED BY <2>2, <2>4, <2>b, Zenon
<1>5. f.stop = 0 /\ f.start # 0
  BY <1>0, NoFileIs DEF FileRight, NoFile
<1>6. FileRight(g)
  BY <1>4, <1>5 DEF FileRight
<1>7. FirstMeter(g) = FirstMeter(f)
  BY <1>4 DEF FirstMeter
<1>8. ASSUME NEW m \in PendingIn(f) PROVE m \in PendingIn(g)
  BY <1>4, <1>5, <1>7, <1>8, PendingAre
<1>9. <<"stop", n>> \in PendingIn(g)
  BY <1>4, PendingAre
<1>10. NextKind(f) # "none" =>
         NextKind(g) = NextKind(f) /\ NextNo(g) = NextNo(f)
  <2> SUFFICES ASSUME NextKind(f) # "none" PROVE NextKind(g) = NextKind(f) /\ NextNo(g) = NextNo(f)
    OBVIOUS
  <2>1. NextKind(f) \in {"start", "meter"}
    BY DEF NextKind
  <2>2. NextKind(g) = NextKind(f)
    BY <1>2, <1>4, <2>1 DEF NextKind
  <2>3. NextNo(g) = NextNo(f)
    BY <1>4, <2>1, <2>2 DEF NextNo
  <2> QED BY <2>2, <2>3
<1> QED BY <1>1, <1>4, <1>6, <1>8, <1>9, <1>10 DEF Adds, IsRight

\* The fields of a file g that is f with other meter values.
HasMeters(g, f, m, w) ==
    /\ g \in FileType
    /\ g.start = f.start /\ g.active = f.active /\ g.await = w /\ g.conf = f.conf
    /\ g.meters = m /\ g.stop = f.stop

LEMMA MeterFields ==
  ASSUME NEW f \in FileType, NEW m \in Seq(Nat), NEW w \in Nat,
         NEW g, g = [f EXCEPT !.meters = m, !.await = w]
  PROVE  HasMeters(g, f, m, w)
<1>1. g = FileLit(f.start, f.active, f.id, w, f.conf, m, f.stop)
  BY MeterIs, Zenon
<1>2. f.start \in Nat /\ f.active \in BOOLEAN /\ f.id \in Id /\ f.conf \in Offset /\ f.stop \in Nat
  BY FileFields
<1>3. g \in FileType
  BY <1>1, <1>2, LitIsFile, Zenon
<1>4. /\ g.start = f.start /\ g.active = f.active /\ g.await = w /\ g.conf = f.conf
      /\ g.meters = m /\ g.stop = f.stop
  BY <1>1 DEF FileLit
<1> QED BY <1>3, <1>4 DEF HasMeters

LEMMA MeterAdds ==
  ASSUME NEW f, IsRight(f), f.active, NEW n \in Nat,
         NEW g, g = [f EXCEPT !.meters = Append(f.meters, n), !.await = Await(f, 1)]
  PROVE  Adds(f, g) /\ <<"meter", n>> \in PendingIn(g) /\ g.start = f.start /\ g.active = f.active
<1>0. f \in FileType /\ FileRight(f)
  BY DEF IsRight
<1>2. PICK w \in Nat : w = Await(f, 1) /\ w # 0
  BY <1>0, FileFields, AwaitType DEF Await
<1>3. PICK m : m = Append(f.meters, n)
  OBVIOUS
<1>4. m \in Seq(Nat) /\ Len(m) = Len(f.meters) + 1 /\ Len(f.meters) \in Nat
      /\ (\A i \in 1 .. Len(f.meters) : m[i] = f.meters[i]) /\ m[Len(f.meters) + 1] = n
  BY <1>0, <1>3, FileFields
<1>5. g = FileLit(f.start, f.active, f.id, w, f.conf, m, f.stop)
  BY <1>0, <1>2, <1>3, MeterIs, Zenon
<1>6. /\ g \in FileType
      /\ g.start = f.start /\ g.active = f.active /\ g.await = w /\ g.conf = f.conf
      /\ g.meters = m /\ g.stop = f.stop
  <2>1. g = [f EXCEPT !.meters = m, !.await = w]
    BY <1>2, <1>3, Zenon
  <2>2. HasMeters(g, f, m, w)
    BY <1>0, <1>2, <1>4, <2>1, MeterFields, Zenon
  <2> QED BY <2>2, Zenon DEF HasMeters
<1>7. f.start # 0 /\ f.conf \in Nat /\ f.conf <= Len(f.meters) + 1
  BY <1>0, NoFileIs, FileFields DEF FileRight, NoFile, Offset
<1>8. FileRight(g)
  <2>1. g.conf <= Len(g.meters) + 1
    BY <1>4, <1>6, <1>7
  <2> QED BY <1>0, <1>6, <1>7, <2>1 DEF FileRight
<1>9. FirstMeter(g) = FirstMeter(f) /\ FirstMeter(f) \in 1 .. Len(f.meters) + 1
  BY <1>4, <1>6, <1>7 DEF FirstMeter, AtStop, AtStart
<1>10. ASSUME NEW x \in PendingIn(f) PROVE x \in PendingIn(g)
  <2>1. CASE \E i \in FirstMeter(f) .. Len(f.meters) : x = <<"meter", f.meters[i]>>
    <3>1. PICK i \in FirstMeter(f) .. Len(f.meters) : x = <<"meter", f.meters[i]>>
      BY <2>1
    <3>2. i \in FirstMeter(g) .. Len(g.meters) /\ g.meters[i] = f.meters[i]
      BY <1>4, <1>6, <1>9
    <3> QED BY <3>1, <3>2, PendingAre
  <2>2. CASE x = <<"start", f.start>> /\ f.start # 0 /\ f.conf = AtStart
    <3>1. g.start # 0 /\ g.conf = AtStart /\ x = <<"start", g.start>>
      BY <1>6, <2>2, Zenon
    <3> QED BY <3>1, PendingAre, Zenon
  <2>3. CASE x = <<"stop", f.stop>> /\ f.stop # 0
    <3>1. g.stop # 0 /\ x = <<"stop", g.stop>>
      BY <1>6, <2>3, Zenon
    <3> QED BY <3>1, PendingAre, Zenon
  <2> QED BY <1>10, <2>1, <2>2, <2>3, PendingAre, Zenon
<1>11. <<"meter", n>> \in PendingIn(g)
  <2>1. Len(g.meters) \in FirstMeter(g) .. Len(g.meters) /\ g.meters[Len(g.meters)] = n
    BY <1>4, <1>6, <1>9
  <2> QED BY <2>1, PendingAre
<1>12. ASSUME NextKind(f) # "none" PROVE NextKind(g) = NextKind(f) /\ NextNo(g) = NextNo(f)
  <2>1. NextKind(f) = "start" \/ (NextKind(f) = "meter" /\ f.conf \in 1 .. Len(f.meters))
    BY <1>4, <1>7, <1>12 DEF NextKind, AtStart
  <2>2. CASE NextKind(f) = "start"
    <3>1. NextKind(g) = "start"
      BY <1>2, <1>6, <2>2 DEF NextKind
    <3> QED BY <1>6, <2>2, <3>1 DEF NextNo
  <2>3. CASE NextKind(f) = "meter" /\ f.conf \in 1 .. Len(f.meters)
    <3>1. NextKind(g) = "meter"
      BY <1>2, <1>4, <1>6, <1>7, <2>3 DEF NextKind, AtStart, AtStop
    <3> QED BY <1>4, <1>6, <2>3, <3>1 DEF NextNo
  <2> QED BY <2>1, <2>2, <2>3
<1> QED BY <1>6, <1>8, <1>10, <1>11, <1>12 DEF Adds, IsRight

LEMMA IdAdds ==
  ASSUME NEW f, IsRight(f), f.start # 0, NEW i \in Id, NEW g, g = [f EXCEPT !.id = i]
  PROVE  Adds(f, g) /\ g.start = f.start /\ g.active = f.active /\ g.id = i /\ g.stop = f.stop /\ g.conf = f.conf
<1>0. f \in FileType /\ FileRight(f)
  BY DEF IsRight
<1>1. g = FileLit(f.start, f.active, i, f.await, f.conf, f.meters, f.stop)
  BY <1>0, IdIs, Zenon
<1>2. /\ g \in FileType
      /\ g.start = f.start /\ g.active = f.active /\ g.await = f.await /\ g.conf = f.conf
      /\ g.meters = f.meters /\ g.stop = f.stop /\ g.id = i
  <2>1. f.start \in Nat /\ f.active \in BOOLEAN /\ f.await \in Nat /\ f.conf \in Offset
        /\ f.meters \in Seq(Nat) /\ f.stop \in Nat
    BY <1>0, FileFields
  <2>2. g \in FileType
    BY <1>1, <2>1, LitIsFile, Zenon
  <2>3. /\ g.start = f.start /\ g.active = f.active /\ g.await = f.await /\ g.conf = f.conf
        /\ g.meters = f.meters /\ g.stop = f.stop /\ g.id = i
    BY <1>1 DEF FileLit
  <2> QED BY <2>2, <2>3, Zenon
<1>3. FileRight(g)
  BY <1>0, <1>2 DEF FileRight
<1>4. PendingIn(g) = PendingIn(f) /\ NextKind(g) = NextKind(f) /\ NextNo(g) = NextNo(f)
  <2>1. FirstMeter(g) = FirstMeter(f)
    BY <1>2 DEF FirstMeter
  <2>2. NextKind(g) = NextKind(f)
    BY <1>2, Zenon DEF NextKind
  <2>3. NextNo(g) = NextNo(f)
    BY <1>2, <2>2, Zenon DEF NextNo
  <2>4. ASSUME NEW m PROVE m \in PendingIn(g) <=> m \in PendingIn(f)
    <3>1. PICK p : p = FirstMeter(f)
      OBVIOUS
    <3>2. PICK l : l = Len(f.meters)
      OBVIOUS
    <3>3. m \in PendingIn(f) <=>
            \/ m = <<"start", f.start>> /\ f.start # 0 /\ f.conf = AtStart
            \/ \E j \in p .. l : m = <<"meter", f.meters[j]>>
            \/ m = <<"stop", f.stop>> /\ f.stop # 0
      BY <3>1, <3>2, PendingAre
    <3>4. m \in PendingIn(g) <=>
            \/ m = <<"start", g.start>> /\ g.start # 0 /\ g.conf = AtStart
            \/ \E j \in FirstMeter(g) .. Len(g.meters) : m = <<"meter", g.meters[j]>>
            \/ m = <<"stop", g.stop>> /\ g.stop # 0
      BY PendingAre
    <3>5. m \in PendingIn(g) <=>
            \/ m = <<"start", f.start>> /\ f.start # 0 /\ f.conf = AtStart
            \/ \E j \in p .. l : m = <<"meter", f.meters[j]>>
            \/ m = <<"stop", f.stop>> /\ f.stop # 0
      BY <1>2, <2>1, <3>1, <3>2, <3>4
    <3> QED BY <3>3, <3>5
  <2> QED BY <2>2, <2>3, <2>4 DEF PendingIn
<1> QED BY <1>2, <1>3, <1>4 DEF Adds, IsRight

LEMMA StartedAdds ==
  ASSUME NEW n \in Nat \ {0}
  PROVE  Adds(NoFile, Started(n)) /\ <<"start", n>> \in PendingIn(Started(n))
         /\ Started(n).start = n /\ Started(n).id = UnknownId /\ Started(n).conf = AtStart
<1>1. PICK g : g = Started(n)
  OBVIOUS
<1>2. g = FileLit(n, TRUE, UnknownId, 1, AtStart, <<>>, 0)
  BY <1>1, StartedIs, Zenon
<1>3. UnknownId \in Id /\ AtStart \in Offset /\ <<>> \in Seq(Nat) /\ 0 \in Nat /\ 1 \in Nat
  BY DEF Id, Offset, AtStart
<1>4. /\ g \in FileType /\ g.start = n /\ g.active = TRUE /\ g.conf = AtStart /\ g.meters = <<>>
      /\ g.stop = 0 /\ g.id = UnknownId
  <2>1. TRUE \in BOOLEAN /\ n \in Nat
    OBVIOUS
  <2>2. g \in FileType
    BY <1>2, <1>3, <2>1, LitIsFile, Zenon
  <2>b. PICK b : b = TRUE
    OBVIOUS
  <2>3. g = FileLit(n, b, UnknownId, 1, AtStart, <<>>, 0)
    BY <1>2, <2>b, Zenon
  <2>4. /\ g.start = n /\ g.active = b /\ g.conf = AtStart /\ g.meters = <<>>
        /\ g.stop = 0 /\ g.id = UnknownId
    BY <2>3 DEF FileLit
  <2> QED BY <2>2, <2>4, <2>b, Zenon
<1>5. FileRight(g)
  BY <1>4 DEF FileRight, AtStart, AtStop
<1>6. <<"start", n>> \in PendingIn(g)
  BY <1>4, PendingAre
<1> QED BY <1>1, <1>4, <1>5, <1>6, NoFileRight DEF Adds, IsRight

LEMMA NextKinds ==
  ASSUME NEW f, IsRight(f), NextKind(f) # "none"
  PROVE  /\ f.start # 0 /\ f.await # 0
         /\ \/ NextKind(f) = "start" /\ f.conf = 0
            \/ NextKind(f) = "meter" /\ f.conf \in 1 .. Len(f.meters)
            \/ NextKind(f) = "stop" /\ f.stop # 0 /\ f.conf # 0 /\ (f.conf = AtStop \/ f.conf > Len(f.meters))
<1>0. f \in FileType /\ FileRight(f)
  BY DEF IsRight
<1>1. f.await # 0
  BY DEF NextKind
<1>2. f.start # 0
  BY <1>0, <1>1, NoFileIs DEF FileRight, NoFile
<1>3. f.conf \in Nat \cup {AtStop} /\ f.meters \in Seq(Nat) /\ Len(f.meters) \in Nat
  BY <1>0, FileFields DEF Offset
<1>4. CASE f.conf = AtStart
  BY <1>1, <1>2, <1>4 DEF NextKind, AtStart
<1>5. CASE f.conf # AtStart /\ f.conf # AtStop /\ f.conf <= Len(f.meters)
  <2>1. NextKind(f) = "meter"
    BY <1>1, <1>5 DEF NextKind
  <2>2. f.conf \in 1 .. Len(f.meters)
    BY <1>3, <1>5 DEF AtStart
  <2> QED BY <1>1, <1>2, <2>1, <2>2
<1>6. CASE f.conf # AtStart /\ ~(f.conf # AtStop /\ f.conf <= Len(f.meters))
  <2>1. NextKind(f) = "stop" /\ ~f.active
    BY <1>1, <1>6 DEF NextKind
  <2>2. f.stop # 0
    BY <1>0, <1>2, <2>1 DEF FileRight
  <2>3. f.conf # 0 /\ (f.conf = AtStop \/ f.conf > Len(f.meters))
    BY <1>3, <1>6 DEF AtStart
  <2> QED BY <1>1, <1>2, <2>1, <2>2, <2>3
<1> QED BY <1>4, <1>5, <1>6

LEMMA NextNoType ==
  ASSUME NEW f, IsRight(f), NextKind(f) # "none"
  PROVE  NextNo(f) \in Nat /\ NextKind(f) \in {"start", "meter", "stop"} /\ f.conf + 1 \in Nat
<1>0. f \in FileType
  BY DEF IsRight
<1>1. f.start \in Nat /\ f.stop \in Nat /\ f.meters \in Seq(Nat) /\ f.conf \in Nat \cup {-1}
  BY <1>0, FileFields DEF Offset, AtStop
<1>2. CASE NextKind(f) = "start"
  BY <1>1, <1>2 DEF NextNo
<1>3. CASE NextKind(f) = "meter" /\ f.conf \in 1 .. Len(f.meters)
  BY <1>1, <1>3 DEF NextNo
<1>4. CASE NextKind(f) = "stop"
  BY <1>1, <1>4 DEF NextNo
<1> QED BY <1>2, <1>3, <1>4, NextKinds

\* What is pending in a file with the fields of f but another offset.
HasConf(g, f, c) ==
    /\ g \in FileType
    /\ g.start = f.start /\ g.active = f.active /\ g.conf = c /\ g.meters = f.meters /\ g.stop = f.stop

LEMMA ConfFields ==
  ASSUME NEW f \in FileType, NEW c \in Offset, NEW w \in Nat,
         NEW g, g = [f EXCEPT !.conf = c, !.await = w]
  PROVE  HasConf(g, f, c)
<1>1. g = FileLit(f.start, f.active, f.id, w, c, f.meters, f.stop)
  BY ConfIs, Zenon
<1>2. f.start \in Nat /\ f.active \in BOOLEAN /\ f.id \in Id /\ f.meters \in Seq(Nat) /\ f.stop \in Nat
  BY FileFields
<1>3. g \in FileType
  BY <1>1, <1>2, LitIsFile, Zenon
<1>4. /\ g.start = f.start /\ g.active = f.active /\ g.conf = c /\ g.meters = f.meters /\ g.stop = f.stop
  BY <1>1 DEF FileLit
<1> QED BY <1>3, <1>4 DEF HasConf

LEMMA Advanced ==
  ASSUME NEW f, IsRight(f), f.start # 0, NEW c \in Nat \ {0}, c <= Len(f.meters) + 1,
         NEW g, HasConf(g, f, c)
  PROVE  IsRight(g)
<1>0. f \in FileType /\ FileRight(f)
  BY DEF IsRight
<1>1. /\ g \in FileType
      /\ g.start = f.start /\ g.active = f.active /\ g.conf = c /\ g.meters = f.meters /\ g.stop = f.stop
  BY DEF HasConf
<1>2. c # AtStop
  BY DEF AtStop
<1> HIDE DEF HasConf
<1>3. FileRight(g)
  <2>1. g.active => g.conf # AtStop /\ g.conf <= Len(g.meters) + 1
    BY <1>1, <1>2
  <2>2. g.start # 0 => (g.active <=> g.stop = 0)
    BY <1>0, <1>1 DEF FileRight
  <2> QED BY <1>1, <2>1, <2>2 DEF FileRight
<1> QED BY <1>1, <1>3 DEF IsRight

\* Confirming the loaded message takes nothing else from its file.
LEMMA ConfirmedLoses ==
  ASSUME NEW f, IsRight(f), NextKind(f) # "none",
         loaded.call.kind = NextKind(f), loaded.next = f.conf + 1
  PROVE  /\ IsRight(Confirmed(f))
         /\ \A m \in PendingIn(f) : m \in PendingIn(Confirmed(f)) \/ m = <<NextKind(f), NextNo(f)>>
<1>0. f \in FileType /\ FileRight(f)
  BY DEF IsRight
<1>1. f.conf \in Nat \cup {-1} /\ f.meters \in Seq(Nat) /\ Len(f.meters) \in Nat
  BY <1>0, FileFields DEF Offset, AtStop
<1>2. f.start # 0
  BY NextKinds
<1>3. Await(f, -1) \in Nat
  BY <1>0, AwaitType
<1>4. CASE NextKind(f) = "stop" /\ f.stop # 0 /\ f.conf # 0 /\ (f.conf = AtStop \/ f.conf > Len(f.meters))
  <2>1. Confirmed(f) = NoFile
    BY <1>4 DEF Confirmed
  <2>2. NextNo(f) = f.stop
    BY <1>4 DEF NextNo
  <2>3. ASSUME NEW m \in PendingIn(f) PROVE m = <<"stop", f.stop>>
    <3>1. FirstMeter(f) > Len(f.meters)
      BY <1>1, <1>4 DEF FirstMeter, AtStart, AtStop
    <3>2. ~ \E i \in FirstMeter(f) .. Len(f.meters) : m = <<"meter", f.meters[i]>>
      BY <1>1, <1>4, <3>1 DEF FirstMeter, AtStart, AtStop
    <3>3. f.conf # AtStart
      BY <1>4 DEF AtStart
    <3> QED BY <2>3, <3>2, <3>3, PendingAre, Zenon
  <2> QED BY <1>4, <2>1, <2>2, <2>3, NoFileRight
<1>5. CASE NextKind(f) = "start" /\ f.conf = 0
  <2> PICK g : g = Confirmed(f)
    OBVIOUS
  <2>1. g = [f EXCEPT !.conf = 1, !.await = Await(f, -1)]
    BY <1>5 DEF Confirmed, AtMeter
  <2>2. HasConf(g, f, 1)
    <3>1. 1 \in Offset
      BY DEF Offset
    <3> QED BY <1>0, <1>3, <2>1, <3>1, ConfFields, Zenon
  <2>3. IsRight(g)
    <3>1. 1 \in Nat \ {0} /\ 1 <= Len(f.meters) + 1
      BY <1>1
    <3> QED BY <1>2, <2>2, <3>1, Advanced
  <2>4. NextNo(f) = f.start
    BY <1>5 DEF NextNo
  <2>5. g.conf = 1 /\ g.meters = f.meters /\ g.stop = f.stop
    BY <2>2 DEF HasConf
  <2>6. ASSUME NEW m \in PendingIn(f), m # <<"start", f.start>> PROVE m \in PendingIn(g)
    <3>1. FirstMeter(f) = FirstMeter(g)
      BY <1>5, <2>5 DEF FirstMeter, AtStart, AtStop
    <3>2. CASE \E i \in FirstMeter(f) .. Len(f.meters) : m = <<"meter", f.meters[i]>>
      <4>1. \E i \in FirstMeter(g) .. Len(g.meters) : m = <<"meter", g.meters[i]>>
        BY <2>5, <3>1, <3>2
      <4> QED BY <4>1, PendingAre, Zenon
    <3>3. CASE m = <<"stop", f.stop>> /\ f.stop # 0
      BY <2>5, <3>3, PendingAre, Zenon
    <3> QED BY <2>6, <3>2, <3>3, PendingAre, Zenon
  <2> QED BY <1>5, <2>3, <2>4, <2>6
<1>6. CASE NextKind(f) = "meter" /\ f.conf \in 1 .. Len(f.meters)
  <2> PICK g : g = Confirmed(f)
    OBVIOUS
  <2>c. PICK c : c = f.conf + 1
    OBVIOUS
  <2>1. g = [f EXCEPT !.conf = c, !.await = Await(f, -1)]
    BY <1>6, <2>c DEF Confirmed
  <2>0. c \in Nat \ {0} /\ c <= Len(f.meters) + 1 /\ c > 1
    BY <1>1, <1>6, <2>c
  <2>2. HasConf(g, f, c)
    <3>1. c \in Offset
      BY <2>0 DEF Offset
    <3> QED BY <1>0, <1>3, <2>1, <3>1, ConfFields, Zenon
  <2>3. IsRight(g)
    BY <1>2, <2>0, <2>2, Advanced
  <2>4. NextNo(f) = f.meters[f.conf]
    BY <1>6 DEF NextNo
  <2>5. g.conf = c /\ g.meters = f.meters /\ g.stop = f.stop
    BY <2>2 DEF HasConf
  <2>6. ASSUME NEW m \in PendingIn(f), m # <<"meter", f.meters[f.conf]>> PROVE m \in PendingIn(g)
    <3>1. FirstMeter(f) = f.conf /\ FirstMeter(g) = c
      BY <1>6, <2>0, <2>5 DEF FirstMeter, AtStart, AtStop
    <3>2. CASE \E i \in FirstMeter(f) .. Len(f.meters) : m = <<"meter", f.meters[i]>>
      <4>1. PICK i \in FirstMeter(f) .. Len(f.meters) : m = <<"meter", f.meters[i]>>
        BY <3>2
      <4>2. i # f.conf
        BY <2>6, <4>1
      <4>3. i \in FirstMeter(g) .. Len(g.meters) /\ m = <<"meter", g.meters[i]>>
        BY <1>1, <1>6, <2>c, <2>5, <3>1, <4>1, <4>2
      <4> QED BY <4>3, PendingAre, Zenon
    <3>3. CASE m = <<"stop", f.stop>> /\ f.stop # 0
      BY <2>5, <3>3, PendingAre, Zenon
    <3>4. f.conf # AtStart
      BY <1>6 DEF AtStart
    <3> QED BY <2>6, <3>2, <3>3, <3>4, PendingAre, Zenon
  <2> QED BY <1>6, <2>3, <2>4, <2>6
<1> QED BY <1>4, <1>5, <1>6, NextKinds

\* A file without its meter values.
LEMMA EmptiedRight ==
  ASSUME NEW f, IsRight(f), f.start # 0,
         NEW g, g = FileLit(f.start, f.active, f.id, 0, 1, <<>>, f.stop)
  PROVE  IsRight(g)
<1>0. f \in FileType /\ FileRight(f)
  BY DEF IsRight
<1>1. f.start \in Nat /\ f.active \in BOOLEAN /\ f.id \in Id /\ f.stop \in Nat
      /\ 0 \in Nat /\ 1 \in Offset /\ <<>> \in Seq(Nat)
  BY <1>0, FileFields DEF Offset
<1>2. g \in FileType
  BY <1>1, LitIsFile, Zenon
<1>3. g.start = f.start /\ g.active = f.active /\ g.conf = 1 /\ g.meters = <<>> /\ g.stop = f.stop
  BY DEF FileLit
<1>4. g.conf # AtStop /\ g.conf <= Len(g.meters) + 1
  <2>1. Len(g.meters) = 0
    BY <1>3
  <2> QED BY <1>3, <2>1 DEF AtStop
<1>5. FileRight(g)
  BY <1>0, <1>3, <1>4 DEF FileRight
<1> QED BY <1>2, <1>5 DEF IsRight

LEMMA GivenUpRight == ASSUME NEW f, IsRight(f), f.start # 0 PROVE IsRight(GivenUp(f))
<1>0. f \in FileType /\ FileRight(f)
  BY DEF IsRight
<1>1. f.meters \in Seq(Nat) /\ Len(f.meters) \in Nat
  BY <1>0, FileFields
<1>2. Await(f, -1) \in Nat
  BY <1>0, AwaitType
<1>3. CASE f.conf = AtStart
  <2> PICK g : g = GivenUp(f)
    OBVIOUS
  <2>1. PICK f1 : f1 = [f EXCEPT !.id = UnknownId]
    OBVIOUS
  <2>2. Adds(f, f1) /\ f1.start = f.start /\ f1.conf = f.conf /\ f1.await = f.await
        /\ f1.meters = f.meters
    <3>1. UnknownId \in Id
      BY DEF Id
    <3>2. Adds(f, f1) /\ f1.start = f.start /\ f1.conf = f.conf
      BY <2>1, <3>1, IdAdds
    <3>3. f1 = FileLit(f.start, f.active, UnknownId, f.await, f.conf, f.meters, f.stop)
      BY <1>0, <2>1, IdIs, Zenon
    <3>4. f1.await = f.await /\ f1.meters = f.meters
      BY <3>3 DEF FileLit
    <3> QED BY <3>2, <3>4, Zenon
  <2>3. g = [f1 EXCEPT !.conf = 1, !.await = Await(f, -1)]
    <3>1. GivenUp(f) = [f EXCEPT !.id = UnknownId, !.conf = AtMeter(1), !.await = Await(f, -1)]
      BY <1>3 DEF GivenUp
    <3>2. AtMeter(1) = 1
      BY DEF AtMeter
    <3> QED BY <2>1, <3>1, <3>2, Zenon
  <2>4. IsRight(f1) /\ f1 \in FileType
    BY <2>2 DEF Adds, IsRight
  <2>5. HasConf(g, f1, 1)
    <3>1. 1 \in Offset
      BY DEF Offset
    <3> QED BY <1>2, <2>3, <2>4, <3>1, ConfFields, Zenon
  <2>6. IsRight(g)
    <3>1. 1 \in Nat \ {0} /\ 1 <= Len(f1.meters) + 1 /\ f1.start # 0
      BY <1>1, <2>2
    <3> QED BY <2>4, <2>5, <3>1, Advanced
  <2> QED BY <2>6
<1>4. CASE f.conf = AtStop
  <2>1. GivenUp(f) = NoFile
    BY <1>4 DEF GivenUp, AtStart, AtStop
  <2> QED BY <2>1, NoFileRight
<1>5. CASE f.conf # AtStart /\ f.conf # AtStop /\ f.active
  <2> PICK g : g = GivenUp(f)
    OBVIOUS
  <2>1. PICK f1 : f1 = [f EXCEPT !.meters = <<>>, !.await = 0]
    OBVIOUS
  <2>2. f1 = FileLit(f.start, f.active, f.id, 0, f.conf, <<>>, f.stop)
    BY <1>0, <2>1, MeterIs, Zenon
  <2>3. g = [f EXCEPT !.conf = 1, !.await = 0, !.meters = <<>>]
    <3>1. GivenUp(f) = [f EXCEPT !.conf = AtMeter(1), !.await = 0, !.meters = <<>>]
      BY <1>5, Zenon DEF GivenUp
    <3>2. AtMeter(1) = 1
      BY DEF AtMeter
    <3> QED BY <3>1, <3>2, Zenon
  <2>4. PICK f2 : f2 = [f EXCEPT !.conf = 1, !.await = 0]
    OBVIOUS
  <2>5. f2 = FileLit(f.start, f.active, f.id, 0, 1, f.meters, f.stop)
    BY <1>0, <2>4, ConfIs, Zenon
  <2>6. PICK f3 : f3 = [f2 EXCEPT !.meters = <<>>]
    OBVIOUS
  <2>a. PICK a : a = f.active
    OBVIOUS
  <2>7. f2 = FileLit(f.start, a, f.id, 0, 1, f.meters, f.stop)
    BY <2>5, <2>a, Zenon
  <2>8. f3 = FileLit(f.start, a, f.id, 0, 1, <<>>, f.stop)
    BY <2>6, <2>7 DEF FileLit
  <2>9. g = FileLit(f.start, f.active, f.id, 0, 1, <<>>, f.stop)
    BY <2>3, <2>4, <2>6, <2>8, <2>a, Zenon
  <2>10. IsRight(g)
    BY <1>0, <2>9, EmptiedRight
  <2> QED BY <2>10
<1>6. CASE f.conf # AtStart /\ f.conf # AtStop /\ ~f.active
  <2> PICK g : g = GivenUp(f)
    OBVIOUS
  <2>1. g = [f EXCEPT !.conf = AtStop, !.await = 1]
    BY <1>6, Zenon DEF GivenUp
  <2>2. HasConf(g, f, AtStop)
    <3>1. AtStop \in Offset /\ 1 \in Nat
      BY DEF Offset
    <3> QED BY <1>0, <2>1, <3>1, ConfFields, Zenon
  <2>3. g \in FileType /\ g.start = f.start /\ g.active = f.active /\ g.stop = f.stop
    BY <2>2, Zenon DEF HasConf
  <2>4. FileRight(g)
    <3>1. f.stop # 0
      BY <1>0, <1>6 DEF FileRight
    <3>2. g.start # 0 /\ ~g.active /\ g.stop # 0
      BY <1>6, <2>3, <3>1
    <3> QED BY <3>2 DEF FileRight
  <2> QED BY <2>3, <2>4 DEF IsRight
<1> QED BY <1>3, <1>4, <1>5, <1>6

-----------------------------------------------------------------------------
(* The message loaded, and the next one.                                   *)

LoadedType == [data : BOOLEAN, entry : Entry \cup {NoEntry}, time : Nat, call : CallType, next : Nat]

\* What is loaded is the next message of its file.
LoadedRight(l, fs) ==
    l.data => /\ l.entry \in Entry
              /\ NextKind(fs[l.entry]) # "none"
              /\ Message(l.call) = <<NextKind(fs[l.entry]), NextNo(fs[l.entry])>>
              /\ l.next = fs[l.entry].conf + 1

FilesInv == files \in [Entry -> FileType] /\ \A e \in Entry : IsRight(files[e])

CacheInv == oldest \subseteq [entry : Entry, time : Nat]

LoadedInv == loaded \in LoadedType /\ LoadedRight(loaded, files)

RingType == [front : -1 .. QueueCap - 1, back : -1 .. QueueCap - 1, emptying : BOOLEAN,
             times : [0 .. QueueCap - 1 -> Nat]]

QueueInv == queue \in Seq(CallType) /\ \A i \in 1 .. Len(queue) : queue[i].kind = "meter"

RingInv ==
    /\ ring \in RingType /\ clock \in Nat /\ clock <= MaxNo
    /\ \A i \in 0 .. QueueCap - 1 : ring.times[i] <= clock

LoadLit(d, e, t, c, n) == [data |-> d, entry |-> e, time |-> t, call |-> c, next |-> n]

LEMMA LoadFields ==
  ASSUME NEW l \in LoadedType
  PROVE  /\ l.data \in BOOLEAN /\ l.entry \in Entry \cup {NoEntry} /\ l.time \in Nat
         /\ l.call \in CallType /\ l.next \in Nat
         /\ l = LoadLit(l.data, l.entry, l.time, l.call, l.next)
BY DEF LoadedType, LoadLit

LEMMA LitIsLoad ==
  ASSUME NEW l, NEW d, NEW e, NEW t, NEW c, NEW n, l = LoadLit(d, e, t, c, n),
         d \in BOOLEAN, e \in Entry \cup {NoEntry}, t \in Nat, c \in CallType, n \in Nat
  PROVE  l \in LoadedType
BY DEF LoadLit, LoadedType

LEMMA UnloadIs ==
  ASSUME NEW l \in LoadedType, NEW e, NEW t
  PROVE  /\ [l EXCEPT !.data = FALSE, !.entry = e, !.time = t] = LoadLit(FALSE, e, t, l.call, l.next)
         /\ [l EXCEPT !.data = FALSE, !.entry = e] = LoadLit(FALSE, e, l.time, l.call, l.next)
         /\ [l EXCEPT !.data = FALSE] = LoadLit(FALSE, l.entry, l.time, l.call, l.next)
<1>b. PICK b : b = FALSE
  OBVIOUS
<1>0. l = LoadLit(l.data, l.entry, l.time, l.call, l.next)
  BY LoadFields
<1>1a. PICK f1 : f1 = [l EXCEPT !.data = b]
  OBVIOUS
<1>1. f1 = LoadLit(b, l.entry, l.time, l.call, l.next)
  BY <1>0, <1>1a DEF LoadLit
<1>2a. PICK f2 : f2 = [f1 EXCEPT !.entry = e]
  OBVIOUS
<1>2. f2 = LoadLit(b, e, l.time, l.call, l.next)
  BY <1>1, <1>2a DEF LoadLit
<1>3a. PICK f3 : f3 = [f2 EXCEPT !.time = t]
  OBVIOUS
<1>3. f3 = LoadLit(b, e, t, l.call, l.next)
  BY <1>2, <1>3a DEF LoadLit
<1>4. [l EXCEPT !.data = FALSE] = LoadLit(FALSE, l.entry, l.time, l.call, l.next)
  BY <1>1, <1>1a, <1>b, Zenon
<1>5. [l EXCEPT !.data = FALSE, !.entry = e] = LoadLit(FALSE, e, l.time, l.call, l.next)
  BY <1>2, <1>1a, <1>2a, <1>b, Zenon
<1>6. [l EXCEPT !.data = FALSE, !.entry = e, !.time = t] = LoadLit(FALSE, e, t, l.call, l.next)
  BY <1>3, <1>1a, <1>2a, <1>3a, <1>b, Zenon
<1> QED BY <1>4, <1>5, <1>6

IsUnloaded(g, e, t) == g \in LoadedType /\ ~g.data /\ g.entry = e /\ g.time = t

LEMMA UnloadFields ==
  ASSUME NEW l \in LoadedType, NEW e \in Entry \cup {NoEntry}, NEW t \in Nat
  PROVE  IsUnloaded(LoadLit(FALSE, e, t, l.call, l.next), e, t)
<1>1. l.call \in CallType /\ l.next \in Nat /\ FALSE \in BOOLEAN
  BY LoadFields
<1>b. PICK b : b = FALSE
  OBVIOUS
<1>g. PICK g : g = LoadLit(b, e, t, l.call, l.next)
  OBVIOUS
<1>2. g \in LoadedType
  <2>1. b \in BOOLEAN
    BY <1>b
  <2> QED BY <1>1, <1>g, <2>1, LitIsLoad, Zenon
<1>4. g.data = b /\ g.entry = e /\ g.time = t
  BY <1>g DEF LoadLit
<1>5. ~g.data
  BY <1>4, <1>b, Zenon
<1>6. IsUnloaded(g, e, t)
  BY <1>2, <1>4, <1>5, Zenon DEF IsUnloaded
<1> QED BY <1>b, <1>g, <1>6, Zenon

LEMMA NoCallType == NoCall \in CallType /\ NoCall.kind = "none" /\ Message(NoCall) = <<"none", 0>>
BY DEF NoCall, Call, CallType, Kind, Id, Message

LEMMA MaxNoType == MaxNo \in Nat /\ Never \in Nat /\ Never = MaxNo + 1
BY OcppTransactionAssumption DEF Never

\* The cache holds entries of the directory, so does what it is filled from.
LEMMA OldestType ==
  ASSUME FilesInv, CacheInv
  PROVE  OldestKnown \subseteq [entry : Entry, time : Nat]
<1>1. Kept \subseteq [entry : Entry, time : Nat]
  BY DEF Kept, CacheInv
<1>2. ASSUME NEW e \in Entry PROVE Cached(e) \in [entry : Entry, time : Nat]
  <2>1. files[e].start \in Nat
    BY <1>2, FileFields DEF FilesInv
  <2> QED BY <2>1 DEF Cached
<1>3. Populated \subseteq [entry : Entry, time : Nat]
  <2> DEFINE all == {Cached(e) : e \in {x \in Entry : Exists(x)}}
  <2>1. all \subseteq [entry : Entry, time : Nat]
    BY <1>2
  <2>2. Populated \subseteq all
    BY DEF Populated
  <2> QED BY <2>1, <2>2
<1> QED BY <1>1, <1>3 DEF OldestKnown

LEMMA OldestIsEntry ==
  ASSUME FilesInv, CacheInv, OldestKnown # {}
  PROVE  OldestEntry \in Entry
<1>1. OldestKnown \subseteq [entry : Entry, time : Nat]
  BY OldestType
<1>2. PICK O : O = OldestKnown
  OBVIOUS
<1> DEFINE T == {c.time : c \in O}
<1>3. T \subseteq Nat /\ T # {}
  BY <1>1, <1>2
<1>4. PICK t \in T : \A u \in T : t <= u
  BY <1>3, LeastNumber
<1>5. PICK c \in O : c.time = t
  BY <1>4
<1>6. \A d \in O : c.time <= d.time
  BY <1>4, <1>5
<1>7. \E x \in O : \A d \in O : x.time <= d.time
  BY <1>6
<1>8. PICK o : o = CHOOSE x \in O : \A d \in O : x.time <= d.time
  OBVIOUS
<1>9. o \in O
  BY <1>7, <1>8
<1>10. OldestEntry = o.entry
  BY <1>2, <1>8, Zenon DEF OldestEntry
<1> QED BY <1>1, <1>2, <1>9, <1>10

\* What load_next_transaction_message loads is the next message of a file.
LEMMA LoadedNext ==
  ASSUME FilesInv, CacheInv, LoadedInv
  PROVE  /\ Loaded \in LoadedType
         /\ LoadedRight(Loaded, files)
         /\ Loaded.data \/ Loaded.time = Never
<1>0. loaded \in LoadedType /\ LoadedRight(loaded, files)
  BY DEF LoadedInv
<1>1. CASE loaded.data
  BY <1>0, <1>1 DEF Loaded
<1>2. ASSUME NEW e \in Entry \cup {NoEntry}, ~loaded.data, Loaded = Unloaded(e)
      PROVE  Loaded \in LoadedType /\ LoadedRight(Loaded, files) /\ Loaded.time = Never
  <2>1. Loaded = LoadLit(FALSE, e, Never, loaded.call, loaded.next)
    BY <1>0, <1>2, UnloadIs, Zenon DEF Unloaded
  <2>2. Loaded \in LoadedType /\ ~Loaded.data /\ Loaded.entry = e /\ Loaded.time = Never
    <3>1. Never \in Nat
      BY MaxNoType
    <3>2. IsUnloaded(Loaded, e, Never)
      BY <1>0, <1>2, <2>1, <3>1, UnloadFields, Zenon
    <3> QED BY <3>2 DEF IsUnloaded
  <2> QED BY <2>2 DEF LoadedRight
<1>3. CASE ~loaded.data /\ OldestKnown = {}
  <2>1. Loaded = Unloaded(NoEntry)
    BY <1>3, Zenon DEF Loaded, LoadNext
  <2> QED BY <1>2, <1>3, <2>1
<1>4. CASE ~loaded.data /\ OldestKnown # {}
  <2> PICK e : e = OldestEntry
    OBVIOUS
  <2> PICK f : f = files[e]
    OBVIOUS
  <2>1. e \in Entry /\ IsRight(f) /\ f \in FileType
    BY <1>4, OldestIsEntry DEF FilesInv
  <2>2. CASE NextKind(f) = "none"
    <3>1. Loaded = Unloaded(e)
      BY <1>4, <2>2, Zenon DEF Loaded, LoadNext
    <3> QED BY <1>2, <1>4, <2>1, <3>1
  <2>3. CASE NextKind(f) # "none"
    <3>1. NextNo(f) \in Nat /\ NextKind(f) \in {"start", "meter", "stop"} /\ f.conf + 1 \in Nat
      BY <2>1, <2>3, NextNoType
    <3>2. f.start \in Nat /\ f.id \in Id
      BY <2>1, FileFields
    <3> PICK c : c = Call(NextKind(f), f.start, NextNo(f), f.id)
      OBVIOUS
    <3>3. c \in CallType /\ Message(c) = <<NextKind(f), NextNo(f)>>
      BY <3>1, <3>2 DEF Call, CallType, Message, Kind
    <3>4. Loaded = LoadLit(TRUE, e, NextNo(f), c, f.conf + 1)
      BY <1>4, <2>3, Zenon DEF Loaded, LoadNext, LoadLit
    <3>5. Loaded \in LoadedType
      BY <2>1, <3>1, <3>3, <3>4, LitIsLoad, Zenon
    <3>b. PICK b : b = TRUE
      OBVIOUS
    <3>6. Loaded = LoadLit(b, e, NextNo(f), c, f.conf + 1)
      BY <3>4, <3>b, Zenon
    <3>7. Loaded.data = b /\ Loaded.entry = e /\ Loaded.call = c /\ Loaded.next = f.conf + 1
      BY <3>6 DEF LoadLit
    <3>8. Loaded.data
      BY <3>7, <3>b, Zenon
    <3>9. LoadedRight(Loaded, files)
      BY <2>1, <2>3, <3>3, <3>7, Zenon DEF LoadedRight
    <3> QED BY <3>5, <3>8, <3>9
  <2> QED BY <2>2, <2>3
<1> QED BY <1>1, <1>3, <1>4

LEMMA PeekBound == ASSUME RingInv PROVE PeekTime(ring) <= Never /\ PeekTime(ring) \in Nat
<1>1. ring.front \in -1 .. QueueCap - 1 /\ QueueCap \in Nat \ {0}
  BY OcppTransactionAssumption DEF RingInv, RingType
<1>2. After(ring.front) \in 0 .. QueueCap - 1
  BY <1>1 DEF After
<1>3. ring.times[After(ring.front)] \in Nat /\ ring.times[After(ring.front)] <= clock
  BY <1>2 DEF RingInv, RingType
<1>4. clock \in Nat /\ clock <= MaxNo
  BY DEF RingInv
<1> QED BY <1>3, <1>4, MaxNoType DEF PeekTime

\* A message comes from a file only when one is loaded.
LEMMA FromFileLoaded ==
  ASSUME FilesInv, CacheInv, LoadedInv, RingInv, FromFile
  PROVE  Loaded.data
<1>1. Loaded.data \/ Loaded.time = Never
  BY LoadedNext
<1>2. Loaded.time < PeekTime(ring)
  BY DEF FromFile
<1> QED BY <1>1, <1>2, PeekBound, MaxNoType

-----------------------------------------------------------------------------
(* The parts of the storage and its steps.                                 *)

LEMMA ActiveIs ==
  ASSUME Active # {}
  PROVE  ActiveEntry \in Entry /\ files[ActiveEntry].active
<1>1. ActiveEntry \in Active
  BY DEF ActiveEntry
<1> QED BY <1>1 DEF Active

LEMMA VacantIs ==
  ASSUME FilesInv, Vacant # {}
  PROVE  VacantEntry \in Entry /\ files[VacantEntry] = NoFile
<1>1. Vacant \subseteq Nat
  BY OcppTransactionAssumption DEF Vacant, Entry
<1>2. \E e \in Vacant : \A d \in Vacant : e <= d
  BY <1>1, LeastNumber
<1>3. VacantEntry \in Vacant
  BY <1>2 DEF VacantEntry
<1>4. VacantEntry \in Entry /\ files[VacantEntry].start = 0
  BY <1>3 DEF Vacant, Exists
<1> QED BY <1>4 DEF FilesInv, IsRight, FileRight

LEMMA ActiveStarted == ASSUME NEW f, IsRight(f), f.active PROVE f.start # 0
<1>1. NoFile.active = FALSE
  BY NoFileIs, FileLitActive, Zenon
<1> QED BY <1>1, Zenon DEF IsRight, FileRight

LEMMA QueuedMeters == ASSUME NEW m \in Queued PROVE m[1] = "meter"
BY DEF Queued

LEMMA SamePending == ASSUME UNCHANGED files PROVE Pending' = Pending
BY DEF Pending

LEMMA SameQueued == ASSUME UNCHANGED queue PROVE Queued' = Queued
BY DEF Queued

LEMMA SameRing == ASSUME RingInv, UNCHANGED ring, clock' \in Nat, clock <= clock', clock' <= MaxNo PROVE RingInv'
<1>1. \A i \in 0 .. QueueCap - 1 : ring.times[i] \in Nat
  BY DEF RingInv, RingType
<1>2. clock \in Nat
  BY DEF RingInv
<1>3. \A i \in 0 .. QueueCap - 1 : ring.times[i] <= clock'
  BY <1>1, <1>2 DEF RingInv
<1> QED BY <1>3 DEF RingInv

LEMMA StopActiveAdds ==
  ASSUME FilesInv, NEW n \in Nat \ {0}, NEW new, new = StopActive(n)
  PROVE  /\ new = [e \in Entry |-> new[e]]
         /\ \A e \in Entry : Adds(files[e], new[e])
         /\ Active # {} => <<"stop", n>> \in PendingIn(new[ActiveEntry])
         /\ \A e \in Entry : (Active = {} \/ e # ActiveEntry) => new[e] = files[e]
<1>1. files = [e \in Entry |-> files[e]] /\ \A e \in Entry : IsRight(files[e])
  BY DEF FilesInv
<1>2. CASE Active = {}
  <2>1. new = files
    BY <1>2 DEF StopActive
  <2> QED BY <1>1, <1>2, <2>1, AddsNothing
<1>3. CASE Active # {}
  <2> PICK a : a = ActiveEntry
    OBVIOUS
  <2>1. a \in Entry /\ files[a].active
    BY <1>3, ActiveIs
  <2>2. new = [files EXCEPT ![a] = Stopped(files[a], n)]
    BY <1>3, Zenon DEF StopActive
  <2>3. new = [e \in Entry |-> IF e = a THEN Stopped(files[a], n) ELSE files[e]]
    BY <1>1, <2>2
  <2>4. Adds(files[a], Stopped(files[a], n)) /\ <<"stop", n>> \in PendingIn(Stopped(files[a], n))
    BY <1>1, <2>1, StoppedAdds
  <2>5. new[a] = Stopped(files[a], n) /\ \A e \in Entry : e # a => new[e] = files[e]
    BY <2>1, <2>3
  <2>6. new = [e \in Entry |-> new[e]]
    BY <2>3
  <2>7. \A e \in Entry : Adds(files[e], new[e])
    <3> TAKE e \in Entry
    <3>1. CASE e = a
      BY <2>4, <2>5, <3>1
    <3>2. CASE e # a
      BY <1>1, <2>5, <3>2, AddsNothing
    <3> QED BY <3>1, <3>2
  <2>8. <<"stop", n>> \in PendingIn(new[ActiveEntry])
    BY <2>4, <2>5, Zenon
  <2>9. \A e \in Entry : (Active = {} \/ e # ActiveEntry) => new[e] = files[e]
    BY <1>3, <2>5, Zenon
  <2> QED BY <2>6, <2>7, <2>8, <2>9, Zenon
<1> QED BY <1>2, <1>3

LEMMA AfterType == ASSUME NEW i \in -1 .. QueueCap - 1 PROVE After(i) \in 0 .. QueueCap - 1
BY OcppTransactionAssumption DEF After

LEMMA TimeSet ==
  ASSUME RingInv, ring' = SetTime(ring, clock'), clock' \in Nat, clock <= clock', clock' <= MaxNo
  PROVE  RingInv'
<1> PICK n : n = clock'
  OBVIOUS
<1> PICK b : b = FALSE
  OBVIOUS
<1>0. ring \in RingType /\ n \in Nat /\ clock \in Nat /\ clock <= n
  BY DEF RingInv
<1>1. ring.back \in -1 .. QueueCap - 1
  BY <1>0 DEF RingType
<1> PICK k : k = After(ring.back)
  OBVIOUS
<1>2. k \in 0 .. QueueCap - 1 /\ k \in -1 .. QueueCap - 1
  BY <1>1, AfterType
<1> PICK r1 : r1 = [ring EXCEPT !.emptying = b]
  OBVIOUS
<1>3. r1 \in RingType /\ r1.times = ring.times /\ r1.back = ring.back
  BY <1>0 DEF RingType
<1> PICK r2 : r2 = [r1 EXCEPT !.back = k]
  OBVIOUS
<1>4. r2 \in RingType /\ r2.times = ring.times
  BY <1>2, <1>3 DEF RingType
<1> PICK t : t = [ring.times EXCEPT ![k] = n]
  OBVIOUS
<1>5. t \in [0 .. QueueCap - 1 -> Nat] /\ \A i \in 0 .. QueueCap - 1 : t[i] <= n
  <2>1. ring.times \in [0 .. QueueCap - 1 -> Nat]
    BY <1>0 DEF RingType
  <2>2. \A i \in 0 .. QueueCap - 1 : ring.times[i] <= clock
    BY DEF RingInv
  <2>3. t = [i \in 0 .. QueueCap - 1 |-> IF i = k THEN n ELSE ring.times[i]]
    BY <2>1
  <2>4. t \in [0 .. QueueCap - 1 -> Nat]
    BY <1>0, <2>1, <2>3
  <2>5. ASSUME NEW i \in 0 .. QueueCap - 1 PROVE t[i] <= n
    <3>1. ring.times[i] \in Nat /\ ring.times[i] <= clock
      BY <2>1, <2>2
    <3>2. t[i] = IF i = k THEN n ELSE ring.times[i]
      BY <2>3
    <3> QED BY <1>0, <3>1, <3>2
  <2> QED BY <2>4, <2>5
<1> PICK r3 : r3 = [r2 EXCEPT !.times = t]
  OBVIOUS
<1>6. r3 \in RingType /\ r3.times = t
  BY <1>4, <1>5 DEF RingType
<1>7. ring' = r3
  <2>1. ring' = [ring EXCEPT !.emptying = FALSE, !.back = After(@), !.times[After(ring.back)] = n]
    BY Zenon DEF SetTime
  <2>2. r2 = [ring EXCEPT !.emptying = FALSE, !.back = After(@)]
    BY <1>3, Zenon
  <2>3. r3 = [r2 EXCEPT !.times[k] = n]
    BY <1>4, Zenon
  <2> QED BY <2>1, <2>2, <2>3, Zenon
<1> QED BY <1>0, <1>5, <1>6, <1>7 DEF RingInv

LEMMA CacheKeeps ==
  ASSUME FilesInv, CacheInv, oldest' = IF loaded.data THEN oldest ELSE OldestKnown
  PROVE  CacheInv'
BY OldestType DEF CacheInv

LEMMA TimeGot ==
  ASSUME RingInv, ring' = GetTime(ring), UNCHANGED clock
  PROVE  RingInv'
<1> PICK b : b = TRUE
  OBVIOUS
<1>0. ring \in RingType
  BY DEF RingInv
<1>1. ring.front \in -1 .. QueueCap - 1
  BY <1>0 DEF RingType
<1> PICK k : k = After(ring.front)
  OBVIOUS
<1>2. k \in -1 .. QueueCap - 1
  BY <1>1, AfterType
<1> PICK r1 : r1 = [ring EXCEPT !.emptying = b]
  OBVIOUS
<1>3. r1 \in RingType /\ r1.times = ring.times /\ r1.front = ring.front
  BY <1>0 DEF RingType
<1> PICK r2 : r2 = [r1 EXCEPT !.front = k]
  OBVIOUS
<1>4. r2 \in RingType /\ r2.times = ring.times
  BY <1>2, <1>3 DEF RingType
<1>5. ring' = r2
  BY <1>3, Zenon DEF GetTime
<1> QED BY <1>4, <1>5 DEF RingInv

LEMMA NoQueue == ASSUME queue' = <<>> PROVE QueueInv'
<1>1. <<>> \in Seq(CallType) /\ Len(<<>>) = 0
  OBVIOUS
<1> QED BY <1>1 DEF QueueInv

LEMMA NothingLoadedRight == IsUnloaded(NothingLoaded, NoEntry, Never)
<1> PICK b : b = FALSE
  OBVIOUS
<1> PICK l : l = LoadLit(b, NoEntry, Never, NoCall, 0)
  OBVIOUS
<1>1. l \in LoadedType
  <2>1. b \in BOOLEAN
    OBVIOUS
  <2>2. NoEntry \in Entry \cup {NoEntry} /\ Never \in Nat /\ NoCall \in CallType /\ 0 \in Nat
    BY MaxNoType, NoCallType
  <2> QED BY <2>1, <2>2, LitIsLoad, Zenon
<1>2. l.data = b /\ l.entry = NoEntry /\ l.time = Never
  BY DEF LoadLit
<1>3. ~l.data
  BY <1>2, Zenon
<1>4. NothingLoaded = l
  <2>1. AtStart = 0
    BY DEF AtStart
  <2> QED BY <2>1, Zenon DEF NothingLoaded, LoadLit
<1> QED BY <1>1, <1>2, <1>3, <1>4, Zenon DEF IsUnloaded

LEMMA EmptyRingRight ==
  EmptyRing \in RingType /\ \A i \in 0 .. QueueCap - 1 : EmptyRing.times[i] = 0
<1>1. QueueCap \in Nat \ {0}
  BY OcppTransactionAssumption
<1>2. -1 \in -1 .. QueueCap - 1
  BY <1>1
<1> PICK b : b = TRUE
  OBVIOUS
<1> PICK r : r = [front |-> -1, back |-> -1, emptying |-> b, times |-> [i \in 0 .. QueueCap - 1 |-> 0]]
  OBVIOUS
<1>3. r \in RingType /\ \A i \in 0 .. QueueCap - 1 : r.times[i] = 0
  BY <1>2 DEF RingType
<1>4. EmptyRing = r
  BY Zenon DEF EmptyRing
<1> QED BY <1>3, <1>4

LEMMA BootKeeps ==
  ASSUME Booted, FilesInv, RingInv
  PROVE  FilesInv' /\ CacheInv' /\ LoadedInv' /\ QueueInv' /\ RingInv' /\ Pending' = Pending
<1>1. /\ oldest' = {} /\ loaded' = NothingLoaded /\ queue' = <<>> /\ ring' = EmptyRing
      /\ UNCHANGED <<files, clock>>
  BY DEF Booted
<1>2. LoadedInv'
  BY <1>1, NothingLoadedRight, Zenon DEF IsUnloaded, LoadedInv, LoadedRight
<1>3. RingInv'
  BY <1>1, EmptyRingRight DEF RingInv
<1>4. QueueInv'
  BY <1>1, NoQueue
<1> QED BY <1>1, <1>2, <1>3, <1>4, SamePending DEF FilesInv, CacheInv

-----------------------------------------------------------------------------
(* The numbers in a file, and the count in its header.                     *)

Waiting(f) == (IF f.conf = AtStart THEN 1 ELSE 0)
              + (Len(f.meters) + 1 - FirstMeter(f))
              + (IF f.stop = 0 THEN 0 ELSE 1)

\* The messages of a file are numbered in its order, up to n.
Ordered(f, n) ==
    /\ f.start <= n
    /\ \A i \in 1 .. Len(f.meters) :
         f.start < f.meters[i] /\ f.meters[i] <= n /\ (f.stop # 0 => f.meters[i] < f.stop)
    /\ \A i, j \in 1 .. Len(f.meters) : i < j => f.meters[i] < f.meters[j]
    /\ f.stop # 0 => f.start < f.stop /\ f.stop <= n

\* The header counts what waits in the file.
Counted(f) ==
    /\ f.conf <= Len(f.meters) + 1
    /\ f.start # 0 => f.await = Waiting(f)

Tidy(f, n) == IsRight(f) /\ Ordered(f, n) /\ Counted(f)

Numbers(f) == {f.start, f.stop} \cup {f.meters[i] : i \in 1 .. Len(f.meters)}

\* The fields of a file but the flag and the id.
Fields(g, s, w, c, m, p) ==
    g.start = s /\ g.await = w /\ g.conf = c /\ g.meters = m /\ g.stop = p

LEMMA LitFields ==
  ASSUME NEW g, NEW s, NEW a, NEW i, NEW w, NEW c, NEW m, NEW p,
         g = FileLit(s, a, i, w, c, m, p)
  PROVE  Fields(g, s, w, c, m, p)
BY DEF FileLit, Fields

LEMMA LitId ==
  ASSUME NEW g, NEW s, NEW a, NEW i, NEW w, NEW c, NEW m, NEW p,
         g = FileLit(s, a, i, w, c, m, p)
  PROVE  g.id = i
BY DEF FileLit

LEMMA OrderedLater ==
  ASSUME NEW f \in FileType, NEW n \in Nat, NEW k \in Nat, n <= k, Ordered(f, n)
  PROVE  Ordered(f, k)
<1>1. f.start \in Nat /\ f.stop \in Nat /\ f.meters \in Seq(Nat)
  BY FileFields
<1>2. \A i \in 1 .. Len(f.meters) : f.meters[i] \in Nat
  BY <1>1
<1> QED BY <1>1, <1>2 DEF Ordered

LEMMA TidyLater ==
  ASSUME NEW f, NEW n \in Nat, NEW k \in Nat, n <= k, Tidy(f, n)
  PROVE  Tidy(f, k)
BY OrderedLater DEF Tidy, IsRight

\* The same numbers, with fewer meter values at most.
LEMMA OrderedSame ==
  ASSUME NEW f, NEW n, NEW g, NEW w, NEW c, Ordered(f, n), Fields(g, f.start, w, c, f.meters, f.stop)
  PROVE  Ordered(g, n)
BY DEF Ordered, Fields

LEMMA OrderedEmptied ==
  ASSUME NEW f, NEW n, NEW g, NEW w, NEW c, Ordered(f, n), Fields(g, f.start, w, c, <<>>, f.stop)
  PROVE  Ordered(g, n)
<1>1. g.meters = <<>> /\ 1 .. Len(<<>>) = {}
  BY DEF Fields
<1> QED BY <1>1 DEF Ordered, Fields

LEMMA NoFileTidy == ASSUME NEW n \in Nat PROVE Tidy(NoFile, n)
<1>1. Fields(NoFile, 0, 0, 0, <<>>, 0)
  BY DEF NoFile, AtStart, Fields
<1>2. 1 .. Len(<<>>) = {} /\ Len(<<>>) = 0
  OBVIOUS
<1>3. Ordered(NoFile, n) /\ Counted(NoFile)
  BY <1>1, <1>2 DEF Ordered, Counted, Fields
<1> QED BY <1>3, NoFileRight DEF Tidy

LEMMA StartedTidy == ASSUME NEW n \in Nat \ {0} PROVE Tidy(Started(n), n)
<1> PICK g : g = Started(n)
  OBVIOUS
<1>1. g = FileLit(n, TRUE, UnknownId, 1, AtStart, <<>>, 0)
  BY StartedIs, Zenon
<1>2. Fields(g, n, 1, AtStart, <<>>, 0)
  BY <1>1, LitFields, Zenon
<1>3. 1 .. Len(<<>>) = {} /\ Len(<<>>) = 0
  OBVIOUS
<1>4. Ordered(g, n)
  BY <1>2, <1>3 DEF Ordered, Fields
<1>5. Counted(g)
  BY <1>2, <1>3 DEF Counted, Fields, Waiting, FirstMeter, AtStart
<1>6. IsRight(g)
  BY StartedAdds DEF Adds
<1> QED BY <1>4, <1>5, <1>6, Zenon DEF Tidy

LEMMA StoppedTidy ==
  ASSUME NEW f, NEW n \in Nat, NEW k \in Nat, n < k, Tidy(f, n), f.active
  PROVE  /\ Tidy(Stopped(f, k), k)
         /\ f.start # 0 /\ f.stop = 0
         /\ Numbers(Stopped(f, k)) \subseteq Numbers(f) \cup {k}
         /\ Stopped(f, k).stop = k
<1> PICK g : g = Stopped(f, k)
  OBVIOUS
<1>0. f \in FileType /\ FileRight(f) /\ Ordered(f, n) /\ Counted(f)
  BY DEF Tidy, IsRight
<1>1. f.start # 0 /\ f.stop = 0
  BY <1>0, ActiveStarted DEF FileRight, IsRight
<1>2. f.start \in Nat /\ f.await \in Nat /\ f.meters \in Seq(Nat) /\ f.conf \in Nat \cup {-1} /\ Len(f.meters) \in Nat
  BY <1>0, FileFields DEF Offset, AtStop
<1>w. PICK w : w = f.await + 1
  OBVIOUS
<1>3. Await(f, 1) = w
  BY <1>2, <1>w DEF Await
<1>4. g = FileLit(f.start, FALSE, f.id, w, f.conf, f.meters, k)
  BY <1>0, <1>3, StoppedIs, Zenon
<1>5. Fields(g, f.start, w, f.conf, f.meters, k)
  BY <1>4, LitFields, Zenon
<1>6. Ordered(g, k)
  <2>1. \A i \in 1 .. Len(f.meters) : f.meters[i] \in Nat
    BY <1>2
  <2> QED BY <1>0, <1>1, <1>2, <1>5, <2>1 DEF Ordered, Fields
<1>7. Counted(g)
  <2>1. f.await = Waiting(f)
    BY <1>0, <1>1 DEF Counted
  <2>2. FirstMeter(g) = FirstMeter(f) /\ FirstMeter(f) \in Int
    BY <1>2, <1>5 DEF FirstMeter, Fields, AtStart, AtStop
  <2>3. Waiting(g) = Waiting(f) + 1
    BY <1>1, <1>2, <1>5, <2>2 DEF Waiting, Fields, AtStart
  <2> QED BY <1>0, <1>5, <1>w, <2>1, <2>3 DEF Counted, Fields
<1>8. IsRight(g)
  <2>1. k \in Nat \ {0} /\ IsRight(f)
    BY DEF Tidy
  <2> QED BY <2>1, StoppedAdds DEF Adds
<1>9. Numbers(g) \subseteq Numbers(f) \cup {k} /\ g.stop = k
  BY <1>5 DEF Numbers, Fields
<1> QED BY <1>1, <1>6, <1>7, <1>8, <1>9, Zenon DEF Tidy

\* A file that has got a younger message.
Extends(g, f, k) == Ordered(g, k) /\ Counted(g) /\ Numbers(g) \subseteq Numbers(f) \cup {k}

LEMMA MeterOrdered ==
  ASSUME NEW f, NEW n \in Nat, NEW k \in Nat, n < k, Ordered(f, n), Counted(f),
         f.start # 0, f.stop = 0, f.conf # AtStop, f.start \in Nat, f.await \in Nat,
         f.meters \in Seq(Nat), f.conf \in Nat, NEW w, w = f.await + 1,
         NEW m, m = Append(f.meters, k), NEW g, Fields(g, f.start, w, f.conf, m, f.stop)
  PROVE  Extends(g, f, k)
<1> PICK l : l = Len(f.meters)
  OBVIOUS
<1>1. /\ l \in Nat /\ m \in Seq(Nat) /\ Len(m) = l + 1 /\ m[l + 1] = k
      /\ \A i \in 1 .. l : m[i] = f.meters[i] /\ f.meters[i] \in Nat
  OBVIOUS
<1>2. \A i \in 1 .. l + 1 : i = l + 1 \/ i \in 1 .. l
  BY <1>1
<1>3. g.start = f.start /\ g.meters = m /\ g.stop = 0 /\ g.conf = f.conf /\ g.await = f.await + 1
  BY DEF Fields
<1>4. \A i \in 1 .. l : f.start < f.meters[i] /\ f.meters[i] <= n
  BY DEF Ordered
<1>5. f.start <= n /\ \A i, j \in 1 .. l : i < j => f.meters[i] < f.meters[j]
  BY DEF Ordered
<1>6. Ordered(g, k)
  <2>1. ASSUME NEW i \in 1 .. l + 1 PROVE f.start < m[i] /\ m[i] <= k
    <3>1. CASE i = l + 1
      BY <1>1, <1>5, <3>1
    <3>2. CASE i \in 1 .. l
      BY <1>1, <1>4, <3>2
    <3> QED BY <1>2, <3>1, <3>2
  <2>2. ASSUME NEW i \in 1 .. l + 1, NEW j \in 1 .. l + 1, i < j PROVE m[i] < m[j]
    <3>1. i \in 1 .. l
      BY <1>1, <2>2
    <3>2. m[i] = f.meters[i] /\ f.meters[i] \in Nat /\ f.meters[i] <= n
      BY <1>1, <1>4, <3>1
    <3>3. CASE j = l + 1
      BY <1>1, <3>2, <3>3
    <3>4. CASE j \in 1 .. l
      <4>1. m[j] = f.meters[j]
        BY <1>1, <3>4
      <4>2. f.meters[i] < f.meters[j]
        BY <1>5, <2>2, <3>1, <3>4
      <4> QED BY <3>2, <4>1, <4>2
    <3> QED BY <1>2, <3>3, <3>4
  <2>3. f.start <= k
    BY <1>5
  <2> QED BY <1>1, <1>3, <2>1, <2>2, <2>3 DEF Ordered
<1>7. Counted(g)
  <2>1. f.await = Waiting(f) /\ f.conf <= l + 1
    BY DEF Counted
  <2>2. FirstMeter(g) = FirstMeter(f) /\ FirstMeter(f) \in Int
    BY <1>3 DEF FirstMeter, AtStart, AtStop
  <2>3. Waiting(g) = Waiting(f) + 1
    BY <1>1, <1>3, <2>2 DEF Waiting, AtStart
  <2>4. g.conf <= Len(g.meters) + 1
    BY <1>1, <1>3, <2>1
  <2> QED BY <1>3, <2>1, <2>3, <2>4 DEF Counted
<1>8. Numbers(g) \subseteq Numbers(f) \cup {k}
  <2>1. \A i \in 1 .. Len(m) : m[i] = k \/ \E j \in 1 .. l : m[i] = f.meters[j]
    BY <1>1, <1>2
  <2> QED BY <1>3, <2>1 DEF Numbers
<1> QED BY <1>6, <1>7, <1>8 DEF Extends

Metered(g, f, k) ==
    Tidy(g, k) /\ Numbers(g) \subseteq Numbers(f) \cup {k} /\ g.stop = f.stop /\ g.start = f.start

LEMMA MeterTidy ==
  ASSUME NEW f, NEW n \in Nat, NEW k \in Nat, n < k, Tidy(f, n), f.active,
         NEW g, g = [f EXCEPT !.meters = Append(f.meters, k), !.await = Await(f, 1)]
  PROVE  Metered(g, f, k)
<1>0. f \in FileType /\ FileRight(f) /\ Ordered(f, n) /\ Counted(f) /\ IsRight(f)
  BY DEF Tidy, IsRight
<1>1. f.start # 0 /\ f.stop = 0 /\ f.conf # AtStop
  BY <1>0, ActiveStarted DEF FileRight
<1>2. f.start \in Nat /\ f.await \in Nat /\ f.meters \in Seq(Nat) /\ f.conf \in Nat
  BY <1>0, <1>1, FileFields DEF Offset
<1>w. PICK w : w = f.await + 1
  OBVIOUS
<1>m. PICK m : m = Append(f.meters, k)
  OBVIOUS
<1>3. Await(f, 1) = w
  BY <1>2, <1>w DEF Await
<1>4. g = FileLit(f.start, f.active, f.id, w, f.conf, m, f.stop)
  BY <1>0, <1>3, <1>m, MeterIs, Zenon
<1>5. Fields(g, f.start, w, f.conf, m, f.stop)
  BY <1>4, LitFields, Zenon
<1>6. Ordered(g, k) /\ Counted(g) /\ Numbers(g) \subseteq Numbers(f) \cup {k}
  <2>1. Extends(g, f, k)
    BY <1>0, <1>1, <1>2, <1>w, <1>m, <1>5, MeterOrdered, Zenon
  <2> QED BY <2>1, Zenon DEF Extends
<1>7. IsRight(g)
  BY <1>0, MeterAdds DEF Adds
<1>8. g.stop = f.stop /\ g.start = f.start
  BY <1>5, Zenon DEF Fields
<1> QED BY <1>6, <1>7, <1>8, Zenon DEF Tidy, Metered

LEMMA IdTidy ==
  ASSUME NEW f, NEW n \in Nat, Tidy(f, n), f.start # 0, NEW i \in Id, NEW g, g = [f EXCEPT !.id = i]
  PROVE  Tidy(g, n) /\ Numbers(g) = Numbers(f) /\ g.stop = f.stop /\ g.start = f.start
<1>0. f \in FileType /\ Ordered(f, n) /\ Counted(f) /\ IsRight(f)
  BY DEF Tidy, IsRight
<1>1. g = FileLit(f.start, f.active, i, f.await, f.conf, f.meters, f.stop)
  BY <1>0, IdIs, Zenon
<1>2. Fields(g, f.start, f.await, f.conf, f.meters, f.stop)
  BY <1>1, LitFields, Zenon
<1>3. Counted(g) /\ Numbers(g) = Numbers(f) /\ g.stop = f.stop /\ g.start = f.start
  <2>1. FirstMeter(g) = FirstMeter(f)
    BY <1>2 DEF Fields, FirstMeter
  <2>2. Waiting(g) = Waiting(f)
    BY <1>2, <2>1 DEF Waiting, Fields
  <2> QED BY <1>0, <1>2, <2>2 DEF Counted, Numbers, Fields
<1>4. IsRight(g)
  BY <1>0, IdAdds DEF Adds
<1> QED BY <1>0, <1>2, <1>3, <1>4, OrderedSame DEF Tidy

-----------------------------------------------------------------------------
(* The first message of a file, and the file without it.                   *)

LEMMA FileNumbers ==
  ASSUME NEW f, NEW n \in Nat, Tidy(f, n)
  PROVE  /\ f.start \in Nat /\ f.stop \in Nat /\ f.await \in Nat /\ f.meters \in Seq(Nat)
         /\ Len(f.meters) \in Nat /\ \A i \in 1 .. Len(f.meters) : f.meters[i] \in Nat
         /\ f.conf \in Nat \cup {-1} /\ f.conf <= Len(f.meters) + 1
         /\ FirstMeter(f) \in Nat \ {0} /\ FirstMeter(f) <= Len(f.meters) + 1
<1>1. f \in FileType /\ f.conf <= Len(f.meters) + 1
  BY DEF Tidy, IsRight, Counted
<1>2. f.start \in Nat /\ f.stop \in Nat /\ f.await \in Nat /\ f.meters \in Seq(Nat)
      /\ f.conf \in Nat \cup {-1}
  BY <1>1, FileFields DEF Offset, AtStop
<1>3. Len(f.meters) \in Nat /\ \A i \in 1 .. Len(f.meters) : f.meters[i] \in Nat
  BY <1>2
<1> QED BY <1>1, <1>2, <1>3 DEF FirstMeter, AtStart, AtStop

LEMMA PendingNumbers ==
  ASSUME NEW f, NEW n \in Nat, Tidy(f, n), NEW m \in PendingIn(f)
  PROVE  /\ m[1] \in {"start", "meter", "stop"} /\ m = <<m[1], m[2]>>
         /\ m[2] \in Numbers(f) /\ m[2] \in Nat \ {0} /\ f.start <= m[2] /\ m[2] <= n
<1>1. Ordered(f, n)
  BY DEF Tidy
<1>2. CASE m = <<"start", f.start>> /\ f.start # 0
  BY <1>1, <1>2, FileNumbers DEF Ordered, Numbers
<1>3. CASE m = <<"stop", f.stop>> /\ f.stop # 0
  BY <1>1, <1>3, FileNumbers DEF Ordered, Numbers
<1>4. CASE \E i \in FirstMeter(f) .. Len(f.meters) : m = <<"meter", f.meters[i]>>
  <2>1. PICK i \in FirstMeter(f) .. Len(f.meters) : m = <<"meter", f.meters[i]>>
    BY <1>4
  <2>2. i \in 1 .. Len(f.meters)
    BY FileNumbers
  <2>3. f.start < f.meters[i] /\ f.meters[i] <= n /\ f.meters[i] \in Nat /\ f.start \in Nat
    BY <1>1, <2>2, FileNumbers DEF Ordered
  <2> QED BY <2>1, <2>2, <2>3 DEF Numbers
<1> QED BY <1>2, <1>3, <1>4, PendingAre

\* What load_next_transaction_message takes from a file is its oldest message,
\* and it takes nothing only when the file has none.
LEMMA NextFirst ==
  ASSUME NEW f, NEW n \in Nat, Tidy(f, n), f.start # 0
  PROVE  /\ NextKind(f) # "none" =>
              /\ <<NextKind(f), NextNo(f)>> \in PendingIn(f)
              /\ \A m \in PendingIn(f) : NextNo(f) <= m[2]
         /\ NextKind(f) = "none" => PendingIn(f) = {} /\ f.stop = 0
<1> PICK l : l = Len(f.meters)
  OBVIOUS
<1>0. Ordered(f, n) /\ Counted(f) /\ IsRight(f) /\ FileRight(f)
  BY DEF Tidy, IsRight
<1>1. CASE NextKind(f) = "start" /\ f.conf = 0
  <2>1. NextNo(f) = f.start
    BY <1>1 DEF NextNo
  <2>2. <<"start", f.start>> \in PendingIn(f)
    BY <1>1, PendingAre DEF AtStart
  <2>3. \A m \in PendingIn(f) : f.start <= m[2]
    BY PendingNumbers
  <2> QED BY <1>1, <2>1, <2>2, <2>3
<1>2. CASE NextKind(f) = "meter" /\ f.conf \in 1 .. Len(f.meters)
  <2>1. NextNo(f) = f.meters[f.conf] /\ FirstMeter(f) = f.conf
    BY <1>2 DEF NextNo, FirstMeter, AtStart, AtStop
  <2>2. f.conf \in FirstMeter(f) .. Len(f.meters)
    BY <1>2, <2>1
  <2>3. <<"meter", NextNo(f)>> \in PendingIn(f)
    BY <2>1, <2>2, PendingAre
  <2>4. ASSUME NEW m \in PendingIn(f) PROVE NextNo(f) <= m[2]
    <3>1. CASE m = <<"start", f.start>> /\ f.conf = AtStart
      BY <1>2, <3>1 DEF AtStart
    <3>2. CASE m = <<"stop", f.stop>> /\ f.stop # 0
      <4>1. f.meters[f.conf] < f.stop /\ f.meters[f.conf] \in Nat /\ f.stop \in Nat
        BY <1>0, <1>2, <3>2, FileNumbers DEF Ordered
      <4> QED BY <2>1, <3>2, <4>1
    <3>3. CASE \E i \in FirstMeter(f) .. Len(f.meters) : m = <<"meter", f.meters[i]>>
      <4>1. PICK i \in FirstMeter(f) .. Len(f.meters) : m = <<"meter", f.meters[i]>>
        BY <3>3
      <4>2. i = f.conf \/ f.conf < i
        BY <1>2, <2>1
      <4>3. i \in 1 .. Len(f.meters) /\ f.meters[i] \in Nat /\ f.meters[f.conf] \in Nat
        BY <1>2, FileNumbers
      <4>4. f.conf < i => f.meters[f.conf] < f.meters[i]
        BY <1>0, <1>2, <4>3 DEF Ordered
      <4>5. NextNo(f) <= f.meters[i]
        BY <2>1, <4>2, <4>3, <4>4
      <4> QED BY <4>1, <4>5
    <3> QED BY <3>1, <3>2, <3>3, PendingAre
  <2> QED BY <1>2, <2>3, <2>4
<1>3. CASE NextKind(f) = "stop" /\ f.stop # 0 /\ f.conf # 0 /\ (f.conf = AtStop \/ f.conf > Len(f.meters))
  <2>1. NextNo(f) = f.stop /\ <<"stop", f.stop>> \in PendingIn(f)
    BY <1>3, PendingAre DEF NextNo
  <2>2. FirstMeter(f) > Len(f.meters) /\ f.conf # AtStart
    BY <1>3, FileNumbers DEF FirstMeter, AtStart, AtStop
  <2>3. ASSUME NEW m \in PendingIn(f) PROVE m = <<"stop", f.stop>>
    <3>1. ~ \E i \in FirstMeter(f) .. Len(f.meters) : m = <<"meter", f.meters[i]>>
      BY <2>2, FileNumbers
    <3> QED BY <2>2, <2>3, <3>1, PendingAre, Zenon
  <2>4. ASSUME NEW m \in PendingIn(f) PROVE NextNo(f) <= m[2]
    BY <2>1, <2>3, FileNumbers
  <2> QED BY <1>3, <2>1, <2>4
<1>4. CASE NextKind(f) = "none"
  <2>1. f.await = 0 \/ (f.conf # AtStart /\ ~(f.conf # AtStop /\ f.conf <= Len(f.meters)) /\ f.active)
    BY <1>4 DEF NextKind
  <2>2. f.await = Waiting(f)
    BY <1>0 DEF Counted
  <2>3. f.conf # AtStart /\ FirstMeter(f) > Len(f.meters) /\ f.stop = 0
    <3>1. CASE f.await = 0
      BY <2>2, <3>1, FileNumbers DEF Waiting
    <3>2. CASE f.conf # AtStart /\ ~(f.conf # AtStop /\ f.conf <= Len(f.meters)) /\ f.active
      <4>1. f.stop = 0
        BY <1>0, <3>2 DEF FileRight
      <4>2. FirstMeter(f) > Len(f.meters)
        BY <3>2, FileNumbers DEF FirstMeter
      <4> QED BY <3>2, <4>1, <4>2
    <3> QED BY <2>1, <3>1, <3>2
  <2>4. ASSUME NEW m \in PendingIn(f) PROVE FALSE
    <3>1. ~ \E i \in FirstMeter(f) .. Len(f.meters) : m = <<"meter", f.meters[i]>>
      BY <2>3, FileNumbers
    <3> QED BY <2>3, <2>4, <3>1, PendingAre, Zenon
  <2> QED BY <1>4, <2>3, <2>4
<1> QED BY <1>0, <1>1, <1>2, <1>3, <1>4, NextKinds

\* A file of which messages have been settled or given up.
Less(g, f, n) ==
    /\ Tidy(g, n)
    /\ Numbers(g) \subseteq Numbers(f) \cup {0}
    /\ PendingIn(g) \subseteq PendingIn(f)
    /\ g = NoFile \/ (g.start = f.start /\ g.stop = f.stop)

LEMMA NoFileLess == ASSUME NEW f, NEW n \in Nat PROVE Less(NoFile, f, n)
<1>1. Tidy(NoFile, n) /\ PendingIn(NoFile) = {}
  BY NoFileTidy, NoFileRight
<1>2. Numbers(NoFile) \subseteq {0}
  <2>1. Fields(NoFile, 0, 0, 0, <<>>, 0) /\ 1 .. Len(<<>>) = {}
    BY DEF NoFile, AtStart, Fields
  <2> QED BY <2>1 DEF Fields, Numbers
<1> QED BY <1>1, <1>2 DEF Less

\* The count of a file that has a first meter value and perhaps a stop.
LEMMA WaitingIs ==
  ASSUME NEW f, NEW l, l = Len(f.meters), NEW a, a = FirstMeter(f), NEW p, p = f.stop,
         l \in Nat, a \in Nat
  PROVE  /\ f.conf # AtStart /\ p = 0 => Waiting(f) = l + 1 - a
         /\ f.conf # AtStart /\ p # 0 => Waiting(f) = l + 1 - a + 1
         /\ f.conf = AtStart /\ p = 0 => Waiting(f) = 1 + (l + 1 - a)
         /\ f.conf = AtStart /\ p # 0 => Waiting(f) = 1 + (l + 1 - a) + 1
BY DEF Waiting

\* The next message is not a stop: the offset moves past it.
LEMMA PastLess ==
  ASSUME NEW f, NEW n \in Nat, Tidy(f, n), f.start # 0, f.conf \in 0 .. Len(f.meters),
         NEW c, c = f.conf + 1, NEW w, w = f.await - 1, NEW g, IsRight(g),
         Fields(g, f.start, w, c, f.meters, f.stop)
  PROVE  /\ Less(g, f, n)
         /\ f.conf = 0 => <<"start", f.start>> \notin PendingIn(g)
         /\ f.conf # 0 => <<"meter", f.meters[f.conf]>> \notin PendingIn(g)
<1>0. Ordered(f, n) /\ Counted(f)
  BY DEF Tidy
<1>1. g.start = f.start /\ g.await = w /\ g.conf = c /\ g.meters = f.meters /\ g.stop = f.stop
  BY DEF Fields
<1> PICK l : l = Len(f.meters)
  OBVIOUS
<1>2. l \in Nat /\ f.await \in Nat /\ c \in 1 .. l + 1 /\ c # AtStart /\ c # AtStop
  BY FileNumbers DEF AtStart, AtStop
<1>3. Ordered(g, n)
  BY <1>0, OrderedSame
<1>4. FirstMeter(g) = c /\ FirstMeter(f) = IF f.conf = 0 THEN 1 ELSE f.conf
  BY <1>1, <1>2 DEF FirstMeter, AtStart, AtStop
<1>5. Counted(g)
  <2>1. f.await = Waiting(f)
    BY <1>0 DEF Counted
  <2>2. Waiting(g) = Waiting(f) - 1
    <3>1. g.conf # AtStart /\ (f.conf = AtStart <=> f.conf = 0) /\ f.conf \in Nat
      BY <1>1, <1>2 DEF AtStart
    <3> PICK p : p = f.stop
      OBVIOUS
    <3> PICK a : a = FirstMeter(f)
      OBVIOUS
    <3>2. a \in Nat /\ (f.conf = 0 => a = 1) /\ (f.conf # 0 => a = f.conf)
      BY <1>4, <3>1
    <3>3. /\ p = 0 => Waiting(g) = l + 1 - c
          /\ p # 0 => Waiting(g) = l + 1 - c + 1
      <4>1. Len(g.meters) = l /\ FirstMeter(g) = c /\ g.conf # AtStart /\ g.stop = p
        BY <1>1, <1>4, <3>1
      <4> QED BY ONLY <1>2, <4>1 DEF Waiting
    <3>4. /\ f.conf # 0 /\ p = 0 => Waiting(f) = l + 1 - a
          /\ f.conf # 0 /\ p # 0 => Waiting(f) = l + 1 - a + 1
          /\ f.conf = 0 /\ p = 0 => Waiting(f) = 1 + (l + 1 - a)
          /\ f.conf = 0 /\ p # 0 => Waiting(f) = 1 + (l + 1 - a) + 1
      BY <1>2, <3>1, <3>2, WaitingIs
    <3>5. c \in Nat /\ (f.conf = 0 => c = 1) /\ (f.conf # 0 => c = a + 1)
      BY <3>1, <3>2
    <3>6. CASE f.conf = 0 /\ p = 0
      BY <1>2, <3>2, <3>3, <3>4, <3>5, <3>6
    <3>7. CASE f.conf = 0 /\ p # 0
      BY <1>2, <3>2, <3>3, <3>4, <3>5, <3>7
    <3>8. CASE f.conf # 0
      <4>1. PICK y \in Int : y = l + 1 - a
        BY <1>2, <3>2
      <4>2. l + 1 - c = y - 1 /\ l + 1 - c + 1 = (y + 1) - 1
        BY ONLY <1>2, <3>2, <3>5, <3>8, <4>1
      <4>3. CASE p = 0
        <5>1. Waiting(f) = y
          BY ONLY <3>4, <3>8, <4>1, <4>3
        <5> QED BY ONLY <3>3, <4>2, <4>3, <5>1
      <4>4. CASE p # 0
        <5>1. Waiting(f) = y + 1
          BY ONLY <3>4, <3>8, <4>1, <4>4
        <5> QED BY ONLY <3>3, <4>2, <4>4, <5>1
      <4> QED BY <4>3, <4>4
    <3> QED BY <3>6, <3>7, <3>8
  <2> QED BY <1>1, <1>2, <2>1, <2>2 DEF Counted
<1>6. Numbers(g) = Numbers(f)
  BY <1>1 DEF Numbers
<1>7. ASSUME NEW m \in PendingIn(g)
      PROVE  /\ m \in PendingIn(f)
             /\ f.conf = 0 => m # <<"start", f.start>>
             /\ f.conf # 0 => m # <<"meter", f.meters[f.conf]>>
  <2>1. CASE \E i \in FirstMeter(g) .. Len(g.meters) : m = <<"meter", g.meters[i]>>
    <3>1. PICK i \in FirstMeter(g) .. Len(g.meters) : m = <<"meter", f.meters[i]>>
      BY <1>1, <2>1
    <3>2. i \in FirstMeter(f) .. l /\ i \in 1 .. l /\ f.conf < i
      BY <1>1, <1>2, <1>4
    <3>3. m \in PendingIn(f)
      BY <3>1, <3>2, PendingAre
    <3>4. ASSUME f.conf # 0 PROVE f.meters[f.conf] # f.meters[i]
      <4>1. f.conf \in 1 .. l
        BY <1>2, <3>4
      <4>2. f.meters[f.conf] < f.meters[i]
        BY <1>0, <3>2, <4>1 DEF Ordered
      <4>3. f.meters[i] \in Nat /\ f.meters[f.conf] \in Nat
        BY <3>2, <4>1, FileNumbers
      <4> QED BY <4>2, <4>3
    <3> QED BY <3>1, <3>3, <3>4
  <2>2. CASE m = <<"stop", g.stop>> /\ g.stop # 0
    <3>1. m \in PendingIn(f)
      BY <1>1, <2>2, PendingAre
    <3> QED BY <2>2, <3>1
  <2>3. CASE g.conf = AtStart
    BY <1>1, <1>2, <2>3
  <2> QED BY <1>7, <2>1, <2>2, <2>3, PendingAre, Zenon
<1>8. Less(g, f, n)
  BY <1>1, <1>3, <1>5, <1>6, <1>7 DEF Less, Tidy
<1> QED BY <1>7, <1>8

LEMMA AwaitLess ==
  ASSUME NEW f, NEW n \in Nat, Tidy(f, n), f.start # 0, f.conf \in 0 .. Len(f.meters)
  PROVE  Await(f, -1) = f.await - 1 /\ f.await \in Nat \ {0}
<1>1. f.await = Waiting(f)
  BY DEF Tidy, Counted
<1>2. f.await # 0
  BY <1>1, FileNumbers DEF Waiting, FirstMeter, AtStart, AtStop
<1> QED BY <1>2, FileNumbers DEF Await

LEMMA ConfirmedLess ==
  ASSUME NEW f, NEW n \in Nat, Tidy(f, n), NextKind(f) # "none",
         loaded.call.kind = NextKind(f), loaded.next = f.conf + 1
  PROVE  Less(Confirmed(f), f, n) /\ <<NextKind(f), NextNo(f)>> \notin PendingIn(Confirmed(f))
<1>0. IsRight(f) /\ f.start # 0 /\ f \in FileType /\ IsRight(Confirmed(f))
  BY NextKinds, ConfirmedLoses DEF Tidy, IsRight
<1>1. CASE NextKind(f) = "stop"
  <2>1. Confirmed(f) = NoFile
    BY <1>1 DEF Confirmed
  <2> QED BY <2>1, NoFileLess, NoFileRight
<1>2. CASE NextKind(f) # "stop"
  <2>1. f.conf \in 0 .. Len(f.meters)
    BY <1>0, <1>2, NextKinds, FileNumbers
  <2> PICK c : c = f.conf + 1
    OBVIOUS
  <2> PICK w : w = f.await - 1
    OBVIOUS
  <2> PICK g : g = Confirmed(f)
    OBVIOUS
  <2>2. Await(f, -1) = w
    BY <1>0, <2>1, AwaitLess
  <2>3. g = [f EXCEPT !.conf = c, !.await = w]
    <3>1. CASE NextKind(f) = "start"
      <4>1. c = AtMeter(1)
        BY <1>0, <3>1, NextKinds DEF AtMeter
      <4>2. Confirmed(f) = [f EXCEPT !.conf = AtMeter(1), !.await = Await(f, -1)]
        BY <3>1 DEF Confirmed
      <4> QED BY <2>2, <4>1, <4>2, Zenon
    <3>2. CASE NextKind(f) # "start"
      <4>1. Confirmed(f) = [f EXCEPT !.conf = loaded.next, !.await = Await(f, -1)]
        BY <1>2, <3>2 DEF Confirmed
      <4> QED BY <2>2, <4>1, Zenon
    <3> QED BY <3>1, <3>2
  <2>4. g = FileLit(f.start, f.active, f.id, w, c, f.meters, f.stop)
    <3>0. f \in FileType
      BY <1>0
    <3>1. [f EXCEPT !.conf = c, !.await = w] = FileLit(f.start, f.active, f.id, w, c, f.meters, f.stop)
      BY ONLY <3>0, ConfIs, Zenon
    <3> QED BY <2>3, <3>1, Zenon
  <2>5. Fields(g, f.start, w, c, f.meters, f.stop)
    BY <2>4, LitFields, Zenon
  <2>6. /\ Less(g, f, n)
        /\ f.conf = 0 => <<"start", f.start>> \notin PendingIn(g)
        /\ f.conf # 0 => <<"meter", f.meters[f.conf]>> \notin PendingIn(g)
    BY <1>0, <2>1, <2>5, PastLess
  <2>7. \/ f.conf = 0 /\ NextKind(f) = "start" /\ NextNo(f) = f.start
        \/ f.conf # 0 /\ NextKind(f) = "meter" /\ NextNo(f) = f.meters[f.conf]
    BY <1>0, <1>2, NextKinds DEF NextNo
  <2> QED BY <2>6, <2>7, Zenon
<1> QED BY <1>1, <1>2

LEMMA GivenUpLess ==
  ASSUME NEW f, NEW n \in Nat, Tidy(f, n), f.start # 0
  PROVE  Less(GivenUp(f), f, n)
<1> PICK g : g = GivenUp(f)
  OBVIOUS
<1>0. IsRight(f) /\ f \in FileType /\ IsRight(g) /\ FileRight(f) /\ Ordered(f, n) /\ Counted(f)
  BY GivenUpRight DEF Tidy, IsRight
<1>1. CASE f.conf = AtStart
  <2> PICK w : w = f.await - 1
    OBVIOUS
  <2>1. f.conf \in 0 .. Len(f.meters) /\ 1 = f.conf + 1 /\ AtMeter(1) = 1
    BY <1>1, FileNumbers DEF AtStart, AtMeter
  <2>2. Await(f, -1) = w
    BY <2>1, AwaitLess
  <2>3. PICK f1 : f1 = [f EXCEPT !.id = UnknownId]
    OBVIOUS
  <2>4. f1 = FileLit(f.start, f.active, UnknownId, f.await, f.conf, f.meters, f.stop)
    BY <1>0, <2>3, IdIs, Zenon
  <2>5. PICK f2 : f2 = [f1 EXCEPT !.conf = 1]
    OBVIOUS
  <2>a. PICK a : a = f.active
    OBVIOUS
  <2>6. f2 = FileLit(f.start, a, UnknownId, f.await, 1, f.meters, f.stop)
    <3>1. f1 = FileLit(f.start, a, UnknownId, f.await, f.conf, f.meters, f.stop)
      BY <2>4, <2>a, Zenon
    <3> QED BY <2>5, <3>1 DEF FileLit
  <2>7. PICK f3 : f3 = [f2 EXCEPT !.await = w]
    OBVIOUS
  <2>8. f3 = FileLit(f.start, a, UnknownId, w, 1, f.meters, f.stop)
    BY <2>6, <2>7 DEF FileLit
  <2>9. g = f3
    <3>1. GivenUp(f) = [f EXCEPT !.id = UnknownId, !.conf = AtMeter(1), !.await = Await(f, -1)]
      BY <1>1 DEF GivenUp
    <3> QED BY <2>1, <2>2, <2>3, <2>5, <2>7, <3>1, Zenon
  <2>10. Fields(g, f.start, w, 1, f.meters, f.stop)
    BY <2>8, <2>9, LitFields, Zenon
  <2> QED BY <1>0, <2>1, <2>10, PastLess
<1>2. CASE f.conf = AtStop
  <2>1. GivenUp(f) = NoFile
    BY <1>2 DEF GivenUp, AtStart, AtStop
  <2> QED BY <2>1, NoFileLess
<1>3. CASE f.conf # AtStart /\ f.conf # AtStop /\ f.active
  <2>1. PICK f1 : f1 = [f EXCEPT !.conf = 1, !.await = 0]
    OBVIOUS
  <2>a. PICK a : a = f.active
    OBVIOUS
  <2>2. f1 = FileLit(f.start, a, f.id, 0, 1, f.meters, f.stop)
    BY <1>0, <2>1, <2>a, ConfIs, Zenon
  <2>3. PICK f2 : f2 = [f1 EXCEPT !.meters = <<>>]
    OBVIOUS
  <2>4. f2 = FileLit(f.start, a, f.id, 0, 1, <<>>, f.stop)
    BY <2>2, <2>3 DEF FileLit
  <2>5. g = f2
    <3>1. GivenUp(f) = [f EXCEPT !.conf = AtMeter(1), !.await = 0, !.meters = <<>>]
      BY <1>3, Zenon DEF GivenUp
    <3>2. AtMeter(1) = 1
      BY DEF AtMeter
    <3> QED BY <2>1, <2>3, <3>1, <3>2, Zenon
  <2>6. Fields(g, f.start, 0, 1, <<>>, f.stop)
    BY <2>4, <2>5, LitFields, Zenon
  <2>7. f.stop = 0
    BY <1>0, <1>3 DEF FileRight
  <2>8. Ordered(g, n)
    BY <1>0, <2>6, OrderedEmptied
  <2>9. g.start = f.start /\ g.await = 0 /\ g.conf = 1 /\ g.meters = <<>> /\ g.stop = 0 /\ Len(<<>>) = 0
    BY <2>6, <2>7 DEF Fields
  <2>10. Counted(g) /\ Numbers(g) \subseteq Numbers(f)
    BY <2>7, <2>9 DEF Counted, Waiting, FirstMeter, AtStart, AtStop, Numbers
  <2>11. ASSUME NEW m \in PendingIn(g) PROVE FALSE
    <3>1. FirstMeter(g) = 1 /\ g.conf # AtStart
      BY <2>9 DEF FirstMeter, AtStart, AtStop
    <3> QED BY <2>9, <2>11, <3>1, PendingAre
  <2> QED BY <1>0, <2>7, <2>8, <2>9, <2>10, <2>11 DEF Less, Tidy
<1>4. CASE f.conf # AtStart /\ f.conf # AtStop /\ ~f.active
  <2>1. g = [f EXCEPT !.conf = AtStop, !.await = 1]
    BY <1>4, Zenon DEF GivenUp
  <2>2. g = FileLit(f.start, f.active, f.id, 1, AtStop, f.meters, f.stop)
    BY <1>0, <2>1, ConfIs, Zenon
  <2>3. Fields(g, f.start, 1, AtStop, f.meters, f.stop)
    BY <2>2, LitFields, Zenon
  <2>4. f.stop # 0
    BY <1>0, <1>4 DEF FileRight
  <2>5. Ordered(g, n)
    BY <1>0, <2>3, OrderedSame
  <2>6. g.start = f.start /\ g.await = 1 /\ g.conf = -1 /\ g.meters = f.meters /\ g.stop = f.stop
    BY <2>3 DEF Fields, AtStop
  <2>7. FirstMeter(g) = Len(f.meters) + 1 /\ Len(f.meters) \in Nat
    BY <2>6, FileNumbers DEF FirstMeter, AtStart, AtStop
  <2>8. Counted(g) /\ Numbers(g) = Numbers(f)
    BY <2>4, <2>6, <2>7 DEF Counted, Waiting, AtStart, Numbers
  <2>9. ASSUME NEW m \in PendingIn(g) PROVE m \in PendingIn(f)
    <3>1. ~ \E i \in FirstMeter(g) .. Len(g.meters) : m = <<"meter", g.meters[i]>>
      BY <2>6, <2>7
    <3>2. g.conf # AtStart
      BY <2>6 DEF AtStart
    <3>3. m = <<"stop", g.stop>> /\ g.stop # 0
      BY <2>9, <3>1, <3>2, PendingAre, Zenon
    <3>4. m = <<"stop", f.stop>> /\ f.stop # 0
      BY <2>6, <3>3
    <3> QED BY <3>4, PendingAre
  <2> QED BY <1>0, <2>5, <2>6, <2>8, <2>9 DEF Less, Tidy
<1> QED BY <1>1, <1>2, <1>3, <1>4

-----------------------------------------------------------------------------
(* What a step may make of a file.                                         *)

\* f has become g while the clock went from n to k: it has got only numbers
\* made meanwhile, and at most the messages M.
Moved(f, g, n, k, M) ==
    /\ Tidy(g, k)
    /\ Numbers(g) \subseteq Numbers(f) \cup {0} \cup (n + 1 .. k)
    /\ g.start # 0 => g.start = f.start
    /\ g.start # 0 /\ f.stop # 0 => g.stop = f.stop
    /\ PendingIn(g) \subseteq PendingIn(f) \cup M

LEMMA NumbersBound ==
  ASSUME NEW f, NEW n \in Nat, Tidy(f, n), NEW x \in Numbers(f)
  PROVE  x \in Nat /\ x <= n /\ (x # 0 => f.start <= x) /\ (f.stop # 0 => x <= f.stop)
<1>1. Ordered(f, n)
  BY DEF Tidy
<1>2. CASE x = f.start \/ x = f.stop
  BY <1>1, <1>2, FileNumbers DEF Ordered
<1>3. CASE \E i \in 1 .. Len(f.meters) : x = f.meters[i]
  <2>1. PICK i \in 1 .. Len(f.meters) : x = f.meters[i]
    BY <1>3
  <2>2. f.start < x /\ x <= n /\ (f.stop # 0 => x < f.stop)
    BY <1>1, <2>1 DEF Ordered
  <2> QED BY <2>1, <2>2, FileNumbers
<1> QED BY <1>2, <1>3 DEF Numbers

LEMMA LessMoved ==
  ASSUME NEW f, NEW g, NEW n \in Nat, Less(g, f, n)
  PROVE  Moved(f, g, n, n, {})
<1>1. NoFile.start = 0
  BY NoFileIs, Zenon DEF NoFile
<1>2. g.start # 0 => g.start = f.start /\ g.stop = f.stop
  BY <1>1 DEF Less
<1> QED BY <1>2 DEF Less, Moved

LEMMA SameMoved ==
  ASSUME NEW f, NEW n \in Nat, NEW k \in Nat, n <= k, Tidy(f, n), NEW M
  PROVE  Moved(f, f, n, k, M)
BY TidyLater DEF Moved

LEMMA StoppedMoved ==
  ASSUME NEW f, NEW n \in Nat, NEW k \in Nat, n < k, Tidy(f, n), f.active
  PROVE  Moved(f, Stopped(f, k), n, k, {<<"stop", k>>})
<1> PICK g : g = Stopped(f, k)
  OBVIOUS
<1>0. f \in FileType /\ IsRight(f)
  BY DEF Tidy, IsRight
<1>1. Tidy(g, k) /\ f.start # 0 /\ f.stop = 0 /\ Numbers(g) \subseteq Numbers(f) \cup {k} /\ g.stop = k
  BY StoppedTidy
<1>2. g.start = f.start /\ g.conf = f.conf /\ g.meters = f.meters
  <2>1. g = FileLit(f.start, FALSE, f.id, Await(f, 1), f.conf, f.meters, k)
    BY <1>0, StoppedIs
  <2>2. Fields(g, f.start, Await(f, 1), f.conf, f.meters, k)
    BY <2>1, LitFields, Zenon
  <2> QED BY <2>2 DEF Fields
<1>3. ASSUME NEW m \in PendingIn(g), m \notin PendingIn(f) PROVE m = <<"stop", k>>
  <2>1. FirstMeter(g) = FirstMeter(f)
    BY <1>2 DEF FirstMeter
  <2>2. CASE m = <<"start", g.start>> /\ g.start # 0 /\ g.conf = AtStart
    BY <1>2, <1>3, <2>2, PendingAre
  <2>3. CASE \E i \in FirstMeter(g) .. Len(g.meters) : m = <<"meter", g.meters[i]>>
    BY <1>2, <1>3, <2>1, <2>3, PendingAre
  <2>4. CASE m = <<"stop", g.stop>> /\ g.stop # 0
    BY <1>1, <2>4
  <2> QED BY <2>2, <2>3, <2>4, PendingAre
<1>4. k \in n + 1 .. k
  OBVIOUS
<1> QED BY <1>1, <1>2, <1>3, <1>4 DEF Moved

LEMMA MeterMoved ==
  ASSUME NEW f, NEW n \in Nat, NEW k \in Nat, n < k, Tidy(f, n), f.active,
         NEW g, g = [f EXCEPT !.meters = Append(f.meters, k), !.await = Await(f, 1)]
  PROVE  Moved(f, g, n, k, {<<"meter", k>>})
<1>0. f \in FileType /\ IsRight(f) /\ FileRight(f)
  BY DEF Tidy, IsRight
<1>1. Tidy(g, k) /\ Numbers(g) \subseteq Numbers(f) \cup {k} /\ g.stop = f.stop /\ g.start = f.start
  <2>1. Metered(g, f, k)
    BY MeterTidy, Zenon
  <2> QED BY <2>1, Zenon DEF Metered
<1> PICK l : l = Append(f.meters, k)
  OBVIOUS
<1>2. g.conf = f.conf /\ g.meters = l
  <2>1. g = FileLit(f.start, f.active, f.id, Await(f, 1), f.conf, l, f.stop)
    BY <1>0, MeterIs
  <2>2. Fields(g, f.start, Await(f, 1), f.conf, l, f.stop)
    BY <2>1, LitFields, Zenon
  <2> QED BY <2>2 DEF Fields
<1>3. Len(l) = Len(f.meters) + 1 /\ Len(f.meters) \in Nat /\ l[Len(f.meters) + 1] = k
      /\ \A i \in 1 .. Len(f.meters) : l[i] = f.meters[i]
  <2>1. f.meters \in Seq(Nat)
    BY FileNumbers
  <2> QED BY <2>1
<1>4. f.conf # AtStop
  BY <1>0 DEF FileRight
<1>5. ASSUME NEW m \in PendingIn(g), m \notin PendingIn(f) PROVE m = <<"meter", k>>
  <2>1. FirstMeter(g) = FirstMeter(f) /\ FirstMeter(f) \in Nat \ {0}
    BY <1>2, <1>4, FileNumbers DEF FirstMeter
  <2>2. CASE m = <<"start", g.start>> /\ g.start # 0 /\ g.conf = AtStart
    BY <1>1, <1>2, <1>5, <2>2, PendingAre
  <2>3. CASE \E i \in FirstMeter(g) .. Len(g.meters) : m = <<"meter", g.meters[i]>>
    <3>1. PICK i \in FirstMeter(f) .. Len(l) : m = <<"meter", l[i]>>
      BY <1>2, <2>1, <2>3
    <3>2. CASE i = Len(f.meters) + 1
      BY <1>3, <3>1, <3>2
    <3>3. CASE i # Len(f.meters) + 1
      <4> PICK p : p = FirstMeter(f)
        OBVIOUS
      <4> PICK c : c = Len(f.meters)
        OBVIOUS
      <4>1. p \in Nat \ {0} /\ c \in Nat /\ i \in p .. c + 1 /\ i # c + 1
        BY <1>3, <2>1, <3>1, <3>3
      <4>2. i \in p .. c /\ i \in 1 .. c
        BY ONLY <4>1
      <4>3. m = <<"meter", f.meters[i]>>
        BY <1>3, <3>1, <4>2
      <4>4. \E j \in p .. c : m = <<"meter", f.meters[j]>>
        BY <4>2, <4>3
      <4>5. m \in PendingIn(f)
        BY <4>4, PendingAre
      <4> QED BY <1>5, <4>5, Zenon
    <3> QED BY <3>2, <3>3
  <2>4. CASE m = <<"stop", g.stop>> /\ g.stop # 0
    BY <1>1, <1>5, <2>4, PendingAre
  <2>5. \/ m = <<"start", g.start>> /\ g.start # 0 /\ g.conf = AtStart
        \/ \E i \in FirstMeter(g) .. Len(g.meters) : m = <<"meter", g.meters[i]>>
        \/ m = <<"stop", g.stop>> /\ g.stop # 0
    BY ONLY m \in PendingIn(g), PendingAre
  <2> QED BY <2>2, <2>3, <2>4, <2>5, Zenon
<1>6. k \in n + 1 .. k
  OBVIOUS
<1> QED BY <1>1, <1>5, <1>6 DEF Moved

LEMMA IdMoved ==
  ASSUME NEW f, NEW n \in Nat, Tidy(f, n), f.start # 0, NEW i \in Id, NEW g, g = [f EXCEPT !.id = i]
  PROVE  Moved(f, g, n, n, {})
<1>0. f \in FileType
  BY DEF Tidy, IsRight
<1>1. Tidy(g, n) /\ Numbers(g) = Numbers(f) /\ g.stop = f.stop /\ g.start = f.start
  BY IdTidy
<1>2. g.conf = f.conf /\ g.meters = f.meters
  <2>1. g = FileLit(f.start, f.active, i, f.await, f.conf, f.meters, f.stop)
    BY <1>0, IdIs
  <2>2. Fields(g, f.start, f.await, f.conf, f.meters, f.stop)
    BY <2>1, LitFields, Zenon
  <2> QED BY <2>2 DEF Fields
<1>3. ASSUME NEW m \in PendingIn(g) PROVE m \in PendingIn(f)
  <2>1. FirstMeter(g) = FirstMeter(f)
    BY <1>2 DEF FirstMeter
  <2> PICK p : p = FirstMeter(f)
    OBVIOUS
  <2> PICK s : s = f.meters
    OBVIOUS
  <2>a. \/ m = <<"start", g.start>> /\ g.start # 0 /\ g.conf = AtStart
        \/ \E j \in FirstMeter(g) .. Len(g.meters) : m = <<"meter", g.meters[j]>>
        \/ m = <<"stop", g.stop>> /\ g.stop # 0
    BY <1>3, PendingAre
  <2>2. \/ m = <<"start", f.start>> /\ f.start # 0 /\ f.conf = AtStart
        \/ \E j \in p .. Len(s) : m = <<"meter", s[j]>>
        \/ m = <<"stop", f.stop>> /\ f.stop # 0
    BY <1>1, <1>2, <2>1, <2>a
  <2> QED BY <2>2, PendingAre
<1> QED BY <1>1, <1>3 DEF Moved

LEMMA StartedNumbers ==
  ASSUME NEW n \in Nat \ {0}
  PROVE  /\ Started(n).start = n /\ Started(n).stop = 0
         /\ Numbers(Started(n)) \subseteq {0, n}
         /\ PendingIn(Started(n)) \subseteq {<<"start", n>>}
<1> PICK g : g = Started(n)
  OBVIOUS
<1>1. g = FileLit(n, TRUE, UnknownId, 1, AtStart, <<>>, 0)
  BY StartedIs, Zenon
<1>2. Fields(g, n, 1, AtStart, <<>>, 0)
  BY <1>1, LitFields, Zenon
<1>3. 1 .. Len(<<>>) = {} /\ Len(<<>>) = 0
  OBVIOUS
<1>4. g.start = n /\ g.stop = 0 /\ g.conf = AtStart /\ g.meters = <<>>
  BY <1>2 DEF Fields
<1>5. Numbers(g) \subseteq {0, n}
  BY <1>3, <1>4 DEF Numbers
<1>6. ASSUME NEW m \in PendingIn(g) PROVE m = <<"start", n>>
  <2>1. FirstMeter(g) = 1
    BY <1>4 DEF FirstMeter
  <2> QED BY <1>3, <1>4, <1>6, <2>1, PendingAre
<1> QED BY <1>4, <1>5, <1>6

LEMMA ApartNumbers ==
  ASSUME NEW f, NEW g, NEW n \in Nat, Tidy(f, n), Tidy(g, n), f.start # 0, f.start < g.start,
         f.stop # 0, f.stop < g.start, NEW x \in Numbers(f), x \in Numbers(g)
  PROVE  x = 0
<1>1. x <= f.stop /\ x \in Nat
  BY NumbersBound
<1>2. x # 0 => g.start <= x
  BY NumbersBound
<1> QED BY <1>1, <1>2, FileNumbers

-----------------------------------------------------------------------------
(* The order among the files, the cache, what is loaded and the queue.     *)

TidyAll(fs, n) == \A e \in Entry : Tidy(fs[e], n)

\* A transaction is over before the next one starts.
Apart(fs) ==
    \A d, e \in Entry : d # e /\ fs[d].start # 0 /\ fs[e].start # 0 =>
        /\ fs[d].start # fs[e].start
        /\ fs[d].start < fs[e].start => fs[d].stop # 0 /\ fs[d].stop < fs[e].start

\* What is queued is in the order of its numbers, and in no file.
Line(q, fs, n) ==
    /\ \A i \in 1 .. Len(q) : q[i].no \in 1 .. n /\ \A e \in Entry : q[i].no \notin Numbers(fs[e])
    /\ \A i, j \in 1 .. Len(q) : i < j => q[i].no < q[j].no

\* The cache names the oldest files, those among them that are still there
\* with their times.
Oldest(o, fs, n) ==
    /\ \A c \in o : c.time \in 1 .. n /\ (fs[c.entry].start # 0 => c.time = fs[c.entry].start)
    /\ \A c, d \in o : c.time = d.time => c = d
    /\ \A e \in Entry : fs[e].start # 0 =>
         (\E c \in o : c.entry = e) \/ (\A c \in o : c.time < fs[e].start)

\* What is loaded is older than anything else on file.
First(l, fs) ==
    l.data => /\ l.time = NextNo(fs[l.entry])
              /\ \A e \in Entry : \A m \in PendingIn(fs[e]) : l.time <= m[2]

OrderInv == TidyAll(files, clock) /\ Apart(files) /\ Line(queue, files, clock)

CacheOrder == Oldest(oldest, files, clock) /\ First(loaded, files)

Moves(fs, gs, n, k, M) == \A e \in Entry : Moved(fs[e], gs[e], n, k, M)

LEMMA ApartMoves ==
  ASSUME NEW fs, NEW gs, NEW n, NEW k, NEW M, Apart(fs), Moves(fs, gs, n, k, M)
  PROVE  Apart(gs)
<1> SUFFICES ASSUME NEW d \in Entry, NEW e \in Entry, d # e, gs[d].start # 0, gs[e].start # 0
             PROVE  /\ gs[d].start # gs[e].start
                    /\ gs[d].start < gs[e].start => gs[d].stop # 0 /\ gs[d].stop < gs[e].start
  BY DEF Apart
<1>1. gs[d].start = fs[d].start /\ gs[e].start = fs[e].start
      /\ (fs[d].stop # 0 => gs[d].stop = fs[d].stop)
  BY DEF Moves, Moved
<1>2. /\ fs[d].start # fs[e].start
      /\ fs[d].start < fs[e].start => fs[d].stop # 0 /\ fs[d].stop < fs[e].start
  BY <1>1 DEF Apart
<1> QED BY <1>1, <1>2

LEMMA LineMoves ==
  ASSUME NEW fs, NEW gs, NEW n \in Nat, NEW k \in Nat, n <= k, NEW M, NEW q, Len(q) \in Nat,
         Line(q, fs, n), Moves(fs, gs, n, k, M)
  PROVE  Line(q, gs, k)
<1>1. ASSUME NEW i \in 1 .. Len(q), NEW e \in Entry PROVE q[i].no \in 1 .. k /\ q[i].no \notin Numbers(gs[e])
  <2>1. q[i].no \in 1 .. n /\ q[i].no \notin Numbers(fs[e])
    BY DEF Line
  <2>2. Numbers(gs[e]) \subseteq Numbers(fs[e]) \cup {0} \cup (n + 1 .. k)
    BY DEF Moves, Moved
  <2> PICK x : x = q[i].no
    OBVIOUS
  <2>3. x \in 1 .. k /\ x # 0 /\ x \notin n + 1 .. k
    BY <2>1
  <2> QED BY <2>1, <2>2, <2>3
<1>2. \A i \in 1 .. Len(q) : q[i].no \in 1 .. k
  <2> TAKE i \in 1 .. Len(q)
  <2>1. q[i].no \in 1 .. n
    BY DEF Line
  <2> QED BY <2>1
<1>3. \A i, j \in 1 .. Len(q) : i < j => q[i].no < q[j].no
  BY DEF Line
<1> QED BY <1>1, <1>2, <1>3 DEF Line

LEMMA OldestMoves ==
  ASSUME NEW fs, NEW gs, NEW n \in Nat, NEW k \in Nat, n <= k, NEW M, NEW o,
         o \subseteq [entry : Entry, time : Nat], Oldest(o, fs, n), Moves(fs, gs, n, k, M)
  PROVE  Oldest(o, gs, k)
<1>1. \A e \in Entry : gs[e].start # 0 => gs[e].start = fs[e].start
  BY DEF Moves, Moved
<1>2. ASSUME NEW c \in o PROVE c.time \in 1 .. k /\ (gs[c.entry].start # 0 => c.time = gs[c.entry].start)
  <2>1. c.time \in 1 .. n /\ (fs[c.entry].start # 0 => c.time = fs[c.entry].start) /\ c.entry \in Entry
    BY DEF Oldest
  <2>2. c.time \in 1 .. k
    BY <2>1
  <2> QED BY <1>1, <2>1, <2>2
<1>3. \A c, d \in o : c.time = d.time => c = d
  BY DEF Oldest
<1>4. \A e \in Entry : gs[e].start # 0 =>
        (\E c \in o : c.entry = e) \/ (\A c \in o : c.time < gs[e].start)
  BY <1>1 DEF Oldest
<1> QED BY <1>2, <1>3, <1>4 DEF Oldest

\* The number of the next message of a file is in it.
LEMMA NextIsOld ==
  ASSUME NEW f, NEW n \in Nat, Tidy(f, n), NextKind(f) # "none"
  PROVE  NextNo(f) \in 1 .. n /\ NextNo(f) \in Numbers(f) /\ <<NextKind(f), NextNo(f)>> \in PendingIn(f)
         /\ \A m \in PendingIn(f) : NextNo(f) <= m[2]
<1>1. IsRight(f) /\ f.start # 0
  BY NextKinds DEF Tidy
<1>2. <<NextKind(f), NextNo(f)>> \in PendingIn(f) /\ \A m \in PendingIn(f) : NextNo(f) <= m[2]
  BY <1>1, NextFirst
<1> PICK m : m = <<NextKind(f), NextNo(f)>>
  OBVIOUS
<1>3. m \in PendingIn(f) /\ m[2] = NextNo(f)
  BY <1>2
<1>4. m[2] \in Numbers(f) /\ m[2] \in Nat \ {0} /\ m[2] <= n
  BY <1>3, PendingNumbers
<1> QED BY <1>2, <1>3, <1>4

LEMMA FirstMoves ==
  ASSUME NEW fs, NEW gs, NEW n \in Nat, NEW k \in Nat, n <= k, NEW M, NEW l, TidyAll(fs, n),
         LoadedRight(l, fs), First(l, fs), Moves(fs, gs, n, k, M), \A m \in M : n < m[2],
         l.data => NextNo(gs[l.entry]) = NextNo(fs[l.entry])
  PROVE  First(l, gs)
<1> SUFFICES ASSUME l.data PROVE First(l, gs)
  BY Zenon DEF First
<1> PICK t : t = l.time
  OBVIOUS
<1> PICK a : a = l.entry
  OBVIOUS
<1>1. a \in Entry /\ NextKind(fs[a]) # "none" /\ t = NextNo(fs[a])
  BY Zenon DEF First, LoadedRight
<1>2. t \in 1 .. n
  BY <1>1, NextIsOld DEF TidyAll
<1>3. ASSUME NEW e \in Entry, NEW m \in PendingIn(gs[e]) PROVE t <= m[2]
  <2>1. m \in PendingIn(fs[e]) \/ m \in M
    BY Zenon DEF Moves, Moved
  <2>2. CASE m \in PendingIn(fs[e])
    BY <2>2, Zenon DEF First
  <2>3. CASE m \in M
    <3>1. n < m[2]
      BY <2>3
    <3>2. Tidy(gs[e], k)
      BY DEF Moves, Moved
    <3>3. m[2] \in Nat
      BY <3>2, PendingNumbers
    <3> QED BY ONLY <1>2, <3>1, <3>3, n \in Nat
  <2> QED BY <2>1, <2>2, <2>3
<1>4. t = NextNo(gs[a])
  BY <1>1, Zenon
<1> QED BY <1>3, <1>4, Zenon DEF First

\* A step that leaves the queue alone.
LEMMA MovesKeep ==
  ASSUME OrderInv, QueueInv, clock \in Nat, clock' \in Nat, clock <= clock', NEW M,
         Moves(files, files', clock, clock', M), UNCHANGED queue
  PROVE  OrderInv' /\ Pending' \subseteq Pending \cup M
<1>1. TidyAll(files', clock')
  BY DEF TidyAll, Moves, Moved
<1>2. Apart(files')
  BY ApartMoves, Zenon DEF OrderInv
<1>3. Line(queue, files', clock')
  <2>1. Len(queue) \in Nat
    BY DEF QueueInv
  <2> QED BY <2>1, LineMoves DEF OrderInv
<1>4. ASSUME NEW e \in Entry, NEW m \in PendingIn(files'[e]) PROVE m \in Pending \cup M
  <2>1. m \in PendingIn(files[e]) \/ m \in M
    BY Zenon DEF Moves, Moved
  <2> QED BY <2>1 DEF Pending
<1>5. Pending' \subseteq Pending \cup M
  BY <1>4 DEF Pending
<1> QED BY <1>1, <1>2, <1>3, <1>5, Zenon DEF OrderInv

LEMMA MovesCache ==
  ASSUME OrderInv, CacheInv, LoadedInv, CacheOrder, clock \in Nat, clock' \in Nat, clock <= clock',
         NEW M, Moves(files, files', clock, clock', M), \A m \in M : clock < m[2],
         UNCHANGED <<oldest, loaded>>,
         loaded.data => NextNo(files'[loaded.entry]) = NextNo(files[loaded.entry])
  PROVE  CacheOrder'
<1>1. Oldest(oldest, files', clock')
  BY OldestMoves DEF CacheOrder, CacheInv
<1>2. First(loaded, files')
  <2>1. TidyAll(files, clock) /\ LoadedRight(loaded, files) /\ First(loaded, files)
    BY DEF OrderInv, CacheOrder, LoadedInv
  <2> QED BY <2>1, FirstMoves, Zenon
<1> QED BY <1>1, <1>2, Zenon DEF CacheOrder

-----------------------------------------------------------------------------
(* What each operation makes of the files.                                 *)

Updates(gs, a, g, n, k, M) ==
    Moves(files, gs, n, k, M) /\ gs[a] = g /\ \A e \in Entry : e # a => gs[e] = files[e]

LEMMA UpdateMoves ==
  ASSUME NEW n \in Nat, NEW k \in Nat, n <= k, TidyAll(files, n), FilesInv, NEW a \in Entry, NEW g,
         NEW M, Moved(files[a], g, n, k, M), files' = [files EXCEPT ![a] = g]
  PROVE  Updates(files', a, g, n, k, M)
<1>1. files = [e \in Entry |-> files[e]]
  BY DEF FilesInv
<1>2. files'[a] = g /\ \A e \in Entry : e # a => files'[e] = files[e]
  BY <1>1
<1>3. ASSUME NEW e \in Entry, e # a PROVE Moved(files[e], files'[e], n, k, M)
  <2>1. Tidy(files[e], n)
    BY DEF TidyAll
  <2>2. files'[e] = files[e]
    BY <1>2, <1>3
  <2> QED BY <2>1, <2>2, SameMoved
<1> QED BY <1>2, <1>3, Zenon DEF Moves, Updates

LEMMA SameMoves ==
  ASSUME NEW n \in Nat, NEW k \in Nat, n <= k, TidyAll(files, n), NEW M
  PROVE  Moves(files, files, n, k, M)
BY SameMoved DEF TidyAll, Moves

StopMessages(n) == IF Active = {} THEN {} ELSE {<<"stop", n>>}

LEMMA StopMoves ==
  ASSUME FilesInv, TidyAll(files, clock), clock \in Nat, EnqueueStop
  PROVE  Moves(files, files', clock, clock', StopMessages(clock')) /\ clock' = clock + 1
<1>1. clock' = clock + 1 /\ files' = StopActive(clock')
  BY DEF EnqueueStop
<1> PICK k : k = clock'
  OBVIOUS
<1>2. k \in Nat /\ clock < k /\ clock <= k
  BY <1>1
<1>3. CASE Active = {}
  <2>1. files' = files
    BY <1>1, <1>3 DEF StopActive
  <2> QED BY <1>1, <1>2, <2>1, SameMoves, Zenon
<1>4. CASE Active # {}
  <2> PICK a : a = ActiveEntry
    OBVIOUS
  <2> PICK f : f = files[a]
    OBVIOUS
  <2>1. a \in Entry /\ f.active /\ Tidy(f, clock)
    BY <1>4, ActiveIs DEF TidyAll
  <2>2. Moved(f, Stopped(f, k), clock, k, {<<"stop", k>>})
    BY <1>2, <2>1, StoppedMoved
  <2>3. files' = [files EXCEPT ![a] = Stopped(f, k)]
    BY <1>1, <1>4, Zenon DEF StopActive
  <2>4. Moves(files, files', clock, k, {<<"stop", k>>})
    BY <1>2, <2>1, <2>2, <2>3, UpdateMoves, Zenon DEF Updates
  <2>5. StopMessages(k) = {<<"stop", k>>}
    BY <1>4 DEF StopMessages
  <2> QED BY <1>1, <2>4, <2>5
<1> QED BY <1>3, <1>4

LEMMA WriteMoves ==
  ASSUME FilesInv, TidyAll(files, clock), clock \in Nat, WriteMeterValue
  PROVE  Moves(files, files', clock, clock', {<<"meter", clock'>>}) /\ clock' = clock + 1
<1>1. clock' = clock + 1 /\ Active # {}
  BY DEF WriteMeterValue
<1> PICK k : k = clock'
  OBVIOUS
<1>2. k \in Nat /\ clock < k /\ clock <= k
  BY <1>1
<1> PICK a : a = ActiveEntry
  OBVIOUS
<1> PICK f : f = files[a]
  OBVIOUS
<1>3. a \in Entry /\ f.active /\ Tidy(f, clock)
  BY <1>1, ActiveIs DEF TidyAll
<1> PICK g : g = [f EXCEPT !.meters = Append(f.meters, k), !.await = Await(f, 1)]
  OBVIOUS
<1>4. Moved(f, g, clock, k, {<<"meter", k>>})
  BY <1>2, <1>3, MeterMoved, Zenon
<1>5. files' = [files EXCEPT ![a] = g]
  BY Zenon DEF WriteMeterValue
<1>6. Moves(files, files', clock, k, {<<"meter", k>>})
  <2>1. Moved(files[a], g, clock, k, {<<"meter", k>>})
    BY <1>4, Zenon
  <2> QED BY <1>2, <1>3, <1>5, <2>1, UpdateMoves, Zenon DEF Updates
<1> QED BY <1>1, <1>6

LEMMA SetIdMoves ==
  ASSUME FilesInv, TidyAll(files, clock), clock \in Nat, NEW e \in Entry, NEW i \in Id, SetRealId(e, i)
  PROVE  Moves(files, files', clock, clock, {})
<1>0. clock <= clock
  OBVIOUS
<1>1. files' = IF Exists(e) THEN [files EXCEPT ![e].id = i] ELSE files
  BY DEF SetRealId
<1>2. CASE ~Exists(e)
  BY <1>0, <1>1, <1>2, SameMoves
<1>3. CASE Exists(e)
  <2> PICK f : f = files[e]
    OBVIOUS
  <2> PICK g : g = [f EXCEPT !.id = i]
    OBVIOUS
  <2>1. Tidy(f, clock) /\ f.start # 0
    BY <1>3 DEF TidyAll, Exists
  <2>2. Moved(f, g, clock, clock, {})
    BY <2>1, IdMoved, Zenon
  <2>3. files' = [files EXCEPT ![e] = g]
    BY <1>1, <1>3, Zenon
  <2>4. Moved(files[e], g, clock, clock, {})
    BY <2>2, Zenon
  <2> QED BY <1>0, <2>3, <2>4, UpdateMoves, Zenon DEF Updates
<1> QED BY <1>2, <1>3

LEMMA ConfirmMoves ==
  ASSUME FilesInv, LoadedInv, TidyAll(files, clock), clock \in Nat, ConfirmLast,
         last_from_file => loaded.entry = NoEntry \/ loaded.data
  PROVE  /\ Moves(files, files', clock, clock, {})
         /\ last_from_file /\ loaded.entry # NoEntry =>
              Message(loaded.call) \notin PendingIn(files'[loaded.entry])
<1>0. clock <= clock
  OBVIOUS
<1>1. CASE ~(last_from_file /\ loaded.entry # NoEntry)
  <2>1. files' = files
    BY <1>1, Zenon DEF ConfirmLast
  <2> QED BY <1>0, <1>1, <2>1, SameMoves, Zenon
<1>2. CASE last_from_file /\ loaded.entry # NoEntry
  <2>1. loaded.data
    BY <1>2
  <2> PICK a : a = loaded.entry
    OBVIOUS
  <2> PICK f : f = files[a]
    OBVIOUS
  <2>2. a \in Entry /\ NextKind(f) # "none" /\ Message(loaded.call) = <<NextKind(f), NextNo(f)>>
        /\ loaded.next = f.conf + 1
    BY <2>1, Zenon DEF LoadedInv, LoadedRight
  <2>3. Tidy(f, clock) /\ f.start # 0 /\ f # NoFile
    <3>1. Tidy(f, clock) /\ IsRight(f)
      BY <2>2 DEF TidyAll, Tidy
    <3>2. f.start # 0
      BY <2>2, <3>1, NextKinds
    <3>3. NoFile.start = 0
      BY Zenon DEF NoFile
    <3> QED BY <3>1, <3>2, <3>3
  <2>4. loaded.call.kind = NextKind(f)
    BY <2>2 DEF Message
  <2>5. Less(Confirmed(f), f, clock) /\ <<NextKind(f), NextNo(f)>> \notin PendingIn(Confirmed(f))
    BY <2>2, <2>3, <2>4, ConfirmedLess
  <2>6. files' = [files EXCEPT ![a] = Confirmed(f)]
    BY <1>2, <2>3, Zenon DEF ConfirmLast
  <2> PICK g : g = Confirmed(f)
    OBVIOUS
  <2>7. Moved(files[a], g, clock, clock, {})
    BY <2>5, LessMoved
  <2>8. Moves(files, files', clock, clock, {}) /\ files'[a] = g
    <3>1. files' = [files EXCEPT ![a] = g]
      BY <2>6
    <3>2. a \in Entry
      BY <2>2
    <3>3. Updates(files', a, g, clock, clock, {})
      BY <1>0, <2>7, <3>1, <3>2, UpdateMoves, Zenon
    <3> QED BY <3>3, Zenon DEF Updates
  <2> QED BY <2>2, <2>5, <2>8, Zenon
<1> QED BY <1>1, <1>2

LEMMA GiveUpMoves ==
  ASSUME FilesInv, CacheInv, LoadedInv, RingInv, TidyAll(files, clock), GetNextFails
  PROVE  Moves(files, files', clock, clock, {})
<1>0. clock \in Nat /\ clock <= clock
  BY DEF RingInv
<1> PICK a : a = Loaded.entry
  OBVIOUS
<1> PICK f : f = files[a]
  OBVIOUS
<1>1. a \in Entry /\ NextKind(f) # "none"
  <2>1. Loaded.data /\ LoadedRight(Loaded, files)
    BY FromFileLoaded, LoadedNext DEF GetNextFails
  <2> QED BY <2>1, Zenon DEF LoadedRight
<1>2. Tidy(f, clock) /\ f.start # 0
  <2>1. Tidy(f, clock) /\ IsRight(f)
    BY <1>1 DEF TidyAll, Tidy
  <2> QED BY <1>1, <2>1, NextKinds
<1>3. Moved(f, GivenUp(f), clock, clock, {})
  BY <1>0, <1>2, GivenUpLess, LessMoved
<1>4. files' = [files EXCEPT ![a] = GivenUp(f)]
  BY Zenon DEF GetNextFails
<1> QED BY <1>0, <1>1, <1>3, <1>4, UpdateMoves, Zenon DEF Updates

LEMMA EntryIs == \A e \in Entry : e \in Nat /\ e # NoEntry
BY OcppTransactionAssumption DEF Entry, NoEntry

LEMMA HasStarted ==
  ASSUME NEW f, NEW n \in Nat, Tidy(f, n), NEW m \in PendingIn(f)
  PROVE  f.start # 0 /\ f.start \in Nat
<1>1. PendingIn(NoFile) = {}
  BY NoFileRight
<1> QED BY <1>1, FileNumbers DEF Tidy, IsRight, FileRight

\* A message that is in one file is in no other.
LEMMA PendingOnce ==
  ASSUME NEW fs, NEW n \in Nat, TidyAll(fs, n), Apart(fs), NEW d \in Entry, NEW e \in Entry,
         NEW m \in PendingIn(fs[d]), m \in PendingIn(fs[e])
  PROVE  d = e
<1> SUFFICES ASSUME d # e PROVE FALSE
  OBVIOUS
<1>1. Tidy(fs[d], n) /\ Tidy(fs[e], n)
  BY DEF TidyAll
<1>2. m[2] \in Numbers(fs[d]) /\ m[2] \in Numbers(fs[e]) /\ m[2] # 0
  BY <1>1, PendingNumbers
<1>3. fs[d].start # 0 /\ fs[e].start # 0 /\ fs[d].start \in Nat /\ fs[e].start \in Nat
  BY <1>1, HasStarted
<1>4. fs[d].start # fs[e].start
  BY <1>3 DEF Apart
<1>5. CASE fs[d].start < fs[e].start
  <2>1. fs[d].stop # 0 /\ fs[d].stop < fs[e].start
    BY <1>3, <1>5 DEF Apart
  <2> QED BY <1>1, <1>2, <1>3, <1>5, <2>1, ApartNumbers
<1>6. CASE fs[e].start < fs[d].start
  <2>1. fs[e].stop # 0 /\ fs[e].stop < fs[d].start
    BY <1>3, <1>6 DEF Apart
  <2> QED BY <1>1, <1>2, <1>3, <1>6, <2>1, ApartNumbers
<1> QED BY <1>3, <1>4, <1>5, <1>6

\* What was confirmed is in no file any more.
LEMMA ConfirmGone ==
  ASSUME FilesInv, LoadedInv, OrderInv, clock \in Nat, ConfirmLast, last_from_file, loaded.data
  PROVE  Message(loaded.call) \notin Pending'
<1> PICK a : a = loaded.entry
  OBVIOUS
<1> PICK m : m = Message(loaded.call)
  OBVIOUS
<1>1. a \in Entry /\ a # NoEntry /\ NextKind(files[a]) # "none" /\ m = <<NextKind(files[a]), NextNo(files[a])>>
  BY Zenon, EntryIs DEF LoadedInv, LoadedRight
<1>2. TidyAll(files, clock) /\ Apart(files) /\ Tidy(files[a], clock)
  BY <1>1 DEF OrderInv, TidyAll
<1>3. m \in PendingIn(files[a])
  BY <1>1, <1>2, NextIsOld
<1>4. m \notin PendingIn(files'[a]) /\ Moves(files, files', clock, clock, {})
  BY <1>1, <1>2, ConfirmMoves
<1>5. ASSUME NEW e \in Entry, m \in PendingIn(files'[e]) PROVE FALSE
  <2>1. m \in PendingIn(files[e])
    BY <1>4, <1>5 DEF Moves, Moved
  <2>2. e = a
    BY <1>1, <1>2, <1>3, <2>1, PendingOnce
  <2> QED BY <1>4, <1>5, <2>2
<1> QED BY <1>5 DEF Pending

-----------------------------------------------------------------------------
(* A start, while no transaction is active.                                *)

StartMessages(n) == IF Vacant = {} THEN {} ELSE {<<"start", n>>}

LEMMA StartOrdered ==
  ASSUME FilesInv, OrderInv, QueueInv, clock \in Nat, EnqueueStart, Active = {}
  PROVE  /\ OrderInv' /\ clock' = clock + 1 /\ UNCHANGED <<oldest, loaded, queue>>
         /\ Pending' \subseteq Pending \cup StartMessages(clock')
<1> PICK k : k = clock'
  OBVIOUS
<1>1. clock' = clock + 1 /\ UNCHANGED <<oldest, loaded, queue>>
  BY DEF EnqueueStart
<1>2. StopActive(clock + 1) = files
  BY DEF StopActive
<1>3. k \in Nat \ {0} /\ k \in Nat /\ clock <= k /\ clock < k /\ clock \in Nat
  BY <1>1
<1>4. CASE Vacant = {}
  <2>1. files' = files
    BY <1>2, <1>4 DEF EnqueueStart
  <2>2. Moves(files, files', clock, clock', {})
    BY <1>1, <1>3, <2>1, SameMoves DEF OrderInv
  <2> QED BY <1>1, <1>3, <1>4, <2>2, MovesKeep DEF StartMessages
<1>5. CASE Vacant # {}
  <2> PICK v : v = VacantEntry
    OBVIOUS
  <2> PICK g : g = Started(k)
    OBVIOUS
  <2>1. v \in Entry /\ files[v] = NoFile
    BY <1>5, VacantIs
  <2>2. files' = [files EXCEPT ![v] = g]
    BY <1>2, <1>5 DEF EnqueueStart
  <2>3. files = [e \in Entry |-> files[e]]
    BY DEF FilesInv
  <2>4. files'[v] = g /\ \A e \in Entry : e # v => files'[e] = files[e]
    BY <2>1, <2>2, <2>3
  <2>5. Tidy(g, k) /\ g.start = k /\ g.stop = 0 /\ Numbers(g) \subseteq {0, k}
        /\ PendingIn(g) \subseteq {<<"start", k>>}
    BY <1>3, StartedTidy, StartedNumbers
  <2>6. TidyAll(files', k)
    <3>1. ASSUME NEW e \in Entry, e # v PROVE Tidy(files'[e], k)
      <4>1. Tidy(files[e], clock)
        BY DEF OrderInv, TidyAll
      <4> QED BY <1>3, <2>4, <3>1, <4>1, TidyLater
    <3> QED BY <2>4, <2>5, <3>1, Zenon DEF TidyAll
  <2>7. ASSUME NEW e \in Entry, e # v, files[e].start # 0
        PROVE  files[e].start < k /\ files[e].stop # 0 /\ files[e].stop < k
    <3>1. Tidy(files[e], clock) /\ ~files[e].active
      BY DEF OrderInv, TidyAll, Active
    <3>2. files[e].stop # 0
      BY <2>7, <3>1 DEF Tidy, IsRight, FileRight
    <3>3. files[e].start \in Numbers(files[e]) /\ files[e].stop \in Numbers(files[e])
      BY DEF Numbers
    <3>4. files[e].start <= clock /\ files[e].stop <= clock /\ files[e].start \in Nat /\ files[e].stop \in Nat
      BY <3>1, <3>3, NumbersBound
    <3> QED BY <1>3, <3>2, <3>4
  <2>8. Apart(files')
    <3> SUFFICES ASSUME NEW d \in Entry, NEW e \in Entry, d # e, files'[d].start # 0, files'[e].start # 0
                 PROVE  /\ files'[d].start # files'[e].start
                        /\ files'[d].start < files'[e].start =>
                             files'[d].stop # 0 /\ files'[d].stop < files'[e].start
      BY Zenon DEF Apart
    <3>1. CASE d # v /\ e # v
      BY <2>4, <3>1 DEF OrderInv, Apart
    <3>2. CASE d = v
      <4>1. files'[d].start = k /\ files'[e] = files[e]
        BY <2>4, <2>5, <3>2
      <4>2. files[e].start < k /\ files[e].start \in Nat
        <5>1. Tidy(files[e], clock)
          BY DEF OrderInv, TidyAll
        <5> QED BY <2>7, <3>2, <4>1, <5>1, FileNumbers
      <4> QED BY <1>3, <4>1, <4>2
    <3>3. CASE e = v
      <4>1. files'[e].start = k /\ files'[d] = files[d]
        BY <2>4, <2>5, <3>3
      <4>2. files[d].start < k /\ files[d].stop # 0 /\ files[d].stop < k /\ files[d].start \in Nat
        <5>1. Tidy(files[d], clock)
          BY DEF OrderInv, TidyAll
        <5> QED BY <2>7, <3>3, <4>1, <5>1, FileNumbers
      <4> QED BY <1>3, <4>1, <4>2
    <3> QED BY <3>1, <3>2, <3>3
  <2>9. Line(queue, files', k)
    <3>1. ASSUME NEW i \in 1 .. Len(queue), NEW e \in Entry PROVE queue[i].no \notin Numbers(files'[e])
      <4>1. queue[i].no \in 1 .. clock /\ queue[i].no \notin Numbers(files[e])
        BY DEF OrderInv, Line
      <4>2. queue[i].no \notin {0, k}
        BY <1>3, <4>1
      <4> QED BY <2>4, <2>5, <4>1, <4>2
    <3>2. \A i \in 1 .. Len(queue) : queue[i].no \in 1 .. k
      <4> TAKE i \in 1 .. Len(queue)
      <4>1. queue[i].no \in 1 .. clock
        BY DEF OrderInv, Line
      <4> QED BY <1>3, <4>1
    <3> QED BY <3>1, <3>2 DEF OrderInv, Line
  <2>10. ASSUME NEW e \in Entry, NEW m \in PendingIn(files'[e])
         PROVE  m \in Pending \cup {<<"start", k>>}
    <3>1. CASE e = v
      BY <2>4, <2>5, <2>10, <3>1
    <3>2. CASE e # v
      BY <2>4, <2>10, <3>2 DEF Pending
    <3> QED BY <3>1, <3>2
  <2>11. Pending' \subseteq Pending \cup {<<"start", k>>}
    BY <2>10 DEF Pending
  <2>12. OrderInv'
    BY <1>1, <2>6, <2>8, <2>9 DEF OrderInv
  <2> QED BY <1>1, <1>5, <2>11, <2>12 DEF StartMessages
<1> QED BY <1>4, <1>5

LEMMA StartCached ==
  ASSUME FilesInv, CacheInv, LoadedInv, OrderInv, CacheOrder, clock \in Nat, EnqueueStart, Active = {},
         \A c \in oldest : c.entry # VacantEntry
  PROVE  CacheOrder'
<1> PICK k : k = clock'
  OBVIOUS
<1>1. k = clock + 1 /\ UNCHANGED <<oldest, loaded, queue>>
  BY DEF EnqueueStart
<1>2. StopActive(clock + 1) = files
  BY DEF StopActive
<1>3. k \in Nat \ {0} /\ clock <= k /\ clock < k /\ clock \in Nat /\ k \in Nat
  BY <1>1
<1>4. CASE Vacant = {}
  <2>1. files' = files
    BY <1>2, <1>4 DEF EnqueueStart
  <2>2. Moves(files, files', clock, k, {})
    BY <1>3, <2>1, SameMoves DEF OrderInv
  <2> QED BY <1>1, <1>3, <2>1, <2>2, MovesCache
<1>5. CASE Vacant # {}
  <2> PICK v : v = VacantEntry
    OBVIOUS
  <2> PICK g : g = Started(k)
    OBVIOUS
  <2>1. v \in Entry /\ files[v] = NoFile
    BY <1>5, VacantIs
  <2>2. files' = [files EXCEPT ![v] = g]
    BY <1>1, <1>2, <1>5 DEF EnqueueStart
  <2>3. files = [e \in Entry |-> files[e]]
    BY DEF FilesInv
  <2>4. files'[v] = g /\ \A e \in Entry : e # v => files'[e] = files[e]
    BY <2>1, <2>2, <2>3
  <2>5. g.start = k /\ PendingIn(g) \subseteq {<<"start", k>>}
    BY <1>3, StartedNumbers
  <2>6. Oldest(oldest, files', k)
    <3>1. ASSUME NEW c \in oldest
          PROVE  c.time \in 1 .. k /\ c.time < k /\ (files'[c.entry].start # 0 => c.time = files'[c.entry].start)
      <4>1. c.entry \in Entry /\ c.entry # v
        BY DEF CacheInv
      <4>2. c.time \in 1 .. clock /\ (files[c.entry].start # 0 => c.time = files[c.entry].start)
        BY DEF CacheOrder, Oldest
      <4>3. c.time \in 1 .. k /\ c.time < k
        BY <1>3, <4>2
      <4> QED BY <2>4, <4>1, <4>2, <4>3
    <3>2. \A c, d \in oldest : c.time = d.time => c = d
      BY DEF CacheOrder, Oldest
    <3>3. ASSUME NEW e \in Entry, files'[e].start # 0
          PROVE  (\E c \in oldest : c.entry = e) \/ (\A c \in oldest : c.time < files'[e].start)
      <4>1. CASE e = v
        BY <2>4, <2>5, <3>1, <4>1
      <4>2. CASE e # v
        <5>1. files'[e] = files[e]
          BY <2>4, <4>2
        <5> QED BY <3>3, <5>1 DEF CacheOrder, Oldest
      <4> QED BY <4>1, <4>2
    <3> QED BY <3>1, <3>2, <3>3 DEF Oldest
  <2>7. First(loaded, files')
    <3> SUFFICES ASSUME loaded.data PROVE First(loaded, files')
      BY Zenon DEF First
    <3> PICK t : t = loaded.time
      OBVIOUS
    <3> PICK a : a = loaded.entry
      OBVIOUS
    <3>1. a \in Entry /\ NextKind(files[a]) # "none" /\ t = NextNo(files[a])
          /\ \A e \in Entry : \A m \in PendingIn(files[e]) : t <= m[2]
      BY Zenon DEF First, LoadedInv, LoadedRight, CacheOrder
    <3>2. a # v
      BY <2>1, <3>1, NoFileRight
    <3>3. t \in 1 .. clock
      BY <3>1, NextIsOld DEF OrderInv, TidyAll
    <3>4. ASSUME NEW e \in Entry, NEW m \in PendingIn(files'[e]) PROVE t <= m[2]
      <4>1. CASE e = v
        <5>1. m = <<"start", k>>
          BY <2>4, <2>5, <3>4, <4>1
        <5>2. t <= k
          BY <1>3, <3>3
        <5> QED BY <5>1, <5>2
      <4>2. CASE e # v
        BY <2>4, <3>1, <3>4, <4>2, Zenon
      <4> QED BY <4>1, <4>2
    <3>5. files'[a] = files[a]
      BY <2>4, <3>1, <3>2
    <3>6. t = NextNo(files'[a])
      BY <3>1, <3>5, Zenon
    <3> QED BY <3>4, <3>6, Zenon DEF First
  <2> QED BY <1>1, <2>6, <2>7, Zenon DEF CacheOrder
<1> QED BY <1>4, <1>5

-----------------------------------------------------------------------------
(* The oldest file, and what is loaded from it.                            *)

Directory == {Cached(e) : e \in {x \in Entry : Exists(x)}}

LEMMA DirectoryIs ==
  ASSUME FilesInv, TidyAll(files, clock), clock \in Nat
  PROVE  /\ IsFiniteSet(Directory) /\ Directory \subseteq [entry : Entry, time : Nat]
         /\ \A c \in Directory : c.entry \in Entry /\ files[c.entry].start # 0
                                 /\ c.time = files[c.entry].start /\ c.time \in 1 .. clock
         /\ \A e \in Entry : files[e].start # 0 =>
              Cached(e) \in Directory /\ Cached(e).entry = e /\ Cached(e).time = files[e].start
<1>1. IsFiniteSet(Entry)
  BY FS_Interval, OcppTransactionAssumption DEF Entry
<1>2. IsFiniteSet({x \in Entry : Exists(x)})
  BY <1>1, FS_Subset
<1>3. IsFiniteSet(Directory)
  <2> PICK S : S = {x \in Entry : Exists(x)}
    OBVIOUS
  <2> PICK f : f = [e \in S |-> Cached(e)]
    OBVIOUS
  <2>1. f \in Surjection(S, Directory)
    BY DEF Directory, Surjection
  <2> QED BY <1>2, <2>1, FS_Surjection
<1>4. ASSUME NEW e \in Entry, files[e].start # 0 PROVE files[e].start \in 1 .. clock
  <2>1. Tidy(files[e], clock) /\ files[e].start \in Numbers(files[e])
    BY DEF TidyAll, Numbers
  <2> PICK x : x = files[e].start
    OBVIOUS
  <2>2. x \in Nat /\ x <= clock /\ x # 0
    BY <1>4, <2>1, NumbersBound
  <2> QED BY <2>2
<1>5. \A c \in Directory : c.entry \in Entry /\ files[c.entry].start # 0
                           /\ c.time = files[c.entry].start
  BY DEF Directory, Cached, Exists
<1>6. \A c \in Directory : c.time \in 1 .. clock
  BY <1>4, <1>5
<1>7. \A e \in Entry : files[e].start # 0 =>
        Cached(e) \in Directory /\ Cached(e).entry = e /\ Cached(e).time = files[e].start
  BY DEF Directory, Cached, Exists
<1>8. Directory \subseteq [entry : Entry, time : Nat]
  <2>1. ASSUME NEW e \in Entry, files[e].start # 0 PROVE Cached(e) \in [entry : Entry, time : Nat]
    <3>1. files[e].start \in Nat
      BY <1>4, <2>1
    <3> QED BY <3>1 DEF Cached
  <2> QED BY <2>1 DEF Directory, Exists
<1> QED BY <1>3, <1>5, <1>6, <1>7, <1>8

Before(t) == {d \in Directory : d.time < t}

LEMMA PopulatedIs ==
  Populated = {c \in Directory : Cardinality(Before(c.time)) < CacheSize}
BY DEF Populated, Directory, Before

\* populate_oldest takes the oldest files of the directory.
LEMMA PopulatedOldest ==
  ASSUME FilesInv, OrderInv, clock \in Nat
  PROVE  /\ Oldest(Populated, files, clock)
         /\ Populated = {} => \A e \in Entry : files[e].start = 0
         /\ \A c \in Populated : files[c.entry].start # 0
<1>0. TidyAll(files, clock)
  BY DEF OrderInv
<1>1. \A c \in Populated : c \in Directory /\ Cardinality(Before(c.time)) < CacheSize
  BY PopulatedIs
<1>2. \A c \in Populated : c.entry \in Entry /\ c.time \in 1 .. clock
                           /\ c.time = files[c.entry].start /\ files[c.entry].start # 0
  BY <1>0, <1>1, DirectoryIs
<1>3. ASSUME NEW c \in Populated, NEW d \in Populated, c.time = d.time PROVE c = d
  <2>1. c.entry = d.entry
    BY <1>2, <1>3 DEF OrderInv, Apart
  <2>2. c \in [entry : Entry, time : Nat] /\ d \in [entry : Entry, time : Nat]
    BY <1>0, <1>1, DirectoryIs
  <2> QED BY <1>3, <2>1, <2>2
<1>4. ASSUME NEW t \in Nat, NEW u \in Nat, t <= u, Cardinality(Before(u)) < CacheSize
      PROVE  Cardinality(Before(t)) < CacheSize
  <2>1. IsFiniteSet(Before(u)) /\ IsFiniteSet(Before(t))
    BY <1>0, DirectoryIs, FS_Subset DEF Before
  <2>2. Before(t) \subseteq Before(u)
    <3>1. \A d \in Directory : d.time \in 1 .. clock
      BY <1>0, DirectoryIs
    <3> QED BY <1>4, <3>1 DEF Before
  <2>3. Cardinality(Before(t)) <= Cardinality(Before(u))
    BY <2>1, <2>2, FS_Subset
  <2> QED BY <1>4, <2>1, <2>3, FS_CardinalityType, OcppTransactionAssumption
<1>5. ASSUME NEW e \in Entry, files[e].start # 0
      PROVE  (\E c \in Populated : c.entry = e) \/ (\A c \in Populated : c.time < files[e].start)
  <2>1. Cached(e) \in Directory /\ Cached(e).entry = e /\ Cached(e).time = files[e].start
        /\ files[e].start \in Nat
    BY <1>0, <1>5, DirectoryIs
  <2>2. CASE Cardinality(Before(files[e].start)) < CacheSize
    <3>1. Cached(e) \in Populated
      BY <2>1, <2>2, PopulatedIs
    <3> QED BY <2>1, <3>1
  <2>3. CASE ~(Cardinality(Before(files[e].start)) < CacheSize)
    <3>1. ASSUME NEW c \in Populated PROVE c.time < files[e].start
      <4>1. c.time \in Nat /\ Cardinality(Before(c.time)) < CacheSize
        BY <1>1, <1>2
      <4>2. ~(files[e].start <= c.time)
        BY <1>4, <2>1, <2>3, <4>1
      <4> QED BY <2>1, <4>1, <4>2
    <3> QED BY <3>1
  <2> QED BY <2>2, <2>3
<1>6. ASSUME NEW e \in Entry, files[e].start # 0 PROVE Populated # {}
  <2> DEFINE T == {c.time : c \in Directory}
  <2>1. T # {} /\ T \subseteq Nat
    BY <1>0, <1>6, DirectoryIs
  <2>2. PICK t \in T : \A u \in T : t <= u
    BY <2>1, LeastNumber
  <2>3. PICK c \in Directory : c.time = t
    BY <2>2
  <2>4. Before(t) = {}
    <3>1. \A d \in Directory : t <= d.time /\ d.time \in Nat /\ t \in Nat
      BY <2>1, <2>2
    <3> QED BY <3>1 DEF Before
  <2>5. Cardinality(Before(t)) = 0
    BY <2>4, FS_EmptySet
  <2>6. c \in Populated
    BY <2>3, <2>5, PopulatedIs, OcppTransactionAssumption
  <2> QED BY <2>6
<1> QED BY <1>2, <1>3, <1>5, <1>6 DEF Oldest

\* The cache stays right when what is gone is dropped from it.
LEMMA KnownOldest ==
  ASSUME FilesInv, CacheInv, OrderInv, Oldest(oldest, files, clock), clock \in Nat
  PROVE  Oldest(OldestKnown, files, clock)
<1>1. CASE Kept # {}
  <2>1. OldestKnown = Kept /\ Kept \subseteq oldest
    BY <1>1 DEF OldestKnown, Kept
  <2>2. ASSUME NEW e \in Entry, files[e].start # 0
        PROVE  (\E c \in Kept : c.entry = e) \/ (\A c \in Kept : c.time < files[e].start)
    <3>1. CASE \E c \in oldest : c.entry = e
      <4>1. PICK c \in oldest : c.entry = e
        BY <3>1
      <4>2. c.time \in Nat
        BY DEF CacheInv
      <4>3. c \in Kept
        BY <2>2, <4>1, <4>2 DEF Kept, Exists
      <4> QED BY <4>1, <4>3
    <3>2. CASE \A c \in oldest : c.time < files[e].start
      BY <2>1, <3>2
    <3> QED BY <2>2, <3>1, <3>2 DEF Oldest
  <2>3. /\ \A c \in Kept : c.time \in 1 .. clock /\ (files[c.entry].start # 0 => c.time = files[c.entry].start)
        /\ \A c, d \in Kept : c.time = d.time => c = d
    BY <2>1 DEF Oldest
  <2> QED BY <2>1, <2>2, <2>3 DEF Oldest
<1>2. CASE Kept = {}
  BY <1>2, PopulatedOldest DEF OldestKnown
<1> QED BY <1>1, <1>2

\* The oldest file known is the oldest there is.
LEMMA OldestFirst ==
  ASSUME FilesInv, CacheInv, OrderInv, Oldest(oldest, files, clock), clock \in Nat
  PROVE  /\ OldestKnown = {} => \A e \in Entry : files[e].start = 0
         /\ OldestKnown # {} =>
              /\ OldestEntry \in Entry /\ files[OldestEntry].start # 0
              /\ \A e \in Entry : files[e].start # 0 => files[OldestEntry].start <= files[e].start
<1>1. Oldest(OldestKnown, files, clock) /\ OldestKnown \subseteq [entry : Entry, time : Nat]
  BY KnownOldest, OldestType
<1>2. ASSUME OldestKnown = {} PROVE \A e \in Entry : files[e].start = 0
  BY <1>2, PopulatedOldest DEF OldestKnown
<1>3. ASSUME OldestKnown # {}
      PROVE  /\ OldestEntry \in Entry /\ files[OldestEntry].start # 0
             /\ \A e \in Entry : files[e].start # 0 => files[OldestEntry].start <= files[e].start
  <2> PICK O : O = OldestKnown
    OBVIOUS
  <2> DEFINE T == {c.time : c \in O}
  <2>1. T \subseteq Nat /\ T # {}
    BY <1>1, <1>3
  <2>2. PICK t \in T : \A u \in T : t <= u
    BY <2>1, LeastNumber
  <2>3. \E x \in O : \A d \in O : x.time <= d.time
    BY <2>2
  <2>4. PICK o : o = CHOOSE x \in O : \A d \in O : x.time <= d.time
    OBVIOUS
  <2>5. o \in O /\ \A d \in O : o.time <= d.time
    BY <2>3, <2>4
  <2>6. OldestEntry = o.entry /\ o.entry \in Entry /\ o.time \in Nat
    <3>1. OldestEntry = o.entry
      BY <2>4, Zenon DEF OldestEntry
    <3> QED BY <1>1, <2>5, <3>1
  <2>7. files[o.entry].start # 0
    <3>1. CASE Kept # {}
      <4>1. O = Kept
        BY <3>1 DEF OldestKnown
      <4>2. PICK d \in oldest : Exists(d.entry) /\ d.time <= o.time
        BY <2>5, <4>1 DEF Kept
      <4>3. d \in Kept
        BY <4>2 DEF Kept, CacheInv
      <4>4. o.time <= d.time /\ d.time \in Nat
        BY <1>1, <2>5, <4>1, <4>3
      <4>5. o = d
        <5>1. o.time = d.time
          BY <2>6, <4>2, <4>4
        <5> QED BY <1>1, <2>5, <4>1, <4>3, <5>1 DEF Oldest
      <4> QED BY <4>2, <4>5 DEF Exists
    <3>2. CASE Kept = {}
      BY <2>5, <3>2, PopulatedOldest DEF OldestKnown
    <3> QED BY <3>1, <3>2
  <2>8. o.time = files[o.entry].start
    BY <1>1, <2>5, <2>7 DEF Oldest
  <2>9. ASSUME NEW e \in Entry, files[e].start # 0 PROVE o.time <= files[e].start
    <3>1. CASE \E c \in O : c.entry = e
      <4>1. PICK c \in O : c.entry = e
        BY <3>1
      <4>2. c.time = files[e].start
        BY <1>1, <2>9, <4>1 DEF Oldest
      <4> QED BY <2>5, <4>2
    <3>2. CASE \A c \in O : c.time < files[e].start
      <4>1. o.time < files[e].start /\ files[e].start \in Nat
        <5>1. Tidy(files[e], clock)
          BY DEF OrderInv, TidyAll
        <5> QED BY <2>5, <3>2, <5>1, FileNumbers
      <4> QED BY <2>6, <4>1
    <3> QED BY <1>1, <2>9, <3>1, <3>2 DEF Oldest
  <2> QED BY <2>6, <2>7, <2>8, <2>9, Zenon
<1> QED BY <1>2, <1>3

LEMMA NotLoaded ==
  ASSUME LoadedInv, NEW e \in Entry \cup {NoEntry}
  PROVE  ~Unloaded(e).data
<1>1. Unloaded(e) = LoadLit(FALSE, e, Never, loaded.call, loaded.next)
  BY UnloadIs, Zenon DEF Unloaded, LoadedInv
<1>2. IsUnloaded(Unloaded(e), e, Never)
  BY <1>1, UnloadFields, MaxNoType, Zenon DEF LoadedInv
<1> QED BY <1>2 DEF IsUnloaded

\* What is loaded next is the oldest message on file, and it is not there only
\* when nothing waits on file.
LEMMA LoadedFirst ==
  ASSUME FilesInv, CacheInv, LoadedInv, OrderInv, CacheOrder, clock \in Nat
  PROVE  /\ First(Loaded, files)
         /\ Loaded.data => Loaded.time \in 1 .. clock
         /\ ~Loaded.data => Loaded.time = Never /\ Pending = {}
<1>0. LoadedRight(Loaded, files) /\ (Loaded.data \/ Loaded.time = Never)
  BY LoadedNext
<1>1. ASSUME First(Loaded, files), Loaded.data PROVE Loaded.time \in 1 .. clock
  <2>1. Loaded.entry \in Entry /\ NextKind(files[Loaded.entry]) # "none"
        /\ Loaded.time = NextNo(files[Loaded.entry])
    BY <1>0, <1>1, Zenon DEF LoadedRight, First
  <2> QED BY <2>1, NextIsOld DEF OrderInv, TidyAll
<1>2. CASE loaded.data
  <2>1. Loaded = loaded
    BY <1>2 DEF Loaded
  <2> QED BY <1>0, <1>1, <1>2, <2>1, Zenon DEF CacheOrder
<1>3. CASE ~loaded.data /\ OldestKnown = {}
  <2>1. \A e \in Entry : files[e] = NoFile
    BY <1>3, OldestFirst DEF FilesInv, IsRight, FileRight, CacheOrder
  <2>2. Pending = {}
    BY <2>1, NoFileRight DEF Pending
  <2>3. ~Loaded.data
    <3>1. Loaded = Unloaded(NoEntry)
      BY <1>3, Zenon DEF Loaded, LoadNext
    <3> QED BY <3>1, NotLoaded
  <2> QED BY <1>0, <2>2, <2>3, Zenon DEF First
<1>4. CASE ~loaded.data /\ OldestKnown # {}
  <2> PICK a : a = OldestEntry
    OBVIOUS
  <2> PICK f : f = files[a]
    OBVIOUS
  <2>1. a \in Entry /\ f.start # 0 /\ \A e \in Entry : files[e].start # 0 => f.start <= files[e].start
    BY <1>4, OldestFirst DEF CacheOrder
  <2>2. Tidy(f, clock)
    BY <2>1 DEF OrderInv, TidyAll
  <2>3. ASSUME NEW e \in Entry, e # a, files[e].start # 0
        PROVE  f.stop # 0 /\ f.stop < files[e].start
    <3>1. f.start \in Nat /\ files[e].start \in Nat /\ f.start <= files[e].start
      <4>1. Tidy(files[e], clock)
        BY DEF OrderInv, TidyAll
      <4> QED BY <2>1, <2>2, <2>3, <4>1, FileNumbers
    <3>2. f.start # files[e].start
      BY <2>1, <2>3 DEF OrderInv, Apart
    <3>3. f.start < files[e].start
      BY <3>1, <3>2
    <3> QED BY <2>1, <2>3, <3>3 DEF OrderInv, Apart
  <2>4. CASE NextKind(f) = "none"
    <3>1. PendingIn(f) = {} /\ f.stop = 0
      BY <2>1, <2>2, <2>4, NextFirst
    <3>2. ASSUME NEW e \in Entry PROVE PendingIn(files[e]) = {}
      <4>1. CASE e = a
        BY <3>1, <4>1
      <4>2. CASE e # a
        <5>1. files[e].start = 0
          BY <2>3, <3>1, <4>2
        <5>2. files[e] = NoFile
          BY <5>1 DEF FilesInv, IsRight, FileRight
        <5> QED BY <5>2, NoFileRight
      <4> QED BY <4>1, <4>2
    <3>3. Pending = {}
      BY <3>2 DEF Pending
    <3>4. ~Loaded.data
      <4>1. Loaded = Unloaded(a)
        BY <1>4, <2>4, Zenon DEF Loaded, LoadNext
      <4> QED BY <2>1, <4>1, NotLoaded
    <3> QED BY <1>0, <3>3, <3>4, Zenon DEF First
  <2>5. CASE NextKind(f) # "none"
    <3> PICK t : t = NextNo(f)
      OBVIOUS
    <3> PICK c : c = Call(NextKind(f), f.start, NextNo(f), f.id)
      OBVIOUS
    <3>b. PICK b : b = TRUE
      OBVIOUS
    <3>1. Loaded = LoadLit(b, a, t, c, f.conf + 1)
      BY <1>4, <2>5, <3>b, Zenon DEF Loaded, LoadNext, LoadLit
    <3>2. Loaded.data = b /\ Loaded.entry = a /\ Loaded.time = t
      BY <3>1 DEF LoadLit
    <3>3. t \in 1 .. clock /\ \A m \in PendingIn(f) : t <= m[2]
      BY <2>2, <2>5, NextIsOld
    <3>4. ASSUME NEW e \in Entry, NEW m \in PendingIn(files[e]) PROVE t <= m[2]
      <4>1. CASE e = a
        BY <3>3, <3>4, <4>1
      <4>2. CASE e # a
        <5>1. Tidy(files[e], clock)
          BY DEF OrderInv, TidyAll
        <5>2. files[e].start # 0 /\ files[e].start \in Nat /\ files[e].start <= m[2] /\ m[2] \in Nat
          BY <3>4, <5>1, HasStarted, PendingNumbers
        <5>3. f.stop # 0 /\ f.stop < files[e].start /\ f.stop \in Nat
          BY <2>2, <2>3, <4>2, <5>2, FileNumbers
        <5>4. <<"stop", f.stop>> \in PendingIn(f)
          BY <5>3, PendingAre
        <5>5. t <= f.stop
          BY <3>3, <5>4
        <5> QED BY <3>3, <5>2, <5>3, <5>5
      <4> QED BY <4>1, <4>2
    <3>5. First(Loaded, files)
      BY <3>2, <3>4, Zenon DEF First
    <3>6. Loaded.data
      BY <3>2, <3>b, Zenon
    <3> QED BY <1>0, <1>1, <3>5, <3>6, Zenon
  <2> QED BY <2>4, <2>5
<1> QED BY <1>2, <1>3, <1>4

-----------------------------------------------------------------------------
(* The ring of times beside the queue.                                     *)

\* Where the time of the i-th queued message is.
Slot(front, i) == IF front + i >= QueueCap THEN front + i - QueueCap ELSE front + i

\* The ring holds the times of what is queued, in its order.
Timed(front, back, emptying, times, q) ==
    /\ Len(q) <= QueueCap
    /\ Len(q) = 0 => front = back /\ emptying
    /\ Len(q) > 0 => back = Slot(front, Len(q)) /\ (front = back => ~emptying)
    /\ \A i \in 1 .. Len(q) : times[Slot(front, i)] = q[i].no

TimesInv == Timed(ring.front, ring.back, ring.emptying, ring.times, queue)

Ends == -1 .. QueueCap - 1

LEMMA SlotIs ==
  ASSUME NEW f \in Ends
  PROVE  /\ \A i \in 1 .. QueueCap : Slot(f, i) \in 0 .. QueueCap - 1 /\ Slot(f, i) \in Ends
         /\ \A i, j \in 1 .. QueueCap : Slot(f, i) = Slot(f, j) => i = j
         /\ Slot(f, 0) = f /\ After(f) = Slot(f, 1)
         /\ \A i \in 1 .. QueueCap : i < QueueCap =>
              After(Slot(f, i)) = Slot(f, i + 1) /\ Slot(After(f), i) = Slot(f, i + 1)
         /\ \A i \in 1 .. QueueCap : i < QueueCap => Slot(f, i) # f
<1>1. QueueCap \in Nat \ {0}
  BY OcppTransactionAssumption
<1>2. \A i \in 1 .. QueueCap : Slot(f, i) \in 0 .. QueueCap - 1 /\ Slot(f, i) \in Ends
  BY <1>1 DEF Slot, Ends
<1>3. \A i, j \in 1 .. QueueCap : Slot(f, i) = Slot(f, j) => i = j
  BY <1>1 DEF Slot, Ends
<1>4. Slot(f, 0) = f /\ After(f) = Slot(f, 1)
  BY <1>1 DEF Slot, Ends, After
<1>5. \A i \in 1 .. QueueCap : i < QueueCap => After(Slot(f, i)) = Slot(f, i + 1)
  BY <1>1 DEF Slot, Ends, After
<1>6. \A i \in 1 .. QueueCap : i < QueueCap => Slot(After(f), i) = Slot(f, i + 1)
  BY <1>1 DEF Slot, Ends, After
<1>7. \A i \in 1 .. QueueCap : i < QueueCap => Slot(f, i) # f
  BY <1>1 DEF Slot, Ends
<1> QED BY <1>2, <1>3, <1>4, <1>5, <1>6, <1>7

LEMMA RingFields ==
  ASSUME RingInv
  PROVE  /\ ring.front \in Ends /\ ring.back \in Ends
         /\ ring.times = [i \in 0 .. QueueCap - 1 |-> ring.times[i]]
         /\ \A i \in 0 .. QueueCap - 1 : ring.times[i] \in Nat
BY DEF RingInv, RingType, Ends

HasEnds(r, f, b, t) == r.front = f /\ r.back = b /\ r.times = t

LEMMA RingSet ==
  ASSUME RingInv, NEW n
  PROVE  /\ HasEnds(SetTime(ring, n), ring.front, After(ring.back), [ring.times EXCEPT ![After(ring.back)] = n])
         /\ ~SetTime(ring, n).emptying
<1> PICK b : b = FALSE
  OBVIOUS
<1> PICK k : k = After(ring.back)
  OBVIOUS
<1> PICK t : t = [ring.times EXCEPT ![k] = n]
  OBVIOUS
<1>0. ring \in RingType
  BY DEF RingInv
<1> PICK r1 : r1 = [ring EXCEPT !.emptying = b]
  OBVIOUS
<1>1. r1 = [front |-> ring.front, back |-> ring.back, emptying |-> b, times |-> ring.times]
  BY <1>0 DEF RingType
<1> PICK r2 : r2 = [r1 EXCEPT !.back = k]
  OBVIOUS
<1>2. r2 = [front |-> ring.front, back |-> k, emptying |-> b, times |-> ring.times]
  BY <1>1
<1> PICK r3 : r3 = [r2 EXCEPT !.times = t]
  OBVIOUS
<1>3. r3 = [front |-> ring.front, back |-> k, emptying |-> b, times |-> t]
  BY <1>2
<1>4. HasEnds(r3, ring.front, k, t) /\ r3.emptying = b
  BY <1>3 DEF HasEnds
<1>5. SetTime(ring, n) = r3
  <2>1. SetTime(ring, n) = [ring EXCEPT !.emptying = FALSE, !.back = After(@), !.times[After(ring.back)] = n]
    BY Zenon DEF SetTime
  <2>2. r2 = [ring EXCEPT !.emptying = FALSE, !.back = After(@)]
    <3>1. r1.back = ring.back
      BY <1>1
    <3> QED BY <3>1, Zenon
  <2>3. r3 = [r2 EXCEPT !.times[k] = n]
    <3>1. r2.times = ring.times
      BY <1>2
    <3> QED BY <3>1, Zenon
  <2> QED BY <2>1, <2>2, <2>3, Zenon
<1> QED BY <1>4, <1>5, Zenon

LEMMA RingGot ==
  ASSUME RingInv
  PROVE  HasEnds(GetTime(ring), After(ring.front), ring.back, ring.times) /\ GetTime(ring).emptying
<1> PICK b : b = TRUE
  OBVIOUS
<1> PICK k : k = After(ring.front)
  OBVIOUS
<1>0. ring \in RingType
  BY DEF RingInv
<1> PICK r1 : r1 = [ring EXCEPT !.emptying = b]
  OBVIOUS
<1>1. r1 = [front |-> ring.front, back |-> ring.back, emptying |-> b, times |-> ring.times]
  BY <1>0 DEF RingType
<1> PICK r2 : r2 = [r1 EXCEPT !.front = k]
  OBVIOUS
<1>2. r2 = [front |-> k, back |-> ring.back, emptying |-> b, times |-> ring.times]
  BY <1>1
<1>3. HasEnds(r2, k, ring.back, ring.times) /\ r2.emptying = b
  BY <1>2 DEF HasEnds
<1>4. GetTime(ring) = r2
  <2>1. r1.front = ring.front
    BY <1>1
  <2> QED BY <2>1, Zenon DEF GetTime
<1> QED BY <1>3, <1>4, Zenon

LEMMA CapType == QueueCap \in Nat \ {0}
BY OcppTransactionAssumption

\* The time peeked at is that of the head of the queue.
LEMMA PeekIs ==
  ASSUME RingInv, QueueInv, TimesInv
  PROVE  /\ queue = <<>> => PeekTime(ring) = Never
         /\ queue # <<>> => Len(queue) \in Nat \ {0} /\ Head(queue) = queue[1]
                            /\ PeekTime(ring) = queue[1].no
<1> PICK f : f = ring.front
  OBVIOUS
<1>1. f \in Ends /\ queue \in Seq(CallType)
  BY RingFields DEF QueueInv
<1>2. CASE queue = <<>>
  <2>1. Len(queue) = 0
    BY <1>2
  <2>2. ring.front = ring.back /\ ring.emptying
    BY <2>1, Zenon DEF TimesInv, Timed
  <2> QED BY <1>2, <2>2, Zenon DEF PeekTime
<1>3. CASE queue # <<>>
  <2>1. Len(queue) \in Nat \ {0} /\ 1 \in 1 .. Len(queue) /\ Head(queue) = queue[1] /\ Len(queue) > 0
    BY <1>1, <1>3
  <2>2. ~(ring.front = ring.back /\ ring.emptying)
    BY <2>1, Zenon DEF TimesInv, Timed
  <2>3. ring.times[Slot(f, 1)] = queue[1].no
    BY <2>1, Zenon DEF TimesInv, Timed
  <2>4. PeekTime(ring) = ring.times[After(f)]
    BY <2>2, Zenon DEF PeekTime
  <2>5. After(f) = Slot(f, 1)
    BY <1>1, SlotIs
  <2> QED BY <1>3, <2>1, <2>3, <2>4, <2>5, Zenon
<1> QED BY <1>2, <1>3

\* A ring that has room for one more time.
HasRoom(f, b, e, t, q) ==
    /\ f \in Ends /\ b \in Ends /\ t = [i \in 0 .. QueueCap - 1 |-> t[i]]
    /\ q \in Seq(CallType) /\ Len(q) < QueueCap /\ Timed(f, b, e, t, q)

LEMMA SendTimed ==
  ASSUME NEW f, NEW b, NEW e, NEW t, NEW q, HasRoom(f, b, e, t, q), NEW c \in CallType, NEW d, ~d
  PROVE  Timed(f, After(b), d, [t EXCEPT ![After(b)] = c.no], Append(q, c))
<1> PICK k : k = After(b)
  OBVIOUS
<1> PICK n : n = c.no
  OBVIOUS
<1> PICK u : u = [t EXCEPT ![k] = n]
  OBVIOUS
<1> PICK p : p = Append(q, c)
  OBVIOUS
<1>0. /\ f \in Ends /\ b \in Ends /\ t = [i \in 0 .. QueueCap - 1 |-> t[i]]
      /\ q \in Seq(CallType) /\ Len(q) < QueueCap /\ Timed(f, b, e, t, q)
  BY Zenon DEF HasRoom
<1> PICK l : l = Len(q)
  OBVIOUS
<1>1. l \in Nat /\ Len(p) = l + 1 /\ p[l + 1] = c /\ \A i \in 1 .. l : p[i] = q[i]
  BY <1>0
<1>2. l + 1 \in 1 .. QueueCap /\ l < QueueCap
  BY <1>0, <1>1, CapType
<1>3. k = Slot(f, l + 1)
  <2>1. CASE l = 0
    <3>1. b = f
      BY <1>0, <2>1, Zenon DEF Timed
    <3> QED BY <1>0, <2>1, <3>1, SlotIs
  <2>2. CASE l # 0
    <3>1. l > 0 /\ l \in 1 .. QueueCap
      BY ONLY <1>1, <1>2, <2>2, CapType
    <3>2. b = Slot(f, l)
      BY <1>0, <3>1, Zenon DEF Timed
    <3> QED BY <1>0, <1>2, <3>1, <3>2, SlotIs
  <2> QED BY <2>1, <2>2
<1>4. \A i \in 0 .. QueueCap - 1 : u[i] = IF i = k THEN n ELSE t[i]
  BY <1>0
<1>5. ASSUME NEW i \in 1 .. Len(p) PROVE u[Slot(f, i)] = p[i].no
  <2>1. i \in 1 .. QueueCap /\ Slot(f, i) \in 0 .. QueueCap - 1
    <3>1. i \in 1 .. QueueCap
      BY ONLY <1>1, <1>2, CapType, i \in 1 .. Len(p)
    <3> QED BY <1>0, <3>1, SlotIs
  <2>2. CASE i = l + 1
    BY <1>1, <1>3, <1>4, <2>1, <2>2
  <2>3. CASE i # l + 1
    <3>1. i \in 1 .. l
      BY <1>1, <2>3
    <3>2. Slot(f, i) # k
      <4>1. \A x, y \in 1 .. QueueCap : Slot(f, x) = Slot(f, y) => x = y
        BY <1>0, SlotIs
      <4> QED BY ONLY <1>2, <1>3, <2>1, <2>3, <4>1, Zenon
    <3>3. t[Slot(f, i)] = q[i].no
      BY <1>0, <3>1 DEF Timed
    <3> QED BY <1>1, <1>4, <2>1, <3>1, <3>2, <3>3
  <2> QED BY <2>2, <2>3
<1>6. Len(p) <= QueueCap /\ Len(p) # 0
  BY <1>1, <1>2
<1>7. Timed(f, k, d, u, p)
  BY <1>1, <1>3, <1>5, <1>6, Zenon DEF Timed
<1> QED BY <1>7, Zenon

LEMMA GotTimed ==
  ASSUME NEW f \in Ends, NEW b \in Ends, NEW e, NEW t, NEW q, NEW S, q \in Seq(S), q # <<>>,
         Timed(f, b, e, t, q), NEW p, p = Tail(q), NEW k, k = After(f), NEW d, d
  PROVE  Timed(k, b, d, t, p)
<1> PICK l : l = Len(q)
  OBVIOUS
<1>1. l \in Nat \ {0} /\ Len(p) = l - 1 /\ \A i \in 1 .. l - 1 : p[i] = q[i + 1]
  OBVIOUS
<1>2. l <= QueueCap
  BY DEF Timed
<1>3. k \in Ends /\ k = Slot(f, 1) /\ b = Slot(f, l)
  <2>1. 1 \in 1 .. QueueCap /\ l > 0
    BY <1>1, CapType
  <2>2. k = Slot(f, 1) /\ Slot(f, 1) \in Ends
    BY <2>1, SlotIs
  <2>3. b = Slot(f, l)
    BY <2>1, Zenon DEF Timed
  <2> QED BY <2>2, <2>3
<1>4. \A i \in 1 .. QueueCap : i < QueueCap => Slot(k, i) = Slot(f, i + 1)
  BY SlotIs
<1>5. CASE l = 1
  <2>1. Len(p) = 0 /\ b = k /\ Len(p) <= QueueCap /\ ~(Len(p) > 0) /\ \A i \in 1 .. Len(p) : FALSE
    BY <1>1, <1>3, <1>5, CapType
  <2> QED BY ONLY <2>1, d, Zenon DEF Timed
<1>6. CASE l # 1
  <2>1. l - 1 \in 1 .. QueueCap /\ l - 1 < QueueCap /\ l - 1 + 1 = l
    BY <1>1, <1>2, <1>6, CapType
  <2>2. b = Slot(k, l - 1)
    BY <1>3, <1>4, <2>1
  <2>3. k # b
    BY <1>3, <2>1, <2>2, SlotIs
  <2>4. ASSUME NEW i \in 1 .. Len(p) PROVE t[Slot(k, i)] = p[i].no
    <3>1. i \in 1 .. QueueCap /\ i < QueueCap /\ i + 1 \in 1 .. l /\ i \in 1 .. l - 1
      BY <1>1, <1>2, CapType
    <3>2. t[Slot(f, i + 1)] = q[i + 1].no
      BY <3>1 DEF Timed
    <3> QED BY <1>1, <1>4, <3>1, <3>2
  <2>5. Len(p) <= QueueCap /\ Len(p) # 0
    BY <1>1, <1>2, <1>6, CapType
  <2> QED BY <1>1, <2>2, <2>3, <2>4, <2>5, Zenon DEF Timed
<1> QED BY <1>5, <1>6

LEMMA SendTimes ==
  ASSUME RingInv, QueueInv, TimesInv, clock \in Nat, NEW tx \in Nat, NEW i \in Id, QueueSend(tx, i)
  PROVE  TimesInv'
<1> PICK n : n = clock'
  OBVIOUS
<1> PICK c : c = Call("meter", tx, n, i)
  OBVIOUS
<1>1. n \in Nat /\ Len(queue) < QueueCap /\ queue' = Append(queue, c) /\ ring' = SetTime(ring, n)
  BY DEF QueueSend
<1>2. c \in CallType /\ c.no = n
  BY <1>1 DEF Call, CallType, Kind
<1>3. queue \in Seq(CallType)
  BY DEF QueueInv
<1> PICK k : k = After(ring.back)
  OBVIOUS
<1> PICK t : t = ring.times
  OBVIOUS
<1> PICK u : u = [t EXCEPT ![k] = n]
  OBVIOUS
<1>4. ring'.front = ring.front /\ ring'.back = k /\ ring'.times = u /\ ~ring'.emptying
  BY <1>1, RingSet, Zenon DEF HasEnds
<1> PICK f : f = ring.front
  OBVIOUS
<1>5. f \in Ends /\ ring.back \in Ends /\ t = [j \in 0 .. QueueCap - 1 |-> t[j]]
  BY RingFields
<1>6. Timed(f, ring.back, ring.emptying, t, queue)
  BY Zenon DEF TimesInv
<1>7. Timed(f, k, ring'.emptying, u, queue')
  <2> PICK e : e = ring.emptying
    OBVIOUS
  <2> PICK b : b = ring.back
    OBVIOUS
  <2>1. HasRoom(f, b, e, t, queue)
    BY <1>1, <1>3, <1>5, <1>6, Zenon DEF HasRoom
  <2>2. Timed(f, After(b), ring'.emptying, [t EXCEPT ![After(b)] = c.no], Append(queue, c))
    BY <1>2, <1>4, <2>1, SendTimed, Zenon
  <2> QED BY <1>1, <1>2, <2>2, Zenon
<1> QED BY <1>4, <1>7, Zenon DEF TimesInv

LEMMA GetTimes ==
  ASSUME RingInv, QueueInv, TimesInv, queue # <<>>, queue' = Tail(queue), ring' = GetTime(ring)
  PROVE  TimesInv'
<1> PICK k : k = After(ring.front)
  OBVIOUS
<1>1. queue \in Seq(CallType)
  BY DEF QueueInv
<1>2. ring'.front = k /\ ring'.back = ring.back /\ ring'.times = ring.times /\ ring'.emptying
  BY RingGot, Zenon DEF HasEnds
<1>3. ring.front \in Ends /\ ring.back \in Ends
  BY RingFields
<1>4. Timed(ring.front, ring.back, ring.emptying, ring.times, queue)
  BY Zenon DEF TimesInv
<1>5. Timed(k, ring.back, ring'.emptying, ring.times, queue')
  BY <1>1, <1>2, <1>3, <1>4, GotTimed, Zenon
<1> QED BY <1>2, <1>5, Zenon DEF TimesInv

LEMMA EmptyTimed ==
  ASSUME queue' = <<>>, ring' = EmptyRing
  PROVE  TimesInv'
<1> PICK b : b = TRUE
  OBVIOUS
<1> PICK r : r = [front |-> -1, back |-> -1, emptying |-> b, times |-> [i \in 0 .. QueueCap - 1 |-> 0]]
  OBVIOUS
<1>1. r = EmptyRing
  BY Zenon DEF EmptyRing
<1>2. ring'.front = -1 /\ ring'.back = -1 /\ ring'.emptying = b
  <2>1. r.front = -1 /\ r.back = -1 /\ r.emptying = b
    OBVIOUS
  <2> QED BY <1>1, <2>1, Zenon
<1>3. Len(queue') = 0 /\ 0 <= QueueCap /\ 1 .. 0 = {} /\ ~(0 > 0)
  BY CapType
<1> QED BY <1>2, <1>3, Zenon DEF TimesInv, Timed

-----------------------------------------------------------------------------
(* What is queued, and what is stored anew.                                *)

LEMMA QueueIs ==
  ASSUME QueueInv, OrderInv, clock \in Nat
  PROVE  /\ Len(queue) \in Nat
         /\ \A i \in 1 .. Len(queue) : queue[i] \in CallType /\ queue[i].kind = "meter" /\ queue[i].no \in 1 .. clock
         /\ \A i, j \in 1 .. Len(queue) : i <= j => queue[i].no <= queue[j].no
<1>1. queue \in Seq(CallType) /\ Len(queue) \in Nat /\ \A i \in 1 .. Len(queue) : queue[i].kind = "meter"
  BY DEF QueueInv
<1>2. \A i \in 1 .. Len(queue) : queue[i] \in CallType
  BY <1>1
<1>3. \A i \in 1 .. Len(queue) : queue[i].no \in 1 .. clock
  BY DEF OrderInv, Line
<1>4. ASSUME NEW i \in 1 .. Len(queue), NEW j \in 1 .. Len(queue), i <= j PROVE queue[i].no <= queue[j].no
  <2>1. CASE i = j
    BY <1>3, <2>1
  <2>2. CASE i # j
    <3>1. queue[i].no < queue[j].no
      <4>1. i < j
        BY <1>4, <2>2
      <4> QED BY <4>1 DEF OrderInv, Line
    <3> QED BY <1>3, <3>1
  <2> QED BY <2>1, <2>2
<1> QED BY <1>1, <1>2, <1>3, <1>4

LEMMA AppendOrder ==
  ASSUME QueueInv, OrderInv, clock \in Nat, clock' = clock + 1, NEW c \in CallType, c.no = clock',
         queue' = Append(queue, c), UNCHANGED files
  PROVE  OrderInv'
<1> PICK k : k = clock'
  OBVIOUS
<1> PICK l : l = Len(queue)
  OBVIOUS
<1>1. k \in Nat /\ clock <= k /\ k = clock + 1
  OBVIOUS
<1>2. TidyAll(files, k)
  <2>1. Moves(files, files, clock, k, {})
    BY <1>1, SameMoves DEF OrderInv
  <2> QED BY <2>1, Zenon DEF Moves, Moved, TidyAll
<1>3. l \in Nat /\ \A i \in 1 .. l : queue[i].no \in 1 .. clock
  BY QueueIs
<1>4. Len(queue') = l + 1 /\ queue'[l + 1] = c /\ \A i \in 1 .. l : queue'[i] = queue[i]
  BY DEF QueueInv
<1>5. ASSUME NEW e \in Entry PROVE k \notin Numbers(files[e])
  <2>1. Tidy(files[e], clock)
    BY DEF OrderInv, TidyAll
  <2> QED BY <1>1, <2>1, NumbersBound
<1>6. ASSUME NEW i \in 1 .. Len(queue')
      PROVE  queue'[i].no \in 1 .. k /\ \A e \in Entry : queue'[i].no \notin Numbers(files[e])
  <2>1. CASE i = l + 1
    BY <1>1, <1>4, <1>5, <2>1
  <2>2. CASE i # l + 1
    <3>1. i \in 1 .. l
      BY <1>3, <1>4, <2>2
    <3>2. queue[i].no \in 1 .. clock /\ \A e \in Entry : queue[i].no \notin Numbers(files[e])
      BY <3>1 DEF OrderInv, Line
    <3> QED BY <1>1, <1>4, <3>1, <3>2
  <2> QED BY <2>1, <2>2
<1>7. ASSUME NEW i \in 1 .. Len(queue'), NEW j \in 1 .. Len(queue'), i < j
      PROVE  queue'[i].no < queue'[j].no
  <2>1. i \in 1 .. l /\ queue'[i] = queue[i]
    BY <1>3, <1>4, <1>7
  <2>2. CASE j = l + 1
    BY <1>1, <1>3, <1>4, <2>1, <2>2
  <2>3. CASE j # l + 1
    <3>1. j \in 1 .. l
      BY <1>3, <1>4, <2>3
    <3>2. queue[i].no < queue[j].no
      BY <1>7, <2>1, <3>1 DEF OrderInv, Line
    <3> QED BY <1>4, <2>1, <3>1, <3>2
  <2> QED BY <2>2, <2>3
<1>8. Line(queue', files, k)
  BY <1>6, <1>7, Zenon DEF Line
<1> QED BY <1>2, <1>8, Zenon DEF OrderInv

LEMMA TailOrder ==
  ASSUME QueueInv, OrderInv, clock \in Nat, queue # <<>>, queue' = Tail(queue), UNCHANGED <<files, clock>>
  PROVE  /\ OrderInv'
         /\ Queued' \subseteq Queued
         /\ \A i \in 1 .. Len(queue') : queue[1].no < queue'[i].no
         /\ Head(queue) = queue[1] /\ 1 \in 1 .. Len(queue)
<1> PICK l : l = Len(queue)
  OBVIOUS
<1>1. l \in Nat \ {0} /\ Len(queue') = l - 1 /\ \A i \in 1 .. l - 1 : queue'[i] = queue[i + 1] /\ i + 1 \in 1 .. l
  BY DEF QueueInv
<1>2. Head(queue) = queue[1] /\ 1 \in 1 .. Len(queue)
  BY <1>1 DEF QueueInv
<1>3. \A i \in 1 .. Len(queue') : queue[1].no < queue'[i].no
  <2> TAKE i \in 1 .. Len(queue')
  <2>1. i + 1 \in 1 .. l /\ 1 < i + 1 /\ queue'[i] = queue[i + 1]
    BY <1>1
  <2> QED BY <1>2, <2>1 DEF OrderInv, Line
<1>4. ASSUME NEW i \in 1 .. Len(queue')
      PROVE  queue'[i].no \in 1 .. clock /\ \A e \in Entry : queue'[i].no \notin Numbers(files[e])
  <2>1. i + 1 \in 1 .. l /\ queue'[i] = queue[i + 1]
    BY <1>1
  <2> QED BY <2>1, Zenon DEF OrderInv, Line
<1>5. ASSUME NEW i \in 1 .. Len(queue'), NEW j \in 1 .. Len(queue'), i < j
      PROVE  queue'[i].no < queue'[j].no
  <2>1. i + 1 \in 1 .. l /\ j + 1 \in 1 .. l /\ i + 1 < j + 1 /\ queue'[i] = queue[i + 1] /\ queue'[j] = queue[j + 1]
    BY <1>1, <1>5
  <2> QED BY <2>1, Zenon DEF OrderInv, Line
<1>6. Line(queue', files, clock)
  BY <1>4, <1>5, Zenon DEF Line
<1>7. OrderInv'
  BY <1>6, Zenon DEF OrderInv
<1>8. Queued' \subseteq Queued
  BY <1>1 DEF Queued
<1> QED BY <1>2, <1>3, <1>7, <1>8

\* Only numbers made since then are new in the files.
Fresh(fs, gs, n) == \A e \in Entry : \A x \in Numbers(gs[e]) : x \in Numbers(fs[e]) \/ x = 0 \/ n < x

LEMMA MovesFresh ==
  ASSUME NEW fs, NEW gs, NEW n \in Nat, NEW k, NEW M, Moves(fs, gs, n, k, M)
  PROVE  Fresh(fs, gs, n)
<1> SUFFICES ASSUME NEW e \in Entry, NEW x \in Numbers(gs[e]) PROVE x \in Numbers(fs[e]) \/ x = 0 \/ n < x
  BY Zenon DEF Fresh
<1>1. Numbers(gs[e]) \subseteq Numbers(fs[e]) \cup {0} \cup (n + 1 .. k)
  BY Zenon DEF Moves, Moved
<1>2. x \in n + 1 .. k => n < x
  OBVIOUS
<1> QED BY <1>1, <1>2

LEMMA StartFresh ==
  ASSUME FilesInv, clock \in Nat, EnqueueStart, Active = {}
  PROVE  Fresh(files, files', clock)
<1> PICK k : k = clock'
  OBVIOUS
<1>1. k = clock + 1 /\ StopActive(clock + 1) = files
  BY DEF EnqueueStart, StopActive
<1>2. CASE Vacant = {}
  BY <1>1, <1>2 DEF EnqueueStart, Fresh
<1>3. CASE Vacant # {}
  <2> PICK v : v = VacantEntry
    OBVIOUS
  <2> PICK g : g = Started(k)
    OBVIOUS
  <2>1. v \in Entry
    BY <1>3, VacantIs
  <2>2. files' = [files EXCEPT ![v] = g]
    BY <1>1, <1>3 DEF EnqueueStart
  <2>3. files = [e \in Entry |-> files[e]]
    BY DEF FilesInv
  <2>4. files'[v] = g /\ \A e \in Entry : e # v => files'[e] = files[e]
    BY <2>1, <2>2, <2>3
  <2>5. Numbers(g) \subseteq {0, k}
    BY <1>1, StartedNumbers
  <2>6. clock < k
    BY <1>1
  <2> QED BY <2>4, <2>5, <2>6 DEF Fresh
<1> QED BY <1>2, <1>3

\* A file that is only added to has the same next message.
LEMMA AddsNext ==
  ASSUME LoadedInv, NEW fs, \A e \in Entry : Adds(files[e], fs[e]), loaded.data
  PROVE  NextNo(fs[loaded.entry]) = NextNo(files[loaded.entry])
BY Zenon DEF LoadedInv, LoadedRight, Adds

\* Files that have only been added to.
AddsAll(fs) == fs = [e \in Entry |-> fs[e]] /\ \A e \in Entry : Adds(files[e], fs[e])

LEMMA UpdateAdds ==
  ASSUME FilesInv, NEW a \in Entry, NEW g, Adds(files[a], g)
  PROVE  AddsAll([files EXCEPT ![a] = g]) /\ [files EXCEPT ![a] = g][a] = g
<1> PICK new : new = [files EXCEPT ![a] = g]
  OBVIOUS
<1>1. files = [e \in Entry |-> files[e]] /\ \A e \in Entry : IsRight(files[e])
  BY DEF FilesInv
<1> HIDE DEF Adds
<1>2. new = [e \in Entry |-> new[e]] /\ new[a] = g /\ \A e \in Entry : e # a => new[e] = files[e]
  BY <1>1
<1>3. ASSUME NEW e \in Entry PROVE Adds(files[e], new[e])
  <2>1. CASE e # a
    <3>1. new[e] = files[e] /\ IsRight(files[e])
      BY <1>1, <1>2, <2>1
    <3>2. Adds(files[e], files[e])
      BY <3>1, AddsNothing
    <3> QED BY <3>1, <3>2, Zenon
  <2>2. CASE e = a
    BY <1>2, <2>2, Zenon
  <2> QED BY <2>1, <2>2
<1>4. AddsAll(new) /\ new[a] = g
  BY <1>2, <1>3 DEF AddsAll
<1> QED BY <1>4, Zenon

LEMMA WriteAdds ==
  ASSUME FilesInv, clock \in Nat, WriteMeterValue
  PROVE  /\ AddsAll(files') /\ ActiveEntry \in Entry
         /\ <<"meter", clock'>> \in PendingIn(files'[ActiveEntry])
<1> PICK n : n = clock'
  OBVIOUS
<1> PICK a : a = ActiveEntry
  OBVIOUS
<1>1. n \in Nat /\ Active # {}
  BY DEF WriteMeterValue
<1>2. a \in Entry /\ files[a].active
  BY <1>1, ActiveIs
<1> PICK g : g = [files[a] EXCEPT !.meters = Append(files[a].meters, n), !.await = Await(files[a], 1)]
  OBVIOUS
<1>3. files' = [files EXCEPT ![a] = g]
  BY Zenon DEF WriteMeterValue
<1>4. Adds(files[a], g) /\ <<"meter", n>> \in PendingIn(g)
  <2>1. IsRight(files[a])
    BY <1>2 DEF FilesInv
  <2> QED BY <1>1, <1>2, <2>1, MeterAdds
<1>5. AddsAll(files') /\ files'[a] = g
  BY <1>2, <1>3, <1>4, UpdateAdds, Zenon
<1> QED BY <1>2, <1>4, <1>5, Zenon

LEMMA SetIdAdds ==
  ASSUME FilesInv, NEW a, NEW i \in Id, SetRealId(a, i)
  PROVE  AddsAll(files')
<1>1. files = [e \in Entry |-> files[e]] /\ \A e \in Entry : IsRight(files[e])
  BY DEF FilesInv
<1>2. AddsAll(files)
  BY <1>1, AddsNothing DEF AddsAll
<1>3. CASE a \in Entry /\ Exists(a)
  <2> PICK g : g = [files[a] EXCEPT !.id = i]
    OBVIOUS
  <2>1. Adds(files[a], g)
    BY <1>1, <1>3, IdAdds DEF Exists
  <2>2. AddsAll([files EXCEPT ![a] = g])
    BY <1>3, <2>1, UpdateAdds, Zenon
  <2>3. files' = [files EXCEPT ![a].id = i]
    BY <1>3, Zenon DEF SetRealId
  <2>4. files' = [files EXCEPT ![a] = g]
    BY <2>3
  <2> QED BY <2>2, <2>4, Zenon
<1>4. CASE ~(a \in Entry /\ Exists(a))
  <2>1. a \notin Entry => [files EXCEPT ![a].id = i] = files
    BY <1>1
  <2>2. files' = files
    BY <1>4, <2>1, Zenon DEF SetRealId
  <2> QED BY <1>2, <2>2, Zenon
<1> QED BY <1>3, <1>4

-----------------------------------------------------------------------------
(* Which transaction a file is of, and its id.                             *)

\* A file has become g: it is of the same transaction or gone, and keeps its id
\* once its start is settled.
Passes(f, g) ==
    /\ g.start = f.start \/ (g.start = 0 /\ ~f.active)
    /\ g.id \in {f.id, UnknownId}
    /\ g.active => f.active
    /\ g.start # 0 /\ f.conf # AtStart => g.conf # AtStart /\ g.id = f.id

Stays(f, g) == f.active => g.active

\* Each file has passed, or is a new one.
PassesAll(fs, n) ==
    \A e \in Entry : IF files[e].start # 0 THEN Passes(files[e], fs[e])
                     ELSE fs[e].id = UnknownId /\ (fs[e].start = 0 \/ n < fs[e].start)

StaysAll(fs) == \A e \in Entry : Stays(files[e], fs[e])

StartsAll(fs) == \A e \in Entry : files[e].start # 0 => fs[e].start = files[e].start

\* The fields of a file but the count, the meter values and the stop.
Named(g, s, a, i, c) == g.start = s /\ (g.active <=> a) /\ g.id = i /\ g.conf = c

LEMMA LitNamed ==
  ASSUME NEW s, NEW a \in BOOLEAN, NEW i, NEW w, NEW c, NEW m, NEW p
  PROVE  Named(FileLit(s, a, i, w, c, m, p), s, a, i, c)
<1> PICK g : g = FileLit(s, a, i, w, c, m, p)
  OBVIOUS
<1>1. g.start = s /\ g.conf = c
  BY DEF FileLit
<1>2. g.id = i
  BY LitId, Zenon
<1>3. g.active = a
  BY FileLitActive, Zenon
<1> QED BY <1>1, <1>2, <1>3, Zenon DEF Named

LEMMA NoFileFields == NoFile.start = 0 /\ NoFile.id = UnknownId /\ ~NoFile.active /\ NoFile.conf = AtStart
<1>1. FALSE \in BOOLEAN
  OBVIOUS
<1>2. Named(NoFile, 0, FALSE, UnknownId, AtStart)
  BY <1>1, NoFileIs, LitNamed, Zenon
<1> QED BY <1>2, Zenon DEF Named

LEMMA SamePasses == ASSUME NEW f PROVE Passes(f, f) /\ Stays(f, f)
BY Zenon DEF Passes, Stays

LEMMA SamePassesAll ==
  ASSUME FilesInv, NEW n
  PROVE  PassesAll(files, n) /\ StaysAll(files) /\ StartsAll(files)
<1>1. ASSUME NEW e \in Entry, files[e].start = 0 PROVE files[e].id = UnknownId
  BY <1>1, NoFileFields DEF FilesInv, IsRight, FileRight
<1> QED BY <1>1, SamePasses, Zenon DEF PassesAll, StaysAll, StartsAll

LEMMA NamedPasses ==
  ASSUME NEW f, NEW g, NEW a, NEW i, NEW c, Named(g, f.start, a, i, c), a => f.active,
         i = f.id \/ (i = UnknownId /\ f.conf = AtStart), c # AtStart \/ c = f.conf
  PROVE  Passes(f, g)
BY Zenon DEF Named, Passes

LEMMA StoppedPasses ==
  ASSUME NEW f \in FileType, f.active, NEW n
  PROVE  Passes(f, Stopped(f, n)) /\ Stopped(f, n).start = f.start
<1>1. FALSE \in BOOLEAN
  OBVIOUS
<1>2. Named(Stopped(f, n), f.start, FALSE, f.id, f.conf)
  BY <1>1, StoppedIs, LitNamed, Zenon
<1> QED BY <1>2, NamedPasses, Zenon DEF Named

\* A file has passed, and the offset is c now.
Advances(f, g, c) == Passes(f, g) /\ Stays(f, g) /\ g.conf = c /\ g.start = f.start

LEMMA MeterPasses ==
  ASSUME NEW f \in FileType, NEW m, NEW w
  PROVE  Advances(f, [f EXCEPT !.meters = m, !.await = w], f.conf)
<1> PICK g : g = [f EXCEPT !.meters = m, !.await = w]
  OBVIOUS
<1>1. f.active \in BOOLEAN
  BY FileFields
<1> PICK b : b = f.active
  OBVIOUS
<1>4. g = FileLit(f.start, b, f.id, w, f.conf, m, f.stop)
  BY MeterIs, Zenon
<1>5. Named(FileLit(f.start, b, f.id, w, f.conf, m, f.stop), f.start, b, f.id, f.conf)
  BY <1>1, LitNamed
<1>2. Named(g, f.start, f.active, f.id, f.conf)
  BY <1>4, <1>5, Zenon
<1>3. f.active => f.active
  OBVIOUS
<1>6. Advances(f, g, f.conf)
  BY <1>2, <1>3, NamedPasses, Zenon DEF Named, Stays, Advances
<1> QED BY <1>6

LEMMA ConfPasses ==
  ASSUME NEW f \in FileType, NEW c, c # AtStart, NEW w
  PROVE  Advances(f, [f EXCEPT !.conf = c, !.await = w], c)
<1> PICK g : g = [f EXCEPT !.conf = c, !.await = w]
  OBVIOUS
<1>1. f.active \in BOOLEAN
  BY FileFields
<1> PICK b : b = f.active
  OBVIOUS
<1>4. g = FileLit(f.start, b, f.id, w, c, f.meters, f.stop)
  BY ConfIs, Zenon
<1>5. Named(FileLit(f.start, b, f.id, w, c, f.meters, f.stop), f.start, b, f.id, c)
  BY <1>1, LitNamed
<1>2. Named(g, f.start, f.active, f.id, c)
  BY <1>4, <1>5, Zenon
<1>3. f.active => f.active
  OBVIOUS
<1>6. Advances(f, g, c)
  BY <1>2, <1>3, NamedPasses, Zenon DEF Named, Stays, Advances
<1> QED BY <1>6

LEMMA GonePasses ==
  ASSUME NEW f, ~f.active
  PROVE  Passes(f, NoFile) /\ Stays(f, NoFile)
BY NoFileFields, Zenon DEF Passes, Stays

LEMMA ConfirmedPasses ==
  ASSUME NEW f, IsRight(f), NextKind(f) # "none", loaded.call.kind = NextKind(f), loaded.next = f.conf + 1
  PROVE  /\ Passes(f, Confirmed(f)) /\ Stays(f, Confirmed(f))
         /\ NextKind(f) = "start" => f.conf = AtStart /\ Confirmed(f).conf # AtStart /\ Confirmed(f).start = f.start
<1> PICK g : g = Confirmed(f)
  OBVIOUS
<1>0. f \in FileType /\ AtStart = 0 /\ AtMeter(1) = 1
  BY DEF IsRight, AtStart, AtMeter
<1>1. CASE NextKind(f) = "stop"
  <2>1. ~f.active
    <3>1. f.stop # 0 /\ f.start # 0
      BY <1>1, NextKinds
    <3> QED BY <3>1, Zenon DEF IsRight, FileRight
  <2>2. g = NoFile
    BY <1>1 DEF Confirmed
  <2> QED BY <1>1, <2>1, <2>2, GonePasses, Zenon
<1>2. CASE NextKind(f) = "start"
  <2>1. g = [f EXCEPT !.conf = AtMeter(1), !.await = Await(f, -1)]
    BY <1>2 DEF Confirmed
  <2>2. AtMeter(1) # AtStart /\ f.conf = AtStart
    BY <1>0, <1>2, NextKinds
  <2> PICK w, c : w = Await(f, -1) /\ c = AtMeter(1)
    OBVIOUS
  <2>4. g = [f EXCEPT !.conf = c, !.await = w] /\ c # AtStart
    BY <2>1, <2>2, Zenon
  <2>3. Passes(f, g) /\ Stays(f, g) /\ g.conf = c /\ g.start = f.start
    <3>1. Advances(f, [f EXCEPT !.conf = c, !.await = w], c)
      BY <1>0, <2>4, ConfPasses, Zenon
    <3> QED BY <2>4, <3>1, Zenon DEF Advances
  <2> QED BY <2>2, <2>3, Zenon
<1>3. CASE NextKind(f) = "meter"
  <2>1. g = [f EXCEPT !.conf = loaded.next, !.await = Await(f, -1)]
    BY <1>3 DEF Confirmed
  <2>2. loaded.next # AtStart
    <3>1. f.conf \in 1 .. Len(f.meters)
      BY <1>3, NextKinds
    <3> QED BY <1>0, <3>1
  <2>3. "meter" # "start"
    OBVIOUS
  <2> PICK w, c : w = Await(f, -1) /\ c = loaded.next
    OBVIOUS
  <2>4. Advances(f, [f EXCEPT !.conf = c, !.await = w], c)
    BY <1>0, <2>2, ConfPasses, Zenon
  <2>5. g = [f EXCEPT !.conf = c, !.await = w]
    BY <2>1, Zenon
  <2> QED BY <1>3, <2>3, <2>4, <2>5, Zenon DEF Advances
<1>4. "start" # "stop" /\ "start" # "meter"
  OBVIOUS
<1> QED BY <1>1, <1>2, <1>3, <1>4, NextKinds, Zenon

LEMMA GivenUpPasses ==
  ASSUME NEW f, IsRight(f), f.start # 0
  PROVE  Passes(f, GivenUp(f)) /\ Stays(f, GivenUp(f))
<1> PICK g : g = GivenUp(f)
  OBVIOUS
<1>0. f \in FileType /\ f.active \in BOOLEAN /\ AtStart = 0 /\ AtMeter(1) = 1 /\ AtStop = -1
  BY FileFields DEF IsRight, AtStart, AtMeter, AtStop
<1>1. CASE f.conf = AtStart
  <2> PICK f1 : f1 = [f EXCEPT !.id = UnknownId]
    OBVIOUS
  <2>1. f1 = FileLit(f.start, f.active, UnknownId, f.await, f.conf, f.meters, f.stop)
    BY <1>0, IdIs, Zenon
  <2> PICK w : w = Await(f, -1)
    OBVIOUS
  <2>2. g = [f EXCEPT !.id = UnknownId, !.conf = AtMeter(1), !.await = w]
    BY <1>1 DEF GivenUp
  <2>3. g = FileLit(f.start, f.active, UnknownId, w, 1, f.meters, f.stop)
    <3> PICK f2 : f2 = [f1 EXCEPT !.conf = 1]
      OBVIOUS
    <3>1. f2 = FileLit(f.start, f.active, UnknownId, f.await, 1, f.meters, f.stop)
      BY <2>1 DEF FileLit
    <3> PICK f3 : f3 = [f2 EXCEPT !.await = w]
      OBVIOUS
    <3>2. f3 = FileLit(f.start, f.active, UnknownId, w, 1, f.meters, f.stop)
      BY <3>1 DEF FileLit
    <3> QED BY <1>0, <2>2, <3>2, Zenon
  <2>4. 1 # AtStart /\ (f.active => f.active)
    BY <1>0
  <2>5. Named(g, f.start, f.active, UnknownId, 1)
    BY <1>0, <2>3, LitNamed, Zenon
  <2> QED BY <1>1, <2>4, <2>5, NamedPasses, Zenon DEF Named, Stays
<1>2. CASE f.conf = AtStop
  <2>1. g = NoFile
    BY <1>0, <1>2 DEF GivenUp
  <2>2. ~f.active
    BY <1>2, Zenon DEF IsRight, FileRight
  <2> QED BY <2>1, <2>2, GonePasses, Zenon
<1>3. CASE f.conf # AtStart /\ f.conf # AtStop /\ f.active
  <2> PICK f1 : f1 = [f EXCEPT !.conf = 1, !.await = 0]
    OBVIOUS
  <2>1. f1 = FileLit(f.start, f.active, f.id, 0, 1, f.meters, f.stop)
    BY <1>0, ConfIs, Zenon
  <2> PICK f2 : f2 = [f1 EXCEPT !.meters = <<>>]
    OBVIOUS
  <2>2. f2 = FileLit(f.start, f.active, f.id, 0, 1, <<>>, f.stop)
    BY <2>1 DEF FileLit
  <2>3. g = f2
    BY <1>0, <1>3, Zenon DEF GivenUp
  <2>4. 1 # AtStart /\ (f.active => f.active)
    BY <1>0
  <2>5. Named(FileLit(f.start, f.active, f.id, 0, 1, <<>>, f.stop), f.start, f.active, f.id, 1)
    BY <1>0, LitNamed
  <2>6. Named(g, f.start, f.active, f.id, 1)
    BY <2>2, <2>3, <2>5, Zenon
  <2> QED BY <2>4, <2>6, NamedPasses, Zenon DEF Named, Stays
<1>4. CASE f.conf # AtStart /\ f.conf # AtStop /\ ~f.active
  <2>1. g = [f EXCEPT !.conf = AtStop, !.await = 1]
    BY <1>4, Zenon DEF GivenUp
  <2>2. AtStop # AtStart
    BY <1>0
  <2>3. Advances(f, [f EXCEPT !.conf = AtStop, !.await = 1], AtStop)
    BY <1>0, <2>2, ConfPasses, Zenon
  <2> QED BY <2>1, <2>3, Zenon DEF Advances
<1> QED BY <1>1, <1>2, <1>3, <1>4, Zenon

\* What each operation lets pass.
LEMMA UpdatePasses ==
  ASSUME FilesInv, NEW n, NEW a \in Entry, files[a].start # 0, NEW g, Passes(files[a], g)
  PROVE  /\ PassesAll([files EXCEPT ![a] = g], n)
         /\ Stays(files[a], g) => StaysAll([files EXCEPT ![a] = g])
         /\ g.start = files[a].start => StartsAll([files EXCEPT ![a] = g])
         /\ [files EXCEPT ![a] = g][a] = g
<1> PICK new : new = [files EXCEPT ![a] = g]
  OBVIOUS
<1>1. files = [e \in Entry |-> files[e]]
  BY DEF FilesInv
<1>2. new[a] = g /\ \A e \in Entry : e # a => new[e] = files[e]
  BY <1>1
<1>3. PassesAll(files, n) /\ StaysAll(files) /\ StartsAll(files)
  BY SamePassesAll
<1>4. PassesAll(new, n)
  <2> SUFFICES ASSUME NEW e \in Entry
               PROVE  IF files[e].start # 0 THEN Passes(files[e], new[e])
                      ELSE new[e].id = UnknownId /\ (new[e].start = 0 \/ n < new[e].start)
    BY Zenon DEF PassesAll
  <2>1. CASE e = a
    BY <1>2, <2>1, Zenon
  <2>2. CASE e # a
    BY <1>2, <1>3, <2>2, Zenon DEF PassesAll
  <2> QED BY <2>1, <2>2
<1>5. Stays(files[a], g) => StaysAll(new)
  BY <1>2, <1>3, Zenon DEF StaysAll
<1>6. g.start = files[a].start => StartsAll(new)
  BY <1>2, Zenon DEF StartsAll
<1> QED BY <1>2, <1>4, <1>5, <1>6, Zenon

LEMMA StopPasses ==
  ASSUME FilesInv, NEW n, NEW k
  PROVE  PassesAll(StopActive(k), n) /\ StartsAll(StopActive(k))
<1>1. CASE Active = {}
  <2>1. StopActive(k) = files
    BY <1>1, Zenon DEF StopActive
  <2> QED BY <2>1, SamePassesAll, Zenon
<1>2. CASE Active # {}
  <2> PICK a : a = ActiveEntry
    OBVIOUS
  <2> PICK g : g = Stopped(files[a], k)
    OBVIOUS
  <2>1. a \in Entry /\ files[a].active
    BY <1>2, ActiveIs
  <2>2. IsRight(files[a]) /\ files[a] \in FileType
    BY <2>1 DEF FilesInv, IsRight
  <2>3. files[a].start # 0
    BY <2>1, <2>2, ActiveStarted
  <2>4. Passes(files[a], g) /\ g.start = files[a].start
    BY <2>1, <2>2, StoppedPasses, Zenon
  <2>5. StopActive(k) = [files EXCEPT ![a] = g]
    BY <1>2, Zenon DEF StopActive
  <2>6. PassesAll([files EXCEPT ![a] = g], n) /\ StartsAll([files EXCEPT ![a] = g])
    BY <2>1, <2>3, <2>4, UpdatePasses, Zenon
  <2> QED BY <2>5, <2>6, Zenon
<1> QED BY <1>1, <1>2

LEMMA WritePasses ==
  ASSUME FilesInv, WriteMeterValue, NEW n
  PROVE  PassesAll(files', n) /\ StaysAll(files') /\ StartsAll(files')
<1> PICK a : a = ActiveEntry
  OBVIOUS
<1> PICK m, w : m = Append(files[a].meters, clock') /\ w = Await(files[a], 1)
  OBVIOUS
<1> PICK g : g = [files[a] EXCEPT !.meters = m, !.await = w]
  OBVIOUS
<1>1. a \in Entry /\ files[a].active
  BY ActiveIs DEF WriteMeterValue
<1>2. IsRight(files[a]) /\ files[a] \in FileType
  BY <1>1 DEF FilesInv, IsRight
<1>3. files[a].start # 0
  BY <1>1, <1>2, ActiveStarted
<1>4. Passes(files[a], g) /\ Stays(files[a], g) /\ g.start = files[a].start
  <2>1. Advances(files[a], [files[a] EXCEPT !.meters = m, !.await = w], files[a].conf)
    BY <1>2, MeterPasses, Zenon
  <2> QED BY <2>1, Zenon DEF Advances
<1>5. files' = [files EXCEPT ![a] = g]
  BY Zenon DEF WriteMeterValue
<1> QED BY <1>1, <1>3, <1>4, <1>5, UpdatePasses, Zenon

LEMMA GiveUpPasses ==
  ASSUME FilesInv, CacheInv, LoadedInv, RingInv, GetNextFails, NEW n
  PROVE  PassesAll(files', n) /\ StaysAll(files')
<1> PICK a : a = Loaded.entry
  OBVIOUS
<1> PICK g : g = GivenUp(files[a])
  OBVIOUS
<1>1. a \in Entry /\ NextKind(files[a]) # "none"
  <2>1. Loaded.data /\ LoadedRight(Loaded, files)
    BY FromFileLoaded, LoadedNext DEF GetNextFails
  <2> QED BY <2>1, Zenon DEF LoadedRight
<1>2. IsRight(files[a]) /\ files[a].start # 0
  <2>1. IsRight(files[a])
    BY <1>1 DEF FilesInv
  <2> QED BY <1>1, <2>1, NextKinds
<1>3. Passes(files[a], g) /\ Stays(files[a], g)
  <2> PICK f : f = files[a]
    OBVIOUS
  <2>1. Passes(f, GivenUp(f)) /\ Stays(f, GivenUp(f))
    <3>1. IsRight(f) /\ f.start # 0
      BY <1>2, Zenon
    <3> QED BY <3>1, GivenUpPasses, Zenon
  <2> QED BY <2>1, Zenon
<1>4. files' = [files EXCEPT ![a] = g]
  BY Zenon DEF GetNextFails
<1> QED BY <1>1, <1>2, <1>3, <1>4, UpdatePasses, Zenon

\* A start that is confirmed leaves its file past the start.
PastStart(f, g) == f.conf = AtStart /\ g.conf # AtStart /\ g.start = f.start

LEMMA ConfirmPasses ==
  ASSUME FilesInv, LoadedInv, ConfirmLast, last_from_file => loaded.data, NEW n
  PROVE  /\ PassesAll(files', n) /\ StaysAll(files')
         /\ last_from_file /\ loaded.call.kind = "start" =>
              loaded.entry \in Entry /\ PastStart(files[loaded.entry], files'[loaded.entry])
<1>1. CASE ~last_from_file
  <2>1. files' = files
    BY <1>1, Zenon DEF ConfirmLast
  <2> QED BY <1>1, <2>1, SamePassesAll, Zenon
<1>2. CASE last_from_file
  <2> PICK a : a = loaded.entry
    OBVIOUS
  <2> PICK g : g = Confirmed(files[a])
    OBVIOUS
  <2>1. a \in Entry /\ NextKind(files[a]) # "none"
        /\ Message(loaded.call) = <<NextKind(files[a]), NextNo(files[a])>> /\ loaded.next = files[a].conf + 1
    BY <1>2, Zenon DEF LoadedInv, LoadedRight
  <2>2. IsRight(files[a]) /\ files[a].start # 0 /\ a # NoEntry
    <3>1. IsRight(files[a])
      BY <2>1 DEF FilesInv
    <3> QED BY <2>1, <3>1, NextKinds, EntryIs
  <2>3. loaded.call.kind = NextKind(files[a]) /\ files[a] # NoFile
    BY <2>1, NoFileRight DEF Message
  <2>4. Passes(files[a], g) /\ Stays(files[a], g) /\ (NextKind(files[a]) = "start" => PastStart(files[a], g))
    BY <2>1, <2>2, <2>3, ConfirmedPasses, Zenon DEF PastStart
  <2>5. files' = [files EXCEPT ![a] = g]
    BY <1>2, <2>2, <2>3, Zenon DEF ConfirmLast
  <2>6. PassesAll(files', n) /\ StaysAll(files') /\ files'[a] = g
    BY <2>1, <2>2, <2>4, <2>5, UpdatePasses, Zenon
  <2> QED BY <2>1, <2>3, <2>4, <2>6, Zenon
<1> QED BY <1>1, <1>2

LEMMA StartPasses ==
  ASSUME FilesInv, clock \in Nat, EnqueueStart, Active = {}
  PROVE  /\ PassesAll(files', clock) /\ StaysAll(files') /\ StartsAll(files')
         /\ Vacant # {} => /\ VacantEntry \in Entry /\ files'[VacantEntry].active
                           /\ files'[VacantEntry].start = clock'
<1> PICK k : k = clock'
  OBVIOUS
<1>1. k \in Nat /\ clock < k /\ StopActive(clock + 1) = files
  BY DEF EnqueueStart, StopActive
<1>2. CASE Vacant = {}
  <2>1. files' = files
    BY <1>1, <1>2 DEF EnqueueStart
  <2> QED BY <1>2, <2>1, SamePassesAll, Zenon
<1>3. CASE Vacant # {}
  <2> PICK v : v = VacantEntry
    OBVIOUS
  <2> PICK g : g = Started(k)
    OBVIOUS
  <2>1. v \in Entry /\ files[v].start = 0
    BY <1>3, VacantIs, NoFileFields
  <2>2. files' = [files EXCEPT ![v] = g]
    BY <1>1, <1>3, Zenon DEF EnqueueStart
  <2>3. files = [e \in Entry |-> files[e]]
    BY DEF FilesInv
  <2>4. files'[v] = g /\ \A e \in Entry : e # v => files'[e] = files[e]
    BY <2>1, <2>2, <2>3
  <2>5. Named(g, k, TRUE, UnknownId, AtStart)
    <3>1. TRUE \in BOOLEAN
      OBVIOUS
    <3> QED BY <3>1, StartedIs, LitNamed, Zenon
  <2>6. g.start = k /\ g.active /\ g.id = UnknownId
    BY <2>5, Zenon DEF Named
  <2>7. PassesAll(files, clock) /\ StaysAll(files) /\ StartsAll(files) /\ ~files[v].active
    <3>1. ~files[v].active
      BY <2>1, Zenon DEF Active
    <3> QED BY <3>1, SamePassesAll
  <2>8. PassesAll(files', clock)
    BY <1>1, <2>1, <2>4, <2>6, <2>7, Zenon DEF PassesAll
  <2>9. StaysAll(files')
    BY <2>4, <2>6, <2>7, Zenon DEF StaysAll, Stays
  <2>10. StartsAll(files')
    BY <2>1, <2>4, Zenon DEF StartsAll
  <2> QED BY <2>1, <2>4, <2>6, <2>8, <2>9, <2>10, Zenon
<1> QED BY <1>2, <1>3

\* The id of one file is set.
Learns(fs, a, i) ==
    /\ \A e \in Entry : fs[e].start = files[e].start /\ (fs[e].active <=> files[e].active)
                        /\ fs[e].conf = files[e].conf /\ (e # a => fs[e].id = files[e].id)
    /\ fs[a].id = i

LEMMA SetIdLearns ==
  ASSUME FilesInv, NEW a \in Entry, files[a].start # 0, NEW i, SetRealId(a, i)
  PROVE  Learns(files', a, i)
<1> PICK f : f = files[a]
  OBVIOUS
<1> PICK g : g = [f EXCEPT !.id = i]
  OBVIOUS
<1>1. f \in FileType /\ f.active \in BOOLEAN
  BY FileFields DEF FilesInv
<1> PICK b : b = f.active
  OBVIOUS
<1>2. g = FileLit(f.start, b, i, f.await, f.conf, f.meters, f.stop)
  BY <1>1, IdIs, Zenon
<1>3. Named(FileLit(f.start, b, i, f.await, f.conf, f.meters, f.stop), f.start, b, i, f.conf)
  BY <1>1, LitNamed
<1>4. Named(g, f.start, f.active, i, f.conf)
  BY <1>2, <1>3, Zenon
<1>5. files' = [files EXCEPT ![a].id = i]
  BY Zenon DEF SetRealId, Exists
<1>6. files' = [files EXCEPT ![a] = g]
  BY <1>5
<1>7. files = [e \in Entry |-> files[e]]
  BY DEF FilesInv
<1>8. files'[a] = g /\ \A e \in Entry : e # a => files'[e] = files[e]
  BY <1>6, <1>7
<1> QED BY <1>4, <1>8, Zenon DEF Named, Learns

-----------------------------------------------------------------------------
(* The empty storage.                                                      *)

LEMMA EmptyStorage ==
  ASSUME StoreInit
  PROVE  /\ FilesInv /\ CacheInv /\ LoadedInv /\ QueueInv /\ RingInv
         /\ OrderInv /\ CacheOrder /\ TimesInv
         /\ Pending = {} /\ Queued = {}
<1>1. /\ files = [e \in Entry |-> NoFile] /\ oldest = {} /\ loaded = NothingLoaded /\ queue = <<>>
      /\ ring = EmptyRing /\ clock = 0
  BY DEF StoreInit
<1>2. \A e \in Entry : files[e] = NoFile
  BY <1>1
<1>3. FilesInv
  <2>1. NoFile \in FileType
    BY NoFileIs
  <2> QED BY <1>1, <2>1, NoFileRight DEF FilesInv
<1>4. LoadedInv /\ ~loaded.data
  BY <1>1, NothingLoadedRight, Zenon DEF IsUnloaded, LoadedInv, LoadedRight
<1>5. RingInv
  BY <1>1, EmptyRingRight, MaxNoType DEF RingInv
<1>6. QueueInv /\ CacheInv
  BY <1>1 DEF QueueInv, CacheInv
<1>7. OrderInv
  <2>1. TidyAll(files, clock)
    BY <1>1, <1>2, NoFileTidy DEF TidyAll
  <2>2. Apart(files)
    BY <1>2 DEF Apart, NoFile
  <2> QED BY <1>1, <2>1, <2>2 DEF OrderInv, Line
<1>8. CacheOrder
  BY <1>1, <1>4, Zenon DEF CacheOrder, First, Oldest
<1>9. TimesInv
  <2>1. ring.front = ring.back /\ ring.emptying
    BY <1>1, Zenon DEF EmptyRing
  <2>2. Len(queue) = 0 /\ 0 <= QueueCap /\ ~(0 > 0) /\ \A i \in 1 .. 0 : FALSE
    BY <1>1, CapType
  <2> QED BY <2>1, <2>2, Zenon DEF TimesInv, Timed
<1>10. Pending = {} /\ Queued = {}
  BY <1>1, <1>2, NoFileRight DEF Pending, Queued
<1> QED BY <1>3, <1>4, <1>5, <1>6, <1>7, <1>8, <1>9, <1>10
=============================================================================
