------------------------ MODULE OfflineDeliveryProofs ------------------------
(***************************************************************************)
(* Proofs about OfflineDelivery, for any number of session files, values,  *)
(* places in the log and in the outbox, any work and any troubles.         *)
(***************************************************************************)
EXTENDS OfflineDelivery, FiniteSetTheorems, WellFoundedInduction, TLAPS

-----------------------------------------------------------------------------
(* Numbers and finite sets.                                                *)

\* A set of numbers has a least one.
LEMMA LeastNumber ==
  ASSUME NEW S \in SUBSET Nat, S # {}
  PROVE  \E x \in S : \A y \in S : x <= y
<1> DEFINE Below(x) == 0 .. x - 1
           B == {Below(x) : x \in S}
<1>1. B \subseteq FiniteSubsetsOf(Nat)
  <2>1. \A x \in S : Below(x) \in SUBSET Nat /\ IsFiniteSet(Below(x))
    BY FS_Interval
  <2> QED BY <2>1 DEF FiniteSubsetsOf
<1>2. PICK X \in B : \A Y \in B : ~(<<Y, X>> \in StrictSubsetOrdering(Nat))
  <2>1. B # {}
    OBVIOUS
  <2> QED BY <1>1, <2>1, WFMin, FS_StrictSubsetOrderingWellFounded
<1>3. PICK x \in S : X = Below(x)
  OBVIOUS
<1>4. \A y \in S : x <= y
  <2> SUFFICES ASSUME NEW y \in S, y < x PROVE FALSE
    OBVIOUS
  <2>1. Below(y) \subseteq Below(x) /\ y \in Below(x) /\ y \notin Below(y)
    OBVIOUS
  <2>2. Below(y) \in SUBSET Nat /\ Below(x) \in SUBSET Nat /\ Below(y) # Below(x)
    BY <2>1
  <2>3. <<Below(y), Below(x)>> \in StrictSubsetOrdering(Nat)
    BY <2>1, <2>2 DEF StrictSubsetOrdering
  <2> QED BY <1>2, <1>3, <2>3
<1> QED BY <1>4

LEMMA MinOfSlots ==
  ASSUME NEW S \in SUBSET Slots, S # {}
  PROVE  Min(S) \in S /\ \A y \in S : Min(S) <= y
<1>1. S \in SUBSET Nat
  BY OfflineFilesAssumption DEF Slots
<1>2. PICK x \in S : \A y \in S : x <= y
  BY <1>1, LeastNumber
<1> QED BY <1>2 DEF Min

LEMMA MaxOfSlots ==
  ASSUME NEW S \in SUBSET Slots, S # {}
  PROVE  Max(S) \in S /\ \A y \in S : Max(S) >= y
<1>1. S \in SUBSET (0 .. MaxFiles - 1) /\ MaxFiles \in Nat
  BY OfflineFilesAssumption DEF Slots
<1> DEFINE D == {MaxFiles - x : x \in S}
<1>2. D \in SUBSET Nat
  BY <1>1
<1>3. D # {}
  OBVIOUS
<1>4. PICK d \in D : \A y \in D : d <= y
  BY <1>2, <1>3, LeastNumber
<1>5. PICK x \in S : d = MaxFiles - x
  BY <1>4
<1>6. \A y \in S : x >= y
  BY <1>1, <1>4, <1>5
<1> QED BY <1>6 DEF Max

\* A finite set leaves a number out.
LEMMA FreeNumber ==
  ASSUME NEW S, IsFiniteSet(S)
  PROVE  LET n == CHOOSE n \in 1 .. Cardinality(S) + 1 : n \notin S /\ \A k \in 1 .. n - 1 : k \in S
         IN  n \in Nat \ {0} /\ n \notin S
<1> DEFINE c == Cardinality(S)
           F == {n \in 1 .. c + 1 : n \notin S}
<1>1. c \in Nat
  BY FS_CardinalityType
<1>2. F # {}
  <2> SUFFICES ASSUME F = {} PROVE FALSE
    OBVIOUS
  <2>1. 1 .. c + 1 \in SUBSET S
    OBVIOUS
  <2>2. Cardinality(1 .. c + 1) = c + 1
    BY <1>1, FS_Interval
  <2>3. Cardinality(1 .. c + 1) <= c
    BY <2>1, FS_Subset
  <2> HIDE DEF c
  <2> QED BY <1>1, <2>2, <2>3
<1>3. PICK n \in F : \A k \in F : n <= k
  <2>1. F \in SUBSET Nat
    BY <1>1
  <2> QED BY <1>2, <2>1, LeastNumber
<1>4. n \notin S /\ n \in 1 .. c + 1
  BY <1>3
<1> HIDE DEF c
<1>5. ASSUME NEW k \in 1 .. n - 1 PROVE k \in S
  <2>1. k \in 1 .. c + 1 /\ ~(n <= k)
    BY <1>1, <1>4
  <2> QED BY <2>1, <1>3
<1>6. 1 .. c + 1 \subseteq Nat \ {0}
  BY <1>1
<1> QED BY <1>4, <1>5, <1>6 DEF c
-----------------------------------------------------------------------------
(* Types.                                                                  *)

Message == {"session", "reading"} \X Nat
CallState == {"none", "take", "wait", "ok", "failed"}

PublishType ==
    /\ mutex \in Publishers \cup {"nobody"}
    /\ blocked \in Nat /\ handling \in Nat
    /\ bits \subseteq {"queued", "published"}
    /\ call \in [Publishers -> [at : CallState, msg : Message \cup {<<>>}]]
    /\ \A t \in Publishers : call[t].at # "none" => call[t].msg \in Message
    /\ outbox \in Seq([id : Nat, msg : Message])
    /\ online \in BOOLEAN
    /\ got \subseteq Message

-----------------------------------------------------------------------------
(* The wait for an acknowledgement.                                        *)

(* Whoever waits holds the mutex, and only then the bit "queued" is set.   *)
Waiting ==
    /\ \A t \in Publishers : call[t].at = "wait" <=> mutex = t
    /\ "queued" \in bits <=> mutex # "nobody"

(* Of the messages in the outbox only that of the holder has the id that   *)
(* is waited for.                                                          *)
Ids ==
    /\ \A i, j \in DOMAIN outbox : outbox[i].id = outbox[j].id => i = j
    /\ mutex # "nobody" => \A i \in DOMAIN outbox : outbox[i].id = blocked => outbox[i].msg = call[mutex].msg

Seen == handling # 0 \/ "published" \in bits

(* An acknowledgement that has been let pass is that of the holder.        *)
Answered ==
    /\ Seen => /\ mutex # "nobody" /\ call[mutex].msg \in got
               /\ \A i \in DOMAIN outbox : outbox[i].id # blocked
    /\ ~(handling # 0 /\ "published" \in bits)
    /\ ReportedIsThere

PublishInv == PublishType /\ Waiting /\ Ids

\* A new message has an id of its own.
LEMMA NewIdIsNew ==
  ASSUME PublishType
  PROVE  /\ NewId \in Nat \ {0} /\ NewId \notin {blocked, handling}
         /\ \A i \in DOMAIN outbox : outbox[i].id # NewId
<1> DEFINE f == [i \in DOMAIN outbox |-> outbox[i].id]
           R == {outbox[i].id : i \in DOMAIN outbox}
<1>1. DOMAIN outbox = 1 .. Len(outbox) /\ Len(outbox) \in Nat
  BY DEF PublishType
<1>2. IsFiniteSet(DOMAIN outbox)
  BY <1>1, FS_Interval
<1>3. IsFiniteSet(R)
  <2>1. f \in Surjection(DOMAIN outbox, R)
    BY DEF Surjection
  <2> QED BY <1>2, <2>1, FS_Surjection
<1>4. IsFiniteSet({blocked, handling})
  <2>1. IsFiniteSet({blocked} \cup {handling})
    BY FS_Singleton, FS_AddElement
  <2>2. {blocked} \cup {handling} = {blocked, handling}
    OBVIOUS
  <2> QED BY <2>1, <2>2
<1>5. IsFiniteSet(InUse)
  BY <1>3, <1>4, FS_Union DEF InUse
<1>6. NewId \in Nat \ {0} /\ NewId \notin InUse
  BY <1>5, FreeNumber DEF NewId
<1> QED BY <1>6 DEF InUse

LEMMA PublishKeeps ==
  ASSUME PublishInv, NEW t \in Publishers, Publish(t)
  PROVE  PublishInv' /\ (Answered => Answered')
<1>0. "nobody" \notin Publishers
  BY BlockedPublishAssumption
<1>1. CASE Len(outbox) < MaxOutbox
  <2> DEFINE m == call[t].msg
             e == [id |-> NewId, msg |-> m]
  <2>1. NewId \in Nat \ {0} /\ \A i \in DOMAIN outbox : outbox[i].id # NewId
    BY NewIdIsNew DEF PublishInv
  <2>2. /\ outbox' = Append(outbox, e) /\ blocked' = NewId /\ bits' = bits \cup {"queued"} /\ mutex' = t
        /\ call' = [call EXCEPT ![t].at = "wait"]
        /\ UNCHANGED <<handling, online, got>>
    BY <1>1 DEF Publish, Return
  <2>3. m \in Message /\ e \in [id : Nat, msg : Message] /\ mutex = "nobody" /\ call[t].at = "take"
    BY <2>1 DEF Publish, PublishInv, PublishType
  <2>4. /\ outbox' \in Seq([id : Nat, msg : Message])
        /\ DOMAIN outbox' = DOMAIN outbox \cup {Len(outbox) + 1}
        /\ \A i \in DOMAIN outbox : outbox'[i] = outbox[i]
        /\ outbox'[Len(outbox) + 1] = e
    <3>1. outbox \in Seq([id : Nat, msg : Message])
      BY DEF PublishInv, PublishType
    <3> HIDE DEF e
    <3> QED BY <2>2, <2>3, <3>1
  <2>5. /\ call' \in [Publishers -> [at : CallState, msg : Message \cup {<<>>}]]
        /\ \A u \in Publishers : call'[u] = IF u = t THEN [at |-> "wait", msg |-> m] ELSE call[u]
    BY <2>2 DEF PublishInv, PublishType, CallState
  <2> HIDE DEF m
  <2>6. PublishType'
    BY <2>1, <2>2, <2>3, <2>4, <2>5 DEF PublishInv, PublishType
  <2>7. Waiting'
    BY <1>0, <2>2, <2>3, <2>5 DEF PublishInv, Waiting
  <2>8. Ids'
    <3>1. e.id = NewId /\ e.msg = m
      OBVIOUS
    <3>2. Len(outbox) + 1 \notin DOMAIN outbox
      BY DEF PublishInv, PublishType
    <3>3. call'[t].msg = m
      BY <2>5
    <3> HIDE DEF e
    <3>4. \A i, j \in DOMAIN outbox' : outbox'[i].id = outbox'[j].id => i = j
      BY <2>1, <2>4, <3>1, <3>2 DEF PublishInv, Ids
    <3>5. \A i \in DOMAIN outbox' : outbox'[i].id = blocked' => outbox'[i].msg = call'[mutex'].msg
      BY <2>1, <2>2, <2>4, <3>1, <3>3
    <3> QED BY <3>4, <3>5 DEF Ids
  <2>9. Answered => Answered'
    <3> SUFFICES ASSUME Answered PROVE Answered'
      OBVIOUS
    <3>1. ~Seen
      BY <2>3 DEF Answered
    <3>2. ~Seen'
      BY <2>2, <3>1 DEF Seen
    <3>3. ReportedIsThere'
      BY <2>2, <2>5 DEF Answered, ReportedIsThere
    <3> QED BY <3>2, <3>3 DEF Answered, Seen
  <2> QED BY <2>6, <2>7, <2>8, <2>9 DEF PublishInv
<1>2. CASE ~(Len(outbox) < MaxOutbox)
  <2>1. /\ UNCHANGED <<outbox, blocked, bits, mutex, handling, online, got>>
        /\ call' = [call EXCEPT ![t].at = "failed"] /\ call[t].at = "take" /\ mutex = "nobody"
    BY <1>2 DEF Publish, Return
  <2>2. /\ call' \in [Publishers -> [at : CallState, msg : Message \cup {<<>>}]]
        /\ \A u \in Publishers : call'[u] = IF u = t THEN [at |-> "failed", msg |-> call[t].msg] ELSE call[u]
    BY <2>1 DEF PublishInv, PublishType, CallState
  <2>3. PublishType'
    BY <2>1, <2>2 DEF PublishInv, PublishType
  <2>4. Waiting'
    BY <1>0, <2>1, <2>2 DEF PublishInv, Waiting
  <2>5. Ids'
    BY <2>1 DEF PublishInv, Ids
  <2>6. Answered => Answered'
    BY <2>1, <2>2 DEF Answered, ReportedIsThere, Seen
  <2> QED BY <2>3, <2>4, <2>5, <2>6 DEF PublishInv
<1> QED BY <1>1, <1>2
\* The wait ends.
LEMMA LeaveKeeps ==
  ASSUME PublishInv, NEW t \in Publishers, call[t].at = "wait", NEW how \in {"ok", "failed"}, Leave(t, how),
         how = "ok" => "published" \in bits
  PROVE  /\ PublishInv'
         /\ (how = "failed" => ~Seen) /\ Answered => Answered'
<1>0. "nobody" \notin Publishers
  BY BlockedPublishAssumption
<1>1. /\ UNCHANGED <<outbox, blocked, handling, online, got>>
      /\ call' = [call EXCEPT ![t].at = how]
      /\ bits' = bits \ (IF how = "ok" THEN {"queued", "published"} ELSE {"queued"})
      /\ mutex' = "nobody" /\ mutex = t
  BY DEF Leave, Return, PublishInv, Waiting
<1>2. /\ call' \in [Publishers -> [at : CallState, msg : Message \cup {<<>>}]]
      /\ \A u \in Publishers : call'[u] = IF u = t THEN [at |-> how, msg |-> call[t].msg] ELSE call[u]
  BY <1>1 DEF PublishInv, PublishType, CallState
<1>3. PublishType'
  BY <1>1, <1>2 DEF PublishInv, PublishType
<1>4. Waiting'
  BY <1>0, <1>1, <1>2 DEF PublishInv, Waiting
<1>5. Ids'
  BY <1>1 DEF PublishInv, Ids
<1>6. ASSUME Answered, how = "failed" => ~Seen PROVE Answered'
  <2>1. ~Seen'
    BY <1>1, <1>6 DEF Answered, Seen
  <2>2. how = "ok" => call[t].msg \in got
    BY <1>1, <1>6 DEF Answered, Seen
  <2>3. ReportedIsThere'
    BY <1>1, <1>2, <1>6, <2>2 DEF Answered, ReportedIsThere
  <2> QED BY <2>1, <2>3 DEF Answered, Seen
<1> QED BY <1>3, <1>4, <1>5, <1>6 DEF PublishInv

\* What is left of a sequence without its head.
LEMMA TailShifts ==
  ASSUME NEW K, NEW s \in Seq(K), s # <<>>
  PROVE  /\ Tail(s) \in Seq(K) /\ Head(s) = s[1] /\ 1 \in DOMAIN s /\ s[1] \in K
         /\ \A i \in DOMAIN Tail(s) : i \in Nat \ {0} /\ i + 1 \in DOMAIN s /\ Tail(s)[i] = s[i + 1]
OBVIOUS

\* The oldest message leaves the outbox.
LEMMA TailOfOutbox ==
  ASSUME PublishType, Ids, outbox # <<>>, outbox' = Tail(outbox)
  PROVE  /\ outbox' \in Seq([id : Nat, msg : Message])
         /\ Head(outbox) = outbox[1] /\ 1 \in DOMAIN outbox /\ Head(outbox) \in [id : Nat, msg : Message]
         /\ \A i \in DOMAIN outbox' : /\ i + 1 \in DOMAIN outbox /\ outbox'[i] = outbox[i + 1]
                                      /\ outbox'[i].id # Head(outbox).id
         /\ \A i, j \in DOMAIN outbox' : outbox'[i].id = outbox'[j].id => i = j
<1>1. outbox \in Seq([id : Nat, msg : Message])
  BY DEF PublishType
<1>2. /\ outbox' \in Seq([id : Nat, msg : Message])
      /\ Head(outbox) = outbox[1] /\ 1 \in DOMAIN outbox /\ Head(outbox) \in [id : Nat, msg : Message]
      /\ \A i \in DOMAIN outbox' : i + 1 \in DOMAIN outbox /\ outbox'[i] = outbox[i + 1] /\ i \in Nat \ {0}
  <2> DEFINE K == [id : Nat, msg : Message]
  <2>1. outbox \in Seq(K) /\ outbox # <<>>
    BY <1>1
  <2> HIDE DEF K
  <2>2. /\ Tail(outbox) \in Seq(K) /\ Head(outbox) = outbox[1] /\ 1 \in DOMAIN outbox /\ outbox[1] \in K
        /\ \A i \in DOMAIN Tail(outbox) : i \in Nat \ {0} /\ i + 1 \in DOMAIN outbox /\ Tail(outbox)[i] = outbox[i + 1]
    BY <2>1, TailShifts
  <2>3. outbox' = Tail(outbox)
    OBVIOUS
  <2> QED BY <2>2, <2>3, Zenon DEF K
<1>3. \A i \in DOMAIN outbox' : outbox'[i].id # Head(outbox).id
  <2> TAKE i \in DOMAIN outbox'
  <2>1. i + 1 \in DOMAIN outbox /\ 1 \in DOMAIN outbox /\ i + 1 # 1
    BY <1>2
  <2>2. outbox[i + 1].id # outbox[1].id
    BY <2>1 DEF Ids
  <2> QED BY <1>2, <2>2
<1>4. \A i, j \in DOMAIN outbox' : outbox'[i].id = outbox'[j].id => i = j
  <2> TAKE i, j \in DOMAIN outbox'
  <2>1. outbox[i + 1].id = outbox[j + 1].id => i + 1 = j + 1
    BY <1>2 DEF Ids
  <2>2. i + 1 = j + 1 => i = j
    BY <1>2
  <2> QED BY <1>2, <2>1, <2>2
<1> QED BY <1>2, <1>3, <1>4

LEMMA AcknowledgeKeeps ==
  ASSUME PublishInv, Acknowledge
  PROVE  PublishInv' /\ (Answered => Answered')
<1> DEFINE head == Head(outbox)
<1>1. /\ outbox' \in Seq([id : Nat, msg : Message])
      /\ head = outbox[1] /\ 1 \in DOMAIN outbox /\ head \in [id : Nat, msg : Message]
      /\ \A i \in DOMAIN outbox' : /\ i + 1 \in DOMAIN outbox /\ outbox'[i] = outbox[i + 1]
                                   /\ outbox'[i].id # head.id
      /\ \A i, j \in DOMAIN outbox' : outbox'[i].id = outbox'[j].id => i = j
  BY TailOfOutbox DEF Acknowledge, PublishInv
<1> DEFINE here == "queued" \in bits /\ head.id = blocked
<1>2. /\ got' = got \cup {head.msg} /\ handling = 0
      /\ UNCHANGED <<mutex, blocked, call, online>>
      /\ ~here => UNCHANGED <<bits, handling>>
      /\ here => \/ handling' = blocked /\ UNCHANGED bits
                 \/ bits' = bits \cup {"published"} /\ UNCHANGED handling
  BY DEF Acknowledge
<1>3. head.id \in Nat /\ head.msg \in Message
  BY <1>1
<1>4. here => mutex # "nobody" /\ head.msg = call[mutex].msg /\ \A i \in DOMAIN outbox' : outbox'[i].id # blocked
  BY <1>1 DEF PublishInv, Waiting, Ids
<1> HIDE DEF head, here
<1>5. PublishType'
  BY <1>1, <1>2, <1>3 DEF PublishInv, PublishType
<1>6. Waiting'
  BY <1>2 DEF PublishInv, Waiting
<1>7. Ids'
  BY <1>1, <1>2 DEF PublishInv, Ids
<1>8. ASSUME Answered PROVE Answered'
  <2>1. ReportedIsThere'
    BY <1>2, <1>8 DEF Answered, ReportedIsThere
  <2>2. CASE here
    <3>1. ~Seen
      <4>1. outbox[1].id = blocked /\ 1 \in DOMAIN outbox
        BY <1>1, <2>2 DEF here
      <4> QED BY <1>8, <4>1 DEF Answered
    <3>2. mutex' # "nobody" /\ call'[mutex'].msg \in got' /\ \A i \in DOMAIN outbox' : outbox'[i].id # blocked'
      BY <1>2, <1>4, <2>2
    <3>3. ~(handling' # 0 /\ "published" \in bits')
      BY <1>2, <2>2, <3>1 DEF Seen
    <3> QED BY <2>1, <3>2, <3>3 DEF Answered
  <2>3. CASE ~here
    <3>1. Seen' => Seen
      BY <1>2, <2>3 DEF Seen
    <3>2. Seen => \A i \in DOMAIN outbox' : outbox'[i].id # blocked'
      BY <1>1, <1>2, <1>8 DEF Answered
    <3>3. ~(handling' # 0 /\ "published" \in bits')
      BY <1>2, <1>8, <2>3 DEF Answered
    <3>4. Seen => mutex' # "nobody" /\ call'[mutex'].msg \in got'
      BY <1>2, <1>8 DEF Answered
    <3> QED BY <2>1, <3>1, <3>2, <3>3, <3>4 DEF Answered
  <2> QED BY <2>2, <2>3
<1> QED BY <1>5, <1>6, <1>7, <1>8 DEF PublishInv

LEMMA NetworkKeeps ==
  ASSUME PublishInv, SetPublished \/ Expire \/ GoOnline \/ GoOffline
  PROVE  PublishInv' /\ (Answered => Answered')
<1>1. CASE SetPublished
  <2>1. /\ handling # 0 /\ bits' = bits \cup {"published"} /\ handling' = 0
        /\ UNCHANGED <<mutex, blocked, call, outbox, online, got>>
    BY <1>1 DEF SetPublished
  <2>2. PublishType' /\ Waiting' /\ Ids'
    BY <2>1 DEF PublishInv, PublishType, Waiting, Ids
  <2>3. Answered => Answered'
    BY <2>1 DEF Answered, Seen, ReportedIsThere
  <2> QED BY <2>2, <2>3 DEF PublishInv
<1>2. CASE Expire
  <2>1. outbox # <<>> /\ outbox' = Tail(outbox) /\ UNCHANGED <<mutex, blocked, bits, call, handling, online, got>>
    BY <1>2 DEF Expire
  <2>2. /\ outbox' \in Seq([id : Nat, msg : Message])
        /\ \A i \in DOMAIN outbox' : i + 1 \in DOMAIN outbox /\ outbox'[i] = outbox[i + 1]
        /\ \A i, j \in DOMAIN outbox' : outbox'[i].id = outbox'[j].id => i = j
    BY <2>1, TailOfOutbox DEF PublishInv
  <2>3. PublishType' /\ Waiting'
    BY <2>1, <2>2 DEF PublishInv, PublishType, Waiting
  <2>4. Ids'
    BY <2>1, <2>2 DEF PublishInv, Ids
  <2>5. Answered => Answered'
    BY <2>1, <2>2 DEF Answered, Seen, ReportedIsThere
  <2> QED BY <2>3, <2>4, <2>5 DEF PublishInv
<1>3. CASE GoOnline \/ GoOffline
  <2>1. online' \in BOOLEAN /\ UNCHANGED <<mutex, blocked, bits, call, outbox, handling, got>>
    BY <1>3 DEF GoOnline, GoOffline
  <2>2. PublishType' /\ Waiting' /\ Ids'
    BY <2>1 DEF PublishInv, PublishType, Waiting, Ids
  <2>3. Answered => Answered'
    BY <2>1 DEF Answered, Seen, ReportedIsThere
  <2> QED BY <2>2, <2>3 DEF PublishInv
<1> QED BY <1>1, <1>2, <1>3

LEMMA CallKeeps ==
  ASSUME PublishInv, NEW t \in Publishers, NEW c \in [at : {"none", "take"}, msg : Message \cup {<<>>}],
         c.at # "none" => c.msg \in Message,
         call' = [call EXCEPT ![t] = c], call[t].at # "wait", UNCHANGED Rest
  PROVE  PublishInv' /\ (Answered => Answered')
<1>1. /\ call' \in [Publishers -> [at : CallState, msg : Message \cup {<<>>}]]
      /\ \A u \in Publishers : call'[u] = IF u = t THEN c ELSE call[u]
  BY DEF PublishInv, PublishType, CallState
<1>2. mutex # t /\ c.at \in {"none", "take"}
  BY DEF PublishInv, Waiting
<1>3. PublishType'
  BY <1>1 DEF PublishInv, PublishType, Rest
<1>4. Waiting'
  BY <1>1, <1>2 DEF PublishInv, Waiting, Rest
<1>5. Ids'
  BY <1>1, <1>2 DEF PublishInv, PublishType, Ids, Rest
<1>6. Answered => Answered'
  BY <1>1, <1>2 DEF PublishInv, PublishType, Answered, Seen, ReportedIsThere, Rest
<1> QED BY <1>3, <1>4, <1>5, <1>6 DEF PublishInv

LEMMA PublishStarts ==
  PublishInit => PublishInv /\ Answered
<1> SUFFICES ASSUME PublishInit PROVE PublishInv /\ Answered
  OBVIOUS
<1>1. PublishType
  BY DEF PublishInit, PublishType, NoCall, CallState
<1>2. Waiting /\ Ids
  BY BlockedPublishAssumption DEF PublishInit, Waiting, Ids, NoCall
<1>3. Answered
  BY DEF PublishInit, Answered, Seen, ReportedIsThere, NoCall
<1> QED BY <1>1, <1>2, <1>3 DEF PublishInv

LEMMA PublishRestarts ==
  ASSUME PublishInv, PublishRestart
  PROVE  PublishInv' /\ Answered'
<1>1. PublishType'
  BY DEF PublishRestart, PublishInv, PublishType, NoCall, CallState
<1>2. Waiting' /\ Ids'
  BY BlockedPublishAssumption DEF PublishRestart, Waiting, Ids, NoCall
<1>3. Answered'
  BY DEF PublishRestart, Answered, Seen, ReportedIsThere, NoCall
<1> QED BY <1>1, <1>2, <1>3 DEF PublishInv
-----------------------------------------------------------------------------
(* The session files.                                                      *)

Labels == {"B", "T", "E"}
FileType == [no : Nat, ended : BOOLEAN, valid : BOOLEAN, values : Seq(Labels)]

FilesType ==
    /\ files \in [Slots -> FileType]
    /\ activeFile \in Slots \cup {-1}
    /\ open \in BOOLEAN

\* What each operation leaves in each file.
LEMMA NoFileType == NoFile \in FileType
<1>1. <<>> \in Seq(Labels)
  OBVIOUS
<1> QED BY <1>1 DEF NoFile, FileType

LEMMA NewFileIsFree ==
  ASSUME FilesType
  PROVE  /\ NewFile \in Slots \cup {-1}
         /\ NewFile # -1 => files[NewFile] = NoFile
<1>1. Used \in SUBSET Slots /\ MaxFiles \in Nat \ {0} /\ Slots = 0 .. MaxFiles - 1
  BY OfflineFilesAssumption DEF Used, Slots
<1>2. CASE Used = {}
  <2>1. NewFile = 0 /\ 0 \in Slots /\ 0 \notin Used
    BY <1>1, <1>2 DEF NewFile
  <2> QED BY <2>1 DEF Used
<1>3. CASE Used # {}
  <2>1. Max(Used) \in Used /\ \A y \in Used : Max(Used) >= y
    BY <1>1, <1>3, MaxOfSlots
  <2>2. CASE Max(Used) = MaxFiles - 1
    BY <1>3, <2>2 DEF NewFile
  <2>3. CASE Max(Used) # MaxFiles - 1
    <3>1. NewFile = Max(Used) + 1
      BY <1>3, <2>3 DEF NewFile
    <3>2. NewFile \in Slots /\ NewFile \notin Used
      <4> DEFINE m == Max(Used)
      <4>1. m \in 0 .. MaxFiles - 1 /\ m # MaxFiles - 1 /\ \A y \in Used : m >= y
        BY <1>1, <2>1, <2>3
      <4>2. NewFile = m + 1
        BY <3>1
      <4> HIDE DEF m
      <4> QED BY <1>1, <4>1, <4>2
    <3> QED BY <3>2 DEF Used
  <2> QED BY <2>2, <2>3
<1> QED BY <1>2, <1>3

LEMMA SavesFile ==
  ASSUME FilesType, NEW no \in Nat, SaveSession(no)
  PROVE  /\ files' \in [Slots -> FileType] /\ activeFile' = NewFile
         /\ UNCHANGED <<open, log>>
         /\ \A f \in Slots : files'[f] = IF f = NewFile
                THEN [no |-> no, ended |-> FALSE, valid |-> TRUE, values |-> <<>>] ELSE files[f]
<1> DEFINE new == [no |-> no, ended |-> FALSE, valid |-> TRUE, values |-> <<>>]
<1>1. new \in FileType
  <2>1. <<>> \in Seq(Labels)
    OBVIOUS
  <2> QED BY <2>1 DEF FileType
<1>2. activeFile' = NewFile /\ UNCHANGED <<open, log>>
  BY DEF SaveSession
<1>3. files' = IF NewFile < 0 THEN files ELSE [files EXCEPT ![NewFile] = new]
  BY DEF SaveSession
<1>4. NewFile \in Slots \cup {-1} /\ Slots \subseteq Nat
  BY NewFileIsFree, OfflineFilesAssumption DEF Slots
<1>5. files \in [Slots -> FileType]
  BY DEF FilesType
<1> HIDE DEF new
<1>6. CASE NewFile = -1
  <2>1. files' = files /\ \A f \in Slots : f # NewFile
    BY <1>3, <1>4, <1>6
  <2> QED BY <1>2, <1>5, <2>1
<1>7. CASE NewFile \in Slots
  <2>1. files' = [files EXCEPT ![NewFile] = new]
    BY <1>3, <1>4, <1>7
  <2> QED BY <1>1, <1>2, <1>5, <2>1, <1>7 DEF new
<1> QED BY <1>4, <1>6, <1>7

\* Whether there is a session file to write to.
Held == activeFile # -1 /\ files[activeFile] # NoFile

LEMMA HeldMeans ==
  ASSUME FilesType
  PROVE  /\ Held <=> ~(activeFile < 0 \/ activeFile \notin Used)
         /\ Held => activeFile \in Slots
<1>1. Slots \subseteq Nat
  BY OfflineFilesAssumption DEF Slots
<1> QED BY <1>1 DEF FilesType, Held, Used

LEMMA UpdatesFile ==
  ASSUME FilesType, NEW no \in Nat, NEW e \in BOOLEAN, UpdateSession(no, e)
  PROVE  /\ files' \in [Slots -> FileType]
         /\ UNCHANGED <<activeFile, open, log>>
         /\ \A f \in Slots : files'[f] = IF f = activeFile /\ Held
                THEN [no |-> no, ended |-> e, valid |-> TRUE, values |-> files[f].values] ELSE files[f]
<1>1. UNCHANGED <<activeFile, open, log>>
  BY DEF UpdateSession
<1>2. files \in [Slots -> FileType]
  BY DEF FilesType
<1>3. CASE ~Held
  <2>1. files' = files
    BY <1>3, HeldMeans DEF UpdateSession
  <2> QED BY <1>1, <1>2, <1>3, <2>1
<1>4. CASE Held
  <2> DEFINE g == [no |-> no, ended |-> e, valid |-> TRUE, values |-> files[activeFile].values]
  <2>1. activeFile \in Slots
    BY <1>4, HeldMeans
  <2>2. files[activeFile] \in FileType
    BY <1>2, <2>1
  <2>3. g \in FileType
    BY <2>2 DEF FileType
  <2>4. files' = [files EXCEPT ![activeFile].no = no, ![activeFile].ended = e, ![activeFile].valid = TRUE]
    BY <1>4, HeldMeans DEF UpdateSession
  <2>5. files'[activeFile] = g /\ \A f \in Slots : f # activeFile => files'[f] = files[f]
    <3> DEFINE V == Seq(Labels)
               b == files'
    <3>1. files \in [Slots -> [no : Nat, ended : BOOLEAN, valid : BOOLEAN, values : V]]
      BY <1>2 DEF FileType
    <3>2. b = [files EXCEPT ![activeFile].no = no, ![activeFile].ended = e, ![activeFile].valid = TRUE]
      BY <2>4
    <3> HIDE DEF V, b
    <3>3. /\ b[activeFile] = [no |-> no, ended |-> e, valid |-> TRUE, values |-> files[activeFile].values]
          /\ \A f \in Slots : f # activeFile => b[f] = files[f]
      <4> DEFINE x == b[activeFile]
                 r == files[activeFile]
      <4>1. x = [r EXCEPT !.no = no, !.ended = e, !.valid = TRUE]
        BY <2>1, <3>1, <3>2
      <4>2. r \in [no : Nat, ended : BOOLEAN, valid : BOOLEAN, values : V]
        BY <2>1, <3>1
      <4> HIDE DEF x, r
      <4>3. x = [no |-> no, ended |-> e, valid |-> TRUE, values |-> r.values]
        BY <4>1, <4>2
      <4>4. \A f \in Slots : f # activeFile => b[f] = files[f]
        BY <2>1, <3>1, <3>2
      <4> QED BY <4>3, <4>4 DEF x, r
    <3> QED BY <3>3 DEF b
  <2>6. files' = [f \in Slots |-> IF f = activeFile THEN g ELSE files[f]]
    <3> HIDE DEF g
    <3>1. files' = [f \in Slots |-> files'[f]]
      BY <1>2, <2>4
    <3> QED BY <3>1, <2>5
  <2> HIDE DEF g
  <2>7. files' \in [Slots -> FileType] /\ \A f \in Slots : files'[f] = IF f = activeFile THEN g ELSE files[f]
    BY <1>2, <2>1, <2>3, <2>6
  <2> QED BY <1>1, <1>4, <2>7 DEF g
<1> QED BY <1>3, <1>4

\* The values of the file after one more.
NewValues(label) == IF ~Accepted(label) THEN files[activeFile].values
                    ELSE IF label = "B" THEN <<"B">> ELSE Append(files[activeFile].values, label)

LEMMA AppendsValue ==
  ASSUME FilesType, NEW label \in Labels, AppendEnergy(label)
  PROVE  /\ files' \in [Slots -> FileType] /\ open' \in BOOLEAN
         /\ open' = IF ~Held THEN open ELSE IF label = "B" THEN TRUE ELSE IF label = "E" THEN FALSE ELSE open
         /\ \A f \in Slots : files'[f] = IF f = activeFile /\ Held
                THEN [no |-> files[f].no, ended |-> files[f].ended, valid |-> files[f].valid,
                      values |-> NewValues(label)] ELSE files[f]
<1>1. files \in [Slots -> FileType] /\ open \in BOOLEAN
  BY DEF FilesType
<1>2. CASE ~Held
  <2>1. files' = files /\ open' = open
    BY <1>2, HeldMeans DEF AppendEnergy
  <2> QED BY <1>1, <1>2, <2>1
<1>3. CASE Held
  <2> DEFINE a == files[activeFile]
             g == [no |-> a.no, ended |-> a.ended, valid |-> a.valid, values |-> NewValues(label)]
  <2>1. activeFile \in Slots
    BY <1>3, HeldMeans
  <2>2. a \in FileType
    BY <1>1, <2>1
  <2>3. NewValues(label) \in Seq(Labels)
    <3>1. a.values \in Seq(Labels) /\ <<"B">> \in Seq(Labels)
      BY <2>2 DEF FileType, Labels
    <3> DEFINE s == a.values
    <3>2. Append(s, label) \in Seq(Labels)
      <4> HIDE DEF s
      <4> QED BY <3>1 DEF s
    <3> QED BY <3>1, <3>2 DEF NewValues
  <2>4. g \in FileType
    BY <2>2, <2>3 DEF FileType
  <2>5. /\ open' = IF label = "B" THEN TRUE ELSE IF label = "E" THEN FALSE ELSE open
        /\ files' = IF ~Accepted(label) THEN files
                    ELSE [files EXCEPT ![activeFile].values = IF label = "B" THEN <<"B">> ELSE Append(@, label)]
    BY <1>3, HeldMeans DEF AppendEnergy
  <2>6. files' = [files EXCEPT ![activeFile] = g]
    <3>1. CASE ~Accepted(label)
      <4>1. g = a
        BY <2>2, <3>1 DEF NewValues, FileType
      <4> QED BY <1>1, <2>1, <2>5, <3>1, <4>1
    <3>2. CASE Accepted(label)
      <4>1. files' = [files EXCEPT ![activeFile].values = NewValues(label)]
        BY <1>1, <2>1, <2>5, <3>2 DEF NewValues
      <4>2. g = [a EXCEPT !.values = NewValues(label)]
        BY <2>2 DEF FileType
      <4> QED BY <1>1, <2>1, <4>1, <4>2
    <3> QED BY <3>1, <3>2
  <2>7. open' \in BOOLEAN
    BY <1>1, <2>5
  <2> HIDE DEF g
  <2>8. files' \in [Slots -> FileType] /\ \A f \in Slots : files'[f] = IF f = activeFile THEN g ELSE files[f]
    BY <1>1, <2>1, <2>4, <2>6
  <2> QED BY <1>3, <2>5, <2>7, <2>8 DEF g
<1> QED BY <1>2, <1>3

LEMMA DeletesFile ==
  ASSUME FilesType, NEW d \in Slots \cup {-1}, DeleteFile(d)
  PROVE  /\ files' \in [Slots -> FileType]
         /\ \A f \in Slots : files'[f] = IF f = d THEN NoFile ELSE files[f]
<1>1. files \in [Slots -> FileType]
  BY DEF FilesType
<1> QED BY <1>1, NoFileType DEF DeleteFile
-----------------------------------------------------------------------------
(* What the tasks keep in RAM.                                             *)

SessionType == [no : Nat, ended : BOOLEAN, used : BOOLEAN, local : BOOLEAN]
Modes == {"disconnected", "requesting", "charging"}
Places == {"top", "send", "sent", "look", "start", "begin", "end", "seal", "sealed", "clear"}
OcmfPlaces == {"idle", "open", "line", "lineSent", "own", "ownSent", "append", "header", "value", "save"}
Indices == 0 .. MaxItems - 1
OcmfType == [at : OcmfPlaces, reading : Nat, start : Indices, end : Indices, car : BOOLEAN, seen : SessionType]

RamType ==
    /\ log \in [start : Indices, end : Indices, lines : [Indices -> Nat]]
    /\ session \in SessionType
    /\ {cur, prev} \subseteq Modes \cup {"uninitialized"} /\ mode \in Modes
    /\ pc \in Places /\ after \in {"look", "clear"}
    /\ ocmf \in OcmfType
    /\ starts \in Nat /\ readings \in Nat

LEMMA SessionRecords ==
  /\ \A n \in Nat, e, u, l \in BOOLEAN : [no |-> n, ended |-> e, used |-> u, local |-> l] \in SessionType
  /\ \A s \in SessionType : s.no \in Nat /\ s.ended \in BOOLEAN /\ s.used \in BOOLEAN /\ s.local \in BOOLEAN
  /\ NoSession \in SessionType
<1>1. \A n \in Nat, e, u, l \in BOOLEAN : [no |-> n, ended |-> e, used |-> u, local |-> l] \in SessionType
  BY DEF SessionType
<1>2. \A s \in SessionType : s.no \in Nat /\ s.ended \in BOOLEAN /\ s.used \in BOOLEAN /\ s.local \in BOOLEAN
  BY DEF SessionType
<1>3. FALSE \in BOOLEAN /\ 0 \in Nat
  OBVIOUS
<1>4. NoSession \in SessionType
  BY <1>1, <1>3, Zenon DEF NoSession
<1> QED BY <1>1, <1>2, <1>4

\* What each change of the session makes of its fields.
LEMMA SessionGoesOn ==
  ASSUME NEW s \in SessionType, NEW x, x = [s EXCEPT !.local = FALSE]
  PROVE  x \in SessionType /\ x = [no |-> s.no, ended |-> s.ended, used |-> s.used, local |-> FALSE]
<1>1. x = [no |-> s.no, ended |-> s.ended, used |-> s.used, local |-> FALSE]
  BY DEF SessionType, NoSession
<1>2. TRUE \in BOOLEAN /\ FALSE \in BOOLEAN
  OBVIOUS
<1> QED BY <1>1, <1>2, SessionRecords, Zenon

LEMMA SessionEnds ==
  ASSUME NEW s \in SessionType, NEW x, x = [s EXCEPT !.ended = TRUE]
  PROVE  x \in SessionType /\ x = [no |-> s.no, ended |-> TRUE, used |-> s.used, local |-> s.local]
<1>1. x = [no |-> s.no, ended |-> TRUE, used |-> s.used, local |-> s.local]
  BY DEF SessionType, NoSession
<1>2. TRUE \in BOOLEAN /\ FALSE \in BOOLEAN
  OBVIOUS
<1> QED BY <1>1, <1>2, SessionRecords, Zenon

LEMMA SessionUses ==
  ASSUME NEW s \in SessionType, NEW x, x = [s EXCEPT !.used = TRUE]
  PROVE  x \in SessionType /\ x = [no |-> s.no, ended |-> s.ended, used |-> TRUE, local |-> s.local]
<1>1. x = [no |-> s.no, ended |-> s.ended, used |-> TRUE, local |-> s.local]
  BY DEF SessionType, NoSession
<1>2. TRUE \in BOOLEAN /\ FALSE \in BOOLEAN
  OBVIOUS
<1> QED BY <1>1, <1>2, SessionRecords, Zenon

LEMMA SessionGetsId ==
  ASSUME NEW s \in SessionType, NEW n \in Nat, NEW x, x = [s EXCEPT !.no = n, !.local = FALSE]
  PROVE  x \in SessionType /\ x = [no |-> n, ended |-> s.ended, used |-> s.used, local |-> FALSE]
<1>1. x = [no |-> n, ended |-> s.ended, used |-> s.used, local |-> FALSE]
  BY DEF SessionType, NoSession
<1>2. TRUE \in BOOLEAN /\ FALSE \in BOOLEAN
  OBVIOUS
<1> QED BY <1>1, <1>2, SessionRecords, Zenon

LEMMA SessionResumes ==
  ASSUME  NEW n \in Nat, NEW x, x = [NoSession EXCEPT !.no = n]
  PROVE  x \in SessionType /\ x = [no |-> n, ended |-> FALSE, used |-> FALSE, local |-> FALSE]
<1>1. x = [no |-> n, ended |-> FALSE, used |-> FALSE, local |-> FALSE]
  BY DEF SessionType, NoSession
<1>2. TRUE \in BOOLEAN /\ FALSE \in BOOLEAN
  OBVIOUS
<1> QED BY <1>1, <1>2, SessionRecords, Zenon

LEMMA SessionBegins ==
  ASSUME  NEW n \in Nat, NEW x, x = [NoSession EXCEPT !.no = n, !.local = TRUE]
  PROVE  x \in SessionType /\ x = [no |-> n, ended |-> FALSE, used |-> FALSE, local |-> TRUE]
<1>1. x = [no |-> n, ended |-> FALSE, used |-> FALSE, local |-> TRUE]
  BY DEF SessionType, NoSession
<1>2. TRUE \in BOOLEAN /\ FALSE \in BOOLEAN
  OBVIOUS
<1> QED BY <1>1, <1>2, SessionRecords, Zenon

\* A call is under way where its task waits for it to return.
Calling ==
    \A t \in Publishers :
        call[t].at # "none" <=> IF t = "session" THEN pc = "sent" ELSE ocmf.at \in {"lineSent", "ownSent"}

TypeInv == PublishInv /\ FilesType /\ RamType /\ Calling

LEMMA PublishStays ==
  ASSUME PublishInv, UNCHANGED publish
  PROVE  PublishInv' /\ (Answered => Answered')
<1>1. UNCHANGED <<mutex, blocked, bits, call, outbox, handling, online, got>>
  BY DEF publish
<1>2. PublishType' /\ Waiting' /\ Ids'
  BY <1>1 DEF PublishInv, PublishType, Waiting, Ids
<1>3. Answered => Answered'
  BY <1>1 DEF Answered, Seen, ReportedIsThere
<1> QED BY <1>2, <1>3 DEF PublishInv

\* The steps of the session task that leave the files, the session and the calls.
LEMMA LoopTypes ==
  ASSUME TypeInv, Top \/ Clear \/ Begin \/ Seal \/ LetGo
  PROVE  FilesType' /\ RamType' /\ Calling' /\ UNCHANGED publish
<1>1. CASE Top
  <2>1. UNCHANGED <<publish, files, activeFile, open, log, session, cur, prev, ocmf, mode, starts, readings>>
    BY <1>1 DEF Top, fileVars, env
  <2>2. pc' \in {"send", "look"} /\ after' \in {"look", after} /\ pc = "top"
    BY <1>1 DEF Top
  <2>3. FilesType' /\ RamType'
    BY <2>1, <2>2 DEF TypeInv, FilesType, RamType, Places
  <2>4. Calling'
    BY <2>1, <2>2 DEF TypeInv, Calling, publish
  <2> QED BY <2>1, <2>3, <2>4
<1>2. CASE Clear
  <2>1. UNCHANGED <<publish, files, activeFile, open, log, cur, after, ocmf, mode, starts, readings>>
    BY <1>2 DEF Clear, fileVars, env
  <2>2. pc = "clear" /\ pc' = "top" /\ prev' = cur /\ session' = NoSession
    BY <1>2 DEF Clear
  <2>3. FilesType' /\ RamType'
    BY <2>1, <2>2, SessionRecords DEF TypeInv, FilesType, RamType, Places
  <2>4. Calling'
    BY <2>1, <2>2 DEF TypeInv, Calling, publish
  <2> QED BY <2>1, <2>3, <2>4
<1>3. CASE Begin
  <2>1. UNCHANGED <<publish, activeFile, log, session, cur, prev, after, ocmf, mode, starts, readings>>
    BY <1>3 DEF Begin, env
  <2>2. pc = "begin" /\ pc' = "end" /\ AppendEnergy("B")
    BY <1>3 DEF Begin
  <2>3. files' \in [Slots -> FileType] /\ open' \in BOOLEAN
    BY <2>2, AppendsValue DEF TypeInv, Labels
  <2>4. FilesType' /\ RamType'
    BY <2>1, <2>2, <2>3 DEF TypeInv, FilesType, RamType, Places
  <2>5. Calling'
    BY <2>1, <2>2 DEF TypeInv, Calling, publish
  <2> QED BY <2>1, <2>4, <2>5
<1>4. CASE Seal
  <2>1. UNCHANGED <<publish, session, cur, prev, after, ocmf, mode, starts, readings>>
    BY <1>4 DEF Seal, env
  <2>2. pc = "seal" /\ pc' = "sealed" /\ UpdateSession(session.no, session.ended)
    BY <1>4 DEF Seal
  <2>3. session.no \in Nat /\ session.ended \in BOOLEAN
    BY SessionRecords DEF TypeInv, RamType
  <2>4. files' \in [Slots -> FileType] /\ UNCHANGED <<activeFile, open, log>>
    BY <2>2, <2>3, UpdatesFile DEF TypeInv
  <2>5. FilesType' /\ RamType'
    BY <2>1, <2>2, <2>4 DEF TypeInv, FilesType, RamType, Places
  <2>6. Calling'
    BY <2>1, <2>2 DEF TypeInv, Calling, publish
  <2> QED BY <2>1, <2>5, <2>6
<1>5. CASE LetGo
  <2>1. UNCHANGED <<publish, open, log, session, cur, prev, ocmf, mode, starts, readings>>
    BY <1>5 DEF LetGo, env
  <2>2. pc = "sealed" /\ pc' \in {"send", "clear"} /\ after' \in {"clear", after} /\ activeFile' = -1
    BY <1>5 DEF LetGo
  <2>3. files' \in [Slots -> FileType]
    <3>1. CASE Dropped /\ activeFile >= 0
      BY <1>5, <3>1, DeletesFile DEF LetGo, TypeInv, FilesType
    <3>2. CASE ~(Dropped /\ activeFile >= 0)
      BY <1>5, <3>2 DEF LetGo, TypeInv, FilesType
    <3> QED BY <3>1, <3>2
  <2>4. FilesType' /\ RamType'
    BY <2>1, <2>2, <2>3 DEF TypeInv, FilesType, RamType, Places
  <2>5. Calling'
    BY <2>1, <2>2 DEF TypeInv, Calling, publish
  <2> QED BY <2>1, <2>4, <2>5
<1> QED BY <1>1, <1>2, <1>3, <1>4, <1>5

\* The steps at which the session changes.
LEMMA SessionTypes ==
  ASSUME TypeInv, Look \/ Start \/ End
  PROVE  FilesType' /\ RamType' /\ Calling' /\ UNCHANGED publish
<1>0. session \in SessionType /\ session.no \in Nat /\ session.ended \in BOOLEAN /\ Slots \subseteq Nat /\ starts + 1 \in Nat
  BY SessionRecords, OfflineFilesAssumption DEF TypeInv, RamType, Slots
<1>1. CASE Look
  <2>1. UNCHANGED <<publish, files, log, prev, after, ocmf, mode, starts, readings>>
    BY <1>1 DEF Look, env
  <2>2. pc = "look" /\ pc' \in {"start", "end"} /\ cur' = mode
    BY <1>1 DEF Look
  <2>3. session' \in SessionType /\ activeFile' \in Slots \cup {-1} /\ open' \in BOOLEAN
    <3>1. CASE UNCHANGED <<activeFile, open, session>>
      BY <1>0, <3>1 DEF TypeInv, FilesType
    <3>2. CASE /\ Incomplete >= 0
               /\ session' = [NoSession EXCEPT !.no = files[Incomplete].no]
               /\ activeFile' = Incomplete /\ open' = TRUE
      <4>1. Incomplete \in Slots
        <5>1. 0 \in Used /\ Incomplete = Max(Used)
          BY <3>2 DEF Incomplete
        <5>2. Used \in SUBSET Slots /\ Used # {}
          BY <5>1 DEF Used
        <5>3. Max(Used) \in Used
          BY <5>2, MaxOfSlots
        <5> QED BY <5>1, <5>2, <5>3
      <4>2. files[Incomplete].no \in Nat
        <5>1. files[Incomplete] \in FileType
          BY <4>1 DEF TypeInv, FilesType
        <5> QED BY <5>1 DEF FileType
      <4>3. session' \in SessionType
        BY <3>2, <4>2, SessionResumes
      <4> QED BY <3>2, <4>1, <4>3
    <3> QED BY <1>1, <3>1, <3>2 DEF Look, Resume
  <2>4. FilesType' /\ RamType'
    BY <2>1, <2>2, <2>3 DEF TypeInv, FilesType, RamType, Places
  <2>5. Calling'
    BY <2>1, <2>2 DEF TypeInv, Calling, publish
  <2> QED BY <2>1, <2>4, <2>5
<1>2. CASE Start
  <2>1. UNCHANGED <<publish, cur, prev, after, ocmf, mode, readings>>
    BY <1>2 DEF Start
  <2>2. pc = "start" /\ pc' \in {"begin", "end"}
    BY <1>2 DEF Start
  <2>3. session' \in SessionType /\ starts' \in Nat /\ FilesType' /\ UNCHANGED log
    <3>1. CASE session # NoSession
      <4>1. session' = [session EXCEPT !.local = FALSE] /\ UNCHANGED <<files, activeFile, open, log, starts>>
        BY <1>2, <3>1 DEF Start, fileVars
      <4>2. session' \in SessionType
        BY <1>0, <4>1, SessionGoesOn
      <4> QED BY <4>1, <4>2 DEF TypeInv, FilesType, RamType
    <3>2. CASE session = NoSession
      <4>1. /\ starts' = starts + 1 /\ session' = [NoSession EXCEPT !.no = starts', !.local = TRUE]
            /\ SaveSession(starts')
        BY <1>2, <3>2 DEF Start
      <4>2. session' \in SessionType
        BY <1>0, <4>1, SessionBegins
      <4>3. FilesType' /\ UNCHANGED log
        BY <1>0, <4>1, SavesFile, NewFileIsFree DEF TypeInv, FilesType
      <4> QED BY <1>0, <4>1, <4>2, <4>3
    <3> QED BY <3>1, <3>2
  <2>4. RamType'
    BY <2>1, <2>2, <2>3 DEF TypeInv, RamType, Places
  <2>5. Calling'
    BY <2>1, <2>2 DEF TypeInv, Calling, publish
  <2> QED BY <2>1, <2>3, <2>4, <2>5
<1>3. CASE End
  <2>1. UNCHANGED <<publish, activeFile, log, cur, after, ocmf, mode, starts, readings>>
    BY <1>3 DEF End, env
  <2>2. pc = "end" /\ pc' \in {"seal", "top"} /\ prev' \in {cur, prev}
    BY <1>3 DEF End
  <2>3. session' \in SessionType
    <3>1. \/ session' = [session EXCEPT !.ended = TRUE]
          \/ session' = [session EXCEPT !.used = TRUE]
          \/ session' = session
      BY <1>3 DEF End
    <3> QED BY <1>0, <3>1, SessionEnds, SessionUses
  <2>4. files' \in [Slots -> FileType] /\ open' \in BOOLEAN
    <3>1. AppendEnergy("E") \/ UNCHANGED <<files, open>>
      BY <1>3 DEF End
    <3>2. AppendEnergy("E") => files' \in [Slots -> FileType] /\ open' \in BOOLEAN
      BY AppendsValue DEF TypeInv, Labels
    <3> QED BY <3>1, <3>2 DEF TypeInv, FilesType
  <2>5. FilesType' /\ RamType'
    BY <2>1, <2>2, <2>3, <2>4 DEF TypeInv, FilesType, RamType, Places
  <2>6. Calling'
    BY <2>1, <2>2 DEF TypeInv, Calling, publish
  <2> QED BY <2>1, <2>5, <2>6
<1> QED BY <1>1, <1>2, <1>3
\* The records of the task of the readings and of the log.
LEMMA OcmfRecords ==
  /\ \A a \in OcmfPlaces, r \in Nat, s, e \in Indices, c \in BOOLEAN, n \in SessionType :
        [at |-> a, reading |-> r, start |-> s, end |-> e, car |-> c, seen |-> n] \in OcmfType
  /\ \A o \in OcmfType : /\ o.at \in OcmfPlaces /\ o.reading \in Nat /\ o.start \in Indices /\ o.end \in Indices
                         /\ o.car \in BOOLEAN /\ o.seen \in SessionType
  /\ Idle \in OcmfType
<1>1. \A a \in OcmfPlaces, r \in Nat, s, e \in Indices, c \in BOOLEAN, n \in SessionType :
        [at |-> a, reading |-> r, start |-> s, end |-> e, car |-> c, seen |-> n] \in OcmfType
  BY DEF OcmfType
<1>2. \A o \in OcmfType : /\ o.at \in OcmfPlaces /\ o.reading \in Nat /\ o.start \in Indices /\ o.end \in Indices
                          /\ o.car \in BOOLEAN /\ o.seen \in SessionType
  BY DEF OcmfType
<1>3. FALSE \in BOOLEAN /\ 0 \in Nat /\ 0 \in Indices /\ "idle" \in OcmfPlaces
  BY OfflineFilesAssumption DEF Indices, OcmfPlaces
<1>4. Idle \in OcmfType
  BY <1>1, <1>3, SessionRecords, Zenon DEF Idle
<1> QED BY <1>1, <1>2, <1>4

LEMMA OcmfGoes ==
  ASSUME NEW o \in OcmfType, NEW a \in OcmfPlaces, NEW x, x = [o EXCEPT !.at = a]
  PROVE  /\ x \in OcmfType
         /\ x = [at |-> a, reading |-> o.reading, start |-> o.start, end |-> o.end, car |-> o.car, seen |-> o.seen]
<1> DEFINE K == SessionType
<1>1. o \in [at : OcmfPlaces, reading : Nat, start : Indices, end : Indices, car : BOOLEAN, seen : K]
  BY DEF OcmfType
<1> HIDE DEF K
<1>2. x = [at |-> a, reading |-> o.reading, start |-> o.start, end |-> o.end, car |-> o.car, seen |-> o.seen]
  BY <1>1
<1>3. /\ o.reading \in Nat /\ o.start \in Indices /\ o.end \in Indices /\ o.car \in BOOLEAN /\ o.seen \in SessionType
  BY OcmfRecords, Zenon
<1>4. [at |-> a, reading |-> o.reading, start |-> o.start, end |-> o.end, car |-> o.car, seen |-> o.seen] \in OcmfType
  BY <1>3, OcmfRecords, Zenon
<1> QED BY <1>2, <1>4, Zenon

LEMMA OcmfReads ==
  ASSUME NEW o \in OcmfType, NEW a \in OcmfPlaces, NEW s \in Indices, NEW e \in Indices,
         NEW x, x = [o EXCEPT !.at = a, !.start = s, !.end = e]
  PROVE  /\ x \in OcmfType
         /\ x = [at |-> a, reading |-> o.reading, start |-> s, end |-> e, car |-> o.car, seen |-> o.seen]
<1> DEFINE K == SessionType
<1>1. o \in [at : OcmfPlaces, reading : Nat, start : Indices, end : Indices, car : BOOLEAN, seen : K]
  BY DEF OcmfType
<1> HIDE DEF K
<1>2. x = [at |-> a, reading |-> o.reading, start |-> s, end |-> e, car |-> o.car, seen |-> o.seen]
  BY <1>1
<1>3. o.reading \in Nat /\ o.car \in BOOLEAN /\ o.seen \in SessionType
  BY OcmfRecords, Zenon
<1>4. [at |-> a, reading |-> o.reading, start |-> s, end |-> e, car |-> o.car, seen |-> o.seen] \in OcmfType
  BY <1>3, OcmfRecords, Zenon
<1> QED BY <1>2, <1>4, Zenon

LEMMA OcmfBegins ==
  ASSUME NEW a \in OcmfPlaces, NEW r \in Nat, NEW c \in BOOLEAN,
         NEW x, x = [Idle EXCEPT !.at = a, !.reading = r, !.car = c]
  PROVE  x \in OcmfType /\ x = [at |-> a, reading |-> r, start |-> 0, end |-> 0, car |-> c, seen |-> NoSession]
<1>1. x = [at |-> a, reading |-> r, start |-> 0, end |-> 0, car |-> c, seen |-> NoSession]
  BY DEF Idle
<1>2. 0 \in Indices
  BY OfflineFilesAssumption DEF Indices
<1>3. [at |-> a, reading |-> r, start |-> 0, end |-> 0, car |-> c, seen |-> NoSession] \in OcmfType
  BY <1>2, OcmfRecords, SessionRecords, Zenon
<1> QED BY <1>1, <1>3, Zenon

LEMMA OcmfSees ==
  ASSUME NEW o \in OcmfType, NEW n \in SessionType, NEW x, x = [o EXCEPT !.at = "save", !.seen = n]
  PROVE  /\ x \in OcmfType
         /\ x = [at |-> "save", reading |-> o.reading, start |-> o.start, end |-> o.end, car |-> o.car, seen |-> n]
<1> DEFINE K == SessionType
<1>1. o \in [at : OcmfPlaces, reading : Nat, start : Indices, end : Indices, car : BOOLEAN, seen : K] /\ n \in K
  BY DEF OcmfType
<1> HIDE DEF K
<1>2. x = [at |-> "save", reading |-> o.reading, start |-> o.start, end |-> o.end, car |-> o.car, seen |-> n]
  BY <1>1
<1>3. "save" \in OcmfPlaces
  BY DEF OcmfPlaces
<1>4. o.reading \in Nat /\ o.start \in Indices /\ o.end \in Indices /\ o.car \in BOOLEAN
  BY OcmfRecords, Zenon
<1>5. [at |-> "save", reading |-> o.reading, start |-> o.start, end |-> o.end, car |-> o.car, seen |-> n] \in OcmfType
  BY <1>3, <1>4, OcmfRecords, Zenon
<1> QED BY <1>2, <1>5, Zenon

LogType == [start : Indices, end : Indices, lines : [Indices -> Nat]]

LEMMA LogRecords ==
  ASSUME NEW g \in LogType
  PROVE  g.start \in Indices /\ g.end \in Indices /\ g.lines \in [Indices -> Nat]
BY DEF LogType

\* The place after one of the ring.
LEMMA FollowingIs ==
  ASSUME NEW i \in Indices
  PROVE  Following(i) \in Indices /\ Following(i) = IF i = MaxItems - 1 THEN 0 ELSE i + 1
<1>1. MaxItems \in Nat /\ MaxItems > 1
  BY OfflineFilesAssumption
<1>2. \A k \in 0 .. MaxItems - 1 : k % MaxItems = k
  BY <1>1
<1>3. MaxItems % MaxItems = 0
  BY <1>1
<1>4. CASE i = MaxItems - 1
  <2>1. i + 1 = MaxItems
    BY <1>1, <1>4
  <2> QED BY <1>1, <1>3, <1>4, <2>1 DEF Following, Indices
<1>5. CASE i # MaxItems - 1
  <2>1. i + 1 \in 0 .. MaxItems - 1
    BY <1>1, <1>5 DEF Indices
  <2> QED BY <1>2, <1>5, <2>1 DEF Following, Indices
<1> QED BY <1>4, <1>5

LEMMA SetsHeader ==
  ASSUME log \in LogType, NEW s \in Indices, NEW e \in Indices, SetHeader(s, e)
  PROVE  log' \in LogType /\ log'.start = s /\ log'.end = e /\ log'.lines = log.lines
BY DEF SetHeader, LogType

LEMMA LineWritten ==
  ASSUME log \in LogType, NEW r \in Nat, WriteLine(r)
  PROVE  /\ log' \in LogType /\ log'.start = log.start /\ log'.end = log.end
         /\ \A j \in Indices : log'.lines[j] = IF j = log.end THEN r ELSE log.lines[j]
<1>1. log.end \in Indices /\ log.lines \in [Indices -> Nat]
  BY LogRecords
<1>2. log' = [log EXCEPT !.lines[log.end] = r]
  BY DEF WriteLine
<1> DEFINE e == log.end
<1>3. log' = [log EXCEPT !.lines[e] = r] /\ e \in Indices
  BY <1>1, <1>2
<1> HIDE DEF e
<1>4. log' \in LogType /\ log'.start = log.start /\ log'.end = log.end /\ log'.lines = [log.lines EXCEPT ![e] = r]
  BY <1>3 DEF LogType
<1>5. \A j \in Indices : log'.lines[j] = IF j = e THEN r ELSE log.lines[j]
  BY <1>1, <1>3, <1>4
<1> QED BY <1>4, <1>5 DEF e

LEMMA EndMoves ==
  ASSUME log \in LogType, MoveEnd
  PROVE  /\ log' \in LogType
         /\ log'.lines = log.lines
         /\ log'.end = Following(log.end)
         /\ log'.start = IF Following(log.end) = log.start THEN Following(log.start) ELSE log.start
<1>1. log.end \in Indices /\ log.start \in Indices /\ Following(log.end) \in Indices /\ Following(log.start) \in Indices
  BY LogRecords, FollowingIs
<1>2. log' = [log EXCEPT !.end = Following(log.end), !.start = IF Following(log.end) = @ THEN Following(@) ELSE @]
  BY DEF MoveEnd
<1> DEFINE x == log'
           f == Following(log.end)
           g == Following(log.start)
<1>3. x = [log EXCEPT !.end = f, !.start = IF f = log.start THEN g ELSE @]
  BY <1>2 DEF LogType
<1>4. f \in Indices /\ g \in Indices
  BY <1>1
<1> HIDE DEF x, f, g
<1>5. x \in LogType /\ x.lines = log.lines /\ x.end = f /\ x.start = IF f = log.start THEN g ELSE log.start
  BY <1>1, <1>3, <1>4 DEF LogType
<1> QED BY <1>5 DEF x, f, g

-----------------------------------------------------------------------------
(* Where the session task is and what it holds there.                      *)

\* A session that has ended is on its way out.
Closing == pc \in {"seal", "sealed", "clear"} \/ (pc \in {"send", "sent"} /\ after = "clear")

\* There is a session while the loop has seen the car, and a file in hand only
\* during a session.  The files to send are those that are used.
LoopInv ==
    /\ session.no = 0 => session = NoSession
    /\ pc = "top" => prev = cur
    /\ pc \in {"top", "look"} => (session # NoSession <=> prev \in Connected)
    /\ pc \in {"send", "sent"} /\ after = "look" => session = NoSession /\ prev \notin Connected
    /\ pc = "start" => cur \in Connected
    /\ pc = "begin" => cur \in Connected /\ session # NoSession
    /\ pc = "end" => cur \in Modes /\ (session # NoSession <=> cur \in Connected \/ prev \in Connected)
    /\ Closing => cur = "disconnected" /\ session # NoSession
    /\ session.ended <=> Closing
    /\ activeFile # -1 => (session # NoSession \/ pc = "start") /\ pc \notin {"send", "sent", "clear"}
    /\ pc \in {"send", "sent"} => left = Cardinality(Used)
    /\ pc = "sent" => left # 0

\* The set of used files is finite.
LEMMA UsedIsFinite ==
  /\ IsFiniteSet(Used) /\ Cardinality(Used) \in Nat
  /\ Used = {} <=> Cardinality(Used) = 0
<1>1. IsFiniteSet(Slots) /\ Used \subseteq Slots
  BY FS_Interval, OfflineFilesAssumption DEF Slots, Used
<1>2. IsFiniteSet(Used)
  BY <1>1, FS_Subset
<1> QED BY <1>2, FS_CardinalityType, FS_EmptySet

\* With files to send there is an oldest one.
LEMMA OldestIsUsed ==
  ASSUME Used # {}
  PROVE  /\ OldestFile \in Used /\ OldestFile \in Slots
         /\ \A f \in Used : OldestFile <= f
<1>1. Used \in SUBSET Slots
  BY DEF Used
<1> QED BY <1>1, MinOfSlots DEF OldestFile

LEMMA TasksPublish == "session" \in Publishers /\ "ocmf" \in Publishers /\ \A t \in Publishers : t \in {"session", "ocmf"}
BY OfflineDeliveryAssumption

LEMMA SendTypes ==
  ASSUME TypeInv, LoopInv, Send \/ Sent
  PROVE  FilesType' /\ RamType' /\ Calling' /\ PublishInv' /\ (Answered => Answered')
<1>1. UNCHANGED <<Rest, activeFile, open, log, session, cur, prev, after, ocmf, mode, starts, readings>>
  BY DEF Send, Sent, fileVars, Rest, env
<1>2. CASE Send
  <2>1. pc = "send" /\ pc' \in {"sent", after} /\ UNCHANGED files
    BY <1>2 DEF Send, fileVars
  <2>2. FilesType' /\ RamType'
    BY <1>1, <2>1 DEF TypeInv, FilesType, RamType, Places
  <2>3. CASE left = 0
    <3>1. pc' = after /\ UNCHANGED call
      BY <1>2, <2>3 DEF Send
    <3>2. Calling'
      BY <1>1, <2>1, <3>1 DEF TypeInv, Calling, RamType
    <3>3. PublishInv' /\ (Answered => Answered')
      BY <1>1, <3>1, PublishStays DEF Rest, publish, TypeInv
    <3> QED BY <2>2, <3>2, <3>3
  <2>4. CASE left # 0
    <3> DEFINE c == [at |-> "take", msg |-> SessionMessage(OldestFile)]
    <3>1. pc' = "sent" /\ call' = [call EXCEPT !["session"] = c]
      BY <1>2, <2>4 DEF Send, Call
    <3>2. Used # {}
      BY <2>1, <2>4, UsedIsFinite DEF LoopInv
    <3>3. files[OldestFile] \in FileType
      BY <3>2, OldestIsUsed DEF TypeInv, FilesType
    <3>4. SessionMessage(OldestFile) \in Message
      <4>1. files[OldestFile].no \in Nat
        BY <3>3 DEF FileType
      <4> QED BY <4>1 DEF SessionMessage, Message
    <3>5. c \in [at : {"none", "take"}, msg : Message \cup {<<>>}] /\ c.at = "take" /\ c.msg \in Message
      BY <3>4
    <3>6. call["session"].at = "none"
      BY <2>1, TasksPublish DEF TypeInv, Calling
    <3>7. PublishInv' /\ (Answered => Answered')
      <4> HIDE DEF c
      <4> QED BY <1>1, <3>1, <3>5, <3>6, TasksPublish, CallKeeps DEF TypeInv
    <3>8. Calling'
      <4>1. call \in [Publishers -> [at : CallState, msg : Message \cup {<<>>}]]
        BY DEF TypeInv, PublishInv, PublishType
      <4> HIDE DEF c
      <4>2. \A t \in Publishers : call'[t] = IF t = "session" THEN c ELSE call[t]
        BY <3>1, <4>1
      <4> QED BY <1>1, <3>1, <3>5, <4>2 DEF TypeInv, Calling
    <3> QED BY <2>2, <3>7, <3>8
  <2> QED BY <2>3, <2>4
<1>3. CASE Sent
  <2>1. /\ pc = "sent" /\ pc' \in {"send", after} /\ call' = [call EXCEPT !["session"] = NoCall]
        /\ call["session"].at \in {"ok", "failed"}
        /\ DeleteFile(OldestFile) \/ UNCHANGED files
    BY <1>3 DEF Sent, Returned, Done
  <2>2. files' \in [Slots -> FileType]
    <3>1. Used # {}
      BY <2>1, UsedIsFinite DEF LoopInv
    <3>2. OldestFile \in Slots
      BY <3>1, OldestIsUsed
    <3> QED BY <2>1, <3>2, DeletesFile DEF TypeInv, FilesType
  <2>3. FilesType' /\ RamType'
    BY <1>1, <2>1, <2>2 DEF TypeInv, FilesType, RamType, Places
  <2>4. NoCall \in [at : {"none", "take"}, msg : Message \cup {<<>>}] /\ NoCall.at = "none"
    BY DEF NoCall
  <2>5. PublishInv' /\ (Answered => Answered')
    BY <1>1, <2>1, <2>4, TasksPublish, CallKeeps DEF TypeInv
  <2>6. Calling'
    <3>1. call \in [Publishers -> [at : CallState, msg : Message \cup {<<>>}]]
      BY DEF TypeInv, PublishInv, PublishType
    <3>2. \A t \in Publishers : call'[t] = IF t = "session" THEN NoCall ELSE call[t]
      BY <2>1, <3>1
    <3>3. pc' # "sent"
      BY <2>1 DEF TypeInv, RamType
    <3> QED BY <1>1, <2>4, <3>2, <3>3 DEF TypeInv, Calling
  <2> QED BY <2>3, <2>5, <2>6
<1> QED BY <1>2, <1>3

\* The steps of the task of the readings that publish nothing.
LEMMA OcmfLooks ==
  ASSUME TypeInv, Hour \/ Skip \/ OpenLog \/ LogLine \/ LogHeader
  PROVE  FilesType' /\ RamType' /\ Calling' /\ UNCHANGED publish
<1>0. /\ UNCHANGED <<publish, files, activeFile, open, session, cur, prev, pc, after, mode, starts>>
      /\ log \in LogType /\ ocmf \in OcmfType
  BY DEF Hour, Skip, OpenLog, LogLine, LogHeader, fileVars, Others, ram, TypeInv, RamType, LogType
<1>1. /\ ocmf' \in OcmfType /\ ocmf'.at \notin {"lineSent", "ownSent"} /\ ocmf.at \notin {"lineSent", "ownSent"}
      /\ readings' \in Nat /\ log' \in LogType
  <2>1. CASE Hour
    <3>1. UNCHANGED log /\ ocmf.at = "idle" /\ readings' \in {readings, readings + 1} /\ readings' \in Nat
      BY <2>1 DEF Hour, fileVars, TypeInv, RamType
    <3> DEFINE a == IF online THEN "open" ELSE "append"
               c == mode # "disconnected"
               r == IF Measures THEN readings' ELSE 0
    <3>2. ocmf' = [Idle EXCEPT !.at = a, !.reading = r, !.car = c]
      BY <2>1 DEF Hour
    <3>3. a \in OcmfPlaces /\ a \notin {"lineSent", "ownSent"} /\ c \in BOOLEAN /\ r \in Nat
      BY <3>1 DEF OcmfPlaces
    <3> HIDE DEF a, c, r
    <3>4. /\ ocmf' \in OcmfType
          /\ ocmf' = [at |-> a, reading |-> r, start |-> 0, end |-> 0, car |-> c, seen |-> NoSession]
      BY <3>1, <3>2, <3>3, OcmfBegins, Zenon
    <3>5. ocmf'.at = a
      BY <3>4
    <3> QED BY <1>0, <3>1, <3>3, <3>4, <3>5
  <2>2. CASE OpenLog
    <3>1. UNCHANGED <<log, readings>> /\ ocmf.at = "open"
      BY <2>2 DEF OpenLog, fileVars
    <3>2. \/ ocmf' = [ocmf EXCEPT !.at = "line", !.start = log.start, !.end = log.end]
          \/ ocmf' = [ocmf EXCEPT !.at = "own"]
      BY <2>2 DEF OpenLog
    <3>3. "line" \in OcmfPlaces /\ "own" \in OcmfPlaces /\ log.start \in Indices /\ log.end \in Indices
      BY <1>0, LogRecords DEF OcmfPlaces
    <3>4. ocmf' \in OcmfType /\ ocmf'.at \in {"line", "own"}
      <4>1. CASE ocmf' = [ocmf EXCEPT !.at = "line", !.start = log.start, !.end = log.end]
        <5>1. /\ ocmf' \in OcmfType
              /\ ocmf' = [at |-> "line", reading |-> ocmf.reading, start |-> log.start, end |-> log.end,
                          car |-> ocmf.car, seen |-> ocmf.seen]
          BY <1>0, <3>3, <4>1, OcmfReads, Zenon
        <5> QED BY <5>1
      <4>2. CASE ocmf' = [ocmf EXCEPT !.at = "own"]
        <5>1. /\ ocmf' \in OcmfType
              /\ ocmf' = [at |-> "own", reading |-> ocmf.reading, start |-> ocmf.start, end |-> ocmf.end,
                          car |-> ocmf.car, seen |-> ocmf.seen]
          BY <1>0, <3>3, <4>2, OcmfGoes, Zenon
        <5> QED BY <5>1
      <4> QED BY <3>2, <4>1, <4>2
    <3> QED BY <1>0, <3>1, <3>4 DEF TypeInv, RamType
  <2>3. CASE LogLine \/ LogHeader
    <3>1. /\ UNCHANGED readings /\ ocmf.at \in {"append", "header"}
          /\ ocmf' = [ocmf EXCEPT !.at = "value"] \/ ocmf' = [ocmf EXCEPT !.at = "header"]
          /\ WriteLine(ocmf.reading) \/ MoveEnd \/ UNCHANGED log
      BY <2>3 DEF LogLine, LogHeader
    <3>2. "value" \in OcmfPlaces /\ "header" \in OcmfPlaces /\ ocmf.reading \in Nat
      BY <1>0, OcmfRecords DEF OcmfPlaces
    <3>3. ocmf' \in OcmfType /\ ocmf'.at \in {"value", "header"}
      BY <1>0, <3>1, <3>2, OcmfGoes
    <3>4. log' \in LogType
      BY <1>0, <3>1, <3>2, LineWritten, EndMoves
    <3> QED BY <3>1, <3>3, <3>4 DEF TypeInv, RamType
  <2>4. CASE Skip
    <3>1. UNCHANGED <<log, readings>> /\ ocmf.at \in {"own", "append"} /\ ocmf' = Idle
      BY <2>4 DEF Skip, fileVars
    <3>2. ocmf' \in OcmfType /\ ocmf'.at = "idle"
      BY <3>1, OcmfRecords DEF Idle
    <3> QED BY <1>0, <3>1, <3>2 DEF TypeInv, RamType
  <2> QED BY <2>1, <2>2, <2>3, <2>4
<1>2. FilesType' /\ RamType'
  BY <1>0, <1>1 DEF TypeInv, FilesType, RamType, LogType
<1>3. Calling'
  BY <1>0, <1>1 DEF TypeInv, Calling, publish
<1> QED BY <1>0, <1>2, <1>3

\* A call of the task of the readings begins or is over.
LEMMA OcmfCalls ==
  ASSUME TypeInv, NEW c \in [at : {"none", "take"}, msg : Message \cup {<<>>}],
         c.at # "none" => c.msg \in Message,
         call' = [call EXCEPT !["ocmf"] = c], call["ocmf"].at # "wait",
         UNCHANGED Rest, UNCHANGED pc,
         c.at # "none" <=> ocmf'.at \in {"lineSent", "ownSent"}
  PROVE  Calling' /\ PublishInv' /\ (Answered => Answered')
<1>1. PublishInv' /\ (Answered => Answered')
  BY TasksPublish, CallKeeps DEF TypeInv
<1>2. call \in [Publishers -> [at : CallState, msg : Message \cup {<<>>}]]
  BY DEF TypeInv, PublishInv, PublishType
<1>3. \A t \in Publishers : call'[t] = IF t = "ocmf" THEN c ELSE call[t]
  BY <1>2
<1>4. Calling'
  BY <1>3, TasksPublish DEF TypeInv, Calling
<1> QED BY <1>1, <1>4

\* The readings that are not being published leave the calls alone.
LEMMA OcmfIsQuiet ==
  ASSUME TypeInv, ocmf.at \notin {"lineSent", "ownSent"}
  PROVE  call["ocmf"].at = "none"
BY TasksPublish DEF TypeInv, Calling

LEMMA NoCallIs ==
  NoCall \in [at : {"none", "take"}, msg : Message \cup {<<>>}] /\ NoCall.at = "none" /\ NoCall.msg = <<>>
BY DEF NoCall

LEMMA ReadingIs ==
  ASSUME NEW r \in Nat
  PROVE  /\ [at |-> "take", msg |-> <<"reading", r>>] \in [at : {"none", "take"}, msg : Message \cup {<<>>}]
         /\ <<"reading", r>> \in Message
BY DEF Message

LEMMA OcmfPublishes ==
  ASSUME TypeInv, Line \/ LineSent \/ Own \/ OwnSent
  PROVE  FilesType' /\ RamType' /\ Calling' /\ PublishInv' /\ (Answered => Answered')
<1>0. /\ UNCHANGED <<Rest, files, activeFile, open, session, cur, prev, pc, after, mode, starts, readings>>
      /\ log \in LogType /\ ocmf \in OcmfType
  BY DEF Line, LineSent, Own, OwnSent, fileVars, Others, ram, TypeInv, RamType, LogType
<1>1. /\ ocmf.start \in Indices /\ ocmf.end \in Indices /\ ocmf.reading \in Nat
      /\ Following(ocmf.start) \in Indices /\ 0 \in Indices
  BY <1>0, OcmfRecords, FollowingIs, OfflineFilesAssumption DEF Indices
<1>2. {"own", "lineSent", "line", "append", "ownSent", "value"} \subseteq OcmfPlaces
  BY DEF OcmfPlaces
<1> SUFFICES log' \in LogType /\ ocmf' \in OcmfType /\ Calling' /\ PublishInv' /\ (Answered => Answered')
  BY <1>0 DEF TypeInv, FilesType, RamType, LogType
<1>3. CASE Line
  <2>1. CASE ocmf.start = ocmf.end
    <3>1. /\ SetHeader(0, 0) \/ UNCHANGED log
          /\ ocmf' = [ocmf EXCEPT !.at = "own"] /\ UNCHANGED call /\ ocmf.at = "line"
      BY <1>3, <2>1 DEF Line
    <3>2. ocmf' \in OcmfType /\ ocmf'.at = "own"
      BY <1>0, <1>2, <3>1, OcmfGoes
    <3>3. log' \in LogType
      BY <1>0, <1>1, <3>1, SetsHeader
    <3>4. UNCHANGED publish
      BY <1>0, <3>1 DEF publish, Rest
    <3>5. Calling'
      BY <1>0, <3>1, <3>2 DEF TypeInv, Calling
    <3> QED BY <3>2, <3>3, <3>4, <3>5, PublishStays DEF TypeInv
  <2>2. CASE ocmf.start # ocmf.end
    <3> DEFINE c == [at |-> "take", msg |-> <<"reading", log.lines[ocmf.start]>>]
    <3>1. call' = [call EXCEPT !["ocmf"] = c] /\ ocmf' = [ocmf EXCEPT !.at = "lineSent"] /\ UNCHANGED log /\ ocmf.at = "line"
      BY <1>3, <2>2 DEF Line, Call
    <3>2. log.lines[ocmf.start] \in Nat
      BY <1>0, <1>1, LogRecords
    <3>3. c \in [at : {"none", "take"}, msg : Message \cup {<<>>}] /\ c.at = "take" /\ c.msg \in Message
      BY <3>2, ReadingIs
    <3>4. ocmf' \in OcmfType /\ ocmf'.at = "lineSent"
      BY <1>0, <1>2, <3>1, OcmfGoes
    <3>5. call["ocmf"].at = "none"
      BY <3>1, OcmfIsQuiet
    <3> HIDE DEF c
    <3>6. Calling' /\ PublishInv' /\ (Answered => Answered')
      BY <1>0, <3>1, <3>3, <3>4, <3>5, OcmfCalls
    <3> QED BY <1>0, <3>1, <3>4, <3>6
  <2> QED BY <2>1, <2>2
<1>4. CASE LineSent
  <2>1. /\ call["ocmf"].at \in {"ok", "failed"} /\ call' = [call EXCEPT !["ocmf"] = NoCall]
        /\ \/ SetHeader(Following(ocmf.start), ocmf.end) /\ ocmf' = [ocmf EXCEPT !.at = "line", !.start = Following(@)]
           \/ ocmf' = [ocmf EXCEPT !.at = "append"] /\ UNCHANGED log
    BY <1>4 DEF LineSent, Returned, Done
  <2>2. log' \in LogType /\ ocmf' \in OcmfType /\ ocmf'.at \in {"line", "append"}
    <3>1. CASE SetHeader(Following(ocmf.start), ocmf.end) /\ ocmf' = [ocmf EXCEPT !.at = "line", !.start = Following(@)]
      <4>1. log' \in LogType
        BY <1>0, <1>1, <3>1, SetsHeader
      <4> DEFINE a == "line"
                 f == Following(ocmf.start)
      <4>2. ocmf' = [ocmf EXCEPT !.at = a, !.start = f, !.end = ocmf.end]
        <5> DEFINE K == SessionType
        <5>1. ocmf \in [at : OcmfPlaces, reading : Nat, start : Indices, end : Indices, car : BOOLEAN, seen : K]
          BY <1>0 DEF OcmfType
        <5>2. ocmf' = [ocmf EXCEPT !.at = a, !.start = Following(@)]
          BY <3>1
        <5> HIDE DEF K, a
        <5> QED BY <5>1, <5>2
      <4>3. /\ ocmf' \in OcmfType
            /\ ocmf' = [at |-> a, reading |-> ocmf.reading, start |-> f, end |-> ocmf.end,
                        car |-> ocmf.car, seen |-> ocmf.seen]
        BY <1>0, <1>1, <1>2, <4>2, OcmfReads
      <4>4. ocmf'.at = "line"
        BY <4>3
      <4> QED BY <4>1, <4>3, <4>4
    <3>2. CASE ocmf' = [ocmf EXCEPT !.at = "append"] /\ UNCHANGED log
      <4>1. ocmf' \in OcmfType /\ ocmf'.at = "append"
        BY <1>0, <1>2, <3>2, OcmfGoes
      <4> QED BY <1>0, <3>2, <4>1
    <3> QED BY <2>1, <3>1, <3>2
  <2>3. Calling' /\ PublishInv' /\ (Answered => Answered')
    BY <1>0, <2>1, <2>2, NoCallIs, OcmfCalls
  <2> QED BY <2>2, <2>3
<1>5. CASE Own
  <2> DEFINE c == [at |-> "take", msg |-> <<"reading", ocmf.reading>>]
  <2>1. call' = [call EXCEPT !["ocmf"] = c] /\ ocmf' = [ocmf EXCEPT !.at = "ownSent"] /\ UNCHANGED log /\ ocmf.at = "own"
    BY <1>5 DEF Own, Call, fileVars
  <2>2. c \in [at : {"none", "take"}, msg : Message \cup {<<>>}] /\ c.at = "take" /\ c.msg \in Message
    BY <1>1, ReadingIs
  <2>3. ocmf' \in OcmfType /\ ocmf'.at = "ownSent"
    BY <1>0, <1>2, <2>1, OcmfGoes
  <2>4. call["ocmf"].at = "none"
    BY <2>1, OcmfIsQuiet
  <2> HIDE DEF c
  <2>5. Calling' /\ PublishInv' /\ (Answered => Answered')
    BY <1>0, <2>1, <2>2, <2>3, <2>4, OcmfCalls
  <2> QED BY <1>0, <2>1, <2>3, <2>5
<1>6. CASE OwnSent
  <2>1. /\ call["ocmf"].at \in {"ok", "failed"} /\ call' = [call EXCEPT !["ocmf"] = NoCall] /\ UNCHANGED log
        /\ ocmf' = [ocmf EXCEPT !.at = "value"] \/ ocmf' = [ocmf EXCEPT !.at = "append"]
    BY <1>6 DEF OwnSent, Returned, Done, fileVars
  <2>2. ocmf' \in OcmfType /\ ocmf'.at \in {"value", "append"}
    BY <1>0, <1>2, <2>1, OcmfGoes
  <2>3. Calling' /\ PublishInv' /\ (Answered => Answered')
    BY <1>0, <2>1, <2>2, NoCallIs, OcmfCalls
  <2> QED BY <1>0, <2>1, <2>2, <2>3
<1> QED BY <1>3, <1>4, <1>5, <1>6

\* The steps of the task of the readings that write to the session file.
LEMMA OcmfWrites ==
  ASSUME TypeInv, Value \/ Save
  PROVE  FilesType' /\ RamType' /\ Calling' /\ UNCHANGED publish
<1>0. /\ UNCHANGED <<publish, activeFile, log, session, cur, prev, pc, after, mode, starts, readings>>
      /\ ocmf \in OcmfType /\ session \in SessionType /\ FilesType
  BY DEF Value, Save, UpdateSession, fileVars, Others, ram, TypeInv, RamType
<1>1. CASE Value
  <2>1. ocmf.at = "value" /\ (AppendEnergy("T") \/ UNCHANGED <<files, open>>)
        /\ (ocmf' = [ocmf EXCEPT !.at = "save", !.seen = session] \/ ocmf' = Idle)
    BY <1>1 DEF Value
  <2>2. ocmf' \in OcmfType /\ ocmf'.at \in {"save", "idle"}
    <3>1. ASSUME ocmf' = [ocmf EXCEPT !.at = "save", !.seen = session]
          PROVE  ocmf' \in OcmfType /\ ocmf'.at = "save"
      <4>1. ocmf \in OcmfType /\ session \in SessionType
        BY <1>0
      <4>2. /\ ocmf' \in OcmfType
            /\ ocmf' = [at |-> "save", reading |-> ocmf.reading, start |-> ocmf.start, end |-> ocmf.end,
                        car |-> ocmf.car, seen |-> session]
        BY <3>1, <4>1, OcmfSees, Zenon
      <4> QED BY <4>2
    <3>2. ocmf' = Idle => ocmf' \in OcmfType /\ ocmf'.at = "idle"
      BY OcmfRecords DEF Idle
    <3> QED BY <2>1, <3>1, <3>2
  <2>3. files' \in [Slots -> FileType] /\ open' \in BOOLEAN
    <3>1. AppendEnergy("T") => files' \in [Slots -> FileType] /\ open' \in BOOLEAN
      BY <1>0, AppendsValue DEF Labels
    <3> QED BY <1>0, <2>1, <3>1 DEF FilesType
  <2>4. FilesType' /\ RamType'
    BY <1>0, <2>2, <2>3 DEF TypeInv, FilesType, RamType
  <2>5. Calling'
    BY <1>0, <2>1, <2>2 DEF TypeInv, Calling, publish
  <2> QED BY <1>0, <2>4, <2>5
<1>2. CASE Save
  <2>1. ocmf.at = "save" /\ ocmf' = Idle
        /\ (UpdateSession(session.no, session.ended) \/ UpdateSession(ocmf.seen.no, ocmf.seen.ended))
    BY <1>2 DEF Save
  <2>2. ocmf' \in OcmfType /\ ocmf'.at = "idle"
    BY <2>1, OcmfRecords DEF Idle
  <2>3. session.no \in Nat /\ session.ended \in BOOLEAN /\ ocmf.seen.no \in Nat /\ ocmf.seen.ended \in BOOLEAN
    <3>1. ocmf.seen \in SessionType
      BY <1>0, OcmfRecords
    <3> QED BY <1>0, <3>1, SessionRecords
  <2>4. files' \in [Slots -> FileType] /\ UNCHANGED open
    BY <1>0, <2>1, <2>3, UpdatesFile
  <2>5. FilesType' /\ RamType'
    BY <1>0, <2>2, <2>4 DEF TypeInv, FilesType, RamType
  <2>6. Calling'
    BY <1>0, <2>1, <2>2 DEF TypeInv, Calling, publish
  <2> QED BY <1>0, <2>5, <2>6
<1> QED BY <1>1, <1>2

\* The commands of the cloud and the car.
LEMMA OutsideTypes ==
  ASSUME TypeInv, SetSessionId \/ DeleteLog \/ CarChange
  PROVE  FilesType' /\ RamType' /\ Calling' /\ UNCHANGED publish
<1>0. /\ UNCHANGED <<publish, activeFile, open, cur, prev, pc, after, ocmf, readings>>
      /\ session \in SessionType /\ FilesType /\ starts \in Nat /\ log \in LogType
  BY DEF SetSessionId, UpdateSession, DeleteLog, CarChange, fileVars, env, ram, TypeInv, RamType, LogType
<1>1. Calling'
  BY <1>0 DEF TypeInv, Calling, publish
<1>2. CASE SetSessionId
  <2> DEFINE n == IF session.no = 0 THEN starts' ELSE session.no
  <2>1. /\ session' = [session EXCEPT !.no = IF @ = 0 THEN starts' ELSE @, !.local = FALSE]
        /\ starts' \in {starts + 1, starts} /\ UNCHANGED mode
        /\ UpdateSession(session'.no, session'.ended)
    BY <1>2 DEF SetSessionId
  <2>2. session' = [session EXCEPT !.no = n, !.local = FALSE]
    BY <1>0, <2>1 DEF SessionType
  <2>3. n \in Nat
    BY <1>0, <2>1, SessionRecords
  <2> HIDE DEF n
  <2>4. session' \in SessionType
    BY <1>0, <2>2, <2>3, SessionGetsId
  <2>5. files' \in [Slots -> FileType] /\ UNCHANGED log
    BY <1>0, <2>1, <2>4, SessionRecords, UpdatesFile
  <2>6. FilesType' /\ RamType'
    BY <1>0, <2>1, <2>4, <2>5 DEF TypeInv, FilesType, RamType
  <2> QED BY <1>0, <1>1, <2>6
<1>3. CASE DeleteLog
  <2>1. SetHeader(0, 0) /\ UNCHANGED <<files, session, mode, starts>>
    BY <1>3 DEF DeleteLog, ram
  <2>2. 0 \in Indices
    BY OfflineFilesAssumption DEF Indices
  <2>3. log' \in LogType
    BY <1>0, <2>1, <2>2, SetsHeader
  <2>4. FilesType' /\ RamType'
    BY <1>0, <2>1, <2>3 DEF TypeInv, FilesType, RamType, LogType
  <2> QED BY <1>0, <1>1, <2>4
<1>4. CASE CarChange
  <2>1. UNCHANGED <<files, log, session, starts>>
    BY <1>4 DEF CarChange, fileVars, ram
  <2>2. mode' \in Modes
    BY <1>4 DEF CarChange, TypeInv, RamType, Modes
  <2>3. FilesType' /\ RamType'
    BY <1>0, <2>1, <2>2 DEF TypeInv, FilesType, RamType
  <2> QED BY <1>0, <1>1, <2>3
<1> QED BY <1>2, <1>3, <1>4

\* A call goes on, but is not over.
LEMMA CallingGoesOn ==
  ASSUME TypeInv, NEW t \in Publishers, NEW how \in {"wait", "ok", "failed"}, call[t].at # "none",
         call' = [call EXCEPT ![t].at = how], UNCHANGED <<pc, ocmf>>
  PROVE  Calling'
<1>1. call \in [Publishers -> [at : CallState, msg : Message \cup {<<>>}]]
  BY DEF TypeInv, PublishInv, PublishType
<1>2. \A u \in Publishers : u # t => call'[u] = call[u]
  BY <1>1
<1>3. call'[t].at = how
  BY <1>1
<1> QED BY <1>2, <1>3 DEF TypeInv, Calling

\* The network, the broker and the waits: an acknowledgement that is let pass is
\* taken in time, or there was the trouble of it.
LEMMA NetworkTypes ==
  ASSUME TypeInv, Network \/ Drop
  PROVE  /\ FilesType' /\ RamType' /\ Calling' /\ PublishInv'
         /\ Answered /\ "lateack" \notin troubles' => Answered'
<1>1. /\ UNCHANGED <<files, activeFile, open, log, session, cur, prev, pc, after, ocmf, mode, starts, readings>>
  BY DEF Network, Drop, fileVars, ram
<1>2. FilesType' /\ RamType'
  BY <1>1 DEF TypeInv, FilesType, RamType
<1>3. CASE \E t \in Publishers : Publish(t)
  <2>1. PICK t \in Publishers : Publish(t)
    BY <1>3
  <2>2. call[t].at = "take" /\ \E how \in {"wait", "failed"} : call' = [call EXCEPT ![t].at = how]
    BY <2>1 DEF Publish, Return
  <2>3. Calling'
    BY <1>1, <2>2, CallingGoesOn
  <2>4. PublishInv' /\ (Answered => Answered')
    BY <2>1, PublishKeeps DEF TypeInv
  <2> QED BY <1>2, <2>3, <2>4
<1>4. CASE \E t \in Publishers : WakeUp(t)
  <2>1. PICK t \in Publishers : WakeUp(t)
    BY <1>4
  <2>2. call[t].at = "wait" /\ call' = [call EXCEPT ![t].at = "ok"] /\ "published" \in bits /\ Leave(t, "ok")
    BY <2>1 DEF WakeUp, Leave, Return
  <2>3. Calling'
    BY <1>1, <2>2, CallingGoesOn
  <2>4. PublishInv' /\ (Answered => Answered')
    BY <2>2, LeaveKeeps DEF TypeInv
  <2> QED BY <1>2, <2>3, <2>4
<1>5. CASE Acknowledge \/ SetPublished \/ Expire \/ GoOnline \/ GoOffline
  <2>1. UNCHANGED call
    BY <1>5 DEF Acknowledge, SetPublished, Expire, GoOnline, GoOffline
  <2>2. Calling'
    BY <1>1, <2>1 DEF TypeInv, Calling
  <2>3. PublishInv' /\ (Answered => Answered')
    BY <1>5, AcknowledgeKeeps, NetworkKeeps DEF TypeInv
  <2> QED BY <1>2, <2>2, <2>3
<1>6. CASE \E t \in Publishers : TimeOut(t) /\ (handling # 0 => Trouble("lateack"))
  <2>1. PICK t \in Publishers : TimeOut(t) /\ (handling # 0 => Trouble("lateack"))
    BY <1>6
  <2>2. call[t].at = "wait" /\ call' = [call EXCEPT ![t].at = "failed"] /\ "published" \notin bits /\ Leave(t, "failed")
    BY <2>1 DEF TimeOut, Leave, Return
  <2>3. Calling'
    BY <1>1, <2>2, CallingGoesOn
  <2>4. PublishInv' /\ (~Seen /\ Answered => Answered')
    BY <2>2, LeaveKeeps DEF TypeInv
  <2>5. "lateack" \notin troubles' => ~Seen
    BY <2>1, <2>2 DEF Trouble, Seen
  <2> QED BY <1>2, <2>3, <2>4, <2>5
<1> QED BY <1>3, <1>4, <1>5, <1>6 DEF Network, Drop

\* A restart.
LEMMA RestartTypes ==
  ASSUME TypeInv, Restart
  PROVE  FilesType' /\ RamType' /\ Calling' /\ PublishInv' /\ Answered'
<1>1. PublishInv' /\ Answered' /\ call' = [t \in Publishers |-> NoCall]
  BY PublishRestarts DEF Restart, PublishRestart, TypeInv
<1>2. /\ UNCHANGED <<log, mode, starts, readings>> /\ session' = NoSession
      /\ cur' = "uninitialized" /\ prev' = "uninitialized" /\ pc' = "top" /\ after' = "look" /\ ocmf' = Idle
      /\ activeFile' = -1 /\ open' = FALSE
  BY DEF Restart, FilesForget
<1>3. files' \in [Slots -> FileType]
  <2>1. \/ UNCHANGED files
        \/ \E f \in Written : files' = [files EXCEPT ![f].valid = FALSE]
    BY DEF Restart
  <2>2. ASSUME NEW f \in Written, files' = [files EXCEPT ![f].valid = FALSE] PROVE files' \in [Slots -> FileType]
    <3>1. f \in Slots
      BY DEF Written, Used
    <3> DEFINE V == Seq(Labels)
    <3>2. files \in [Slots -> [no : Nat, ended : BOOLEAN, valid : BOOLEAN, values : V]]
      BY DEF TypeInv, FilesType, FileType
    <3> HIDE DEF V
    <3>3. files' \in [Slots -> [no : Nat, ended : BOOLEAN, valid : BOOLEAN, values : V]]
      BY <2>2, <3>1, <3>2
    <3> QED BY <3>3 DEF V, FileType
  <2> QED BY <2>1, <2>2 DEF TypeInv, FilesType
<1>4. FilesType' /\ RamType'
  BY <1>2, <1>3, SessionRecords, OcmfRecords DEF TypeInv, FilesType, RamType, Places
<1>5. Calling'
  BY <1>1, <1>2 DEF Calling, NoCall, Idle
<1> QED BY <1>1, <1>4, <1>5

\* What leaves the session task where it is.
LEMMA LoopStays ==
  ASSUME LoopInv, UNCHANGED <<session, cur, prev, pc, left, after, activeFile>>, activeFile = -1 => UNCHANGED files
  PROVE  LoopInv'
<1>1. pc \in {"send", "sent"} => UNCHANGED files
  BY DEF LoopInv
<1>2. pc \in {"send", "sent"} => Cardinality(Used)' = Cardinality(Used)
  BY <1>1 DEF Used
<1> QED BY <1>2 DEF LoopInv, Closing

\* Without a file in hand nothing is written.
LEMMA NothingHeld ==
  ASSUME FilesType, activeFile = -1
  PROVE  /\ \A label : AppendEnergy(label) => UNCHANGED <<files, open>>
         /\ \A no, e : UpdateSession(no, e) => UNCHANGED files
BY DEF AppendEnergy, UpdateSession

LEMMA LoopOthers ==
  ASSUME TypeInv, LoopInv, OcmfTask \/ DeleteLog \/ CarChange \/ Network \/ Drop
  PROVE  LoopInv'
<1>1. CASE OcmfTask
  <2>1. UNCHANGED <<session, cur, prev, pc, left, after, activeFile>>
    BY <1>1 DEF OcmfTask, Hour, Skip, OpenLog, Line, LineSent, Own, OwnSent, LogLine, LogHeader, Value, Save, UpdateSession, fileVars, Others, ram
  <2>2. activeFile = -1 => UNCHANGED files
    BY <1>1, NothingHeld DEF OcmfTask, Hour, Skip, OpenLog, Line, LineSent, Own, OwnSent, LogLine, LogHeader, Value, Save, fileVars, TypeInv
  <2> QED BY <2>1, <2>2, LoopStays
<1>2. CASE DeleteLog \/ CarChange \/ Network \/ Drop
  <2>1. UNCHANGED <<session, cur, prev, pc, left, after, activeFile, files>>
    BY <1>2 DEF DeleteLog, CarChange, Network, Drop, fileVars, ram
  <2> QED BY <2>1, LoopStays
<1> QED BY <1>1, <1>2

LEMMA LoopSends ==
  ASSUME TypeInv, LoopInv, Top \/ Send \/ Sent
  PROVE  LoopInv'
<1>0. UNCHANGED <<session, cur, prev, activeFile>> /\ ((after \in {"look", "clear"} /\ left \in Nat) \/ pc \notin {"send", "sent"})
  BY UsedIsFinite DEF Top, Send, Sent, TypeInv, RamType, LoopInv, fileVars
<1>1. CASE Top
  <2>1. UNCHANGED files /\ pc = "top"
    BY <1>1 DEF Top, fileVars
  <2>2. \/ pc' = "look"
        \/ pc' = "send" /\ after' = "look" /\ left' = Cardinality(Used) /\ cur = "disconnected"
    BY <1>1 DEF Top
  <2>3. Cardinality(Used)' = Cardinality(Used)
    BY <2>1 DEF Used
  <2>4. pc' = "send" => session = NoSession /\ prev \notin Connected /\ activeFile = -1
    BY <2>1, <2>2 DEF LoopInv, Connected
  <2>5. UNCHANGED <<session, cur, prev, activeFile>>
    BY <1>1 DEF Top, fileVars
  <2> QED BY <2>1, <2>2, <2>3, <2>4, <2>5 DEF LoopInv, Closing
<1>2. CASE Send
  <2>1. UNCHANGED <<session, cur, prev, activeFile, files, left, after>> /\ pc = "send"
    BY <1>2 DEF Send, fileVars
  <2>2. pc' = after \/ (pc' = "sent" /\ left # 0)
    BY <1>2 DEF Send
  <2>3. Cardinality(Used)' = Cardinality(Used)
    BY <2>1 DEF Used
  <2>4. after \in {"look", "clear"}
    BY DEF TypeInv, RamType
  <2> QED BY <2>1, <2>2, <2>3, <2>4 DEF LoopInv, Closing
<1>3. CASE Sent
  <2>1. UNCHANGED <<session, cur, prev, activeFile, after>> /\ pc = "sent"
    BY <1>3 DEF Sent, fileVars
  <2>2. \/ DeleteFile(OldestFile) /\ left' = left - 1 /\ pc' = "send"
        \/ UNCHANGED <<files, left>> /\ pc' = after
    BY <1>3 DEF Sent
  <2>3. after \in {"look", "clear"}
    BY DEF TypeInv, RamType
  <2>4. CASE DeleteFile(OldestFile) /\ left' = left - 1 /\ pc' = "send"
    <3>1. Used # {} /\ left = Cardinality(Used)
      BY <2>1, UsedIsFinite DEF LoopInv
    <3>2. OldestFile \in Used /\ OldestFile \in Slots
      BY <3>1, OldestIsUsed
    <3>3. \A f \in Slots : files'[f] = IF f = OldestFile THEN NoFile ELSE files[f]
      BY <2>4, <3>2, DeletesFile DEF TypeInv
    <3>4. Used' = Used \ {OldestFile}
      BY <3>3 DEF Used
    <3>5. Cardinality(Used \ {OldestFile}) = Cardinality(Used) - 1
      BY <3>2, UsedIsFinite, FS_RemoveElement
    <3>6. left' = Cardinality(Used)'
      BY <2>4, <3>1, <3>4, <3>5
    <3> QED BY <2>1, <2>4, <3>6 DEF LoopInv, Closing
  <2>5. CASE UNCHANGED <<files, left>> /\ pc' = after
    BY <2>1, <2>3, <2>5 DEF LoopInv, Closing
  <2> QED BY <2>2, <2>4, <2>5
<1> QED BY <1>1, <1>2, <1>3

\* The fields of what counts as no session.
LEMMA NoSessionIs == NoSession.no = 0 /\ NoSession.ended = FALSE /\ NoSession.used = FALSE /\ NoSession.local = FALSE
BY DEF NoSession

LEMMA LoopGoes ==
  ASSUME TypeInv, LoopInv, Look \/ Start \/ Begin
  PROVE  LoopInv'
<1>0. session \in SessionType /\ session.no \in Nat /\ starts \in Nat /\ mode \in Modes
  BY SessionRecords DEF TypeInv, RamType
<1>1. CASE Look
  <2>1. /\ pc = "look" /\ cur' = mode /\ UNCHANGED <<files, prev>>
        /\ pc' = IF mode \in Connected /\ prev \notin Connected THEN "start" ELSE "end"
    BY <1>1 DEF Look
  <2>2. CASE UNCHANGED <<activeFile, session>>
    BY <1>0, <2>1, <2>2 DEF LoopInv, Closing
  <2>3. CASE /\ session = NoSession /\ mode # "disconnected" /\ Incomplete >= 0
             /\ session' = [NoSession EXCEPT !.no = files[Incomplete].no]
    <3>1. pc' = "start" /\ mode \in Connected
      BY <1>0, <2>1, <2>3 DEF LoopInv, Modes, Connected
    <3>2. files[Incomplete].no \in Nat
      <4>1. 0 \in Used /\ Incomplete = Max(Used)
        BY <2>3 DEF Incomplete
      <4>2. Used \in SUBSET Slots /\ Used # {}
        BY <4>1 DEF Used
      <4>3. files[Incomplete] \in FileType
        BY <4>1, <4>2, MaxOfSlots DEF TypeInv, FilesType
      <4> QED BY <4>3 DEF FileType
    <3>3. session' = [no |-> files[Incomplete].no, ended |-> FALSE, used |-> FALSE, local |-> FALSE]
      BY <2>3, <3>2, SessionResumes
    <3>4. session'.no = 0 => session' = NoSession
      BY <3>3 DEF NoSession
    <3>5. session'.ended = FALSE
      BY <3>3
    <3> QED BY <2>1, <3>1, <3>4, <3>5 DEF LoopInv, Closing
  <2> QED BY <1>1, <2>2, <2>3 DEF Look, Resume
<1>2. CASE Start
  <2>1. pc = "start" /\ UNCHANGED <<cur, prev>>
    BY <1>2 DEF Start
  <2>2. CASE session # NoSession
    <3>1. session' = [session EXCEPT !.local = FALSE] /\ pc' = "end"
      BY <1>2, <2>2 DEF Start
    <3>2. session' = [no |-> session.no, ended |-> session.ended, used |-> session.used, local |-> FALSE]
      BY <1>0, <3>1, SessionGoesOn
    <3>3. session'.no = session.no /\ session'.ended = session.ended /\ session'.no # 0
      BY <2>2, <3>2 DEF LoopInv
    <3>4. session' # NoSession
      BY <3>3, NoSessionIs
    <3>5. cur \in Modes
      BY <2>1 DEF LoopInv, Connected, Modes
    <3> QED BY <2>1, <3>1, <3>3, <3>4, <3>5 DEF LoopInv, Closing
  <2>3. CASE session = NoSession
    <3>1. starts' = starts + 1 /\ pc' = "begin"
      BY <1>2, <2>3 DEF Start
    <3>2. session' = [NoSession EXCEPT !.no = starts', !.local = TRUE]
      BY <1>2, <2>3 DEF Start
    <3>3. starts' \in Nat /\ starts' # 0
      BY <1>0, <3>1
    <3>4. session' = [no |-> starts', ended |-> FALSE, used |-> FALSE, local |-> TRUE]
      BY <3>2, <3>3, SessionBegins, Zenon
    <3>5. session'.no # 0 /\ session'.ended = FALSE
      BY <3>3, <3>4
    <3>6. session' # NoSession
      BY <3>5, NoSessionIs
    <3> QED BY <2>1, <3>1, <3>5, <3>6 DEF LoopInv, Closing
  <2> QED BY <2>2, <2>3
<1>3. CASE Begin
  <2>1. pc = "begin" /\ pc' = "end" /\ UNCHANGED <<session, cur, prev, activeFile>>
    BY <1>3 DEF Begin
  <2>2. cur \in Modes
    BY <2>1 DEF LoopInv, Connected, Modes
  <2> QED BY <2>1, <2>2 DEF LoopInv, Closing
<1> QED BY <1>1, <1>2, <1>3

LEMMA LoopEnds ==
  ASSUME TypeInv, LoopInv, End \/ Seal \/ LetGo \/ Clear
  PROVE  LoopInv'
<1>0. session \in SessionType
  BY DEF TypeInv, RamType
<1>1. CASE End
  <2>1. pc = "end" /\ UNCHANGED <<cur, activeFile>> /\ cur \in Modes
    BY <1>1 DEF End, LoopInv
  <2>2. CASE cur = "disconnected" /\ prev \in Connected
    <3>1. session # NoSession
      BY <2>1, <2>2 DEF LoopInv
    <3>2. session' = [session EXCEPT !.ended = TRUE] /\ pc' = "seal"
      BY <1>1, <2>2, <3>1 DEF End
    <3>3. session' = [no |-> session.no, ended |-> TRUE, used |-> session.used, local |-> session.local]
      BY <1>0, <3>2, SessionEnds
    <3>4. session'.no = session.no /\ session'.ended = TRUE /\ session'.no # 0
      BY <3>1, <3>3 DEF LoopInv
    <3>5. session' # NoSession
      BY <3>4, NoSessionIs
    <3> QED BY <2>1, <2>2, <3>2, <3>4, <3>5 DEF LoopInv, Closing
  <2>3. CASE ~(cur = "disconnected" /\ prev \in Connected)
    <3>1. pc' = "top" /\ prev' = cur /\ session' = IF cur = "charging" THEN [session EXCEPT !.used = TRUE] ELSE session
      BY <1>1, <2>3 DEF End
    <3>2. session # NoSession <=> cur \in Connected
      BY <2>1, <2>3 DEF LoopInv, Modes, Connected
    <3>3. CASE cur = "charging"
      <4>1. session' = [no |-> session.no, ended |-> session.ended, used |-> TRUE, local |-> session.local]
        BY <1>0, <3>1, <3>3, SessionUses
      <4>2. session # NoSession /\ session.no # 0
        BY <3>2, <3>3 DEF LoopInv, Connected
      <4>3. session'.no = session.no /\ session'.ended = session.ended
        BY <4>1
      <4>4. session' # NoSession
        BY <4>2, <4>3, NoSessionIs
      <4> QED BY <2>1, <3>1, <3>2, <4>2, <4>3, <4>4 DEF LoopInv, Closing
    <3>4. CASE cur # "charging"
      BY <2>1, <3>1, <3>2, <3>4 DEF LoopInv, Closing
    <3> QED BY <3>3, <3>4
  <2> QED BY <2>2, <2>3
<1>2. CASE Seal
  <2>1. pc = "seal" /\ pc' = "sealed" /\ UNCHANGED <<session, cur, prev, activeFile>>
    BY <1>2 DEF Seal, UpdateSession
  <2> QED BY <2>1 DEF LoopInv, Closing
<1>3. CASE LetGo
  <2>1. pc = "sealed" /\ UNCHANGED <<session, cur, prev>> /\ activeFile' = -1
    BY <1>3 DEF LetGo
  <2>2. \/ pc' = "send" /\ left' = Cardinality({f \in Slots : files'[f] # NoFile}) /\ after' = "clear"
        \/ pc' = "clear"
    BY <1>3 DEF LetGo
  <2>3. Used' = {f \in Slots : files'[f] # NoFile}
    BY DEF Used
  <2>4. pc' = "send" => left' = Cardinality(Used)'
    BY <2>2, <2>3
  <2> QED BY <2>1, <2>2, <2>4 DEF LoopInv, Closing
<1>4. CASE Clear
  <2>1. pc = "clear" /\ pc' = "top" /\ session' = NoSession /\ prev' = cur /\ UNCHANGED <<cur, activeFile>>
    BY <1>4 DEF Clear, fileVars
  <2> QED BY <2>1, NoSessionIs DEF LoopInv, Closing, Connected
<1> QED BY <1>1, <1>2, <1>3, <1>4

LEMMA LoopGetsId ==
  ASSUME TypeInv, LoopInv, SetSessionId
  PROVE  /\ LoopInv'
         /\ session \in SessionType /\ session'.no \in Nat \ {0} /\ session' # NoSession
         /\ session'.no = (IF session.no = 0 THEN starts + 1 ELSE session.no)
         /\ session'.ended = session.ended /\ session'.used = session.used /\ session'.local = FALSE
         /\ starts' = (IF session = NoSession THEN starts + 1 ELSE starts)
<1> DEFINE n == IF session.no = 0 THEN starts + 1 ELSE session.no
<1>0. session \in SessionType /\ session.no \in Nat /\ starts \in Nat
  BY SessionRecords DEF TypeInv, RamType
<1>1. session' = [session EXCEPT !.no = n, !.local = FALSE]
  <2>1. session.no = 0 => starts' = starts + 1
    BY NoSessionIs DEF SetSessionId, LoopInv
  <2>2. session' = [session EXCEPT !.no = IF @ = 0 THEN starts' ELSE @, !.local = FALSE]
    BY DEF SetSessionId
  <2>3. CASE session.no = 0
    BY <1>0, <2>1, <2>2, <2>3 DEF SessionType
  <2>4. CASE session.no # 0
    BY <1>0, <2>2, <2>4 DEF SessionType
  <2> QED BY <2>3, <2>4
<1>2. n \in Nat \ {0}
  BY <1>0
<1>3. n = IF session.no = 0 THEN starts + 1 ELSE session.no
  OBVIOUS
<1> HIDE DEF n
<1>4. session' = [no |-> n, ended |-> session.ended, used |-> session.used, local |-> FALSE]
  BY <1>0, <1>1, <1>2, SessionGetsId
<1>5. session'.no = n /\ session'.ended = session.ended /\ session'.used = session.used /\ session'.local = FALSE
  BY <1>4
<1>6. session' # NoSession
  BY <1>2, <1>5, NoSessionIs
<1>7. UNCHANGED <<cur, prev, pc, left, after, activeFile>> /\ (session # NoSession \/ pc = "start")
  BY NoSessionIs DEF SetSessionId, UpdateSession
<1>8. activeFile = -1 => UNCHANGED files
  BY NothingHeld DEF SetSessionId, TypeInv
<1>9. pc \in {"send", "sent"} => Cardinality(Used)' = Cardinality(Used)
  <2>1. pc \in {"send", "sent"} => UNCHANGED files
    BY <1>8 DEF LoopInv
  <2> QED BY <2>1 DEF Used
<1>10. LoopInv'
  BY <1>2, <1>5, <1>6, <1>7, <1>9 DEF LoopInv, Closing
<1>11. starts' = IF session = NoSession THEN starts + 1 ELSE starts
  BY NoSessionIs DEF SetSessionId
<1> QED BY <1>0, <1>2, <1>3, <1>5, <1>6, <1>10, <1>11

LEMMA LoopRestarts ==
  ASSUME Restart
  PROVE  LoopInv'
<1>1. /\ session' = NoSession /\ cur' = "uninitialized" /\ prev' = "uninitialized" /\ pc' = "top"
      /\ activeFile' = -1
  BY DEF Restart, FilesForget
<1> QED BY <1>1, NoSessionIs DEF LoopInv, Closing, Connected

LEMMA LoopStarts == Init => LoopInv
BY NoSessionIs DEF Init, RamInit, FilesInit, LoopInv, Closing, Connected

LEMMA TypesStart == Init => TypeInv /\ Answered
<1> SUFFICES ASSUME Init PROVE TypeInv /\ Answered
  OBVIOUS
<1>1. PublishInv /\ Answered
  BY PublishStarts DEF Init
<1>2. FilesType
  <2>1. files = [f \in Slots |-> NoFile] /\ activeFile = -1 /\ open = FALSE
    BY DEF Init, FilesInit
  <2> QED BY <2>1, NoFileType DEF FilesType
<1>3. RamType
  <2>1. 0 \in Indices
    BY OfflineFilesAssumption DEF Indices
  <2>2. log = [start |-> 0, end |-> 0, lines |-> [i \in Indices |-> 0]]
    BY DEF Init, FilesInit, Indices
  <2>3. log \in LogType
    BY <2>1, <2>2 DEF LogType
  <2> QED BY <2>3, SessionRecords, OcmfRecords DEF Init, RamInit, RamType, LogType, Modes, Places
<1>4. Calling
  BY DEF Init, RamInit, PublishInit, Calling, NoCall, Idle
<1> QED BY <1>1, <1>2, <1>3, <1>4 DEF TypeInv

\* The inductive invariant of the publications.
ReportInv == TypeInv /\ LoopInv /\ ("lateack" \notin troubles => Answered)

\* No step undoes a trouble.
LEMMA TroublesStay == [Next]_vars => troubles \subseteq troubles'
<1> SUFFICES ASSUME [Next]_vars PROVE troubles \subseteq troubles'
  OBVIOUS
<1>1. CASE SessionTask
  BY <1>1 DEF SessionTask, Top, Send, Sent, Look, Start, Begin, End, Seal, LetGo, Clear, env
<1>2. CASE OcmfTask
  BY <1>2 DEF OcmfTask, Hour, Skip, OpenLog, Line, LineSent, Own, OwnSent, LogLine, LogHeader, Value, Save, Others, Trouble
<1>3. CASE SetSessionId \/ DeleteLog \/ CarChange \/ Network \/ Drop \/ Restart
  BY <1>3 DEF SetSessionId, DeleteLog, CarChange, Network, Drop, Restart, Trouble
<1>4. CASE UNCHANGED vars
  BY <1>4 DEF vars, env
<1> QED BY <1>1, <1>2, <1>3, <1>4 DEF Next

LEMMA ReportStep ==
  ASSUME ReportInv, [Next]_vars
  PROVE  ReportInv'
<1>1. TypeInv /\ LoopInv /\ troubles \subseteq troubles'
  BY TroublesStay DEF ReportInv
<1>2. CASE SessionTask
  <2>1. LoopInv'
    BY <1>1, <1>2, LoopSends, LoopGoes, LoopEnds DEF SessionTask
  <2>2. FilesType' /\ RamType' /\ Calling' /\ PublishInv' /\ (Answered => Answered')
    <3>1. CASE Send \/ Sent
      BY <1>1, <3>1, SendTypes
    <3>2. CASE Top \/ Clear \/ Begin \/ Seal \/ LetGo \/ Look \/ Start \/ End
      <4>1. FilesType' /\ RamType' /\ Calling' /\ UNCHANGED publish
        BY <1>1, <3>2, LoopTypes, SessionTypes
      <4> QED BY <1>1, <4>1, PublishStays DEF TypeInv
    <3> QED BY <1>2, <3>1, <3>2 DEF SessionTask
  <2> QED BY <1>1, <2>1, <2>2 DEF ReportInv, TypeInv
<1>3. CASE OcmfTask
  <2>1. LoopInv'
    BY <1>1, <1>3, LoopOthers
  <2>2. FilesType' /\ RamType' /\ Calling' /\ PublishInv' /\ (Answered => Answered')
    <3>1. CASE Line \/ LineSent \/ Own \/ OwnSent
      BY <1>1, <3>1, OcmfPublishes
    <3>2. CASE Hour \/ Skip \/ OpenLog \/ LogLine \/ LogHeader \/ Value \/ Save
      <4>1. FilesType' /\ RamType' /\ Calling' /\ UNCHANGED publish
        BY <1>1, <3>2, OcmfLooks, OcmfWrites
      <4> QED BY <1>1, <4>1, PublishStays DEF TypeInv
    <3> QED BY <1>3, <3>1, <3>2 DEF OcmfTask
  <2> QED BY <1>1, <2>1, <2>2 DEF ReportInv, TypeInv
<1>4. CASE SetSessionId \/ DeleteLog \/ CarChange
  <2>1. LoopInv'
    BY <1>1, <1>4, LoopOthers, LoopGetsId
  <2>2. FilesType' /\ RamType' /\ Calling' /\ UNCHANGED publish
    BY <1>1, <1>4, OutsideTypes
  <2>3. PublishInv' /\ (Answered => Answered')
    BY <1>1, <2>2, PublishStays DEF TypeInv
  <2> QED BY <1>1, <2>1, <2>2, <2>3 DEF ReportInv, TypeInv
<1>5. CASE Network \/ Drop
  <2>1. LoopInv'
    BY <1>1, <1>5, LoopOthers
  <2>2. FilesType' /\ RamType' /\ Calling' /\ PublishInv' /\ (Answered /\ "lateack" \notin troubles' => Answered')
    BY <1>1, <1>5, NetworkTypes
  <2> QED BY <1>1, <2>1, <2>2 DEF ReportInv, TypeInv
<1>6. CASE Restart
  BY <1>1, <1>6, RestartTypes, LoopRestarts DEF ReportInv, TypeInv
<1>7. CASE UNCHANGED vars
  <2>1. UNCHANGED <<session, cur, prev, pc, left, after, activeFile, files, open, log, mode, ocmf, starts, readings, publish>>
    BY <1>7 DEF vars, fileVars, ram, env
  <2>2. LoopInv'
    BY <1>1, <2>1, LoopStays
  <2>3. FilesType' /\ RamType'
    BY <1>1, <2>1 DEF TypeInv, FilesType, RamType
  <2>4. Calling'
    BY <1>1, <2>1 DEF TypeInv, Calling, publish
  <2>5. PublishInv' /\ (Answered => Answered')
    BY <1>1, <2>1, PublishStays DEF TypeInv
  <2> QED BY <1>1, <2>2, <2>3, <2>4, <2>5 DEF ReportInv, TypeInv
<1> QED BY <1>2, <1>3, <1>4, <1>5, <1>6, <1>7 DEF Next

LEMMA ReportInvHolds == Spec => []ReportInv
<1>1. Init => ReportInv
  BY TypesStart, LoopStarts DEF ReportInv
<1>2. ReportInv /\ [Next]_vars => ReportInv'
  BY ReportStep
<1> QED BY <1>1, <1>2, PTL DEF Spec

\* What publish_iothub_event_blocked reports to its caller as published has
\* reached the cloud, unless an acknowledgement met the end of the wait
\* (cloud_listener.c): whoever waits holds the mutex, and no message but the
\* holder's has the id that is waited for.
THEOREM ReportedHolds == Spec => []Reported
<1>1. ReportInv => Reported
  BY DEF ReportInv, Reported, Untroubled, Answered
<1> QED BY <1>1, ReportInvHolds, PTL

-----------------------------------------------------------------------------
(* What is in the session files.                                           *)

\* The values of a session that goes on, and of one that is over.
Opened(v) ==
    /\ v \in Seq(Labels) /\ Len(v) >= 1 /\ Len(v) < MaxValues
    /\ v[1] = "B" /\ \A i \in 2 .. Len(v) : v[i] = "T"
Closed(v) ==
    /\ v \in Seq(Labels) /\ Len(v) >= 2
    /\ v[1] = "B" /\ v[Len(v)] = "E" /\ \A i \in 2 .. Len(v) - 1 : v[i] = "T"

LEMMA FirstValue == Opened(<<"B">>)
<1> DEFINE v == <<"B">>
<1>1. v \in Seq(Labels) /\ Len(v) = 1 /\ v[1] = "B"
  BY DEF Labels
<1>2. 1 < MaxValues
  BY OfflineFilesAssumption
<1> HIDE DEF v
<1>3. Opened(v)
  BY <1>1, <1>2 DEF Opened
<1> QED BY <1>3 DEF v

LEMMA NextValue ==
  ASSUME NEW v, Opened(v), Len(v) < MaxValues - 1
  PROVE  Opened(Append(v, "T"))
<1>1. /\ Append(v, "T") \in Seq(Labels) /\ Len(Append(v, "T")) = Len(v) + 1
      /\ \A i \in 1 .. Len(v) : Append(v, "T")[i] = v[i]
      /\ Append(v, "T")[Len(v) + 1] = "T"
  BY DEF Opened, Labels
<1>2. Len(v) \in Nat /\ Len(v) >= 1 /\ v[1] = "B" /\ \A i \in 2 .. Len(v) : v[i] = "T"
  BY DEF Opened
<1>3. MaxValues \in Nat
  BY OfflineFilesAssumption
<1> QED BY <1>1, <1>2, <1>3 DEF Opened

LEMMA LastValue ==
  ASSUME NEW v, Opened(v)
  PROVE  Closed(Append(v, "E"))
<1>1. /\ Append(v, "E") \in Seq(Labels) /\ Len(Append(v, "E")) = Len(v) + 1
      /\ \A i \in 1 .. Len(v) : Append(v, "E")[i] = v[i]
      /\ Append(v, "E")[Len(v) + 1] = "E"
  BY DEF Opened, Labels
<1>2. Len(v) \in Nat /\ Len(v) >= 1 /\ v[1] = "B" /\ \A i \in 2 .. Len(v) : v[i] = "T"
  BY DEF Opened
<1> QED BY <1>1, <1>2 DEF Closed

Calm == Untroubled({"torn", "stale", "lateid"})

\* A file that no session is being written to.
Stored(f) ==
    files[f].valid /\ IF files[f].ended THEN Closed(files[f].values) ELSE Opened(files[f].values)

\* The file of the session that goes on.  A value is only taken while the file
\* is open, which it is from the first value to the last.
InHand(f) ==
    IF pc = "begin" THEN files[f].values = <<>> /\ ~files[f].ended
    ELSE IF session.ended THEN Closed(files[f].values) /\ ~open /\ (pc # "seal" => files[f].ended)
    ELSE Opened(files[f].values) /\ open /\ ~files[f].ended

FilesInv ==
    /\ \A f \in Used : files[f].no # 0 /\ (f # activeFile => Stored(f))
    /\ activeFile # -1 =>
           /\ activeFile \in Used /\ files[activeFile].valid /\ files[activeFile].no = session.no
           /\ InHand(activeFile)
    /\ session = NoSession => activeFile = -1

LEMMA SlotNumbers == \A f \in Slots : f \in Nat /\ f # -1
BY OfflineFilesAssumption DEF Slots

LEMMA HeldInHand ==
  ASSUME FilesType, FilesInv
  PROVE  /\ Held <=> activeFile # -1
         /\ Held => activeFile \in Slots
BY HeldMeans DEF FilesInv, Held, Used

\* What leaves the files and the session as they are.
LEMMA FilesStay ==
  ASSUME FilesInv, UNCHANGED <<files, activeFile, open>>,
         session'.no = session.no, session'.ended = session.ended, session' = NoSession => session = NoSession,
         pc' = "begin" <=> pc = "begin", pc = "seal" => pc' = "seal"
  PROVE  FilesInv'
BY DEF FilesInv, Stored, InHand, Used

LEMMA FilesOthers ==
  ASSUME TypeInv, LoopInv, FilesInv, Calm', OcmfTask \/ DeleteLog \/ CarChange \/ Network \/ Drop
  PROVE  FilesInv'
<1>0. FilesType /\ session \in SessionType /\ session.no \in Nat /\ session.ended \in BOOLEAN
  BY SessionRecords DEF TypeInv, RamType
<1>1. CASE Hour \/ Skip \/ OpenLog \/ Line \/ LineSent \/ Own \/ OwnSent \/ LogLine \/ LogHeader \/ DeleteLog \/ CarChange \/ Network \/ Drop
  <2>1. UNCHANGED <<files, activeFile, open, session, pc>>
    BY <1>1 DEF Hour, Skip, OpenLog, Line, LineSent, Own, OwnSent, LogLine, LogHeader, DeleteLog, CarChange, Network, Drop, fileVars, Others, ram
  <2> QED BY <2>1, FilesStay
<1>2. CASE Value
  <2>1. (AppendEnergy("T") \/ UNCHANGED <<files, open>>) /\ UNCHANGED <<activeFile, session, pc>>
    BY <1>2 DEF Value, Others, ram
  <2>2. CASE UNCHANGED <<files, open>>
    BY <2>1, <2>2, FilesStay
  <2>3. CASE AppendEnergy("T")
    <3>1. /\ open' = open
          /\ \A f \in Slots : files'[f] = IF f = activeFile /\ Held
                THEN [no |-> files[f].no, ended |-> files[f].ended, valid |-> files[f].valid,
                      values |-> NewValues("T")] ELSE files[f]
      BY <1>0, <2>3, AppendsValue DEF Labels
    <3>2. CASE activeFile = -1
      <4>1. UNCHANGED <<files, open>>
        BY <1>0, <2>3, <3>2, NothingHeld
      <4> QED BY <2>1, <4>1, FilesStay
    <3>3. CASE activeFile # -1
      <4> DEFINE a == activeFile
      <4>1. a \in Slots /\ Held /\ a \in Used /\ files[a].valid /\ files[a].no = session.no /\ InHand(a) /\ files[a].no # 0
        BY <1>0, <3>3, HeldInHand DEF FilesInv
      <4>2. files'[a] = [no |-> files[a].no, ended |-> files[a].ended, valid |-> files[a].valid, values |-> NewValues("T")]
        BY <3>1, <4>1
      <4>3. \A f \in Slots : f # a => files'[f] = files[f]
        BY <3>1
      <4>4. NewValues("T") = files[a].values \/ (Accepted("T") /\ NewValues("T") = Append(files[a].values, "T"))
        BY DEF NewValues
      <4>5. CASE NewValues("T") = files[a].values
        <5>1. /\ files'[a].no = files[a].no /\ files'[a].ended = files[a].ended /\ files'[a].valid = files[a].valid
              /\ files'[a].values = files[a].values
          BY <4>2, <4>5
        <5>2. a \in Used'
          BY <4>1, <5>1 DEF Used, NoFile
        <5> QED BY <2>1, <3>1, <4>1, <4>3, <5>1, <5>2 DEF FilesInv, Stored, InHand, Used
      <4>6. CASE Accepted("T") /\ NewValues("T") = Append(files[a].values, "T")
        <5>1. open /\ Len(files[a].values) > 0 /\ Len(files[a].values) < MaxValues - 1
          BY <4>6 DEF Accepted
        <5>2. pc # "begin" /\ ~session.ended /\ Opened(files[a].values) /\ ~files[a].ended
          <6>1. files[a].values = <<>> => Len(files[a].values) = 0
            OBVIOUS
          <6> QED BY <4>1, <5>1, <6>1 DEF InHand
        <5>3. Opened(files'[a].values)
          <6>1. Opened(Append(files[a].values, "T"))
            BY <5>1, <5>2, NextValue
          <6>2. files'[a].values = Append(files[a].values, "T")
            BY <4>2, <4>6
          <6> QED BY <6>1, <6>2
        <5>4. /\ files'[a].no = files[a].no /\ files'[a].ended = files[a].ended /\ files'[a].valid = files[a].valid
          BY <4>2
        <5>5. a \in Used'
          BY <4>1, <5>4 DEF Used, NoFile
        <5> QED BY <2>1, <3>1, <4>1, <4>3, <5>1, <5>2, <5>3, <5>4, <5>5 DEF FilesInv, Stored, InHand, Used
      <4> QED BY <4>4, <4>5, <4>6
    <3> QED BY <3>2, <3>3
  <2> QED BY <2>1, <2>2, <2>3
<1>3. CASE Save
  <2>1. UpdateSession(session.no, session.ended) /\ UNCHANGED <<session, pc>>
    BY <1>3 DEF Save, ram, Trouble, Calm, Untroubled
  <2>2. /\ UNCHANGED <<activeFile, open>>
        /\ \A f \in Slots : files'[f] = IF f = activeFile /\ Held
              THEN [no |-> session.no, ended |-> session.ended, valid |-> TRUE, values |-> files[f].values] ELSE files[f]
    BY <1>0, <2>1, UpdatesFile
  <2>3. CASE activeFile = -1
    BY <1>0, <2>1, <2>2, <2>3, NothingHeld, FilesStay
  <2>4. CASE activeFile # -1
    <3> DEFINE a == activeFile
    <3>1. a \in Slots /\ Held /\ a \in Used /\ files[a].no = session.no /\ InHand(a) /\ files[a].no # 0
      BY <1>0, <2>4, HeldInHand DEF FilesInv
    <3>2. files'[a] = [no |-> session.no, ended |-> session.ended, valid |-> TRUE, values |-> files[a].values]
      BY <2>2, <3>1
    <3>3. files'[a].no = session.no /\ files'[a].ended = session.ended /\ files'[a].valid /\ files'[a].values = files[a].values
      BY <3>2
    <3>4. a \in Used'
      BY <3>1, <3>3 DEF Used, NoFile
    <3>5. pc = "begin" => ~session.ended
      BY DEF LoopInv, Closing
    <3> QED BY <2>1, <2>2, <3>1, <3>3, <3>4, <3>5 DEF FilesInv, Stored, InHand, Used
  <2> QED BY <2>3, <2>4
<1> QED BY <1>1, <1>2, <1>3 DEF OcmfTask

LEMMA FilesSend ==
  ASSUME TypeInv, LoopInv, FilesInv, Top \/ Send \/ Sent
  PROVE  FilesInv'
<1>1. CASE Top \/ Send
  <2>1. UNCHANGED <<files, activeFile, open, session>> /\ pc \notin {"begin", "seal"} /\ pc' # "begin"
    BY <1>1 DEF Top, Send, fileVars, TypeInv, RamType
  <2> QED BY <2>1, FilesStay
<1>2. CASE Sent
  <2>1. /\ UNCHANGED <<activeFile, open, session>> /\ pc = "sent" /\ pc' # "begin"
        /\ DeleteFile(OldestFile) \/ UNCHANGED files
    BY <1>2 DEF Sent, TypeInv, RamType
  <2>2. CASE UNCHANGED files
    BY <2>1, <2>2, FilesStay
  <2>3. CASE DeleteFile(OldestFile)
    <3>1. OldestFile \in Slots
      BY <2>1, UsedIsFinite, OldestIsUsed DEF LoopInv
    <3>2. \A f \in Slots : files'[f] = IF f = OldestFile THEN NoFile ELSE files[f]
      BY <2>3, <3>1, DeletesFile DEF TypeInv
    <3>3. activeFile = -1
      BY <2>1 DEF LoopInv
    <3>4. \A f \in Slots : f \in Used' => f \in Used /\ files'[f] = files[f]
      BY <3>2 DEF Used
    <3> QED BY <2>1, <3>3, <3>4 DEF FilesInv, Stored, Used
  <2> QED BY <2>1, <2>2, <2>3
<1> QED BY <1>1, <1>2

LEMMA FilesLook ==
  ASSUME TypeInv, LoopInv, FilesInv, Look
  PROVE  FilesInv'
<1>0. FilesType
  BY DEF TypeInv
<1>1. UNCHANGED files /\ pc = "look" /\ pc' \notin {"begin", "seal"}
  BY DEF Look
<1>2. CASE UNCHANGED <<activeFile, open, session>>
  BY <1>1, <1>2, FilesStay
<1>3. CASE /\ session = NoSession /\ Incomplete >= 0
           /\ session' = [NoSession EXCEPT !.no = files[Incomplete].no]
           /\ activeFile' = Incomplete /\ open' = TRUE
  <2> DEFINE a == Incomplete
  <2>1. a = Max(Used) /\ 0 \in Used /\ files[a].valid /\ ~files[a].ended
    BY <1>3 DEF Incomplete
  <2>2. Used \in SUBSET Slots /\ Used # {}
    BY <2>1 DEF Used
  <2>3. a \in Used /\ a \in Slots
    BY <2>1, <2>2, MaxOfSlots
  <2>4. activeFile = -1 /\ a # -1
    BY <1>3 DEF FilesInv
  <2>5. files[a].no # 0 /\ Opened(files[a].values)
    BY <2>1, <2>3, <2>4, <1>3 DEF FilesInv, Stored
  <2>6. files[a].no \in Nat
    <3>1. files[a] \in FileType
      BY <1>0, <2>3 DEF FilesType
    <3> QED BY <3>1 DEF FileType
  <2>7. session' = [no |-> files[a].no, ended |-> FALSE, used |-> FALSE, local |-> FALSE]
    BY <1>3, <2>6, SessionResumes
  <2>8. session'.no = files[a].no /\ session'.ended = FALSE
    BY <2>7
  <2>9. session' # NoSession
    BY <2>5, <2>8, NoSessionIs
  <2>10. activeFile' = a /\ open' = TRUE
    BY <1>3
  <2> HIDE DEF a
  <2>11. \A f \in Used : files[f].no # 0 /\ Stored(f)
    BY <2>4 DEF FilesInv, Used, Slots
  <2>12. Used' = Used /\ files' = files
    BY <1>1 DEF Used
  <2> QED BY <1>1, <2>1, <2>3, <2>5, <2>8, <2>9, <2>10, <2>11, <2>12 DEF FilesInv, Stored, InHand
<1> QED BY <1>2, <1>3 DEF Look, Resume

LEMMA FilesStart ==
  ASSUME TypeInv, LoopInv, FilesInv, Start
  PROVE  FilesInv'
<1>0. FilesType /\ session \in SessionType /\ starts \in Nat
  BY DEF TypeInv, RamType
<1>1. pc = "start"
  BY DEF Start
<1>2. CASE session # NoSession
  <2>1. session' = [session EXCEPT !.local = FALSE] /\ pc' = "end" /\ UNCHANGED <<files, activeFile, open>>
    BY <1>2 DEF Start, fileVars
  <2>2. session' = [no |-> session.no, ended |-> session.ended, used |-> session.used, local |-> FALSE]
    BY <1>0, <2>1, SessionGoesOn
  <2>3. session'.no = session.no /\ session'.ended = session.ended
    BY <2>2
  <2>4. session' # NoSession
    BY <1>2, <2>3, NoSessionIs DEF LoopInv
  <2> QED BY <1>1, <2>1, <2>3, <2>4, FilesStay
<1>3. CASE session = NoSession
  <2>1. starts' = starts + 1 /\ pc' = "begin" /\ SaveSession(starts')
    BY <1>3 DEF Start
  <2>2. session' = [NoSession EXCEPT !.no = starts', !.local = TRUE]
    BY <1>3 DEF Start
  <2>3. starts' \in Nat /\ starts' # 0
    BY <1>0, <2>1
  <2>4. session' = [no |-> starts', ended |-> FALSE, used |-> FALSE, local |-> TRUE]
    BY <2>2, <2>3, SessionBegins, Zenon
  <2>5. session'.no = starts' /\ session'.ended = FALSE
    BY <2>4
  <2>6. session' # NoSession
    BY <2>3, <2>5, NoSessionIs
  <2>7. /\ activeFile' = NewFile /\ open' = open
        /\ \A f \in Slots : files'[f] = IF f = NewFile
                THEN [no |-> starts', ended |-> FALSE, valid |-> TRUE, values |-> <<>>] ELSE files[f]
    BY <1>0, <2>1, <2>3, SavesFile
  <2>8. NewFile \in Slots \cup {-1} /\ activeFile = -1 /\ (\A f \in Slots : f # -1)
    BY <1>0, <1>3, NewFileIsFree, OfflineFilesAssumption DEF FilesInv, Slots
  <2>9. \A f \in Used : f # NewFile => f \in Slots /\ files[f].no # 0 /\ Stored(f)
    BY <2>8 DEF FilesInv, Used
  <2>10. \A f \in Used' : f \in Slots /\ (f # NewFile => f \in Used /\ files'[f] = files[f])
    BY <2>7 DEF Used
  <2>11. NewFile # -1 => /\ NewFile \in Used' /\ files'[NewFile].no = starts' /\ files'[NewFile].valid
                         /\ files'[NewFile].values = <<>> /\ ~files'[NewFile].ended
    <3> SUFFICES ASSUME NewFile # -1
                 PROVE  /\ NewFile \in Used' /\ files'[NewFile].no = starts' /\ files'[NewFile].valid
                        /\ files'[NewFile].values = <<>> /\ ~files'[NewFile].ended
      OBVIOUS
    <3>1. NewFile \in Slots /\ files'[NewFile] = [no |-> starts', ended |-> FALSE, valid |-> TRUE, values |-> <<>>]
      BY <2>7, <2>8
    <3>2. files'[NewFile].no = starts' /\ files'[NewFile].valid /\ files'[NewFile].values = <<>> /\ ~files'[NewFile].ended
      BY <3>1
    <3> QED BY <3>1, <3>2 DEF Used, NoFile
  <2> QED BY <2>1, <2>3, <2>5, <2>6, <2>7, <2>9, <2>10, <2>11 DEF FilesInv, Stored, InHand
<1> QED BY <1>2, <1>3

LEMMA FilesBegin ==
  ASSUME TypeInv, LoopInv, FilesInv, Begin
  PROVE  FilesInv'
<1>0. FilesType
  BY DEF TypeInv
<1>1. pc = "begin" /\ pc' = "end" /\ AppendEnergy("B") /\ UNCHANGED <<activeFile, session>>
  BY DEF Begin
<1>2. session # NoSession /\ ~session.ended
  BY <1>1 DEF LoopInv, Closing
<1>3. CASE activeFile = -1
  <2>1. UNCHANGED files
    BY <1>0, <1>1, <1>3, NothingHeld
  <2> QED BY <1>1, <1>3, <2>1 DEF FilesInv, Stored, Used
<1>4. CASE activeFile # -1
  <2> DEFINE a == activeFile
  <2>1. a \in Slots /\ Held /\ a \in Used /\ files[a].valid /\ files[a].no = session.no /\ InHand(a) /\ files[a].no # 0
    BY <1>0, <1>4, HeldInHand DEF FilesInv
  <2>2. /\ open' = TRUE
        /\ \A f \in Slots : files'[f] = IF f = activeFile /\ Held
              THEN [no |-> files[f].no, ended |-> files[f].ended, valid |-> files[f].valid,
                    values |-> NewValues("B")] ELSE files[f]
    BY <1>0, <1>1, <2>1, AppendsValue DEF Labels
  <2>3. files'[a] = [no |-> files[a].no, ended |-> files[a].ended, valid |-> files[a].valid, values |-> NewValues("B")]
    BY <2>1, <2>2
  <2>4. NewValues("B") = <<"B">>
    BY DEF NewValues, Accepted
  <2>5. /\ files'[a].no = files[a].no /\ files'[a].ended = files[a].ended /\ files'[a].valid = files[a].valid
        /\ files'[a].values = <<"B">>
    BY <2>3, <2>4
  <2>6. Opened(files'[a].values)
    BY <2>5, FirstValue
  <2>7. ~files[a].ended
    BY <1>1, <2>1 DEF InHand
  <2>8a. a \in Used'
    BY <2>1, <2>2, <2>5 DEF Used, NoFile
  <2>8b. \A f \in Used' : f \in Slots /\ (f # a => f \in Used /\ files'[f] = files[f])
    BY <2>1, <2>2, <2>5 DEF Used
  <2> QED BY <1>1, <1>2, <2>1, <2>2, <2>5, <2>6, <2>7, <2>8a, <2>8b DEF FilesInv, Stored, InHand
<1> QED BY <1>3, <1>4

LEMMA FilesEnd ==
  ASSUME TypeInv, LoopInv, FilesInv, End
  PROVE  FilesInv'
<1>0. FilesType /\ session \in SessionType
  BY DEF TypeInv, RamType
<1>1. pc = "end" /\ pc' \in {"seal", "top"} /\ UNCHANGED activeFile /\ ~session.ended
  BY DEF End, LoopInv, Closing
<1>2. CASE cur = "disconnected" /\ prev \in Connected
  <2>1. session # NoSession
    BY <1>1, <1>2 DEF LoopInv
  <2>2. session' = [session EXCEPT !.ended = TRUE] /\ pc' = "seal" /\ AppendEnergy("E")
    BY <1>2, <2>1 DEF End
  <2>3. session' = [no |-> session.no, ended |-> TRUE, used |-> session.used, local |-> session.local]
    BY <1>0, <2>2, SessionEnds
  <2>4. session'.no = session.no /\ session'.ended = TRUE
    BY <2>3
  <2>5. session' # NoSession
    BY <2>1, <2>4, NoSessionIs DEF LoopInv
  <2>6. CASE activeFile = -1
    <3>1. UNCHANGED files
      BY <1>0, <2>2, <2>6, NothingHeld
    <3> QED BY <1>1, <2>6, <3>1 DEF FilesInv, Stored, Used
  <2>7. CASE activeFile # -1
    <3> DEFINE a == activeFile
    <3>1. a \in Slots /\ Held /\ a \in Used /\ files[a].valid /\ files[a].no = session.no /\ InHand(a) /\ files[a].no # 0
      BY <1>0, <2>7, HeldInHand DEF FilesInv
    <3>2. /\ open' = FALSE
          /\ \A f \in Slots : files'[f] = IF f = activeFile /\ Held
                THEN [no |-> files[f].no, ended |-> files[f].ended, valid |-> files[f].valid,
                      values |-> NewValues("E")] ELSE files[f]
      BY <1>0, <2>2, <3>1, AppendsValue DEF Labels
    <3>3. files'[a] = [no |-> files[a].no, ended |-> files[a].ended, valid |-> files[a].valid, values |-> NewValues("E")]
      BY <3>1, <3>2
    <3>4. Opened(files[a].values) /\ open
      BY <1>1, <3>1 DEF InHand
    <3>5. NewValues("E") = Append(files[a].values, "E")
      <4>1. Accepted("E")
        BY <3>4 DEF Accepted, Opened
      <4> QED BY <4>1 DEF NewValues
    <3>6. Closed(files'[a].values)
      <4>1. files'[a].values = Append(files[a].values, "E")
        BY <3>3, <3>5
      <4> QED BY <3>4, <4>1, LastValue
    <3>7. files'[a].no = files[a].no /\ files'[a].ended = files[a].ended /\ files'[a].valid = files[a].valid
      BY <3>3
    <3>8a. a \in Used'
      BY <3>1, <3>2, <3>7 DEF Used, NoFile
    <3>8b. \A f \in Used' : f \in Slots /\ (f # a => f \in Used /\ files'[f] = files[f])
      BY <3>1, <3>2, <3>7 DEF Used
    <3> QED BY <1>1, <2>2, <2>4, <2>5, <3>1, <3>2, <3>6, <3>7, <3>8a, <3>8b DEF FilesInv, Stored, InHand
  <2> QED BY <2>6, <2>7
<1>3. CASE ~(cur = "disconnected" /\ prev \in Connected)
  <2>1. /\ UNCHANGED <<files, open>> /\ pc' = "top"
        /\ session' = IF cur = "charging" THEN [session EXCEPT !.used = TRUE] ELSE session
    BY <1>3 DEF End
  <2>2. CASE cur = "charging"
    <3>1. session' = [no |-> session.no, ended |-> session.ended, used |-> TRUE, local |-> session.local]
      BY <1>0, <2>1, <2>2, SessionUses
    <3>2. session'.no = session.no /\ session'.ended = session.ended
      BY <3>1
    <3>3. session # NoSession
      BY <1>1, <2>2 DEF LoopInv, Connected
    <3>4. session' # NoSession
      BY <3>2, <3>3, NoSessionIs DEF LoopInv
    <3> QED BY <1>1, <2>1, <3>2, <3>4, FilesStay
  <2>3. CASE cur # "charging"
    BY <1>1, <2>1, <2>3, FilesStay
  <2> QED BY <2>2, <2>3
<1> QED BY <1>2, <1>3

LEMMA FilesClose ==
  ASSUME TypeInv, LoopInv, FilesInv, Seal \/ LetGo \/ Clear
  PROVE  FilesInv'
<1>0. FilesType /\ session \in SessionType /\ session.no \in Nat /\ session.ended \in BOOLEAN
  BY SessionRecords DEF TypeInv, RamType
<1>1. CASE Seal
  <2>1. pc = "seal" /\ pc' = "sealed" /\ UpdateSession(session.no, session.ended) /\ UNCHANGED session
    BY <1>1 DEF Seal
  <2>2. session.ended /\ session # NoSession
    BY <2>1 DEF LoopInv, Closing
  <2>3. /\ UNCHANGED <<activeFile, open>>
        /\ \A f \in Slots : files'[f] = IF f = activeFile /\ Held
              THEN [no |-> session.no, ended |-> session.ended, valid |-> TRUE, values |-> files[f].values] ELSE files[f]
    BY <1>0, <2>1, UpdatesFile
  <2>4. CASE activeFile = -1
    <3>1. UNCHANGED files
      BY <1>0, <2>1, <2>4, NothingHeld
    <3> QED BY <2>1, <2>3, <2>4, <3>1 DEF FilesInv, Stored, Used
  <2>5. CASE activeFile # -1
    <3> DEFINE a == activeFile
    <3>1. a \in Slots /\ Held /\ a \in Used /\ files[a].no = session.no /\ InHand(a) /\ files[a].no # 0
      BY <1>0, <2>5, HeldInHand DEF FilesInv
    <3>2. files'[a] = [no |-> session.no, ended |-> session.ended, valid |-> TRUE, values |-> files[a].values]
      BY <2>3, <3>1
    <3>3. files'[a].no = session.no /\ files'[a].ended = session.ended /\ files'[a].valid /\ files'[a].values = files[a].values
      BY <3>2
    <3>4a. a \in Used'
      BY <2>3, <3>1, <3>3 DEF Used, NoFile
    <3>4b. \A f \in Used' : f \in Slots /\ (f # a => f \in Used /\ files'[f] = files[f])
      BY <2>3, <3>1, <3>3 DEF Used
    <3> QED BY <2>1, <2>2, <2>3, <3>1, <3>3, <3>4a, <3>4b DEF FilesInv, Stored, InHand
  <2> QED BY <2>4, <2>5
<1>2. CASE LetGo
  <2>1. pc = "sealed" /\ activeFile' = -1 /\ UNCHANGED <<session, open>>
        /\ ((activeFile >= 0 /\ DeleteFile(activeFile)) \/ UNCHANGED files)
    BY <1>2 DEF LetGo
  <2>2. session.ended
    BY <2>1 DEF LoopInv, Closing
  <2>3. \A f \in Used' : f \in Used /\ files'[f] = files[f]
    <3>1. CASE UNCHANGED files
      BY <3>1 DEF Used
    <3>2. CASE activeFile >= 0 /\ DeleteFile(activeFile)
      <4>1. activeFile \in Slots \cup {-1}
        BY <1>0 DEF FilesType
      <4>2. \A f \in Slots : files'[f] = IF f = activeFile THEN NoFile ELSE files[f]
        BY <1>0, <3>2, <4>1, DeletesFile
      <4> QED BY <4>2 DEF Used
    <3> QED BY <2>1, <3>1, <3>2
  <2>4. \A f \in Used : files[f].no # 0 /\ Stored(f)
    BY <2>1, <2>2, SlotNumbers DEF FilesInv, Stored, InHand, Used
  <2> QED BY <2>1, <2>3, <2>4 DEF FilesInv, Stored
<1>3. CASE Clear
  <2>1. pc = "clear" /\ UNCHANGED <<files, activeFile>>
    BY <1>3 DEF Clear, fileVars
  <2>2. activeFile = -1
    BY <2>1 DEF LoopInv
  <2> QED BY <2>1, <2>2 DEF FilesInv, Stored, Used
<1> QED BY <1>1, <1>2, <1>3

LEMMA FilesGetId ==
  ASSUME TypeInv, LoopInv, FilesInv, Calm', SetSessionId
  PROVE  FilesInv'
<1>0. FilesType /\ session \in SessionType /\ session.no \in Nat /\ session.ended \in BOOLEAN
  BY SessionRecords DEF TypeInv, RamType
<1>1. session.local /\ UNCHANGED <<pc, activeFile, open>> /\ UpdateSession(session'.no, session'.ended)
  BY DEF SetSessionId, UpdateSession, Trouble, Calm, Untroubled
<1>2. session # NoSession
  BY <1>1, NoSessionIs
<1>3. session'.no = session.no /\ session'.ended = session.ended /\ session' # NoSession
  BY <1>2, LoopGetsId DEF LoopInv
<1>4. /\ \A f \in Slots : files'[f] = IF f = activeFile /\ Held
            THEN [no |-> session.no, ended |-> session.ended, valid |-> TRUE, values |-> files[f].values] ELSE files[f]
  BY <1>0, <1>1, <1>3, UpdatesFile
<1>5. CASE activeFile = -1
  <2>1. UNCHANGED files
    BY <1>0, <1>1, <1>5, NothingHeld
  <2> QED BY <1>1, <1>3, <2>1, FilesStay
<1>6. CASE activeFile # -1
  <2> DEFINE a == activeFile
  <2>1. a \in Slots /\ Held /\ a \in Used /\ files[a].no = session.no /\ InHand(a) /\ files[a].no # 0
    BY <1>0, <1>6, HeldInHand DEF FilesInv
  <2>2. files'[a] = [no |-> session.no, ended |-> session.ended, valid |-> TRUE, values |-> files[a].values]
    BY <1>4, <2>1
  <2>3. files'[a].no = session.no /\ files'[a].ended = session.ended /\ files'[a].valid /\ files'[a].values = files[a].values
    BY <2>2
  <2>4a. a \in Used'
    BY <1>4, <2>1, <2>3 DEF Used, NoFile
  <2>4b. \A f \in Used' : f \in Slots /\ (f # a => f \in Used /\ files'[f] = files[f])
    BY <1>4, <2>1, <2>3 DEF Used
  <2>5. pc = "begin" => ~session.ended
    BY DEF LoopInv, Closing
  <2> QED BY <1>1, <1>3, <2>1, <2>3, <2>4a, <2>4b, <2>5 DEF FilesInv, Stored, InHand
<1> QED BY <1>5, <1>6

LEMMA FilesRestart ==
  ASSUME FilesInv, Calm', Restart
  PROVE  FilesInv'
<1>1. UNCHANGED files /\ pc \notin {"begin", "seal"} /\ activeFile' = -1
  BY DEF Restart, FilesForget, Trouble, Calm, Untroubled
<1>2. \A f \in Used : files[f].no # 0 /\ Stored(f)
  BY <1>1, SlotNumbers DEF FilesInv, Stored, InHand, Used
<1> QED BY <1>1, <1>2 DEF FilesInv, Stored, Used

\* The inductive invariant of the session files.
CalmInv == TypeInv /\ LoopInv /\ (Calm => FilesInv)

LEMMA FilesStep ==
  ASSUME CalmInv, [Next]_vars
  PROVE  Calm' => FilesInv'
<1> SUFFICES ASSUME Calm' PROVE FilesInv'
  OBVIOUS
<1>1. TypeInv /\ LoopInv /\ FilesInv
  <2>1. Calm
    BY TroublesStay DEF Calm, Untroubled
  <2> QED BY <2>1 DEF CalmInv
<1>2. CASE SessionTask
  BY <1>1, <1>2, FilesSend, FilesLook, FilesStart, FilesBegin, FilesEnd, FilesClose DEF SessionTask
<1>3. CASE OcmfTask \/ DeleteLog \/ CarChange \/ Network \/ Drop
  BY <1>1, <1>3, FilesOthers
<1>4. CASE SetSessionId \/ Restart
  BY <1>1, <1>4, FilesGetId, FilesRestart
<1>5. CASE UNCHANGED vars
  <2>1. UNCHANGED <<files, activeFile, open, session, pc>>
    BY <1>5 DEF vars, fileVars, ram
  <2> QED BY <1>1, <2>1, FilesStay
<1> QED BY <1>2, <1>3, <1>4, <1>5 DEF Next

LEMMA CalmInvHolds == Spec => []CalmInv
<1>1. Init => CalmInv
  <2> SUFFICES ASSUME Init PROVE CalmInv
    OBVIOUS
  <2>1. Used = {} /\ activeFile = -1
    BY DEF Init, FilesInit, Used
  <2>2. FilesInv
    BY <2>1 DEF FilesInv
  <2> QED BY <2>2, TypesStart, LoopStarts DEF CalmInv
<1>2. ReportInv /\ ReportInv' /\ CalmInv /\ [Next]_vars => CalmInv'
  BY FilesStep DEF ReportInv, CalmInv
<1> QED BY <1>1, <1>2, ReportInvHolds, PTL DEF Spec

\* A session on file that has ended has its first value, the hourly ones and its
\* last, for which a place is kept, and nothing after it (offlineSession.c).
THEOREM RightlyClosedHolds == Spec => []RightlyClosed
<1>1. CalmInv => RightlyClosed
  <2> SUFFICES ASSUME CalmInv, Calm, NEW f \in Used, files[f].ended PROVE Closed(files[f].values)
    BY DEF RightlyClosed, Calm, Closed
  <2>1. FilesInv
    BY DEF CalmInv
  <2>2. CASE f # activeFile
    BY <2>1, <2>2 DEF FilesInv, Stored
  <2>3. CASE f = activeFile
    <3>1. f # -1
      BY SlotNumbers DEF Used
    <3>2. InHand(f)
      BY <2>1, <2>3, <3>1 DEF FilesInv
    <3> QED BY <3>2 DEF InHand
  <2> QED BY <2>2, <2>3
<1> QED BY <1>1, CalmInvHolds, PTL

-----------------------------------------------------------------------------
(* The sessions until the cloud has them.                                  *)

Quiet == Untroubled({"lateack"})
Sending == pc \in {"send", "sent", "clear"}

\* The cloud has the session, or a file that no step writes to anymore does.
Reached(n) ==
    \/ <<"session", n>> \in got
    \/ \E f \in Used : f # activeFile /\ files[f].no = n /\ files[f].valid /\ files[f].ended

\* What is being sent is the oldest file; a session without a file in hand is one
\* that has none; and the end is on file before the file is let go, unless the
\* other task has written over it.
SessionInv ==
    /\ \A n \in ended \ unfiled : Reached(n)
    /\ pc = "sent" => call["session"].msg = SessionMessage(OldestFile)
    /\ activeFile # -1 => activeFile \in Used
    /\ session # NoSession /\ ~Sending /\ activeFile = -1 => session.no \in unfiled
    /\ pc = "sealed" /\ activeFile # -1 =>
           \/ session.no \in unfiled
           \/ files[activeFile].no = session.no /\ files[activeFile].ended /\ files[activeFile].valid

\* The network changes no message that is being published, and the cloud forgets
\* nothing.
LEMMA MessagesStay ==
  ASSUME TypeInv, Network \/ Drop
  PROVE  got \subseteq got' /\ \A t \in Publishers : call'[t].msg = call[t].msg
<1>1. call \in [Publishers -> [at : CallState, msg : Message \cup {<<>>}]]
  BY DEF TypeInv, PublishInv, PublishType
<1>2. UNCHANGED call \/ \E t \in Publishers, how \in {"wait", "ok", "failed"} : call' = [call EXCEPT ![t].at = how]
  BY DEF Network, Drop, Publish, WakeUp, TimeOut, Leave, Return, Acknowledge, SetPublished, Expire, GoOnline, GoOffline
<1>3. \A t \in Publishers : call'[t].msg = call[t].msg
  BY <1>1, <1>2
<1>4. got \subseteq got'
  BY DEF Network, Drop, Publish, WakeUp, TimeOut, Leave, Acknowledge, SetPublished, Expire, GoOnline, GoOffline
<1> QED BY <1>3, <1>4

\* The message being published by the task of the sessions is not touched by the
\* task of the readings, and the other way round.
LEMMA OneCallAtATime ==
  ASSUME TypeInv, NEW t \in Publishers, NEW c, call' = [call EXCEPT ![t] = c]
  PROVE  \A u \in Publishers : u # t => call'[u] = call[u]
BY DEF TypeInv, PublishInv, PublishType

\* What a step leaves that only writes to the file in hand.
SameFiles == Used' = Used /\ \A f \in Used : f # activeFile => files'[f] = files[f]
SameEnds == \A f \in Used : files'[f].no = files[f].no /\ files'[f].ended = files[f].ended /\ files'[f].valid = files[f].valid

LEMMA FilesUntouched ==
  ASSUME UNCHANGED files
  PROVE  SameFiles /\ SameEnds
BY DEF SameFiles, SameEnds, Used, NoFile

\* A value is no end, and makes no file empty.
LEMMA ValueWritten ==
  ASSUME FilesType, NEW label \in Labels, AppendEnergy(label)
  PROVE  SameFiles /\ SameEnds
<1>1. CASE ~Held \/ ~Accepted(label)
  <2>1. UNCHANGED files
    BY <1>1, HeldMeans DEF AppendEnergy
  <2> QED BY <2>1, FilesUntouched
<1>2. CASE Held /\ Accepted(label)
  <2> DEFINE a == files[activeFile]
             v == NewValues(label)
  <2>1. activeFile \in Slots /\ a \in FileType
    BY <1>2, HeldMeans DEF FilesType
  <2>2. v # <<>>
    <3>1. a.values \in Seq(Labels)
      BY <2>1 DEF FileType
    <3> DEFINE s == a.values
    <3>2. Append(s, label) # <<>>
      <4> HIDE DEF s
      <4>1. s \in Seq(Labels) /\ Len(s) \in Nat
        BY <3>1 DEF s
      <4>2. Len(Append(s, label)) = Len(s) + 1 /\ Len(<<>>) = 0
        BY <4>1
      <4>3. Len(Append(s, label)) # Len(<<>>)
        BY <4>1, <4>2
      <4> QED BY <4>3, Zenon
    <3>3. <<"B">> # <<>>
      OBVIOUS
    <3>4. v = <<"B">> \/ v = Append(s, label)
      BY <1>2, Zenon DEF NewValues
    <3> HIDE DEF v, s
    <3> QED BY <3>2, <3>3, <3>4, Zenon
  <2>3. \A f \in Slots : files'[f] = IF f = activeFile /\ Held
            THEN [no |-> files[f].no, ended |-> files[f].ended, valid |-> files[f].valid, values |-> NewValues(label)]
            ELSE files[f]
    BY AppendsValue
  <2> HIDE DEF v
  <2>4. files'[activeFile] = [no |-> a.no, ended |-> a.ended, valid |-> a.valid, values |-> v]
    BY <1>2, <2>1, <2>3 DEF v
  <2>5. files'[activeFile] # NoFile
    BY <2>2, <2>4 DEF NoFile
  <2>6. \A f \in Slots : f # activeFile => files'[f] = files[f]
    BY <2>3
  <2>7. Used' = Used
    BY <1>2, <2>5, <2>6 DEF Used, Held, NoFile
  <2>8. files'[activeFile].no = a.no /\ files'[activeFile].ended = a.ended /\ files'[activeFile].valid = a.valid
    BY <2>4
  <2> QED BY <2>6, <2>7, <2>8 DEF SameFiles, SameEnds, Used
<1> QED BY <1>1, <1>2

\* A session that is written over leaves a file that can be read.
LEMMA SessionWritten ==
  ASSUME FilesType, NEW no \in Nat, NEW e \in BOOLEAN, UpdateSession(no, e)
  PROVE  /\ SameFiles
         /\ activeFile \in Used => files'[activeFile].no = no /\ files'[activeFile].ended = e /\ files'[activeFile].valid
<1>1. CASE ~Held
  <2>1. UNCHANGED files /\ activeFile \notin Used
    BY <1>1, HeldMeans, SlotNumbers DEF UpdateSession, Held, Used
  <2> QED BY <2>1, FilesUntouched
<1>2. CASE Held
  <2>1. activeFile \in Slots
    BY <1>2, HeldMeans
  <2>2. \A f \in Slots : files'[f] = IF f = activeFile /\ Held
            THEN [no |-> no, ended |-> e, valid |-> TRUE, values |-> files[f].values] ELSE files[f]
    BY UpdatesFile
  <2> DEFINE v == files[activeFile].values
  <2> HIDE DEF v
  <2>3. files'[activeFile] = [no |-> no, ended |-> e, valid |-> TRUE, values |-> v]
    BY <1>2, <2>1, <2>2 DEF v
  <2>4. files'[activeFile].no = no /\ files'[activeFile].ended = e /\ files'[activeFile].valid
    BY <2>3
  <2>5. files'[activeFile] # NoFile
    BY <2>4 DEF NoFile
  <2>6. \A f \in Slots : f # activeFile => files'[f] = files[f]
    BY <2>2
  <2>7. Used' = Used
    BY <1>2, <2>5, <2>6 DEF Used, Held, NoFile
  <2> QED BY <2>4, <2>6, <2>7 DEF SameFiles, Used
<1> QED BY <1>1, <1>2

\* What leaves the sessions that have ended as they are.
LEMMA SessionsStay ==
  ASSUME SessionInv, SameFiles, UNCHANGED <<activeFile, ended>>, unfiled \subseteq unfiled', got \subseteq got',
         pc' = "sent" => UNCHANGED files /\ call'["session"].msg = SessionMessage(OldestFile),
         session' # NoSession /\ ~Sending' /\ activeFile = -1 => session'.no \in unfiled',
         pc' = "sealed" /\ activeFile # -1 =>
             \/ session'.no \in unfiled'
             \/ files'[activeFile].no = session'.no /\ files'[activeFile].ended /\ files'[activeFile].valid
  PROVE  SessionInv'
<1>1. \A n \in ended' \ unfiled' : Reached(n)'
  <2> TAKE n \in ended' \ unfiled'
  <2>1. Reached(n)
    BY DEF SessionInv
  <2>2. CASE <<"session", n>> \in got
    BY <2>2 DEF Reached
  <2>3. ASSUME NEW f \in Used, f # activeFile, files[f].no = n, files[f].valid, files[f].ended PROVE Reached(n)'
    <3>1. f \in Used' /\ files'[f] = files[f] /\ f # activeFile'
      BY <2>3 DEF SameFiles
    <3> QED BY <2>3, <3>1 DEF Reached
  <2> QED BY <2>1, <2>2, <2>3 DEF Reached
<1>2. pc' = "sent" => call'["session"].msg = SessionMessage(OldestFile)'
  BY DEF SessionMessage, OldestFile, Used
<1>3. activeFile' # -1 => activeFile' \in Used'
  BY DEF SessionInv, SameFiles
<1>4. NoSession' = NoSession
  BY DEF NoSession
<1> QED BY <1>1, <1>2, <1>3, <1>4 DEF SessionInv

\* The task of the readings.
LEMMA SessionsSave ==
  ASSUME TypeInv, LoopInv, SessionInv, OcmfTask
  PROVE  SessionInv'
<1>0. /\ FilesType /\ session \in SessionType /\ session.ended \in BOOLEAN /\ session.no \in Nat
      /\ ocmf.seen.no \in Nat /\ ocmf.seen.ended \in BOOLEAN
  <2>1. ocmf.seen \in SessionType
    BY DEF TypeInv, RamType, OcmfType
  <2> QED BY <2>1, SessionRecords DEF TypeInv, RamType, SessionType
<1>1. UNCHANGED <<activeFile, ended, pc, session, got>> /\ unfiled \subseteq unfiled'
  BY DEF OcmfTask, Hour, Skip, OpenLog, Line, LineSent, Own, OwnSent, LogLine, LogHeader, Value, Save, UpdateSession,
         fileVars, Others, ram, history, publish, Rest
<1>2. /\ SameFiles
      /\ \/ SameEnds /\ UNCHANGED unfiled
         \/ pc = "sealed" => session.no \in unfiled'
         \/ activeFile \in Used => files'[activeFile].no = session.no /\ files'[activeFile].ended = session.ended
                                   /\ files'[activeFile].valid
  <2>1. CASE Value
    <3>1. UNCHANGED unfiled /\ (AppendEnergy("T") \/ UNCHANGED files)
      BY <2>1 DEF Value, Others
    <3> QED BY <1>0, <3>1, ValueWritten, FilesUntouched DEF Labels
  <2>2. CASE Save
    <3>1. CASE UpdateSession(session.no, session.ended)
      BY <1>0, <3>1, SessionWritten
    <3>2. CASE /\ UpdateSession(ocmf.seen.no, ocmf.seen.ended)
               /\ unfiled' = IF pc = "sealed" THEN unfiled \cup {session.no} ELSE unfiled
      BY <1>0, <3>2, SessionWritten
    <3> QED BY <2>2, <3>1, <3>2 DEF Save
  <2>3. CASE Hour \/ Skip \/ OpenLog \/ Line \/ LineSent \/ Own \/ OwnSent \/ LogLine \/ LogHeader
    <3>1. UNCHANGED <<files, unfiled>>
      BY <2>3 DEF Hour, Skip, OpenLog, Line, LineSent, Own, OwnSent, LogLine, LogHeader, fileVars, Others
    <3> QED BY <3>1, FilesUntouched
  <2> QED BY <2>1, <2>2, <2>3 DEF OcmfTask
<1>3. call'["session"].msg = call["session"].msg
  <2>1. CASE Line \/ LineSent \/ Own \/ OwnSent
    <3>1. UNCHANGED call \/ \E c : call' = [call EXCEPT !["ocmf"] = c]
      BY <2>1 DEF Line, LineSent, Own, OwnSent, Call, Done, Rest
    <3> QED BY <3>1, TasksPublish, OneCallAtATime
  <2>2. CASE Hour \/ Skip \/ OpenLog \/ LogLine \/ LogHeader \/ Value \/ Save
    BY <2>2 DEF Hour, Skip, OpenLog, LogLine, LogHeader, Value, Save, publish
  <2> QED BY <2>1, <2>2 DEF OcmfTask
<1>4. pc' = "sent" => UNCHANGED files /\ call'["session"].msg = SessionMessage(OldestFile)
  <2>1. pc = "sent" => activeFile = -1
    BY DEF LoopInv
  <2>2. activeFile = -1 => UNCHANGED files
    <3>1. UNCHANGED files \/ AppendEnergy("T") \/ (\E no, e : UpdateSession(no, e))
      BY DEF OcmfTask, Hour, Skip, OpenLog, Line, LineSent, Own, OwnSent, LogLine, LogHeader, Value, Save, fileVars
    <3> QED BY <3>1 DEF AppendEnergy, UpdateSession
  <2> QED BY <1>1, <1>3, <2>1, <2>2 DEF SessionInv
<1>5. pc = "sealed" => session.ended
  BY DEF LoopInv, Closing
<1>6. pc' = "sealed" /\ activeFile # -1 =>
          \/ session'.no \in unfiled'
          \/ files'[activeFile].no = session'.no /\ files'[activeFile].ended /\ files'[activeFile].valid
  BY <1>1, <1>2, <1>5 DEF SessionInv, SameEnds
<1>7. session' # NoSession /\ ~Sending' /\ activeFile = -1 => session'.no \in unfiled'
  BY <1>1 DEF SessionInv, Sending
<1> QED BY <1>1, <1>2, <1>4, <1>6, <1>7, SessionsStay

\* The id from the cloud keeps the number of a session there is; a session that
\* gets its id before it starts has no file.
LEMMA SessionsGetId ==
  ASSUME TypeInv, LoopInv, SessionInv, SetSessionId
  PROVE  SessionInv'
<1>0. FilesType /\ session.ended \in BOOLEAN /\ session'.no \in Nat /\ session'.ended = session.ended
  BY LoopGetsId, SessionRecords DEF TypeInv, RamType
<1>1. /\ UNCHANGED <<activeFile, ended, pc, got, call>> /\ unfiled \subseteq unfiled'
      /\ UpdateSession(session'.no, session'.ended)
  BY DEF SetSessionId, UpdateSession, publish
<1>2. /\ SameFiles
      /\ activeFile \in Used => files'[activeFile].no = session'.no /\ files'[activeFile].ended = session.ended
                                /\ files'[activeFile].valid
  BY <1>0, <1>1, SessionWritten
<1>3. \/ session # NoSession /\ session'.no = session.no
      \/ session'.no \in unfiled' /\ pc = "start"
  <2>1. CASE session.no = 0
    <3>1. session = NoSession /\ ~session.local
      BY <2>1, NoSessionIs DEF LoopInv
    <3>2. pc = "start" /\ starts' = starts + 1 /\ unfiled' = unfiled \cup {starts'}
      BY <3>1 DEF SetSessionId
    <3> QED BY <2>1, <3>2, LoopGetsId
  <2>2. CASE session.no # 0
    BY <2>2, LoopGetsId, NoSessionIs
  <2> QED BY <2>1, <2>2
<1>4. pc' = "sent" => UNCHANGED files /\ call'["session"].msg = SessionMessage(OldestFile)
  BY <1>1 DEF LoopInv, SessionInv, UpdateSession
<1>5. pc = "sealed" => session.ended
  BY DEF LoopInv, Closing
<1>6. pc' = "sealed" /\ activeFile # -1 =>
          files'[activeFile].no = session'.no /\ files'[activeFile].ended /\ files'[activeFile].valid
  BY <1>0, <1>1, <1>2, <1>5 DEF SessionInv
<1>7. session' # NoSession /\ ~Sending' /\ activeFile = -1 => session'.no \in unfiled'
  BY <1>1, <1>3 DEF SessionInv, Sending
<1> QED BY <1>1, <1>2, <1>4, <1>6, <1>7, SessionsStay

LEMMA SessionsOthers ==
  ASSUME TypeInv, LoopInv, SessionInv, DeleteLog \/ CarChange \/ Network \/ Drop
  PROVE  SessionInv'
<1>1. UNCHANGED <<files, activeFile, ended, unfiled, pc, session>>
  BY DEF DeleteLog, CarChange, Network, Drop, fileVars, ram, history
<1>2. got \subseteq got' /\ call'["session"].msg = call["session"].msg
  <2>1. CASE Network \/ Drop
    BY <2>1, MessagesStay, TasksPublish
  <2>2. CASE DeleteLog \/ CarChange
    BY <2>2 DEF DeleteLog, CarChange, publish
  <2> QED BY <2>1, <2>2
<1>3. SameFiles
  BY <1>1, FilesUntouched
<1> QED BY <1>1, <1>2, <1>3, SessionsStay DEF SessionInv, Sending

\* The steps of the session task that neither begin nor let go a session.
LEMMA SessionsLoop ==
  ASSUME TypeInv, LoopInv, SessionInv,
         Top \/ Send \/ (Sent /\ UNCHANGED files) \/ (Look /\ UNCHANGED <<activeFile, session>>)
         \/ (Start /\ session # NoSession) \/ Begin \/ End \/ Seal \/ Clear
  PROVE  SessionInv'
<1>0. FilesType /\ session \in SessionType /\ session.ended \in BOOLEAN /\ session.no \in Nat
  BY SessionRecords DEF TypeInv, RamType, SessionType
<1>1. UNCHANGED <<activeFile, ended, unfiled, got>>
  BY DEF Top, Send, Sent, Look, Start, Begin, End, Seal, Clear, UpdateSession, fileVars, history, publish
<1>2. SameFiles
  <2>1. CASE Begin \/ End
    <3>1. UNCHANGED files \/ AppendEnergy("B") \/ AppendEnergy("E")
      BY <2>1 DEF Begin, End
    <3> QED BY <1>0, <3>1, ValueWritten, FilesUntouched DEF Labels
  <2>2. CASE Seal
    BY <1>0, <2>2, SessionWritten DEF Seal
  <2>3. CASE Top \/ Send \/ (Sent /\ UNCHANGED files) \/ Look \/ (Start /\ session # NoSession) \/ Clear
    <3>1. UNCHANGED files
      BY <2>3 DEF Top, Send, Look, Start, Clear, fileVars
    <3> QED BY <3>1, FilesUntouched
  <2> QED BY <2>1, <2>2, <2>3
<1>3. session' = NoSession \/ (session # NoSession /\ session'.no = session.no)
  <2>1. CASE UNCHANGED session
    BY <2>1
  <2>2. CASE Start /\ session # NoSession
    <3>1. session' = [session EXCEPT !.local = FALSE]
      BY <2>2 DEF Start
    <3>2. session' = [no |-> session.no, ended |-> session.ended, used |-> session.used, local |-> FALSE]
      BY <1>0, <3>1, SessionGoesOn
    <3>3. session'.no = session.no
      BY <3>2
    <3> QED BY <2>2, <3>3
  <2>3. CASE End
    <3>1. \/ session' = session
          \/ session # NoSession /\ session' = [session EXCEPT !.ended = TRUE]
          \/ cur = "charging" /\ session' = [session EXCEPT !.used = TRUE]
      BY <2>3 DEF End
    <3>2. cur = "charging" => session # NoSession
      BY <2>3 DEF End, LoopInv, Connected
    <3>3. ASSUME session' = [session EXCEPT !.ended = TRUE] PROVE session'.no = session.no
      <4>1. session' = [no |-> session.no, ended |-> TRUE, used |-> session.used, local |-> session.local]
        BY <1>0, <3>3, SessionEnds
      <4> QED BY <4>1
    <3>4. ASSUME session' = [session EXCEPT !.used = TRUE] PROVE session'.no = session.no
      <4>1. session' = [no |-> session.no, ended |-> session.ended, used |-> TRUE, local |-> session.local]
        BY <1>0, <3>4, SessionUses
      <4> QED BY <4>1
    <3> QED BY <3>1, <3>2, <3>3, <3>4
  <2>4. CASE Top \/ Send \/ Sent \/ (Look /\ UNCHANGED <<activeFile, session>>) \/ Begin \/ Seal \/ Clear
    BY <2>4 DEF Top, Send, Sent, Begin, Seal, Clear
  <2> QED BY <2>2, <2>3, <2>4
<1>4. pc' = "sent" => UNCHANGED files /\ call'["session"].msg = SessionMessage(OldestFile)
  <2>1. CASE Send
    <3>1. UNCHANGED files /\ (pc' = after \/ Call("session", SessionMessage(OldestFile)))
      BY <2>1 DEF Send, fileVars
    <3>2. after # "sent"
      BY DEF TypeInv, RamType
    <3>3. ASSUME Call("session", SessionMessage(OldestFile)) PROVE call'["session"].msg = SessionMessage(OldestFile)
      <4> DEFINE m == SessionMessage(OldestFile)
                 c == [at |-> "take", msg |-> m]
      <4>1. call' = [call EXCEPT !["session"] = c]
        BY <3>3 DEF Call
      <4>2. c.msg = m
        OBVIOUS
      <4> HIDE DEF m, c
      <4>3. call'["session"] = c
        BY <4>1, TasksPublish DEF TypeInv, PublishInv, PublishType
      <4> QED BY <4>2, <4>3 DEF m
    <3> QED BY <3>1, <3>2, <3>3
  <2>2. CASE Top \/ Sent \/ Look \/ Start \/ Begin \/ End \/ Seal \/ Clear
    BY <2>2 DEF Top, Sent, Look, Start, Begin, End, Seal, Clear, TypeInv, RamType
  <2> QED BY <2>1, <2>2
<1>5. session' # NoSession /\ Sending => Sending'
  <2>1. CASE Send \/ Sent
    <3>1. pc' = after \/ pc' \in {"send", "sent"}
      BY <2>1 DEF Send, Sent
    <3>2. UNCHANGED session /\ pc \in {"send", "sent"}
      BY <2>1 DEF Send, Sent
    <3>3. session # NoSession => after = "clear"
      BY <3>2 DEF LoopInv, TypeInv, RamType
    <3> QED BY <3>1, <3>2, <3>3 DEF Sending
  <2>2. CASE Top \/ Look \/ Start \/ Begin \/ End \/ Seal \/ Clear
    BY <2>2 DEF Top, Look, Start, Begin, End, Seal, Clear, Sending
  <2> QED BY <2>1, <2>2
<1>6. session' # NoSession /\ ~Sending' /\ activeFile = -1 => session'.no \in unfiled'
  BY <1>1, <1>3, <1>5 DEF SessionInv
<1>7. pc' = "sealed" /\ activeFile # -1 =>
          files'[activeFile].no = session'.no /\ files'[activeFile].ended /\ files'[activeFile].valid
  <2>1. CASE Seal
    <3>1. UNCHANGED session /\ session.ended /\ UpdateSession(session.no, session.ended)
      BY <2>1 DEF Seal, LoopInv, Closing
    <3> QED BY <1>0, <3>1, SessionWritten DEF SessionInv
  <2>2. CASE Top \/ Send \/ Sent \/ Look \/ Start \/ Begin \/ End \/ Clear
    BY <2>2 DEF Top, Send, Sent, Look, Start, Begin, End, Clear, TypeInv, RamType
  <2> QED BY <2>1, <2>2
<1> QED BY <1>1, <1>2, <1>4, <1>6, <1>7, SessionsStay

\* A file goes when the cloud has said that it has it.
LEMMA SessionsSent ==
  ASSUME TypeInv, LoopInv, SessionInv, ReportedIsThere, Sent
  PROVE  SessionInv'
<1>1. CASE UNCHANGED files
  BY <1>1, SessionsLoop
<1>2. CASE Returned("session", "ok") /\ DeleteFile(OldestFile) /\ pc' = "send"
  <2> DEFINE a == OldestFile
  <2>1. UNCHANGED <<session, activeFile, ended, unfiled, got>> /\ pc = "sent" /\ activeFile = -1
    BY DEF Sent, LoopInv, history
  <2>2. a \in Slots /\ a \in Used
    BY <2>1, UsedIsFinite, OldestIsUsed DEF LoopInv
  <2>3. \A f \in Slots : files'[f] = IF f = a THEN NoFile ELSE files[f]
    BY <1>2, <2>2, DeletesFile DEF TypeInv
  <2>4. Used' = Used \ {a} /\ \A f \in Used' : f \in Used /\ f # a /\ files'[f] = files[f]
    BY <2>3 DEF Used
  <2>5. files[a].valid => <<"session", files[a].no>> \in got
    <3>1. files[a].valid => call["session"].msg = <<"session", files[a].no>>
      BY <2>1 DEF SessionInv, SessionMessage
    <3> QED BY <1>2, <3>1, TasksPublish DEF ReportedIsThere, Returned
  <2> HIDE DEF a
  <2>6. \A n \in ended' \ unfiled' : Reached(n)'
    <3> TAKE n \in ended' \ unfiled'
    <3>1. Reached(n)
      BY <2>1 DEF SessionInv
    <3>2. CASE <<"session", n>> \in got
      BY <2>1, <3>2 DEF Reached
    <3>3. ASSUME NEW f \in Used, f # activeFile, files[f].no = n, files[f].valid, files[f].ended PROVE Reached(n)'
      <4>1. CASE f = a
        BY <2>1, <2>5, <3>3, <4>1 DEF Reached
      <4>2. CASE f # a
        <5>1. f \in Used' /\ files'[f] = files[f] /\ f # activeFile'
          BY <2>1, <2>4, <3>3, <4>2
        <5> QED BY <3>3, <5>1 DEF Reached
      <4> QED BY <4>1, <4>2
    <3> QED BY <3>1, <3>2, <3>3 DEF Reached
  <2>7. Sending'
    BY <1>2 DEF Sending
  <2> QED BY <1>2, <2>1, <2>6, <2>7 DEF SessionInv
<1> QED BY <1>1, <1>2 DEF Sent

LEMMA SessionsResume ==
  ASSUME TypeInv, LoopInv, SessionInv, Look
  PROVE  SessionInv'
<1>1. CASE UNCHANGED <<activeFile, session>>
  BY <1>1, SessionsLoop
<1>2. CASE Incomplete >= 0 /\ activeFile' = Incomplete
  <2> DEFINE a == Incomplete
  <2>1. a = Max(Used) /\ 0 \in Used /\ files[a].valid /\ ~files[a].ended
    BY <1>2 DEF Incomplete
  <2>2. Used \in SUBSET Slots /\ Used # {}
    BY <2>1 DEF Used
  <2>3. a \in Used /\ a \in Slots /\ a # -1
    BY <2>1, <2>2, MaxOfSlots, SlotNumbers
  <2>4. activeFile' = a /\ UNCHANGED <<files, ended, unfiled, got>> /\ pc' \in {"start", "end"}
    BY <1>2 DEF Look, publish, history
  <2> HIDE DEF a
  <2>5. Used' = Used
    BY <2>4 DEF Used, NoFile
  <2>6. \A n \in ended' \ unfiled' : Reached(n)'
    <3> TAKE n \in ended' \ unfiled'
    <3>1. Reached(n)
      BY <2>4 DEF SessionInv
    <3>2. CASE <<"session", n>> \in got
      BY <2>4, <3>2 DEF Reached
    <3>3. ASSUME NEW f \in Used, f # activeFile, files[f].no = n, files[f].valid, files[f].ended PROVE Reached(n)'
      <4>1. f # a
        BY <2>1, <3>3
      <4> QED BY <2>4, <2>5, <3>3, <4>1 DEF Reached
    <3> QED BY <3>1, <3>2, <3>3 DEF Reached
  <2> QED BY <2>3, <2>4, <2>5, <2>6 DEF SessionInv
<1> QED BY <1>1, <1>2 DEF Look, Resume

LEMMA SessionsBegin ==
  ASSUME TypeInv, LoopInv, SessionInv, Start
  PROVE  SessionInv'
<1>0. FilesType /\ starts \in Nat
  BY DEF TypeInv, RamType
<1>1. CASE session # NoSession
  BY <1>1, SessionsLoop
<1>2. CASE session = NoSession
  <2>1. /\ starts' = starts + 1 /\ pc' = "begin" /\ SaveSession(starts') /\ UNCHANGED <<ended, got>>
        /\ unfiled' = IF NewFile < 0 THEN unfiled \cup {starts'} ELSE unfiled
    BY <1>2 DEF Start, publish
  <2>2. session' = [NoSession EXCEPT !.no = starts', !.local = TRUE]
    BY <1>2 DEF Start
  <2>3. starts' \in Nat /\ starts' = starts + 1
    BY <1>0, <2>1
  <2>4. session' = [no |-> starts', ended |-> FALSE, used |-> FALSE, local |-> TRUE]
    BY <2>2, <2>3, SessionBegins, Zenon
  <2>5. session'.no = starts'
    BY <2>4
  <2>6. NewFile \in Slots \cup {-1} /\ (NewFile # -1 => files[NewFile] = NoFile) /\ activeFile' = NewFile
    BY <1>0, <2>1, NewFileIsFree DEF SaveSession
  <2>7. \A f \in Slots : files'[f] = IF f = NewFile
                THEN [no |-> starts', ended |-> FALSE, valid |-> TRUE, values |-> <<>>] ELSE files[f]
    BY <1>0, <2>1, <2>3, SavesFile
  <2>8. NewFile < 0 <=> NewFile = -1
    BY <2>6, SlotNumbers
  <2>9. \A f \in Used : f # NewFile /\ f \in Used' /\ files'[f] = files[f]
    BY <2>6, <2>7, SlotNumbers DEF Used, NoFile
  <2>10. NewFile # -1 => NewFile \in Used'
    <3> SUFFICES ASSUME NewFile # -1 PROVE NewFile \in Used'
      OBVIOUS
    <3>1. NewFile \in Slots /\ files'[NewFile] = [no |-> starts', ended |-> FALSE, valid |-> TRUE, values |-> <<>>]
      BY <2>6, <2>7
    <3>2. files'[NewFile].valid
      BY <3>1
    <3> QED BY <3>1, <3>2 DEF Used, NoFile
  <2>11. \A n \in ended' \ unfiled' : Reached(n)'
    <3> TAKE n \in ended' \ unfiled'
    <3>1. Reached(n)
      BY <2>1 DEF SessionInv
    <3>2. CASE <<"session", n>> \in got
      BY <2>1, <3>2 DEF Reached
    <3>3. ASSUME NEW f \in Used, f # activeFile, files[f].no = n, files[f].valid, files[f].ended PROVE Reached(n)'
      <4>1. f \in Used' /\ files'[f] = files[f] /\ f # activeFile'
        BY <2>6, <2>9, <3>3
      <4> QED BY <3>3, <4>1 DEF Reached
    <3> QED BY <3>1, <3>2, <3>3 DEF Reached
  <2>12. activeFile' = -1 => session'.no \in unfiled'
    BY <2>1, <2>5, <2>6, <2>8
  <2> QED BY <2>1, <2>6, <2>10, <2>11, <2>12 DEF SessionInv
<1> QED BY <1>1, <1>2

LEMMA SessionsEnd ==
  ASSUME TypeInv, LoopInv, SessionInv, LetGo
  PROVE  SessionInv'
<1>0. FilesType
  BY DEF TypeInv
<1>1. /\ pc = "sealed" /\ activeFile' = -1 /\ UNCHANGED <<session, got, unfiled>> /\ pc' \in {"send", "clear"}
      /\ ended' = IF Dropped THEN ended ELSE ended \cup {session.no}
      /\ \/ Dropped /\ activeFile >= 0 /\ DeleteFile(activeFile)
         \/ ~(Dropped /\ activeFile >= 0) /\ UNCHANGED files
  BY DEF LetGo, publish
<1>2. session # NoSession /\ ~Sending
  BY <1>1 DEF LoopInv, Closing, Sending
<1>3. \A f \in Used : f # activeFile => f \in Used' /\ files'[f] = files[f]
  <2>1. CASE UNCHANGED files
    BY <2>1 DEF Used, NoFile
  <2>2. CASE DeleteFile(activeFile)
    <3>1. \A f \in Slots : files'[f] = IF f = activeFile THEN NoFile ELSE files[f]
      BY <1>0, <2>2, DeletesFile DEF FilesType
    <3> QED BY <3>1 DEF Used
  <2> QED BY <1>1, <2>1, <2>2
<1>4. \A n \in ended' \ unfiled' : Reached(n)'
  <2> TAKE n \in ended' \ unfiled'
  <2>1. CASE n \in ended
    <3>1. Reached(n)
      BY <1>1, <2>1 DEF SessionInv
    <3>2. CASE <<"session", n>> \in got
      BY <1>1, <3>2 DEF Reached
    <3>3. ASSUME NEW f \in Used, f # activeFile, files[f].no = n, files[f].valid, files[f].ended PROVE Reached(n)'
      <4>1. f \in Used' /\ files'[f] = files[f] /\ f # activeFile'
        BY <1>1, <1>3, <3>3, SlotNumbers DEF Used
      <4> QED BY <3>3, <4>1 DEF Reached
    <3> QED BY <3>1, <3>2, <3>3 DEF Reached
  <2>2. CASE n \notin ended
    <3>1. n = session.no /\ UNCHANGED files /\ n \notin unfiled
      BY <1>1, <2>2
    <3>2. activeFile # -1
      BY <1>2, <3>1 DEF SessionInv
    <3>3. activeFile \in Used' /\ activeFile # activeFile'
      BY <1>1, <3>1, <3>2 DEF SessionInv, Used, NoFile
    <3>4. files'[activeFile].no = n /\ files'[activeFile].valid /\ files'[activeFile].ended
      BY <1>1, <3>1, <3>2 DEF SessionInv
    <3> QED BY <3>3, <3>4 DEF Reached
  <2> QED BY <2>1, <2>2
<1>5. Sending'
  BY <1>1 DEF Sending
<1> QED BY <1>1, <1>4, <1>5 DEF SessionInv

\* A file that is torn is the one in hand.
LEMMA SessionsRestart ==
  ASSUME TypeInv, SessionInv, Restart
  PROVE  SessionInv'
<1>1. UNCHANGED <<ended, unfiled, got>> /\ activeFile' = -1 /\ session' = NoSession /\ pc' = "top"
  BY DEF Restart, PublishRestart, FilesForget, history
<1>2. UNCHANGED files \/ \E f \in Written : files' = [files EXCEPT ![f].valid = FALSE]
  BY DEF Restart
<1>3. \A f \in Used : f # activeFile => f \in Used' /\ files'[f] = files[f]
  BY <1>2 DEF Written, Used, NoFile, TypeInv, FilesType
<1>4. \A n \in ended' \ unfiled' : Reached(n)'
  <2> TAKE n \in ended' \ unfiled'
  <2>1. Reached(n)
    BY <1>1 DEF SessionInv
  <2>2. ASSUME NEW f \in Used, f # activeFile, files[f].no = n, files[f].valid, files[f].ended PROVE Reached(n)'
    <3>1. f \in Used' /\ files'[f] = files[f] /\ f # activeFile'
      BY <1>1, <1>3, <2>2, SlotNumbers DEF Used
    <3> QED BY <2>2, <3>1 DEF Reached
  <2> QED BY <1>1, <2>1, <2>2 DEF Reached
<1>5. NoSession' = NoSession
  BY DEF NoSession
<1> QED BY <1>1, <1>4, <1>5 DEF SessionInv

\* The inductive invariant of the sessions.
QuietInv == ReportInv /\ (Quiet => SessionInv)

LEMMA SessionsStep ==
  ASSUME QuietInv, [Next]_vars
  PROVE  Quiet' => SessionInv'
<1> SUFFICES ASSUME Quiet' PROVE SessionInv'
  OBVIOUS
<1>1. TypeInv /\ LoopInv /\ SessionInv /\ ReportedIsThere
  <2>1. Quiet
    BY TroublesStay DEF Quiet, Untroubled
  <2> QED BY <2>1 DEF QuietInv, ReportInv, Answered, Quiet, Untroubled
<1>2. CASE SessionTask
  BY <1>1, <1>2, SessionsLoop, SessionsSent, SessionsResume, SessionsBegin, SessionsEnd DEF SessionTask
<1>3. CASE OcmfTask
  BY <1>1, <1>3, SessionsSave
<1>4. CASE SetSessionId
  BY <1>1, <1>4, SessionsGetId
<1>5. CASE DeleteLog \/ CarChange \/ Network \/ Drop
  BY <1>1, <1>5, SessionsOthers
<1>6. CASE Restart
  BY <1>1, <1>6, SessionsRestart
<1>7. CASE UNCHANGED vars
  <2>1. UNCHANGED <<files, activeFile, session, pc, ended, unfiled, got, call>>
    BY <1>7 DEF vars, fileVars, ram, history, publish
  <2>2. SameFiles
    BY <2>1, FilesUntouched
  <2> QED BY <1>1, <2>1, <2>2, SessionsStay DEF SessionInv, Sending
<1> QED BY <1>2, <1>3, <1>4, <1>5, <1>6, <1>7 DEF Next

LEMMA QuietInvHolds == Spec => []QuietInv
<1>1. Init => (Quiet => SessionInv)
  <2> SUFFICES ASSUME Init PROVE SessionInv
    OBVIOUS
  <2>1. ended = {} /\ session = NoSession /\ pc = "top" /\ activeFile = -1
    BY DEF Init, FilesInit, RamInit
  <2> QED BY <2>1 DEF SessionInv
<1>2. QuietInv /\ ReportInv' /\ [Next]_vars => QuietInv'
  BY SessionsStep DEF QuietInv
<1>3. ReportInv /\ (Quiet => SessionInv) => QuietInv
  BY DEF QuietInv
<1> QED BY <1>1, <1>2, <1>3, ReportInvHolds, PTL DEF Spec

\* A session that has ended is on file until the cloud has it, unless it had no
\* file or an acknowledgement met the end of a wait: through restarts, files torn
\* by the power, lost connections, and the other task writing what it read before
\* (offlineSession.c).
THEOREM SessionsKeptHolds == Spec => []SessionsKept
<1>1. ASSUME SessionInv PROVE SessionsKept
  <2>1. \A n \in ended \ unfiled : Reached(n)
    BY <1>1 DEF SessionInv
  <2> QED BY <2>1, Zenon DEF SessionsKept, Reached
<1>2. QuietInv => SessionsKept
  BY <1>1 DEF QuietInv, SessionsKept, Quiet
<1> QED BY <1>2, QuietInvHolds, PTL

-----------------------------------------------------------------------------
(* The readings until the cloud has them.                                  *)

\* How far a place of the ring is from the start.
Distance(s, j) == (j + MaxItems - s) % MaxItems

LEMMA DistanceIs ==
  ASSUME NEW s \in Indices, NEW j \in Indices
  PROVE  /\ Distance(s, j) = IF j >= s THEN j - s ELSE j + MaxItems - s
         /\ Distance(s, j) \in Nat
<1>1. MaxItems \in Nat /\ MaxItems > 1
  BY OfflineFilesAssumption
<1>2. \A k \in 0 .. MaxItems - 1 : k % MaxItems = k
  BY <1>1
<1>3. \A k \in 0 .. MaxItems - 1 : (k + MaxItems) % MaxItems = k
  BY <1>1
<1>4. CASE j >= s
  <2>1. j - s \in 0 .. MaxItems - 1 /\ j + MaxItems - s = (j - s) + MaxItems
    BY <1>1, <1>4 DEF Indices
  <2>2. ((j - s) + MaxItems) % MaxItems = j - s
    BY <1>3, <2>1
  <2> QED BY <1>4, <2>1, <2>2 DEF Distance
<1>5. CASE ~(j >= s)
  <2>1. j + MaxItems - s \in 0 .. MaxItems - 1
    BY <1>1, <1>5 DEF Indices
  <2>2. (j + MaxItems - s) % MaxItems = j + MaxItems - s
    BY <1>2, <2>1
  <2> QED BY <1>5, <2>1, <2>2 DEF Distance
<1> QED BY <1>4, <1>5

LEMMA LoggedIs ==
  Logged = {log.lines[i] : i \in {j \in Indices : Distance(log.start, j) < Distance(log.start, log.end)}}
BY DEF Logged, Distance, Indices

\* The places between start and end, after one is added or taken away.
LEMMA RingGrows ==
  ASSUME NEW s \in Indices, NEW e \in Indices, Following(e) # s
  PROVE  /\ Distance(s, e) < Distance(s, Following(e))
         /\ \A j \in Indices : Distance(s, j) < Distance(s, e) => j # e /\ Distance(s, j) < Distance(s, Following(e))
<1>1. MaxItems \in Nat /\ MaxItems > 1
  BY OfflineFilesAssumption
<1>2. Following(e) \in Indices /\ Following(e) = IF e = MaxItems - 1 THEN 0 ELSE e + 1
  BY FollowingIs
<1>3. /\ Distance(s, e) = IF e >= s THEN e - s ELSE e + MaxItems - s
      /\ Distance(s, Following(e)) = IF Following(e) >= s THEN Following(e) - s ELSE Following(e) + MaxItems - s
  BY <1>2, DistanceIs
<1>4. Distance(s, e) < Distance(s, Following(e))
  BY <1>1, <1>2, <1>3 DEF Indices
<1>5. ASSUME NEW j \in Indices, Distance(s, j) < Distance(s, e)
      PROVE  j # e /\ Distance(s, j) < Distance(s, Following(e))
  <2>1. Distance(s, j) \in Nat /\ Distance(s, e) \in Nat /\ Distance(s, Following(e)) \in Nat
    BY <1>2, DistanceIs
  <2> QED BY <1>4, <1>5, <2>1
<1> QED BY <1>4, <1>5

LEMMA RingMoves ==
  ASSUME NEW s \in Indices, NEW e \in Indices, Following(e) = s
  PROVE  LET t == Following(s) IN
         /\ Distance(t, e) < Distance(t, s)
         /\ \A j \in Indices : Distance(s, j) < Distance(s, e) /\ j # s => j # e /\ Distance(t, j) < Distance(t, s)
<1> DEFINE t == Following(s)
<1>1. MaxItems \in Nat /\ MaxItems > 1
  BY OfflineFilesAssumption
<1>2. t \in Indices /\ t = IF s = MaxItems - 1 THEN 0 ELSE s + 1
  BY FollowingIs
<1>3. s = IF e = MaxItems - 1 THEN 0 ELSE e + 1
  BY FollowingIs
<1> HIDE DEF t
<1>4. /\ Distance(t, e) = IF e >= t THEN e - t ELSE e + MaxItems - t
      /\ Distance(t, s) = IF s >= t THEN s - t ELSE s + MaxItems - t
      /\ Distance(s, e) = IF e >= s THEN e - s ELSE e + MaxItems - s
  BY <1>2, DistanceIs
<1>5. Distance(t, e) < Distance(t, s)
  BY <1>1, <1>2, <1>3, <1>4 DEF Indices
<1>6. ASSUME NEW j \in Indices, Distance(s, j) < Distance(s, e), j # s
      PROVE  j # e /\ Distance(t, j) < Distance(t, s)
  <2>1. /\ Distance(s, j) = IF j >= s THEN j - s ELSE j + MaxItems - s
        /\ Distance(t, j) = IF j >= t THEN j - t ELSE j + MaxItems - t
    BY <1>2, DistanceIs
  <2> QED BY <1>1, <1>2, <1>3, <1>4, <1>6, <2>1 DEF Indices
<1> QED BY <1>5, <1>6 DEF t

LEMMA RingShrinks ==
  ASSUME NEW s \in Indices, NEW e \in Indices, s # e
  PROVE  \A j \in Indices : Distance(s, j) < Distance(s, e) /\ j # s
             => Distance(Following(s), j) < Distance(Following(s), e)
<1> DEFINE t == Following(s)
<1>1. MaxItems \in Nat /\ MaxItems > 1
  BY OfflineFilesAssumption
<1>2. t \in Indices /\ t = IF s = MaxItems - 1 THEN 0 ELSE s + 1
  BY FollowingIs
<1> HIDE DEF t
<1>3. /\ Distance(t, e) = IF e >= t THEN e - t ELSE e + MaxItems - t
      /\ Distance(s, e) = IF e >= s THEN e - s ELSE e + MaxItems - s
  BY <1>2, DistanceIs
<1>4. ASSUME NEW j \in Indices, Distance(s, j) < Distance(s, e), j # s
      PROVE  Distance(t, j) < Distance(t, e)
  <2>1. /\ Distance(s, j) = IF j >= s THEN j - s ELSE j + MaxItems - s
        /\ Distance(t, j) = IF j >= t THEN j - t ELSE j + MaxItems - t
    BY <1>2, DistanceIs
  <2> QED BY <1>1, <1>2, <1>3, <1>4, <2>1 DEF Indices
<1> QED BY <1>4 DEF t

\* What the operations leave in the log.
LEMMA LoggedGrows ==
  ASSUME log \in LogType, NEW r \in Nat, log.lines[log.end] = r, MoveEnd
  PROVE  /\ r \in Logged'
         /\ \A x \in Logged : x \in Logged' \/ (Following(log.end) = log.start /\ x = log.lines[log.start])
<1> DEFINE s == log.start
           e == log.end
           a == log.lines
<1>1. s \in Indices /\ e \in Indices /\ a \in [Indices -> Nat] /\ Following(e) \in Indices /\ Following(s) \in Indices
  BY LogRecords, FollowingIs
<1>2. /\ log'.lines = a /\ log'.end = Following(e)
      /\ log'.start = IF Following(e) = s THEN Following(s) ELSE s
  BY EndMoves
<1>3. Logged' = {log'.lines[i] : i \in {j \in Indices : Distance(log'.start, j) < Distance(log'.start, log'.end)}}
  BY DEF Logged, Distance, Indices
<1>4. Logged = {a[i] : i \in {j \in Indices : Distance(s, j) < Distance(s, e)}}
  BY LoggedIs
<1>5. \A j \in Indices : log'.lines[j] = IF j = e THEN r ELSE a[j]
  BY <1>1, <1>2
<1> HIDE DEF s, e, a
<1>6. CASE Following(e) # s
  <2>1. /\ Distance(s, e) < Distance(s, Following(e))
        /\ \A j \in Indices : Distance(s, j) < Distance(s, e) => j # e /\ Distance(s, j) < Distance(s, Following(e))
    BY <1>1, <1>6, RingGrows
  <2>2. Logged' = {log'.lines[i] : i \in {j \in Indices : Distance(s, j) < Distance(s, Following(e))}}
    BY <1>2, <1>3, <1>6
  <2>3. r \in Logged'
    BY <1>1, <1>5, <2>1, <2>2
  <2>4. \A x \in Logged : x \in Logged'
    BY <1>4, <1>5, <2>1, <2>2
  <2> QED BY <2>3, <2>4 DEF s, e, a
<1>7. CASE Following(e) = s
  <2> DEFINE t == Following(s)
  <2>1. /\ Distance(t, e) < Distance(t, s)
        /\ \A j \in Indices : Distance(s, j) < Distance(s, e) /\ j # s => j # e /\ Distance(t, j) < Distance(t, s)
    BY <1>1, <1>7, RingMoves
  <2>2. Logged' = {log'.lines[i] : i \in {j \in Indices : Distance(t, j) < Distance(t, s)}}
    BY <1>2, <1>3, <1>7
  <2> HIDE DEF t
  <2>3. r \in Logged'
    BY <1>1, <1>5, <2>1, <2>2
  <2>4. \A x \in Logged : x \in Logged' \/ x = a[s]
    BY <1>4, <1>5, <2>1, <2>2
  <2> QED BY <1>7, <2>3, <2>4 DEF s, e, a
<1> QED BY <1>6, <1>7

\* A line after the last one is not in the log yet.
LEMMA LineIsNew ==
  ASSUME log \in LogType, NEW r \in Nat, WriteLine(r)
  PROVE  /\ Logged' = Logged
         /\ log'.lines[log.end] = r
         /\ \A j \in Indices : Distance(log.start, j) < Distance(log.start, log.end) => log'.lines[j] = log.lines[j]
<1>1. /\ log' \in LogType /\ log'.start = log.start /\ log'.end = log.end
      /\ \A j \in Indices : log'.lines[j] = IF j = log.end THEN r ELSE log.lines[j]
      /\ log.end \in Indices /\ log.start \in Indices
  BY LineWritten, LogRecords
<1>2. \A j \in Indices : Distance(log.start, j) \in Nat
  BY <1>1, DistanceIs
<1>3. \A j \in Indices : Distance(log.start, j) < Distance(log.start, log.end) => j # log.end
  BY <1>1, <1>2
<1>4. Logged' = {log'.lines[i] : i \in {j \in Indices : Distance(log'.start, j) < Distance(log'.start, log'.end)}}
  BY DEF Logged, Distance, Indices
<1>5. Logged' = {log'.lines[i] : i \in {j \in Indices : Distance(log.start, j) < Distance(log.start, log.end)}}
  BY <1>1, <1>4
<1>6. \A j \in Indices : Distance(log.start, j) < Distance(log.start, log.end) => log'.lines[j] = log.lines[j]
  BY <1>1, <1>3
<1> HIDE DEF Distance
<1>7. Logged' = Logged
  BY <1>5, <1>6, LoggedIs
<1> QED BY <1>1, <1>6, <1>7

LEMMA LoggedShrinks ==
  ASSUME log \in LogType, log.start # log.end, SetHeader(Following(log.start), log.end)
  PROVE  \A x \in Logged : x \in Logged' \/ x = log.lines[log.start]
<1> DEFINE s == log.start
           e == log.end
           a == log.lines
<1>1. s \in Indices /\ e \in Indices /\ Following(s) \in Indices
  BY LogRecords, FollowingIs
<1>2. log'.lines = a /\ log'.start = Following(s) /\ log'.end = e
  BY <1>1, SetsHeader
<1>3. Logged' = {log'.lines[i] : i \in {j \in Indices : Distance(log'.start, j) < Distance(log'.start, log'.end)}}
  BY DEF Logged, Distance, Indices
<1>4. Logged = {a[i] : i \in {j \in Indices : Distance(s, j) < Distance(s, e)}}
  BY LoggedIs
<1>5. s # e
  OBVIOUS
<1> HIDE DEF s, e, a
<1>6. \A j \in Indices : Distance(s, j) < Distance(s, e) /\ j # s => Distance(Following(s), j) < Distance(Following(s), e)
  BY <1>1, <1>5, RingShrinks
<1>7. Logged' = {a[i] : i \in {j \in Indices : Distance(Following(s), j) < Distance(Following(s), e)}}
  BY <1>2, <1>3
<1>8. \A x \in Logged : x \in Logged' \/ x = a[s]
  BY <1>4, <1>6, <1>7
<1> QED BY <1>8 DEF s, e, a

LEMMA LoggedNothing ==
  ASSUME log \in LogType, log.start = log.end
  PROVE  Logged = {}
<1>1. log.start \in Indices
  BY LogRecords
<1>2. \A j \in Indices : ~(Distance(log.start, j) < Distance(log.start, log.start))
  <2>1. Distance(log.start, log.start) = 0
    <3>1. log.start \in Int
      BY <1>1 DEF Indices
    <3> QED BY <1>1, <3>1, DistanceIs
  <2>2. \A j \in Indices : Distance(log.start, j) \in Nat
    BY <1>1, DistanceIs
  <2> QED BY <2>1, <2>2
<1> QED BY <1>2, LoggedIs

-----------------------------------------------------------------------------
Sure == Untroubled({"lateack", "delete"})

\* While the log is being sent only its sender changes it, and what is being
\* published is the reading that is taken out or kept when it has been.
ReadingInv ==
    /\ logLock
    /\ ocmf.at \in {"line", "lineSent"} => ocmf.start = log.start /\ ocmf.end = log.end
    /\ ocmf.at = "lineSent" =>
           call["ocmf"].msg = <<"reading", log.lines[log.start]>> /\ log.start # log.end
    /\ ocmf.at = "ownSent" => call["ocmf"].msg = <<"reading", ocmf.reading>>
    /\ ocmf.at = "header" => log.lines[log.end] = ocmf.reading
    /\ \A r \in kept \ pushedOut : <<"reading", r>> \in got \/ r \in Logged

LEMMA ReadingsOthers ==
  ASSUME TypeInv, ReadingInv, Sure',
         SessionTask \/ Hour \/ Skip \/ OpenLog \/ Value \/ Save \/ SetSessionId \/ DeleteLog \/ CarChange \/ Network \/ Drop \/ Restart
  PROVE  ReadingInv'
<1>0. log \in LogType /\ ocmf \in OcmfType
  BY DEF TypeInv, RamType, LogType
<1>1. UNCHANGED <<log, kept, pushedOut>> /\ logLock' /\ got \subseteq got'
  <2>1. CASE SessionTask
    BY <2>1 DEF SessionTask, Top, Send, Sent, Look, Start, Begin, End, Seal, LetGo, Clear, SaveSession, UpdateSession, fileVars,
                history, publish, ReadingInv
  <2>2. CASE Hour \/ Skip \/ OpenLog \/ Value \/ Save \/ SetSessionId \/ CarChange
    BY <2>2 DEF Hour, Skip, OpenLog, Value, Save, SetSessionId, CarChange, UpdateSession, fileVars, Others, history, publish, ReadingInv
  <2>3. CASE Network \/ Drop
    <3>1. got \subseteq got'
      BY <2>3, MessagesStay
    <3> QED BY <2>3, <3>1 DEF Network, Drop, fileVars, history, ReadingInv
  <2>4. CASE Restart
    BY <2>4 DEF Restart, PublishRestart, history
  <2>5. CASE DeleteLog
    BY <2>5 DEF DeleteLog, Trouble, Sure, Untroubled
  <2> QED BY <2>1, <2>2, <2>3, <2>4, <2>5
<1>2. /\ ocmf'.at \in {"line", "lineSent"} => ocmf'.start = log.start /\ ocmf'.end = log.end
      /\ ocmf'.at \in {"lineSent", "ownSent", "header"} => UNCHANGED ocmf /\ call'["ocmf"].msg = call["ocmf"].msg
  <2>1. CASE Hour
    <3> DEFINE a == IF online THEN "open" ELSE "append"
               c == mode # "disconnected"
               r == IF Measures THEN readings' ELSE 0
    <3>1. ocmf' = [Idle EXCEPT !.at = a, !.reading = r, !.car = c]
      BY <2>1 DEF Hour
    <3>2. a \in {"open", "append"} /\ c \in BOOLEAN /\ r \in Nat
      <4>1. readings' \in {readings, readings + 1}
        BY <2>1 DEF Hour
      <4> QED BY <4>1 DEF TypeInv, RamType
    <3> HIDE DEF a, c, r
    <3>3. a \in OcmfPlaces
      BY <3>2 DEF OcmfPlaces
    <3>4. ocmf' = [at |-> a, reading |-> r, start |-> 0, end |-> 0, car |-> c, seen |-> NoSession]
      BY <3>1, <3>2, <3>3, OcmfBegins, Zenon
    <3>5. ocmf'.at = a
      BY <3>4
    <3> QED BY <3>2, <3>5
  <2>2. CASE OpenLog
    <3>1. logLock
      BY DEF ReadingInv
    <3>2. ocmf' = [ocmf EXCEPT !.at = "line", !.start = log.start, !.end = log.end]
      BY <2>2, <3>1 DEF OpenLog
    <3>3. "line" \in OcmfPlaces /\ log.start \in Indices /\ log.end \in Indices
      BY <1>0, LogRecords DEF OcmfPlaces
    <3>4. ocmf' = [at |-> "line", reading |-> ocmf.reading, start |-> log.start, end |-> log.end,
                   car |-> ocmf.car, seen |-> ocmf.seen]
      BY <1>0, <3>2, <3>3, OcmfReads, Zenon
    <3>5. ocmf'.at = "line" /\ ocmf'.start = log.start /\ ocmf'.end = log.end
      BY <3>4
    <3> QED BY <3>5
  <2>3. CASE Value
    <3>1. ocmf' = [ocmf EXCEPT !.at = "save", !.seen = session] \/ ocmf' = Idle
      BY <2>3 DEF Value
    <3>2. ASSUME ocmf' = [ocmf EXCEPT !.at = "save", !.seen = session] PROVE ocmf'.at = "save"
      <4>1. session \in SessionType
        BY DEF TypeInv, RamType
      <4>2. ocmf' = [at |-> "save", reading |-> ocmf.reading, start |-> ocmf.start, end |-> ocmf.end,
                     car |-> ocmf.car, seen |-> session]
        BY <1>0, <3>2, <4>1, OcmfSees, Zenon
      <4> QED BY <4>2
    <3>3. Idle.at = "idle"
      BY DEF Idle
    <3> QED BY <3>1, <3>2, <3>3
  <2>4. CASE Skip \/ Save \/ Restart
    <3>1. ocmf' = Idle
      BY <2>4 DEF Skip, Save, Restart
    <3>2. Idle.at = "idle"
      BY DEF Idle
    <3> QED BY <3>1, <3>2
  <2>5. CASE SetSessionId \/ DeleteLog \/ CarChange \/ Network \/ Drop
    <3>1. UNCHANGED ocmf /\ call'["ocmf"].msg = call["ocmf"].msg
      <4>1. CASE Network \/ Drop
        BY <4>1, MessagesStay, TasksPublish DEF Network, Drop
      <4>2. CASE SetSessionId \/ DeleteLog \/ CarChange
        BY <4>2 DEF SetSessionId, DeleteLog, CarChange, publish
      <4> QED BY <2>5, <4>1, <4>2
    <3> QED BY <3>1 DEF ReadingInv
  <2>6. CASE SessionTask
    <3>1. UNCHANGED ocmf
      BY <2>6 DEF SessionTask, Top, Send, Sent, Look, Start, Begin, End, Seal, LetGo, Clear
    <3>2. UNCHANGED call \/ \E c : call' = [call EXCEPT !["session"] = c]
      BY <2>6 DEF SessionTask, Top, Send, Sent, Look, Start, Begin, End, Seal, LetGo, Clear, publish, Call, Done
    <3>3. call'["ocmf"].msg = call["ocmf"].msg
      BY <3>2, TasksPublish, OneCallAtATime
    <3> QED BY <3>1, <3>3 DEF ReadingInv
  <2> QED BY <2>1, <2>2, <2>3, <2>4, <2>5, <2>6
<1>3. Logged' = Logged
  BY <1>1 DEF Logged
<1> QED BY <1>1, <1>2, <1>3 DEF ReadingInv

LEMMA ReadingsLine ==
  ASSUME TypeInv, ReadingInv, Line
  PROVE  ReadingInv'
<1>0. log \in LogType /\ ocmf \in OcmfType /\ {"own", "lineSent"} \subseteq OcmfPlaces
  BY DEF TypeInv, RamType, LogType, OcmfPlaces
<1>1. ocmf.at = "line" /\ UNCHANGED <<got, kept, pushedOut, logLock>> /\ ocmf.start = log.start /\ ocmf.end = log.end
  BY DEF Line, Rest, Others, ReadingInv
<1>2. CASE ocmf.start = ocmf.end
  <2>1. ocmf' = [ocmf EXCEPT !.at = "own"] /\ (SetHeader(0, 0) \/ UNCHANGED log)
    BY <1>2 DEF Line
  <2>2. ocmf' = [at |-> "own", reading |-> ocmf.reading, start |-> ocmf.start, end |-> ocmf.end,
                 car |-> ocmf.car, seen |-> ocmf.seen]
    BY <1>0, <2>1, OcmfGoes
  <2>3. ocmf'.at = "own"
    BY <2>2
  <2>4. Logged = {}
    BY <1>0, <1>1, <1>2, LoggedNothing
  <2> QED BY <1>1, <2>3, <2>4 DEF ReadingInv
<1>3. CASE ocmf.start # ocmf.end
  <2> DEFINE m == <<"reading", log.lines[ocmf.start]>>
             c == [at |-> "take", msg |-> m]
  <2>1. ocmf' = [ocmf EXCEPT !.at = "lineSent"] /\ call' = [call EXCEPT !["ocmf"] = c] /\ UNCHANGED log
    BY <1>3 DEF Line, Call
  <2>2. ocmf' = [at |-> "lineSent", reading |-> ocmf.reading, start |-> ocmf.start, end |-> ocmf.end,
                 car |-> ocmf.car, seen |-> ocmf.seen]
    BY <1>0, <2>1, OcmfGoes
  <2>3. ocmf'.at = "lineSent" /\ ocmf'.start = ocmf.start /\ ocmf'.end = ocmf.end
    BY <2>2
  <2>4. c.msg = m
    OBVIOUS
  <2> HIDE DEF c
  <2>5. call'["ocmf"] = c
    BY <2>1, TasksPublish DEF TypeInv, PublishInv, PublishType
  <2>6. Logged' = Logged
    BY <2>1 DEF Logged
  <2> QED BY <1>1, <1>3, <2>1, <2>3, <2>4, <2>5, <2>6 DEF ReadingInv
<1> QED BY <1>2, <1>3

LEMMA ReadingsLineSent ==
  ASSUME TypeInv, ReadingInv, ReportedIsThere, LineSent
  PROVE  ReadingInv'
<1>0. log \in LogType /\ ocmf \in OcmfType /\ {"line", "append"} \subseteq OcmfPlaces
  BY DEF TypeInv, RamType, LogType, OcmfPlaces
<1>1. /\ ocmf.at = "lineSent" /\ UNCHANGED <<got, kept, pushedOut, logLock>> /\ ocmf.start = log.start /\ ocmf.end = log.end
      /\ call["ocmf"].msg = <<"reading", log.lines[log.start]>> /\ log.start # log.end
  BY DEF LineSent, Rest, Others, ReadingInv
<1>2. CASE Returned("ocmf", "ok") /\ SetHeader(Following(ocmf.start), ocmf.end) /\ ocmf' = [ocmf EXCEPT !.at = "line", !.start = Following(@)]
  <2> DEFINE f == Following(ocmf.start)
  <2>1. ocmf.start \in Indices /\ ocmf.end \in Indices /\ f \in Indices
    BY <1>0, OcmfRecords, FollowingIs
  <2>2. ocmf' = [ocmf EXCEPT !.at = "line", !.start = f, !.end = ocmf.end]
    <3> DEFINE K == SessionType
    <3>1. ocmf \in [at : OcmfPlaces, reading : Nat, start : Indices, end : Indices, car : BOOLEAN, seen : K]
      BY <1>0 DEF OcmfType
    <3>2. ocmf' = [ocmf EXCEPT !.at = "line", !.start = Following(@)]
      BY <1>2
    <3> HIDE DEF K
    <3> QED BY <3>1, <3>2
  <2>3. ocmf' = [at |-> "line", reading |-> ocmf.reading, start |-> f, end |-> ocmf.end, car |-> ocmf.car, seen |-> ocmf.seen]
    BY <1>0, <2>1, <2>2, OcmfReads
  <2>4. ocmf'.at = "line" /\ ocmf'.start = f /\ ocmf'.end = ocmf.end
    BY <2>3
  <2>5. log'.start = f /\ log'.end = ocmf.end
    BY <1>0, <1>2, <2>1, SetsHeader
  <2>6. <<"reading", log.lines[log.start]>> \in got
    BY <1>1, <1>2, TasksPublish DEF ReportedIsThere, Returned
  <2>7. \A x \in Logged : x \in Logged' \/ x = log.lines[log.start]
    BY <1>0, <1>1, <1>2, LoggedShrinks
  <2> QED BY <1>1, <2>4, <2>5, <2>6, <2>7 DEF ReadingInv
<1>3. CASE ocmf' = [ocmf EXCEPT !.at = "append"] /\ UNCHANGED log
  <2>1. ocmf' = [at |-> "append", reading |-> ocmf.reading, start |-> ocmf.start, end |-> ocmf.end,
                 car |-> ocmf.car, seen |-> ocmf.seen]
    BY <1>0, <1>3, OcmfGoes
  <2>2. ocmf'.at = "append"
    BY <2>1
  <2>3. Logged' = Logged
    BY <1>3 DEF Logged
  <2> QED BY <1>1, <2>2, <2>3 DEF ReadingInv
<1> QED BY <1>2, <1>3 DEF LineSent

LEMMA ReadingsOwn ==
  ASSUME TypeInv, ReadingInv, ReportedIsThere, Own \/ OwnSent
  PROVE  ReadingInv'
<1>0. ocmf \in OcmfType /\ {"ownSent", "value", "append"} \subseteq OcmfPlaces
  BY DEF TypeInv, RamType, OcmfPlaces
<1>1. UNCHANGED <<got, log, pushedOut, logLock>> /\ Logged' = Logged
  BY DEF Own, OwnSent, Rest, fileVars, Others, Logged
<1>2. CASE Own
  <2> DEFINE m == <<"reading", ocmf.reading>>
             c == [at |-> "take", msg |-> m]
  <2>1. ocmf' = [ocmf EXCEPT !.at = "ownSent"] /\ call' = [call EXCEPT !["ocmf"] = c] /\ UNCHANGED kept
    BY <1>2 DEF Own, Call
  <2>2. ocmf' = [at |-> "ownSent", reading |-> ocmf.reading, start |-> ocmf.start, end |-> ocmf.end,
                 car |-> ocmf.car, seen |-> ocmf.seen]
    BY <1>0, <2>1, OcmfGoes
  <2>3. ocmf'.at = "ownSent" /\ ocmf'.reading = ocmf.reading
    BY <2>2
  <2>4. c.msg = m
    OBVIOUS
  <2> HIDE DEF c
  <2>5. call'["ocmf"] = c
    BY <2>1, TasksPublish DEF TypeInv, PublishInv, PublishType
  <2> QED BY <1>1, <2>1, <2>3, <2>4, <2>5 DEF ReadingInv
<1>3. CASE OwnSent
  <2>1. ocmf.at = "ownSent" /\ call["ocmf"].msg = <<"reading", ocmf.reading>>
    BY <1>3 DEF OwnSent, ReadingInv
  <2>2. /\ ocmf' = [ocmf EXCEPT !.at = "value"] \/ ocmf' = [ocmf EXCEPT !.at = "append"]
        /\ (Returned("ocmf", "ok") /\ kept' = kept \cup {ocmf.reading}) \/ kept' = kept
    BY <1>3 DEF OwnSent
  <2>3. ocmf'.at \in {"value", "append"}
    BY <1>0, <2>2, OcmfGoes
  <2>4. Returned("ocmf", "ok") => <<"reading", ocmf.reading>> \in got
    BY <2>1, TasksPublish DEF ReportedIsThere, Returned
  <2> QED BY <1>1, <2>2, <2>3, <2>4 DEF ReadingInv
<1> QED BY <1>2, <1>3

LEMMA ReadingsLog ==
  ASSUME TypeInv, ReadingInv, LogLine \/ LogHeader
  PROVE  ReadingInv'
<1>0. /\ log \in LogType /\ ocmf \in OcmfType /\ ocmf.reading \in Nat /\ {"value", "header"} \subseteq OcmfPlaces
      /\ logLock
  BY OcmfRecords DEF TypeInv, RamType, LogType, OcmfPlaces, ReadingInv
<1>1. CASE LogLine
  <2>1. /\ WriteLine(ocmf.reading) /\ ocmf' = [ocmf EXCEPT !.at = "header"] /\ logLock'
        /\ UNCHANGED <<kept, got, pushedOut>>
    BY <1>0, <1>1 DEF LogLine, publish, Others
  <2>2. ocmf' = [at |-> "header", reading |-> ocmf.reading, start |-> ocmf.start, end |-> ocmf.end,
                 car |-> ocmf.car, seen |-> ocmf.seen]
    BY <1>0, <2>1, OcmfGoes
  <2>3. ocmf'.at = "header" /\ ocmf'.reading = ocmf.reading
    BY <2>2
  <2>4. Logged' = Logged /\ log'.lines[log.end] = ocmf.reading /\ log'.end = log.end
    BY <1>0, <2>1, LineIsNew, LineWritten
  <2> QED BY <2>1, <2>3, <2>4 DEF ReadingInv
<1>2. CASE LogHeader
  <2>1. /\ MoveEnd /\ ocmf' = [ocmf EXCEPT !.at = "value"] /\ ocmf.at = "header" /\ logLock'
        /\ kept' = kept \cup {ocmf.reading} /\ UNCHANGED got
        /\ pushedOut \subseteq pushedOut'
        /\ Following(log.end) = log.start => log.lines[log.start] \in pushedOut'
    BY <1>0, <1>2 DEF LogHeader, publish, Others
  <2>2. ocmf'.at = "value"
    BY <1>0, <2>1, OcmfGoes
  <2>3. /\ ocmf.reading \in Logged'
        /\ \A x \in Logged : x \in Logged' \/ (Following(log.end) = log.start /\ x = log.lines[log.start])
    BY <1>0, <2>1, LoggedGrows DEF ReadingInv
  <2> QED BY <2>1, <2>2, <2>3 DEF ReadingInv
<1> QED BY <1>1, <1>2

\* The inductive invariant of the readings.
SureInv == ReportInv /\ (Sure => ReadingInv)

LEMMA ReadingsStep ==
  ASSUME SureInv, [Next]_vars
  PROVE  Sure' => ReadingInv'
<1> SUFFICES ASSUME Sure' PROVE ReadingInv'
  OBVIOUS
<1>1. TypeInv /\ ReadingInv /\ ReportedIsThere
  <2>1. Sure /\ "lateack" \notin troubles
    BY TroublesStay DEF Sure, Untroubled
  <2> QED BY <2>1 DEF SureInv, ReportInv, Answered
<1>2. CASE OcmfTask
  BY <1>1, <1>2, ReadingsOthers, ReadingsLine, ReadingsLineSent, ReadingsOwn, ReadingsLog DEF OcmfTask
<1>3. CASE SessionTask \/ SetSessionId \/ DeleteLog \/ CarChange \/ Network \/ Drop \/ Restart
  BY <1>1, <1>3, ReadingsOthers
<1>4. CASE UNCHANGED vars
  <2>1. UNCHANGED <<log, ocmf, logLock, kept, pushedOut, got, call>>
    BY <1>4 DEF vars, fileVars, history, publish
  <2>2. Logged' = Logged
    BY <2>1 DEF Logged
  <2> QED BY <1>1, <2>1, <2>2 DEF ReadingInv
<1> QED BY <1>2, <1>3, <1>4 DEF Next

LEMMA SureInvHolds == Spec => []SureInv
<1>1. Init => (Sure => ReadingInv)
  <2> SUFFICES ASSUME Init PROVE ReadingInv
    OBVIOUS
  <2>1. logLock /\ ocmf = Idle /\ kept = {}
    BY DEF Init, RamInit
  <2> QED BY <2>1 DEF ReadingInv, Idle
<1>2. SureInv /\ ReportInv' /\ [Next]_vars => SureInv'
  BY ReadingsStep DEF SureInv
<1>3. ReportInv /\ (Sure => ReadingInv) => SureInv
  BY DEF SureInv
<1> QED BY <1>1, <1>2, <1>3, ReportInvHolds, PTL DEF Spec

\* A reading that was sent or logged is in the log until the cloud has it, unless
\* it gave way in a full log (offline_log.c), the log was deleted, or there was
\* a false report.
THEOREM ReadingsKeptHolds == Spec => []ReadingsKept
<1>1. SureInv => ReadingsKept
  BY DEF SureInv, ReadingInv, ReadingsKept, Sure
<1> QED BY <1>1, SureInvHolds, PTL

-----------------------------------------------------------------------------
(* The order in which sessions and readings reach the cloud.               *)

\* What the cloud has and what it may still get.
Handed == got \cup {outbox[i].msg : i \in DOMAIN outbox}

\* Nothing of a kind is handed over that is ahead of n.
Past(k, n) == \A m \in Handed : m[1] = k => m[2] <= n

Numbered(m, k) == m[1] = k /\ m[2] # 0

\* The messages of a kind that were handed over arrive in their order.
InTurn(k) ==
    /\ \A i, j \in DOMAIN outbox :
           i < j /\ Numbered(outbox[i].msg, k) /\ Numbered(outbox[j].msg, k) => outbox[i].msg[2] <= outbox[j].msg[2]
    /\ \A m \in got, i \in DOMAIN outbox :
           Numbered(m, k) /\ Numbered(outbox[i].msg, k) => m[2] <= outbox[i].msg[2]

\* The places of the log in use, and the newest reading there may be in them.
OnLog == {j \in Indices : Distance(log.start, j) < Distance(log.start, log.end)}
Newest == IF ocmf.at \in {"idle", "value", "save"} \/ ocmf.reading = 0 THEN readings ELSE ocmf.reading

\* The log holds readings in their order, none is ahead of the one that is taken
\* now, and none that was handed over is ahead of one that is still to come.
LineInv ==
    /\ ocmf.at \in {"line", "lineSent"} => ocmf.start = log.start /\ ocmf.end = log.end
    /\ ocmf.at = "lineSent" =>
           call["ocmf"].msg = <<"reading", log.lines[log.start]>> /\ log.start # log.end
    /\ ocmf.at = "ownSent" => call["ocmf"].msg = <<"reading", ocmf.reading>> /\ ocmf.reading # 0
    /\ ocmf.at = "header" => logLock /\ log.lines[log.end] = ocmf.reading /\ ocmf.reading # 0
    /\ ocmf.at \in {"own", "ownSent"} \/ ~logLock => log.start = log.end
    /\ \A i, j \in OnLog : Distance(log.start, i) < Distance(log.start, j) => log.lines[i] <= log.lines[j]
    /\ \A j \in OnLog : Past("reading", log.lines[j]) /\ log.lines[j] <= Newest
    /\ Past("reading", Newest) /\ Newest <= readings
    /\ InTurn("reading")
    /\ pc = "sent" => call["session"].msg[1] = "session"

Clean == Untroubled({"stale"})

\* The files hold sessions in their order, and none that was handed over is ahead
\* of one on file.
NumberInv ==
    /\ session.no <= starts /\ Past("session", starts)
    /\ \A f \in Used : files[f].no # 0 /\ files[f].no <= starts /\ Past("session", files[f].no)
    /\ \A f, g \in Used : f < g => files[f].no < files[g].no
    /\ activeFile # -1 => activeFile \in Used /\ files[activeFile].no = session.no
    /\ session = NoSession => activeFile = -1
    /\ pc = "sent" => call["session"].msg = SessionMessage(OldestFile)
    /\ InTurn("session")

OrderInv == LineInv /\ (Clean => NumberInv)

\* What is handed over that was handed over before.
LEMMA HandedStays ==
  ASSUME got' \subseteq got, UNCHANGED outbox \/ outbox' = <<>>
  PROVE  /\ \A k, n : Past(k, n) => Past(k, n)'
         /\ \A k : InTurn(k) => InTurn(k)'
<1>1. CASE UNCHANGED outbox
  <2>1. Handed' \subseteq Handed
    BY <1>1 DEF Handed
  <2>2. \A k, n : Past(k, n) => Past(k, n)'
    BY <2>1 DEF Past
  <2>3. \A k : InTurn(k) => InTurn(k)'
    BY <1>1 DEF InTurn, Numbered
  <2> QED BY <2>2, <2>3
<1>2. CASE outbox' = <<>>
  <2>1. DOMAIN outbox' = {}
    BY <1>2
  <2>2. Handed' \subseteq Handed
    BY <2>1 DEF Handed
  <2>3. \A k, n : Past(k, n) => Past(k, n)'
    BY <2>2 DEF Past
  <2>4. \A k : InTurn(k)'
    BY <2>1 DEF InTurn
  <2> QED BY <2>3, <2>4
<1> QED BY <1>1, <1>2

LEMMA MessageParts ==
  /\ \A m \in Message : m[1] \in {"session", "reading"} /\ m[2] \in Nat
  /\ \A m, n \in Message : m[1] = n[1] /\ m[2] = n[2] => m = n
BY DEF Message

LEMMA HandedAre ==
  ASSUME PublishType
  PROVE  /\ got \subseteq Message /\ Handed \subseteq Message
         /\ \A i \in DOMAIN outbox : i \in Nat \ {0} /\ outbox[i].msg \in Message /\ outbox[i].msg \in Handed
<1>1. got \subseteq Message /\ outbox \in Seq([id : Nat, msg : Message])
  BY DEF PublishType
<1>2. \A i \in DOMAIN outbox : i \in Nat \ {0} /\ outbox[i] \in [id : Nat, msg : Message]
  <2> DEFINE K == [id : Nat, msg : Message]
  <2>1. outbox \in Seq(K)
    BY <1>1
  <2> HIDE DEF K
  <2>2. \A i \in DOMAIN outbox : i \in Nat \ {0} /\ outbox[i] \in K
    BY <2>1
  <2> QED BY <2>2 DEF K
<1>3. \A i \in DOMAIN outbox : outbox[i].msg \in Message
  BY <1>2
<1> QED BY <1>1, <1>2, <1>3 DEF Handed

LEMMA PastGrows ==
  ASSUME PublishType, NEW k, NEW n \in Nat, NEW o \in Nat, Past(k, n), n <= o
  PROVE  Past(k, o)
BY HandedAre, MessageParts DEF Past

\* A message is handed over at the end of the outbox.
LEMMA HandsOver ==
  ASSUME TypeInv, NEW k, InTurn(k), NEW t \in Publishers, Publish(t),
         Numbered(call[t].msg, k) => Past(k, call[t].msg[2])
  PROVE  /\ InTurn(k)' /\ got' = got
         /\ \A n \in Nat : Past(k, n) /\ (call[t].msg[1] = k => call[t].msg[2] <= n) => Past(k, n)'
<1>0. PublishType /\ call[t].at = "take" /\ got' = got
  BY DEF TypeInv, PublishInv, Publish
<1>1. CASE ~(Len(outbox) < MaxOutbox)
  <2>1. UNCHANGED <<outbox, got>>
    BY <1>1 DEF Publish
  <2> QED BY <2>1, HandedStays
<1>2. CASE Len(outbox) < MaxOutbox
  <2> DEFINE m == call[t].msg
             e == [id |-> NewId, msg |-> m]
  <2>1. outbox' = Append(outbox, e)
    BY <1>2 DEF Publish
  <2>2. m \in Message /\ e.msg = m
    BY <1>0 DEF PublishType
  <2>3. e \in [id : Nat, msg : Message]
    BY <1>0, <2>2, NewIdIsNew
  <2>4. /\ DOMAIN outbox' = DOMAIN outbox \cup {Len(outbox) + 1}
        /\ \A i \in DOMAIN outbox : outbox'[i] = outbox[i] /\ i <= Len(outbox)
        /\ outbox'[Len(outbox) + 1] = e /\ Len(outbox) \in Nat
    <3> DEFINE K == [id : Nat, msg : Message]
    <3>1. outbox \in Seq(K) /\ e \in K
      BY <1>0, <2>3 DEF PublishType
    <3> HIDE DEF e, K
    <3> QED BY <2>1, <3>1
  <2> HIDE DEF m, e
  <2>5. \A i \in DOMAIN outbox' : i # Len(outbox) + 1 => i \in DOMAIN outbox /\ outbox'[i] = outbox[i]
    BY <2>4
  <2>6. Handed' \subseteq Handed \cup {m}
    BY <1>0, <2>2, <2>4, <2>5 DEF Handed
  <2>7. \A n \in Nat : Past(k, n) /\ (m[1] = k => m[2] <= n) => Past(k, n)'
    BY <2>6 DEF Past
  <2>8. Numbered(m, k) => Past(k, m[2])
    BY DEF m
  <2>9. \A i, j \in DOMAIN outbox' :
           i < j /\ Numbered(outbox'[i].msg, k) /\ Numbered(outbox'[j].msg, k) => outbox'[i].msg[2] <= outbox'[j].msg[2]
    <3> SUFFICES ASSUME NEW i \in DOMAIN outbox', NEW j \in DOMAIN outbox', i < j,
                        Numbered(outbox'[i].msg, k), Numbered(outbox'[j].msg, k)
                 PROVE  outbox'[i].msg[2] <= outbox'[j].msg[2]
      OBVIOUS
    <3>1. i \in DOMAIN outbox /\ outbox'[i] = outbox[i]
      <4>1. \A x \in DOMAIN outbox : x \in Nat
        BY <1>0, HandedAre
      <4>2. j <= Len(outbox) + 1 /\ j \in Nat
        BY <2>4, <2>5, <4>1
      <4>3. i \in Nat
        BY <2>4, <2>5, <4>1
      <4>4. i # Len(outbox) + 1
        BY <2>4, <4>2, <4>3
      <4> QED BY <2>5, <4>4
    <3>2. CASE j = Len(outbox) + 1
      <4>1. outbox[i].msg \in Handed
        BY <1>0, <3>1, HandedAre
      <4>2. outbox'[j].msg = m
        BY <2>2, <2>4, <3>2
      <4> QED BY <2>8, <3>1, <4>1, <4>2 DEF Past, Numbered
    <3>3. CASE j # Len(outbox) + 1
      <4>1. j \in DOMAIN outbox /\ outbox'[j] = outbox[j]
        BY <2>5, <3>3
      <4> QED BY <3>1, <4>1 DEF InTurn
    <3> QED BY <3>2, <3>3
  <2>10. \A x \in got', i \in DOMAIN outbox' :
            Numbered(x, k) /\ Numbered(outbox'[i].msg, k) => x[2] <= outbox'[i].msg[2]
    <3> SUFFICES ASSUME NEW x \in got, NEW i \in DOMAIN outbox', Numbered(x, k), Numbered(outbox'[i].msg, k)
                 PROVE  x[2] <= outbox'[i].msg[2]
      BY <1>0
    <3>1. CASE i = Len(outbox) + 1
      <4>1. outbox'[i].msg = m /\ x \in Handed
        BY <2>2, <2>4, <3>1 DEF Handed
      <4> QED BY <2>8, <4>1 DEF Past, Numbered
    <3>2. CASE i # Len(outbox) + 1
      <4>1. i \in DOMAIN outbox /\ outbox'[i] = outbox[i]
        BY <2>5, <3>2
      <4> QED BY <4>1 DEF InTurn
    <3> QED BY <3>1, <3>2
  <2>11. InTurn(k)'
    BY <2>9, <2>10 DEF InTurn, Numbered
  <2> QED BY <1>0, <2>7, <2>11 DEF m
<1> QED BY <1>1, <1>2

\* The oldest message leaves the outbox, for the cloud or for good.
LEMMA TakesOver ==
  ASSUME TypeInv, NEW k, InTurn(k), Acknowledge \/ Expire
  PROVE  /\ InTurn(k)'
         /\ \A new \in got' \ got, old \in got : old[1] = k /\ Numbered(new, k) => old[2] < new[2]
         /\ \A n : Past(k, n) => Past(k, n)'
<1> DEFINE m == outbox[1].msg
<1>1. PublishType /\ Ids
  BY DEF TypeInv, PublishInv
<1>2. outbox # <<>> /\ outbox' = Tail(outbox)
  BY DEF Acknowledge, Expire
<1>3. Head(outbox) = outbox[1] /\ 1 \in DOMAIN outbox
  BY <1>1, <1>2, TailOfOutbox
<1>4. got' = got \cup {m} \/ got' = got
  BY <1>3 DEF Acknowledge, Expire
<1>5. \A i \in DOMAIN outbox' : i \in Nat \ {0} /\ i + 1 \in DOMAIN outbox /\ outbox'[i] = outbox[i + 1]
  <2> DEFINE K == [id : Nat, msg : Message]
  <2>1. outbox \in Seq(K)
    BY <1>1 DEF PublishType
  <2> HIDE DEF K
  <2> QED BY <1>2, <2>1, TailShifts
<1>6. m \in Handed /\ m \in Message /\ got \subseteq Message
  BY <1>1, <1>3, HandedAre
<1> HIDE DEF m
<1>7. Handed' \subseteq Handed
  BY <1>4, <1>5, <1>6 DEF Handed
<1>8. \A n : Past(k, n) => Past(k, n)'
  BY <1>7 DEF Past
<1>9. \A i \in DOMAIN outbox' : Numbered(m, k) /\ Numbered(outbox'[i].msg, k) => m[2] <= outbox'[i].msg[2]
  <2> TAKE i \in DOMAIN outbox'
  <2>1. 1 < i + 1
    BY <1>5
  <2> QED BY <1>3, <1>5, <2>1 DEF InTurn, m
<1>10. InTurn(k)'
  <2>1. \A i, j \in DOMAIN outbox' : i < j /\ Numbered(outbox'[i].msg, k) /\ Numbered(outbox'[j].msg, k)
            => outbox'[i].msg[2] <= outbox'[j].msg[2]
    <3> TAKE i, j \in DOMAIN outbox'
    <3>1. i < j => i + 1 < j + 1
      BY <1>5
    <3> QED BY <1>5, <3>1 DEF InTurn
  <2>2. \A x \in got', i \in DOMAIN outbox' : Numbered(x, k) /\ Numbered(outbox'[i].msg, k) => x[2] <= outbox'[i].msg[2]
    <3> TAKE x \in got', i \in DOMAIN outbox'
    <3>1. CASE x = m
      BY <1>9, <3>1
    <3>2. CASE x \in got
      BY <1>5, <3>2 DEF InTurn
    <3> QED BY <1>4, <3>1, <3>2
  <2> QED BY <2>1, <2>2 DEF InTurn, Numbered
<1>11. ASSUME NEW new \in got' \ got, NEW old \in got, old[1] = k, Numbered(new, k) PROVE old[2] < new[2]
  <2>1. new = m /\ new \in Message /\ old \in Message
    BY <1>4, <1>6
  <2>2. new[2] \in Nat \ {0} /\ old[2] \in Nat /\ new[1] = k
    BY <1>11, <2>1, MessageParts DEF Numbered
  <2>3. old[2] # new[2]
    BY <1>11, <2>1, <2>2, MessageParts
  <2>4. old[2] # 0 => old[2] <= new[2]
    BY <1>3, <1>11, <2>1 DEF InTurn, Numbered, m
  <2> QED BY <2>2, <2>3, <2>4
<1> QED BY <1>8, <1>10, <1>11

\* The network keeps the messages of a kind in their order if none that is being
\* handed over is behind one that was.
LEMMA NetworkInTurn ==
  ASSUME TypeInv, Network \/ Drop, NEW k, InTurn(k),
         \A t \in Publishers : call[t].at = "take" /\ Numbered(call[t].msg, k) => Past(k, call[t].msg[2])
  PROVE  /\ InTurn(k)'
         /\ \A new \in got' \ got, old \in got : old[1] = k /\ Numbered(new, k) => old[2] < new[2]
         /\ \A n \in Nat : /\ Past(k, n)
                           /\ \A t \in Publishers : call[t].at = "take" /\ call[t].msg[1] = k => call[t].msg[2] <= n
                           => Past(k, n)'
<1>1. CASE \E t \in Publishers : Publish(t)
  <2>1. PICK t \in Publishers : Publish(t)
    BY <1>1
  <2>2. call[t].at = "take"
    BY <2>1 DEF Publish
  <2>3. /\ InTurn(k)' /\ got' = got
        /\ \A n \in Nat : Past(k, n) /\ (call[t].msg[1] = k => call[t].msg[2] <= n) => Past(k, n)'
    BY <2>1, <2>2, HandsOver
  <2> QED BY <2>2, <2>3
<1>2. CASE Acknowledge \/ Expire
  BY <1>2, TakesOver
<1>3. CASE UNCHANGED <<got, outbox>>
  BY <1>3, HandedStays
<1>4. (\E t \in Publishers : Publish(t)) \/ Acknowledge \/ Expire \/ UNCHANGED <<got, outbox>>
  BY DEF Network, Drop, WakeUp, TimeOut, Leave, SetPublished, GoOnline, GoOffline
<1> QED BY <1>1, <1>2, <1>3, <1>4

\* What the log holds after a reading is added, or the oldest one is taken away.
LEMMA RingNext ==
  ASSUME NEW s \in Indices, NEW j \in Indices
  PROVE  /\ Distance(s, s) = 0 /\ Distance(s, j) < MaxItems
         /\ j # s => Distance(Following(s), j) = Distance(s, j) - 1
         /\ Following(j) # s => Distance(s, Following(j)) = Distance(s, j) + 1
         /\ Following(j) = s => Distance(s, j) = MaxItems - 1
<1> DEFINE t == Following(s)
           g == Following(j)
<1>1. MaxItems \in Nat /\ MaxItems > 1
  BY OfflineFilesAssumption
<1>2. t \in Indices /\ t = IF s = MaxItems - 1 THEN 0 ELSE s + 1
  BY FollowingIs
<1>3. g \in Indices /\ g = IF j = MaxItems - 1 THEN 0 ELSE j + 1
  BY FollowingIs
<1> HIDE DEF t, g
<1>4. /\ Distance(s, j) = IF j >= s THEN j - s ELSE j + MaxItems - s
      /\ Distance(s, s) = IF s >= s THEN s - s ELSE s + MaxItems - s
      /\ Distance(t, j) = IF j >= t THEN j - t ELSE j + MaxItems - t
      /\ Distance(s, g) = IF g >= s THEN g - s ELSE g + MaxItems - s
  BY <1>2, <1>3, DistanceIs
<1>5. Distance(s, s) = 0 /\ Distance(s, j) < MaxItems
  BY <1>1, <1>4 DEF Indices
<1>6. j # s => Distance(t, j) = Distance(s, j) - 1
  BY <1>1, <1>2, <1>4 DEF Indices
<1>7. g # s => Distance(s, g) = Distance(s, j) + 1
  BY <1>1, <1>3, <1>4 DEF Indices
<1>8. g = s => Distance(s, j) = MaxItems - 1
  BY <1>1, <1>3, <1>4 DEF Indices
<1> QED BY <1>5, <1>6, <1>7, <1>8 DEF t, g

LEMMA RingOnce ==
  ASSUME NEW s \in Indices, NEW i \in Indices, NEW j \in Indices, Distance(s, i) = Distance(s, j)
  PROVE  i = j
<1>1. MaxItems \in Nat /\ MaxItems > 1
  BY OfflineFilesAssumption
<1>2. /\ Distance(s, i) = IF i >= s THEN i - s ELSE i + MaxItems - s
      /\ Distance(s, j) = IF j >= s THEN j - s ELSE j + MaxItems - s
  BY DistanceIs
<1>3. {s, i, j} \subseteq 0 .. MaxItems - 1
  BY DEF Indices
<1>4. (IF i >= s THEN i - s ELSE i + MaxItems - s) = (IF j >= s THEN j - s ELSE j + MaxItems - s)
  BY <1>2
<1> QED BY <1>1, <1>3, <1>4

LEMMA OrderGrows ==
  ASSUME log \in LogType, NEW r \in Nat, log.lines[log.end] = r, MoveEnd
  PROVE  /\ \A j \in OnLog' : IF j = log.end THEN log'.lines[j] = r
                              ELSE j \in OnLog /\ log'.lines[j] = log.lines[j]
         /\ \A i, j \in OnLog' : Distance(log'.start, i) < Distance(log'.start, j)
                => i # log.end /\ (j # log.end => Distance(log.start, i) < Distance(log.start, j))
<1> DEFINE s == log.start
           e == log.end
           a == log.lines
           f == Following(e)
           t == log'.start
<1>1. s \in Indices /\ e \in Indices /\ a \in [Indices -> Nat] /\ f \in Indices /\ Following(s) \in Indices
  BY LogRecords, FollowingIs
<1>2. log'.lines = a /\ log'.end = f /\ t = IF f = s THEN Following(s) ELSE s
  BY EndMoves
<1>3. OnLog = {j \in Indices : Distance(s, j) < Distance(s, e)}
  BY DEF OnLog
<1>4. OnLog' = {j \in Indices : Distance(t, j) < Distance(t, f)}
  BY <1>2 DEF OnLog
<1>5. \A j \in Indices : log'.lines[j] = IF j = e THEN r ELSE a[j]
  BY <1>1, <1>2
<1>6. MaxItems \in Nat
  BY OfflineFilesAssumption
<1> HIDE DEF s, e, a, f, t
<1>7. /\ \A j \in OnLog' : j # e => j \in OnLog
      /\ \A i, j \in OnLog' : Distance(t, i) < Distance(t, j)
             => i # e /\ (j # e => Distance(s, i) < Distance(s, j))
  <2>1. CASE f # s
    <3>1. t = s
      BY <1>2, <2>1
    <3>2. Distance(s, f) = Distance(s, e) + 1
      BY <1>1, <2>1, RingNext DEF f
    <3>3. \A j \in Indices : Distance(s, j) \in Nat
      BY <1>1, DistanceIs
    <3>4. \A j \in OnLog' : j \in Indices /\ Distance(s, j) <= Distance(s, e)
      BY <1>1, <1>4, <3>1, <3>2, <3>3
    <3>5. ASSUME NEW j \in OnLog', j # e PROVE j \in OnLog
      <4>1. Distance(s, j) # Distance(s, e)
        BY <1>1, <3>4, <3>5, RingOnce
      <4> QED BY <1>1, <1>3, <3>3, <3>4, <4>1
    <3>6. ASSUME NEW i \in OnLog', NEW j \in OnLog', Distance(s, i) < Distance(s, j) PROVE i # e
      BY <1>1, <3>3, <3>4, <3>6
    <3> QED BY <3>1, <3>5, <3>6
  <2>2. CASE f = s
    <3>1. t = Following(s) /\ s # e
      <4>1. Distance(s, e) = MaxItems - 1
        BY <1>1, <2>2, RingNext DEF f
      <4>2. Distance(s, s) = 0 /\ MaxItems > 1
        BY <1>1, RingNext, OfflineFilesAssumption
      <4> QED BY <1>2, <1>6, <2>2, <4>1, <4>2
    <3>2. t \in Indices
      BY <1>1, <3>1
    <3>3. Distance(s, e) = MaxItems - 1
      BY <1>1, <2>2, RingNext DEF f
    <3>4. \A j \in Indices : Distance(s, j) \in Nat /\ Distance(s, j) < MaxItems /\ Distance(t, j) \in Nat
      BY <1>1, <3>2, DistanceIs, RingNext
    <3>5. \A j \in Indices : j # s => Distance(t, j) = Distance(s, j) - 1
      BY <1>1, <3>1, RingNext
    <3>6. \A j \in OnLog' : j \in Indices /\ j # s
      BY <1>4, <2>2, <3>4
    <3>7. ASSUME NEW j \in OnLog', j # e PROVE j \in OnLog
      <4>1. Distance(s, j) # Distance(s, e)
        BY <1>1, <3>6, <3>7, RingOnce
      <4>2. j \in Indices /\ Distance(s, j) \in Nat /\ Distance(s, j) < MaxItems
        BY <3>4, <3>6
      <4>3. Distance(s, j) < Distance(s, e)
        BY <1>6, <3>3, <4>1, <4>2
      <4> QED BY <1>3, <4>2, <4>3
    <3>8. ASSUME NEW i \in OnLog', NEW j \in OnLog', Distance(t, i) < Distance(t, j)
          PROVE  i # e /\ Distance(s, i) < Distance(s, j)
      <4>1. /\ Distance(t, i) = Distance(s, i) - 1 /\ Distance(t, j) = Distance(s, j) - 1
            /\ Distance(s, i) \in Nat /\ Distance(s, j) \in Nat /\ Distance(s, j) < MaxItems
        BY <3>4, <3>5, <3>6
      <4>2. Distance(s, i) < Distance(s, j)
        BY <3>8, <4>1
      <4> QED BY <1>6, <3>3, <4>1, <4>2
    <3> QED BY <3>7, <3>8
  <2> QED BY <2>1, <2>2
<1>8. \A j \in OnLog' : j \in Indices
  BY <1>4
<1>9. \A j \in OnLog' : IF j = e THEN log'.lines[j] = r ELSE j \in OnLog /\ log'.lines[j] = a[j]
  BY <1>5, <1>7, <1>8
<1> QED BY <1>7, <1>9 DEF s, e, a, t

LEMMA OrderShrinks ==
  ASSUME log \in LogType, log.start # log.end, SetHeader(Following(log.start), log.end)
  PROVE  /\ \A j \in OnLog' : j \in OnLog /\ log'.lines[j] = log.lines[j]
         /\ \A i, j \in OnLog' : Distance(log'.start, i) < Distance(log'.start, j)
                => Distance(log.start, i) < Distance(log.start, j)
<1> DEFINE s == log.start
           e == log.end
           t == Following(s)
<1>1. s \in Indices /\ e \in Indices /\ t \in Indices
  BY LogRecords, FollowingIs
<1>2. log'.lines = log.lines /\ log'.start = t /\ log'.end = e
  BY <1>1, SetsHeader
<1>3. OnLog = {j \in Indices : Distance(s, j) < Distance(s, e)}
  BY DEF OnLog
<1>4. OnLog' = {j \in Indices : Distance(t, j) < Distance(t, e)}
  BY <1>2 DEF OnLog
<1>5. s # e
  OBVIOUS
<1> HIDE DEF s, e
<1>6. \A j \in Indices : j # s => Distance(t, j) = Distance(s, j) - 1
  BY <1>1, RingNext
<1>7. \A j \in Indices : Distance(s, j) \in Nat /\ Distance(t, j) \in Nat /\ Distance(t, j) < MaxItems
  BY <1>1, DistanceIs, RingNext
<1>8. Distance(t, s) = MaxItems - 1 /\ MaxItems \in Nat
  BY <1>1, RingNext, OfflineFilesAssumption
<1> HIDE DEF t
<1>9. \A j \in OnLog' : j \in Indices /\ j # s
  BY <1>1, <1>4, <1>7, <1>8
<1>10. \A j \in OnLog' : j \in OnLog
  <2> TAKE j \in OnLog'
  <2>1. Distance(t, j) < Distance(t, e) /\ Distance(t, j) = Distance(s, j) - 1 /\ Distance(t, e) = Distance(s, e) - 1
    BY <1>1, <1>4, <1>5, <1>6, <1>9
  <2>2. Distance(s, j) \in Nat /\ Distance(s, e) \in Nat
    BY <1>1, <1>7, <1>9
  <2> QED BY <1>3, <1>9, <2>1, <2>2
<1>11. \A i, j \in OnLog' : Distance(t, i) < Distance(t, j) => Distance(s, i) < Distance(s, j)
  BY <1>6, <1>7, <1>9
<1> QED BY <1>2, <1>10, <1>11 DEF s, e

LEMMA EmptyLog ==
  ASSUME log \in LogType, log.start = log.end
  PROVE  OnLog = {}
<1>1. log.start \in Indices
  BY LogRecords
<1>2. \A j \in Indices : ~(Distance(log.start, j) < Distance(log.start, log.start))
  BY <1>1, DistanceIs, RingNext
<1> QED BY <1>2 DEF OnLog

LEMMA LineTypes ==
  ASSUME TypeInv
  PROVE  /\ log \in LogType /\ ocmf \in OcmfType /\ ocmf.reading \in Nat /\ readings \in Nat /\ Newest \in Nat
         /\ \A j \in OnLog : j \in Indices /\ log.lines[j] \in Nat
         /\ log.start \in Indices /\ log.end \in Indices /\ PublishType
<1>1. log \in LogType /\ ocmf \in OcmfType /\ readings \in Nat /\ PublishType
  BY DEF TypeInv, RamType, LogType, PublishInv
<1>2. ocmf.reading \in Nat
  BY <1>1, OcmfRecords
<1>3. log.start \in Indices /\ log.end \in Indices /\ log.lines \in [Indices -> Nat]
  BY <1>1, LogRecords
<1>4. \A j \in OnLog : j \in Indices
  BY DEF OnLog
<1> QED BY <1>1, <1>2, <1>3, <1>4 DEF Newest

\* What leaves the log and its task where they are.
LEMMA LineStays ==
  ASSUME LineInv, UNCHANGED <<log, ocmf, logLock, readings>>,
         call'["ocmf"].msg = call["ocmf"].msg,
         pc' = "sent" => call'["session"].msg[1] = "session",
         InTurn("reading")', Past("reading", Newest)', \A j \in OnLog : Past("reading", log.lines[j])'
  PROVE  LineInv'
<1>1. OnLog' = OnLog /\ Newest' = Newest
  BY DEF OnLog, Newest
<1> QED BY <1>1 DEF LineInv

\* What the session task hands over is a session.
LEMMA SessionCalls ==
  ASSUME TypeInv, LineInv, SessionTask
  PROVE  /\ UNCHANGED <<mutex, blocked, bits, outbox, handling, online, got, log, ocmf, logLock, readings>>
         /\ call'["ocmf"].msg = call["ocmf"].msg
         /\ pc' = "sent" => call'["session"].msg[1] = "session"
<1>1. UNCHANGED <<mutex, blocked, bits, outbox, handling, online, got, log, ocmf, logLock, readings>>
  BY DEF SessionTask, Top, Send, Sent, Look, Start, Begin, End, Seal, LetGo, Clear, SaveSession, UpdateSession,
         fileVars, publish, env
<1>2. UNCHANGED call \/ \E c : call' = [call EXCEPT !["session"] = c]
  BY DEF SessionTask, Top, Send, Sent, Look, Start, Begin, End, Seal, LetGo, Clear, publish, Call, Done
<1>3. call'["ocmf"].msg = call["ocmf"].msg
  BY <1>2, TasksPublish, OneCallAtATime
<1>4. ASSUME pc' = "sent" PROVE call'["session"].msg[1] = "session"
  <2>1. after # "sent"
    BY DEF TypeInv, RamType
  <2>2. Send
    BY <1>4, <2>1 DEF SessionTask, Top, Send, Sent, Look, Start, Begin, End, Seal, LetGo, Clear
  <2> DEFINE m == SessionMessage(OldestFile)
             c == [at |-> "take", msg |-> m]
  <2>3. call' = [call EXCEPT !["session"] = c]
    BY <1>4, <2>1, <2>2 DEF Send, Call
  <2>4. c.msg = m /\ m[1] = "session"
    BY DEF SessionMessage
  <2> HIDE DEF m, c
  <2>5. call'["session"] = c
    BY <2>3, TasksPublish DEF TypeInv, PublishInv, PublishType
  <2> QED BY <2>4, <2>5
<1> QED BY <1>1, <1>3, <1>4

LEMMA LineSession ==
  ASSUME TypeInv, LineInv, SessionTask
  PROVE  LineInv'
<1>1. /\ UNCHANGED <<outbox, got, log, ocmf, logLock, readings>>
      /\ call'["ocmf"].msg = call["ocmf"].msg
      /\ pc' = "sent" => call'["session"].msg[1] = "session"
  BY SessionCalls
<1>2. InTurn("reading")' /\ \A n : Past("reading", n) => Past("reading", n)'
  BY <1>1, HandedStays DEF LineInv
<1>3. Newest' = Newest
  BY <1>1 DEF Newest
<1>4. Past("reading", Newest)' /\ \A j \in OnLog : Past("reading", log.lines[j])'
  BY <1>1, <1>2, <1>3 DEF LineInv, Past
<1> QED BY <1>1, <1>2, <1>4, LineStays

LEMMA LineOutside ==
  ASSUME TypeInv, LineInv, SetSessionId \/ DeleteLog \/ CarChange
  PROVE  LineInv'
<1>1. UNCHANGED <<call, outbox, got, ocmf, readings, pc>>
  BY DEF SetSessionId, DeleteLog, CarChange, publish, ram
<1>2. InTurn("reading")' /\ \A n : Past("reading", n) => Past("reading", n)'
  BY <1>1, HandedStays DEF LineInv
<1>3. Newest' = Newest
  BY <1>1 DEF Newest
<1>4. CASE SetSessionId \/ CarChange
  <2>1. UNCHANGED <<log, logLock>>
    BY <1>4 DEF SetSessionId, CarChange, UpdateSession, fileVars
  <2>2. Past("reading", Newest)' /\ \A j \in OnLog : Past("reading", log.lines[j])'
    BY <1>2, <1>3, <2>1 DEF LineInv, Past
  <2> QED BY <1>1, <1>2, <2>1, <2>2, LineStays DEF LineInv
<1>5. CASE DeleteLog
  <2>1. ocmf.at \notin {"line", "lineSent", "header"} /\ SetHeader(0, 0)
    BY <1>5 DEF DeleteLog
  <2>2. 0 \in Indices /\ log \in LogType
    BY LineTypes, OfflineFilesAssumption DEF Indices
  <2>3. log' \in LogType /\ log'.start = log'.end
    BY <2>1, <2>2, SetsHeader
  <2>4. OnLog' = {}
    <3>1. log'.start \in Indices
      BY <2>3, LogRecords
    <3>2. \A j \in Indices : ~(Distance(log'.start, j) < Distance(log'.start, log'.start))
      BY <3>1, DistanceIs, RingNext
    <3> QED BY <2>3, <3>2 DEF OnLog
  <2>5. Past("reading", Newest)'
    BY <1>2, <1>3 DEF LineInv, Past
  <2> QED BY <1>1, <1>2, <1>3, <2>1, <2>3, <2>4, <2>5 DEF LineInv
<1> QED BY <1>4, <1>5

LEMMA LineNetwork ==
  ASSUME TypeInv, LineInv, Network \/ Drop
  PROVE  /\ LineInv'
         /\ \A new \in got' \ got, old \in got : old[1] = "reading" /\ Numbered(new, "reading") => old[2] < new[2]
<1>1. UNCHANGED <<log, ocmf, logLock, readings, pc>>
  BY DEF Network, Drop, fileVars, ram
<1>2. \A t \in Publishers : call'[t].msg = call[t].msg
  BY MessagesStay
\* What is being handed over is the oldest line, or the reading with the log empty.
<1>3. ASSUME NEW t \in Publishers, call[t].at = "take", call[t].msg[1] = "reading"
      PROVE  /\ Past("reading", call[t].msg[2]) /\ call[t].msg[2] <= Newest
             /\ \A j \in OnLog : call[t].msg[2] <= log.lines[j]
  <2>1. t = "ocmf"
    <3>1. t = "session" => pc = "sent"
      BY <1>3 DEF TypeInv, Calling
    <3> QED BY <1>3, <3>1, TasksPublish DEF LineInv
  <2>2. ocmf.at \in {"lineSent", "ownSent"}
    BY <1>3, <2>1, TasksPublish DEF TypeInv, Calling
  <2>3. CASE ocmf.at = "lineSent"
    <3>1. call[t].msg[2] = log.lines[log.start] /\ log.start # log.end
      BY <2>1, <2>3 DEF LineInv
    <3>2. log.start \in Indices /\ log.end \in Indices
      BY LineTypes
    <3>3. Distance(log.start, log.start) = 0 /\ Distance(log.start, log.end) \in Nat
      BY <3>2, RingNext, DistanceIs
    <3>4. Distance(log.start, log.end) # 0
      BY <3>1, <3>2, <3>3, RingOnce
    <3>5. log.start \in OnLog
      BY <3>2, <3>3, <3>4 DEF OnLog
    <3>6. \A j \in OnLog : log.lines[log.start] <= log.lines[j]
      <4> TAKE j \in OnLog
      <4>1. j \in Indices /\ log.lines[j] \in Nat
        BY LineTypes
      <4>2. CASE j = log.start
        BY <4>1, <4>2
      <4>3. CASE j # log.start
        <5>1. Distance(log.start, j) # 0 /\ Distance(log.start, j) \in Nat
          BY <3>2, <3>3, <4>1, <4>3, RingOnce, DistanceIs
        <5>2. Distance(log.start, log.start) < Distance(log.start, j)
          BY <3>3, <5>1
        <5> QED BY <3>5, <5>2 DEF LineInv
      <4> QED BY <4>2, <4>3
    <3> QED BY <3>1, <3>5, <3>6 DEF LineInv
  <2>4. CASE ocmf.at = "ownSent"
    <3>1. call[t].msg[2] = Newest /\ log.start = log.end /\ Newest \in Nat
      BY <2>1, <2>4, LineTypes DEF LineInv, Newest
    <3>2. OnLog = {}
      BY <3>1, LineTypes, EmptyLog
    <3> QED BY <3>1, <3>2 DEF LineInv
  <2> QED BY <2>2, <2>3, <2>4
<1>4. /\ InTurn("reading")'
      /\ \A new \in got' \ got, old \in got : old[1] = "reading" /\ Numbered(new, "reading") => old[2] < new[2]
      /\ \A n \in Nat : /\ Past("reading", n)
                        /\ \A t \in Publishers : call[t].at = "take" /\ call[t].msg[1] = "reading" => call[t].msg[2] <= n
                        => Past("reading", n)'
  <2>1. InTurn("reading")
    BY DEF LineInv
  <2>2. \A t \in Publishers : call[t].at = "take" /\ Numbered(call[t].msg, "reading") => Past("reading", call[t].msg[2])
    BY <1>3 DEF Numbered
  <2> QED BY <2>1, <2>2, NetworkInTurn
<1>5. Past("reading", Newest)'
  <2>1. Newest' = Newest /\ Newest \in Nat /\ Past("reading", Newest)
    BY <1>1, LineTypes DEF Newest, LineInv
  <2>2. \A n \in Nat : n = Newest => Past("reading", n)'
    BY <1>3, <1>4, <2>1
  <2> QED BY <2>1, <2>2 DEF Past
<1>6. \A j \in OnLog : Past("reading", log.lines[j])'
  <2> TAKE j \in OnLog
  <2>1. log.lines[j] \in Nat /\ log' = log
    BY <1>1, LineTypes
  <2>2. Past("reading", log.lines[j])
    BY DEF LineInv
  <2>3. \A n \in Nat : n = log.lines[j] => Past("reading", n)'
    BY <1>3, <1>4, <2>2
  <2> QED BY <2>1, <2>3 DEF Past
<1>7. LineInv'
  BY <1>1, <1>2, <1>4, <1>5, <1>6, TasksPublish, LineStays DEF LineInv
<1> QED BY <1>4, <1>7

\* The steps of the task of the readings that publish nothing and leave the log.
LEMMA LineLooks ==
  ASSUME TypeInv, LineInv, Hour \/ Skip \/ OpenLog \/ Value \/ Save
  PROVE  LineInv'
<1>0. log \in LogType /\ ocmf \in OcmfType /\ readings \in Nat /\ ocmf.reading \in Nat /\ PublishType
  BY LineTypes
<1>1. UNCHANGED <<log, logLock, outbox, got, call, pc>>
  BY DEF Hour, Skip, OpenLog, Value, Save, UpdateSession, fileVars, Others, publish, ram
<1>2. InTurn("reading")' /\ (\A n : Past("reading", n) => Past("reading", n)') /\ OnLog' = OnLog
  BY <1>1, HandedStays DEF LineInv, OnLog
<1>3. /\ ocmf'.at \in {"open", "line", "own", "append", "save", "idle"}
      /\ ocmf'.at = "line" => ocmf'.start = log.start /\ ocmf'.end = log.end
      /\ ocmf'.at = "own" => log.start = log.end
      /\ Newest <= Newest' /\ Newest' <= readings' /\ Newest' \in Nat
  <2>1. CASE Hour
    <3> DEFINE a == IF online THEN "open" ELSE "append"
               c == mode # "disconnected"
               r == IF Measures THEN readings' ELSE 0
    <3>1. ocmf' = [Idle EXCEPT !.at = a, !.reading = r, !.car = c] /\ readings' \in {readings, readings + 1} /\ ocmf.at = "idle"
      BY <2>1 DEF Hour
    <3>2. a \in {"open", "append"} /\ c \in BOOLEAN /\ r \in Nat /\ r \in {0, readings'} /\ readings' \in Nat
      BY <1>0, <3>1
    <3> HIDE DEF a, c, r
    <3>3. a \in OcmfPlaces
      BY <3>2 DEF OcmfPlaces
    <3>4. ocmf' = [at |-> a, reading |-> r, start |-> 0, end |-> 0, car |-> c, seen |-> NoSession]
      BY <3>1, <3>2, <3>3, OcmfBegins, Zenon
    <3>5. ocmf'.at = a /\ ocmf'.reading = r
      BY <3>4
    <3>6. Newest = readings /\ Newest' = readings'
      BY <3>1, <3>2, <3>5 DEF Newest
    <3> QED BY <1>0, <3>1, <3>2, <3>5, <3>6
  <2>2. CASE OpenLog
    <3>1. ocmf.at = "open" /\ UNCHANGED readings
      BY <2>2 DEF OpenLog
    <3>2. {"line", "own"} \subseteq OcmfPlaces /\ log.start \in Indices /\ log.end \in Indices
      BY LineTypes DEF OcmfPlaces
    <3>3. CASE logLock
      <4>1. ocmf' = [ocmf EXCEPT !.at = "line", !.start = log.start, !.end = log.end]
        BY <2>2, <3>3 DEF OpenLog
      <4>2. ocmf' = [at |-> "line", reading |-> ocmf.reading, start |-> log.start, end |-> log.end,
                     car |-> ocmf.car, seen |-> ocmf.seen]
        BY <1>0, <3>2, <4>1, OcmfReads, Zenon
      <4>3. ocmf'.at = "line" /\ ocmf'.start = log.start /\ ocmf'.end = log.end /\ ocmf'.reading = ocmf.reading
        BY <4>2
      <4>4. Newest' = Newest
        BY <3>1, <4>3 DEF Newest
      <4> QED BY <1>0, <3>1, <4>3, <4>4, LineTypes DEF LineInv
    <3>4. CASE ~logLock
      <4>1. ocmf' = [ocmf EXCEPT !.at = "own"]
        BY <2>2, <3>4 DEF OpenLog
      <4>2. ocmf' = [at |-> "own", reading |-> ocmf.reading, start |-> ocmf.start, end |-> ocmf.end,
                     car |-> ocmf.car, seen |-> ocmf.seen]
        BY <1>0, <3>2, <4>1, OcmfGoes, Zenon
      <4>3. ocmf'.at = "own" /\ ocmf'.reading = ocmf.reading
        BY <4>2
      <4>4. Newest' = Newest
        BY <3>1, <4>3 DEF Newest
      <4> QED BY <1>0, <3>1, <3>4, <4>3, <4>4, LineTypes DEF LineInv
    <3> QED BY <3>3, <3>4
  <2>3. CASE Value \/ Save
    <3>1. ocmf.at \in {"value", "save"} /\ UNCHANGED readings
      BY <2>3 DEF Value, Save
    <3>2. ocmf'.at \in {"save", "idle"}
      <4>1. ocmf' = [ocmf EXCEPT !.at = "save", !.seen = session] \/ ocmf' = Idle
        BY <2>3 DEF Value, Save
      <4>2. ASSUME ocmf' = [ocmf EXCEPT !.at = "save", !.seen = session] PROVE ocmf'.at = "save"
        <5>1. session \in SessionType
          BY DEF TypeInv, RamType
        <5>2. ocmf' = [at |-> "save", reading |-> ocmf.reading, start |-> ocmf.start, end |-> ocmf.end,
                       car |-> ocmf.car, seen |-> session]
          BY <1>0, <4>2, <5>1, OcmfSees, Zenon
        <5> QED BY <5>2
      <4>3. Idle.at = "idle"
        BY DEF Idle
      <4> QED BY <4>1, <4>2, <4>3
    <3>3. Newest = readings /\ Newest' = readings
      BY <3>1, <3>2 DEF Newest
    <3> QED BY <1>0, <3>1, <3>2, <3>3
  <2>4. CASE Skip
    <3>1. ocmf.at \in {"own", "append"} /\ ocmf.reading = 0 /\ ocmf' = Idle /\ UNCHANGED readings
      BY <2>4 DEF Skip
    <3>2. Idle.at = "idle"
      BY DEF Idle
    <3>3. Newest = readings /\ Newest' = readings
      BY <3>1, <3>2 DEF Newest
    <3> QED BY <1>0, <3>1, <3>2, <3>3
  <2> QED BY <2>1, <2>2, <2>3, <2>4
<1>4. Past("reading", Newest')
  BY <1>0, <1>3, LineTypes, PastGrows DEF LineInv
<1>5. Past("reading", Newest)'
  BY <1>2, <1>4 DEF Past
<1>6. \A j \in OnLog : Past("reading", log.lines[j])' /\ log.lines[j] <= Newest'
  <2> TAKE j \in OnLog
  <2>1. Past("reading", log.lines[j]) /\ log.lines[j] <= Newest /\ log.lines[j] \in Nat /\ Newest \in Nat
    BY LineTypes DEF LineInv
  <2>2. Past("reading", log.lines[j])'
    BY <1>1, <1>2, <2>1 DEF Past
  <2> QED BY <1>3, <2>1, <2>2
<1> QED BY <1>1, <1>2, <1>3, <1>5, <1>6 DEF LineInv

\* What is left of the order when the task goes on and adds nothing to the log.
LEMMA LineGoesOn ==
  ASSUME TypeInv, LineInv, UNCHANGED <<outbox, got, readings, logLock, pc>>, call'["session"].msg = call["session"].msg,
         OnLog' \subseteq OnLog, \A j \in OnLog' : log'.lines[j] = log.lines[j],
         \A i, j \in OnLog' : Distance(log'.start, i) < Distance(log'.start, j) => Distance(log.start, i) < Distance(log.start, j),
         Newest' = Newest \/ (OnLog' = {} /\ Newest' = readings),
         ocmf'.at \in {"line", "lineSent"} => ocmf'.start = log'.start /\ ocmf'.end = log'.end,
         ocmf'.at = "lineSent" => call'["ocmf"].msg = <<"reading", log'.lines[log'.start]>> /\ log'.start # log'.end,
         ocmf'.at = "ownSent" => call'["ocmf"].msg = <<"reading", ocmf'.reading>> /\ ocmf'.reading # 0,
         ocmf'.at = "header" => UNCHANGED <<ocmf, log>>,
         ocmf'.at \in {"own", "ownSent"} \/ ~logLock => log'.start = log'.end
  PROVE  LineInv'
<1>1. InTurn("reading")' /\ \A n : Past("reading", n) => Past("reading", n)'
  BY HandedStays DEF LineInv
<1>2. Past("reading", Newest') /\ Newest' <= readings
  BY LineTypes, PastGrows DEF LineInv
<1>3. Past("reading", Newest)'
  BY <1>1, <1>2 DEF Past
<1>4. \A j \in OnLog' : Past("reading", log'.lines[j]) /\ log'.lines[j] <= Newest'
  BY DEF LineInv
<1>5. \A j \in OnLog' : Past("reading", log.lines[j])'
  BY <1>1, <1>4 DEF Past
<1>6. \A i, j \in OnLog' : Distance(log'.start, i) < Distance(log'.start, j) => log'.lines[i] <= log'.lines[j]
  BY DEF LineInv
<1> QED BY <1>1, <1>2, <1>3, <1>4, <1>5, <1>6 DEF LineInv

LEMMA LineLine ==
  ASSUME TypeInv, LineInv, Line
  PROVE  LineInv'
<1>0. /\ log \in LogType /\ ocmf \in OcmfType /\ {"own", "lineSent"} \subseteq OcmfPlaces
      /\ UNCHANGED <<outbox, got, readings, logLock, pc>>
      /\ ocmf.at = "line" /\ ocmf.start = log.start /\ ocmf.end = log.end
  BY LineTypes DEF OcmfPlaces, Line, Rest, Others, ram, LineInv
<1>1. CASE ocmf.start = ocmf.end
  <2>1. /\ ocmf' = [ocmf EXCEPT !.at = "own"] /\ UNCHANGED call
        /\ IF ocmf.start # 0 THEN SetHeader(0, 0) ELSE UNCHANGED log
    BY <1>1 DEF Line
  <2>2. ocmf' = [at |-> "own", reading |-> ocmf.reading, start |-> ocmf.start, end |-> ocmf.end,
                 car |-> ocmf.car, seen |-> ocmf.seen]
    BY <1>0, <2>1, OcmfGoes
  <2>3. ocmf'.at = "own" /\ ocmf'.reading = ocmf.reading
    BY <2>2
  <2>4. log' \in LogType /\ log'.start = log'.end
    <3>1. 0 \in Indices
      BY OfflineFilesAssumption DEF Indices
    <3> QED BY <1>0, <1>1, <2>1, <3>1, SetsHeader
  <2>5. OnLog' = {}
    <3>1. log'.start \in Indices
      BY <2>4, LogRecords
    <3>2. \A j \in Indices : ~(Distance(log'.start, j) < Distance(log'.start, log'.start))
      BY <3>1, DistanceIs, RingNext
    <3> QED BY <2>4, <3>2 DEF OnLog
  <2>6. Newest' = Newest
    BY <1>0, <2>3 DEF Newest
  <2> QED BY <1>0, <2>1, <2>3, <2>4, <2>5, <2>6, LineGoesOn
<1>2. CASE ocmf.start # ocmf.end
  <2> DEFINE m == <<"reading", log.lines[ocmf.start]>>
             c == [at |-> "take", msg |-> m]
  <2>1. ocmf' = [ocmf EXCEPT !.at = "lineSent"] /\ call' = [call EXCEPT !["ocmf"] = c] /\ UNCHANGED log
    BY <1>2 DEF Line, Call
  <2>2. ocmf' = [at |-> "lineSent", reading |-> ocmf.reading, start |-> ocmf.start, end |-> ocmf.end,
                 car |-> ocmf.car, seen |-> ocmf.seen]
    BY <1>0, <2>1, OcmfGoes
  <2>3. ocmf'.at = "lineSent" /\ ocmf'.start = ocmf.start /\ ocmf'.end = ocmf.end /\ ocmf'.reading = ocmf.reading
    BY <2>2
  <2>4. c.msg = m
    OBVIOUS
  <2> HIDE DEF c
  <2>5. call'["ocmf"] = c
    BY <2>1, TasksPublish DEF TypeInv, PublishInv, PublishType
  <2>6. call'["session"] = call["session"]
    BY <2>1, TasksPublish, OneCallAtATime
  <2>7. Newest' = Newest /\ OnLog' = OnLog
    BY <1>0, <2>1, <2>3 DEF Newest, OnLog
  <2>8. ~logLock => log.start = log.end
    BY DEF LineInv
  <2> QED BY <1>0, <1>2, <2>1, <2>3, <2>4, <2>5, <2>6, <2>7, <2>8, LineGoesOn
<1> QED BY <1>1, <1>2

LEMMA LineLineSent ==
  ASSUME TypeInv, LineInv, LineSent
  PROVE  LineInv'
<1>0. /\ log \in LogType /\ ocmf \in OcmfType /\ {"line", "append"} \subseteq OcmfPlaces
      /\ UNCHANGED <<outbox, got, readings, logLock, pc>>
      /\ ocmf.at = "lineSent" /\ ocmf.start = log.start /\ ocmf.end = log.end /\ log.start # log.end
  BY LineTypes DEF OcmfPlaces, LineSent, Rest, Others, ram, LineInv
<1>1. call'["session"].msg = call["session"].msg
  <2>1. call' = [call EXCEPT !["ocmf"] = NoCall]
    BY DEF LineSent, Done
  <2> QED BY <2>1, TasksPublish, OneCallAtATime
<1>2. logLock
  BY <1>0 DEF LineInv
<1>3. CASE SetHeader(Following(ocmf.start), ocmf.end) /\ ocmf' = [ocmf EXCEPT !.at = "line", !.start = Following(@)]
  <2> DEFINE f == Following(ocmf.start)
  <2>1. ocmf.start \in Indices /\ ocmf.end \in Indices /\ f \in Indices
    BY <1>0, OcmfRecords, FollowingIs
  <2>2. ocmf' = [ocmf EXCEPT !.at = "line", !.start = f, !.end = ocmf.end]
    <3> DEFINE K == SessionType
    <3>1. ocmf \in [at : OcmfPlaces, reading : Nat, start : Indices, end : Indices, car : BOOLEAN, seen : K]
      BY <1>0 DEF OcmfType
    <3>2. ocmf' = [ocmf EXCEPT !.at = "line", !.start = Following(@)]
      BY <1>3
    <3> HIDE DEF K
    <3> QED BY <3>1, <3>2
  <2>3. ocmf' = [at |-> "line", reading |-> ocmf.reading, start |-> f, end |-> ocmf.end, car |-> ocmf.car, seen |-> ocmf.seen]
    <3> HIDE DEF f
    <3>1. "line" \in OcmfPlaces /\ ocmf \in OcmfType
      BY <1>0
    <3> QED BY <2>1, <2>2, <3>1, OcmfReads, Zenon
  <2>4. ocmf'.at = "line" /\ ocmf'.start = f /\ ocmf'.end = ocmf.end /\ ocmf'.reading = ocmf.reading
    BY <2>3
  <2>5. log'.start = f /\ log'.end = ocmf.end
    BY <1>0, <1>3, <2>1, SetsHeader
  <2>6. /\ \A j \in OnLog' : j \in OnLog /\ log'.lines[j] = log.lines[j]
        /\ \A i, j \in OnLog' : Distance(log'.start, i) < Distance(log'.start, j)
                => Distance(log.start, i) < Distance(log.start, j)
    BY <1>0, <1>3, OrderShrinks
  <2>7. Newest' = Newest
    BY <1>0, <2>4 DEF Newest
  <2> HIDE DEF f
  <2> QED BY <1>0, <1>1, <1>2, <2>4, <2>5, <2>6, <2>7, LineGoesOn
<1>4. CASE ocmf' = [ocmf EXCEPT !.at = "append"] /\ UNCHANGED log
  <2>1. ocmf' = [at |-> "append", reading |-> ocmf.reading, start |-> ocmf.start, end |-> ocmf.end,
                 car |-> ocmf.car, seen |-> ocmf.seen]
    BY <1>0, <1>4, OcmfGoes
  <2>2. ocmf'.at = "append" /\ ocmf'.reading = ocmf.reading
    BY <2>1
  <2>3. Newest' = Newest /\ OnLog' = OnLog
    BY <1>0, <1>4, <2>2 DEF Newest, OnLog
  <2> QED BY <1>0, <1>1, <1>2, <1>4, <2>2, <2>3, LineGoesOn
<1> QED BY <1>3, <1>4 DEF LineSent

LEMMA LineOwn ==
  ASSUME TypeInv, LineInv, Own \/ OwnSent
  PROVE  LineInv'
<1>0. /\ log \in LogType /\ ocmf \in OcmfType /\ {"ownSent", "value", "append"} \subseteq OcmfPlaces
      /\ UNCHANGED <<outbox, got, readings, logLock, pc, log>>
      /\ ocmf.at \in {"own", "ownSent"} /\ log.start = log.end
  BY LineTypes DEF OcmfPlaces, Own, OwnSent, Rest, Others, ram, fileVars, LineInv
<1>1. call'["session"].msg = call["session"].msg
  <2>1. \E c : call' = [call EXCEPT !["ocmf"] = c]
    BY DEF Own, OwnSent, Call, Done
  <2> QED BY <2>1, TasksPublish, OneCallAtATime
<1>2. OnLog = {} /\ OnLog' = {}
  <2>1. OnLog = {}
    BY <1>0, EmptyLog
  <2> QED BY <1>0, <2>1 DEF OnLog
<1>3. CASE Own
  <2> DEFINE m == <<"reading", ocmf.reading>>
             c == [at |-> "take", msg |-> m]
  <2>1. ocmf' = [ocmf EXCEPT !.at = "ownSent"] /\ call' = [call EXCEPT !["ocmf"] = c] /\ ocmf.reading # 0
    BY <1>3 DEF Own, Call
  <2>2. ocmf' = [at |-> "ownSent", reading |-> ocmf.reading, start |-> ocmf.start, end |-> ocmf.end,
                 car |-> ocmf.car, seen |-> ocmf.seen]
    BY <1>0, <2>1, OcmfGoes
  <2>3. ocmf'.at = "ownSent" /\ ocmf'.reading = ocmf.reading /\ ocmf'.reading # 0
    BY <2>1, <2>2
  <2>4. c.msg = m
    OBVIOUS
  <2> HIDE DEF c
  <2>5. call'["ocmf"] = c
    BY <2>1, TasksPublish DEF TypeInv, PublishInv, PublishType
  <2>6. Newest' = Newest
    BY <1>0, <2>3 DEF Newest
  <2> QED BY <1>0, <1>1, <1>2, <2>3, <2>4, <2>5, <2>6, LineGoesOn
<1>4. CASE OwnSent
  <2>1. ocmf' = [ocmf EXCEPT !.at = "value"] \/ ocmf' = [ocmf EXCEPT !.at = "append"]
    BY <1>4 DEF OwnSent
  <2>2. \E a \in {"value", "append"} : ocmf' =
           [at |-> a, reading |-> ocmf.reading, start |-> ocmf.start, end |-> ocmf.end, car |-> ocmf.car, seen |-> ocmf.seen]
    BY <1>0, <2>1, OcmfGoes
  <2>3. ocmf'.at \in {"value", "append"} /\ ocmf'.reading = ocmf.reading
    BY <2>2
  <2>4. Newest' = Newest \/ Newest' = readings
    BY <1>0, <2>3 DEF Newest
  <2> QED BY <1>0, <1>1, <1>2, <2>3, <2>4, LineGoesOn
<1> QED BY <1>3, <1>4

\* The line of a reading is written.
LEMMA LineLogged ==
  ASSUME TypeInv, LineInv, LogLine
  PROVE  LineInv'
<1>0. /\ log \in LogType /\ ocmf \in OcmfType /\ ocmf.reading \in Nat /\ readings \in Nat
      /\ {"value", "header"} \subseteq OcmfPlaces
  BY LineTypes DEF OcmfPlaces
<1>1. ocmf.at = "append" /\ ocmf.reading # 0 /\ UNCHANGED <<call, outbox, got, readings, logLock, pc>>
  BY DEF LogLine, publish, Others, ram
<1>2. CASE ~logLock
  <2>1. UNCHANGED log /\ log.start = log.end /\ ocmf' = [ocmf EXCEPT !.at = "value"]
    BY <1>2 DEF LogLine, LineInv
  <2>2. ocmf'.at = "value"
    BY <1>0, <2>1, OcmfGoes
  <2>3. OnLog = {} /\ OnLog' = {}
    <3>1. OnLog = {}
      BY <1>0, <2>1, EmptyLog
    <3> QED BY <2>1, <3>1 DEF OnLog
  <2>4. Newest' = readings
    BY <1>1, <2>2 DEF Newest
  <2> QED BY <1>1, <2>1, <2>2, <2>3, <2>4, LineGoesOn
<1>3. CASE logLock
  <2>1. WriteLine(ocmf.reading) /\ ocmf' = [ocmf EXCEPT !.at = "header"]
    BY <1>3 DEF LogLine
  <2>2. ocmf' = [at |-> "header", reading |-> ocmf.reading, start |-> ocmf.start, end |-> ocmf.end,
                 car |-> ocmf.car, seen |-> ocmf.seen]
    BY <1>0, <2>1, OcmfGoes
  <2>3. ocmf'.at = "header" /\ ocmf'.reading = ocmf.reading
    BY <2>2
  <2>4. /\ log'.start = log.start /\ log'.end = log.end /\ log'.lines[log.end] = ocmf.reading
        /\ \A j \in Indices : Distance(log.start, j) < Distance(log.start, log.end) => log'.lines[j] = log.lines[j]
    BY <1>0, <2>1, LineWritten, LineIsNew
  <2>5. OnLog' = OnLog /\ \A j \in OnLog : log'.lines[j] = log.lines[j]
    BY <2>4 DEF OnLog
  <2>6. Newest' = Newest
    BY <1>1, <2>3 DEF Newest
  <2>7. InTurn("reading")' /\ \A n : Past("reading", n) => Past("reading", n)'
    BY <1>1, HandedStays DEF LineInv
  <2>8. Past("reading", Newest') /\ \A j \in OnLog' : Past("reading", log'.lines[j]) /\ log'.lines[j] <= Newest'
    BY <2>5, <2>6 DEF LineInv
  <2>9. Past("reading", Newest)' /\ \A j \in OnLog' : Past("reading", log.lines[j])'
    BY <2>7, <2>8 DEF Past
  <2>10. \A i, j \in OnLog' : Distance(log'.start, i) < Distance(log'.start, j) => log'.lines[i] <= log'.lines[j]
    BY <2>4, <2>5 DEF LineInv
  <2>11. pc' = "sent" => call'["session"].msg[1] = "session"
    BY <1>1 DEF LineInv
  <2>12. logLock' /\ Newest' <= readings'
    BY <1>1, <1>3, <2>6 DEF LineInv
  <2> QED BY <1>1, <2>3, <2>4, <2>7, <2>8, <2>9, <2>10, <2>11, <2>12 DEF LineInv
<1> QED BY <1>2, <1>3

\* The header takes it in.
LEMMA LineLog ==
  ASSUME TypeInv, LineInv, LogHeader
  PROVE  LineInv'
<1>0. /\ log \in LogType /\ ocmf \in OcmfType /\ ocmf.reading \in Nat /\ readings \in Nat /\ "value" \in OcmfPlaces
      /\ PublishType
  BY LineTypes DEF OcmfPlaces
<1>1. /\ ocmf.at = "header" /\ ocmf' = [ocmf EXCEPT !.at = "value"] /\ UNCHANGED <<call, outbox, got, readings, logLock, pc>>
      /\ logLock /\ log.lines[log.end] = ocmf.reading /\ ocmf.reading # 0
  BY DEF LogHeader, publish, Others, ram, LineInv
<1>2. ocmf'.at = "value"
  BY <1>0, <1>1, OcmfGoes
<1>3. Newest = ocmf.reading /\ Newest' = readings
  BY <1>1, <1>2 DEF Newest
<1>4. InTurn("reading")' /\ \A n : Past("reading", n) => Past("reading", n)'
  BY <1>1, HandedStays DEF LineInv
<1>5. Past("reading", readings)'
  <2>1. Past("reading", readings)
    BY <1>0, <1>3, PastGrows DEF LineInv
  <2> QED BY <1>1, <1>4, <2>1 DEF Past
<1>7. CASE logLock
  <2> DEFINE r == ocmf.reading
  <2>1. MoveEnd /\ log.lines[log.end] = r
    BY <1>1 DEF LogHeader
  <2>2. /\ \A j \in OnLog' : IF j = log.end THEN log'.lines[j] = r ELSE j \in OnLog /\ log'.lines[j] = log.lines[j]
        /\ \A i, j \in OnLog' : Distance(log'.start, i) < Distance(log'.start, j)
                => i # log.end /\ (j # log.end => Distance(log.start, i) < Distance(log.start, j))
    BY <1>0, <2>1, OrderGrows
  <2>3. r \in Nat /\ r = Newest
    BY <1>0, <1>3
  <2> HIDE DEF r
  <2>4. \A j \in OnLog : log.lines[j] \in Nat /\ log.lines[j] <= r /\ Past("reading", log.lines[j])
    BY <2>3, LineTypes DEF LineInv
  <2>5. Past("reading", r) /\ r <= readings
    BY <2>3 DEF LineInv
  <2>6. \A j \in OnLog' : Past("reading", log'.lines[j]) /\ log'.lines[j] <= readings
    <3> TAKE j \in OnLog'
    <3>1. CASE j = log.end
      BY <2>2, <2>5, <3>1
    <3>2. CASE j # log.end
      BY <1>0, <2>2, <2>3, <2>4, <2>5, <3>2
    <3> QED BY <3>1, <3>2
  <2>7. \A j \in OnLog' : Past("reading", log.lines[j])'
    BY <1>4, <2>6 DEF Past
  <2>8. \A i, j \in OnLog' : Distance(log'.start, i) < Distance(log'.start, j) => log'.lines[i] <= log'.lines[j]
    <3> SUFFICES ASSUME NEW i \in OnLog', NEW j \in OnLog', Distance(log'.start, i) < Distance(log'.start, j)
                 PROVE  log'.lines[i] <= log'.lines[j]
      OBVIOUS
    <3>1. i \in OnLog /\ log'.lines[i] = log.lines[i]
      BY <2>2
    <3>2. CASE j = log.end
      BY <2>2, <2>4, <3>1, <3>2
    <3>3. CASE j # log.end
      <4>1. j \in OnLog /\ log'.lines[j] = log.lines[j] /\ Distance(log.start, i) < Distance(log.start, j)
        BY <2>2, <3>3
      <4> QED BY <3>1, <4>1 DEF LineInv
    <3> QED BY <3>2, <3>3
  <2>9. Past("reading", Newest)'
    BY <1>1, <1>3, <1>5 DEF Past
  <2>10. pc' = "sent" => call'["session"].msg[1] = "session"
    BY <1>1 DEF LineInv
  <2>11. Newest' <= readings' /\ \A j \in OnLog' : log'.lines[j] <= Newest'
    BY <1>0, <1>1, <1>3, <2>6
  <2>12. logLock'
    BY <1>1, <1>7
  <2> QED BY <1>2, <1>4, <2>7, <2>8, <2>9, <2>10, <2>11, <2>12 DEF LineInv
<1> QED BY <1>1, <1>7

LEMMA LineRestarts ==
  ASSUME TypeInv, LineInv, Restart
  PROVE  LineInv'
<1>1. outbox' = <<>> /\ UNCHANGED <<got, log, readings>> /\ ocmf' = Idle /\ logLock' /\ pc' = "top"
  BY DEF Restart, PublishRestart
<1>2. Idle.at = "idle"
  BY DEF Idle
<1>3. InTurn("reading")' /\ (\A n : Past("reading", n) => Past("reading", n)') /\ OnLog' = OnLog
  BY <1>1, HandedStays DEF LineInv, OnLog
<1>4. Newest' = readings
  BY <1>1, <1>2 DEF Newest
<1>5. Past("reading", readings) /\ \A j \in OnLog : log.lines[j] <= readings /\ Past("reading", log.lines[j])
  BY LineTypes, PastGrows DEF LineInv
<1>6. Past("reading", Newest)'
  BY <1>3, <1>4, <1>5 DEF Past
<1>7. \A j \in OnLog : Past("reading", log.lines[j])'
  BY <1>1, <1>3, <1>5 DEF Past
<1>8. readings \in Nat
  BY LineTypes
<1> QED BY <1>1, <1>2, <1>3, <1>4, <1>5, <1>6, <1>7, <1>8 DEF LineInv

LEMMA LineStep ==
  ASSUME TypeInv, LineInv, [Next]_vars
  PROVE  LineInv'
<1>1. CASE OcmfTask
  BY <1>1, LineLooks, LineLine, LineLineSent, LineOwn, LineLogged, LineLog DEF OcmfTask
<1>2. CASE SessionTask
  BY <1>2, LineSession
<1>3. CASE SetSessionId \/ DeleteLog \/ CarChange
  BY <1>3, LineOutside
<1>4. CASE Network \/ Drop
  BY <1>4, LineNetwork
<1>5. CASE Restart
  BY <1>5, LineRestarts
<1>6. CASE UNCHANGED vars
  <2>1. UNCHANGED <<log, ocmf, logLock, readings, call, outbox, got, pc>>
    BY <1>6 DEF vars, fileVars, publish, ram, env
  <2>2. OnLog' = OnLog /\ Newest' = Newest
    BY <2>1 DEF OnLog, Newest
  <2>3. ~logLock => log.start = log.end
    BY DEF LineInv
  <2> QED BY <2>1, <2>2, <2>3, LineGoesOn DEF LineInv
<1> QED BY <1>1, <1>2, <1>3, <1>4, <1>5, <1>6 DEF Next

\* What writes to the file in hand keeps its number.
LEMMA NumbersKept ==
  ASSUME FilesType, NumberInv,
         \/ UNCHANGED files
         \/ \E label \in Labels : AppendEnergy(label)
         \/ \E e \in BOOLEAN : UpdateSession(session.no, e)
  PROVE  /\ Used' = Used /\ \A f \in Used : files'[f].no = files[f].no /\ (f # activeFile => files'[f] = files[f])
         /\ \A e \in BOOLEAN : UpdateSession(session.no, e) /\ activeFile # -1 => files'[activeFile].ended = e
         /\ \A label \in Labels : AppendEnergy(label) /\ activeFile # -1 => files'[activeFile].ended = files[activeFile].ended
<1>1. activeFile # -1 => Held /\ activeFile \in Slots /\ files[activeFile].no # 0 /\ files[activeFile].no = session.no
  BY DEF NumberInv, Held, Used
<1>2. NoFile.no = 0
  BY DEF NoFile
<1>3. ASSUME NEW label \in Labels, AppendEnergy(label)
      PROVE  /\ Used' = Used /\ \A f \in Used : files'[f].no = files[f].no /\ (f # activeFile => files'[f] = files[f])
             /\ activeFile # -1 => files'[activeFile].ended = files[activeFile].ended
  <2>1. \A f \in Slots : files'[f] = IF f = activeFile /\ Held
                THEN [no |-> files[f].no, ended |-> files[f].ended, valid |-> files[f].valid,
                      values |-> NewValues(label)] ELSE files[f]
    BY <1>3, AppendsValue
  <2>2. \A f \in Slots : files'[f].no = files[f].no /\ (f # activeFile => files'[f] = files[f])
    <3> TAKE f \in Slots
    <3> DEFINE v == NewValues(label)
    <3> HIDE DEF v
    <3>1. CASE f = activeFile /\ Held
      <4>1. files'[f] = [no |-> files[f].no, ended |-> files[f].ended, valid |-> files[f].valid, values |-> v]
        BY <2>1, <3>1 DEF v
      <4> QED BY <3>1, <4>1
    <3>2. CASE ~(f = activeFile /\ Held)
      BY <2>1, <3>2
    <3> QED BY <3>1, <3>2
  <2>3. activeFile # -1 => files'[activeFile].ended = files[activeFile].ended
    <3> SUFFICES ASSUME activeFile # -1 PROVE files'[activeFile].ended = files[activeFile].ended
      OBVIOUS
    <3> DEFINE v == NewValues(label)
               a == files[activeFile]
    <3> HIDE DEF v
    <3>1. files'[activeFile] = [no |-> a.no, ended |-> a.ended, valid |-> a.valid, values |-> v]
      BY <1>1, <2>1 DEF v
    <3> QED BY <3>1
  <2>4. \A f \in Slots : files'[f] # NoFile <=> files[f] # NoFile
    <3> TAKE f \in Slots
    <3>1. CASE f # activeFile
      BY <2>2, <3>1
    <3>2. CASE f = activeFile
      <4>1. f # -1
        BY SlotNumbers
      <4> QED BY <1>1, <1>2, <2>2, <3>2, <4>1
    <3> QED BY <3>1, <3>2
  <2>5. Used' = Used /\ \A f \in Used : f \in Slots
    BY <2>4 DEF Used, NoFile
  <2> QED BY <2>2, <2>3, <2>5
<1>4. ASSUME NEW e \in BOOLEAN, UpdateSession(session.no, e)
      PROVE  /\ Used' = Used /\ \A f \in Used : files'[f].no = files[f].no /\ (f # activeFile => files'[f] = files[f])
             /\ activeFile # -1 => files'[activeFile].ended = e
  <2>1. CASE activeFile = -1
    <3>1. UNCHANGED files
      BY <1>4, <2>1, NothingHeld
    <3> QED BY <2>1, <3>1 DEF Used, NoFile
  <2>2. CASE activeFile # -1
    <3>1. session.no \in Nat
      <4>1. files[activeFile] \in FileType
        BY <1>1, <2>2 DEF FilesType
      <4> QED BY <1>1, <2>2, <4>1 DEF FileType
    <3>2. \A f \in Slots : files'[f] = IF f = activeFile /\ Held
                THEN [no |-> session.no, ended |-> e, valid |-> TRUE, values |-> files[f].values] ELSE files[f]
      BY <1>4, <3>1, UpdatesFile
    <3>3. files'[activeFile].no = session.no /\ files'[activeFile].ended = e
      <4> DEFINE v == files[activeFile].values
      <4> HIDE DEF v
      <4>1. files'[activeFile] = [no |-> session.no, ended |-> e, valid |-> TRUE, values |-> v]
        BY <1>1, <2>2, <3>2 DEF v
      <4> QED BY <4>1
    <3>4. \A f \in Slots : files'[f].no = files[f].no /\ (f # activeFile => files'[f] = files[f])
      BY <1>1, <2>2, <3>2, <3>3
    <3>5. \A f \in Slots : files'[f] # NoFile <=> files[f] # NoFile
      BY <1>1, <1>2, <2>2, <3>4
    <3>6. Used' = Used /\ \A f \in Used : f \in Slots
      BY <3>5 DEF Used, NoFile
    <3> QED BY <3>3, <3>4, <3>6
  <2> QED BY <2>1, <2>2
<1>5. CASE UNCHANGED files
  BY <1>3, <1>4, <1>5 DEF Used, NoFile
<1> QED BY <1>3, <1>4, <1>5

\* What leaves the files with the numbers they have.
LEMMA NumbersGo ==
  ASSUME NumberInv, UNCHANGED starts, Used' \subseteq Used, \A f \in Used' : files'[f].no = files[f].no,
         session'.no <= starts,
         activeFile' # -1 => activeFile' \in Used' /\ files'[activeFile'].no = session'.no,
         session' = NoSession => activeFile' = -1,
         pc' = "sent" => call'["session"].msg = SessionMessage(OldestFile)',
         got' \subseteq got, UNCHANGED outbox \/ outbox' = <<>>
  PROVE  NumberInv'
<1>1. InTurn("session")' /\ \A n : Past("session", n) => Past("session", n)'
  BY HandedStays DEF NumberInv
<1>2. Past("session", starts)'
  BY <1>1 DEF NumberInv, Past
<1>3. \A f \in Used' : files'[f].no # 0 /\ files'[f].no <= starts' /\ Past("session", files'[f].no)
  BY DEF NumberInv
<1>4. \A f \in Used' : Past("session", files[f].no)'
  BY <1>1, <1>3 DEF Past
<1>5. \A f, g \in Used' : f < g => files'[f].no < files'[g].no
  BY DEF NumberInv
<1> QED BY <1>1, <1>2, <1>3, <1>4, <1>5 DEF NumberInv, NoSession

\* The message of the oldest file, while the files are as they are.
LEMMA OldestStays ==
  ASSUME UNCHANGED files
  PROVE  Used' = Used /\ SessionMessage(OldestFile)' = SessionMessage(OldestFile)
<1>1. Used' = Used
  BY DEF Used, NoFile
<1>2. OldestFile' = OldestFile
  BY <1>1 DEF OldestFile
<1> QED BY <1>1, <1>2 DEF SessionMessage

\* What the step of the session task makes of its own call.
LEMMA SendsOldest ==
  ASSUME TypeInv, SessionTask, pc' = "sent"
  PROVE  UNCHANGED files /\ call'["session"].msg = SessionMessage(OldestFile)'
<1>1. after # "sent"
  BY DEF TypeInv, RamType
<1>2. Send
  BY <1>1 DEF SessionTask, Top, Send, Sent, Look, Start, Begin, End, Seal, LetGo, Clear
<1> DEFINE m == SessionMessage(OldestFile)
           c == [at |-> "take", msg |-> m]
<1>3. call' = [call EXCEPT !["session"] = c] /\ UNCHANGED files
  BY <1>1, <1>2 DEF Send, Call, fileVars
<1>4. c.msg = m
  OBVIOUS
<1> HIDE DEF m, c
<1>5. call'["session"] = c
  BY <1>3, TasksPublish DEF TypeInv, PublishInv, PublishType
<1> QED BY <1>3, <1>4, <1>5, OldestStays DEF m

LEMMA EndsSession ==
  ASSUME TypeInv, End
  PROVE  session'.no = session.no /\ (session' = NoSession => session = NoSession)
<1>0. session \in SessionType
  BY DEF TypeInv, RamType
<1>1. \/ session' = session
      \/ session # NoSession /\ session' = [session EXCEPT !.ended = TRUE]
      \/ session' = [session EXCEPT !.used = TRUE]
  BY DEF End
<1>2. ASSUME session' = [session EXCEPT !.ended = TRUE] PROVE session'.no = session.no /\ session'.ended
  <2>1. session' = [no |-> session.no, ended |-> TRUE, used |-> session.used, local |-> session.local]
    BY <1>0, <1>2, SessionEnds
  <2> QED BY <2>1
<1>3. ASSUME session' = [session EXCEPT !.used = TRUE] PROVE session'.no = session.no /\ session'.used
  <2>1. session' = [no |-> session.no, ended |-> session.ended, used |-> TRUE, local |-> session.local]
    BY <1>0, <1>3, SessionUses
  <2> QED BY <2>1
<1> QED BY <1>1, <1>2, <1>3, NoSessionIs

LEMMA NumbersSession ==
  ASSUME TypeInv, LoopInv, NumberInv, Top \/ Send \/ Begin \/ Seal \/ Clear \/ End \/ LetGo
  PROVE  NumberInv'
<1>0. /\ FilesType /\ session \in SessionType /\ session.no \in Nat /\ session.ended \in BOOLEAN
      /\ starts \in Nat
  BY SessionRecords DEF TypeInv, RamType
<1>1. UNCHANGED <<got, outbox, starts>>
  BY DEF Top, Send, Begin, Seal, Clear, End, LetGo, publish, env
<1>2. pc' = "sent" => call'["session"].msg = SessionMessage(OldestFile)'
  BY SendsOldest DEF SessionTask
<1>3. CASE Top \/ Send \/ Begin \/ Seal
  <2>1. UNCHANGED <<session, activeFile>>
    BY <1>3 DEF Top, Send, Begin, Seal, UpdateSession, fileVars
  <2>2. Used' = Used /\ \A f \in Used : files'[f].no = files[f].no
    <3>1. \/ UNCHANGED files
          \/ AppendEnergy("B")
          \/ UpdateSession(session.no, session.ended)
      BY <1>3 DEF Top, Send, Begin, Seal, fileVars
    <3> QED BY <1>0, <3>1, NumbersKept DEF Labels
  <2> QED BY <1>1, <1>2, <2>1, <2>2, NumbersGo DEF NumberInv
<1>4. CASE Clear
  <2>1. session' = NoSession /\ UNCHANGED <<files, activeFile>> /\ pc = "clear"
    BY <1>4 DEF Clear, fileVars
  <2>2. activeFile = -1 /\ session'.no = 0 /\ Used' = Used
    BY <2>1, NoSessionIs, OldestStays DEF LoopInv
  <2> QED BY <1>0, <1>1, <1>2, <2>1, <2>2, NumbersGo DEF NumberInv
<1>5. CASE End
  <2>1. UNCHANGED activeFile /\ (UNCHANGED files \/ AppendEnergy("E"))
    BY <1>5 DEF End
  <2>2. Used' = Used /\ \A f \in Used : files'[f].no = files[f].no
    BY <1>0, <2>1, NumbersKept DEF Labels
  <2>3. session'.no = session.no /\ (session' = NoSession => session = NoSession)
    BY <1>5, EndsSession
  <2>4. session'.no <= starts /\ (session' = NoSession => activeFile = -1)
    BY <2>3 DEF NumberInv
  <2>5. activeFile # -1 => activeFile \in Used' /\ files'[activeFile].no = session'.no
    BY <2>2, <2>3 DEF NumberInv
  <2> QED BY <1>1, <1>2, <2>1, <2>2, <2>4, <2>5, NumbersGo
<1>6. CASE LetGo
  <2>1. UNCHANGED session /\ activeFile' = -1 /\ ((activeFile >= 0 /\ DeleteFile(activeFile)) \/ UNCHANGED files)
    BY <1>6 DEF LetGo
  <2>2. Used' \subseteq Used /\ \A f \in Used' : files'[f] = files[f]
    <3>1. ASSUME activeFile >= 0, DeleteFile(activeFile) PROVE \A f \in Slots : files'[f] = IF f = activeFile THEN NoFile ELSE files[f]
      BY <1>0, <3>1, DeletesFile DEF FilesType
    <3> QED BY <2>1, <3>1 DEF Used, NoFile
  <2> QED BY <1>1, <1>2, <2>1, <2>2, NumbersGo DEF NumberInv
<1> QED BY <1>3, <1>4, <1>5, <1>6

\* A file that the cloud has got goes, and only the oldest one does.
LEMMA NumbersSent ==
  ASSUME TypeInv, LoopInv, NumberInv, Sent
  PROVE  NumberInv' /\ Used' \subseteq Used /\ \A f \in Used' : files'[f] = files[f]
<1>0. FilesType
  BY DEF TypeInv
<1>1. UNCHANGED <<got, outbox, starts, session, activeFile>> /\ pc = "sent" /\ activeFile = -1
  BY DEF Sent, env, LoopInv
<1>2. pc' = "sent" => call'["session"].msg = SessionMessage(OldestFile)'
  BY SendsOldest DEF SessionTask
<1>3. Used' \subseteq Used /\ \A f \in Used' : files'[f] = files[f]
  <2>1. UNCHANGED files \/ DeleteFile(OldestFile)
    BY DEF Sent
  <2>2. OldestFile \in Slots
    BY <1>1, UsedIsFinite, OldestIsUsed DEF LoopInv
  <2>3. ASSUME DeleteFile(OldestFile) PROVE \A f \in Slots : files'[f] = IF f = OldestFile THEN NoFile ELSE files[f]
    BY <1>0, <2>2, <2>3, DeletesFile
  <2> QED BY <2>1, <2>3 DEF Used, NoFile
<1>4. NumberInv'
  BY <1>1, <1>2, <1>3, NumbersGo DEF NumberInv
<1> QED BY <1>3, <1>4

\* The loop goes on with a session on file, or leaves things as they are.
LEMMA NumbersLook ==
  ASSUME TypeInv, LoopInv, NumberInv, Look
  PROVE  NumberInv'
<1>1. UNCHANGED <<got, outbox, starts, files>> /\ pc' # "sent"
  BY DEF Look, publish, env
<1>2. Used' = Used
  BY <1>1, OldestStays
<1>3. CASE UNCHANGED <<activeFile, session>>
  BY <1>1, <1>2, <1>3, NumbersGo DEF NumberInv
<1>4. CASE /\ Incomplete >= 0 /\ session' = [NoSession EXCEPT !.no = files[Incomplete].no]
           /\ activeFile' = Incomplete
  <2> DEFINE a == Incomplete
  <2>1. a = Max(Used) /\ 0 \in Used
    BY <1>4 DEF Incomplete
  <2>2. Used \in SUBSET Slots /\ Used # {}
    BY <2>1 DEF Used
  <2>3. a \in Used /\ a \in Slots
    BY <2>1, <2>2, MaxOfSlots
  <2>4. files[a].no \in Nat
    <3>1. files[a] \in FileType
      BY <2>3 DEF TypeInv, FilesType
    <3> QED BY <3>1 DEF FileType
  <2>5. session' = [no |-> files[a].no, ended |-> FALSE, used |-> FALSE, local |-> FALSE]
    BY <1>4, <2>4, SessionResumes
  <2>6. session'.no = files[a].no /\ activeFile' = a
    BY <1>4, <2>5
  <2> HIDE DEF a
  <2>7. session'.no <= starts /\ session'.no # 0
    BY <2>3, <2>6 DEF NumberInv
  <2> QED BY <1>1, <1>2, <2>3, <2>6, <2>7, NoSessionIs, NumbersGo
<1> QED BY <1>3, <1>4 DEF Look, Resume

LEMMA NewFileIsLast ==
  ASSUME FilesType
  PROVE  /\ NewFile \in Slots \cup {-1}
         /\ NewFile # -1 => \A f \in Used : f < NewFile
<1>1. Used \in SUBSET Slots /\ Slots \subseteq Nat
  BY OfflineFilesAssumption DEF Used, Slots
<1>2. NewFile \in Slots \cup {-1}
  BY NewFileIsFree
<1>3. CASE Used = {}
  BY <1>2, <1>3
<1>4. CASE Used # {}
  <2>1. Max(Used) \in Used /\ \A y \in Used : Max(Used) >= y
    BY <1>1, <1>4, MaxOfSlots
  <2>2. NewFile = -1 \/ NewFile = Max(Used) + 1
    BY <1>4 DEF NewFile
  <2> DEFINE m == Max(Used)
  <2> HIDE DEF m
  <2>3. m \in Nat /\ (\A y \in Used : m >= y /\ y \in Nat) /\ (NewFile = -1 \/ NewFile = m + 1)
    BY <1>1, <2>1, <2>2 DEF m
  <2> QED BY <1>2, <2>3
<1> QED BY <1>3, <1>4

\* A new session has the next number, and its file comes after the others.
LEMMA NumbersStart ==
  ASSUME TypeInv, LoopInv, NumberInv, Start
  PROVE  NumberInv'
<1>0. FilesType /\ starts \in Nat /\ session \in SessionType /\ PublishType
  BY DEF TypeInv, RamType, PublishInv
<1>1. UNCHANGED <<got, outbox>> /\ pc' # "sent"
  BY DEF Start, publish
<1>2. CASE session # NoSession
  <2>1. session' = [session EXCEPT !.local = FALSE] /\ UNCHANGED <<files, activeFile, starts>>
    BY <1>2 DEF Start, fileVars
  <2>2. session' = [no |-> session.no, ended |-> session.ended, used |-> session.used, local |-> FALSE]
    BY <1>0, <2>1, SessionGoesOn
  <2>3. session'.no = session.no
    BY <2>2
  <2>4. session' # NoSession
    BY <1>2, <2>3, NoSessionIs DEF LoopInv
  <2>5. Used' = Used
    BY <2>1, OldestStays
  <2> QED BY <1>1, <2>1, <2>3, <2>4, <2>5, NumbersGo DEF NumberInv
<1>3. CASE session = NoSession
  <2>1. starts' = starts + 1 /\ SaveSession(starts')
    BY <1>3 DEF Start
  <2>2. session' = [NoSession EXCEPT !.no = starts', !.local = TRUE]
    BY <1>3 DEF Start
  <2>3. starts' \in Nat /\ starts' = starts + 1
    BY <1>0, <2>1
  <2>4. session' = [no |-> starts', ended |-> FALSE, used |-> FALSE, local |-> TRUE]
    BY <2>2, <2>3, SessionBegins, Zenon
  <2>5. session'.no = starts'
    BY <2>4
  <2>6. /\ NewFile \in Slots \cup {-1} /\ activeFile' = NewFile
        /\ NewFile # -1 => files[NewFile] = NoFile /\ \A f \in Used : f < NewFile
    BY <1>0, <2>1, NewFileIsFree, NewFileIsLast DEF SaveSession
  <2> DEFINE new == [no |-> starts', ended |-> FALSE, valid |-> TRUE, values |-> <<>>]
  <2>7. \A f \in Slots : files'[f] = IF f = NewFile THEN new ELSE files[f]
    BY <1>0, <2>1, <2>3, SavesFile
  <2>8. new.no = starts' /\ NoFile.no = 0
    BY DEF NoFile
  <2> HIDE DEF new
  <2>9. /\ \A f \in Used' : IF f = NewFile THEN files'[f].no = starts' ELSE f \in Used /\ files'[f] = files[f]
        /\ NewFile # -1 => NewFile \in Used'
    <3>1. NewFile # -1 => NewFile \in Slots /\ files'[NewFile].no = starts'
      BY <2>6, <2>7, <2>8
    <3>2. \A f \in Slots : files'[f] # NoFile => f \in Used'
      BY DEF Used, NoFile
    <3>3. starts' # 0
      BY <1>0, <2>3
    <3>4. NewFile # -1 => NewFile \in Used'
      BY <2>8, <3>1, <3>2, <3>3
    <3>5. \A f \in Used' : f \in Slots /\ files'[f] # NoFile
      BY DEF Used, NoFile
    <3>6. \A f \in Used' : f # NewFile => f \in Used /\ files'[f] = files[f]
      BY <2>7, <3>5 DEF Used
    <3>7. \A f \in Used' : f # -1
      BY <3>5, SlotNumbers
    <3> QED BY <3>1, <3>4, <3>6, <3>7
  <2>10. InTurn("session")' /\ \A n : Past("session", n) => Past("session", n)'
    BY <1>1, HandedStays DEF NumberInv
  <2>11. Past("session", starts')
    BY <1>0, <2>3, PastGrows DEF NumberInv
  <2>12. Past("session", starts)'
    BY <2>10, <2>11 DEF Past
  <2>13. \A f \in Used : files[f].no \in Nat /\ f \in Nat
    <3> TAKE f \in Used
    <3>1. files[f] \in FileType /\ f \in Slots
      BY <1>0 DEF FilesType, Used
    <3> QED BY <3>1, SlotNumbers DEF FileType
  <2>14. \A f \in Used' : files'[f].no # 0 /\ files'[f].no <= starts' /\ Past("session", files'[f].no)
    <3> TAKE f \in Used'
    <3>1. CASE f = NewFile
      BY <1>0, <2>3, <2>9, <2>11, <3>1
    <3>2. CASE f # NewFile
      <4>1. f \in Used /\ files'[f] = files[f] /\ files[f].no \in Nat
        BY <2>9, <2>13, <3>2
      <4>2. files[f].no # 0 /\ files[f].no <= starts /\ Past("session", files[f].no)
        BY <4>1 DEF NumberInv
      <4> QED BY <1>0, <2>3, <4>1, <4>2
    <3> QED BY <3>1, <3>2
  <2>15. \A f \in Used' : Past("session", files[f].no)'
    BY <2>10, <2>14 DEF Past
  <2>16. \A f, g \in Used' : f < g => files'[f].no < files'[g].no
    <3> SUFFICES ASSUME NEW f \in Used', NEW g \in Used', f < g PROVE files'[f].no < files'[g].no
      OBVIOUS
    <3>1. CASE g = NewFile
      <4>1. f # NewFile
        BY <2>6, <3>1, SlotNumbers DEF Used
      <4>2. files[f].no <= starts /\ files'[f].no = files[f].no /\ files[f].no \in Nat
        BY <2>9, <2>13, <4>1 DEF NumberInv
      <4> QED BY <1>0, <2>3, <2>9, <3>1, <4>2
    <3>2. CASE g # NewFile
      <4>1. g \in Used /\ files'[g] = files[g] /\ g \in Nat
        BY <2>9, <2>13, <3>2
      <4>2. f # NewFile
        <5>1. CASE f = NewFile
          <6>1. f # -1 /\ f \in Nat
            BY SlotNumbers DEF Used
          <6>2. g < f
            BY <2>6, <4>1, <5>1, <6>1
          <6> QED BY <4>1, <6>1, <6>2
        <5> QED BY <5>1
      <4>3. f \in Used /\ files'[f] = files[f]
        BY <2>9, <4>2
      <4> QED BY <4>1, <4>3 DEF NumberInv
    <3> QED BY <3>1, <3>2
  <2>17. activeFile' # -1 => activeFile' \in Used' /\ files'[activeFile'].no = session'.no
    BY <2>5, <2>6, <2>9
  <2>18. session' # NoSession /\ session'.no <= starts'
    BY <1>0, <2>3, <2>5, NoSessionIs
  <2> QED BY <1>1, <2>10, <2>12, <2>14, <2>15, <2>16, <2>17, <2>18 DEF NumberInv, NoSession
<1> QED BY <1>2, <1>3

\* The other tasks write to the file in hand, with the session there is.
LEMMA NumbersWrites ==
  ASSUME TypeInv, LoopInv, NumberInv, OcmfTask \/ DeleteLog \/ CarChange, Clean'
  PROVE  NumberInv'
<1>0. FilesType /\ session \in SessionType /\ session.ended \in BOOLEAN
  BY SessionRecords DEF TypeInv, RamType
<1>1. UNCHANGED <<got, outbox, starts, session, activeFile, pc>>
  BY DEF OcmfTask, Hour, Skip, OpenLog, Line, LineSent, Own, OwnSent, LogLine, LogHeader, Value, Save, DeleteLog, CarChange, Rest, Others,
         publish, ram, fileVars, UpdateSession
<1>2. UNCHANGED files \/ AppendEnergy("T") \/ UpdateSession(session.no, session.ended)
  <2>1. ASSUME Save PROVE UpdateSession(session.no, session.ended)
    BY <2>1 DEF Save, Trouble, Clean, Untroubled
  <2> QED BY <2>1 DEF OcmfTask, Hour, Skip, OpenLog, Line, LineSent, Own, OwnSent, LogLine, LogHeader, Value, DeleteLog, CarChange, fileVars
<1>3. Used' = Used /\ \A f \in Used : files'[f].no = files[f].no
  BY <1>0, <1>2, NumbersKept DEF Labels
<1>4. call'["session"].msg = call["session"].msg
  <2>1. UNCHANGED call \/ \E c : call' = [call EXCEPT !["ocmf"] = c]
    BY DEF OcmfTask, Hour, Skip, OpenLog, Line, LineSent, Own, OwnSent, LogLine, LogHeader, Value, Save, DeleteLog, CarChange, publish, Call, Done
  <2> QED BY <2>1, TasksPublish, OneCallAtATime
<1>5. pc' = "sent" => call'["session"].msg = SessionMessage(OldestFile)'
  <2> SUFFICES ASSUME pc' = "sent" PROVE call'["session"].msg = SessionMessage(OldestFile)'
    OBVIOUS
  <2>1. pc = "sent" /\ activeFile = -1
    BY <1>1 DEF LoopInv
  <2>2. UNCHANGED files
    BY <1>0, <1>2, <2>1, NothingHeld
  <2> QED BY <1>4, <2>1, <2>2, OldestStays DEF NumberInv
<1>6. session'.no <= starts /\ (session' = NoSession => activeFile' = -1)
  BY <1>1 DEF NumberInv
<1>7. activeFile' # -1 => activeFile' \in Used' /\ files'[activeFile'].no = session'.no
  BY <1>1, <1>3 DEF NumberInv
<1> QED BY <1>1, <1>3, <1>5, <1>6, <1>7, NumbersGo

\* The id from the cloud is that of the session there is, or of a new one without
\* a file.
LEMMA NumbersGetId ==
  ASSUME TypeInv, LoopInv, NumberInv, SetSessionId
  PROVE  NumberInv'
<1>0. FilesType /\ session \in SessionType /\ session.ended \in BOOLEAN /\ starts \in Nat /\ PublishType
  BY SessionRecords DEF TypeInv, RamType, PublishInv
<1>1. UNCHANGED <<got, outbox, call, activeFile, pc>> /\ UpdateSession(session'.no, session'.ended)
  BY DEF SetSessionId, publish, UpdateSession
<1>2. /\ session'.no = (IF session.no = 0 THEN starts + 1 ELSE session.no)
      /\ session' # NoSession /\ session'.ended = session.ended
      /\ starts' = IF session = NoSession THEN starts + 1 ELSE starts
  BY LoopGetsId
<1>3. pc' = "sent" => call'["session"].msg = SessionMessage(OldestFile)'
  <2> SUFFICES ASSUME pc' = "sent" PROVE call'["session"].msg = SessionMessage(OldestFile)'
    OBVIOUS
  <2>1. pc = "sent" /\ activeFile = -1
    BY <1>1 DEF LoopInv
  <2>2. UNCHANGED files
    BY <1>0, <1>1, <2>1, NothingHeld
  <2> QED BY <1>1, <2>1, <2>2, OldestStays DEF NumberInv
<1>4. CASE session.no # 0
  <2>1. session # NoSession /\ starts' = starts /\ session'.no = session.no
    BY <1>2, <1>4, NoSessionIs
  <2>2. UpdateSession(session.no, session.ended)
    BY <1>1, <1>2, <2>1
  <2>3. Used' = Used /\ \A f \in Used : files'[f].no = files[f].no
    BY <1>0, <2>2, NumbersKept
  <2>4. activeFile' # -1 => activeFile' \in Used' /\ files'[activeFile'].no = session'.no
    BY <1>1, <2>1, <2>3 DEF NumberInv
  <2> QED BY <1>1, <1>2, <1>3, <2>1, <2>3, <2>4, NumbersGo DEF NumberInv
<1>5. CASE session.no = 0
  <2>1. session = NoSession /\ activeFile = -1
    BY <1>5 DEF LoopInv, NumberInv
  <2>2. UNCHANGED files /\ Used' = Used /\ starts' = starts + 1 /\ session'.no = starts'
    BY <1>0, <1>1, <1>2, <1>5, <2>1, NothingHeld, OldestStays
  <2>3. InTurn("session")' /\ \A n : Past("session", n) => Past("session", n)'
    BY <1>1, HandedStays DEF NumberInv
  <2>4. Past("session", starts')
    BY <1>0, <2>2, PastGrows DEF NumberInv
  <2>5. Past("session", starts)'
    BY <2>3, <2>4 DEF Past
  <2>6. \A f \in Used : files[f].no \in Nat
    <3> TAKE f \in Used
    <3>1. files[f] \in FileType
      BY <1>0 DEF FilesType, Used
    <3> QED BY <3>1 DEF FileType
  <2>7. \A f \in Used : files[f].no # 0 /\ files[f].no <= starts' /\ Past("session", files[f].no)
    BY <1>0, <2>2, <2>6 DEF NumberInv
  <2>8. \A f \in Used : Past("session", files[f].no)'
    BY <2>2, <2>3, <2>7 DEF Past
  <2>9. \A f, g \in Used' : f < g => files'[f].no < files'[g].no
    BY <2>2 DEF NumberInv
  <2>10. session'.no <= starts' /\ activeFile' = -1
    BY <1>0, <1>1, <2>1, <2>2
  <2> QED BY <1>1, <1>2, <1>3, <2>2, <2>3, <2>5, <2>7, <2>8, <2>9, <2>10 DEF NumberInv, NoSession
<1> QED BY <1>4, <1>5

\* What is handed over is the oldest file.
LEMMA NumbersNetwork ==
  ASSUME TypeInv, LoopInv, LineInv, NumberInv, Network \/ Drop
  PROVE  /\ NumberInv'
         /\ \A new \in got' \ got, old \in got : old[1] = "session" /\ Numbered(new, "session") => old[2] < new[2]
<1>0. FilesType /\ starts \in Nat /\ PublishType
  BY DEF TypeInv, RamType, PublishInv
<1>1. UNCHANGED <<files, activeFile, session, starts, pc>>
  BY DEF Network, Drop, fileVars, ram
<1>2. \A t \in Publishers : call'[t].msg = call[t].msg
  BY MessagesStay
<1>3. Used' = Used /\ SessionMessage(OldestFile)' = SessionMessage(OldestFile)
  BY <1>1, OldestStays
<1>4. \A f \in Used : files[f].no \in Nat /\ f \in Nat /\ f \in Slots
  <2> TAKE f \in Used
  <2>1. files[f] \in FileType /\ f \in Slots
    BY <1>0 DEF FilesType, Used
  <2> QED BY <2>1, SlotNumbers DEF FileType
<1>5. ASSUME NEW t \in Publishers, call[t].at = "take", call[t].msg[1] = "session"
      PROVE  /\ Numbered(call[t].msg, "session") => Past("session", call[t].msg[2])
             /\ call[t].msg[2] <= starts /\ \A f \in Used : call[t].msg[2] <= files[f].no
  <2>1. t = "session"
    <3>1. t = "ocmf" => ocmf.at \in {"lineSent", "ownSent"}
      BY <1>5 DEF TypeInv, Calling
    <3>2. t = "ocmf" => call[t].msg[1] = "reading"
      BY <3>1 DEF LineInv
    <3> QED BY <1>5, <3>2, TasksPublish
  <2>2. pc = "sent"
    BY <1>5, <2>1 DEF TypeInv, Calling
  <2> DEFINE o == OldestFile
  <2>3. o \in Used /\ \A f \in Used : o <= f
    BY <2>2, UsedIsFinite, OldestIsUsed DEF LoopInv
  <2>4. call[t].msg[2] = IF files[o].valid THEN files[o].no ELSE 0
    BY <2>1, <2>2 DEF NumberInv, SessionMessage
  <2> HIDE DEF o
  <2>5. files[o].no \in Nat /\ files[o].no <= starts /\ Past("session", files[o].no)
    BY <1>4, <2>3 DEF NumberInv
  <2>6. \A f \in Used : files[o].no <= files[f].no
    <3> TAKE f \in Used
    <3>1. CASE f = o
      BY <2>5, <3>1
    <3>2. CASE f # o
      <4>1. o < f
        BY <1>4, <2>3, <3>2
      <4>2. files[o].no < files[f].no
        BY <2>3, <4>1 DEF NumberInv
      <4> QED BY <1>4, <2>5, <4>2
    <3> QED BY <3>1, <3>2
  <2> QED BY <1>0, <1>4, <2>4, <2>5, <2>6 DEF Numbered
<1>6. /\ InTurn("session")'
      /\ \A new \in got' \ got, old \in got : old[1] = "session" /\ Numbered(new, "session") => old[2] < new[2]
      /\ \A n \in Nat : /\ Past("session", n)
                        /\ \A t \in Publishers : call[t].at = "take" /\ call[t].msg[1] = "session" => call[t].msg[2] <= n
                        => Past("session", n)'
  <2>1. InTurn("session")
    BY DEF NumberInv
  <2>2. \A t \in Publishers : call[t].at = "take" /\ Numbered(call[t].msg, "session") => Past("session", call[t].msg[2])
    BY <1>5 DEF Numbered
  <2> QED BY <2>1, <2>2, NetworkInTurn
<1>7. Past("session", starts)'
  <2>1. \A n \in Nat : n = starts => Past("session", n)'
    BY <1>0, <1>5, <1>6 DEF NumberInv
  <2> QED BY <1>0, <1>1, <2>1 DEF Past
<1>8. \A f \in Used : Past("session", files[f].no)'
  <2> TAKE f \in Used
  <2>1. Past("session", files[f].no)
    BY DEF NumberInv
  <2>2. \A n \in Nat : n = files[f].no => Past("session", n)'
    BY <1>5, <1>6, <2>1
  <2> QED BY <1>1, <1>4, <2>2 DEF Past
<1>9. NumberInv'
  <2>1. pc' = "sent" => call'["session"].msg = SessionMessage(OldestFile)'
    BY <1>1, <1>2, <1>3, TasksPublish DEF NumberInv
  <2>2. \A f \in Used' : files'[f].no # 0 /\ files'[f].no <= starts'
    BY <1>1, <1>3 DEF NumberInv
  <2>3. \A f, g \in Used' : f < g => files'[f].no < files'[g].no
    BY <1>1, <1>3 DEF NumberInv
  <2>4. session'.no <= starts' /\ (session' = NoSession => activeFile' = -1)
    BY <1>1 DEF NumberInv, NoSession
  <2>5. activeFile' # -1 => activeFile' \in Used' /\ files'[activeFile'].no = session'.no
    BY <1>1, <1>3 DEF NumberInv
  <2> QED BY <1>3, <1>6, <1>7, <1>8, <2>1, <2>2, <2>3, <2>4, <2>5 DEF NumberInv, NoSession
<1> QED BY <1>6, <1>9

\* A torn block leaves its file, which counts as used.
LEMMA NumbersRestarts ==
  ASSUME TypeInv, NumberInv, Restart
  PROVE  NumberInv' /\ Used' = Used /\ \A f \in Used : files'[f].no = files[f].no /\ files'[f].ended = files[f].ended
                                                       /\ (files'[f].valid => files[f].valid)
<1>0. FilesType /\ starts \in Nat
  BY DEF TypeInv, RamType
<1>1. /\ outbox' = <<>> /\ UNCHANGED <<got, starts>> /\ activeFile' = -1 /\ session' = NoSession /\ pc' = "top"
  BY DEF Restart, PublishRestart, FilesForget
<1>2. CASE UNCHANGED files
  <2>1. Used' = Used
    BY <1>2, OldestStays
  <2> QED BY <1>0, <1>1, <1>2, <2>1, NoSessionIs, NumbersGo
<1>3. CASE \E f \in Written : files' = [files EXCEPT ![f].valid = FALSE]
  <2>1. PICK w \in Written : files' = [files EXCEPT ![w].valid = FALSE]
    BY <1>3
  <2>2. w \in Used /\ w \in Slots
    BY <2>1 DEF Written, Used
  <2>3. files \in [Slots -> FileType] /\ files[w] \in FileType
    BY <1>0, <2>2 DEF FilesType
  <2>4. \A f \in Slots : files'[f] = IF f = w THEN [files[f] EXCEPT !.valid = FALSE] ELSE files[f]
    BY <2>1, <2>3
  <2>5. \A f \in Slots : files'[f].no = files[f].no /\ files'[f].ended = files[f].ended /\ (files'[f].valid => files[f].valid)
    <3> TAKE f \in Slots
    <3>1. CASE f # w
      BY <2>4, <3>1
    <3>2. CASE f = w
      <4>1. files'[f] = [files[f] EXCEPT !.valid = FALSE] /\ files[f] \in FileType
        BY <2>3, <2>4, <3>2
      <4> QED BY <4>1 DEF FileType
    <3> QED BY <3>1, <3>2
  <2>6. \A f \in Slots : f # w => files'[f] = files[f]
    BY <2>4
  <2>7. files[w].no # 0 /\ NoFile.no = 0
    BY <2>2 DEF NumberInv, NoFile
  <2>8. \A f \in Slots : files'[f] # NoFile <=> files[f] # NoFile
    BY <2>2, <2>5, <2>6, <2>7
  <2>9. Used' = Used /\ \A f \in Used : f \in Slots
    BY <2>8 DEF Used, NoFile
  <2> QED BY <1>0, <1>1, <2>5, <2>9, NoSessionIs, NumbersGo
<1> QED BY <1>2, <1>3 DEF Restart

LEMMA NumbersStep ==
  ASSUME TypeInv, LoopInv, LineInv, NumberInv, Clean', [Next]_vars
  PROVE  NumberInv'
<1>1. CASE SessionTask
  BY <1>1, NumbersSession, NumbersSent, NumbersLook, NumbersStart DEF SessionTask
<1>2. CASE OcmfTask \/ DeleteLog \/ CarChange
  BY <1>2, NumbersWrites
<1>3. CASE SetSessionId
  BY <1>3, NumbersGetId
<1>4. CASE Network \/ Drop
  BY <1>4, NumbersNetwork
<1>5. CASE Restart
  BY <1>5, NumbersRestarts
<1>6. CASE UNCHANGED vars
  <2>1. UNCHANGED <<got, outbox, call, starts, session, activeFile, files, pc>>
    BY <1>6 DEF vars, publish, fileVars, ram, env
  <2> QED BY <2>1, OldestStays, NumbersGo DEF NumberInv
<1> QED BY <1>1, <1>2, <1>3, <1>4, <1>5, <1>6 DEF Next

LEMMA OrderStarts == Init => LineInv /\ NumberInv
<1> SUFFICES ASSUME Init PROVE LineInv /\ NumberInv
  OBVIOUS
<1>1. /\ got = {} /\ outbox = <<>> /\ ocmf = Idle /\ logLock = TRUE /\ pc = "top" /\ starts = 0 /\ readings = 0
      /\ session = NoSession /\ activeFile = -1 /\ files = [f \in Slots |-> NoFile]
  BY DEF Init, PublishInit, FilesInit, RamInit
<1>2. log.start = log.end
  BY DEF Init, FilesInit
<1>3. TypeInv
  BY TypesStart
<1>4. OnLog = {}
  BY <1>2, <1>3, LineTypes, EmptyLog
<1>5. DOMAIN outbox = {} /\ Handed = {}
  BY <1>1 DEF Handed
<1>6. \A k : InTurn(k) /\ \A n : Past(k, n)
  BY <1>1, <1>5 DEF InTurn, Past
<1>7. ocmf.at = "idle" /\ Newest = 0
  BY <1>1 DEF Idle, Newest
<1>8. Used = {}
  BY <1>1 DEF Used
<1>9. LineInv
  <2>1. Past("reading", Newest) /\ Newest <= readings /\ InTurn("reading")
    BY <1>1, <1>6, <1>7
  <2> QED BY <1>1, <1>2, <1>4, <1>7, <2>1 DEF LineInv
<1>10. NumberInv
  <2>1. session.no <= starts
    BY <1>1, NoSessionIs
  <2> QED BY <1>1, <1>6, <1>8, <2>1 DEF NumberInv
<1> QED BY <1>9, <1>10

LEMMA OrderInvHolds == Spec => []OrderInv
<1>1. Init => OrderInv
  BY OrderStarts DEF OrderInv
<1>2. ReportInv /\ OrderInv /\ [Next]_vars => OrderInv'
  <2> SUFFICES ASSUME ReportInv, OrderInv, [Next]_vars PROVE OrderInv'
    OBVIOUS
  <2>1. TypeInv /\ LoopInv /\ LineInv
    BY DEF ReportInv, OrderInv
  <2>2. LineInv'
    BY <2>1, LineStep
  <2>3. ASSUME Clean' PROVE NumberInv'
    <3>1. Clean
      BY <2>3, TroublesStay DEF Clean, Untroubled
    <3> QED BY <2>1, <2>3, <3>1, NumbersStep DEF OrderInv
  <2> QED BY <2>2, <2>3 DEF OrderInv
<1> QED BY <1>1, <1>2, ReportInvHolds, PTL DEF Spec

\* Readings, and sessions, reach the cloud for the first time in the order they
\* were made (OCMF.c, offlineSession.c, sessionHandler.c), sessions unless a file
\* was given the number of an earlier one: the log is sent before a new reading
\* and from its oldest line on, a new file comes after the others, and the oldest
\* file is sent first.
THEOREM InOrderHolds == Spec => InOrder
<1>1. ReportInv /\ OrderInv /\ [Next]_vars =>
        [\A new \in got' \ got, old \in got :
             new[1] = old[1] /\ new[2] # 0 /\ (new[1] = "session" => Untroubled({"stale"})) => old[2] < new[2]]_got
  <2> SUFFICES ASSUME ReportInv, OrderInv, [Next]_vars, got' # got,
                      NEW new \in got' \ got, NEW old \in got, new[1] = old[1], new[2] # 0,
                      new[1] = "session" => Untroubled({"stale"})
               PROVE  old[2] < new[2]
    OBVIOUS
  <2>1. TypeInv /\ LoopInv /\ LineInv /\ (Clean => NumberInv)
    BY DEF ReportInv, OrderInv
  <2>2. Network \/ Drop
    BY DEF Next, SessionTask, Top, Send, Sent, Look, Start, Begin, End, Seal, LetGo, Clear, OcmfTask, Hour, Skip, OpenLog, Line,
           LineSent, Own, OwnSent, LogLine, LogHeader, Value, Save, SetSessionId, DeleteLog, CarChange, Restart, PublishRestart, Rest,
           publish, vars
  <2>3. old[1] \in {"session", "reading"}
    BY <2>1, HandedAre, MessageParts DEF TypeInv, PublishInv
  <2>4. CASE old[1] = "reading"
    BY <2>1, <2>2, <2>4, LineNetwork DEF Numbered
  <2>5. CASE old[1] = "session"
    BY <2>1, <2>2, <2>5, NumbersNetwork DEF Numbered, Clean
  <2> QED BY <2>3, <2>4, <2>5
<1> QED BY <1>1, ReportInvHolds, OrderInvHolds, PTL DEF Spec, InOrder

-----------------------------------------------------------------------------
(* The session a charger goes on with after a restart.                     *)

\* After a boot the loop has not looked yet.
FirstInv == first => ~carHere /\ session = NoSession /\ pc \in {"top", "look"} /\ cur = "uninitialized"

Cut == ~Untroubled({"restart", "torn"})
CutOnce == Clean /\ (Untroubled({"restart"}) \/ Untroubled({"torn"}))

\* The file that is not closed is that of the last session: the file in hand until
\* the charger restarts, and after that the one to go on with.
LastInv ==
    /\ \A n \in ended : n \in Nat /\ n <= starts
    /\ pc = "sealed" /\ activeFile # -1 => files[activeFile].ended
    /\ ~Cut => /\ \A f \in Used : files[f].valid /\ ~files[f].ended => f = activeFile
               /\ activeFile # -1 => session.no = starts /\ starts \notin ended
               /\ first => Used = {}
    /\ Cut /\ first => \A f \in Used : files[f].valid /\ ~files[f].ended => files[f].no = starts /\ starts \notin ended

\* After a boot nothing happens to the session before the loop looks at the car.
LEMMA FirstStep ==
  ASSUME FirstInv, [Next]_vars
  PROVE  FirstInv'
<1>1. CASE Top
  BY <1>1, NoSessionIs DEF Top, FirstInv, NoSession
<1>2. CASE Look
  BY <1>2 DEF Look, FirstInv
<1>3. CASE Send \/ Sent \/ Start \/ Begin \/ End \/ Seal \/ LetGo \/ Clear
  BY <1>3 DEF Send, Sent, Start, Begin, End, Seal, LetGo, Clear, FirstInv
<1>4. CASE SetSessionId
  BY <1>4 DEF SetSessionId, FirstInv
<1>5. CASE Restart
  BY <1>5 DEF Restart, FirstInv, NoSession
<1>6. CASE OcmfTask \/ DeleteLog \/ CarChange \/ Network \/ Drop \/ UNCHANGED vars
  <2>1. UNCHANGED ram
    BY <1>6 DEF OcmfTask, Hour, Skip, OpenLog, Line, LineSent, Own, OwnSent, LogLine, LogHeader, Value, Save, Others, DeleteLog, CarChange, Network,
                Drop, vars
  <2> QED BY <2>1 DEF ram, FirstInv, NoSession
<1> QED BY <1>1, <1>2, <1>3, <1>4, <1>5, <1>6 DEF Next, SessionTask

\* What writes to nothing but the file in hand.
LEMMA LastStays ==
  ASSUME LoopInv, FirstInv, LastInv, Cut' <=> Cut, UNCHANGED <<activeFile, ended, starts>>, first' => first,
         Used' \subseteq Used, \A f \in Used' : files'[f].no = files[f].no /\ (f # activeFile => files'[f] = files[f]),
         activeFile # -1 => session'.no = session.no,
         pc' = "sealed" /\ activeFile # -1 => files'[activeFile].ended
  PROVE  LastInv'
<1>1. \A f \in Used : f # -1
  BY SlotNumbers DEF Used
<1>2. first => activeFile = -1
  BY DEF FirstInv, LoopInv
<1>3. ASSUME ~Cut PROVE \A f \in Used' : files'[f].valid /\ ~files'[f].ended => f = activeFile
  BY <1>3 DEF LastInv
<1>4. ASSUME ~Cut PROVE /\ activeFile # -1 => session'.no = starts /\ starts \notin ended
                        /\ first' => Used' = {}
  BY <1>4 DEF LastInv
<1>5. ASSUME Cut, first' PROVE \A f \in Used' : files'[f].valid /\ ~files'[f].ended => files'[f].no = starts /\ starts \notin ended
  <2> SUFFICES ASSUME NEW f \in Used', files'[f].valid, ~files'[f].ended PROVE files'[f].no = starts /\ starts \notin ended
    OBVIOUS
  <2>1. f \in Used /\ files'[f] = files[f]
    BY <1>1, <1>2, <1>5
  <2> QED BY <1>5, <2>1 DEF LastInv
<1> QED BY <1>3, <1>4, <1>5 DEF LastInv

LEMMA LastLoop ==
  ASSUME TypeInv, LoopInv, FirstInv, NumberInv, LastInv, Top \/ Send \/ Sent \/ Begin \/ End \/ Seal \/ Clear
  PROVE  LastInv'
<1>0. /\ FilesType /\ session \in SessionType /\ session.ended \in BOOLEAN
      /\ after \in {"look", "clear"}
  BY SessionRecords DEF TypeInv, RamType
<1>1. UNCHANGED <<activeFile, ended, starts, first>>
  BY DEF Top, Send, Sent, Begin, End, Seal, Clear, UpdateSession, fileVars, env, history
<1>2. Cut' <=> Cut
  BY DEF Top, Send, Sent, Begin, End, Seal, Clear, env, Cut, Untroubled
<1>3. pc' = "sealed" <=> Seal
  BY <1>0 DEF Top, Send, Sent, Begin, End, Seal, Clear
<1>4. activeFile # -1 => session'.no = session.no
  <2>1. CASE End
    BY <2>1, EndsSession
  <2>2. CASE Clear
    BY <2>2 DEF Clear, LoopInv
  <2>3. CASE Top \/ Send \/ Sent \/ Begin \/ Seal
    BY <2>3 DEF Top, Send, Sent, Begin, Seal
  <2> QED BY <2>1, <2>2, <2>3
<1>5. CASE Sent
  <2>1. Used' \subseteq Used /\ \A f \in Used' : files'[f] = files[f]
    BY <1>5, NumbersSent
  <2>2. pc' # "sealed"
    BY <1>0, <1>5 DEF Sent
  <2> QED BY <1>1, <1>2, <1>4, <2>1, <2>2, LastStays
<1>6. CASE Seal
  <2>1. UpdateSession(session.no, session.ended) /\ session.ended
    BY <1>6 DEF Seal, LoopInv, Closing
  <2>2. /\ Used' = Used /\ \A f \in Used : files'[f].no = files[f].no /\ (f # activeFile => files'[f] = files[f])
        /\ activeFile # -1 => files'[activeFile].ended = session.ended
    BY <1>0, <2>1, NumbersKept
  <2> QED BY <1>1, <1>2, <1>4, <2>1, <2>2, LastStays
<1>7. CASE Top \/ Send \/ Begin \/ End \/ Clear
  <2>1. UNCHANGED files \/ AppendEnergy("B") \/ AppendEnergy("E")
    BY <1>7 DEF Top, Send, Begin, End, Clear, fileVars
  <2>2. Used' = Used /\ \A f \in Used : files'[f].no = files[f].no /\ (f # activeFile => files'[f] = files[f])
    BY <1>0, <2>1, NumbersKept DEF Labels
  <2>3. pc' # "sealed"
    BY <1>0, <1>7 DEF Top, Send, Begin, End, Clear
  <2> QED BY <1>1, <1>2, <1>4, <2>2, <2>3, LastStays
<1> QED BY <1>5, <1>6, <1>7

\* Without a restart there is no file to go on with.
LEMMA LastLook ==
  ASSUME TypeInv, LoopInv, FirstInv, NumberInv, LastInv, Look
  PROVE  LastInv'
<1>1. UNCHANGED <<ended, starts, files>> /\ ~first' /\ pc' # "sealed"
  BY DEF Look, env, history
<1>2. Cut' <=> Cut
  BY DEF Look, env, Cut, Untroubled
<1>3. Used' = Used
  BY <1>1, OldestStays
<1>4. CASE Cut
  BY <1>1, <1>2, <1>4 DEF LastInv
<1>5. CASE ~Cut
  <2>1. first => Incomplete = -1
    BY <1>5 DEF LastInv, Incomplete
  <2>2. UNCHANGED <<activeFile, session>>
    BY <2>1 DEF Look, Resume
  <2> QED BY <1>1, <1>2, <1>3, <2>2, LastStays
<1> QED BY <1>4, <1>5

LEMMA LastStart ==
  ASSUME TypeInv, LoopInv, FirstInv, NumberInv, LastInv, Start
  PROVE  LastInv'
<1>0. FilesType /\ starts \in Nat /\ session \in SessionType
  BY DEF TypeInv, RamType
<1>1. UNCHANGED <<ended, first>> /\ ~first /\ pc' # "sealed"
  BY DEF Start, FirstInv
<1>2. Cut' <=> Cut
  BY DEF Start, Cut, Untroubled
<1>3. CASE session # NoSession
  <2>1. session' = [session EXCEPT !.local = FALSE] /\ UNCHANGED <<files, activeFile, starts>>
    BY <1>3 DEF Start, fileVars
  <2>2. session' = [no |-> session.no, ended |-> session.ended, used |-> session.used, local |-> FALSE]
    BY <1>0, <2>1, SessionGoesOn
  <2>3. session'.no = session.no
    BY <2>2
  <2>4. Used' = Used
    BY <2>1, OldestStays
  <2> QED BY <1>1, <1>2, <2>1, <2>3, <2>4, LastStays
<1>4. CASE session = NoSession
  <2>1. starts' = starts + 1 /\ SaveSession(starts') /\ activeFile = -1
    BY <1>4 DEF Start, NumberInv
  <2>2. session' = [NoSession EXCEPT !.no = starts', !.local = TRUE]
    BY <1>4 DEF Start
  <2>3. starts' \in Nat
    BY <1>0, <2>1
  <2>4. session' = [no |-> starts', ended |-> FALSE, used |-> FALSE, local |-> TRUE]
    BY <2>2, <2>3, SessionBegins, Zenon
  <2>5. session'.no = starts'
    BY <2>4
  <2>6. activeFile' = NewFile
    BY <2>1 DEF SaveSession
  <2> DEFINE new == [no |-> starts', ended |-> FALSE, valid |-> TRUE, values |-> <<>>]
  <2>7. \A f \in Slots : files'[f] = IF f = NewFile THEN new ELSE files[f]
    BY <1>0, <2>1, <2>3, SavesFile
  <2> HIDE DEF new
  <2>8. \A f \in Used' : f \in Slots /\ files'[f] # NoFile
    BY DEF Used, NoFile
  <2>9. \A f \in Used' : f # NewFile => f \in Used /\ files'[f] = files[f]
    BY <2>7, <2>8 DEF Used
  <2>10. ASSUME ~Cut PROVE \A f \in Used' : files'[f].valid /\ ~files'[f].ended => f = activeFile'
    <3>1. \A f \in Used : ~(files[f].valid /\ ~files[f].ended)
      BY <2>1, <2>10, SlotNumbers DEF LastInv, Used
    <3> QED BY <2>6, <2>9, <3>1
  <2>11. \A n \in ended : n \in Nat /\ n <= starts' /\ n # starts'
    BY <1>0, <2>1 DEF LastInv
  <2>12. starts' \notin ended'
    BY <1>1, <2>11
  <2> QED BY <1>1, <1>2, <2>5, <2>10, <2>11, <2>12 DEF LastInv
<1> QED BY <1>3, <1>4

LEMMA LastLetGo ==
  ASSUME TypeInv, LoopInv, FirstInv, NumberInv, LastInv, LetGo
  PROVE  LastInv'
<1>0. FilesType /\ starts \in Nat /\ session.no \in Nat /\ session.no <= starts
  BY SessionRecords DEF TypeInv, RamType, NumberInv
<1>1. /\ UNCHANGED <<first, starts>> /\ ~first /\ pc = "sealed" /\ activeFile' = -1
      /\ pc' \in {"send", "clear"} /\ ended' \subseteq ended \cup {session.no}
  BY DEF LetGo, FirstInv, env
<1>2. Cut' <=> Cut
  BY DEF LetGo, env, Cut, Untroubled
<1>3. Used' \subseteq Used /\ \A f \in Used' : files'[f] = files[f]
  <2>1. (activeFile >= 0 /\ DeleteFile(activeFile)) \/ UNCHANGED files
    BY DEF LetGo
  <2>2. ASSUME activeFile >= 0, DeleteFile(activeFile) PROVE \A f \in Slots : files'[f] = IF f = activeFile THEN NoFile ELSE files[f]
    BY <1>0, <2>2, DeletesFile DEF FilesType
  <2> QED BY <2>1, <2>2 DEF Used, NoFile
<1>4. ASSUME ~Cut PROVE \A f \in Used' : ~(files'[f].valid /\ ~files'[f].ended)
  <2> TAKE f \in Used'
  <2>1. f \in Used /\ f # -1 /\ files'[f] = files[f]
    BY <1>3, SlotNumbers DEF Used
  <2>2. f = activeFile => files[f].ended
    BY <1>1, <2>1 DEF LastInv
  <2> QED BY <1>4, <2>1, <2>2 DEF LastInv
<1>5. \A n \in ended' : n \in Nat /\ n <= starts
  BY <1>0, <1>1 DEF LastInv
<1> QED BY <1>1, <1>2, <1>4, <1>5 DEF LastInv

LEMMA LastOthers ==
  ASSUME TypeInv, LoopInv, FirstInv, NumberInv, LastInv, OcmfTask \/ DeleteLog \/ CarChange \/ Network \/ Drop, Clean'
  PROVE  LastInv'
<1>0. FilesType /\ session \in SessionType /\ session.ended \in BOOLEAN
  BY SessionRecords DEF TypeInv, RamType
<1>1. UNCHANGED <<starts, session, activeFile, pc, first, ended>>
  BY DEF OcmfTask, Hour, Skip, OpenLog, Line, LineSent, Own, OwnSent, LogLine, LogHeader, Value, Save, DeleteLog, CarChange, Network, Drop, Others,
         ram, fileVars, UpdateSession, history
<1>2. UNCHANGED files \/ AppendEnergy("T") \/ UpdateSession(session.no, session.ended)
  <2>1. ASSUME Save PROVE UpdateSession(session.no, session.ended)
    BY <2>1 DEF Save, Trouble, Clean, Untroubled
  <2> QED BY <2>1 DEF OcmfTask, Hour, Skip, OpenLog, Line, LineSent, Own, OwnSent, LogLine, LogHeader, Value, DeleteLog, CarChange, Network, Drop,
                      fileVars
<1>3. Cut' <=> Cut
  <2>1. UNCHANGED troubles \/ \E c \in {"stale", "delete", "lateack", "drop"} : troubles' = troubles \cup {c}
    BY DEF OcmfTask, Hour, Skip, OpenLog, Line, LineSent, Own, OwnSent, LogLine, LogHeader, Value, Save, DeleteLog, CarChange, Network, Drop,
           Others, Trouble
  <2> QED BY <2>1 DEF Cut, Untroubled
<1>4. Used' = Used /\ \A f \in Used : files'[f].no = files[f].no /\ (f # activeFile => files'[f] = files[f])
  BY <1>0, <1>2, NumbersKept DEF Labels
<1>5. ASSUME pc' = "sealed", activeFile # -1 PROVE files'[activeFile].ended
  <2>1. files[activeFile].ended /\ session.ended
    BY <1>1, <1>5 DEF LastInv, LoopInv, Closing
  <2>2. CASE UNCHANGED files
    BY <2>1, <2>2
  <2>3. CASE AppendEnergy("T")
    BY <1>0, <1>5, <2>1, <2>3, NumbersKept DEF Labels
  <2>4. CASE UpdateSession(session.no, session.ended)
    BY <1>0, <1>5, <2>1, <2>4, NumbersKept
  <2> QED BY <1>2, <2>2, <2>3, <2>4
<1> QED BY <1>1, <1>3, <1>4, <1>5, LastStays

LEMMA LastGetsId ==
  ASSUME TypeInv, LoopInv, FirstInv, NumberInv, LastInv, SetSessionId
  PROVE  LastInv'
<1>0. FilesType /\ session.ended \in BOOLEAN /\ starts \in Nat
  BY SessionRecords DEF TypeInv, RamType
<1>1. UNCHANGED <<activeFile, pc, first, ended>> /\ ~first /\ UpdateSession(session'.no, session'.ended)
  BY DEF SetSessionId, UpdateSession, FirstInv, history
<1>2. /\ session'.no = (IF session.no = 0 THEN starts + 1 ELSE session.no)
      /\ session'.ended = session.ended
      /\ starts' = IF session = NoSession THEN starts + 1 ELSE starts
  BY LoopGetsId
<1>3. Cut' <=> Cut
  BY DEF SetSessionId, Trouble, Cut, Untroubled
<1>4. CASE session.no # 0
  <2>1. starts' = starts /\ session'.no = session.no
    BY <1>2, <1>4, NoSessionIs
  <2>2. UpdateSession(session.no, session.ended)
    BY <1>1, <1>2, <2>1
  <2>3. /\ Used' = Used /\ \A f \in Used : files'[f].no = files[f].no /\ (f # activeFile => files'[f] = files[f])
        /\ activeFile # -1 => files'[activeFile].ended = session.ended
    BY <1>0, <2>2, NumbersKept
  <2>4. pc' = "sealed" => session.ended
    BY <1>1 DEF LoopInv, Closing
  <2> QED BY <1>1, <1>3, <2>1, <2>3, <2>4, LastStays
<1>5. CASE session.no = 0
  <2>1. session = NoSession /\ activeFile = -1
    BY <1>5 DEF LoopInv, NumberInv
  <2>2. UNCHANGED files /\ Used' = Used /\ starts' = starts + 1
    BY <1>0, <1>1, <1>2, <2>1, NothingHeld, OldestStays
  <2>3. \A n \in ended : n \in Nat /\ n <= starts'
    BY <1>0, <2>2 DEF LastInv
  <2> QED BY <1>1, <1>3, <2>1, <2>2, <2>3 DEF LastInv
<1> QED BY <1>4, <1>5

\* The first restart leaves no other file open than the one that was in hand.
LEMMA LastRestarts ==
  ASSUME TypeInv, NumberInv, LastInv, Restart, CutOnce'
  PROVE  LastInv'
<1>1. UNCHANGED <<starts, ended>> /\ activeFile' = -1
  BY DEF Restart, FilesForget, history
<1>2. ~Cut /\ Cut'
  BY DEF Restart, Trouble, CutOnce, Cut, Untroubled
<1>3. /\ Used' = Used
      /\ \A f \in Used : files'[f].no = files[f].no /\ files'[f].ended = files[f].ended /\ (files'[f].valid => files[f].valid)
  BY NumbersRestarts
<1>4. \A f \in Used' : files'[f].valid /\ ~files'[f].ended => files'[f].no = starts /\ starts \notin ended
  <2> SUFFICES ASSUME NEW f \in Used, files'[f].valid, ~files'[f].ended PROVE files'[f].no = starts /\ starts \notin ended
    BY <1>3
  <2>1. f # -1
    BY SlotNumbers DEF Used
  <2>2. f = activeFile /\ session.no = starts /\ starts \notin ended
    BY <1>2, <1>3, <2>1 DEF LastInv
  <2> QED BY <1>3, <2>1, <2>2 DEF NumberInv
<1> QED BY <1>1, <1>2, <1>4 DEF LastInv

LEMMA LastStep ==
  ASSUME TypeInv, LoopInv, FirstInv, NumberInv, LastInv, CutOnce', [Next]_vars
  PROVE  LastInv'
<1>1. CASE SessionTask
  BY <1>1, LastLoop, LastLook, LastStart, LastLetGo DEF SessionTask
<1>2. CASE OcmfTask \/ DeleteLog \/ CarChange \/ Network \/ Drop
  BY <1>2, LastOthers DEF CutOnce
<1>3. CASE SetSessionId
  BY <1>3, LastGetsId
<1>4. CASE Restart
  BY <1>4, LastRestarts
<1>5. CASE UNCHANGED vars
  <2>1. UNCHANGED <<activeFile, ended, starts, first, session, pc, files>>
    BY <1>5 DEF vars, fileVars, ram, env, history
  <2>2. Cut' <=> Cut
    BY <1>5 DEF vars, env, Cut, Untroubled
  <2> QED BY <2>1, <2>2, OldestStays, LastStays DEF LastInv
<1> QED BY <1>1, <1>2, <1>3, <1>4, <1>5 DEF Next

\* The inductive invariant of the session that was cut.
CutInv == OrderInv /\ FirstInv /\ (CutOnce => LastInv)

LEMMA CutInvHolds == Spec => []CutInv
<1>1. Init => CutInv
  <2> SUFFICES ASSUME Init PROVE CutInv
    OBVIOUS
  <2>1. /\ troubles = {} /\ ended = {} /\ carHere = FALSE /\ cur = "uninitialized" /\ session = NoSession /\ pc = "top"
        /\ activeFile = -1 /\ files = [f \in Slots |-> NoFile]
    BY DEF Init, RamInit, FilesInit
  <2>2. FirstInv
    BY <2>1 DEF FirstInv
  <2>3. Used = {} /\ ~Cut
    BY <2>1 DEF Used, Cut, Untroubled
  <2>4. LastInv
    BY <2>1, <2>3 DEF LastInv
  <2> QED BY <2>2, <2>4, OrderStarts DEF CutInv, OrderInv
<1>2. ReportInv /\ OrderInv /\ CutInv /\ OrderInv' /\ [Next]_vars => CutInv'
  <2> SUFFICES ASSUME ReportInv, CutInv, OrderInv', [Next]_vars PROVE CutInv'
    OBVIOUS
  <2>1. TypeInv /\ LoopInv /\ OrderInv /\ FirstInv
    BY DEF ReportInv, CutInv
  <2>2. FirstInv'
    BY <2>1, FirstStep
  <2>3. ASSUME CutOnce' PROVE LastInv'
    <3>1. CutOnce /\ Clean
      BY <2>3, TroublesStay DEF CutOnce, Clean, Untroubled
    <3> QED BY <2>1, <2>3, <3>1, LastStep DEF OrderInv, CutInv
  <2> QED BY <2>2, <2>3 DEF CutInv
<1> QED BY <1>1, <1>2, ReportInvHolds, OrderInvHolds, PTL DEF Spec

\* A charger that restarts with the car connected goes on with the session that
\* was cut (sessionHandler.c:3020, offlineSession_CheckIfLastLessionIncomplete):
\* the file that is not closed is that of the last session, and the last session
\* has the last file.
THEOREM ResumesHolds == Spec => Resumes
<1> DEFINE A == first /\ ~first' /\ mode # "disconnected"
                /\ Untroubled({"stale"}) /\ (Untroubled({"restart"}) \/ Untroubled({"torn"})) =>
                    /\ session'.no # 0 => session'.no = starts /\ starts \notin ended
                    /\ \A f \in Used : 0 \in Used /\ files[f].no = starts /\ files[f].valid /\ ~files[f].ended
                           => session'.no = starts /\ activeFile' = f
<1>1. ReportInv /\ CutInv /\ [Next]_vars => A
  <2> SUFFICES ASSUME ReportInv, CutInv, [Next]_vars, first, ~first', mode # "disconnected", CutOnce
               PROVE  /\ session'.no # 0 => session'.no = starts /\ starts \notin ended
                      /\ \A f \in Used : 0 \in Used /\ files[f].no = starts /\ files[f].valid /\ ~files[f].ended
                             => session'.no = starts /\ activeFile' = f
    BY DEF CutOnce, Clean
  <2>1. TypeInv /\ NumberInv /\ LastInv /\ session = NoSession
    BY DEF ReportInv, CutInv, OrderInv, CutOnce, FirstInv
  <2>2. Look
    BY DEF Next, SessionTask, Top, Send, Sent, Start, Begin, End, Seal, LetGo, Clear, OcmfTask, Hour, Skip, OpenLog, Line,
           LineSent, Own, OwnSent, LogLine, LogHeader, Value, Save, Others, SetSessionId, DeleteLog, CarChange, Network, Drop, Restart,
           vars, ram
  <2> DEFINE a == Incomplete
  <2>3. a # -1 => a = Max(Used) /\ a \in Used /\ files[a].valid /\ ~files[a].ended
    <3>1. Used \in SUBSET Slots
      BY DEF Used
    <3>2. Used # {} => Max(Used) \in Used
      BY <3>1, MaxOfSlots
    <3> QED BY <3>2 DEF Incomplete
  <2>4. \A f \in Used : f \in Nat /\ f # -1 /\ files[f].no \in Nat
    <3> TAKE f \in Used
    <3>1. f \in Slots /\ files[f] \in FileType
      BY <2>1 DEF TypeInv, FilesType, Used
    <3> QED BY <3>1, SlotNumbers DEF FileType
  <2>5. a >= 0 => session'.no = files[a].no /\ activeFile' = a
    <3> SUFFICES ASSUME a >= 0 PROVE session'.no = files[a].no /\ activeFile' = a
      OBVIOUS
    <3>1. session' = [NoSession EXCEPT !.no = files[a].no] /\ activeFile' = a
      BY <2>1, <2>2 DEF Look, Resume
    <3>2. files[a].no \in Nat
      BY <2>3, <2>4
    <3>3. session' = [no |-> files[a].no, ended |-> FALSE, used |-> FALSE, local |-> FALSE]
      BY <3>1, <3>2, SessionResumes
    <3> QED BY <3>1, <3>3
  <2>6. ~(a >= 0) => session'.no = 0
    BY <2>1, <2>2, NoSessionIs DEF Look, Resume
  <2>7. a >= 0 => files[a].no = starts /\ starts \notin ended
    BY <2>1, <2>3 DEF LastInv
  <2>8. ASSUME NEW f \in Used, 0 \in Used, files[f].no = starts, files[f].valid, ~files[f].ended
        PROVE  a = f
    <3> DEFINE m == Max(Used)
    <3>1. m \in Used /\ m >= f
      <4>1. Used \in SUBSET Slots
        BY DEF Used
      <4> QED BY <4>1, MaxOfSlots
    <3> HIDE DEF m
    <3>2. m = f
      <4>1. f < m => starts < files[m].no
        BY <2>1, <2>8, <3>1 DEF NumberInv
      <4>2. files[m].no <= starts /\ files[m].no \in Nat /\ starts \in Nat /\ m \in Nat /\ f \in Nat
        BY <2>1, <2>4, <3>1 DEF NumberInv, TypeInv, RamType
      <4> QED BY <3>1, <4>1, <4>2
    <3> QED BY <2>8, <3>2 DEF Incomplete, m
  <2>9. \A f \in Used : 0 \in Used /\ files[f].no = starts /\ files[f].valid /\ ~files[f].ended
           => session'.no = starts /\ activeFile' = f
    <3> SUFFICES ASSUME NEW f \in Used, 0 \in Used, files[f].no = starts, files[f].valid, ~files[f].ended
                 PROVE  session'.no = starts /\ activeFile' = f
      OBVIOUS
    <3>1. a = f
      BY <2>8
    <3>2. a >= 0
      BY <2>4, <3>1
    <3> HIDE DEF a
    <3> QED BY <2>5, <3>1, <3>2
  <2> HIDE DEF a
  <2> QED BY <2>5, <2>6, <2>7, <2>9
<1>2. ReportInv /\ CutInv /\ [Next]_vars => [A]_vars
  BY <1>1
<1> QED BY <1>2, ReportInvHolds, CutInvHolds, PTL DEF Spec, Resumes
==============================================================================
