------------------------- MODULE SmartChargingProofs -------------------------
(***************************************************************************)
(* What holds of the charging profiles for any profiles and filters, any   *)
(* times and any number of transactions, commands and coincidences.        *)
(***************************************************************************)
EXTENDS SmartCharging, WellFoundedInduction, TLAPS

-----------------------------------------------------------------------------
(* Profiles and transactions.                                              *)

Over == session.does \in {"none", "stop"}

\* The fields that are read, and what is known of the session handler and its
\* transaction: its identifier, and the notifications of its start and its end.
SessionInv ==
    /\ now \in Nat
    /\ session \in [does : {"none", "charge", "stop", "resume"}, number : Nat, start : Nat]
    /\ txid \in {0, session.number}
    /\ session.does = "none" => txid = 0
    /\ "stop" \in bits /\ "start" \notin bits => Over
    /\ "start" \in bits => "stop" \in bits \/ session.does = "charge"

\* No profile of a transaction is in force when there is none, and the profile
\* that waits for the lock is of the transaction that is active or of one after
\* which no profile of a transaction has been accepted.
ProfileInv ==
    /\ \A p \in installed \cup accepted : IsProfile(p)
    /\ command # None =>
          /\ IsProfile(command)
          /\ command.purpose = "tx" =>
                /\ command.tx # 0
                /\ command.tx = session.number \/ Own(accepted) = {}
    /\ Over => Own(accepted) = {}

\* The profile the task is about to remove has expired.
TaskInv ==
    /\ {"pc", "cand"} \subseteq DOMAIN task
    /\ task.pc \in {"removeTx", "removeMax"} => task.cand.to < now

Inv == SessionInv /\ ProfileInv /\ TaskInv

LEMMA EndedIsProfile ==
  ASSUME NEW p, IsProfile(p)
  PROVE  /\ IsProfile([p EXCEPT !.to = 0])
         /\ [p EXCEPT !.to = 0].purpose = p.purpose
         /\ [p EXCEPT !.to = 0].tx = p.tx
BY DEF IsProfile

LEMMA SessionKept ==
  ASSUME SessionInv, [Next]_vars
  PROVE  SessionInv'
<1> USE DEF SessionInv, Over
<1>1. CASE Start
  BY <1>1 DEF Start, clock
<1>2. CASE IdReceived
  BY <1>2 DEF IdReceived, clock
<1>3. CASE Stop
  BY <1>3 DEF Stop, clock
<1>4. CASE Stopped
  BY <1>4 DEF Stopped, clock
<1>5. CASE ResumeId
  BY <1>5 DEF ResumeId, clock
<1>6. CASE ResumeStart
  BY <1>6 DEF ResumeStart, clock
<1>7. CASE Wake
  BY <1>7 DEF Wake, clock
<1>8. CASE \/ Install \/ InstallFails \/ Pass \/ RemoveExpired \/ SelectTx \/ SelectMax \/ Apply
           \/ Tick \/ UNCHANGED vars \/ (\E p \in Profiles : SetArrives(p)) \/ (\E c \in Clears : Clear(c))
  <2>1. session' = session /\ txid' = txid
    BY <1>8 DEF Install, InstallFails, Pass, RemoveExpired, SelectTx, SelectMax, Apply, Tick, SetArrives,
                Clear, vars, transaction
  <2>2. now' \in Nat
    BY <1>8 DEF Install, InstallFails, Pass, RemoveExpired, SelectTx, SelectMax, Apply, Tick, SetArrives,
                Clear, vars, clock
  <2>3. \A b \in {"start", "stop"} : b \in bits' <=> b \in bits
    BY <1>8 DEF Install, InstallFails, Pass, RemoveExpired, SelectTx, SelectMax, Apply, Tick, SetArrives,
                Clear, vars, NewBit
  <2> QED BY <2>1, <2>2, <2>3
<1> QED BY <1>1, <1>2, <1>3, <1>4, <1>5, <1>6, <1>7, <1>8 DEF Next

LEMMA ProfilesStay ==
  ASSUME ProfileInv, session' = session, installed' \subseteq installed, command' = command,
         accepted' \subseteq accepted
  PROVE  ProfileInv'
BY DEF ProfileInv, Over, Own

LEMMA InstallProfiles ==
  ASSUME SessionInv, ProfileInv, Install
  PROVE  ProfileInv'
<1>1. command # None /\ IsProfile(command)
  BY DEF Install, ProfileInv
<1>2. \A q \in installed' \cup accepted' : IsProfile(q)
  BY <1>1 DEF Install, ProfileInv
<1>3. session' = session /\ command' = None
  BY DEF Install, transaction
<1>4. Over => Own(accepted') = {}
  BY DEF Install, ProfileInv, Over, Own
<1> QED BY <1>2, <1>3, <1>4 DEF ProfileInv, Over

LEMMA ClearProfiles ==
  ASSUME ProfileInv, NEW c \in Clears, Clear(c)
  PROVE  ProfileInv'
<1>1. \A p \in installed' : IsProfile(p)
  BY EndedIsProfile DEF Clear, ProfileInv, FromMemory, Own
<1>2. accepted' \subseteq accepted /\ session' = session /\ command' = command
  BY DEF Clear, transaction
<1> QED BY <1>1, <1>2 DEF ProfileInv, Over, Own

LEMMA RemoveExpiredProfiles ==
  ASSUME ProfileInv, RemoveExpired
  PROVE  ProfileInv'
<1>1. \A p \in installed' : IsProfile(p)
  BY EndedIsProfile DEF RemoveExpired, ProfileInv, InSlot, Own
<1>2. accepted' = accepted /\ session' = session /\ command' = command
  BY DEF RemoveExpired, transaction
<1> QED BY <1>1, <1>2 DEF ProfileInv, Over, Own

LEMMA ProfilesInvariant ==
  ASSUME SessionInv, ProfileInv, [Next]_vars
  PROVE  ProfileInv'
<1>1. CASE Start
  <2>1. Own(accepted) = {} /\ accepted' = accepted /\ installed' = installed /\ command' = command
    BY <1>1 DEF Start, ProfileInv, Over
  <2> QED BY <2>1 DEF ProfileInv, Own
<1>2. CASE Stop
  <2>1. Own(accepted') = {} /\ accepted' \subseteq accepted /\ installed' = installed /\ command' = command
    BY <1>2 DEF Stop, Own
  <2> QED BY <2>1 DEF ProfileInv, Own
<1>3. CASE Stopped \/ ResumeStart
  <2>1. accepted' = accepted /\ installed' = installed /\ command' = command
    BY <1>3 DEF Stopped, ResumeStart
  <2>2. session'.number = session.number
    BY <1>3 DEF Stopped, ResumeStart, SessionInv
  <2>3. Over' => Over
    BY <1>3 DEF Stopped, ResumeStart, SessionInv, Over
  <2> QED BY <2>1, <2>2, <2>3 DEF ProfileInv, Own
<1>4. ASSUME NEW p \in Profiles, SetArrives(p) PROVE ProfileInv'
  <2>1. accepted' = accepted /\ installed' = installed /\ session' = session /\ command' = p
    BY <1>4 DEF SetArrives, transaction
  <2>2. IsProfile(p)
    BY SmartChargingAssumption
  <2>3. p.purpose = "tx" => p.tx # 0 /\ p.tx = session.number
    BY <1>4 DEF SetArrives, SessionInv
  <2> QED BY <2>1, <2>2, <2>3 DEF ProfileInv, Over, Own
<1>5. CASE Install
  BY <1>5, InstallProfiles
<1>6. CASE InstallFails
  <2>1. /\ session' = session /\ installed' \subseteq installed /\ command' = None
        /\ accepted' = accepted
    BY <1>6 DEF InstallFails, transaction
  <2> QED BY <2>1 DEF ProfileInv, Over, Own
<1>7. ASSUME NEW c \in Clears, Clear(c) PROVE ProfileInv'
  BY <1>7, ClearProfiles
<1>8. CASE RemoveExpired
  BY <1>8, RemoveExpiredProfiles
<1>9. CASE \/ IdReceived \/ ResumeId \/ Wake \/ Pass \/ SelectTx \/ SelectMax \/ Apply \/ Tick
           \/ UNCHANGED vars
  <2>1. /\ session' = session /\ installed' \subseteq installed /\ command' = command
        /\ accepted' = accepted
    BY <1>9 DEF IdReceived, ResumeId, Wake, Pass, SelectTx, SelectMax, Apply, Tick, vars, transaction,
                Forgotten
  <2> QED BY <2>1, ProfilesStay
<1> QED BY <1>1, <1>2, <1>3, <1>4, <1>5, <1>6, <1>7, <1>8, <1>9 DEF Next

LEMMA TaskInvariant ==
  ASSUME SessionInv, TaskInv, [Next]_vars
  PROVE  TaskInv'
<1>1. CASE Wake
  <2>1. {"pc", "cand"} \subseteq DOMAIN task' /\ task'.pc \in {"wait", "tx", "max", "apply"}
    BY <1>1 DEF Wake, TaskInv
  <2> QED BY <2>1 DEF TaskInv
<1>2. CASE Pass
  <2>1. {"pc", "cand"} \subseteq DOMAIN task' /\ task'.cand = Candidate /\ now' = now
    BY <1>2 DEF Pass, TaskInv, clock
  <2>2. task'.pc \in {"removeTx", "removeMax"} => Candidate.to < now
    BY <1>2 DEF Pass, TaskInv
  <2> QED BY <2>1, <2>2 DEF TaskInv
<1>3. CASE RemoveExpired
  <2>1. {"pc", "cand"} \subseteq DOMAIN task' /\ task'.pc \in {"tx", "max"}
    BY <1>3 DEF RemoveExpired, TaskInv
  <2> QED BY <2>1 DEF TaskInv
<1>4. CASE SelectTx
  <2>1. {"pc", "cand"} \subseteq DOMAIN task' /\ task'.pc \in {"max", "apply"}
    BY <1>4 DEF SelectTx, TaskInv
  <2> QED BY <2>1 DEF TaskInv
<1>5. CASE SelectMax
  <2>1. {"pc", "cand"} \subseteq DOMAIN task' /\ task'.pc = "apply"
    BY <1>5 DEF SelectMax, TaskInv
  <2> QED BY <2>1 DEF TaskInv
<1>6. CASE Apply
  <2>1. {"pc", "cand"} \subseteq DOMAIN task' /\ task'.pc = "wait"
    BY <1>6 DEF Apply, TaskInv
  <2> QED BY <2>1 DEF TaskInv
<1>7. CASE Tick
  <2>1. task' = task /\ task.pc = "wait"
    BY <1>7 DEF Tick
  <2> QED BY <2>1 DEF TaskInv
<1>8. CASE \/ Start \/ IdReceived \/ Stop \/ Stopped \/ ResumeId \/ ResumeStart \/ Install
           \/ InstallFails \/ UNCHANGED vars \/ (\E p \in Profiles : SetArrives(p))
           \/ (\E c \in Clears : Clear(c))
  <2>1. task' = task /\ now' = now
    BY <1>8 DEF Start, IdReceived, Stop, Stopped, ResumeId, ResumeStart, Install, InstallFails, vars,
                SetArrives, Clear, clock
  <2> QED BY <2>1 DEF TaskInv
<1> QED BY <1>1, <1>2, <1>3, <1>4, <1>5, <1>6, <1>7, <1>8 DEF Next

LEMMA Invariant == Spec => []Inv
<1>1. Init => Inv
  <2> SUFFICES ASSUME Init PROVE Inv
    OBVIOUS
  <2>1. SessionInv
    BY DEF Init, SessionInv, Over
  <2>2. ProfileInv
    BY DEF Init, ProfileInv, Own
  <2>3. TaskInv
    BY DEF Init, TaskInv, NoTask
  <2> QED BY <2>1, <2>2, <2>3 DEF Inv
<1>2. Inv /\ [Next]_vars => Inv'
  BY SessionKept, ProfilesInvariant, TaskInvariant DEF Inv
<1> QED BY <1>1, <1>2, PTL DEF Spec

-----------------------------------------------------------------------------
(* No profile in force is lost.                                            *)

\* The filters by which the charger clears what the central system means.  By
\* level and identifier, or for the default purpose, it clears other profiles.
ClearsWhatItSays ==
    \A c \in Clears : c.purpose # "default" /\ (c.id = None \/ c.level = None)

LEMMA InstallKeeps ==
  ASSUME Inv, Install, NEW q \in accepted', q \in accepted => q \in installed
  PROVE  q \in installed'
<1>1. command # None /\ IsProfile(command)
  BY DEF Install, Inv, ProfileInv
<1>2. CASE q = command
  BY <1>2 DEF Install
<1>3. CASE q # command
  <2>1. q \in accepted /\ q \in installed
    BY <1>3 DEF Install
  <2>2. q.purpose # command.purpose \/ q.level # command.level
    <3>1. CASE command.purpose = "tx" /\ (Over \/ session.number # command.tx)
      <4>1. Own(accepted) = {}
        BY <1>1, <3>1 DEF Inv, ProfileInv
      <4> QED BY <2>1, <3>1, <4>1 DEF Own
    <3>2. CASE ~(command.purpose = "tx" /\ (Over \/ session.number # command.tx))
      BY <1>3, <3>2 DEF Install, Over
    <3> QED BY <3>1, <3>2
  <2> QED BY <2>1, <2>2 DEF Install, InSlot
<1> QED BY <1>2, <1>3

LEMMA ClearKeeps ==
  ASSUME ClearsWhatItSays, NEW c \in Clears, Clear(c), NEW q \in accepted', q \in installed
  PROVE  q \in installed'
<1>1. ~Matches(q, c)
  BY DEF Clear
<1>2. c.purpose # "default" /\ (c.id = None \/ c.level = None)
  BY DEF ClearsWhatItSays
<1>3. q \notin FromMemory(c)
  BY <1>1, <1>2 DEF FromMemory, Own, Matches
<1>4. q \notin FromFile(c)
  BY <1>1, <1>2 DEF FromFile, Own, Matches
<1> QED BY <1>3, <1>4 DEF Clear

Lossless(os) == os \cap {"raced", "unwritten", "both"} = {}

LEMMA Keeps ==
  ASSUME ClearsWhatItSays, Inv, [Next]_vars, ProfilesKept
  PROVE  ProfilesKept'
<1> SUFFICES ASSUME Lossless(odd'), NEW q \in accepted', q.to >= now' PROVE q \in installed'
  BY DEF ProfilesKept, Lossless
<1>1. Lossless(odd)
  BY DEF Lossless, Next, vars, Start, IdReceived, Stop, Stopped, ResumeId, ResumeStart, SetArrives, Install,
         InstallFails, Clear, Wake, Pass, RemoveExpired, SelectTx, SelectMax, Apply, Tick, Note
<1>2. now \in Nat /\ (now' = now \/ now' = now + 1)
  BY DEF Inv, SessionInv, clock, Next, vars, Start, IdReceived, Stop, Stopped, ResumeId, ResumeStart,
         SetArrives, Install, InstallFails, Clear, Wake, Pass, RemoveExpired, SelectTx, SelectMax, Apply, Tick
<1>3. q \in accepted => q \in installed
  <2> SUFFICES ASSUME q \in accepted PROVE q \in installed
    OBVIOUS
  <2>1. q.to \in Nat
    BY DEF Inv, ProfileInv, IsProfile
  <2>2. q.to >= now
    BY <1>2, <2>1
  <2> QED BY <1>1, <2>2 DEF ProfilesKept, Lossless
<1>4. CASE Install
  BY <1>3, <1>4, InstallKeeps
<1>5. CASE InstallFails
  BY <1>5 DEF InstallFails, Note, Lossless
<1>6. ASSUME NEW c \in Clears, Clear(c) PROVE q \in installed'
  <2>1. q \in accepted
    BY <1>6 DEF Clear
  <2> QED BY <1>3, <1>6, <2>1, ClearKeeps
<1>7. CASE RemoveExpired
  <2>1. InSlot(task.cand) \subseteq {task.cand}
    BY <1>7 DEF RemoveExpired, Note, Lossless
  <2>2. task.cand.to < now /\ now' = now
    BY <1>7 DEF RemoveExpired, Inv, TaskInv, clock
  <2>3. q \in accepted /\ q \in installed /\ q.to \in Nat
    BY <1>3, <1>7 DEF RemoveExpired, Inv, ProfileInv, IsProfile
  <2>4. q # task.cand
    BY <1>2, <2>2, <2>3
  <2> QED BY <1>7, <2>1, <2>3, <2>4 DEF RemoveExpired
<1>8. CASE Wake
  <2>1. q \in accepted /\ q \in installed
    BY <1>3, <1>8 DEF Wake
  <2>2. CASE "stop" \in bits
    <3>1. "start" \notin bits
      BY <1>8, <2>2 DEF Wake, Note, Lossless
    <3>2. Own(accepted) = {}
      BY <2>2, <3>1 DEF Inv, SessionInv, ProfileInv
    <3>3. q.purpose # "tx"
      BY <2>1, <3>2 DEF Own
    <3>4. q \in Forgotten
      BY <2>1, <3>3 DEF Forgotten, Own
    <3> QED BY <1>8, <2>1, <3>4 DEF Wake
  <2>3. CASE "stop" \notin bits
    BY <1>8, <2>1, <2>3 DEF Wake
  <2> QED BY <2>2, <2>3
<1>9. CASE \/ Start \/ IdReceived \/ Stop \/ Stopped \/ ResumeId \/ ResumeStart \/ Pass \/ SelectTx
           \/ SelectMax \/ Apply \/ Tick \/ UNCHANGED vars \/ (\E p \in Profiles : SetArrives(p))
  <2>1. installed' = installed /\ accepted' \subseteq accepted
    BY <1>9 DEF Start, IdReceived, Stop, Stopped, ResumeId, ResumeStart, Pass, SelectTx, SelectMax, Apply,
                Tick, vars, SetArrives
  <2> QED BY <1>3, <2>1
<1> QED BY <1>4, <1>5, <1>6, <1>7, <1>8, <1>9 DEF Next

\* A charging profile the central system was told is accepted stays until it expires, is
\* cleared or replaced, or its transaction ends: update_charging_profile, clear_charging_profile_cb
\* and ocpp_smart_task remove no other, whatever the order of their steps.  Filters by which
\* the charger clears the wrong profiles are excepted, and the coincidences of the property.
THEOREM ProfilesKeptHolds ==
  ASSUME ClearsWhatItSays
  PROVE  Spec => []ProfilesKept
<1>1. Init => ProfilesKept
  BY DEF Init, ProfilesKept
<1>2. Inv /\ [Next]_vars /\ ProfilesKept => ProfilesKept'
  BY Keeps
<1> QED BY <1>1, <1>2, Invariant, PTL DEF Spec

-----------------------------------------------------------------------------
(* The profiles of a transaction end with it.                              *)

\* A profile of a transaction is of the one that runs, or its end is still to be
\* noticed; the task takes no transaction for active whose end it has noticed.
TxInv ==
    odd \cap {"slow", "both", "revived"} = {} =>
        /\ \A p \in Own(installed) :
              "stop" \in bits \/ (session.does \in {"charge", "resume"} /\ p.tx = session.number)
        /\ Over /\ "stop" \notin bits => ~active

LEMMA WakeEnds ==
  ASSUME SessionInv, TxInv, Wake
  PROVE  TxInv'
<1> SUFFICES ASSUME odd' \cap {"slow", "both", "revived"} = {}
    PROVE  /\ \A p \in Own(installed') : session.does \in {"charge", "resume"} /\ p.tx = session.number
           /\ Over => ~active'
  <2>1. bits' = {} /\ session' = session
    BY DEF Wake
  <2> QED BY <2>1 DEF TxInv, Over
<1>1. odd \cap {"slow", "both", "revived"} = {}
  BY DEF Wake, Note
<1>2. ~({"start", "stop"} \subseteq bits)
  BY DEF Wake, Note
<1>3. CASE "stop" \in bits
  <2>1. Own(installed') = {}
    BY <1>2, <1>3 DEF Wake, Forgotten, Own
  <2>2. Over => ~active'
    BY <1>2, <1>3 DEF Wake, Note, Over
  <2> QED BY <2>1, <2>2
<1>4. CASE "stop" \notin bits
  <2>1. installed' = installed
    BY <1>4 DEF Wake
  <2>2. Over => "start" \notin bits
    BY <1>4 DEF SessionInv, Over
  <2>3. Over => ~active'
    BY <1>1, <1>4, <2>2 DEF Wake, Note, Over, TxInv
  <2> QED BY <1>1, <1>4, <2>1, <2>3 DEF TxInv
<1> QED BY <1>3, <1>4

LEMMA InstallEnds ==
  ASSUME SessionInv, ProfileInv, TxInv, Install
  PROVE  TxInv'
<1> SUFFICES ASSUME odd' \cap {"slow", "both", "revived"} = {}
    PROVE  /\ \A p \in Own(installed') :
                 "stop" \in bits \/ (session.does \in {"charge", "resume"} /\ p.tx = session.number)
           /\ Over /\ "stop" \notin bits => ~active
  <2>1. ("stop" \in bits' <=> "stop" \in bits) /\ session' = session /\ active' = active
    BY DEF Install, NewBit, transaction
  <2> QED BY <2>1 DEF TxInv, Over
<1>1. odd \cap {"slow", "both", "revived"} = {}
  BY DEF Install, Note
<1>2. command.purpose = "tx" => active /\ txid = command.tx /\ command.tx # 0
  BY DEF Install, Note, ProfileInv
<1>3. command.purpose = "tx" => command.tx = session.number /\ session.does # "none"
  BY <1>2 DEF SessionInv
<1>4. command.purpose = "tx" => "stop" \in bits \/ session.does \in {"charge", "resume"}
  BY <1>1, <1>2, <1>3 DEF SessionInv, TxInv, Over
<1> QED BY <1>1, <1>3, <1>4 DEF Install, TxInv, Own

LEMMA Ends ==
  ASSUME SessionInv, ProfileInv, TxInv, [Next]_vars
  PROVE  TxInv'
<1>1. CASE Wake
  BY <1>1, WakeEnds
<1>2. CASE Install
  BY <1>2, InstallEnds
<1>3. CASE Start
  BY <1>3 DEF Start, TxInv, Over, Own
<1>4. CASE Stop
  BY <1>4 DEF Stop, TxInv, Over, Own
<1>5. CASE Stopped
  BY <1>5 DEF Stopped, TxInv, Over, Own, SessionInv
<1>6. CASE ResumeStart
  BY <1>6 DEF ResumeStart, TxInv, Over, Own, SessionInv
<1>7. CASE (\E c \in Clears : Clear(c)) \/ RemoveExpired
  <2>1. \A p \in Own(installed') : \E q \in Own(installed) : q.tx = p.tx
    <3> SUFFICES ASSUME NEW p \in Own(installed') PROVE \E q \in Own(installed) : q.tx = p.tx
      OBVIOUS
    <3>1. p \in installed \/ \E q \in Own(installed) : p = [q EXCEPT !.to = 0]
      BY <1>7 DEF Clear, RemoveExpired, FromMemory, InSlot, Own
    <3>2. CASE p \in installed
      BY <3>2 DEF Own
    <3>3. ASSUME NEW q \in Own(installed), p = [q EXCEPT !.to = 0] PROVE q.tx = p.tx
      BY <3>3, EndedIsProfile DEF Own, ProfileInv
    <3> QED BY <3>1, <3>2, <3>3
  <2>2. /\ ("stop" \in bits' <=> "stop" \in bits) /\ session' = session /\ active' = active
        /\ odd \subseteq odd'
    BY <1>7 DEF Clear, RemoveExpired, NewBit, transaction, Note
  <2> QED BY <2>1, <2>2 DEF TxInv, Over
<1>8. CASE \/ IdReceived \/ ResumeId \/ InstallFails \/ Pass \/ SelectTx \/ SelectMax \/ Apply \/ Tick
           \/ UNCHANGED vars \/ (\E p \in Profiles : SetArrives(p))
  <2>1. /\ installed' \subseteq installed /\ ("stop" \in bits' <=> "stop" \in bits)
        /\ session' = session /\ active' = active /\ odd \subseteq odd'
    BY <1>8 DEF IdReceived, ResumeId, InstallFails, Pass, SelectTx, SelectMax, Apply, Tick, vars,
                transaction, SetArrives, Note
  <2> QED BY <2>1 DEF TxInv, Over, Own
<1> QED BY <1>1, <1>2, <1>3, <1>4, <1>5, <1>6, <1>7, <1>8 DEF Next

\* When the task has dealt with everything, no profile of a transaction is left after the
\* transaction: ocpp_smart_task forgets them all when it notices the end, and one that was
\* checked before is not installed after (but for the coincidences of the property).
THEOREM TxEndsHolds == Spec => []TxEnds
<1>1. Init => TxInv
  BY DEF Init, TxInv, Own
<1>2. Inv /\ [Next]_vars /\ TxInv => TxInv'
  BY Ends DEF Inv
<1>3. Inv /\ TxInv => TxEnds
  BY DEF Inv, SessionInv, TxInv, TxEnds, AtRest
<1> QED BY <1>1, <1>2, <1>3, Invariant, PTL DEF Spec

-----------------------------------------------------------------------------
(* combine_schedules.  The numbers of a set have a least one, and counting  *)
(* up reaches every number: that is what a list and a recursive function    *)
(* need, as induction over them is not to be had.                           *)

LEMMA LeastNumber ==
    ASSUME NEW S \in SUBSET Nat, S # {}
    PROVE  \E m \in S : \A k \in S : m <= k
  <1>1. IsWellFoundedOn(OpToRel(<, Nat), Nat)
    BY NatLessThanWellFounded
  <1>2. PICK m \in S : \A k \in S : ~(<<k, m>> \in OpToRel(<, Nat))
    BY <1>1, WFMin
  <1>3. ASSUME NEW k \in S PROVE m <= k
    <2>1. ~(k < m)
      BY <1>2 DEF OpToRel
    <2> QED BY <2>1
  <1> QED BY <1>3

LEMMA GreatestNumber ==
    ASSUME NEW n \in Nat, NEW S \in SUBSET (1 .. n), S # {}
    PROVE  \E m \in S : \A k \in S : k <= m
  <1> DEFINE T == {k \in Nat : \A i \in S : i <= k}
  <1>1. T \in SUBSET Nat /\ n \in T
    OBVIOUS
  <1>2. PICK m \in T : \A k \in T : m <= k
    <2> HIDE DEF T
    <2> QED BY <1>1, LeastNumber
  <1>3. m \in S
    <2> SUFFICES ASSUME m \notin S PROVE FALSE
      OBVIOUS
    <2>0. m \in Nat /\ \A i \in S : i <= m
      OBVIOUS
    <2>1. \A i \in S : i <= m /\ i # m /\ i \in Int /\ i >= 1
      <3> HIDE DEF T
      <3>1. \A i \in S : i \in 1 .. n
        OBVIOUS
      <3> QED BY <2>0, <3>1
    <2>2. m >= 1 /\ m \in Nat
      <3>1. PICK i \in S : TRUE
        OBVIOUS
      <3> QED BY <2>0, <2>1, <3>1
    <2>3. m - 1 \in T
      BY <2>1, <2>2
    <2> HIDE DEF T
    <2> QED BY <1>2, <2>2, <2>3
  <1> QED BY <1>3

\* Counting up from 0 reaches every number: what a definition by recursion needs.
LEMMA CountUp ==
    ASSUME NEW n \in Nat, NEW S, 0 \in S, \A k \in 0 .. n - 1 : k \in S => k + 1 \in S
    PROVE  \A k \in 0 .. n : k \in S
  <1> DEFINE T == {k \in 0 .. n : k \notin S}
  <1> SUFFICES ASSUME T # {} PROVE FALSE
    OBVIOUS
  <1>1. PICK m \in T : \A k \in T : m <= k
    <2>1. T \in SUBSET Nat
      OBVIOUS
    <2> HIDE DEF T
    <2> QED BY <2>1, LeastNumber
  <1>2. m \in 0 .. n /\ m \notin S /\ m # 0
    OBVIOUS
  <1>3. m - 1 \in 0 .. n - 1 /\ (m - 1) + 1 = m
    BY <1>2
  <1>4. m - 1 \in S
    <2>1. m - 1 \in 0 .. n /\ ~(m <= m - 1)
      BY <1>2
    <2>2. m - 1 \notin T
      <3> HIDE DEF T
      <3> QED BY <1>1, <2>1
    <2> QED BY <2>1, <2>2
  <1>5. (m - 1) + 1 \in S
    BY <1>3, <1>4
  <1> QED BY <1>2, <1>3, <1>5

-----------------------------------------------------------------------------
(* Lists of periods.                                                       *)

Entry == [at : Int, limit : Int]
Rising(list) == \A i, j \in 1 .. Len(list) : i < j => list[i].at < list[j].at
\* What a list says at an offset.
ValueAt(list, t) == list[At(list, t)].limit

LEMMA EntryTypes ==
    ASSUME NEW l \in Seq(Entry), NEW i \in 1 .. Len(l)
    PROVE  l[i] \in Entry /\ l[i].at \in Int /\ l[i].limit \in Int
  <1>1. l[i] \in Entry
    OBVIOUS
  <1> QED BY <1>1 DEF Entry

LEMMA MaxIs ==
    ASSUME NEW S \in SUBSET Int, NEW m \in S, \A k \in S : k <= m
    PROVE  Max(S) = m
  <1>1. \A x \in S : (\A y \in S : x >= y) => x = m
    OBVIOUS
  <1>2. \A y \in S : m >= y
    OBVIOUS
  <1> QED BY <1>1, <1>2 DEF Max

\* The period in force at an offset.
LEMMA PeriodAt ==
    ASSUME NEW l \in Seq(Entry), Rising(l), NEW t \in Int, NEW i \in 1 .. Len(l),
           l[i].at <= t, i = Len(l) \/ t < l[i + 1].at
    PROVE  At(l, t) = i
  <1>1. PICK n \in Nat : n = Len(l) /\ DOMAIN l = 1 .. n
    OBVIOUS
  <1>2. \A k \in 1 .. n : l[k].at \in Int
    BY <1>1, EntryTypes
  <1>3. PICK S : S = {k \in 1 .. n : l[k].at <= t}
    OBVIOUS
  <1>4. i \in S /\ S \in SUBSET Int
    BY <1>1, <1>3
  <1>5. ASSUME NEW k \in S PROVE k <= i
    <2> SUFFICES ASSUME i < k PROVE FALSE
      BY <1>1, <1>3
    <2>1. k \in 1 .. n /\ l[k].at <= t /\ i \in 1 .. n
      BY <1>1, <1>3
    <2>2. i + 1 \in 1 .. n /\ (i + 1 = k \/ i + 1 < k) /\ i # n
      BY <2>1
    <2>3. l[i + 1].at <= l[k].at
      BY <1>1, <1>2, <2>1, <2>2 DEF Rising
    <2> QED BY <1>1, <1>2, <2>1, <2>2, <2>3
  <1>6. Max(S) = i
    BY <1>4, <1>5, MaxIs
  <1> QED BY <1>1, <1>3, <1>6 DEF At

LEMMA SomePeriod ==
    ASSUME NEW l \in Seq(Entry), Rising(l), l # <<>>, NEW t \in Int, l[1].at <= t
    PROVE  \E i \in 1 .. Len(l) : l[i].at <= t /\ (i = Len(l) \/ t < l[i + 1].at)
  <1>1. PICK n \in Nat : n = Len(l) /\ 1 \in 1 .. n
    OBVIOUS
  <1>2. PICK S : S = {k \in 1 .. n : l[k].at <= t}
    OBVIOUS
  <1>3. 1 \in S /\ S \in SUBSET (1 .. n)
    BY <1>1, <1>2
  <1>4. PICK i \in S : \A k \in S : k <= i
    BY <1>3, GreatestNumber
  <1>5. i \in 1 .. n /\ l[i].at <= t
    BY <1>2
  <1>6. i = n \/ t < l[i + 1].at
    <2> SUFFICES ASSUME i # n PROVE t < l[i + 1].at
      OBVIOUS
    <2>1. i + 1 \in 1 .. n /\ ~(i + 1 <= i)
      BY <1>5
    <2>2. i + 1 \notin S
      BY <1>4, <2>1
    <2>3. ~(l[i + 1].at <= t) /\ l[i + 1].at \in Int
      BY <1>1, <1>2, <2>1, <2>2, EntryTypes
    <2> QED BY <2>3
  <1> QED BY <1>1, <1>5, <1>6

\* The last period holds from its start on.
LEMMA ValueLast ==
    ASSUME NEW l \in Seq(Entry), Rising(l), l # <<>>, NEW t \in Int, l[Len(l)].at <= t
    PROVE  ValueAt(l, t) = l[Len(l)].limit
  <1>1. Len(l) \in 1 .. Len(l)
    OBVIOUS
  <1>2. At(l, t) = Len(l)
    BY <1>1, PeriodAt
  <1> QED BY <1>2 DEF ValueAt

\* The first one holds until the second.
LEMMA ValueFirst ==
    ASSUME NEW l \in Seq(Entry), Rising(l), l # <<>>, NEW t \in Int, l[1].at <= t, Len(l) = 1 \/ t < l[2].at
    PROVE  ValueAt(l, t) = l[1].limit
  <1>1. 1 \in 1 .. Len(l) /\ 1 + 1 = 2
    OBVIOUS
  <1>2. At(l, t) = 1
    BY <1>1, PeriodAt
  <1> QED BY <1>2 DEF ValueAt

LEMMA ValueAppend ==
    ASSUME NEW l \in Seq(Entry), Rising(l), l # <<>>, NEW e \in Entry, l[Len(l)].at < e.at, NEW t \in Int
    PROVE  /\ Append(l, e) \in Seq(Entry) /\ Rising(Append(l, e)) /\ Append(l, e) # <<>>
           /\ Append(l, e)[1] = l[1] /\ Append(l, e)[Len(Append(l, e))] = e
           /\ l[1].at <= t /\ t < e.at => ValueAt(Append(l, e), t) = ValueAt(l, t)
  <1>1. PICK m \in Seq(Entry) : m = Append(l, e)
    <2>1. Append(l, e) \in Seq(Entry)
      OBVIOUS
    <2> QED BY <2>1, Zenon
  <1>2. PICK n \in Nat : n = Len(l) /\ n > 0
    OBVIOUS
  <1>3. Len(m) = n + 1 /\ m[n + 1] = e /\ \A i \in 1 .. n : m[i] = l[i]
    BY <1>1, <1>2
  <1>4. \A i \in 1 .. n : l[i].at \in Int
    BY <1>2, EntryTypes
  <1>5. e.at \in Int
    BY DEF Entry
  <1>6. Rising(m)
    <2> SUFFICES ASSUME NEW i \in 1 .. n + 1, NEW j \in 1 .. n + 1, i < j PROVE m[i].at < m[j].at
      BY <1>3 DEF Rising
    <2>1. i \in 1 .. n /\ (j \in 1 .. n \/ j = n + 1) /\ n \in 1 .. n
      BY <1>2
    <2>2. i = n \/ l[i].at < l[n].at
      BY <1>2, <2>1 DEF Rising
    <2>3. CASE j = n + 1
      BY <1>2, <1>3, <1>4, <1>5, <2>1, <2>2, <2>3
    <2>4. CASE j \in 1 .. n
      BY <1>2, <1>3, <2>1, <2>4 DEF Rising
    <2> QED BY <2>1, <2>3, <2>4
  <1>7. ASSUME l[1].at <= t, t < e.at PROVE ValueAt(m, t) = ValueAt(l, t)
    <2>1. PICK i \in 1 .. n : l[i].at <= t /\ (i = n \/ t < l[i + 1].at)
      BY <1>2, <1>7, SomePeriod
    <2>2. At(l, t) = i
      BY <1>2, <2>1, PeriodAt
    <2>3. m[i] = l[i] /\ i \in 1 .. n + 1 /\ t < m[i + 1].at
      <3>1. CASE i = n
        BY <1>2, <1>3, <1>7, <3>1
      <3>2. CASE i # n
        <4>1. i + 1 \in 1 .. n
          BY <3>2
        <4> QED BY <1>3, <2>1, <3>2, <4>1
      <3> QED BY <3>1, <3>2
    <2>4. At(m, t) = i
      BY <1>3, <1>6, <2>1, <2>3, PeriodAt
    <2> QED BY <2>2, <2>3, <2>4 DEF ValueAt
  <1>8. m # <<>> /\ m[1] = l[1]
    BY <1>2, <1>3
  <1>9. m[Len(m)] = e
    BY <1>3
  <1> QED BY <1>1, <1>6, <1>7, <1>8, <1>9, Zenon

LEMMA ValueTail ==
    ASSUME NEW l \in Seq(Entry), Rising(l), Len(l) > 1, NEW t \in Int
    PROVE  /\ Tail(l) \in Seq(Entry) /\ Rising(Tail(l)) /\ Len(Tail(l)) = Len(l) - 1 /\ Tail(l) # <<>>
           /\ \A i \in 1 .. Len(l) - 1 : Tail(l)[i] = l[i + 1]
           /\ l[2].at <= t => ValueAt(Tail(l), t) = ValueAt(l, t)
  <1>1. PICK m \in Seq(Entry) : m = Tail(l)
    <2>1. l # <<>>
      OBVIOUS
    <2>2. Tail(l) \in Seq(Entry)
      BY <2>1
    <2> QED BY <2>2, Zenon
  <1>2. PICK n \in Nat : n = Len(l) /\ n > 1
    OBVIOUS
  <1>3. Len(m) = n - 1 /\ \A i \in 1 .. n - 1 : m[i] = l[i + 1]
    BY <1>1, <1>2
  <1>4. m # <<>>
    BY <1>2, <1>3
  <1>5. Rising(m)
    <2> SUFFICES ASSUME NEW i \in 1 .. n - 1, NEW j \in 1 .. n - 1, i < j PROVE m[i].at < m[j].at
      BY <1>3 DEF Rising
    <2>1. i + 1 \in 1 .. n /\ j + 1 \in 1 .. n /\ i + 1 < j + 1
      BY <1>2
    <2>2. l[i + 1].at < l[j + 1].at
      BY <1>2, <2>1 DEF Rising
    <2> QED BY <1>3, <2>2
  <1>6. ASSUME l[2].at <= t PROVE ValueAt(m, t) = ValueAt(l, t)
    <2>1. m[1].at <= t
      <3>1. 1 \in 1 .. n - 1 /\ 1 + 1 = 2
        BY <1>2
      <3> QED BY <1>3, <1>6, <3>1
    <2>2. PICK i \in 1 .. n - 1 : m[i].at <= t /\ (i = n - 1 \/ t < m[i + 1].at)
      BY <1>3, <1>4, <1>5, <2>1, SomePeriod
    <2>3. At(m, t) = i
      BY <1>3, <1>5, <2>2, PeriodAt
    <2>4. i + 1 \in 1 .. n /\ l[i + 1].at <= t /\ (i + 1 = n \/ t < l[(i + 1) + 1].at) /\ m[i] = l[i + 1]
      <3>1. i = n - 1 \/ i + 1 \in 1 .. n - 1
        OBVIOUS
      <3> QED BY <1>2, <1>3, <2>2, <3>1
    <2>5. At(l, t) = i + 1
      BY <1>2, <2>4, PeriodAt
    <2> QED BY <2>3, <2>4, <2>5 DEF ValueAt
  <1>7. Len(m) = Len(l) - 1 /\ \A i \in 1 .. Len(l) - 1 : m[i] = l[i + 1]
    BY <1>2, <1>3
  <1> QED BY <1>1, <1>4, <1>5, <1>6, <1>7, Zenon

-----------------------------------------------------------------------------
(* A turn of combine_schedules.                                            *)

LowerOf(u, v) == IF u < v THEN u ELSE v
LaterOf(u, v) == IF u > v THEN u ELSE v

LEMMA MaxOfTwo ==
    ASSUME NEW u \in Int, NEW v \in Int
    PROVE  Max({u, v}) = LaterOf(u, v)
  <1>1. LaterOf(u, v) \in {u, v} /\ \A k \in {u, v} : k <= LaterOf(u, v)
    BY DEF LaterOf
  <1>2. {u, v} \in SUBSET Int
    OBVIOUS
  <1> QED BY <1>1, <1>2, MaxIs

LEMMA MinOfTwo ==
    ASSUME NEW u \in Int, NEW v \in Int
    PROVE  Min({u, v}) = LowerOf(u, v)
  <1>1. LowerOf(u, v) \in {u, v} /\ \A y \in {u, v} : LowerOf(u, v) <= y
    BY DEF LowerOf
  <1>2. \A x \in {u, v} : (\A y \in {u, v} : x <= y) => x = LowerOf(u, v)
    BY DEF LowerOf
  <1> QED BY <1>1, <1>2 DEF Min

\* What is left of a list: it says what the list says from its first entry on.
RestOf(x, l) ==
    /\ x \in Seq(Entry) /\ Rising(x) /\ x # <<>>
    /\ \A t \in Int : x[1].at <= t => ValueAt(x, t) = ValueAt(l, t)

Latest(x, y) == LaterOf(x[1].at, y[1].at)
\* The next entries are later than both of the first.
Ahead(x, y) ==
    /\ Len(x) > 1 => Latest(x, y) < x[2].at
    /\ Len(y) > 1 => Latest(x, y) < y[2].at

LEMMA RestTypes ==
    ASSUME NEW l, NEW x, RestOf(x, l)
    PROVE  /\ Len(x) \in Nat /\ Len(x) > 0 /\ (Len(x) = 1 \/ Len(x) > 1)
           /\ x[1].at \in Int /\ x[1].limit \in Int
           /\ Len(x) > 1 => x[2].at \in Int /\ x[1].at < x[2].at
           /\ Len(x) > 2 => x[3].at \in Int /\ x[2].at < x[3].at
  <1>1. PICK n \in Nat : n = Len(x) /\ n > 0 /\ x \in Seq(Entry) /\ Rising(x)
    BY DEF RestOf
  <1>2. 1 \in 1 .. n /\ (n > 1 => 2 \in 1 .. n) /\ (n > 2 => 3 \in 1 .. n)
    BY <1>1
  <1> QED BY <1>1, <1>2, EntryTypes DEF Rising

LEMMA RestTail ==
    ASSUME NEW l, NEW x, RestOf(x, l), Len(x) > 1
    PROVE  /\ RestOf(Tail(x), l) /\ Len(Tail(x)) = Len(x) - 1 /\ Tail(x)[1] = x[2]
           /\ Len(Tail(x)) > 1 => Tail(x)[2] = x[3]
  <1>1. PICK n \in Nat : n = Len(x) /\ n > 1 /\ x \in Seq(Entry) /\ Rising(x)
    BY DEF RestOf
  <1>2. /\ Tail(x) \in Seq(Entry) /\ Rising(Tail(x)) /\ Len(Tail(x)) = n - 1 /\ Tail(x) # <<>>
        /\ \A i \in 1 .. n - 1 : Tail(x)[i] = x[i + 1]
    <2>1. 0 \in Int
      OBVIOUS
    <2> QED BY <1>1, <2>1, ValueTail
  <1>3. 1 \in 1 .. n - 1 /\ (n - 1 > 1 => 2 \in 1 .. n - 1) /\ 1 + 1 = 2 /\ 2 + 1 = 3
    BY <1>1
  <1>4. Tail(x)[1] = x[2] /\ (n - 1 > 1 => Tail(x)[2] = x[3])
    BY <1>2, <1>3
  <1>5. ASSUME NEW t \in Int, x[2].at <= t PROVE ValueAt(Tail(x), t) = ValueAt(l, t)
    <2>1. x[1].at <= t
      BY <1>1, <1>5, RestTypes
    <2> QED BY <1>1, <1>5, <2>1, ValueTail DEF RestOf
  <1>6. RestOf(Tail(x), l)
    BY <1>2, <1>4, <1>5 DEF RestOf
  <1> QED BY <1>1, <1>2, <1>4, <1>6

\* From the later of the first entries to the next entry the first entries are in force.
LEMMA InForce ==
    ASSUME NEW l, NEW m, NEW x, NEW y, RestOf(x, l), RestOf(y, m), NEW t \in Int, Latest(x, y) <= t,
           Len(x) > 1 => t < x[2].at, Len(y) > 1 => t < y[2].at
    PROVE  ValueAt(l, t) = x[1].limit /\ ValueAt(m, t) = y[1].limit
  <1>1. x[1].at <= t /\ y[1].at <= t
    BY RestTypes DEF Latest, LaterOf
  <1>2. Len(x) = 1 \/ t < x[2].at
    <2>1. Len(x) = 1 \/ Len(x) > 1
      BY RestTypes, Zenon
    <2> QED BY <2>1, Zenon
  <1>3. Len(y) = 1 \/ t < y[2].at
    <2>1. Len(y) = 1 \/ Len(y) > 1
      BY RestTypes, Zenon
    <2> QED BY <2>1, Zenon
  <1>4. ValueAt(x, t) = x[1].limit
    BY <1>1, <1>2, ValueFirst DEF RestOf
  <1>5. ValueAt(y, t) = y[1].limit
    BY <1>1, <1>3, ValueFirst DEF RestOf
  <1> QED BY <1>1, <1>4, <1>5 DEF RestOf

\* The list whose next entry is earlier moves to it.
LEMMA OneMoves ==
    ASSUME NEW l, NEW m, NEW x, NEW y, RestOf(x, l), RestOf(y, m), Ahead(x, y), Len(x) > 1,
           Len(y) = 1 \/ x[2].at < y[2].at
    PROVE  Latest(Tail(x), y) = x[2].at /\ Ahead(Tail(x), y)
  <1>1. /\ Len(Tail(x)) = Len(x) - 1 /\ Tail(x)[1] = x[2]
        /\ Len(Tail(x)) > 1 => Tail(x)[2] = x[3]
    BY RestTail
  <1>2. Latest(x, y) < x[2].at /\ y[1].at < x[2].at
    BY RestTypes DEF Ahead, Latest, LaterOf
  <1>3. Latest(Tail(x), y) = x[2].at
    BY <1>1, <1>2, RestTypes DEF Latest, LaterOf
  <1>4. Len(Tail(x)) > 1 => x[2].at < Tail(x)[2].at
    BY <1>1, RestTypes
  <1>5. Len(y) > 1 => x[2].at < y[2].at
    BY RestTypes
  <1> QED BY <1>3, <1>4, <1>5 DEF Ahead

\* Both move when their next entries begin together.
LEMMA BothMove ==
    ASSUME NEW l, NEW m, NEW x, NEW y, RestOf(x, l), RestOf(y, m), Ahead(x, y), Len(x) > 1, Len(y) > 1,
           x[2].at = y[2].at
    PROVE  Latest(Tail(x), Tail(y)) = x[2].at /\ Ahead(Tail(x), Tail(y))
  <1>1. /\ Len(Tail(x)) = Len(x) - 1 /\ Tail(x)[1] = x[2]
        /\ Len(Tail(x)) > 1 => Tail(x)[2] = x[3]
    BY RestTail
  <1>2. /\ Len(Tail(y)) = Len(y) - 1 /\ Tail(y)[1] = y[2]
        /\ Len(Tail(y)) > 1 => Tail(y)[2] = y[3]
    BY RestTail
  <1>3. Latest(Tail(x), Tail(y)) = x[2].at
    BY <1>1, <1>2, RestTypes DEF Latest, LaterOf
  <1>4. Len(Tail(x)) > 1 => x[2].at < Tail(x)[2].at
    BY <1>1, RestTypes
  <1>5. Len(Tail(y)) > 1 => x[2].at < Tail(y)[2].at
    BY <1>2, RestTypes
  <1> QED BY <1>3, <1>4, <1>5 DEF Ahead

LEMMA LatestSwaps ==
    ASSUME NEW l, NEW m, NEW x, NEW y, RestOf(x, l), RestOf(y, m)
    PROVE  Latest(x, y) = Latest(y, x) /\ (Ahead(x, y) <=> Ahead(y, x))
  <1>1. Latest(x, y) = Latest(y, x)
    BY RestTypes DEF Latest, LaterOf
  <1> QED BY <1>1 DEF Ahead

\* The period a turn writes, and the list with it.
Period(x, y) == [at |-> Latest(x, y), limit |-> LowerOf(x[1].limit, y[1].limit)]
Wider(o, h) == IF o # <<>> /\ o[Len(o)].limit = h.limit THEN o ELSE Append(o, h)

LEMMA PeriodTypes ==
    ASSUME NEW l, NEW m, NEW x, NEW y, RestOf(x, l), RestOf(y, m)
    PROVE  Period(x, y) \in Entry
  <1>1. LaterOf(x[1].at, y[1].at) \in Int /\ LowerOf(x[1].limit, y[1].limit) \in Int
    BY RestTypes DEF LaterOf, LowerOf
  <1> QED BY <1>1 DEF Period, Entry, Latest

Written(start, o) == o \in Seq(Entry) /\ Rising(o) /\ o # <<>> /\ o[1].at = start

LEMMA WrittenTypes ==
    ASSUME NEW start \in Int, NEW o, Written(start, o)
    PROVE  /\ Len(o) \in Nat /\ Len(o) > 0 /\ o[Len(o)].at \in Int /\ start <= o[Len(o)].at
  <1>1. PICK n \in Nat : n = Len(o) /\ n > 0 /\ o \in Seq(Entry) /\ Rising(o)
    BY DEF Written
  <1>2. 1 \in 1 .. n /\ n \in 1 .. n /\ (n = 1 \/ 1 < n)
    BY <1>1
  <1>3. o[n].at \in Int
    BY <1>1, <1>2, EntryTypes
  <1>4. n = 1 \/ o[1].at < o[n].at
    BY <1>1, <1>2 DEF Rising
  <1> QED BY <1>1, <1>3, <1>4 DEF Written

\* A first period.
LEMMA FirstWritten ==
    ASSUME NEW h \in Entry
    PROVE  /\ Written(h.at, Wider(<<>>, h)) /\ Wider(<<>>, h)[Len(Wider(<<>>, h))] = h
           /\ \A t \in Int : h.at <= t => ValueAt(Wider(<<>>, h), t) = h.limit
  <1>1. PICK o \in Seq(Entry) : o = Wider(<<>>, h)
    <2>1. Append(<<>>, h) \in Seq(Entry)
      OBVIOUS
    <2> QED BY <2>1, Zenon DEF Wider
  <1>2. o = Append(<<>>, h)
    BY <1>1 DEF Wider
  <1>3. Len(o) = 1 /\ o[1] = h /\ o # <<>>
    BY <1>2
  <1>4. Rising(o)
    <2>1. \A i, j \in 1 .. 1 : ~(i < j)
      OBVIOUS
    <2> QED BY <1>3, <2>1 DEF Rising
  <1>5. ASSUME NEW t \in Int, h.at <= t PROVE ValueAt(o, t) = h.limit
    BY <1>3, <1>4, <1>5, ValueFirst
  <1>6. Written(h.at, o) /\ o[Len(o)] = h
    BY <1>3, <1>4 DEF Written
  <1> QED BY <1>1, <1>5, <1>6, Zenon

\* A further one: it holds from its start on, and what was written before it stays.
LEMMA NextWritten ==
    ASSUME NEW start \in Int, NEW o, Written(start, o), NEW h \in Entry, o[Len(o)].at < h.at
    PROVE  /\ Written(start, Wider(o, h))
           /\ Wider(o, h)[Len(Wider(o, h))].at <= h.at /\ Wider(o, h)[Len(Wider(o, h))].limit = h.limit
           /\ \A t \in Int : start <= t /\ t < h.at => ValueAt(Wider(o, h), t) = ValueAt(o, t)
           /\ \A t \in Int : h.at <= t => ValueAt(Wider(o, h), t) = h.limit
  <1>0. h.at \in Int /\ h.limit \in Int /\ o[Len(o)].at \in Int
    BY WrittenTypes DEF Entry
  <1>1. CASE o[Len(o)].limit = h.limit
    <2>1. Wider(o, h) = o
      BY <1>1 DEF Wider, Written
    <2>2. ASSUME NEW t \in Int, h.at <= t PROVE ValueAt(o, t) = h.limit
      <3>1. o[Len(o)].at <= t
        BY <1>0, <2>2
      <3> QED BY <1>1, <3>1, ValueLast DEF Written
    <2>3. o[Len(o)].at <= h.at
      BY <1>0
    <2> QED BY <1>1, <2>1, <2>2, <2>3, Zenon
  <1>2. CASE o[Len(o)].limit # h.limit
    <2>1. PICK p : p = Append(o, h)
      OBVIOUS
    <2>2. Wider(o, h) = p
      BY <1>2, <2>1 DEF Wider
    <2>3. /\ p \in Seq(Entry) /\ Rising(p) /\ p # <<>>
          /\ p[1] = o[1] /\ p[Len(p)] = h
      BY <2>1, ValueAppend DEF Written
    <2>4. ASSUME NEW t \in Int, start <= t, t < h.at PROVE ValueAt(p, t) = ValueAt(o, t)
      BY <2>1, <2>4, ValueAppend DEF Written
    <2>5. ASSUME NEW t \in Int, h.at <= t PROVE ValueAt(p, t) = h.limit
      BY <2>3, <2>5, ValueLast
    <2>6. Written(start, p)
      BY <2>3 DEF Written
    <2>7. p[Len(p)].at <= h.at /\ p[Len(p)].limit = h.limit
      BY <1>0, <2>3
    <2> QED BY <2>2, <2>4, <2>5, <2>6, <2>7, Zenon
  <1> QED BY <1>1, <1>2

\* A turn, written with the above.
LEMMA LowerOut ==
    ASSUME NEW a, NEW b, NEW duration, NEW r, RestOf(r.a, a), RestOf(r.b, b)
    PROVE  /\ Latest(r.a, r.b) > duration => Lower(r, duration) = r
           /\ ~(Latest(r.a, r.b) > duration) => Lower(r, duration).out = Wider(r.out, Period(r.a, r.b))
  <1>1. Max({r.a[1].at, r.b[1].at}) = Latest(r.a, r.b)
    BY RestTypes, MaxOfTwo DEF Latest
  <1>2. Min({r.a[1].limit, r.b[1].limit}) = LowerOf(r.a[1].limit, r.b[1].limit)
    BY RestTypes, MinOfTwo
  <1> QED BY <1>1, <1>2 DEF Lower, Wider, Period, Last

\* What a turn leaves of a list, next to the other one.
Moved(x, y) == IF Len(x) > 1 /\ (Len(y) = 1 \/ x[2].at <= y[2].at) THEN Tail(x) ELSE x

LEMMA LowerMoves ==
    ASSUME NEW a, NEW b, NEW duration, NEW r, RestOf(r.a, a), RestOf(r.b, b),
           ~(Latest(r.a, r.b) > duration)
    PROVE  Lower(r, duration).a = Moved(r.a, r.b) /\ Lower(r, duration).b = Moved(r.b, r.a)
  <1>1. Max({r.a[1].at, r.b[1].at}) = Latest(r.a, r.b)
    BY RestTypes, MaxOfTwo DEF Latest
  <1> QED BY <1>1 DEF Lower, Moved

\* What is left after a turn, when an entry of a list is left to come.
LEMMA LowerNext ==
    ASSUME NEW a, NEW b, NEW duration, NEW r, RestOf(r.a, a), RestOf(r.b, b), Ahead(r.a, r.b),
           ~(Latest(r.a, r.b) > duration), Len(r.a) > 1 \/ Len(r.b) > 1,
           NEW s, s = Lower(r, duration)
    PROVE  /\ RestOf(s.a, a) /\ RestOf(s.b, b) /\ Ahead(s.a, s.b)
           /\ Latest(r.a, r.b) < Latest(s.a, s.b)
           /\ Len(r.a) > 1 => Latest(s.a, s.b) <= r.a[2].at
           /\ Len(r.b) > 1 => Latest(s.a, s.b) <= r.b[2].at
           /\ Len(s.a) + Len(s.b) < Len(r.a) + Len(r.b)
  <1>1. PICK x, y : x = r.a /\ y = r.b
    OBVIOUS
  <1>2. RestOf(x, a) /\ RestOf(y, b) /\ Ahead(x, y)
    BY <1>1
  <1>3. /\ Len(x) \in Nat /\ (Len(x) = 1 \/ Len(x) > 1)
        /\ Len(y) \in Nat /\ (Len(y) = 1 \/ Len(y) > 1)
        /\ Len(x) > 1 => x[2].at \in Int
        /\ Len(y) > 1 => y[2].at \in Int
    BY <1>2, RestTypes
  <1>4. s.a = Moved(x, y) /\ s.b = Moved(y, x)
    BY <1>1, LowerMoves
  <1>8. PICK j \in Nat, k \in Nat : j = Len(x) /\ k = Len(y)
    BY <1>3
  <1>9. (j - 1) + k < j + k /\ j + (k - 1) < j + k /\ (j - 1) + (k - 1) < j + k
    OBVIOUS
  <1>5. CASE Len(x) > 1 /\ (Len(y) = 1 \/ x[2].at < y[2].at)
    <2>1. s.a = Tail(x) /\ s.b = y
      BY <1>3, <1>4, <1>5 DEF Moved
    <2>2. RestOf(Tail(x), a) /\ Len(Tail(x)) = Len(x) - 1
      BY <1>2, <1>5, RestTail
    <2>3. Latest(Tail(x), y) = x[2].at /\ Ahead(Tail(x), y)
      BY <1>2, <1>5, OneMoves
    <2>4. Latest(x, y) < x[2].at
      BY <1>2, <1>5 DEF Ahead
    <2>5. Len(y) > 1 => x[2].at <= y[2].at
      BY <1>3, <1>5
    <2>6. Len(Tail(x)) + Len(y) < Len(x) + Len(y)
      BY <1>8, <1>9, <2>2, Zenon
    <2>7. Len(x) > 1 => x[2].at <= x[2].at
      BY <1>3
    <2> QED BY <1>1, <1>2, <2>1, <2>2, <2>3, <2>4, <2>5, <2>6, <2>7, Zenon
  <1>6. CASE Len(y) > 1 /\ (Len(x) = 1 \/ y[2].at < x[2].at)
    <2>1. s.a = x /\ s.b = Tail(y)
      BY <1>3, <1>4, <1>6 DEF Moved
    <2>2. RestOf(Tail(y), b) /\ Len(Tail(y)) = Len(y) - 1
      BY <1>2, <1>6, RestTail
    <2>3. Ahead(y, x) /\ Latest(x, y) = Latest(y, x)
      BY <1>2, LatestSwaps
    <2>4. Latest(Tail(y), x) = y[2].at /\ Ahead(Tail(y), x)
      BY <1>2, <1>6, <2>3, OneMoves
    <2>5. Latest(x, Tail(y)) = y[2].at /\ Ahead(x, Tail(y))
      BY <1>2, <2>2, <2>4, LatestSwaps
    <2>6. Latest(x, y) < y[2].at
      BY <1>2, <1>6 DEF Ahead
    <2>7. Len(x) > 1 => y[2].at <= x[2].at
      BY <1>3, <1>6
    <2>8. Len(x) + Len(Tail(y)) < Len(x) + Len(y)
      BY <1>8, <1>9, <2>2, Zenon
    <2>9. Len(y) > 1 => y[2].at <= y[2].at
      BY <1>3
    <2> QED BY <1>1, <1>2, <2>1, <2>2, <2>5, <2>6, <2>7, <2>8, <2>9, Zenon
  <1>7. CASE Len(x) > 1 /\ Len(y) > 1 /\ x[2].at = y[2].at
    <2>1. s.a = Tail(x) /\ s.b = Tail(y)
      BY <1>3, <1>4, <1>7 DEF Moved
    <2>2. RestOf(Tail(x), a) /\ Len(Tail(x)) = Len(x) - 1 /\ RestOf(Tail(y), b) /\ Len(Tail(y)) = Len(y) - 1
      BY <1>2, <1>7, RestTail
    <2>3. Latest(Tail(x), Tail(y)) = x[2].at /\ Ahead(Tail(x), Tail(y))
      BY <1>2, <1>7, BothMove
    <2>4. Latest(x, y) < x[2].at
      BY <1>2, <1>7 DEF Ahead
    <2>5. x[2].at <= x[2].at /\ x[2].at <= y[2].at
      BY <1>3, <1>7
    <2>6. Len(Tail(x)) + Len(Tail(y)) < Len(x) + Len(y)
      BY <1>8, <1>9, <2>2, Zenon
    <2> QED BY <1>1, <2>1, <2>2, <2>3, <2>4, <2>5, <2>6, Zenon
  <1>10. Len(x) > 1 /\ Len(y) > 1 => x[2].at < y[2].at \/ y[2].at < x[2].at \/ x[2].at = y[2].at
    BY <1>3
  <1>11. Len(x) > 1 \/ Len(y) > 1
    BY <1>1
  <1> QED BY <1>3, <1>5, <1>6, <1>7, <1>10, <1>11, Zenon

\* Where a turn finds the loop: what is left of the lists and is written so far.
Both(a, b, r) == RestOf(r.a, a) /\ RestOf(r.b, b) /\ Ahead(r.a, r.b)
LowerAt(a, b, t) == LowerOf(ValueAt(a, t), ValueAt(b, t))
Begins(start, r) == r.out = <<>> /\ Latest(r.a, r.b) = start
Goes(a, b, start, r) ==
    /\ Written(start, r.out) /\ r.out[Len(r.out)].at < Latest(r.a, r.b)
    /\ \A t \in Int : start <= t /\ t < Latest(r.a, r.b) => ValueAt(r.out, t) = LowerAt(a, b, t)
Ended(a, b, start, r) ==
    /\ Written(start, r.out) /\ Len(r.a) = 1 /\ Len(r.b) = 1
    /\ r.out[Len(r.out)].limit = Period(r.a, r.b).limit
    /\ \A t \in Int : start <= t => ValueAt(r.out, t) = LowerAt(a, b, t)

\* What a turn writes: the period h, which holds from its start on.
Writes(a, b, start, h, o) ==
    /\ Written(start, o) /\ o[Len(o)].at <= h.at /\ o[Len(o)].limit = h.limit
    /\ \A t \in Int : start <= t /\ t < h.at => ValueAt(o, t) = LowerAt(a, b, t)
    /\ \A t \in Int : h.at <= t => ValueAt(o, t) = h.limit

LEMMA TurnWrites ==
    ASSUME NEW a, NEW b, NEW start \in Int, NEW r, Both(a, b, r), Begins(start, r) \/ Goes(a, b, start, r)
    PROVE  Writes(a, b, start, Period(r.a, r.b), Wider(r.out, Period(r.a, r.b)))
  <1>0. PICK o : o = Wider(r.out, Period(r.a, r.b))
    OBVIOUS
  <1>1. PICK h : h = Period(r.a, r.b)
    OBVIOUS
  <1>2. h \in Entry /\ h.at = Latest(r.a, r.b) /\ h.at \in Int
    <2>1. h \in Entry
      BY <1>1, PeriodTypes DEF Both
    <2> QED BY <1>1, <2>1 DEF Entry, Period
  <1>3. ASSUME Begins(start, r) PROVE Writes(a, b, start, h, o)
    <2>1. o = Wider(<<>>, h) /\ h.at = start
      BY <1>0, <1>1, <1>2, <1>3 DEF Begins
    <2>2. Written(start, o) /\ o[Len(o)] = h /\ \A t \in Int : h.at <= t => ValueAt(o, t) = h.limit
      BY <1>2, <2>1, FirstWritten
    <2>3. \A t \in Int : ~(start <= t /\ t < h.at)
      BY <2>1
    <2>4. h.at <= h.at
      BY <1>2
    <2> QED BY <2>2, <2>3, <2>4, Zenon DEF Writes
  <1>4. ASSUME Goes(a, b, start, r) PROVE Writes(a, b, start, h, o)
    <2>1. Written(start, r.out) /\ r.out[Len(r.out)].at < h.at /\ o = Wider(r.out, h)
      BY <1>0, <1>1, <1>2, <1>4 DEF Goes
    <2>2. /\ Written(start, o) /\ o[Len(o)].at <= h.at /\ o[Len(o)].limit = h.limit
          /\ \A t \in Int : start <= t /\ t < h.at => ValueAt(o, t) = ValueAt(r.out, t)
          /\ \A t \in Int : h.at <= t => ValueAt(o, t) = h.limit
      BY <1>2, <2>1, NextWritten
    <2>3. \A t \in Int : start <= t /\ t < h.at => ValueAt(r.out, t) = LowerAt(a, b, t)
      BY <1>2, <1>4, Zenon DEF Goes
    <2> QED BY <2>2, <2>3, Zenon DEF Writes
  <1> QED BY <1>0, <1>1, <1>3, <1>4

\* A turn does nothing once the lists end or the period would begin after the duration.
LEMMA TurnDone ==
    ASSUME NEW a, NEW b, NEW start \in Int, NEW duration, NEW r, Both(a, b, r), Ended(a, b, start, r)
    PROVE  Both(a, b, Lower(r, duration)) /\ Ended(a, b, start, Lower(r, duration))
  <1>1. PICK s : s = Lower(r, duration)
    OBVIOUS
  <1>2. CASE Latest(r.a, r.b) > duration
    <2>1. s = r
      BY <1>1, <1>2, LowerOut DEF Both
    <2> QED BY <1>1, <2>1
  <1>3. CASE ~(Latest(r.a, r.b) > duration)
    <2>1. s.a = Moved(r.a, r.b) /\ s.b = Moved(r.b, r.a) /\ s.out = Wider(r.out, Period(r.a, r.b))
      BY <1>1, <1>3, LowerOut, LowerMoves DEF Both
    <2>2. s.a = r.a /\ s.b = r.b
      BY <2>1 DEF Moved, Ended
    <2>3. s.out = r.out
      BY <2>1 DEF Wider, Ended, Written
    <2>4. Both(a, b, s)
      BY <2>2 DEF Both
    <2>5. Ended(a, b, start, s)
      BY <2>2, <2>3 DEF Ended
    <2> QED BY <1>1, <2>4, <2>5
  <1> QED BY <1>2, <1>3

\* A turn before: it writes the period that begins and moves to the next, or ends.
LEMMA Turn ==
    ASSUME NEW a, NEW b, NEW start \in Int, NEW duration, NEW r, Both(a, b, r),
           Begins(start, r) \/ Goes(a, b, start, r), ~(Latest(r.a, r.b) > duration)
    PROVE  /\ Both(a, b, Lower(r, duration))
           /\ \/ Ended(a, b, start, Lower(r, duration))
              \/ /\ Goes(a, b, start, Lower(r, duration))
                 /\ Len(Lower(r, duration).a) + Len(Lower(r, duration).b) < Len(r.a) + Len(r.b)
  <1>1. PICK s : s = Lower(r, duration)
    OBVIOUS
  <1>2. PICK n : n = Latest(r.a, r.b)
    OBVIOUS
  <1>3. PICK h : h = Period(r.a, r.b)
    OBVIOUS
  <1>4. RestOf(r.a, a) /\ RestOf(r.b, b) /\ Ahead(r.a, r.b)
    BY DEF Both
  <1>5. n \in Int
    BY <1>2, <1>4, RestTypes DEF Latest, LaterOf
  <1>6. s.a = Moved(r.a, r.b) /\ s.b = Moved(r.b, r.a) /\ s.out = Wider(r.out, h)
    BY <1>1, <1>3, <1>4, LowerOut, LowerMoves
  <1>7. /\ Written(start, s.out) /\ s.out[Len(s.out)].at <= n /\ s.out[Len(s.out)].limit = h.limit
        /\ \A t \in Int : start <= t /\ t < n => ValueAt(s.out, t) = LowerAt(a, b, t)
        /\ \A t \in Int : n <= t => ValueAt(s.out, t) = h.limit
    <2>1. Writes(a, b, start, h, s.out)
      BY <1>3, <1>6, TurnWrites
    <2>2. h.at = n
      BY <1>2, <1>3 DEF Period
    <2> QED BY <2>1, <2>2 DEF Writes
  <1>8. \A t \in Int : n <= t /\ (Len(r.a) > 1 => t < r.a[2].at) /\ (Len(r.b) > 1 => t < r.b[2].at)
                       => LowerAt(a, b, t) = h.limit
    <2> SUFFICES ASSUME NEW t \in Int, n <= t, Len(r.a) > 1 => t < r.a[2].at, Len(r.b) > 1 => t < r.b[2].at
                 PROVE  LowerAt(a, b, t) = h.limit
      OBVIOUS
    <2>1. ValueAt(a, t) = r.a[1].limit /\ ValueAt(b, t) = r.b[1].limit
      <3>1. Latest(r.a, r.b) <= t
        BY <1>2
      <3> QED BY <1>4, <3>1, InForce
    <2> QED BY <1>3, <2>1 DEF LowerAt, Period
  <1>9. CASE Len(r.a) > 1 \/ Len(r.b) > 1
    <2>1. /\ RestOf(s.a, a) /\ RestOf(s.b, b) /\ Ahead(s.a, s.b)
          /\ n < Latest(s.a, s.b)
          /\ Len(r.a) > 1 => Latest(s.a, s.b) <= r.a[2].at
          /\ Len(r.b) > 1 => Latest(s.a, s.b) <= r.b[2].at
          /\ Len(s.a) + Len(s.b) < Len(r.a) + Len(r.b)
      BY <1>1, <1>2, <1>4, <1>9, LowerNext, Zenon
    <2>2. PICK v \in Int : v = Latest(s.a, s.b)
      <3>1. Latest(s.a, s.b) \in Int
        BY <2>1, RestTypes DEF Latest, LaterOf
      <3> QED BY <3>1, Zenon
    <2>3. /\ Len(r.a) > 1 => r.a[2].at \in Int
          /\ Len(r.b) > 1 => r.b[2].at \in Int
      BY <1>4, RestTypes, Zenon
    <2>4. ASSUME NEW t \in Int, start <= t, t < v PROVE ValueAt(s.out, t) = LowerAt(a, b, t)
      <3>1. CASE t < n
        BY <1>7, <2>4, <3>1
      <3>2. CASE n <= t
        <4>1. Len(r.a) > 1 => t < r.a[2].at
          BY <2>1, <2>2, <2>3, <2>4
        <4>2. Len(r.b) > 1 => t < r.b[2].at
          BY <2>1, <2>2, <2>3, <2>4
        <4> QED BY <1>7, <1>8, <3>2, <4>1, <4>2, Zenon
      <3>3. t < n \/ n <= t
        BY <1>5
      <3> QED BY <3>1, <3>2, <3>3
    <2>5. s.out[Len(s.out)].at < v
      <3>1. s.out[Len(s.out)].at \in Int
        BY <1>7, WrittenTypes
      <3> QED BY <1>5, <1>7, <2>1, <2>2, <3>1
    <2>6. Goes(a, b, start, s)
      BY <1>7, <2>2, <2>4, <2>5, Zenon DEF Goes
    <2>7. Both(a, b, s)
      BY <2>1 DEF Both
    <2> QED BY <1>1, <2>1, <2>6, <2>7, Zenon
  <1>10. CASE ~(Len(r.a) > 1) /\ ~(Len(r.b) > 1)
    <2>1. Len(r.a) = 1 /\ Len(r.b) = 1
      BY <1>4, <1>10, RestTypes, Zenon
    <2>2. s.a = r.a /\ s.b = r.b
      BY <1>6, <1>10 DEF Moved
    <2>3. ASSUME NEW t \in Int, start <= t PROVE ValueAt(s.out, t) = LowerAt(a, b, t)
      <3>1. CASE t < n
        BY <1>7, <2>3, <3>1, Zenon
      <3>2. CASE n <= t
        BY <1>7, <1>8, <1>10, <3>2, Zenon
      <3>3. t < n \/ n <= t
        BY <1>5
      <3> QED BY <3>1, <3>2, <3>3
    <2>4. s.out[Len(s.out)].limit = Period(s.a, s.b).limit
      BY <1>3, <1>7, <2>2
    <2>5. Ended(a, b, start, s)
      BY <1>7, <2>1, <2>2, <2>3, <2>4, Zenon DEF Ended
    <2>6. Both(a, b, s)
      BY <1>4, <2>2 DEF Both
    <2> QED BY <1>1, <2>5, <2>6
  <1> QED BY <1>9, <1>10

\* The function that Combined is read from, up to the turn `last`.
TurnsOf(a, b, duration, last, f) ==
    f = [k \in 0 .. last |-> IF k = 0 THEN [a |-> a, b |-> b, out |-> <<>>] ELSE Lower(f[k - 1], duration)]

LEMMA TurnsExist ==
    ASSUME NEW a, NEW b, NEW duration, NEW last \in Nat
    PROVE  \E f : TurnsOf(a, b, duration, last, f)
  <1> DEFINE first == [a |-> a, b |-> b, out |-> <<>>]
             S == {k \in 0 .. last : \E f : TurnsOf(a, b, duration, k, f)}
  <1>1. 0 \in S
    <2>1. PICK f : f = [i \in 0 .. 0 |-> first]
      OBVIOUS
    <2>2. TurnsOf(a, b, duration, 0, f)
      BY <2>1 DEF TurnsOf
    <2> QED BY <2>2
  <1>2. ASSUME NEW k \in 0 .. last - 1, k \in S PROVE k + 1 \in S
    <2>1. PICK f : TurnsOf(a, b, duration, k, f)
      BY <1>2
    <2> DEFINE next == Lower(f[k], duration)
               g == [i \in 0 .. k + 1 |-> IF i = k + 1 THEN next ELSE f[i]]
    <2>2. ASSUME NEW i \in 0 .. k + 1 PROVE g[i] = IF i = 0 THEN first ELSE Lower(g[i - 1], duration)
      <3> HIDE DEF first
      <3>1. CASE i = k + 1
        <4>1. g[i] = next /\ g[i - 1] = f[k] /\ i # 0
          BY <3>1
        <4> HIDE DEF g
        <4> QED BY <3>1, <4>1
      <3>2. CASE i \in 0 .. k
        <4>1. g[i] = f[i] /\ (i # 0 => g[i - 1] = f[i - 1])
          BY <3>2
        <4>2. f[i] = IF i = 0 THEN first ELSE Lower(f[i - 1], duration)
          BY <2>1, <3>2 DEF TurnsOf, first
        <4> HIDE DEF g
        <4> QED BY <3>2, <4>1, <4>2
      <3> QED BY <3>1, <3>2
    <2>3. TurnsOf(a, b, duration, k + 1, g)
      BY <2>2, Zenon DEF TurnsOf
    <2> QED BY <2>3
  <1>3. last \in S
    <2>1. \A k \in 0 .. last : k \in S
      <3> HIDE DEF S
      <3> QED BY <1>1, <1>2, CountUp
    <2> QED BY <2>1
  <1> QED BY <1>3

\* After k turns the list is written, or there are at most as many entries left as turns.
After(a, b, start, duration, left, r) ==
    /\ Both(a, b, r)
    /\ \/ Ended(a, b, start, r)
       \/ /\ Begins(start, r) \/ Goes(a, b, start, r)
          /\ Latest(r.a, r.b) > duration \/ Len(r.a) + Len(r.b) <= left

LEMMA TurnLeaves ==
    ASSUME NEW a, NEW b, NEW start \in Int, NEW duration, NEW left \in Int, NEW r,
           After(a, b, start, duration, left, r)
    PROVE  After(a, b, start, duration, left - 1, Lower(r, duration))
  <1>1. PICK s : s = Lower(r, duration)
    OBVIOUS
  <1>2. Both(a, b, r)
    BY DEF After
  <1>3. CASE Ended(a, b, start, r)
    BY <1>1, <1>2, <1>3, TurnDone, Zenon DEF After
  <1>4. CASE ~Ended(a, b, start, r) /\ Latest(r.a, r.b) > duration
    <2>1. s = r
      BY <1>1, <1>2, <1>4, LowerOut DEF Both
    <2>2. Begins(start, s) \/ Goes(a, b, start, s)
      BY <1>4, <2>1, Zenon DEF After
    <2> QED BY <1>1, <1>2, <1>4, <2>1, <2>2, Zenon DEF After
  <1>5. CASE ~Ended(a, b, start, r) /\ ~(Latest(r.a, r.b) > duration)
    <2>1. (Begins(start, r) \/ Goes(a, b, start, r)) /\ Len(r.a) + Len(r.b) <= left
      BY <1>5, Zenon DEF After
    <2>2. Both(a, b, s) /\ (Ended(a, b, start, s) \/ (Goes(a, b, start, s) /\ Len(s.a) + Len(s.b) < Len(r.a) + Len(r.b)))
      BY <1>1, <1>2, <1>5, <2>1, Turn, Zenon
    <2>3. Len(s.a) + Len(s.b) < Len(r.a) + Len(r.b) => Len(s.a) + Len(s.b) <= left - 1
      <3>1. Len(r.a) \in Nat /\ Len(r.b) \in Nat /\ Len(s.a) \in Nat /\ Len(s.b) \in Nat
        BY <1>2, <2>2, RestTypes DEF Both
      <3>2. PICK u \in Nat, v \in Nat, w \in Nat, z \in Nat :
              u = Len(r.a) /\ v = Len(r.b) /\ w = Len(s.a) /\ z = Len(s.b)
        BY <3>1, Zenon
      <3>3. u + v <= left
        BY <2>1, <3>2, Zenon
      <3>4. w + z < u + v => w + z <= left - 1
        BY <3>3
      <3> QED BY <3>2, <3>4, Zenon
    <2> QED BY <1>1, <2>2, <2>3, Zenon DEF After
  <1> QED BY <1>3, <1>4, <1>5

\* combine_schedules says at every time up to the duration the lower of what its
\* two lists say, and begins where they begin: for any lists of periods that rise
\* and begin together, the list it writes is one too.
THEOREM CombinedIsLower ==
    ASSUME NEW a \in Seq(Entry), NEW b \in Seq(Entry), a # <<>>, b # <<>>, Rising(a), Rising(b),
           a[1].at = b[1].at, NEW duration \in Int, a[1].at <= duration
    PROVE  /\ Written(a[1].at, Combined(a, b, duration))
           /\ \A t \in a[1].at .. duration : ValueAt(Combined(a, b, duration), t) = LowerAt(a, b, t)
  <1>1. RestOf(a, a) /\ RestOf(b, b)
    BY DEF RestOf
  <1>2. PICK start \in Int : start = a[1].at
    BY <1>1, RestTypes, Zenon
  <1>3. PICK n \in Nat : n = Len(a) + Len(b) /\ n > 0
    <2>1. PICK u \in Nat, v \in Nat : u = Len(a) /\ v = Len(b) /\ u > 0 /\ v > 0
      BY <1>1, RestTypes, Zenon
    <2>2. u + v \in Nat /\ u + v > 0
      BY <2>1
    <2> QED BY <2>1, <2>2, Zenon
  <1>4. PICK f : f = CHOOSE g : TurnsOf(a, b, duration, n, g)
    OBVIOUS
  <1>5. TurnsOf(a, b, duration, n, f)
    BY <1>4, TurnsExist, Zenon
  <1>6. Combined(a, b, duration) = f[n].out
    BY <1>3, <1>4 DEF Combined, TurnsOf
  <1>7. f[0] = [a |-> a, b |-> b, out |-> <<>>]
    BY <1>5 DEF TurnsOf
  <1>8. ASSUME NEW k \in 0 .. n - 1 PROVE f[k + 1] = Lower(f[k], duration)
    <2>1. k + 1 \in 0 .. n /\ k + 1 # 0 /\ (k + 1) - 1 = k
      OBVIOUS
    <2> QED BY <1>5, <2>1 DEF TurnsOf
  <1> DEFINE S == {k \in 0 .. n : After(a, b, start, duration, n - k, f[k])}
  <1>9. 0 \in S
    <2>1. PICK r : r = f[0]
      OBVIOUS
    <2>2. r.a = a /\ r.b = b /\ r.out = <<>>
      BY <1>7, <2>1
    <2>3. Latest(a, b) = start
      BY <1>2 DEF Latest, LaterOf
    <2>4. Ahead(a, b)
      BY <1>1, <1>2, <2>3, RestTypes DEF Ahead
    <2>5. Both(a, b, r) /\ Begins(start, r)
      BY <1>1, <2>2, <2>3, <2>4 DEF Both, Begins
    <2>6. Len(r.a) + Len(r.b) <= n - 0
      <3>1. n <= n - 0
        OBVIOUS
      <3> QED BY <1>3, <2>2, <3>1
    <2>7. After(a, b, start, duration, n - 0, r)
      BY <2>5, <2>6, Zenon DEF After
    <2> QED BY <2>1, <2>7
  <1>10. ASSUME NEW k \in 0 .. n - 1, k \in S PROVE k + 1 \in S
    <2>1. After(a, b, start, duration, n - k, f[k]) /\ n - k \in Int
      BY <1>10
    <2>2. After(a, b, start, duration, (n - k) - 1, Lower(f[k], duration))
      BY <2>1, TurnLeaves, Zenon
    <2>3. (n - k) - 1 = n - (k + 1) /\ k + 1 \in 0 .. n
      OBVIOUS
    <2> QED BY <1>8, <2>2, <2>3
  <1>11. \A k \in 0 .. n : k \in S
    <2> HIDE DEF S
    <2> QED BY <1>9, <1>10, CountUp
  <1>12. PICK r : r = f[n] /\ After(a, b, start, duration, n - n, r)
    <2>1. n \in 0 .. n
      OBVIOUS
    <2>2. n \in S
      BY <1>11, <2>1, Zenon
    <2> QED BY <2>2
  <1>13. Both(a, b, r)
    BY <1>12 DEF After
  <1>14. ~(Len(r.a) + Len(r.b) <= n - n)
    <2>1. PICK u \in Nat, v \in Nat : u = Len(r.a) /\ v = Len(r.b) /\ u > 0 /\ v > 0
      BY <1>13, RestTypes, Zenon DEF Both
    <2>2. ~(u + v <= n - n)
      <3>1. n - n = 0
        OBVIOUS
      <3>2. u > 0 /\ v > 0
        BY <2>1, Zenon
      <3>3. ~(u + v <= 0)
        BY <3>2
      <3> QED BY <3>1, <3>3, Zenon
    <2> QED BY <2>1, <2>2, Zenon
  <1>15. CASE Ended(a, b, start, r)
    <2>1. Written(start, r.out) /\ \A t \in Int : start <= t => ValueAt(r.out, t) = LowerAt(a, b, t)
      BY <1>15, Zenon DEF Ended
    <2>2. \A t \in start .. duration : t \in Int /\ start <= t
      OBVIOUS
    <2> QED BY <1>2, <1>6, <1>12, <2>1, <2>2, Zenon
  <1>16. CASE ~Ended(a, b, start, r)
    <2>1. (Begins(start, r) \/ Goes(a, b, start, r)) /\ Latest(r.a, r.b) > duration
      BY <1>12, <1>14, <1>16, Zenon DEF After
    <2>2. ~Begins(start, r)
      BY <1>2, <2>1 DEF Begins
    <2>3. Written(start, r.out) /\ \A t \in Int : start <= t /\ t < Latest(r.a, r.b) => ValueAt(r.out, t) = LowerAt(a, b, t)
      BY <2>1, <2>2, Zenon DEF Goes
    <2>4. PICK m \in Int : m = Latest(r.a, r.b)
      <3>1. Latest(r.a, r.b) \in Int
        BY <1>13, RestTypes DEF Both, Latest, LaterOf
      <3> QED BY <3>1, Zenon
    <2>5. \A t \in start .. duration : t \in Int /\ start <= t /\ t < m
      BY <2>1, <2>4
    <2> QED BY <1>2, <1>6, <1>12, <2>3, <2>4, <2>5, Zenon
  <1> QED BY <1>15, <1>16
=============================================================================
