--------------------------- MODULE SmartCharging ---------------------------
(***************************************************************************)
(* Smart charging of OCPP (ocpp_smart_charging.c): the profiles the        *)
(* central system sets and clears, the transactions the session handler    *)
(* reports, and the task that tells the session handler the limit that     *)
(* holds now and wakes up when it may change.                              *)
(***************************************************************************)
EXTENDS ChargingProfiles

CONSTANTS
    Profiles,     \* the profiles the central system may set
    Clears,       \* the filters it may clear by
    MaxTime,      \* bound: seconds
    MaxTx,        \* bound: transactions
    MaxCommands,  \* bound: profiles set or cleared
    MaxOdd        \* bound: kinds of coincidence

ASSUME SmartChargingAssumption ==
    /\ {Day, MaxTime, MaxTx} \subseteq Nat \ {0} /\ {MaxCommands, MaxOdd} \subseteq Nat
    /\ Never \in Nat /\ Never > 2 * (MaxTime + Day)
    /\ \A p \in Profiles : IsProfile(p)
    /\ \A c \in Clears : DOMAIN c = {"id", "purpose", "level"}

VARIABLES
    now,        \* time(NULL)
    session,    \* the session handler: what it does, the transaction's number and start
    txid,       \* active_transaction_id, 0 for NULL
    began,      \* transaction_start_time
    bits,       \* the notifications ocpp_smart_task has not taken
    active,     \* transaction_is_active
    installed,  \* the profiles in tx_profiles and on file
    command,    \* the SetChargingProfile that waits for file_lock
    commands,
    task,       \* where ocpp_smart_task is, and its locals
    told,       \* what charge_value_cb was last told
    accepted,   \* what the central system was told: the profiles in force
    odd         \* coincidences there have been, which the properties name

clock == <<now, commands>>
transaction == <<session, txid, began>>
vars == <<clock, transaction, bits, active, installed, command, task, told, accepted, odd>>

NoTask == [pc |-> "wait", todo |-> {}, cand |-> None, renew |-> Never, tx |-> None, max |-> None,
           renewTx |-> Never, renewMax |-> Never, renewPeriod |-> Never, schedule |-> None, wake |-> Never]

Init ==
    /\ now = 0 /\ commands = 0
    /\ session \in {[does |-> "none", number |-> 0, start |-> 0], [does |-> "resume", number |-> 1, start |-> 0]}
    /\ txid = 0 /\ began = 0 /\ bits = {} /\ active = FALSE
    /\ installed = {} /\ command = None /\ task = NoTask /\ told = 0
    /\ accepted = {} /\ odd = {}

\* Mutant of InSlot: the place is the level alone.
InLevel(p) == {q \in installed : q.level = p.level}
\* The place of a profile: a file, or an entry of tx_profiles.
InSlot(p) == {q \in installed : q.purpose = p.purpose /\ q.level = p.level}
Note(events) == odd' = odd \cup events /\ Cardinality(odd \cup events) <= MaxOdd
Own(profiles) == {p \in profiles : p.purpose = "tx"}

-----------------------------------------------------------------------------
(* The session handler.  A start does not set active_transaction_id; the    *)
(* answer to StartTransaction does.  After a boot with a transaction on     *)
(* file both are set.                                                       *)

\* start_transaction
Start ==
    /\ session.does = "none" /\ session.number < MaxTx
    /\ session' = [does |-> "charge", number |-> session.number + 1, start |-> now]
    /\ began' = now /\ bits' = bits \cup {"start"}
    /\ UNCHANGED <<clock, txid, active, installed, command, task, told, accepted, odd>>

\* start_transaction_response_cb, in the task of the OCPP client
IdReceived ==
    /\ session.does \in {"charge", "stop"} /\ txid = 0
    /\ txid' = session.number /\ bits' = bits \cup {"id"}
    /\ UNCHANGED <<clock, session, began, active, installed, command, task, told, accepted, odd>>

\* stop_transaction, up to the StopTransaction it enqueues
Stop ==
    /\ session.does = "charge"
    /\ session' = [session EXCEPT !.does = "stop"]
    /\ began' = 0 /\ bits' = bits \cup {"stop"}
    /\ accepted' = accepted \ Own(accepted)
    /\ UNCHANGED <<clock, txid, active, installed, command, task, told, odd>>

\* stop_transaction, its end
Stopped ==
    /\ session.does = "stop"
    /\ session' = [session EXCEPT !.does = "none"]
    /\ txid' = 0 /\ bits' = bits \cup {"id"}
    /\ UNCHANGED <<clock, began, active, installed, command, task, told, accepted, odd>>

\* sessionHandler_task with a transaction on file: two calls
ResumeId ==
    /\ session.does = "resume" /\ txid = 0
    /\ txid' = session.number /\ bits' = bits \cup {"id"}
    /\ UNCHANGED <<clock, session, began, active, installed, command, task, told, accepted, odd>>
ResumeStart ==
    /\ session.does = "resume" /\ txid # 0
    /\ session' = [session EXCEPT !.does = "charge"]
    /\ began' = session.start /\ bits' = bits \cup {"start"}
    /\ UNCHANGED <<clock, txid, active, installed, command, task, told, accepted, odd>>

-----------------------------------------------------------------------------
(* The central system.  A profile is checked when it arrives and installed  *)
(* when file_lock is free.                                                  *)

NewBit(purpose) == IF purpose = "max" THEN "newMax" ELSE "newTx"

\* set_charging_profile_cb, up to update_charging_profile
SetArrives(p) ==
    /\ command = None /\ commands < MaxCommands
    /\ p.purpose = "tx" => active /\ txid # 0 /\ p.tx = txid
    /\ command' = p /\ commands' = commands + 1
    /\ UNCHANGED <<now, transaction, bits, active, installed, task, told, accepted, odd>>

\* update_charging_profile
Install ==
    LET p == command
        others == {q \in accepted : q.purpose # p.purpose \/ q.level # p.level}
        over == p.purpose = "tx" /\ (session.does \in {"none", "stop"} \/ session.number # p.tx)
    IN /\ command # None /\ command' = None
       /\ installed' = (installed \ InSlot(p)) \cup {p}
       /\ bits' = bits \cup {NewBit(p.purpose)}
       /\ accepted' = IF over THEN accepted ELSE others \cup {p}
       /\ Note(IF p.purpose = "tx" /\ ~(active /\ txid = p.tx) THEN {"slow"} ELSE {})
       /\ UNCHANGED <<clock, transaction, active, task, told>>

\* update_charging_profile when a write fails: the file is deleted, nobody is notified
InstallFails ==
    /\ command # None /\ command.purpose # "tx" /\ command' = None
    /\ installed' = installed \ InSlot(command)
    /\ Note({"unwritten"})
    /\ UNCHANGED <<clock, transaction, bits, active, task, told, accepted>>

Matches(p, c) == /\ c.id \in {None, p.id} /\ c.purpose \in {None, p.purpose} /\ c.level \in {None, p.level}

\* remove_profile_from_memory, which by level and identifier compares the wrong way
FromMemory(c) ==
    IF c.purpose \notin {None, "tx"} THEN {}
    ELSE {p \in Own(installed) : IF c.level # None THEN p.level = c.level /\ p.id # c.id
                                 ELSE c.id \in {None, p.id}}
\* remove_profile_on_file, which remove_matching_profile calls for both purposes or none
FromFile(c) ==
    IF c.purpose \notin {None, "default"} THEN {}
    ELSE {p \in installed \ Own(installed) : c.id \in {None, p.id} /\ c.level \in {None, p.level}}

\* clear_charging_profile_cb
Clear(c) ==
    LET ended == {[p EXCEPT !.to = 0] : p \in FromMemory(c)}
    IN /\ command = None /\ commands < MaxCommands /\ commands' = commands + 1
       /\ FromMemory(c) \cup FromFile(c) # {}
       /\ installed' = (installed \ (FromMemory(c) \cup FromFile(c))) \cup ended
       /\ bits' = bits \cup (IF c.purpose = None THEN {"newTx", "newMax"} ELSE {NewBit(c.purpose)})
       /\ accepted' = {p \in accepted : ~Matches(p, c)}
       /\ UNCHANGED <<now, transaction, active, command, task, told, odd>>

-----------------------------------------------------------------------------
(* ocpp_smart_task.  It runs when notified and when its delay is over; a    *)
(* turn before that, when the delay in ticks overflows, changes nothing.    *)

\* Mutant of Forgotten: only the profiles of the transaction that is active.
ForgottenOwn == {p \in installed : p.purpose = "tx" => p.tx # txid}
\* remove_profile_from_memory for all
Forgotten == installed \ Own(installed)

Wake ==
    LET fromBits == IF "start" \in bits THEN "stop" \in bits => txid # 0
                    ELSE "stop" \notin bits /\ active
        over == "stop" \in bits /\ ~fromBits
        byId == "id" \in bits /\ ~fromBits /\ txid # 0
        on == fromBits \/ byId
        fresh == on /\ ~active
        todo == (bits \cap {"newTx", "newMax"})
                \cup (IF \/ fresh \/ task.tx = None \/ task.renewTx < now
                         \/ bits \cap {"newTx", "id"} # {} THEN {"tx"} ELSE {})
                \cup (IF \/ fresh \/ task.max = None \/ task.renewMax < now
                         \/ "newMax" \in bits THEN {"max"} ELSE {})
                \cup (IF task.renewPeriod < now THEN {"period"} ELSE {})
    IN /\ task.pc = "wait" /\ (bits # {} \/ task.wake <= now)
       /\ bits' = {} /\ active' = on
       /\ began' = IF byId THEN now ELSE began
       /\ installed' = IF over THEN Forgotten ELSE installed
       /\ task' = IF ~on THEN [task EXCEPT !.wake = Never]
                  ELSE [task EXCEPT !.pc = CASE "tx" \in todo -> "tx"
                                             [] "tx" \notin todo /\ "max" \in todo -> "max"
                                             [] OTHER -> "apply",
                                    !.todo = todo, !.cand = None, !.renew = Never]
       /\ Note((IF {"start", "stop"} \subseteq bits THEN {"both"} ELSE {})
               \cup (IF ~byId THEN {} ELSE IF session.does = "resume" THEN {"early"} ELSE {"revived"}))
       /\ UNCHANGED <<clock, session, txid, command, told, accepted>>

\* One turn of get_active_profile: the next profile is read under file_lock.
Candidate == NextProfile(task.pc, installed, task.cand)
Expected(p) == ActiveFrom(began, now, p, txid)

Pass ==
    LET p == Candidate
        from == Expected(p)
    IN /\ task.pc \in {"tx", "max"} /\ from # now
       /\ task' = [task EXCEPT !.cand = p, !.renew = Min({@, from}),
                               !.pc = IF from = Never /\ p.to < now
                                      THEN IF task.pc = "tx" THEN "removeTx" ELSE "removeMax" ELSE @]
       /\ UNCHANGED <<clock, transaction, bits, active, installed, command, told, accepted, odd>>

\* remove_profile: what is in the place of the expired profile by now
RemoveExpired ==
    LET there == InSlot(task.cand)
    IN /\ task.pc \in {"removeTx", "removeMax"}
       /\ task' = [task EXCEPT !.pc = IF task.pc = "removeTx" THEN "tx" ELSE "max"]
       /\ installed' = (installed \ there) \cup {[p EXCEPT !.to = 0] : p \in Own(there)}
       /\ Note(IF there \subseteq {task.cand} THEN {} ELSE {"raced"})
       /\ UNCHANGED <<clock, transaction, bits, active, command, told, accepted>>

\* Mutant of Renewal: the duration is forgotten.
RenewalValid(p) == Min({task.renew, p.to})
\* get_active_profile's end: when the profile has to be looked for again
Renewal(p) == Min({task.renew, p.to} \cup DurationEnds(StartOf(began, now, p), p))

SelectTx ==
    LET p == Candidate
        changed == "newTx" \in task.todo \/ task.tx = None \/ task.tx.level # p.id
    IN /\ task.pc = "tx" /\ Expected(p) = now
       /\ task' = [task EXCEPT !.tx = p, !.renewTx = Renewal(p), !.cand = None, !.renew = Never,
                               !.todo = IF changed THEN @ \cup {"schedule"} ELSE @,
                               !.pc = IF "max" \in task.todo THEN "max" ELSE "apply"]
       /\ UNCHANGED <<clock, transaction, bits, active, installed, command, told, accepted, odd>>

SelectMax ==
    LET p == Candidate
        changed == "newMax" \in task.todo \/ task.tx.level # task.tx.id
    IN /\ task.pc = "max" /\ Expected(p) = now
       /\ task' = [task EXCEPT !.max = p, !.renewMax = Renewal(p), !.cand = None, !.renew = Never,
                               !.todo = IF changed THEN @ \cup {"schedule"} ELSE @, !.pc = "apply"]
       /\ UNCHANGED <<clock, transaction, bits, active, installed, command, told, accepted, odd>>

\* The rest of the turn: the schedule, its period, what the session handler is told
\* and how long to wait.
Apply ==
    LET s == IF "schedule" \in task.todo THEN Schedule(began, now, task.tx, task.max) ELSE task.schedule
        anew == {"schedule", "period"} \cap task.todo # {}
        next == IF anew THEN NextPeriod(s, now) ELSE task.renewPeriod
    IN /\ task.pc = "apply"
       /\ told' = IF anew THEN LimitAt(s, now) ELSE told
       /\ task' = [task EXCEPT !.pc = "wait", !.todo = {}, !.schedule = s, !.renewPeriod = next,
                               !.wake = Max({now + 1, Min({task.renewTx, task.renewMax, next})})]
       /\ UNCHANGED <<clock, transaction, bits, active, installed, command, accepted, odd>>

\* Time passes only while the task has nothing to do.
Tick ==
    /\ now < MaxTime /\ task.pc = "wait" /\ bits = {} /\ now < task.wake
    /\ now' = now + 1
    /\ UNCHANGED <<commands, transaction, bits, active, installed, command, task, told, accepted, odd>>

Next ==
    \/ Start \/ IdReceived \/ Stop \/ Stopped \/ ResumeId \/ ResumeStart
    \/ \E p \in Profiles : SetArrives(p)
    \/ Install \/ InstallFails
    \/ \E c \in Clears : Clear(c)
    \/ Wake \/ Pass \/ RemoveExpired \/ SelectTx \/ SelectMax \/ Apply \/ Tick

Spec == Init /\ [][Next]_vars

-----------------------------------------------------------------------------
\* The task has dealt with everything there is at this second.
AtRest == task.pc = "wait" /\ bits = {} /\ now < task.wake

TypeOK ==
    /\ now \in 0 .. MaxTime /\ commands \in 0 .. MaxCommands /\ txid \in 0 .. MaxTx /\ began \in 0 .. MaxTime
    /\ session.does \in {"none", "charge", "stop", "resume"}
    /\ bits \subseteq {"start", "stop", "id", "newTx", "newMax"}
    /\ \A p, q \in installed : IsProfile(p) /\ (p.purpose = q.purpose /\ p.level = q.level => p = q)
    /\ odd \subseteq {"both", "early", "raced", "revived", "slow", "unwritten"}

\* During a transaction the session handler has been told what the profiles in force say:
\* the lower of the transaction's limit and the charge point's, each at most a second old,
\* as the task renews a profile or period the second after it ended.  Not when a profile was
\* lost (ProfilesKept), and not when a start and a stop were seen together or a resumed
\* transaction was seen before its start time.
LimitRight ==
    odd = {} /\ AtRest /\ session.does = "charge" =>
        /\ active
        /\ \E t, u \in {now, Max({session.start, now - 1})} :
              told = Min({TxLimit(accepted, session.start, t), MaxLimit(accepted, session.start, u)})

\* A profile the central system was told is accepted is kept until it expires, is cleared or
\* replaced, or its transaction ends, unless it replaced an expired profile while the task was
\* about to remove that one, or a later one for its place could not be written.
ProfilesKept ==
    odd \cap {"raced", "unwritten", "both"} = {} =>
        \A p \in accepted : p.to >= now => p \in installed

\* A profile of a transaction is gone once the transaction is over, unless it was installed
\* only after the end of the transaction.
TxEnds ==
    odd \cap {"slow", "both", "revived"} = {} /\ AtRest =>
        \A p \in Own(installed) : session.does # "none" /\ p.tx = session.number
=============================================================================
