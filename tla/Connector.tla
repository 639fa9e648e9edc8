------------------------------ MODULE Connector ------------------------------
(***************************************************************************)
(* The OCPP connector of the session handler (sessionHandler.c): its       *)
(* status, authorisation by tag or by RemoteStartTransaction, reservation, *)
(* transaction and session reset.                                          *)
(*                                                                         *)
(* Three parties share its statics without a lock.  The session handler's  *)
(* loop reads the MCU and computes the status (Observe), acts on it (Enter *)
(* or a handler), and ends with the charge session and the reset of the    *)
(* session (EndLoop).  The OCPP task runs callbacks at any point of that   *)
(* loop.  The MCU and the user change what the loop sees.                  *)
(*                                                                         *)
(* Some legal orders of events lead to states the code does not allow for. *)
(* They are taken as well; each is named in `taken', a run takes at most   *)
(* MaxRisks of them, and a property says which of them it does not         *)
(* survive.  README, "The connector", describes them.                      *)
(*   "late"    a start is answered after its transaction has ended         *)
(*   "second"  an authorisation begins while another is asked for, given   *)
(*             or in use                                                   *)
(*   "stale"   a comparison is answered when what it compared with is gone *)
(*   "race"    a request is granted for a status the loop has not entered, *)
(*             or a tag taken in a status it has yet to leave              *)
(*   "nack"    the MCU refuses a command                                   *)
(*   "disable" the charger is disabled while the connector is in use       *)
(*   "sched"   a scheduled change meets a transaction that just ends       *)
(*   "gap"     a restart before a transaction that is due, or in its fault *)
(*   "flap"    a new warning comes while another one is active             *)
(*   "mode"    the MCU reports an operating mode that no use here explains *)
(***************************************************************************)
EXTENDS Naturals, Sequences, FiniteSets

CONSTANTS Tokens,      \* id tokens of tags and requests
          Families,    \* sets of tokens that have one parent token
          MaxEvents,   \* bound: events of users, the central system and the MCU
          MaxRisks,    \* bound: how many of the named risks one behaviour takes
          Risks        \* the risks it may take

ASSUME ConnectorAssumption ==
    /\ "none" \notin Tokens
    /\ \A f \in Families : f \subseteq Tokens
    /\ MaxEvents \in Nat /\ MaxRisks \in Nat

VARIABLES
    h,        \* statics of the session handler and its charge session
    pc,       \* where its loop is: "observe", "act" or "end"
    seen,     \* operating mode and status read by this round of the loop
    store,    \* token of the active transaction on file
    resv,     \* token of the reservation on file
    oper,     \* enabled in the portal and registered
    regd,     \* registered
    own,      \* availability_ocpp
    mcu,      \* "disconnected", "requesting", "idle", "charging", "paused"
    odd,      \* operating mode the MCU reports in the place of that one
    told,     \* command the MCU has acknowledged and not yet carried out
    energy,   \* the MCU's session has used energy
    limit,    \* the smart charging limit allows charging
    warn,     \* warnings of the MCU
    tag,      \* the tag the reader holds as valid
    calls,    \* Authorize requests in flight, oldest first
    starts,   \* StartTransactions not yet answered, oldest first
    taken,    \* history: risks taken
    events    \* events so far

vars == <<h, pc, seen, store, resv, oper, regd, own, mcu, odd, told, energy, limit, warn,
          tag, calls, starts, taken, events>>

None == "none"
InTx == {"Charging", "SuspendedEV", "SuspendedEVSE"}
OddModes == {"uninitialized", "active", "stopping", "stopped"}
\* MCU_WARNING_TRANSITION_FAULTED: a notice is sent to the central system and no more.
Faults(warnings) == warnings \ {"notice"}
Related(t, u) == t = u \/ \E f \in Families : {t, u} \subseteq f

\* A risk is noted.  A behaviour that has had its share does not choose another,
\* but neither the loop nor a reply is held up by one that is due.
When(cond, risk) == IF cond THEN {risk} ELSE {}
Note(risks) == taken' = taken \cup risks
Take(risks) == /\ Note(risks)
               /\ \/ risks \subseteq taken
                  \/ risks \subseteq Risks /\ Cardinality(taken') <= MaxRisks

Event == events < MaxEvents /\ events' = events + 1

Boot == [st |-> "Unavailable", exit |-> "Unavailable", faulted |-> FALSE,
         notified |-> {}, startup |-> TRUE,
         auth |-> FALSE, asking |-> FALSE, start |-> None, finishing |-> FALSE,
         tx |-> None, by |-> None,       \* by, history: the token granted last
         open |-> FALSE, code |-> None, rfid |-> None,
         reset |-> None, wait |-> FALSE, over |-> None, prev |-> "disconnected",
         sched |-> FALSE]

Unread == [mode |-> "disconnected", st |-> "Unavailable"]

Init == /\ h = Boot
        /\ pc = "observe" /\ seen = Unread
        /\ store = None /\ resv = None /\ oper = TRUE /\ regd = TRUE /\ own = TRUE
        /\ mcu = "disconnected" /\ odd = None /\ told = None /\ energy = FALSE
        /\ limit = TRUE /\ warn = {} /\ tag = None
        /\ calls = <<>> /\ starts = <<>>
        /\ taken = {} /\ events = 0

----------------------------------------------------------------------------
(* Status *)

Mode(s) == IF s.over # None THEN s.over
           ELSE IF odd # None THEN odd
           ELSE IF mcu = "idle" THEN "charging" ELSE mcu

\* The status of a connector that is in operation and not being reset.
InService(s) ==
    LET mode   == Mode(s)
        booked == resv # None /\ ~s.auth
    IN  CASE mode = "disconnected" ->
               IF booked THEN "Reserved"
               ELSE IF ~s.auth /\ ~s.asking THEN "Available"
               ELSE IF s.st \in InTx THEN "Finishing" ELSE "Preparing"
          [] mode = "requesting" ->
               IF booked THEN "Reserved"
               ELSE IF s.auth /\ s.tx # None THEN "SuspendedEVSE"
               ELSE IF s.finishing \/ s.st \in InTx THEN "Finishing" ELSE "Preparing"
          [] mode = "charging" -> IF mcu = "idle" THEN "SuspendedEV" ELSE "Charging"
          [] mode = "paused" -> "SuspendedEVSE"
          [] mode = "stopping" -> "Finishing"
          [] mode = "stopped" -> "Available"
          [] mode = "active" -> IF booked THEN "Reserved" ELSE "Available"
          [] mode = "uninitialized" -> "Unavailable"

\* get_ocpp_state
State(s) ==
    IF s.faulted THEN "Faulted"
    ELSE IF s.st = "Faulted" THEN s.exit
    ELSE IF s.reset # None THEN "Finishing"
    ELSE IF s.startup \/ ~oper \/ ~own THEN "Unavailable"
    ELSE InService(s)

----------------------------------------------------------------------------
(* Changes of the statics that several handlers make *)

Revoked(s) == [s EXCEPT !.auth = FALSE, !.start = None, !.by = None]
\* Mutant of Granted: a token that was granted before, and timed out, is kept.
GrantedFirst(s, t) == [s EXCEPT !.auth = TRUE, !.start = IF @ = None THEN t ELSE @,
                                !.by = t, !.code = t, !.asking = FALSE]
Granted(s, t) == [s EXCEPT !.auth = TRUE, !.start = t, !.by = t, !.code = t,
                           !.asking = FALSE]
Denied(s) == [Revoked(s) EXCEPT !.asking = FALSE]
\* sessionHandler_InitiateResetChargeSession
Resetting(s) == [s EXCEPT !.reset = "initiated", !.wait = TRUE]

\* Mutant of Answered: the token of the reservation is not compared.
AnsweredAnyhow(s, c, yes) ==
    CASE c.kind = "start" -> IF yes THEN Granted(s, c.tok) ELSE Denied(s)
      [] c.kind = "reserved" -> Granted(s, c.tok)
      [] c.kind = "cancel" -> [s EXCEPT !.asking = FALSE]
      [] c.kind = "stop" -> s
\* What the callback of a request does with the answer.
Answered(s, c, yes) ==
    CASE c.kind \in {"start", "reserved"} -> IF yes THEN Granted(s, c.tok) ELSE Denied(s)
      [] c.kind = "cancel" ->
           IF yes THEN [Resetting(Denied(s)) EXCEPT !.code = None]
           ELSE [s EXCEPT !.asking = FALSE]
      [] c.kind = "stop" ->
           IF yes THEN Resetting([Revoked(s) EXCEPT
                                    !.rfid = IF s.open THEN c.tok ELSE @])
           ELSE s

\* The answers a request can get: a start any, a comparison "similar" only for
\* tokens of one parent, and "different" also when a request for it fails.
Verdicts(c) == IF c.kind = "start" THEN BOOLEAN
               ELSE IF c.tok = c.ref THEN {TRUE}
               ELSE IF Related(c.tok, c.ref) THEN BOOLEAN ELSE {FALSE}

\* The MCU may refuse the CommandAuthorizationGranted that follows an acceptance.
Outcomes(s, c) ==
    {Answered(s, c, yes) : yes \in Verdicts(c)}
    \cup IF c.kind \in {"start", "reserved"} THEN {[s EXCEPT !.asking = FALSE]} ELSE {}

\* ocpp_authorize and ocpp_authorize_compare: answered at once from the lists
\* kept here, or sent to the central system.
Ask(s, kind, tok, ref) ==
    LET c  == [kind |-> kind, tok |-> tok, ref |-> ref, live |-> TRUE]
        s1 == IF kind \in {"start", "cancel"} THEN [s EXCEPT !.asking = TRUE] ELSE s
    IN  \/ h' \in Outcomes(s1, c) /\ calls' = calls
        \/ tok # ref /\ h' = s1 /\ calls' = Append(calls, c)

\* An authorisation is asked for, given or in use.
Authorised == calls # <<>> \/ h.auth \/ h.tx # None

\* Requests about something that has ended.
Outdated(cs, kinds) ==
    [i \in DOMAIN cs |-> [cs[i] EXCEPT !.live = @ /\ cs[i].kind \notin kinds]]

----------------------------------------------------------------------------
(* The loop of the session handler *)

\* A transaction on file is taken up when the charger has been registered.
\* Its session is ended at once unless the MCU still charges.
Loaded(s) ==
    LET up   == [s EXCEPT !.startup = FALSE, !.auth = FALSE]
        with == [up EXCEPT !.tx = store, !.code = store]
    IN  IF store = None THEN up
        ELSE IF Mode(s) \in {"charging", "paused"} THEN with
        ELSE [with EXCEPT !.tx = None]

\* Mutant of Warned: a warning that has gone is not noticed.
WarnedOnce(s, new) ==
    IF Faults(new) = {} THEN s
    ELSE [s EXCEPT !.notified = warn, !.faulted = TRUE, !.exit = s.st]
Warned(s, new) ==
    IF Faults(new) = {} THEN [s EXCEPT !.notified = warn]
    ELSE [s EXCEPT !.notified = warn, !.faulted = TRUE, !.exit = s.st]

\* Assumption: within a second the MCU has carried out a start or a reset; only
\* to stop may it take longer, until the car draws no more current.
Observe ==
    /\ pc = "observe" /\ pc' = "act"
    /\ told \in {None, "stop"}
    /\ \E ready \in (IF h.startup THEN BOOLEAN ELSE {TRUE}) :
         LET s1    == IF h.startup /\ ready THEN Loaded(h) ELSE h
             new   == warn \ s1.notified
             s2    == IF ready /\ regd THEN Warned(s1, new) ELSE s1
             alarm == s2.faulted /\ Faults(new) # {}
         IN  /\ h' = s2
             /\ store' = IF h.startup /\ ready THEN s2.tx ELSE store
             /\ starts' = IF store' # store THEN Outdated(starts, {"tx"}) ELSE starts
             /\ seen' = [mode |-> Mode(h), st |-> IF alarm THEN "Faulted" ELSE State(s1)]
             /\ Note(When(alarm /\ h.st = "Faulted", "flap")
                     \cup When(s2.faulted /\ h.startup /\ s2.tx # None, "gap"))
    /\ UNCHANGED <<resv, oper, regd, own, mcu, odd, told, energy, limit, warn, tag, calls, events>>

\* stop_transaction
Ended(s) == [s EXCEPT !.tx = None]
\* start_transaction: the token is the session's or else the one granted last.
Begun(s) == LET t == IF s.code # None THEN s.code
                     ELSE IF s.start # None THEN s.start ELSE "default"
            IN  [s EXCEPT !.tx = t, !.code = t]

\* Mutant of Ends: a car that has gone without a stop is forgotten.
EndsFinishing(old, new) ==
    \/ new = "Finishing" /\ old \in InTx
    \/ new = "Unavailable" /\ old \in {"Available", "Charging"}
\* Mutant of Ends: only a car that has gone ends it.
EndsAvailable(old, new) == new = "Available" /\ old \in InTx
\* Whether a transition ends a transaction, or begins one.
Ends(old, new) ==
    \/ new \in {"Available", "Finishing"} /\ old \in InTx
    \/ new = "Unavailable" /\ old \in {"Available", "Charging"}
Begins(old, new) == new \in InTx /\ old \in {"Available", "Preparing"}

\* handle_state_transition, with the availability that waits for it.
Enter ==
    /\ pc = "act" /\ pc' = "end"
    /\ seen.st # h.st
    /\ LET closes == h.sched /\ own /\ seen.st = "Available"
           old == h.st
           new == IF closes THEN "Unavailable" ELSE seen.st
           s1  == IF old = "Finishing" /\ seen.st # "Faulted"
                  THEN [h EXCEPT !.finishing = FALSE] ELSE h
           s2  == IF Ends(old, new) THEN Ended(s1)
                  ELSE IF Begins(old, new) THEN Begun(s1) ELSE s1
           s3  == IF new = "Finishing" THEN [Revoked(s2) EXCEPT !.finishing = TRUE]
                  ELSE IF Ends(old, new) THEN Revoked(s2) ELSE s2
       IN  /\ h' = [s3 EXCEPT !.st = new]
           /\ own' = (own /\ ~closes)
           /\ resv' = IF new = "Finishing" \/ Begins(old, new) THEN None ELSE resv
           /\ store' = IF Ends(old, new) \/ Begins(old, new) THEN s2.tx ELSE store
           /\ starts' = IF Begins(old, new)
                        THEN Append(Outdated(starts, {"tx"}),
                                    [kind |-> "tx", tok |-> s2.tx, live |-> TRUE])
                        ELSE IF Ends(old, new) THEN Outdated(starts, {"tx"}) ELSE starts
           /\ calls' = LET gone == (IF Ends(old, new) THEN {"stop"} ELSE {})
                                   \cup (IF resv' # resv THEN {"reserved"} ELSE {})
                       IN  Outdated(calls, gone)
           /\ told' = IF new = "SuspendedEVSE" /\ old = "SuspendedEV" /\ limit
                      THEN "start" ELSE told
           /\ Note(When(closes /\ old \in {"SuspendedEV", "SuspendedEVSE"}, "sched"))
    /\ UNCHANGED <<seen, oper, regd, mcu, odd, energy, limit, warn, tag, events>>

\* A handler runs when the status has not changed.
Handling(states) == /\ pc = "act" /\ pc' = "end"
                    /\ seen.st = h.st /\ h.st \in states
NewTag == tag # None /\ h.rfid = None /\ ~h.asking

\* What no handler changes.
Kept == <<seen, store, resv, oper, regd, own, mcu, odd, energy, warn, starts, events>>

\* handle_available and handle_finishing
Authorize ==
    /\ Handling({"Available", "Finishing"}) /\ NewTag
    /\ tag' = None
    /\ Ask([h EXCEPT !.finishing = FALSE], "start", tag, None)
    /\ Note(When(Authorised, "second"))
    /\ UNCHANGED Kept /\ UNCHANGED <<told, limit>>

\* handle_preparing, when all conditions for charging are met
StartCharging ==
    /\ Handling({"Preparing"}) /\ mcu # "disconnected" /\ h.auth
    /\ \/ told' = "start" /\ taken' = taken
       \/ told' = told /\ Take({"nack"})
    /\ limit' = TRUE
    /\ calls' = Outdated(calls, {"cancel"})
    /\ UNCHANGED Kept /\ UNCHANGED <<h, tag>>

\* handle_preparing, with a tag
PreparingTag ==
    /\ Handling({"Preparing"}) /\ NewTag /\ (mcu = "disconnected" \/ ~h.auth)
    /\ tag' = None
    /\ IF h.auth THEN Ask(h, "cancel", tag, h.code) ELSE Ask(h, "start", tag, None)
    /\ Note(When(calls # <<>> \/ (~h.auth /\ h.tx # None), "second")
            \cup When(~h.auth /\ resv # None, "race"))
    /\ UNCHANGED Kept /\ UNCHANGED <<told, limit>>

\* handle_preparing, when no cable was connected in time
ConnectionTimeout ==
    /\ Handling({"Preparing"}) /\ ~NewTag /\ mcu = "disconnected" /\ h.auth
    /\ h' = [Resetting(h) EXCEPT !.auth = FALSE, !.by = None, !.code = None]
    /\ UNCHANGED Kept /\ UNCHANGED <<told, limit, tag, calls, taken>>

\* handle_charging, handle_suspended_ev and handle_suspended_evse, which tells
\* the MCU to resume when the last time is long enough ago; it may refuse.
DuringTx ==
    /\ Handling(InTx)
    /\ \/ told' = told
       \/ h.st = "SuspendedEVSE" /\ h.notified = {} /\ limit /\ told' = "start"
    /\ IF NewTag
       THEN /\ tag' = None
            /\ Ask(h, "stop", tag, h.code)
            /\ Note(When(calls # <<>>, "second"))
       ELSE UNCHANGED <<h, tag, calls, taken>>
    /\ UNCHANGED Kept /\ UNCHANGED limit

\* handle_reserved
ReservedTag ==
    /\ Handling({"Reserved"}) /\ NewTag /\ resv # None
    /\ tag' = None
    /\ Ask(h, "reserved", tag, resv)
    /\ Note(When(Authorised, "second"))
    /\ UNCHANGED Kept /\ UNCHANGED <<told, limit>>

\* handle_faulted
Recover ==
    /\ Handling({"Faulted"}) /\ Faults(h.notified) = {}
    /\ h' = [h EXCEPT !.faulted = FALSE]
    /\ UNCHANGED Kept /\ UNCHANGED <<told, limit, tag, calls, taken>>

\* A handler that finds nothing to do.
NothingToDo ==
    /\ Handling({"Available", "Finishing", "Preparing", "Reserved", "Faulted", "Unavailable"})
    /\ CASE h.st \in {"Available", "Finishing"} -> ~NewTag
         [] h.st = "Preparing" -> ~NewTag /\ ~(h.auth /\ mcu # "disconnected")
         [] h.st = "Reserved" -> ~NewTag \/ resv = None
         [] h.st = "Faulted" -> Faults(h.notified) # {}
         [] OTHER -> TRUE
    /\ UNCHANGED Kept /\ UNCHANGED <<h, told, limit, tag, calls, taken>>

\* Mutant of Session: the next session keeps the tag that stopped the last one.
SessionSameTag(s, mode) ==
    LET here(m) == m \notin {"disconnected", "uninitialized"}
    IN  CASE here(mode) /\ ~here(s.prev) /\ s.reset = None /\ ~s.open ->
               [s EXCEPT !.open = TRUE, !.code = None]
          [] mode = "disconnected" /\ here(s.prev) -> [s EXCEPT !.open = FALSE, !.code = None]
          [] OTHER -> s
\* The charge session begins when a car is seen and ends when it is gone; one
\* that was read from file is kept.
Session(s, mode) ==
    LET here(m) == m \notin {"disconnected", "uninitialized"}
    IN  CASE here(mode) /\ ~here(s.prev) /\ s.reset = None /\ ~s.open ->
               [s EXCEPT !.open = TRUE, !.code = None, !.rfid = None]
          [] mode = "disconnected" /\ here(s.prev) ->
               [s EXCEPT !.open = FALSE, !.code = None, !.rfid = None]
          [] OTHER -> s

\* sessionHandler_StopAndResetChargeSession
StopAndReset(s) ==
    CASE s.reset = "initiated" ->
           {[h |-> [s EXCEPT !.reset = "stopSent", !.over = "paused"],
             cmd |-> "stop", nack |-> FALSE],
            [h |-> [s EXCEPT !.reset = None, !.over = None],
             cmd |-> None, nack |-> TRUE]}
      [] s.reset = "stopSent" ->
           {[h |-> IF mcu # "charging" \/ ~s.wait THEN [s EXCEPT !.reset = "finalize"]
                   ELSE [s EXCEPT !.wait = FALSE],
             cmd |-> None, nack |-> FALSE]}
      [] s.reset = "finalize" ->
           {[h |-> [s EXCEPT !.reset = "doReset", !.over = "disconnected"],
             cmd |-> None, nack |-> FALSE]}
      [] s.reset = "doReset" /\ ~s.open ->
           {[h |-> [s EXCEPT !.reset = "wait"], cmd |-> "reset", nack |-> FALSE],
            [h |-> [s EXCEPT !.reset = "wait"], cmd |-> None, nack |-> TRUE]}
      [] s.reset = "wait" /\ ~energy ->
           {[h |-> [s EXCEPT !.reset = None, !.over = None], cmd |-> None, nack |-> FALSE]}
      [] OTHER -> {[h |-> s, cmd |-> None, nack |-> FALSE]}

EndLoop ==
    /\ pc = "end" /\ pc' = "observe"
    /\ \E o \in StopAndReset([Session(h, seen.mode) EXCEPT !.prev = seen.mode]) :
         /\ h' = o.h
         /\ told' = IF o.cmd # None THEN o.cmd ELSE told
         /\ Take(When(o.nack, "nack"))
    /\ tag' = IF seen.mode = "disconnected" /\ h.prev \notin {"disconnected", "uninitialized"}
              THEN None ELSE tag
    /\ UNCHANGED <<seen, store, resv, oper, regd, own, mcu, odd, energy, limit, warn, calls, starts, events>>

----------------------------------------------------------------------------
(* Callbacks of the OCPP task *)

\* What no callback changes.
Elsewhere == <<pc, seen, store, oper, regd, mcu, odd, told, energy, limit, warn, tag>>

Reply ==
    /\ calls # <<>> /\ calls' = Tail(calls)
    /\ h' \in Outcomes(h, Head(calls))
    /\ Note(When(~Head(calls).live, "stale"))
    /\ UNCHANGED Elsewhere /\ UNCHANGED <<resv, own, starts, events>>

\* start_transaction_response_cb
StartReply ==
    /\ starts # <<>> /\ starts' = Tail(starts)
    /\ LET c  == Head(starts)
           s1 == [h EXCEPT !.code = c.tok]
       IN  /\ \E valid \in BOOLEAN :
                h' = IF c.live /\ h.tx # None /\ ~valid THEN Resetting(Revoked(s1)) ELSE s1
           /\ Note(When(~c.live /\ h.code # c.tok, "late"))
    /\ UNCHANGED Elsewhere /\ UNCHANGED <<resv, own, calls, events>>

\* The status computed here is not the one the loop acts on.
Unseen == pc = "act" \/ State(h) # h.st

\* remote_start_transaction_cb; authorize tells whether AuthorizeRemoteTxRequests is set.
RemoteStart ==
    /\ Event
    /\ \E t \in Tokens, authorize \in BOOLEAN :
         LET st == State(h)
             s1 == [h EXCEPT !.finishing = FALSE]
         IN  \/ /\ st \in {"Available", "Preparing", "Finishing"}
                /\ IF authorize THEN Ask(s1, "start", t, None)
                   ELSE h' \in {Granted(s1, t), [s1 EXCEPT !.asking = FALSE]} /\ calls' = calls
             \/ /\ st = "Reserved" /\ resv # None
                /\ IF authorize THEN Ask(h, "reserved", t, resv)
                   ELSE t = resv /\ h' \in {Granted(h, t), [h EXCEPT !.asking = FALSE]} /\ calls' = calls
    /\ Take(When(Authorised, "second")
            \cup When(Unseen /\ resv # None, "race"))
    /\ UNCHANGED Elsewhere /\ UNCHANGED <<resv, own, starts>>

\* remote_stop_transaction_cb, for the transaction that is active
RemoteStop ==
    /\ Event
    /\ h.tx # None
    /\ h' = Resetting(Revoked(h))
    /\ UNCHANGED Elsewhere /\ UNCHANGED <<resv, own, calls, starts, taken>>

\* reserve_now_cb; a reservation may be changed by its id, be it for another token.
Reserve ==
    /\ Event
    /\ State(h) \in {"Available", "Reserved"}
    /\ resv' \in Tokens
    /\ calls' = IF resv' # resv THEN Outdated(calls, {"reserved"}) ELSE calls
    /\ Take(When((State(h) = "Available" /\ Unseen) \/ h.st = "Faulted", "race"))
    /\ UNCHANGED Elsewhere /\ UNCHANGED <<h, own, starts>>

\* cancel_reservation_cb, or the reservation expires
Unreserve ==
    /\ Event
    /\ resv # None /\ resv' = None
    /\ calls' = Outdated(calls, {"reserved"})
    /\ UNCHANGED Elsewhere /\ UNCHANGED <<h, own, starts, taken>>

\* change_availability_cb
ChangeAvailability ==
    /\ Event
    /\ \/ ~own /\ own' = TRUE /\ h' = [h EXCEPT !.sched = FALSE]
       \/ /\ own /\ own' = (State(h) # "Available")
          /\ h' = [h EXCEPT !.sched = own']
       \/ h.sched /\ own' = own /\ h' = [h EXCEPT !.sched = FALSE]
    /\ Take(When(~own' /\ Unseen, "race"))
    /\ UNCHANGED Elsewhere /\ UNCHANGED <<resv, calls, starts>>

\* sessionHandler_OcppSetChargingVariables: charging is paused or resumed.
SetChargingVariables ==
    /\ Event
    /\ h.tx # None
    /\ limit' = ~limit
    /\ mcu' = IF limit /\ mcu \in {"idle", "charging"} THEN "paused" ELSE mcu
    /\ told' = IF limit THEN told ELSE "start"
    /\ Take(When(limit' /\ (Unseen \/ h.reset # None), "race"))
    /\ UNCHANGED <<h, pc, seen, store, resv, oper, regd, own, odd, energy, warn, tag, calls, starts>>

----------------------------------------------------------------------------
(* The car, the user, the MCU and restarts *)

\* What none of them changes.
Software == <<h, pc, seen, store, resv, own, calls, starts>>

ShowTag == /\ Event
           /\ tag = None /\ tag' \in Tokens
           /\ UNCHANGED Software
           /\ UNCHANGED <<oper, regd, mcu, odd, told, energy, limit, warn, taken>>

Connect == /\ Event
           /\ mcu = "disconnected" /\ mcu' = "requesting" /\ told' = None
           /\ UNCHANGED Software /\ UNCHANGED <<oper, regd, odd, energy, limit, warn, tag, taken>>

Disconnect == /\ Event
              /\ mcu # "disconnected" /\ mcu' = "disconnected" /\ energy' = FALSE
              /\ told' = None
              /\ UNCHANGED Software /\ UNCHANGED <<oper, regd, odd, limit, warn, tag, taken>>

\* The MCU carries out the command it has acknowledged.
McuObeys ==
    /\ told # None /\ told' = None
    /\ mcu' = CASE told = "start" /\ mcu \in {"requesting", "paused"} ->
                      IF limit THEN "idle" ELSE "paused"
                [] told \in {"stop", "reset"} /\ mcu # "disconnected" -> "requesting"
                [] OTHER -> mcu
    /\ energy' = (energy /\ told # "reset")
    /\ UNCHANGED Software /\ UNCHANGED <<oper, regd, odd, limit, warn, tag, taken, events>>

\* The car begins or stops to draw current, or the MCU leaves charging by itself.
CarDraws == /\ Event
            /\ \/ mcu = "idle" /\ mcu' = "charging" /\ energy' = TRUE
               \/ mcu = "charging" /\ mcu' \in {"idle", "requesting"} /\ energy' = energy
            /\ UNCHANGED Software
            /\ UNCHANGED <<oper, regd, odd, told, limit, warn, tag, taken>>

\* The MCU reports another mode for a while.  It decides by itself when, so what
\* the car does is not tied to it.
Report == /\ Event
          /\ IF odd = None THEN odd' \in OddModes ELSE odd' = None
          /\ Take(When(odd' # None, "mode"))
          /\ UNCHANGED Software
          /\ UNCHANGED <<oper, regd, mcu, told, energy, limit, warn, tag>>

\* Two warnings that matter are alike, so "other" comes only beside the first.
Warnings == /\ Event
            /\ \/ warn # {} /\ warn' = {}
               \/ \E w \in {"fault", "other", "notice"} \ warn :
                    /\ w = "other" => Faults(warn \cup h.notified) # {}
                    /\ warn' = warn \cup {w}
            /\ UNCHANGED Software
            /\ UNCHANGED <<oper, regd, mcu, odd, told, energy, limit, tag, taken>>

InUse == \/ h.st \notin {"Available", "Reserved"} \/ Unseen
         \/ h.auth \/ calls # <<>>

\* The charger is disabled in the portal or loses its registration, or the reverse.
Disable == /\ Event
           /\ \/ regd /\ regd' = regd /\ oper' = ~oper
              \/ regd /\ regd' = FALSE /\ oper' = FALSE
              \/ ~regd /\ regd' = TRUE /\ oper' \in BOOLEAN
           /\ Take(When(oper /\ ~oper' /\ InUse, "disable"))
           /\ UNCHANGED Software
           /\ UNCHANGED <<mcu, odd, told, energy, limit, warn, tag>>

\* The ESP32 restarts.  With a car connected the session is read from its file.
Restart ==
    /\ Event
    /\ h' = IF mcu # "disconnected" /\ h.open
            THEN [Boot EXCEPT !.open = TRUE, !.code = h.code] ELSE Boot
    /\ pc' = "observe" /\ seen' = Unread /\ calls' = <<>> /\ tag' = None
    /\ Take(When(told = "start" \/ (store = None /\ mcu \in {"idle", "charging", "paused"}), "gap"))
    /\ UNCHANGED <<store, resv, oper, regd, own, mcu, odd, told, energy, limit, warn, starts>>

----------------------------------------------------------------------------
Handler == \/ Authorize \/ StartCharging \/ PreparingTag \/ ConnectionTimeout
           \/ DuringTx \/ ReservedTag \/ Recover \/ NothingToDo
Loop == Observe \/ Enter \/ Handler \/ EndLoop
Callback == \/ Reply \/ StartReply \/ RemoteStart \/ RemoteStop \/ Reserve
            \/ Unreserve \/ ChangeAvailability \/ SetChargingVariables
World == ShowTag \/ Connect \/ Disconnect \/ McuObeys \/ CarDraws \/ Report
         \/ Warnings \/ Disable \/ Restart

Next == Loop \/ Callback \/ World

\* The loop goes on, and the MCU carries out what it has acknowledged; nothing is
\* assumed of answers.  Each step of the loop changes pc, which only restarts do
\* besides, each of the MCU's told.  The loop waits for nothing but the MCU.
Fairness == []<><<TRUE>>_pc /\ WF_told(McuObeys)

Spec == Init /\ [][Next]_vars /\ Fairness

----------------------------------------------------------------------------
(* Properties *)

\* None of these risks was taken.
Without(rs) == taken \cap rs = {}

\* The transaction and the status agree: there is one exactly while the status
\* is one of charging, or was when a fault began; only a charger out of service
\* may hold one otherwise, and the file has the one the session handler has.
TxInState ==
    Without({"race", "nack", "disable", "sched", "gap", "flap", "mode"}) =>
    LET st == IF h.st = "Faulted" THEN h.exit ELSE h.st
    IN  /\ st \in InTx => h.tx # None
        /\ h.tx # None => st \in InTx \cup {"Unavailable"}
        /\ ~h.startup => store = h.tx

\* A transaction is started with the token that was granted last and has not
\* been revoked since.
TokenRight ==
    [][ Without({"late", "second", "stale", "race", "disable", "mode"})
        /\ store = None /\ store' # None => store' = h.by ]_vars

\* While a reservation stands no other token starts a transaction.
ReservationKept ==
    [][ Without({"late", "second", "stale", "race", "disable", "mode"})
        /\ store = None /\ store' # None /\ resv # None => Related(store', resv) ]_vars

\* A tag stops only a transaction of its own token or of a related one.
OwnerStops ==
    [][ Without({"late", "second", "stale", "race", "disable", "nack", "sched", "gap", "mode"})
        /\ store # None /\ store' = None /\ h.rfid # None => Related(h.rfid, store) ]_vars

\* A transaction that is to be stopped is stopped, unless the charger restarts
\* or a warning stays active.
StopEnds ==
    []<>(Faults(h.notified) = {})
    => (h.tx # None /\ h.reset # None
        ~> h.tx = None \/ h.startup \/ ~Without({"nack", "disable", "flap", "mode"}))

\* When the car has left, the MCU says so, and a registered charger has no warning
\* that matters, the transaction ends and the connector recovers.
DisconnectEnds ==
    <>[](mcu = "disconnected" /\ odd = None /\ Faults(warn) = {} /\ regd) /\ []Without({"nack", "disable", "flap", "mode"})
    => <>[](h.tx = None /\ h.st # "Faulted")
=============================================================================
