-------------------------- MODULE ChargingProfiles --------------------------
(***************************************************************************)
(* What a charging profile of OCPP says at a time, as the charger computes *)
(* it (ocpp_smart_charging.c): when a schedule runs, the periods copied    *)
(* from it, and two schedules combined into the lower of both.  Times are  *)
(* seconds, limits are amperes; the number of phases and the minimum,      *)
(* which follow the same path, are left out.                               *)
(***************************************************************************)
EXTENDS Integers, Sequences, SequencesExt, FiniteSetsExt

CONSTANTS
    Day,    \* the seconds from one recurrence to the next
    Never,  \* LONG_MAX
    None    \* NULL

\* The purposes are "max" (ChargePointMaxProfile), "default" (TxDefaultProfile) and "tx".
Default(purpose) ==
    [id |-> 0, level |-> -1, purpose |-> purpose, kind |-> "absolute", tx |-> 0,
     from |-> 0, to |-> Never, start |-> 0, duration |-> Never, periods |-> <<[at |-> 0, limit |-> 32]>>]

\* A profile as ocpp_charging_profile_from_json accepts it; tx 0, start 0 and a
\* duration of Never stand for absent fields.
IsProfile(p) ==
    /\ DOMAIN p = {"id", "level", "purpose", "kind", "tx", "from", "to", "start", "duration", "periods"}
    /\ p.purpose \in {"max", "default", "tx"} /\ p.kind \in {"absolute", "recurring", "relative"}
    /\ {p.id, p.level, p.tx, p.from, p.to, p.start, p.duration} \subseteq Nat
    /\ p.purpose # "tx" => p.tx = 0
    /\ p.periods # <<>> /\ p.periods[1].at = 0
    /\ \A i, j \in DOMAIN p.periods : i < j => p.periods[i].at < p.periods[j].at

\* get_normalized_time: whether the profile and its schedule have begun, and when
\* the schedule last did.  "began" is when charging, or the answer, begins.
Normal(p, now) == p.from <= now /\ now <= p.to /\ (p.kind = "relative" \/ p.start <= now)
StartOf(began, now, p) ==
    CASE p.kind = "absolute" -> p.start
      [] p.kind = "recurring" -> now - ((now - p.start) % Day)
      [] p.kind = "relative" -> began

\* get_when_schedule_is_active: now, a later time, or Never.
ActiveFrom(began, now, p, txid) ==
    LET start == StartOf(began, now, p)
        from == IF now - start < p.duration THEN now
                ELSE IF p.kind = "recurring" THEN start + Day ELSE Never
    IN IF \/ p.tx # 0 /\ txid # 0 /\ txid # p.tx
          \/ ~Normal(p, now)
          \/ p.to <= from
       THEN Never ELSE from

\* The period a list is in at an offset.
At(list, offset) == Max({i \in DOMAIN list : list[i].at <= offset})

\* ocpp_extend_period_list, and the start its caller then gives the last entry.
Extended(list, q) ==
    IF Last(list).limit = q.limit THEN [list EXCEPT ![Len(list)].at = q.at] ELSE Append(list, q)

\* copy_period_at: up to which offset a schedule that began at "start" holds,
DurationEnds(start, p) == IF p.duration = Never THEN {} ELSE {start + p.duration}
\* Mutant of Holds: the end of the request is forgotten.
HoldsOn(began, end, start, p) == Min({Never, p.to} \cup DurationEnds(start, p)) - began
Holds(began, end, start, p) == Min({end, p.to} \cup DurationEnds(start, p)) - began
\* and its periods from now on, at offsets from "began".
Copied(began, now, end, p) ==
    LET start == StartOf(began, now, p)
        shift == start - began
        i == At(p.periods, now - start)
        last == Holds(began, end, start, p)
        later == SubSeq(p.periods, i + 1, Len(p.periods))
        taken == SelectSeq(later, LAMBDA q : q.at < last + shift)
        moved == [k \in DOMAIN taken |-> [taken[k] EXCEPT !.at = @ + shift]]
        left == {later[k].at + shift : k \in Len(taken) + 1 .. Len(later)}
    IN [list |-> FoldLeft(Extended, <<[at |-> now - began, limit |-> p.periods[i].limit]>>, moved),
        end |-> Min(left \cup {last})]

\* combine_schedules: a turn of its loop, which uses up an entry of a list unless
\* both are at their last,
Lower(r, duration) ==
    LET h == [at |-> Max({r.a[1].at, r.b[1].at}), limit |-> Min({r.a[1].limit, r.b[1].limit})]
        stepA == Len(r.a) > 1 /\ (Len(r.b) = 1 \/ r.a[2].at <= r.b[2].at)
        stepB == Len(r.b) > 1 /\ (Len(r.a) = 1 \/ r.b[2].at <= r.a[2].at)
    IN IF h.at > duration THEN r
       ELSE [a |-> IF stepA THEN Tail(r.a) ELSE r.a, b |-> IF stepB THEN Tail(r.b) ELSE r.b,
             out |-> IF r.out # <<>> /\ Last(r.out).limit = h.limit THEN r.out ELSE Append(r.out, h)]
\* and the lower limit of two lists, up to a duration.
Combined(a, b, duration) ==
    LET turn[k \in 0 .. Len(a) + Len(b)] ==
            IF k = 0 THEN [a |-> a, b |-> b, out |-> <<>>] ELSE Lower(turn[k - 1], duration)
    IN turn[Len(a) + Len(b)].out

\* create_composite_schedule: the schedule of a transaction from now on.
Schedule(began, now, tx, max) ==
    LET list == Combined(Copied(began, now, Never, tx).list, Copied(began, now, Never, max).list, Never)
    IN [start |-> began, list |-> [list EXCEPT ![1].at = 0]]

\* get_period_from_schedule: the limit at a time, and when the next period begins.
LimitAt(s, now) == s.list[At(s.list, now - s.start)].limit
NextPeriod(s, now) ==
    LET i == At(s.list, now - s.start)
    IN IF i < Len(s.list) THEN s.start + s.list[i + 1].at ELSE Never

-----------------------------------------------------------------------------
\* next_tx_or_tx_default_profile and next_max_profile: the profile to try after
\* "p", of the profiles in memory ("tx") and on file.  The profile after None is the first.
NextProfile(which, installed, p) ==
    LET below(purpose) == {q \in installed : q.purpose = purpose /\ (p = None \/ q.level < p.level)}
        tx == IF which = "tx" /\ (p = None \/ p.purpose = "tx") THEN below("tx") ELSE {}
        purpose == IF which = "tx" THEN "default" ELSE "max"
        candidates == IF tx # {} THEN tx ELSE below(purpose)
    IN IF candidates = {} THEN Default(purpose)
       ELSE CHOOSE q \in candidates : \A r \in candidates : r.level <= q.level

-----------------------------------------------------------------------------
(* What OCPP says, for comparison: of the profiles whose schedule runs at a *)
(* time, the transaction's own prevail over the defaults, and of each the   *)
(* one of the highest level; the charge point's maximum limits the result.  *)
Runs(began, t, p) ==
    LET offset == t - StartOf(began, t, p)
    IN p.from <= t /\ t < p.to /\ (p.kind = "relative" \/ p.start <= t) /\ offset < p.duration

Ruling(purposes, installed, began, t) ==
    LET running == {p \in installed : p.purpose \in purposes /\ Runs(began, t, p)}
        own == {p \in running : p.purpose = "tx"}
        among == IF own # {} THEN own ELSE running
    IN IF among = {} THEN 32
       ELSE LET p == CHOOSE q \in among : \A r \in among : r.level <= q.level
            IN p.periods[At(p.periods, t - StartOf(began, t, p))].limit

TxLimit(installed, began, t) == Ruling({"tx", "default"}, installed, began, t)
MaxLimit(installed, began, t) == Ruling({"max"}, installed, began, t)
=============================================================================
