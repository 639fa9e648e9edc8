-------------------------- MODULE MCSmartCharging --------------------------
(***************************************************************************)
(* Instances of SmartCharging: which profiles the central system uses.     *)
(***************************************************************************)
EXTENDS SmartCharging, CompositeSchedule

Period(at, limit) == [at |-> at, limit |-> limit]
Base == [id |-> 0, level |-> 1, purpose |-> "default", kind |-> "absolute", tx |-> 0, from |-> 0,
         to |-> Never, start |-> 0, duration |-> Never, periods |-> <<Period(0, 16)>>]

\* A schedule of three periods, one that recurs for part of the day, one counted from the
\* start of charging, for one transaction, and a maximum that expires.
Steps == [Base EXCEPT !.id = 11, !.periods = <<Period(0, 16), Period(1, 10), Period(2, 20)>>]
Nightly == [Base EXCEPT !.id = 12, !.kind = "recurring", !.duration = 1]
Boost(t) == [Base EXCEPT !.id = 20 + t, !.level = 2, !.purpose = "tx", !.kind = "relative", !.tx = t,
                         !.duration = 2, !.periods = <<Period(0, 6), Period(1, 13)>>]
Limit == [Base EXCEPT !.id = 31, !.purpose = "max", !.to = 1, !.periods = <<Period(0, 12)>>]

Plain == {Steps, Nightly, Boost(1), Limit}
Filter == [id |-> None, purpose |-> None, level |-> None]
PlainClears == {Filter}

\* Profiles on which the charger does not do what LimitRight says (README, "Smart charging").
Later == {[Base EXCEPT !.id = 14, !.start = 2]}
Lowest == {[Base EXCEPT !.id = 15, !.level = 0, !.duration = 1]}
AllDay == {[Base EXCEPT !.id = 16, !.kind = "recurring", !.periods = <<Period(0, 16), Period(2, 10)>>]}
Cut == {[Base EXCEPT !.id = 17, !.duration = 3, !.periods = <<Period(0, 16), Period(2, 10)>>]}
Above == {Boost(1), [Base EXCEPT !.id = 18, !.level = 2]}
Flat == {[Base EXCEPT !.id = 19, !.periods = <<Period(0, 16), Period(1, 10), Period(2, 10), Period(3, 16)>>]}
MaxOnly == {[Filter EXCEPT !.purpose = "default"], [Filter EXCEPT !.level = 2, !.id = 21]}

\* What GetCompositeSchedule answers is, for each second it covers, what the profiles in force
\* say, a relative profile counted from the question.
CompositeRight ==
    odd = {} /\ AtRest =>
        \A d \in 1 .. Day + 1 :
            LET s == CompositeSchedule(installed, now, d)
            IN \A t \in now .. now + d - 1 :
                  LimitAt(s, t) = Min({TxLimit(accepted, now, t), MaxLimit(accepted, now, t)})
=============================================================================
