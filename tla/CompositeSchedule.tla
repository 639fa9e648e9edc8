------------------------- MODULE CompositeSchedule -------------------------
(***************************************************************************)
(* The answer to GetCompositeSchedule (ocpp_smart_charging.c): the periods *)
(* of the profiles of each kind over a time, and the lower of both.        *)
(***************************************************************************)
EXTENDS ChargingProfiles

\* compute_range: the periods from "start" to "end" of the profiles of one kind, a
\* stack holding the profiles that will be active later and until when.
Joined(list, section) ==
    IF list # <<>> /\ Last(list).limit = section[1].limit THEN list \o Tail(section) ELSE list \o section

RECURSIVE Unwound(_)
Unwound(r) ==
    IF r.now < r.end \/ r.stack = <<>> THEN r
    ELSE Unwound([r EXCEPT !.p = Last(r.stack).p, !.end = Last(r.stack).end, !.stack = Front(r.stack)])

RECURSIVE RangeFrom(_, _, _, _)
RangeFrom(which, installed, start, r) ==
    IF r.now >= r.end THEN [list |-> r.list, duration |-> r.now - start]
    ELSE LET from == ActiveFrom(start, r.now, r.p, 0)
             next == NextProfile(which, installed, r.p)
             copy == Copied(start, r.now, r.end, r.p)
             put == Append(r.stack, [p |-> r.p, from |-> from, end |-> r.end])
         IN RangeFrom(which, installed, start,
              IF from = r.now
              THEN Unwound([r EXCEPT !.now = start + copy.end, !.list = Joined(@, copy.list)])
              ELSE IF from < r.end /\ (r.stack = <<>> \/ from < Last(r.stack).from)
              THEN [r EXCEPT !.stack = put, !.end = from, !.p = next]
              ELSE [r EXCEPT !.p = next])

ComputeRange(which, installed, start, duration) ==
    RangeFrom(which, installed, start, [now |-> start, end |-> start + duration, list |-> <<>>, stack |-> <<>>,
                                    p |-> NextProfile(which, installed, None)])

\* get_composite_schedule_cb.
CompositeSchedule(installed, now, duration) ==
    LET tx == ComputeRange("tx", installed, now, duration)
        max == ComputeRange("max", installed, now, duration)
    IN [start |-> now, list |-> Combined(tx.list, max.list, Min({tx.duration, max.duration}))]
=============================================================================
