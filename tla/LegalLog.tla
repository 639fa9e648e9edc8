------------------------------ MODULE LegalLog ------------------------------
(***************************************************************************)
(* What the MID storage promises its callers, without pages: records are   *)
(* added with ever larger ids, and a set of them goes away only when every *)
(* meter value in it is past the retention period.                         *)
(***************************************************************************)
EXTENDS Integers

CONSTANT MaxAge

VARIABLES records, clock

Init == records = {} /\ clock = 0

Add ==
    /\ \E r \in records' :
          /\ records' = records \cup {r}
          /\ \A old \in records : old.rec_id < r.rec_id
          /\ r.time <= clock
    /\ clock' = clock

Expire ==
    /\ records' \subseteq records
    /\ \A r \in records \ records' :
          r.kind \in {"START", "TARIFF", "END"} => clock - r.time > MaxAge
    /\ clock' = clock

Advance == clock' > clock /\ records' = records

Spec == Init /\ [][Add \/ Expire \/ Advance]_<<records, clock>>
=============================================================================
