----------------------------- MODULE MCOcppStore -----------------------------
(* OcppStore for TLC, with a record of the faults and risks that came true. *)
EXTENDS OcppStore

CONSTANT MaxRisks   \* bound: how many kinds of them a behaviour takes

VARIABLE taken  \* the faults and risks a behaviour has taken so far

mcvars == <<vars, taken>>

Came(risk, happens) == {r \in {risk} : happens}

MCInit == Init /\ taken = {}
MCNext ==
    /\ Next
    /\ taken' = taken
         \cup Came("uncounted", known < 0 /\ SampleQueued)
         \cup Came("reuse", clock < clock' /\ (\E c \in oldest : c.entry = VacantEntry) /\ StartTransaction)
         \cup Came("clear", clock = clock' /\ Clear)
         \cup Came("convert", clock = clock' /\ TakeFails)
         \cup Came("crash", answered # NoAnswer /\ Restart)
    /\ Cardinality(taken') <= MaxRisks
MCSpec == MCInit /\ [][MCNext]_mcvars

\* Each property of OcppStore, for the behaviours that have taken none of the
\* risks that break it.

\* The counts in the headers are right, and so is the count of all messages
\* unless a meter value was queued before the first count.
CountsKept == AwaitRight /\ ("uncounted" \notin taken => CountRight)

\* Messages go out in chronological order, each once, and what is stored is
\* found, unless a file number was reused while it was cached or the storage
\* was cleared.
OrderKept == taken \cap {"reuse", "clear"} = {} => InOrder /\ NextFound

\* No message carries the id of another transaction, and a valid id is the one
\* from StartTransaction.conf, unless the storage was cleared, or (for the
\* second) the charger restarted, between the answer to a start and its callback.
IdsKept ==
    /\ "clear" \notin taken => OwnId
    /\ taken \cap {"crash", "clear"} = {} => ValidIsReal
=============================================================================
