------------------------------ MODULE MCMidLts ------------------------------
(* MidLts for TLC, with the context a restart has to bring back.           *)
EXTENDS MidLts

VARIABLES
    saved,      \* what the replay after the last restart should rebuild
    skipped,    \* whether a purge has removed a page other than the oldest
    intact      \* no call has failed or been cut short by a power loss

mcvars == <<vars, saved, skipped, intact>>

\* The context once the record that has landed, if any, is accounted for.
Promised ==
    LET landed == {w \in Writers : pc[w] = "update"}
    IN IF landed = {} THEN ctx
       ELSE LET w == CHOOSE x \in landed : TRUE
                pos == [page |-> job[w].page, offset |-> job[w].size]
            IN [UpdateState(ctx, pos, Landed(w)) EXCEPT !.msg_id = @ + 1]

MCInit == Init /\ saved = ZeroCtx /\ skipped = FALSE /\ intact = TRUE
MCNext ==
    /\ Next
    /\ saved' = IF mode = "ready" /\ mode' = "scan" THEN Promised ELSE saved
    /\ skipped' = (skipped \/ \E p \in files \ files' : p # MinPage)
    /\ intact' = /\ intact
                 /\ Crash => Quiet
                 /\ ~\E w \in Writers : OpenFails(w) \/ WriteFails(w) \/ PurgeRefused(w)
MCSpec == MCInit /\ [][MCNext]_mcvars
MCFairSpec == MCSpec /\ Fairness

\* A restart resumes the numbering where it was, as long as the purges have
\* taken the oldest page first.
RestartKeepsMsgId ==
    [][mode = "replay" /\ mode' = "ready" /\ ~skipped => ctx'.msg_id = saved.msg_id]_mcvars

\* A restart finds the session as it was: closed, or open with the same start,
\* the same readings and the same metadata if its START has not been purged
\* (the purges having taken the oldest page first).
RestartKeepsSession ==
    [][mode = "replay" /\ mode' = "ready" /\ ~skipped =>
         IF saved.open
         THEN OnFlash(saved.active.events[1]) => ctx'.open /\ ctx'.active = saved.active
         ELSE ~ctx'.open]_mcvars

\* A restart loses neither the numbering nor the session.
RestartKeepsContext == RestartKeepsMsgId /\ RestartKeepsSession

\* While calls run to their end and without errors, a restart can replay the
\* log, whatever was recorded and purged; the one failure left is the END
\* without its START, which the replay only tolerates if another record
\* follows it on its page.
BootSucceeds == intact /\ mode = "failed" => walk.ret = "SESSION_NOT_OPEN"
=============================================================================
