------------------------------- MODULE MidLts -------------------------------
(***************************************************************************)
(* The long-term storage of MID meter records (components/mid/lts): a ring *)
(* of page files, an append that moves to the next page and may purge it,  *)
(* and the replay that rebuilds the RAM context when the charger boots.    *)
(*                                                                         *)
(* A call of mid_session_add_* is a job of a writer, cut where a power     *)
(* loss or another writer can come between: fopen, write-and-sync, the     *)
(* update of the context, the purge.                                       *)
(***************************************************************************)
EXTENDS Integers, Sequences, FiniteSets

CONSTANTS
    Writers,    \* the tasks that record MID events
    MaxPages,   \* MIDLTS_LOG_MAX_FILES
    PageCap,    \* MIDLTS_LOG_MAX_SIZE in records
    MaxAge,     \* MID_TIME_MAX_AGE
    Events,     \* bound: the kinds of event the tasks record
    MaxTime,    \* bound: the clock stops here
    MaxMsgId,   \* bound: no event is recorded from this id on
    Faults,     \* the calls of the file system that may fail
    CrashAt     \* the writer states in which the charger may lose power

FaultKinds == {"open", "write", "sync", "remove"}
WriterStates == {"idle", "open", "write", "update", "purge"}
MeterKind == {"START", "TARIFF", "END"}
Kind == MeterKind \cup {"ID", "AUTH"}

ASSUME MidLtsAssumption ==
    /\ MaxPages \in Nat \ {0}
    /\ PageCap \in Nat \ {0}
    /\ MaxAge \in Nat
    /\ Events \subseteq Kind
    /\ MaxTime \in Nat
    /\ MaxMsgId \in Nat
    /\ Faults \subseteq FaultKinds
    /\ CrashAt \subseteq WriterStates

VARIABLES
    files,      \* the page files that exist
    log,        \* the records of each page, <<>> when there is no file
    ctx,        \* midlts_ctx_t
    mode,       \* where mid_init is: scanning, replaying, ready or failed
    walk,       \* the locals of mid_session_init_internal and of the replay
    now,        \* CLOCK_REALTIME
    pc,         \* where each writer is in its call
    job         \* the locals of each writer's call

vars == <<files, log, ctx, mode, walk, now, pc, job>>

-----------------------------------------------------------------------------
(* Records and the RAM context.                                            *)

Page == 0 .. MaxPages - 1
Record == [kind : Kind, rec_id : Nat, time : Nat]
Pos == [page : Page, offset : Nat]
Active == [pos : Pos, has_id : BOOLEAN, has_auth : BOOLEAN, events : Seq(Record)]
Context == [open : BOOLEAN, msg_page : Page, msg_id : Nat, active : Active]
Error == {"OK", "OPEN", "WRITE", "SYNC", "STAT", "ERASE", "MSG_OUT_OF_ORDER",
          "LOG_FILE_FULL", "SESSION_NOT_OPEN", "SESSION_ALREADY_OPEN",
          "SESSION_QUERY"}

NoPos == [page |-> 0, offset |-> 0]
NoActive == [pos |-> NoPos, has_id |-> FALSE, has_auth |-> FALSE, events |-> <<>>]
ZeroCtx == [open |-> FALSE, msg_page |-> 0, msg_id |-> 0, active |-> NoActive]
ZeroWalk == [page |-> 0, i |-> 1, min |-> 0, max |-> 0, allow |-> TRUE, ret |-> "OK"]
NoJob == [kind |-> "TARIFF", time |-> 0, rec_id |-> 0, page |-> 0, size |-> 0, try |-> 1]

IsMeter(r) == r.kind \in MeterKind

\* Why mid_session_log_update_state refuses a record, "OK" when it does not.
Refusal(c, r) ==
    IF r.kind = "START" /\ c.open THEN "SESSION_ALREADY_OPEN"
    ELSE IF r.kind = "END" /\ ~c.open THEN "SESSION_NOT_OPEN"
    ELSE "OK"

\* Mutant of NextActive: a tariff change is not part of the session.
NextActiveNoTariff(c, pos, r) ==
    CASE r.kind = "START" -> [NoActive EXCEPT !.pos = pos, !.events = <<r>>]
      [] r.kind = "END" /\ c.open -> [c.active EXCEPT !.events = Append(@, r)]
      [] OTHER -> c.active

\* The active session after a record that is not refused.
NextActive(c, pos, r) ==
    CASE r.kind = "START" -> [NoActive EXCEPT !.pos = pos, !.events = <<r>>]
      [] r.kind \in {"TARIFF", "END"} /\ c.open
            -> [c.active EXCEPT !.events = Append(@, r)]
      [] r.kind = "ID" /\ c.open -> [c.active EXCEPT !.has_id = TRUE]
      [] r.kind = "AUTH" /\ c.open -> [c.active EXCEPT !.has_auth = TRUE]
      [] OTHER -> c.active

\* mid_session_log_update_state: a refused record leaves the context alone.
UpdateState(c, pos, r) ==
    IF Refusal(c, r) # "OK" THEN c
    ELSE [c EXCEPT !.active = NextActive(c, pos, r),
                   !.open = IF r.kind = "START" THEN TRUE
                            ELSE IF r.kind = "END" THEN FALSE ELSE @]

\* Mutant of Counted: msg_id stays.
CountedNot(c) == c

Counted(c) == [c EXCEPT !.msg_id = @ + 1]

NextPage(p) == (p + 1) % MaxPages

-----------------------------------------------------------------------------
(* Booting: mid_session_init_internal and mid_session_log_replay.          *)

FirstId(p) == log[p][1].rec_id

MinPage == CHOOSE p \in files : \A q \in files :
              FirstId(p) < FirstId(q) \/ (FirstId(p) = FirstId(q) /\ p <= q)

\* Mutant of MaxPage: the comparison is reversed.
MaxPageReversed == MinPage

MaxPage == CHOOSE p \in files : \A q \in files :
              FirstId(p) > FirstId(q) \/ (FirstId(p) = FirstId(q) /\ p <= q)

BootFails(err) ==
    /\ mode' = "failed"
    /\ walk' = [ZeroWalk EXCEPT !.ret = err]

\* The scan for the pages with the smallest and the largest first record id.
Scan ==
    /\ mode = "scan"
    /\ IF \E p \in files : log[p] = <<>>
       THEN BootFails("STAT")
       ELSE IF files = {}
       THEN mode' = "ready" /\ walk' = walk
       ELSE /\ mode' = "replay"
            /\ walk' = [ZeroWalk EXCEPT !.page = MinPage, !.min = MinPage, !.max = MaxPage]
    /\ UNCHANGED <<files, log, ctx, now, pc, job>>

\* Mutant of ReplayPos: offsets from one.
ReplayPosOneBased == [page |-> walk.page, offset |-> walk.i]

ReplayPos == [page |-> walk.page, offset |-> walk.i - 1]

\* Mutant of AtLastPage: one page too far.
AtLastPagePast == walk.page = walk.max + 1

AtLastPage == walk.page = walk.max

\* One turn of the replay loop: the record at walk.i of page walk.page.
ReplayRecord ==
    /\ mode = "replay"
    /\ walk.i \in 1 .. Len(log[walk.page])
    /\ LET r == log[walk.page][walk.i]
           first == walk.page = walk.min /\ walk.i = 1
           c == IF first THEN [ctx EXCEPT !.msg_id = r.rec_id] ELSE ctx
           err == Refusal(c, r)
       IN IF r.rec_id # c.msg_id
          THEN BootFails("MSG_OUT_OF_ORDER") /\ ctx' = c
          ELSE /\ ctx' = UpdateState(Counted(c), ReplayPos, r)
               /\ IF err = "OK" \/ (err = "SESSION_NOT_OPEN" /\ walk.allow)
                  THEN /\ walk' = [walk EXCEPT !.i = @ + 1, !.ret = err,
                                               !.allow = @ /\ err = "OK"]
                       /\ mode' = mode
                  ELSE BootFails(err)
    /\ UNCHANGED <<files, log, now, pc, job>>

\* The end of a page: its return value is that of its last record.
ReplayPageEnd ==
    /\ mode = "replay"
    /\ walk.i > Len(log[walk.page])
    /\ LET next == NextPage(walk.page)
       IN IF walk.ret # "OK"
          THEN BootFails(walk.ret) /\ ctx' = ctx
          ELSE IF AtLastPage
          THEN mode' = "ready" /\ walk' = ZeroWalk /\ ctx' = [ctx EXCEPT !.msg_page = walk.max]
          ELSE IF next \notin files
          THEN BootFails("STAT") /\ ctx' = ctx
          ELSE /\ walk' = [walk EXCEPT !.page = next, !.i = 1]
               /\ UNCHANGED <<mode, ctx>>
    /\ UNCHANGED <<files, log, now, pc, job>>

\* A restart: the RAM is lost, the files and the real-time clock stay.
Crash ==
    /\ \A w \in Writers : pc[w] \in CrashAt
    /\ mode # "scan"
    /\ mode' = "scan"
    /\ ctx' = ZeroCtx
    /\ walk' = ZeroWalk
    /\ pc' = [w \in Writers |-> "idle"]
    /\ job' = [w \in Writers |-> NoJob]
    /\ UNCHANGED <<files, log, now>>

-----------------------------------------------------------------------------
(* Recording: mid_session_add_event, mid_session_add_* and the append.     *)

Goto(w, state) == pc' = [pc EXCEPT ![w] = state]

\* The call returns, with its error or without one.
Return(w) ==
    /\ Goto(w, "idle")
    /\ job' = [job EXCEPT ![w] = NoJob]

\* Mutant of Accepts: a session is opened twice.
AcceptsAnyStart(kind) == kind \in {"START", "TARIFF"} \/ ctx.open

\* The checks of mid_session_add_open, _tariff, _close, _id and _auth.
Accepts(kind) ==
    CASE kind = "START" -> ~ctx.open
      [] kind = "TARIFF" -> TRUE
      [] OTHER -> ctx.open

\* mid_session_add_event: nothing is recorded unless mid_init has succeeded.
Serving == mode = "ready"

\* A call that passes the checks; one that does not changes nothing.
AddEvent(w, kind) ==
    /\ Serving
    /\ pc[w] = "idle"
    /\ ctx.msg_id < MaxMsgId
    /\ Accepts(kind)
    /\ job' = [job EXCEPT ![w] = [NoJob EXCEPT !.kind = kind, !.time = now]]
    /\ Goto(w, "open")
    /\ UNCHANGED <<files, log, ctx, mode, walk, now>>

\* fopen with "a" creates the page file; ftell gives the append position.
OpenPage(w) ==
    /\ pc[w] = "open"
    /\ Len(log[ctx.msg_page]) < PageCap
    /\ files' = files \cup {ctx.msg_page}
    /\ job' = [job EXCEPT ![w].rec_id = ctx.msg_id,
                          ![w].page = ctx.msg_page,
                          ![w].size = Len(log[ctx.msg_page])]
    /\ Goto(w, "write")
    /\ UNCHANGED <<log, ctx, mode, walk, now>>

\* LTS_OPEN, or LTS_TELL once the file exists.
OpenFails(w) ==
    /\ pc[w] = "open"
    /\ "open" \in Faults
    /\ files' \in {files, files \cup {ctx.msg_page}}
    /\ Return(w)
    /\ UNCHANGED <<log, ctx, mode, walk, now>>

\* LTS_LOG_FILE_FULL: the next page, then its purge, then the caller.
PageFull(w) ==
    /\ pc[w] = "open"
    /\ Len(log[ctx.msg_page]) >= PageCap
    /\ CASE job[w].try = 1 ->
              /\ ctx' = [ctx EXCEPT !.msg_page = NextPage(@)]
              /\ job' = [job EXCEPT ![w].try = 2]
              /\ pc' = pc
         [] job[w].try = 2 -> Goto(w, "purge") /\ UNCHANGED <<ctx, job>>
         [] OTHER -> Return(w) /\ ctx' = ctx
    /\ UNCHANGED <<files, log, mode, walk, now>>

Landed(w) == [kind |-> job[w].kind, rec_id |-> job[w].rec_id, time |-> job[w].time]

\* fwrite, fflush, fsync and fclose: the record is on flash once synced.
WriteRecord(w) ==
    /\ pc[w] = "write"
    /\ log' = [log EXCEPT ![job[w].page] = Append(@, Landed(w))]
    /\ Goto(w, "update")
    /\ UNCHANGED <<files, ctx, mode, walk, now, job>>

\* fwrite fails and nothing lands, or a later call fails and it may have.
WriteFails(w) ==
    /\ pc[w] = "write"
    /\ \/ "write" \in Faults /\ log' = log
       \/ /\ "sync" \in Faults
          /\ log' \in {log, [log EXCEPT ![job[w].page] = Append(@, Landed(w))]}
    /\ Return(w)
    /\ UNCHANGED <<files, ctx, mode, walk, now>>

\* The context follows the record; msg_id only moves when it is not refused.
UpdateContext(w) ==
    /\ pc[w] = "update"
    /\ LET pos == [page |-> job[w].page, offset |-> job[w].size]
       IN ctx' = IF Refusal(ctx, Landed(w)) = "OK"
                 THEN Counted(UpdateState(ctx, pos, Landed(w))) ELSE ctx
    /\ Return(w)
    /\ UNCHANGED <<files, log, mode, walk, now>>

MeterAt(p) == {i \in 1 .. Len(log[p]) : IsMeter(log[p][i])}

\* Mutant of LatestMeter: the first meter value found.
EarliestMeter(p) ==
    log[p][CHOOSE i \in MeterAt(p) : \A j \in MeterAt(p) : i <= j]

\* mid_session_log_get_latest_meter_value: the last one in the page.
LatestMeter(p) ==
    log[p][CHOOSE i \in MeterAt(p) : \A j \in MeterAt(p) : j <= i]

\* Mutant of Expired: at the age of MaxAge already.
ExpiredEarly(p, time) ==
    IF MeterAt(p) = {} THEN TRUE ELSE time - LatestMeter(p).time >= MaxAge

\* A page without meter values counts as expired.
Expired(p, time) ==
    IF MeterAt(p) = {} THEN TRUE ELSE time - LatestMeter(p).time > MaxAge

\* remove() refuses a file another writer holds open (external).
HeldOpen(p) == \E w \in Writers : pc[w] = "write" /\ job[w].page = p

Purge(w) ==
    /\ pc[w] = "purge"
    /\ Expired(ctx.msg_page, job[w].time)
    /\ ctx.msg_page \in files
    /\ ~HeldOpen(ctx.msg_page)
    /\ files' = files \ {ctx.msg_page}
    /\ log' = [log EXCEPT ![ctx.msg_page] = <<>>]
    /\ job' = [job EXCEPT ![w].try = 3]
    /\ Goto(w, "open")
    /\ UNCHANGED <<ctx, mode, walk, now>>

\* Too young (the caller gets LTS_LOG_FILE_FULL), gone, held or unreadable.
PurgeRefused(w) ==
    /\ pc[w] = "purge"
    /\ \/ ctx.msg_page \notin files
       \/ ~Expired(ctx.msg_page, job[w].time)
       \/ HeldOpen(ctx.msg_page)
       \/ "remove" \in Faults
    /\ Return(w)
    /\ UNCHANGED <<files, log, ctx, mode, walk, now>>

-----------------------------------------------------------------------------
(* Reading a session back for signing: mid_session_read_session.           *)

FirstEnd(ends) == CHOOSE i \in ends : \A j \in ends : i <= j

\* The meter values among the records of a page from `from` to `last`.
Readings(p, from, last) ==
    LET read[i \in 0 .. last] ==
            IF i < from THEN <<>>
            ELSE IF IsMeter(log[p][i]) THEN Append(read[i - 1], log[p][i])
            ELSE read[i - 1]
    IN read[last]

\* mid_session_log_replay_single_session: one page, from the record `from`.
ReadPage(p, from) ==
    LET ends == {i \in from .. Len(log[p]) : log[p][i].kind = "END"}
        last == IF ends = {} THEN Len(log[p])
                ELSE FirstEnd(ends)
    IN IF p \notin files
       THEN [ret |-> "STAT", done |-> FALSE, events |-> <<>>]
       ELSE IF from <= Len(log[p]) /\ log[p][from].kind # "START"
       THEN [ret |-> "SESSION_QUERY", done |-> FALSE, events |-> <<>>]
       ELSE [ret |-> "OK", done |-> ends # {},
             events |-> Readings(p, from, last)]

\* Page after page until an END; the page number does not wrap.
ReadSession(pos) ==
    LET read[p \in 0 .. MaxPages] ==
            LET here == ReadPage(p, IF p = pos.page THEN pos.offset + 1 ELSE 1)
            IN IF here.ret # "OK" \/ here.done THEN here
               ELSE [read[p + 1] EXCEPT !.events = here.events \o @]
    IN read[pos.page]

-----------------------------------------------------------------------------
Tick ==
    /\ now < MaxTime
    /\ now' = now + 1
    /\ UNCHANGED <<files, log, ctx, mode, walk, pc, job>>

-----------------------------------------------------------------------------
Init ==
    /\ files = {}
    /\ log = [p \in Page |-> <<>>]
    /\ ctx = ZeroCtx
    /\ mode = "scan"
    /\ walk = ZeroWalk
    /\ now = 0
    /\ pc = [w \in Writers |-> "idle"]
    /\ job = [w \in Writers |-> NoJob]

Boot == Scan \/ ReplayRecord \/ ReplayPageEnd

Call(w) ==
    \/ OpenPage(w) \/ OpenFails(w) \/ PageFull(w)
    \/ WriteRecord(w) \/ WriteFails(w) \/ UpdateContext(w)
    \/ Purge(w) \/ PurgeRefused(w)

Next ==
    \/ Boot
    \/ Crash
    \/ Tick
    \/ \E w \in Writers : Call(w) \/ \E kind \in Events : AddEvent(w, kind)

Spec == Init /\ [][Next]_vars

\* mid_init runs on the main task before any other; a call runs to its end.
Fairness == WF_vars(Boot) /\ \A w \in Writers : WF_vars(Call(w))
FairSpec == Spec /\ Fairness

-----------------------------------------------------------------------------
(* Properties.                                                             *)

Walk == [page : Page, i : Nat, min : Page, max : Page, allow : BOOLEAN, ret : Error]
Job == [kind : Kind, time : Nat, rec_id : Nat, page : Page, size : Nat, try : 1 .. 3]

\* The shape of the state: the pages, midlts_ctx_t and the locals of the calls.
TypeOK ==
    /\ files \subseteq Page
    /\ log \in [Page -> Seq(Record)]
    /\ ctx \in Context
    /\ mode \in {"scan", "replay", "ready", "failed"}
    /\ walk \in Walk
    /\ now \in Nat
    /\ pc \in [Writers -> WriterStates]
    /\ job \in [Writers -> Job]

Slots == UNION {{<<p, i>> : i \in 1 .. Len(log[p])} : p \in Page}
At(s) == log[s[1]][s[2]]
Quiet == \A w \in Writers : pc[w] = "idle"

\* Even when writes and syncs fail half-way, no record on flash is ahead of the
\* id the next append will use.
NoIdAhead == mode = "ready" => \A s \in Slots : At(s).rec_id <= ctx.msg_id

\* A page is removed only when each of its meter values is older than
\* MID_TIME_MAX_AGE, although try_purge looks at the last of them alone.
RetentionKept ==
    [][\A p \in Page : \A i \in MeterAt(p) :
          log'[p] = <<>> => now - log[p][i].time > MaxAge]_vars

\* While a session is open and its START is still on flash, each meter value
\* recorded since is one of the events the session will be signed with.
ActiveHasEveryReading ==
    LET start == ctx.active.events[1]
        events == {ctx.active.events[k] : k \in 1 .. Len(ctx.active.events)}
    IN mode = "ready" /\ Quiet /\ ctx.open =>
         /\ ctx.active.events # <<>>
         /\ \A s \in Slots : IsMeter(At(s)) /\ At(s).rec_id >= start.rec_id
                                => At(s) \in events

ClosedSession == mode = "ready" /\ Quiet /\ ~ctx.open /\ ctx.active.events # <<>>
OnFlash(r) == \E s \in Slots : At(s) = r
ReadBack == LET read == ReadSession(ctx.active.pos)
            IN read.ret = "OK" /\ read.events = ctx.active.events

\* A closed session that lies within one page, still on flash, is read back
\* with exactly the readings the RAM context held when it was closed.
SessionReadBack ==
    LET events == ctx.active.events
        page == log[ctx.active.pos.page]
    IN (ClosedSession /\ \A r \in {events[1], events[Len(events)]} :
                            \E i \in 1 .. Len(page) : page[i] = r)
       => ReadBack

\* No reading of a session is lost: while it is open the context has each, and
\* once it is closed the storage gives each back.
SessionWhole == ActiveHasEveryReading /\ SessionReadBack

\* mid_init comes to an end once the charger stops restarting.
BootTerminates ==
    (<>[][~Crash]_vars) => ((mode \in {"scan", "replay"}) ~> (mode \in {"ready", "failed"}))

\* What the storage promises: a legal log, whose records are those on flash.
LegalLog == INSTANCE LegalLog WITH
    records <- {At(s) : s \in Slots}, clock <- now

\* The pages, the retries and the restarts implement it.
ImplementsLegalLog == LegalLog!Spec
=============================================================================
