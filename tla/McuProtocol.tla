---------------------------- MODULE McuProtocol ----------------------------
(***************************************************************************)
(* The requests to the MCU over its serial line (protocol_task.c).  Each   *)
(* task that wants something of the MCU holds uart_write_lock, empties the *)
(* one-slot queue of replies, writes its request and waits for what comes; *)
(* nothing ties a reply to its request but the moment it comes.  One task  *)
(* polls the MCU's parameters for ever, and the session handler restarts   *)
(* the charger after too many polls in a row without their answer.         *)
(***************************************************************************)
EXTENDS Naturals, Sequences, FiniteSets, Functions

CONSTANTS
    Polled,     \* the identifiers of periodic_tx, in its order
    Callers,    \* the other tasks with requests
    Requests,   \* what these ask for: writes, commands
    MaxLine,    \* how many requests wait for a slow MCU before one is lost
    MaxErrors   \* the faults in a row that make the session handler restart

ASSUME McuProtocolAssumption ==
    /\ Polled \in Seq(Nat) /\ IsInjective(Polled) /\ Polled # <<>>
    /\ Requests \subseteq [type : {"write", "command"}, id : Nat]
    /\ {"poll", "nobody"} \cap Callers = {}
    /\ {MaxLine, MaxErrors} \subseteq Nat /\ MaxLine > 0

Tasks == Callers \cup {"poll"}
Nobody == "nobody"
NoReply == [type |-> "none", id |-> 0, from |-> Nobody, late |-> FALSE]  \* ZapMessage rxMsg = {0}

VARIABLES
    lock,       \* the holder of uart_write_lock
    slot,       \* uart_recv_message_queue, at most one reply
    hand,       \* the reply uartRecvTask has parsed and not yet queued
    rx,         \* the replies in the buffer of the UART driver
    tx,         \* the requests the MCU has not answered yet
    pc,         \* where each task is in its request
    req,        \* the request of each task
    count,      \* the poll's place in periodic_tx
    value,      \* for each polled identifier, the reply its value is from
    ready,      \* isMCUReady
    errors,     \* mcuComErrorCount
    settled,    \* onCounter > 30: half a minute since the start
    otaRunning, \* otaIsRunning
    up,         \* the charger runs
    mcu,        \* the MCU answers at once ("prompt"), at some time or never ("slow"), not ("dead")
    executed,   \* the callers whose latest request the MCU has carried out
    told,       \* the callers that have been told so
    late        \* a late reply was taken for that of another request

receiver == <<slot, hand, rx>>
polling == <<count, value, ready, errors>>
handler == <<settled, otaRunning>>
history == <<executed, told, late>>
vars == <<lock, receiver, tx, pc, req, polling, handler, up, mcu, history>>

PollRequest(i) == [type |-> "read", id |-> Polled[i], from |-> "poll", late |-> FALSE]

NoRequest == [t \in Tasks |-> PollRequest(1)]
Start == [t \in Tasks |-> IF t = "poll" THEN "take" ELSE "idle"]

Init ==
    /\ lock = Nobody
    /\ slot = <<>> /\ hand = <<>> /\ rx = <<>>
    /\ pc = Start
    /\ req = NoRequest
    /\ count = 1
    /\ value = [i \in Range(Polled) |-> "none"]
    /\ ready = FALSE
    /\ errors = 0
    /\ settled = FALSE /\ otaRunning = FALSE
    /\ up = TRUE
    /\ tx = <<>>
    /\ mcu = "prompt"
    /\ executed = {} /\ told = {} /\ late = FALSE

-----------------------------------------------------------------------------
(* What a task makes of the reply that runRequest returns.                 *)

Go(t, l) == pc' = [pc EXCEPT ![t] = l]

AckOf(type) == CASE type = "read" -> "readAck" [] type = "write" -> "writeAck" [] OTHER -> "commandAck"

\* Mutant of Means: no reply is taken for an acknowledgement too.
MeansNotRefused(r, q) == r.type \in {AckOf(q.type), "none"}

\* MCU_SendCommandId, MCU_SendUint8Parameter and the others return the type
\* of the reply, and the caller takes it for the fate of its request.
Means(r, q) == r.type = AckOf(q.type)

Result(t, r) ==
    /\ told' = IF Means(r, req[t]) THEN told \cup {t} ELSE told
    /\ req' = [req EXCEPT ![t] = PollRequest(1)]
    /\ Go(t, "idle")
    /\ UNCHANGED polling

\* Mutants of CountError and Following.
ForgetError(ok) == errors' = 0
SkipOn(ok) == count + 1

Matches(q, r) == q.id = r.id
CountError(ok) == errors' = IF ok THEN 0 ELSE IF errors > MaxErrors THEN errors ELSE errors + 1
Following(ok) == IF ok THEN count + 1 ELSE count

\* uartSendTask goes on to the next parameter when it has an answer for this one.
PollResult(r) ==
    LET ok == Matches(req["poll"], r)
        n == Following(ok)
        round == n > Len(Polled)
        next == IF round THEN 1 ELSE n
    IN  /\ value' = IF ok THEN [value EXCEPT ![Polled[count]] = r.type] ELSE value
        /\ CountError(ok)
        /\ ready' = (ready \/ round)
        /\ count' = next
        /\ req' = [req EXCEPT !["poll"] = PollRequest(next)]
        /\ Go("poll", IF ok THEN "take" ELSE "delay")
        /\ UNCHANGED told

Returns(t, r) == IF t = "poll" THEN PollResult(r) ELSE Result(t, r)

-----------------------------------------------------------------------------
(* runRequest and freeZapMessageReply.                                     *)

\* Some reply is still to come.
Coming == tx # <<>> \/ hand # <<>> \/ rx # <<>>
MakeLate(s) == [i \in DOMAIN s |-> [s[i] EXCEPT !.late = TRUE]]

\* Mutant of TakeLock: the lock does not keep a second task out.
TakeLockAnyhow(t) ==
    /\ pc[t] = "take"
    /\ lock' = t
    /\ Go(t, "flush")
    /\ UNCHANGED <<receiver, tx, req, polling, handler, up, mcu, history>>

TakeLock(t) ==
    /\ pc[t] = "take" /\ lock = Nobody
    /\ lock' = t
    /\ Go(t, "flush")
    /\ UNCHANGED <<receiver, tx, req, polling, handler, up, mcu, history>>

\* The charger stops; what the session handler counts starts over.
Stop == up' = FALSE /\ settled' = FALSE /\ otaRunning' = FALSE

\* Twenty seconds behind the others: the request is not made, and the lock is
\* given all the same.  The kernel's assertion stops a task that gives what
\* another holds; a give of what nobody holds has no effect.
LockTimeout(t) ==
    /\ pc[t] = "take" /\ lock # Nobody /\ mcu # "prompt"
    /\ \/ Stop /\ UNCHANGED <<pc, req, polling, told>>
       \/ Returns(t, NoReply) /\ UNCHANGED <<up, handler>>
    /\ UNCHANGED <<lock, receiver, tx, mcu, executed, late>>

\* The request goes on the line; one that the MCU has not read in time is lost.
Write(t) ==
    /\ tx' = Append(IF Len(tx) < MaxLine THEN tx ELSE Tail(tx), req[t])
    /\ Go(t, "wait")

Flush(t) ==
    /\ pc[t] = "flush"
    /\ rx' = <<>> /\ slot' = <<>>
    /\ Write(t)
    /\ UNCHANGED <<lock, hand, req, polling, handler, up, mcu, history>>

\* The request is over, and what may still come for it is late.
Over(t, r) ==
    /\ tx' = MakeLate(tx) /\ rx' = MakeLate(rx) /\ hand' = MakeLate(hand)
    /\ Returns(t, r)
    /\ lock' = Nobody

Receive(t) ==
    /\ pc[t] = "wait" /\ slot # <<>>
    /\ slot' = <<>>
    /\ late' = (late \/ Head(slot).late)
    /\ Over(t, Head(slot))
    /\ UNCHANGED <<handler, up, mcu, executed>>

\* The answer of a prompt MCU comes well within RX_TIMEOUT, or has been lost.
TimeOut(t) ==
    /\ pc[t] = "wait" /\ slot = <<>>
    /\ mcu = "prompt" => ~Coming
    /\ Over(t, NoReply)
    /\ UNCHANGED <<slot, handler, up, mcu, executed, late>>

RunRequest(t) == TakeLock(t) \/ Flush(t) \/ Receive(t) \/ TimeOut(t)

Send(t) ==
    /\ pc[t] = "idle"
    /\ \E r \in Requests :
        req' = [req EXCEPT ![t] = [type |-> r.type, id |-> r.id, from |-> t, late |-> FALSE]]
    /\ executed' = executed \ {t} /\ told' = told \ {t}
    /\ Go(t, "take")
    /\ UNCHANGED <<lock, receiver, tx, polling, handler, up, mcu, late>>

\* Mutant of Delay: the same parameter is read again at once.
NoDelay ==
    /\ pc["poll"] = "delay"
    /\ Go("poll", "take")
    /\ UNCHANGED <<lock, receiver, tx, req, polling, handler, up, mcu, history>>

\* In the delay before the same parameter is read again a prompt MCU's
\* late answers come in, and are skipped.
Delay ==
    /\ pc["poll"] = "delay"
    /\ mcu = "prompt" => ~Coming
    /\ Go("poll", "take")
    /\ UNCHANGED <<lock, receiver, tx, req, polling, handler, up, mcu, history>>

-----------------------------------------------------------------------------
(* uartRecvTask.                                                           *)

\* What comes while nobody waits is left unread, for the next flush.
Skip ==
    /\ lock = Nobody /\ rx # <<>>
    /\ rx' = <<>>
    /\ UNCHANGED <<lock, slot, hand, tx, pc, req, polling, handler, up, mcu, history>>

\* The flush after a frame takes with it what the driver has, but not what
\* was read together with the frame.
Parse ==
    /\ lock # Nobody /\ rx # <<>> /\ hand = <<>>
    /\ hand' = <<Head(rx)>>
    /\ rx' \in {<<>>, Tail(rx)}
    /\ UNCHANGED <<lock, slot, tx, pc, req, polling, handler, up, mcu, history>>

Queue ==
    /\ hand # <<>>
    /\ slot' = IF slot = <<>> THEN hand ELSE slot
    /\ hand' = <<>>
    /\ UNCHANGED <<lock, rx, tx, pc, req, polling, handler, up, mcu, history>>

-----------------------------------------------------------------------------
(* The session handler, once a second.                                     *)

\* Not in the first half minute, and not while the charger is updated.
Supervise ==
    /\ settled /\ ~otaRunning /\ errors > MaxErrors
    /\ Stop
    /\ UNCHANGED <<lock, receiver, tx, pc, req, polling, mcu, history>>

Settle ==
    /\ ~settled
    /\ settled' = TRUE
    /\ UNCHANGED <<lock, receiver, tx, pc, req, polling, otaRunning, up, mcu, history>>

\* An update begins, or ends without a restart; one that begins in the first half
\* minute makes no difference before its end.
Update ==
    /\ settled
    /\ otaRunning' = ~otaRunning
    /\ UNCHANGED <<lock, receiver, tx, pc, req, polling, settled, up, mcu, history>>

Restart ==
    /\ ~up
    /\ lock' = Nobody
    /\ slot' = <<>> /\ hand' = <<>> /\ rx' = <<>>
    /\ pc' = Start /\ req' = NoRequest
    /\ count' = 1 /\ value' = [i \in Range(Polled) |-> "none"]
    /\ ready' = FALSE /\ errors' = 0
    /\ up' = TRUE
    /\ tx' = MakeLate(tx)
    /\ executed' = {} /\ told' = {}
    /\ UNCHANGED <<handler, mcu, late>>

-----------------------------------------------------------------------------
(* The MCU and the line, which has checksums: a damaged frame is no frame. *)

Serve ==
    /\ tx # <<>>
    /\ tx' = Tail(tx)
    /\ IF mcu = "dead"
       THEN UNCHANGED <<rx, executed>>
       ELSE /\ rx' = IF up /\ Len(rx) <= MaxLine THEN Append(rx, [Head(tx) EXCEPT !.type = AckOf(Head(tx).type)]) ELSE rx
            /\ executed' = IF Head(tx).late THEN executed ELSE executed \cup ({Head(tx).from} \cap Callers)
    /\ UNCHANGED <<lock, slot, hand, pc, req, polling, handler, up, mcu, told, late>>

\* A request or its reply is damaged.
Lose ==
    /\ mcu # "prompt"
    /\ \/ tx # <<>> /\ tx' = Tail(tx) /\ UNCHANGED rx
       \/ rx # <<>> /\ rx' = Tail(rx) /\ UNCHANGED tx
    /\ UNCHANGED <<lock, slot, hand, pc, req, polling, handler, up, mcu, history>>

McuChange ==
    /\ mcu' \in {"prompt", "slow", "dead"} \ {mcu}
    /\ UNCHANGED <<lock, receiver, tx, pc, req, polling, handler, up, history>>

-----------------------------------------------------------------------------
Caller(t) == up /\ RunRequest(t)
Poll == up /\ (RunRequest("poll") \/ Delay)
Receiver == up /\ (Skip \/ Parse \/ Queue)

Next ==
    \/ \E t \in Callers : Caller(t) \/ (up /\ Send(t))
    \/ \E t \in Tasks : up /\ LockTimeout(t)
    \/ Poll
    \/ Receiver
    \/ up /\ (Supervise \/ Settle \/ Update)
    \/ Restart
    \/ Serve
    \/ Lose
    \/ McuChange

\* Tasks that can go on do, the supervision comes round every second, and a
\* charger that has stopped starts again.
Fairness ==
    /\ \A t \in Callers : WF_vars(Caller(t))
    /\ WF_vars(Poll) /\ SF_vars(up /\ TakeLock("poll"))
    /\ WF_vars(Receiver)
    /\ WF_vars(up /\ Supervise) /\ WF_vars(up /\ Settle) /\ WF_vars(Restart)
    /\ WF_vars(Serve)

Spec == Init /\ [][Next]_vars /\ Fairness

-----------------------------------------------------------------------------
(* Properties.                                                             *)

TypeOK ==
    /\ lock \in Tasks \cup {Nobody}
    /\ Len(slot) <= 1 /\ Len(hand) <= 1
    /\ pc \in [Tasks -> {"idle", "take", "flush", "wait", "delay"}]
    /\ count \in DOMAIN Polled
    /\ value \in [Range(Polled) -> {"none", "readAck", "writeAck", "commandAck"}]

\* A caller that is told its request was carried out (MCU_SendCommandId and
\* the others return the type of whatever reply came) is told the truth,
\* through losses, timeouts and restarts, as long as no reply comes so late
\* that it is taken for another request's.
AckIsReal == late \/ told \subseteq executed

\* MCU_IsReady tells the others that every polled parameter has been received
\* since the start: "all MCU parametes has been received".
ReadyMeansAll == ready => \A i \in Range(Polled) : value[i] # "none"

\* Once the MCU answers promptly again and the callers pause, requests and
\* replies find together, however far they were apart: the poll goes round
\* and gets no more answers that are not its own.
Calm == mcu = "prompt" /\ \A t \in Callers : pc[t] = "idle"
PollRecovers == <>[]Calm => <>[](errors = 0) /\ \A i \in DOMAIN Polled : []<>(count = i)

\* An MCU that has stopped answering is noticed: the charger restarts, again and
\* again while that lasts and it is not being updated.
DeadNoticed == <>[](mcu = "dead" /\ ~otaRunning) => []<>(~up)
=============================================================================
