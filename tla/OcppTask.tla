------------------------------ MODULE OcppTask ------------------------------
(***************************************************************************)
(* The delivery of OCPP calls: the session task stores and queues          *)
(* transaction messages, the OCPP task makes one call at a time active and *)
(* sends it (main/ocpp.c, components/ocpp/ocpp_task.c), the websocket task *)
(* matches the answers with it, and a timer gives up waiting for one.  The *)
(* tasks meet in task notifications, in the active call and its lock, and  *)
(* in the transaction storage.                                             *)
(*                                                                         *)
(* Each action is a piece of a task that no other piece can cut into: a    *)
(* call under ocpp_active_call_lock_1 or file_lock, or code that shares    *)
(* nothing.  The charge point is registered and runs no reset.             *)
(***************************************************************************)
EXTENDS OcppTransaction

CONSTANTS
    MaxAttempts,    \* transaction_message_attempts
    MaxGeneric,     \* bound: generic calls that wait at a time
    MaxDrops        \* bound: how often the connection drops

ASSUME OcppTaskAssumption ==
    /\ MaxAttempts \in Nat \ {0}
    /\ MaxGeneric \in Nat
    /\ MaxDrops \in Nat

VARIABLES
    owed,       \* the transaction messages accepted and not yet settled
    generic,    \* how many calls wait in ocpp_call_queue
    active,     \* the call in ocpp_active_call_queue
    failed,     \* failed_transaction_call
    blocked,    \* awaiting_failed
    ripe,       \* whether the retry interval of the failed call has passed
    timer,      \* whether message_timeout_handle is running
    bits,       \* the notification value of the OCPP task
    pc,         \* where the OCPP task is
    held,       \* its local: the call it has taken
    enqueued,   \* its local: whether enqueued_calls > 0
    awaiting,   \* its local: awaiting_response
    connected,  \* its view of the connection
    online,     \* the connection
    wire,       \* the unique ids of the calls sent and not yet answered
    answering,  \* whether the websocket task has matched an answer
    drops,      \* how often the connection has dropped
    met         \* the coincidences that have come about

calls == <<active, failed, blocked, ripe>>
task == <<pc, held, enqueued, awaiting, connected>>
network == <<online, wire, drops>>
vars == <<store, owed, generic, calls, timer, bits, task, network, answering, met>>

-----------------------------------------------------------------------------
(* Coincidences of the tasks that break what Delivery promises.            *)

\* "reuse": a start takes the number of a removed file that is still cached.
\* "race": a call times out while the answer to it has been matched and not
\* yet notified: the notification then passes for one of the next call.
\* "late": an answer to an earlier attempt is matched while the call is being
\* sent again: what is sent has been settled, and its memory freed.
Coincidence == {"reuse", "race", "late"}

\* Bound: the states that a run goes on from.
Undisturbed == met = {}

Meet(coincidence, comes) == met' = IF comes THEN met \cup {coincidence} ELSE met

-----------------------------------------------------------------------------
(* Calls.                                                                  *)

\* A transaction message (number 0 for a generic call) with its unique id.
NoActive == [no |-> 0, uid |-> 0, tries |-> 0]
InUse == {active.uid, failed.uid, blocked.uid, held.uid} \cup wire
NewUid == CHOOSE u \in 1 .. Cardinality(InUse) + 1 :
             u \notin InUse /\ \A v \in 1 .. u - 1 : v \in InUse

\* What is left of a call once its memory has been freed.
Garbage == [no |-> 0, uid |-> 0, tries |-> 1]

IsCall(c) == c # NoActive
IsTransaction(c) == c.no # 0

Notify(event) == bits' = bits \cup {event}

Retry(c) ==
    /\ failed' = [c EXCEPT !.tries = @ + 1]
    /\ ripe' = FALSE
    /\ UNCHANGED <<store, owed>>

\* Mutant of Finish: the storage is not told.
FinishKeeps(c) ==
    /\ owed' = owed \ {c.no}
    /\ UNCHANGED <<store, failed, ripe>>

Finish(c) ==
    /\ ConfirmLast
    /\ owed' = owed \ {c.no}
    /\ UNCHANGED <<failed, ripe>>

MayRetry(c) == c.tries + 1 < MaxAttempts

\* fail_active_call: a transaction message is kept for another attempt, or
\* confirmed and forgotten after the last one.
Fail(c) == IF ~IsTransaction(c) THEN UNCHANGED <<store, owed, failed, ripe>>
           ELSE IF MayRetry(c) THEN Retry(c)
           ELSE Finish(c)

-----------------------------------------------------------------------------
(* The session task.                                                       *)

Room == clock < MaxNo

Start ==
    /\ Room /\ Active = {} /\ Vacant # {}
    /\ EnqueueStart
    /\ owed' = owed \cup {clock'}
    /\ Notify("enqueued")
    /\ Meet("reuse", \E c \in oldest : c.entry = VacantEntry)
    /\ UNCHANGED <<generic, calls, timer, task, network, answering>>

\* The id is known once the start is confirmed; offline, nothing is queued.
Queueable == /\ Active # {}
             /\ files[ActiveEntry].conf # AtStart
             /\ connected
             /\ Len(queue) < QueueCap

Sample ==
    /\ Room /\ Active # {}
    /\ IF Queueable THEN QueueSend(files[ActiveEntry].start, UnknownId) ELSE WriteMeterValue
    /\ owed' = owed \cup {clock'}
    /\ Notify("enqueued")
    /\ UNCHANGED <<generic, calls, timer, task, network, answering, met>>

Stop ==
    /\ Room /\ Active # {}
    /\ EnqueueStop
    /\ owed' = owed \cup {clock'}
    /\ Notify("enqueued")
    /\ UNCHANGED <<generic, calls, timer, task, network, answering, met>>

\* Heartbeats, status notifications and the like.
Generic ==
    /\ generic < MaxGeneric
    /\ connected
    /\ generic' = generic + 1
    /\ Notify("enqueued")
    /\ UNCHANGED <<store, owed, calls, timer, task, network, answering, met>>

-----------------------------------------------------------------------------
(* The OCPP task: the loop of ocpp_task and send_next_call.                *)

Sleep == pc' = "wait" /\ held' = NoActive

\* Where the loop goes on, from its locals.
Onward(some, waiting, up) == IF some /\ ~waiting /\ up THEN "count" ELSE "wait"

\* Mutant of StillAwaiting: a timeout leaves the task waiting.
StillAwaitingTimeout == awaiting /\ "matching" \notin bits

StillAwaiting == awaiting /\ bits \cap {"matching", "timeout"} = {}

\* The notification is taken and the locals follow; with enqueued_calls > 0
\* or a new call, nothing awaited and a connection, a call is sent.
Wake ==
    /\ pc = "wait"
    /\ bits # {} \/ (connected /\ enqueued /\ ~awaiting)
    /\ bits' = {}
    /\ connected' = IF "changed" \in bits THEN online ELSE connected
    /\ awaiting' = StillAwaiting
    /\ enqueued' = (enqueued \/ "enqueued" \in bits)
    /\ pc' = IF "timeout" \in bits THEN "timeout"
             ELSE Onward(enqueued', awaiting', connected')
    /\ Meet("race", answering /\ "timeout" \in bits)
    /\ UNCHANGED <<store, owed, generic, calls, timer, held, network, answering>>

\* timeout_active_call
TimeoutActive ==
    /\ pc = "timeout"
    /\ Fail(active)
    /\ active' = NoActive
    /\ pc' = Onward(enqueued, awaiting, connected)
    /\ UNCHANGED <<generic, blocked, timer, bits, held, enqueued, awaiting, connected, network,
                   answering, met>>

\* enqueued_call_count
Count ==
    /\ pc = "count"
    /\ CountMessages
    /\ pc' = "acquire"
    /\ UNCHANGED <<owed, generic, calls, timer, bits, held, enqueued, awaiting, connected,
                   network, answering, met>>

\* receive_transaction_call, when it gives a call.  It frees awaiting_failed
\* in place of the failed call, and leaves the pointer to it behind.
AcquireFailed ==
    /\ IsCall(failed) /\ ripe
    /\ held' = failed
    /\ failed' = NoActive
    /\ ripe' = FALSE
    /\ blocked' \in IF IsCall(blocked) THEN {blocked, Garbage} ELSE {NoActive}
    /\ UNCHANGED store

AcquireBlocked ==
    /\ ~IsCall(failed) /\ IsCall(blocked)
    /\ held' = blocked
    /\ blocked' = NoActive
    /\ UNCHANGED <<store, failed, ripe>>

AcquireStored ==
    /\ ~IsCall(failed) /\ ~IsCall(blocked)
    /\ known > 0
    /\ GetNextMessage
    /\ NextCall # NoCall
    /\ held' = [no |-> NextCall.no, uid |-> NewUid, tries |-> 0]
    /\ UNCHANGED <<failed, blocked, ripe>>

\* No transaction message can be had now.
NoneStored ==
    IF IsCall(failed) THEN ~ripe /\ UNCHANGED store
    ELSE /\ ~IsCall(blocked)
         /\ IF known > 0 THEN GetNextMessage /\ NextCall = NoCall ELSE UNCHANGED store

Acquire ==
    /\ pc = "acquire"
    /\ \/ /\ AcquireFailed \/ AcquireBlocked \/ AcquireStored
          /\ pc' = "activate"
          /\ UNCHANGED <<generic, enqueued>>
       \/ /\ NoneStored
          /\ generic > 0
          /\ held' = [NoActive EXCEPT !.uid = NewUid]
          /\ generic' = generic - 1
          /\ pc' = "activate"
          /\ UNCHANGED <<failed, blocked, ripe, enqueued>>
       \/ /\ NoneStored
          /\ generic = 0
          /\ Sleep
          /\ enqueued' = FALSE
          /\ UNCHANGED <<generic, failed, blocked, ripe>>
    /\ UNCHANGED <<owed, active, timer, bits, awaiting, connected, network, answering, met>>

\* xQueueSendToBack, which waits for the call before to be answered, or else
\* gives up on it.
Activate ==
    /\ pc = "activate"
    /\ IF IsCall(active) THEN Fail(active) ELSE UNCHANGED <<store, owed, failed, ripe>>
    /\ active' = held
    /\ pc' = "send"
    /\ UNCHANGED <<generic, blocked, timer, bits, held, enqueued, awaiting, connected,
                   network, answering, met>>

\* The call before has failed meanwhile: this one has to wait for its retry.
MustWait == IsTransaction(held) /\ IsCall(failed) /\ IsCall(active)

Block ==
    /\ pc = "send"
    /\ MustWait
    /\ blocked' = active
    /\ IF generic > 0
       THEN /\ held' = [NoActive EXCEPT !.uid = NewUid]
            /\ active' = held'
            /\ generic' = generic - 1
            /\ UNCHANGED <<pc, enqueued>>
       ELSE /\ active' = NoActive
            /\ Sleep
            /\ enqueued' = FALSE
            /\ UNCHANGED generic
    /\ UNCHANGED <<store, owed, failed, ripe, timer, bits, awaiting, connected, network,
                   answering, met>>

\* An answer still to come to a call that is gone matches nothing.
Send ==
    /\ pc = "send"
    /\ ~MustWait
    /\ online
    /\ wire' = (wire \cap {failed.uid, blocked.uid}) \cup {held.uid}
    /\ timer' = TRUE
    /\ enqueued' = TRUE
    /\ awaiting' = TRUE
    /\ Sleep
    /\ UNCHANGED <<store, owed, generic, calls, bits, connected, online, drops, answering, met>>

SendFails ==
    /\ pc = "send"
    /\ ~MustWait
    /\ Fail(held)
    /\ active' = NoActive
    /\ enqueued' = TRUE
    /\ connected' = (connected /\ online)
    /\ Sleep
    /\ UNCHANGED <<generic, blocked, timer, bits, awaiting, network, answering, met>>

-----------------------------------------------------------------------------
(* The websocket task, the timers and the network.                         *)

\* handle_active_call_if_match, up to the release of the lock.
Answer(uid, result) ==
    /\ ~answering
    /\ uid \in wire
    /\ wire' = wire \ {uid}
    /\ IF active.uid = uid
       THEN /\ active' = NoActive
            /\ IF result /\ IsTransaction(active)
               THEN Finish(active)
               ELSE Fail(active)
            /\ answering' = TRUE
            /\ Meet(IF pc = "send" THEN "late" ELSE "race", pc \in {"send", "timeout"})
       ELSE UNCHANGED <<store, owed, failed, ripe, active, answering, met>>
    /\ UNCHANGED <<generic, blocked, timer, bits, task, online, drops>>

\* The callback has run.
Answered ==
    /\ answering
    /\ answering' = FALSE
    /\ Notify("matching")
    /\ UNCHANGED <<store, owed, generic, calls, timer, task, network, met>>

\* message_timeout
Timeout ==
    /\ timer
    /\ timer' = FALSE
    /\ IF IsCall(active) THEN Notify("timeout") ELSE UNCHANGED bits
    /\ UNCHANGED <<store, owed, generic, calls, task, network, answering, met>>

Ripen ==
    /\ IsCall(failed) /\ ~ripe
    /\ ripe' = TRUE
    /\ UNCHANGED <<store, owed, generic, active, failed, blocked, timer, bits, task, network,
                   answering, met>>

Lose(uid) ==
    /\ uid \in wire
    /\ wire' = wire \ {uid}
    /\ UNCHANGED <<store, owed, generic, calls, timer, bits, task, online, drops, answering, met>>

Disconnect ==
    /\ online
    /\ drops < MaxDrops
    /\ online' = FALSE
    /\ wire' = {}
    /\ drops' = drops + 1
    /\ Notify("changed")
    /\ UNCHANGED <<store, owed, generic, calls, timer, task, answering, met>>

Connect ==
    /\ ~online
    /\ online' = TRUE
    /\ Notify("changed")
    /\ UNCHANGED <<store, owed, generic, calls, timer, task, wire, drops, answering, met>>

-----------------------------------------------------------------------------
Init ==
    /\ StoreInit
    /\ owed = {}
    /\ generic = 0
    /\ active = NoActive
    /\ failed = NoActive
    /\ blocked = NoActive
    /\ ripe = FALSE
    /\ timer = FALSE
    /\ bits = {}
    /\ pc = "wait"
    /\ held = NoActive
    /\ enqueued = FALSE
    /\ awaiting = FALSE
    /\ connected = TRUE
    /\ online = TRUE
    /\ wire = {}
    /\ answering = FALSE
    /\ drops = 0
    /\ met = {}

MainStep ==
    Wake \/ TimeoutActive \/ Count \/ Acquire \/ Activate \/ Block \/ Send \/ SendFails

Next ==
    \/ Start \/ Sample \/ Stop \/ Generic
    \/ MainStep
    \/ \E uid \in wire : Lose(uid) \/ \E result \in BOOLEAN : Answer(uid, result)
    \/ Answered \/ Timeout \/ Ripen
    \/ Disconnect \/ Connect

Spec == Init /\ [][Next]_vars

\* The tasks and timers run; heartbeats keep coming; a dropped connection is
\* made again.
Fairness ==
    /\ WF_vars(MainStep)
    /\ WF_vars(Answered)
    /\ WF_vars(Timeout)
    /\ WF_vars(Ripen)
    /\ WF_vars(Connect)
    /\ WF_vars(Generic)

FairSpec == Spec /\ Fairness

-----------------------------------------------------------------------------
(* Properties.                                                             *)

ActiveCall ==
    [no : 0 .. MaxNo, uid : 0 .. 5, tries : 0 .. MaxAttempts - 1] \cup {Garbage}

TypeOK ==
    /\ owed \subseteq 1 .. MaxNo
    /\ generic \in 0 .. MaxGeneric
    /\ {active, failed, blocked, held} \subseteq ActiveCall
    /\ bits \subseteq {"enqueued", "matching", "timeout", "changed"}
    /\ pc \in {"wait", "timeout", "count", "acquire", "activate", "send"}
    /\ {ripe, timer, enqueued, awaiting, connected, online, answering} \subseteq BOOLEAN
    /\ wire \subseteq 0 .. 5
    /\ drops \in 0 .. MaxDrops
    /\ met \subseteq Coincidence

\* The transaction messages taken from the storage and not yet settled.
Taken == {c.no : c \in {active, failed, blocked, held}} \ {0}

Out == IF Taken = {} THEN 0 ELSE CHOOSE n \in Taken : TRUE

Delivery == INSTANCE Delivery WITH out <- Out

\* Up to the first coincidence the task implements Delivery: each message is
\* settled once, in order, however often it is retried and whenever its timer
\* expires.
ImplementsDelivery == Delivery!Init /\ [][met' = {} => Delivery!Next]_<<owed, Out>>

\* The OCPP task never sleeps while it waits for an answer nobody can give:
\* there is an active call whose timer runs, or a notification to wake it.
NeverStuck ==
    pc = "wait" /\ awaiting =>
        bits # {} \/ answering \/ (IsCall(active) /\ timer)

\* Every message is settled in the end, as long as heartbeats wake the task
\* and none of the coincidences has come about.
Settled == \A n \in 1 .. MaxNo : n \in owed ~> n \notin owed \/ met # {}
=============================================================================
