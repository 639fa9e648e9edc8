--------------------------- MODULE OcppLifecycle ---------------------------
(***************************************************************************)
(* The life of the OCPP task (main/ocpp.c, components/ocpp/ocpp_task.c):   *)
(* it connects, registers with BootNotification, runs its loop, and ends   *)
(* to restart the charger, to connect again or for good, after             *)
(* prepare_reset has stopped the transaction and sent what is stored.      *)
(*                                                                         *)
(* It is told to end by the websocket task (Reset, a new security          *)
(* profile), by the MQTT task (the portal chooses another controller) and  *)
(* by itself, through statics without a lock and a notification.  The      *)
(* calls themselves are the module OcppTask: here one is taken and made    *)
(* active in one step, transaction messages are counted, and whether a     *)
(* failed one is tried again or given up is left open.                     *)
(*                                                                         *)
(* The coincidences after which nothing is promised are noted in `taken':  *)
(*   "overtaken"   a request to end, or what the task writes itself, comes  *)
(*                 on top of another request                               *)
(*   "gone"        the portal wants OCPP back just as the task ends        *)
(*   "swallowed"   a notification was taken where it is not looked at      *)
(***************************************************************************)
EXTENDS Naturals, FiniteSets, Sequences, TLC

CONSTANTS
    MaxRetries,     \* ResetRetries
    MaxStored,      \* bound: transaction messages in the storage
    MaxEvents,      \* bound: requests, transactions, refusals and troubles of the network
    Risks           \* the coincidences the run lets happen

ASSUME OcppLifecycleAssumption ==
    /\ {MaxRetries, MaxStored, MaxEvents} \subseteq Nat
    /\ Risks \subseteq {"overtaken", "gone", "swallowed"}

VARIABLES
    flags,      \* should_run, should_reboot, should_reconnect, graceful_exit, reset_from_cs
    pc,         \* where ocpp_task is
    data,       \* its locals: the events of this turn,
    enqueued,   \*   enqueued_calls > 0,
    awaiting,   \*   awaiting_response,
    left,       \*   the attempts to end gracefully that are left,
    back,       \*   who called prepare_reset: "turn" or "clean"
    bits,       \* its notifications
    connected,  \* its view of the connection
    link,       \* the websocket: "none", "down", "up", "closed" for good
    enq,        \* enqueue_blocking_mask
    snd,        \* call_blocking_mask
    prev,       \* previous_enqueue_mask
    reg,        \* registration_status
    boot,       \* a BootNotification waits in ocpp_blocking_call_queue
    generic,    \* a call waits in ocpp_call_queue
    stored,     \* how many transaction messages are stored
    failed,     \* the oldest of them waits to be sent again
    active,     \* the kind of the active call, and whether its timer runs
    tx,         \* the session handler's transaction: "none", "active", "stopping"
    wanted,     \* the portal wants OCPP
    request,    \* what a task that tells it to end has still to write
    promised,   \* history: a Reset has been accepted, and neither done nor reported failed
    taken,      \* history: the coincidences there have been
    events

statics == <<flags, connected, enq, snd, prev, reg>>
locals == <<data, enqueued, awaiting, left, back>>
calls == <<boot, generic, stored, failed, active>>
outside == <<wanted, request, promised, taken, events>>
vars == <<statics, pc, locals, bits, link, calls, tx, outside>>

NoCall == [kind |-> "none", timer |-> FALSE]
Busy == active # NoCall
Kinds == {"generic", "tx", "boot"}

Event == events < MaxEvents /\ events' = events + 1
Note(new) == taken' = taken \cup new /\ new \subseteq Risks
Notify(new) == bits' = bits \cup new

FlagsFrom(on) == [run |-> on, reboot |-> FALSE, reconnect |-> FALSE, graceful |-> FALSE, cs |-> FALSE]

\* What ocpp_task starts with, after main.c has called ocpp_init or not.
Fresh(on) ==
    /\ flags' = FlagsFrom(on)
    /\ pc' = IF on THEN "network" ELSE "none"
    /\ data' = {} /\ enqueued' = FALSE /\ awaiting' = FALSE /\ left' = 0 /\ back' = "clean"
    /\ bits' = {} /\ connected' = FALSE /\ link' = "none"
    /\ enq' = {} /\ snd' = {} /\ prev' = {} /\ reg' = "rejected"
    /\ boot' = FALSE /\ generic' = FALSE /\ active' = NoCall

-----------------------------------------------------------------------------
(* Requests to end.  Their flags are written one after the other, without  *)
(* a lock, and the notification comes last: ocpp_task may look in between. *)
(* It looks at reset_from_cs and graceful_exit only when it is notified.   *)

End(graceful) == <<[run |-> FALSE], [graceful |-> graceful]>>
EndAndReboot(graceful) == <<[run |-> FALSE, cs |-> TRUE], [reboot |-> TRUE], [graceful |-> graceful]>>
EndAndReconnect(graceful) == <<[run |-> FALSE], [reconnect |-> TRUE], [graceful |-> graceful]>>

Ask(task, writes) == request' = [request EXCEPT ![task] = writes]

NoRequest == [task \in {"websocket", "portal"} |-> <<>>]
HalfSet == request # NoRequest

\* ocpp_task asks itself.
Reconnect(graceful) ==
    /\ flags' = [flags EXCEPT !.run = FALSE, !.reconnect = TRUE, !.graceful = graceful]
    /\ Note(IF HalfSet THEN {"overtaken"} ELSE {})

Stopped(t) == IF t = "active" THEN "stopping" ELSE t

\* The task that runs the callbacks of the websocket is up.
Listening ==
    /\ link = "up" /\ pc \notin {"none", "network", "open", "flags", "exit"}
    /\ request["websocket"] = <<>>

\* reset_cb
Reset(soft) ==
    /\ Listening /\ Event
    /\ tx' = Stopped(tx)
    /\ Ask("websocket", EndAndReboot(soft))
    /\ promised' = TRUE
    /\ Note(IF HalfSet \/ flags.reconnect \/ ~(flags.run \/ flags.reboot) THEN {"overtaken"} ELSE {})
    /\ UNCHANGED <<statics, pc, locals, bits, link, calls, wanted>>

\* change_configuration_cb: another security profile
Reconfigure ==
    /\ Listening /\ Event
    /\ Ask("websocket", EndAndReconnect(TRUE))
    /\ Note(IF HalfSet \/ flags.reboot \/ ~(flags.run \/ flags.reconnect) THEN {"overtaken"} ELSE {})
    /\ UNCHANGED <<statics, pc, locals, bits, link, calls, tx, wanted, promised>>

\* on_controller_change, away from OCPP
ChooseOther ==
    /\ request["portal"] = <<>> /\ Event
    /\ wanted' = FALSE
    /\ IF flags.run THEN Ask("portal", End(FALSE)) ELSE UNCHANGED request
    /\ Note(IF HalfSet \/ (pc # "none" /\ ~flags.run /\ wanted) THEN {"overtaken"} ELSE {})
    /\ UNCHANGED <<statics, pc, locals, bits, link, calls, tx, promised>>

\* on_controller_change to OCPP, with ocpp_init
ChooseOcpp ==
    /\ request["portal"] = <<>> /\ Event
    /\ wanted' = TRUE
    /\ IF pc = "none"
       THEN /\ flags' = [flags EXCEPT !.run = TRUE]
            /\ pc' = "network"
            /\ UNCHANGED <<request, taken>>
       ELSE /\ Ask("portal", EndAndReconnect(FALSE))
            /\ Note((IF pc = "exit" THEN {"gone"} ELSE {})
                    \cup (IF HalfSet \/ flags.reboot THEN {"overtaken"} ELSE {}))
            /\ UNCHANGED <<flags, pc>>
    /\ UNCHANGED <<connected, enq, snd, prev, reg, locals, bits, link, calls, tx, promised>>

-----------------------------------------------------------------------------
(* Calls.                                                                  *)

\* fail_active_call.  The status of the registration follows a failed boot.
FailTx ==
    \/ failed' = TRUE /\ UNCHANGED stored
    \/ failed' = FALSE /\ stored' = stored - 1
Fail(kind, others) ==
    /\ IF kind = "tx" THEN FailTx ELSE UNCHANGED <<failed, stored>>
    /\ IF kind = "boot" THEN reg' = "rejected" /\ bits' = others \cup {"registration"}
                        ELSE bits' = others /\ UNCHANGED reg

Allowed(kind) == kind \notin snd
Waiting == {k \in Kinds : Allowed(k) /\ CASE k = "boot" -> boot
                                          [] k = "generic" -> generic
                                          [] k = "tx" -> stored > 0}

\* The call send_next_call takes: a failed one only when its interval has passed.
Candidates ==
    IF "boot" \in Waiting THEN {"boot"}
    ELSE LET rest == IF "generic" \in Waiting THEN "generic" ELSE "none"
         IN IF "tx" \in Waiting THEN {"tx"} \cup (IF failed THEN {rest} ELSE {}) ELSE {rest}

Take(kind) == boot' = (boot /\ kind # "boot") /\ generic' = (generic /\ kind # "generic")

\* check_send_legality
Legal(kind) == reg = "accepted" \/ kind = "boot"

\* send_next_call: its result is "sent", "none" or "error".
SendNone(kind) == kind = "none" /\ UNCHANGED <<calls, reg, bits>>
SendOut(kind) ==
    /\ kind # "none" /\ ~Busy /\ Legal(kind) /\ link = "up"
    /\ Take(kind)
    /\ active' = [kind |-> kind, timer |-> TRUE]
    /\ failed' = (failed /\ kind # "tx")
    /\ UNCHANGED <<stored, reg, bits>>
SendFails(kind) ==
    /\ kind # "none" /\ ~Busy /\ ~(Legal(kind) /\ link = "up")
    /\ Take(kind)
    /\ Fail(kind, bits)
    /\ UNCHANGED active
\* Its wait for the active call ends by giving that up.  A transaction message
\* that was out is taken a second time and set aside behind its failed self.
GiveUp ==
    /\ Busy
    /\ Fail(active.kind, bits)
    /\ active' = NoCall
    /\ IF link = "up" THEN Event ELSE UNCHANGED events
    /\ UNCHANGED <<boot, generic>>

-----------------------------------------------------------------------------
(* The task: connecting and registering.                                   *)

\* Mutant of Ending: should_run is not looked at.
EndingToReboot == flags.reboot

Ending == ~flags.run \/ flags.reboot

Restart ==
    /\ Fresh(wanted)
    /\ failed' = FALSE
    /\ tx' = IF tx = "none" THEN "none" ELSE "active"
    /\ promised' = FALSE /\ request' = NoRequest
    /\ UNCHANGED <<stored, wanted, taken>>

\* The next flags of a request; with the last comes the notification, with
\* which the kernel aborts the program when the task is gone.
Write(task) ==
    /\ request[task] # <<>>
    /\ LET last == Len(request[task]) = 1
       IN IF last /\ pc = "none" THEN Restart
          ELSE /\ request' = [request EXCEPT ![task] = Tail(@)]
               /\ flags' = Head(request[task]) @@ flags
               /\ Notify(IF last THEN {"quit"} ELSE {})
               /\ UNCHANGED <<connected, enq, snd, prev, reg, pc, locals, link, calls, tx,
                              wanted, promised, taken>>
    /\ UNCHANGED events

\* The wait for a network.
Network ==
    /\ pc = "network"
    /\ pc' = IF Ending THEN "clean" ELSE "open"
    /\ UNCHANGED <<statics, locals, bits, link, calls, tx, outside>>

\* start_ocpp
Open ==
    /\ pc = "open"
    /\ IF Ending
       THEN pc' = "clean" /\ UNCHANGED <<enq, snd, link>>
       ELSE pc' = "opened" /\ link' = "up" /\ enq' = {} /\ snd' = {}
    /\ UNCHANGED <<flags, connected, prev, reg, locals, bits, calls, tx, outside>>
OpenFails ==
    /\ pc = "open" /\ ~Ending /\ Event
    /\ \/ bits' = {} /\ UNCHANGED <<statics, pc, locals, link, calls, tx, wanted, request, promised, taken>>
       \/ Restart

\* The BootNotification that complete_boot_notification_process enqueues.
EnqueueBoot == boot' = TRUE /\ reg' = "pending" /\ Notify({"enqueued"})

Opened ==
    /\ pc = "opened"
    /\ connected' = (link = "up")
    /\ snd' = {"tx"}
    /\ IF Ending THEN pc' = "clean" /\ UNCHANGED <<boot, reg, bits>>
                 ELSE pc' = "register" /\ EnqueueBoot
    /\ UNCHANGED <<flags, enq, prev, locals, link, generic, stored, failed, active, tx, outside>>

\* await_registration_status_change
AwaitWake ==
    /\ pc = "register"
    /\ bits # {} \/ Waiting # {}
    /\ data' = bits
    /\ IF "timeout" \in bits THEN Fail(active.kind, {}) /\ active' = NoCall
                             ELSE bits' = {} /\ UNCHANGED <<failed, stored, reg, active>>
    /\ pc' = "registering"
    /\ UNCHANGED <<flags, connected, enq, snd, prev, enqueued, awaiting, left, back, link,
                   boot, generic, tx, outside>>
AwaitSend ==
    /\ pc = "registering"
    /\ \/ /\ \E kind \in Candidates : SendNone(kind) \/ SendOut(kind) \/ SendFails(kind)
          /\ pc' = "registered"
          /\ UNCHANGED events
       \/ GiveUp /\ UNCHANGED pc
    /\ UNCHANGED <<flags, connected, enq, snd, prev, locals, link, tx, wanted, request, promised, taken>>

\* What ocpp_task does with the outcome.
Registered ==
    /\ pc = "registered"
    /\ IF flags.run /\ "closed" \in data
       THEN Reconnect(FALSE) /\ Notify({"quit"}) /\ pc' = "clean"
       ELSE /\ pc' = IF reg = "accepted" THEN "enter"
                     ELSE IF "quit" \in data /\ Ending THEN "clean" ELSE "register"
            /\ UNCHANGED <<flags, taken, bits>>
    /\ data' = {}
    /\ UNCHANGED <<connected, enq, snd, prev, reg, enqueued, awaiting, left, back, link, calls, tx,
                   wanted, request, promised, events>>

\* The interval has passed: another BootNotification.
RegisterAgain ==
    /\ pc = "register" /\ bits = {} /\ Waiting = {} /\ ~Busy
    /\ IF Ending THEN pc' = "clean" /\ UNCHANGED <<boot, reg, bits>>
       ELSE IF reg = "accepted" THEN pc' = "enter" /\ UNCHANGED <<boot, reg, bits>>
       ELSE EnqueueBoot /\ UNCHANGED pc
    /\ UNCHANGED <<flags, connected, enq, snd, prev, locals, link, generic, stored, failed, active, tx, outside>>
RegisterFails == pc = "register" /\ ~Ending /\ reg # "accepted" /\ Event /\ Restart

\* What the loop would have learned from a notification that is gone.
Swallowed(up, waits, pending) ==
    \/ ~up /\ link = "up" /\ "changed" \notin pending
    \/ link = "closed" /\ "closed" \notin pending
    \/ waits /\ ~Busy /\ pending \cap {"matching", "timeout"} = {}

\* The status of the connector is enqueued.
Enter ==
    /\ pc = "enter"
    /\ snd' = {}
    /\ generic' = (generic \/ "generic" \notin enq)
    /\ Notify({"enqueued"})
    /\ enqueued' = TRUE /\ awaiting' = FALSE
    /\ Note(IF Swallowed(connected, FALSE, bits) THEN {"swallowed"} ELSE {})
    /\ data' = {} /\ pc' = "check"
    /\ UNCHANGED <<flags, connected, enq, prev, reg, left, back, link, boot, stored, failed,
                   active, tx, wanted, request, promised, events>>

-----------------------------------------------------------------------------
(* The task: its loop.                                                     *)

Check ==
    /\ pc = "check"
    /\ pc' = IF Ending THEN "clean" ELSE "wait"
    /\ UNCHANGED <<statics, locals, bits, link, calls, tx, outside>>

Wake ==
    /\ pc = "wait"
    /\ bits # {} \/ (connected /\ enqueued /\ ~awaiting)
    /\ data' = bits /\ bits' = {}
    /\ pc' = "turn"
    /\ UNCHANGED <<statics, enqueued, awaiting, left, back, link, calls, tx, outside>>

\* Five hours without a connection.
OfflineRestart == pc = "wait" /\ ~connected /\ Event /\ Restart

Quit ==
    /\ pc = "turn" /\ "quit" \in data
    /\ data' = data \ {"quit"}
    /\ left' = IF flags.cs /\ flags.graceful THEN MaxRetries ELSE 0
    /\ back' = "turn"
    /\ pc' = "stop"
    /\ UNCHANGED <<statics, enqueued, awaiting, bits, link, calls, tx, outside>>

\* Mutant of TransitionOnline: the mask from before is not restored.
TransitionOnlineMasked == connected' = TRUE /\ UNCHANGED <<enq, prev>>

TransitionOnline == connected' = TRUE /\ enq' = prev /\ UNCHANGED prev
TransitionOffline == connected' = FALSE /\ prev' = enq /\ enq' = {"generic", "tx"}

\* The rest of a turn up to the sending.
Events ==
    /\ pc = "turn" /\ "quit" \notin data
    /\ IF "changed" \in data /\ link = "up" /\ ~connected THEN TransitionOnline
       ELSE IF "changed" \in data /\ link # "up" /\ connected THEN TransitionOffline
       ELSE UNCHANGED <<connected, enq, prev>>
    /\ LET closed == "closed" \in data /\ flags.run
           others == bits \cup IF closed THEN {"quit"} ELSE {}
       IN /\ IF closed THEN Reconnect(TRUE) ELSE UNCHANGED <<flags, taken>>
          /\ IF "timeout" \in data THEN Fail(active.kind, others) /\ active' = NoCall
                                   ELSE bits' = others /\ UNCHANGED <<failed, stored, reg, active>>
    /\ awaiting' = (awaiting /\ data \cap {"matching", "timeout"} = {})
    /\ pc' = "send"
    /\ UNCHANGED <<snd, data, enqueued, left, back, link, boot, generic, tx,
                   wanted, request, promised, events>>

\* More problems than OCPP_PROBLEMS_COUNT_BEFORE_RETRY.
Problems ==
    /\ pc = "turn" /\ "quit" \notin data /\ Event
    /\ pc' = "clean"
    /\ UNCHANGED <<statics, locals, bits, link, calls, tx, wanted, request, promised, taken>>

Due == (enqueued \/ "enqueued" \in data) /\ ~awaiting

NothingToSend ==
    /\ pc = "send" /\ ~(Due /\ connected)
    /\ enqueued' = (enqueued \/ Due)
    /\ data' = {} /\ pc' = "check"
    /\ UNCHANGED <<statics, awaiting, left, back, bits, link, calls, tx, outside>>

Send ==
    /\ pc = "send" /\ Due /\ connected
    /\ \E kind \in Candidates :
          \/ SendNone(kind) /\ enqueued' = FALSE /\ UNCHANGED <<awaiting, connected, enq, prev>>
          \/ SendOut(kind) /\ enqueued' = TRUE /\ awaiting' = TRUE /\ UNCHANGED <<connected, enq, prev>>
          \/ /\ SendFails(kind) /\ enqueued' = TRUE /\ UNCHANGED awaiting
             /\ IF link # "up" THEN TransitionOffline ELSE UNCHANGED <<connected, enq, prev>>
    /\ data' = {} /\ pc' = "check"
    /\ UNCHANGED <<flags, snd, left, back, link, tx, outside>>
SendGivesUp ==
    /\ pc = "send" /\ Due /\ connected
    /\ GiveUp
    /\ UNCHANGED <<flags, connected, enq, snd, prev, pc, locals, link, tx, wanted, request, promised, taken>>

-----------------------------------------------------------------------------
(* The task: prepare_reset and the end.                                    *)

\* What its caller does with the result; "unmask" is whether it clears the masks.
Prepared(ok, unmask) ==
    /\ IF unmask THEN enq' = {} /\ snd' = {} ELSE UNCHANGED <<enq, snd>>
    /\ IF back = "clean" \/ ok \/ (left = 0 /\ ~flags.graceful)
       THEN /\ pc' = IF back = "clean" THEN "teardown" ELSE "clean"
            /\ UNCHANGED <<flags, left, promised, taken, generic, bits>>
       ELSE LET told == flags.cs /\ "generic" \notin enq'
            IN /\ generic' = (generic \/ told)
               /\ Notify(IF told THEN {"enqueued"} ELSE {})
               /\ IF left > 0
                  THEN /\ pc' = "stop" /\ left' = left - 1
                       /\ UNCHANGED <<flags, promised, taken>>
                  ELSE /\ flags' = FlagsFrom(TRUE)
                       /\ promised' = (promised /\ ~flags.cs)
                       /\ Note((IF Swallowed(connected, awaiting, data \cup bits) THEN {"swallowed"} ELSE {})
                               \cup (IF HalfSet THEN {"overtaken"} ELSE {}))
                       /\ pc' = "turn"
                       /\ UNCHANGED left

StopTransaction ==
    /\ pc = "stop"
    /\ CASE tx = "active" -> tx' = "stopping" /\ UNCHANGED <<enq, snd, pc>>
         [] tx = "none" -> enq' = Kinds /\ snd' = {"generic"} /\ pc' = "drain" /\ UNCHANGED tx
         [] OTHER -> FALSE
    /\ UNCHANGED <<flags, connected, prev, reg, locals, bits, link, calls, outside>>
StopTimesOut ==
    /\ pc = "stop" /\ tx = "stopping" /\ Event
    /\ Prepared(FALSE, FALSE)
    /\ UNCHANGED <<connected, prev, reg, data, enqueued, awaiting, back, link, boot, stored, failed,
                   active, tx, wanted, request>>

Drained ==
    /\ (pc = "drain" /\ Waiting = {}) \/ pc = "timeup"
    /\ Prepared(Waiting = {}, TRUE)
    /\ UNCHANGED <<connected, prev, reg, data, enqueued, awaiting, back, link, boot, stored, failed,
                   active, tx, wanted, request, events>>

Drain ==
    /\ pc = "drain" /\ Waiting # {} /\ link # "none"
    /\ \E kind \in Candidates : SendNone(kind) \/ SendOut(kind)
    /\ pc' = "result"
    /\ UNCHANGED <<flags, connected, enq, snd, prev, locals, link, tx, outside>>
DrainGivesUp ==
    /\ pc = "drain" /\ Waiting # {}
    /\ GiveUp
    /\ UNCHANGED <<flags, connected, enq, snd, prev, pc, locals, link, tx, wanted, request, promised, taken>>
\* handle_ocpp_call returns an error; the call may be one that is not allowed yet.
DrainFails ==
    /\ pc = "drain" /\ Waiting # {} /\ link # "none"
    /\ \E kind \in Candidates : SendFails(kind)
    /\ pc' = "erred"
    /\ UNCHANGED <<flags, connected, enq, snd, prev, locals, link, tx, outside>>
DrainFailed ==
    /\ pc = "erred"
    /\ Prepared(FALSE, TRUE)
    /\ UNCHANGED <<connected, prev, reg, data, enqueued, awaiting, back, link, boot, stored, failed,
                   active, tx, wanted, request, events>>
\* A queue that was never created: the kernel aborts the program.
DrainAborts == pc = "drain" /\ Waiting # {} /\ link = "none" /\ Restart /\ UNCHANGED events

\* The wait for a result takes every notification, and ends with one of three,
\* or with the time.
DrainWait ==
    /\ pc = "result"
    /\ bits' = {}
    /\ pc' \in IF bits = {} THEN {"timeup"}
               ELSE IF bits \cap {"matching", "timeout"} # {} THEN {"drain", "timeup"}
               ELSE {"result"}
    /\ UNCHANGED <<statics, locals, link, calls, tx, outside>>

Clean ==
    /\ pc = "clean"
    /\ back' = "clean" /\ left' = 0
    /\ data' = {} /\ enqueued' = FALSE /\ awaiting' = FALSE
    /\ pc' = "stop"
    /\ UNCHANGED <<statics, bits, link, calls, tx, outside>>

\* stop_ocpp, which waits for a callback of the websocket, with fail_all_queued
Teardown ==
    /\ pc = "teardown" /\ request["websocket"] = <<>>
    /\ link' = "none"
    /\ IF active.kind = "tx" \/ failed THEN FailTx ELSE UNCHANGED <<failed, stored>>
    /\ reg' = IF boot \/ active.kind = "boot" THEN "rejected" ELSE reg
    /\ boot' = FALSE /\ generic' = FALSE /\ active' = NoCall
    /\ enq' = {} /\ snd' = {}
    /\ bits' = {}
    /\ pc' = "flags"
    /\ UNCHANGED <<flags, connected, prev, locals, tx, outside>>

Flags ==
    /\ pc = "flags"
    /\ flags' = IF flags.reconnect
                THEN [flags EXCEPT !.run = TRUE, !.reboot = FALSE, !.reconnect = FALSE, !.cs = FALSE]
                ELSE flags
    /\ connected' = FALSE
    /\ pc' = IF flags'.run THEN "network" ELSE "exit"
    /\ Note(IF flags.reconnect THEN (IF HalfSet THEN {"overtaken"} ELSE {})
            ELSE IF wanted /\ HalfSet THEN {"gone"} ELSE {})
    /\ UNCHANGED <<enq, snd, prev, reg, locals, bits, link, calls, tx, wanted, request, promised, events>>

Exit ==
    /\ pc = "exit"
    /\ IF flags.reboot THEN Restart
       ELSE pc' = "none" /\ UNCHANGED <<statics, locals, bits, link, calls, tx, wanted, request, promised, taken>>
    /\ UNCHANGED events

-----------------------------------------------------------------------------
(* The session handler, the central system and the network.                *)

Begin ==
    /\ tx = "none" /\ stored + 2 <= MaxStored /\ Event
    /\ tx' = "active" /\ stored' = stored + 1
    /\ Notify({"enqueued"})
    /\ UNCHANGED <<statics, pc, locals, link, boot, generic, failed, active, wanted, request, promised, taken>>
Ended ==
    /\ tx = "stopping" /\ stored < MaxStored
    /\ tx' = "none" /\ stored' = stored + 1
    /\ Notify({"enqueued"})
    /\ UNCHANGED <<statics, pc, locals, link, boot, generic, failed, active, outside>>

\* Heartbeats and statuses, while the loop runs.
Generic ==
    /\ pc \in {"check", "wait", "turn", "send"} /\ ~generic /\ "generic" \notin enq /\ Event
    /\ generic' = TRUE
    /\ Notify({"enqueued"})
    /\ UNCHANGED <<statics, pc, locals, link, boot, stored, failed, active, tx, wanted, request, promised, taken>>

Answerable == Listening /\ Busy
Answer ==
    /\ Answerable
    /\ active' = NoCall
    /\ IF active.kind = "tx" THEN failed' = FALSE /\ stored' = stored - 1 ELSE UNCHANGED <<failed, stored>>
    /\ IF active.kind = "boot" THEN reg' = "accepted" /\ Notify({"matching", "registration"})
                          ELSE Notify({"matching"}) /\ UNCHANGED reg
    /\ UNCHANGED <<flags, connected, enq, snd, prev, pc, locals, link, boot, generic, tx, outside>>
\* A BootNotification that is not accepted, or an error in answer to another call.
Refuse ==
    /\ Answerable /\ Event
    /\ active' = NoCall
    /\ IF active.kind = "tx" THEN FailTx ELSE UNCHANGED <<failed, stored>>
    /\ IF active.kind = "boot" THEN reg' \in {"pending", "rejected"} /\ Notify({"matching", "registration"})
                          ELSE Notify({"matching"}) /\ UNCHANGED reg
    /\ UNCHANGED <<flags, connected, enq, snd, prev, pc, locals, link, boot, generic, tx,
                   wanted, request, promised, taken>>

\* message_timeout
Timeout ==
    /\ active.timer
    /\ IF link = "up" THEN Event ELSE UNCHANGED events
    /\ active' = [active EXCEPT !.timer = FALSE]
    /\ Notify({"timeout"})
    /\ UNCHANGED <<statics, pc, locals, link, boot, generic, stored, failed, tx, wanted, request, promised, taken>>

Drop ==
    /\ link = "up" /\ request["websocket"] = <<>> /\ Event
    /\ link' = "down" /\ Notify({"changed"})
    /\ UNCHANGED <<statics, pc, locals, calls, tx, wanted, request, promised, taken>>
Connect ==
    /\ link = "down" /\ request["websocket"] = <<>>
    /\ link' = "up" /\ Notify({"changed"})
    /\ UNCHANGED <<statics, pc, locals, calls, tx, outside>>
\* The central system closes the connection; the client does not open it again.
\* (That the task's notifications are configured a moment after the client has
\* connected for the first time is left out.)
Close ==
    /\ link = "up" /\ request["websocket"] = <<>> /\ Event
    /\ link' = "closed" /\ Notify({"changed", "closed"})
    /\ UNCHANGED <<statics, pc, locals, calls, tx, wanted, request, promised, taken>>

-----------------------------------------------------------------------------
Init ==
    /\ flags = FlagsFrom(TRUE)
    /\ pc = "network"
    /\ data = {} /\ enqueued = FALSE /\ awaiting = FALSE /\ left = 0 /\ back = "clean"
    /\ bits = {} /\ connected = FALSE /\ link = "none"
    /\ enq = {} /\ snd = {} /\ prev = {} /\ reg = "rejected"
    /\ boot = FALSE /\ generic = FALSE /\ active = NoCall
    /\ stored \in {0, MaxStored} /\ failed = FALSE /\ tx = "none"
    /\ wanted = TRUE /\ request = NoRequest /\ promised = FALSE /\ taken = {} /\ events = 0

Task ==
    \/ Network \/ Open \/ Opened \/ AwaitWake \/ AwaitSend \/ Registered \/ RegisterAgain \/ Enter
    \/ Check \/ Wake \/ Quit \/ Events \/ NothingToSend \/ Send \/ SendGivesUp
    \/ StopTransaction \/ Drained \/ Drain \/ DrainGivesUp \/ DrainFails \/ DrainFailed \/ DrainAborts
    \/ DrainWait \/ Clean \/ Teardown \/ Flags \/ Exit

Next ==
    \/ Task \/ OpenFails \/ RegisterFails \/ OfflineRestart \/ Problems \/ StopTimesOut
    \/ \E soft \in BOOLEAN : Reset(soft)
    \/ Reconfigure \/ ChooseOther \/ ChooseOcpp \/ \E task \in DOMAIN request : Write(task)
    \/ Begin \/ Ended \/ Generic \/ Answer \/ Refuse \/ Timeout \/ Drop \/ Connect \/ Close

Fairness ==
    /\ WF_vars(Task) /\ WF_vars(Write("websocket")) /\ WF_vars(Write("portal"))
    /\ WF_vars(Ended) /\ WF_vars(Answer) /\ WF_vars(Timeout) /\ WF_vars(Connect)
Spec == Init /\ [][Next]_vars
FairSpec == Spec /\ Fairness

-----------------------------------------------------------------------------
(* Properties.                                                             *)

TypeOK ==
    /\ flags \in [{"run", "reboot", "reconnect", "graceful", "cs"} -> BOOLEAN]
    /\ stored \in 0 .. MaxStored
    /\ taken \subseteq Risks

\* A Reset that was accepted restarts the charger, or is given up after all
\* its attempts, unless a request to end overtakes it.
ResetDone == []<>(~promised \/ "overtaken" \in taken)

\* When the portal chooses another controller, the task ends, unless its request
\* meets another or the portal changes its mind as the task ends.
EndObeyed == []<>(wanted \/ pc = "none" \/ taken \cap {"overtaken", "gone"} # {})

\* Every accepted request to end the task is carried through, from wherever the
\* task is: without a network, unregistered, waiting, sending or offline.
Obeyed == ResetDone /\ EndObeyed

\* The loop waits for events, connected and registered, nothing masked, and for
\* no answer that cannot come.
Serving ==
    /\ pc = "wait" /\ connected /\ link = "up" /\ reg = "accepted"
    /\ enq = {} /\ snd = {}
    /\ awaiting => Busy \/ bits \cap {"matching", "timeout"} # {}

\* While the portal wants OCPP, the task always comes to serve it again: after
\* drops, a closed connection, refusals, failed resets and restarts, with no
\* mask left behind, unless a coincidence has cost it a flag or a notification.
InService == []<>(Serving \/ ~wanted \/ taken # {})
=============================================================================
