--------------------------- MODULE BlockedPublish ---------------------------
(***************************************************************************)
(* publish_iothub_event_blocked of cloud_listener.c: a task publishes a    *)
(* message to the cloud and waits until the MQTT task has seen the         *)
(* acknowledgement, or for a time.  Two tasks publish like this, one at a  *)
(* time behind blocked_publish_mutex.                                      *)
(*                                                                         *)
(* A task that could not take the mutex in time still gives it, which the  *)
(* kernel answers by aborting the program: that is a restart, which the    *)
(* modules that use this one have at any moment.                           *)
(***************************************************************************)
EXTENDS Naturals, Sequences, FiniteSets

CONSTANTS
    Publishers,     \* the tasks that publish and wait
    MaxOutbox,      \* how many messages esp_mqtt keeps unacknowledged
    Coincidences    \* the coincidences below that the run lets happen

\* "lateack": the wait times out while the MQTT task handles the acknowledgement.
\* The others are those of the modules that extend this one.
ASSUME BlockedPublishAssumption ==
    /\ MaxOutbox \in Nat \ {0}
    /\ "nobody" \notin Publishers
    /\ Coincidences \subseteq {"lateack", "stale", "torn", "lateid", "delete"}

VARIABLES
    mutex,      \* who holds blocked_publish_mutex
    blocked,    \* blocked_message
    bits,       \* blocked_publish_event_group
    call,       \* the call of each task: where it is and what it publishes
    outbox,     \* the messages esp_mqtt has not had acknowledged, oldest first
    handling,   \* the acknowledgement that MQTT_EVENT_PUBLISHED has let pass
    online,     \* the connection to the cloud
    got         \* the messages the cloud has

publish == <<mutex, blocked, bits, call, outbox, handling, online, got>>

NoCall == [at |-> "none", msg |-> <<>>]
InUse == {outbox[i].id : i \in DOMAIN outbox} \cup {blocked, handling}
NewId == CHOOSE n \in 1 .. Cardinality(InUse) + 1 :
            n \notin InUse /\ \A k \in 1 .. n - 1 : k \in InUse

PublishInit ==
    /\ mutex = "nobody" /\ blocked = 0 /\ bits = {}
    /\ call = [t \in Publishers |-> NoCall]
    /\ outbox = <<>> /\ handling = 0
    /\ online = TRUE
    /\ got = {}

\* What a restart leaves: the cloud and the network.
PublishRestart ==
    /\ mutex' = "nobody" /\ blocked' = 0 /\ bits' = {}
    /\ call' = [t \in Publishers |-> NoCall]
    /\ outbox' = <<>> /\ handling' = 0
    /\ UNCHANGED <<online, got>>

-----------------------------------------------------------------------------
(* The caller's side.                                                      *)

Call(t, m) == call' = [call EXCEPT ![t] = [at |-> "take", msg |-> m]]
Return(t, how) == call' = [call EXCEPT ![t].at = how]
Returned(t, how) == call[t].at = how
Done(t) == call' = [call EXCEPT ![t] = NoCall]

\* The message is handed to esp_mqtt, also without a connection.
Publish(t) ==
    /\ call[t].at = "take" /\ mutex = "nobody"
    /\ IF Len(outbox) < MaxOutbox
       THEN /\ outbox' = Append(outbox, [id |-> NewId, msg |-> call[t].msg])
            /\ blocked' = NewId
            /\ bits' = bits \cup {"queued"}
            /\ mutex' = t
            /\ Return(t, "wait")
       ELSE /\ Return(t, "failed")
            /\ UNCHANGED <<outbox, blocked, bits, mutex>>
    /\ UNCHANGED <<handling, online, got>>

\* Mutant of Leave: the bit is not cleared when the wait ends.
LeaveSet(t, how) ==
    /\ bits' = bits \ {"queued"}
    /\ mutex' = "nobody"
    /\ Return(t, how)
    /\ UNCHANGED <<outbox, blocked, handling, online, got>>

\* A wait that ended by the bit clears it.
Leave(t, how) ==
    /\ bits' = bits \ (IF how = "ok" THEN {"queued", "published"} ELSE {"queued"})
    /\ mutex' = "nobody"
    /\ Return(t, how)
    /\ UNCHANGED <<outbox, blocked, handling, online, got>>

WakeUp(t) == call[t].at = "wait" /\ "published" \in bits /\ Leave(t, "ok")

\* A broker that can be reached answers a message in time, or just not.
TimeOut(t) ==
    /\ call[t].at = "wait" /\ "published" \notin bits
    /\ online => \A i \in DOMAIN outbox : outbox[i].id # blocked
    /\ Leave(t, "failed")

-----------------------------------------------------------------------------
(* The MQTT task and the network.                                          *)

\* The broker has the message and its acknowledgement arrives.
Acknowledge ==
    /\ online /\ outbox # <<>> /\ handling = 0
    /\ got' = got \cup {Head(outbox).msg}
    /\ outbox' = Tail(outbox)
    /\ IF "queued" \in bits /\ Head(outbox).id = blocked
       THEN IF "lateack" \in Coincidences
            THEN handling' = blocked /\ UNCHANGED bits
            ELSE bits' = bits \cup {"published"} /\ UNCHANGED handling
       ELSE UNCHANGED <<bits, handling>>
    /\ UNCHANGED <<mutex, blocked, call, online>>

SetPublished ==
    /\ handling # 0
    /\ bits' = bits \cup {"published"}
    /\ handling' = 0
    /\ UNCHANGED <<mutex, blocked, call, outbox, online, got>>

\* A message that is not acknowledged for too long leaves the outbox.
Expire ==
    /\ ~online /\ outbox # <<>>
    /\ outbox' = Tail(outbox)
    /\ UNCHANGED <<mutex, blocked, bits, call, handling, online, got>>

GoOffline == online /\ online' = FALSE /\ UNCHANGED <<mutex, blocked, bits, call, outbox, handling, got>>
GoOnline == ~online /\ online' = TRUE /\ UNCHANGED <<mutex, blocked, bits, call, outbox, handling, got>>

-----------------------------------------------------------------------------
\* A publication that is reported to the caller as done has reached the cloud.
ReportedIsThere == \A t \in Publishers : call[t].at = "ok" => call[t].msg \in got
=============================================================================
