----------------------------- MODULE OcppStore -----------------------------
(***************************************************************************)
(* The storage of OCPP transaction messages and the two tasks that use it, *)
(* one call at a time: the session task, which starts, samples and stops   *)
(* transactions (main/sessionHandler.c), and the OCPP task, which takes    *)
(* one message, has it answered and takes the next.                        *)
(***************************************************************************)
EXTENDS OcppTransaction

CONSTANTS
    Faults,     \* "convert": a stored message cannot be made into a request
    Risks       \* the situations below that the run lets happen

\* "uncounted": a meter value is queued before the messages were counted.
\* "reuse": a start takes the number of a removed file that is still cached.
\* "clear": the stored transactions are cleared by a cloud command.
\* "crash": a restart comes between the confirmation and its callback.
RiskKinds == {"uncounted", "reuse", "clear", "crash"}

ASSUME OcppStoreAssumption ==
    /\ Faults \subseteq {"convert"}
    /\ Risks \subseteq RiskKinds

VARIABLES
    session,    \* transaction_id and transaction_id_is_valid
    call,       \* the message handed out and not yet answered
    answered,   \* the start whose result callback is still to run
    owed,       \* the messages accepted for delivery and not yet settled
    assigned    \* the transactions the central system has given an id

vars == <<store, session, call, answered, owed, assigned>>

NoSession == [on |-> FALSE, tx |-> 0, entry |-> NoEntry, id |-> UnknownId, valid |-> FALSE]
NoAnswer == [entry |-> NoEntry, tx |-> 0]

-----------------------------------------------------------------------------
(* The session task.                                                       *)

\* start_transaction: the entry stands in for the id until it is known.
StartTransaction ==
    /\ ~session.on
    /\ clock + 1 < MaxNo
    /\ "reuse" \in Risks \/ \A c \in oldest : c.entry # VacantEntry
    /\ EnqueueStart
    /\ session' = IF Vacant = {} THEN [NoSession EXCEPT !.on = TRUE]
                  ELSE [NoSession EXCEPT !.on = TRUE, !.tx = clock', !.entry = VacantEntry]
    /\ owed' = owed \cup (IF Vacant = {} THEN {} ELSE {<<"start", clock'>>})
                    \cup (IF Active = {} THEN {} ELSE {<<"stop", clock + 1>>})
    /\ UNCHANGED <<call, answered, assigned>>

\* A meter value: through the queue when the id is known and the charger is
\* online (here: either way), else to the file if it has room.
SampleQueued ==
    /\ session.on /\ session.valid
    /\ clock < MaxNo
    /\ "uncounted" \in Risks \/ known >= 0
    /\ QueueSend(session.tx, session.id)
    /\ owed' = owed \cup {<<"meter", clock'>>}
    /\ UNCHANGED <<session, call, answered, assigned>>

SampleStored ==
    /\ session.on
    /\ clock < MaxNo
    /\ WriteMeterValue
    /\ owed' = owed \cup {<<"meter", clock'>>}
    /\ UNCHANGED <<session, call, answered, assigned>>

\* stop_transaction
StopTransaction ==
    /\ session.on
    /\ clock < MaxNo
    /\ EnqueueStop
    /\ session' = NoSession
    /\ owed' = IF Active = {} THEN owed ELSE owed \cup {<<"stop", clock'>>}
    /\ UNCHANGED <<call, answered, assigned>>

-----------------------------------------------------------------------------
(* The OCPP task.                                                          *)

Ready == call = NoCall /\ answered = NoAnswer

TakeMessage ==
    /\ Ready
    /\ GetNextMessage
    /\ call' = NextCall
    /\ UNCHANGED <<session, answered, owed, assigned>>

TakeFails ==
    /\ Ready
    /\ "convert" \in Faults
    /\ GetNextFails
    /\ owed' = owed \cap (Pending' \cup Queued')
    /\ UNCHANGED <<session, call, answered, assigned>>

\* A result has come: the message is confirmed before its callback runs.
Accepted ==
    /\ call # NoCall
    /\ ConfirmLast
    /\ call' = NoCall
    /\ owed' = owed \ {Message(call)}
    /\ answered' = IF call.kind = "start" /\ loaded.data
                   THEN [entry |-> loaded.entry, tx |-> call.tx] ELSE NoAnswer
    /\ assigned' = IF call.kind = "start" THEN assigned \cup {call.tx} ELSE assigned
    /\ UNCHANGED session

\* start_transaction_response_cb: nothing is learnt once the session is over.
LearnId ==
    /\ answered # NoAnswer
    /\ answered' = NoAnswer
    /\ IF session.on
       THEN /\ SetRealId(answered.entry, answered.tx)
            /\ session' = IF session.id = UnknownId /\ ~session.valid
                                /\ session.entry = answered.entry
                          THEN [session EXCEPT !.id = answered.tx, !.valid = TRUE]
                          ELSE session
       ELSE UNCHANGED <<store, session>>
    /\ UNCHANGED <<call, owed, assigned>>

\* The last attempt has failed; start_transaction_error_cb settles for -1.
Rejected ==
    /\ call # NoCall
    /\ ConfirmLast
    /\ call' = NoCall
    /\ owed' = owed \ {Message(call)}
    /\ session' = IF call.kind = "start" /\ session.on /\ session.entry = loaded.entry
                        /\ ~session.valid
                  THEN [session EXCEPT !.valid = TRUE] ELSE session
    /\ UNCHANGED <<answered, assigned>>

Count ==
    /\ known < 0
    /\ CountMessages
    /\ UNCHANGED <<session, call, answered, owed, assigned>>

-----------------------------------------------------------------------------
(* Events around the two tasks.                                            *)

\* "clear ocpp transactions", from the cloud.
Clear ==
    /\ "clear" \in Risks
    /\ ClearAll
    /\ owed' = {}
    /\ UNCHANGED <<session, call, answered, assigned>>

\* The session a restart finds on file: ocpp_transaction_load_into_session.
Restored ==
    IF Active = {} THEN NoSession
    ELSE LET f == files[ActiveEntry]
         IN [on |-> TRUE, tx |-> f.start, entry |-> NoEntry, id |-> f.id,
             valid |-> f.conf # AtStart]

\* A restart: meter values in RAM are gone, what is on file is not.
Restart ==
    /\ "crash" \in Risks \/ answered = NoAnswer
    /\ Booted
    /\ session' = Restored
    /\ call' = NoCall
    /\ answered' = NoAnswer
    /\ owed' = {m \in owed : m[1] # "meter" \/ m \in Pending}
    /\ UNCHANGED assigned

-----------------------------------------------------------------------------
Init ==
    /\ StoreInit
    /\ session = NoSession
    /\ call = NoCall
    /\ answered = NoAnswer
    /\ owed = {}
    /\ assigned = {}

Next ==
    \/ StartTransaction \/ SampleQueued \/ SampleStored \/ StopTransaction
    \/ TakeMessage \/ TakeFails \/ Accepted \/ LearnId \/ Rejected \/ Count
    \/ Clear \/ Restart

Spec == Init /\ [][Next]_vars

-----------------------------------------------------------------------------
(* Properties.                                                             *)

\* The shape of the state: the files, the RAM of the storage and its client.
TypeOK ==
    /\ files \in [Entry -> FileType]
    /\ known \in Int
    /\ oldest \subseteq [entry : Entry, time : Nat]
    /\ loaded \in [data : BOOLEAN, entry : Entry \cup {NoEntry}, time : Nat,
                   call : CallType, next : Nat]
    /\ queue \in Seq(CallType)
    /\ ring \in [front : -1 .. QueueCap - 1, back : -1 .. QueueCap - 1, emptying : BOOLEAN,
                 times : [0 .. QueueCap - 1 -> Nat]]
    /\ last_from_file \in BOOLEAN
    /\ clock \in Nat
    /\ session \in [on : BOOLEAN, tx : Nat, entry : Entry \cup {NoEntry}, id : Id,
                    valid : BOOLEAN]
    /\ call \in CallType
    /\ answered \in [entry : Entry \cup {NoEntry}, tx : Nat]
    /\ owed \subseteq {"start", "meter", "stop"} \X Nat
    /\ assigned \subseteq Nat

\* Every message accepted and not yet settled is still stored, queued or out
\* for an answer, whatever is confirmed, given up or restarted meanwhile.
NothingLost == \A m \in owed : m \in Pending \cup Queued \cup {Message(call)}

\* A message handed out is owed and the oldest one owed: messages go out in
\* chronological order although they come from files and from the queue, and
\* none is handed out again once it is settled.
InOrder ==
    call # NoCall => /\ Message(call) \in owed
                     /\ \A m \in owed : call.no <= m[2]

\* The count in each file's header is the number of messages waiting in it: the
\* loader skips a file whose count is zero, so a miscount loses the rest.
AwaitRight == \A e \in Entry : files[e].await = Cardinality(PendingIn(files[e]))

\* Once known, the number of messages is the number in the files and the queue.
CountRight == known >= 0 => known = StoredCount + Len(queue)

\* While anything is stored or queued, the next message can be found.
NextFound == Ready /\ Pending \cup Queued # {} => NextCall # NoCall

\* A message never carries the id of another transaction.
OwnId == call # NoCall => call.id \in {UnknownId, call.tx}

\* There is at most one active file, as find_active_entry takes for granted,
\* and it is the session's.
OneActive == \A e \in Active : session.on /\ files[e].start = session.tx

\* A stop carries the id the central system gave its transaction.
StopHasId == call.kind = "stop" /\ call.tx \in assigned => call.id = call.tx

\* A session has a valid id only if that is the id from StartTransaction.conf.
ValidIsReal == session.valid /\ session.tx \in assigned => session.id = session.tx
=============================================================================
