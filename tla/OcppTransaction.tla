-------------------------- MODULE OcppTransaction --------------------------
(***************************************************************************)
(* The storage of OCPP transaction messages                                *)
(* (components/ocpp/ocpp_transaction.c).                                   *)
(*                                                                         *)
(* A transaction has a file with a header, its start, its stored meter     *)
(* values and its stop; meter values of a transaction with a known id may  *)
(* go through a queue in RAM instead, whose enqueue times are kept in a    *)
(* ring beside it.  The oldest message of the two is sent next.            *)
(*                                                                         *)
(* Each operation here is one call made under file_lock.  Who calls them,  *)
(* and when, is left to the modules that extend this one.                  *)
(*                                                                         *)
(* Time is the number of messages made so far: a message is identified by  *)
(* the number it got, and a transaction by the number of its start.        *)
(* Meter values inside a stop message are part of it.                      *)
(***************************************************************************)
EXTENDS Integers, Sequences, FiniteSets, FiniteSetsExt

CONSTANTS
    MaxFiles,   \* CONFIG_OCPP_MAX_TRANSACTION_FILES
    MaxMeters,  \* CONFIG_OCPP_MAX_TRANSACTION_FILE_SIZE in meter values
    QueueCap,   \* CONFIG_OCPP_MAX_TRANSACTION_QUEUE_SIZE
    CacheSize,  \* OLDEST_CACH_SIZE
    MaxNo       \* bound: the number of messages made

ASSUME OcppTransactionAssumption ==
    /\ MaxFiles \in Nat \ {0}
    /\ MaxMeters \in Nat
    /\ QueueCap \in Nat \ {0}
    /\ CacheSize \in Nat \ {0}
    /\ MaxNo \in Nat

VARIABLES
    files,          \* the transaction files by entry number
    known,          \* known_message_count, negative when not known
    oldest,         \* oldest_known_entries
    loaded,         \* the loaded_transaction_* variables
    queue,          \* ocpp_transaction_call_queue
    ring,           \* txn_enqueue_timestamps
    last_from_file, \* whether the last message handed out came from a file
    clock           \* the number of messages made

store == <<files, known, oldest, loaded, queue, ring, last_from_file, clock>>

-----------------------------------------------------------------------------
(* Files and messages.                                                     *)

Entry == 0 .. MaxFiles - 1
NoEntry == -1
Never == MaxNo + 1  \* LONG_MAX
UnknownId == -1

\* confirmed_offset: the start, the i-th meter value, or the stop is next.
AtStart == 0
AtMeter(i) == i
AtStop == -1

NoFile == [start |-> 0, active |-> FALSE, id |-> UnknownId, await |-> 0,
           conf |-> AtStart, meters |-> <<>>, stop |-> 0]

Exists(e) == files[e].start # 0

Call(kind, tx, no, id) == [kind |-> kind, tx |-> tx, no |-> no, id |-> id]
NoCall == Call("none", 0, 0, UnknownId)

\* What load_next_transaction_message makes of the confirmed offset of a file.
NextKind(f) ==
    IF f.await = 0 THEN "none"
    ELSE IF f.conf = AtStart THEN "start"
    ELSE IF f.conf # AtStop /\ f.conf <= Len(f.meters) THEN "meter"
    ELSE IF ~f.active THEN "stop"
    ELSE "none"

NextNo(f) == CASE NextKind(f) = "start" -> f.start
               [] NextKind(f) = "meter" -> f.meters[f.conf]
               [] NextKind(f) = "stop" -> f.stop
               [] OTHER -> Never

-----------------------------------------------------------------------------
(* known_message_count and the count in each header.                       *)

\* The new count of write_header, for a change of n messages.
Await(f, n) == IF f.await + n < 0 THEN 0 ELSE f.await + n

\* known_message_count after it.
Known(f, n) ==
    IF f.await + n < 0 THEN -1 ELSE IF known >= 0 THEN known + n ELSE known

\* The sum of the counts in the headers of fs.
Stored(fs) == MapThenSumSet(LAMBDA e : fs[e].await, Entry)

StoredCount == Stored(files)

MessageCount == IF known >= 0 THEN known ELSE StoredCount + Len(queue)

-----------------------------------------------------------------------------
(* The times at which the queued messages were enqueued.                   *)

EmptyRing == [front |-> -1, back |-> -1, emptying |-> TRUE,
              times |-> [i \in 0 .. QueueCap - 1 |-> 0]]

After(i) == IF i + 1 >= QueueCap THEN 0 ELSE i + 1

SetTime(r, t) == [r EXCEPT !.emptying = FALSE, !.back = After(@),
                           !.times[After(r.back)] = t]

GetTime(r) == [r EXCEPT !.emptying = TRUE, !.front = After(@)]

\* Mutant of PeekTime: a full ring is taken for an empty one.
PeekTimeNoFlag(r) == IF r.front = r.back THEN Never ELSE r.times[After(r.front)]

PeekTime(r) == IF r.front = r.back /\ r.emptying THEN Never
               ELSE r.times[After(r.front)]

-----------------------------------------------------------------------------
(* The oldest file, from the cache while it names a file that exists.      *)

Cached(e) == [entry |-> e, time |-> files[e].start]

\* populate_oldest over the directory.
Populated ==
    LET all == {Cached(e) : e \in {x \in Entry : Exists(x)}}
    IN {c \in all : Cardinality({d \in all : d.time < c.time}) < CacheSize}

\* The cache without the entries before the first that has a file.
Kept == {c \in oldest : \E d \in oldest : Exists(d.entry) /\ d.time <= c.time}

OldestKnown == IF Kept # {} THEN Kept ELSE Populated

OldestEntry == (CHOOSE c \in OldestKnown : \A d \in OldestKnown : c.time <= d.time).entry

\* loaded_transaction_reset keeps the kind and the offset last loaded.
Unloaded(e) == [loaded EXCEPT !.data = FALSE, !.entry = e, !.time = Never]

NothingLoaded == [data |-> FALSE, entry |-> NoEntry, time |-> Never,
                  call |-> NoCall, next |-> AtStart]

\* load_next_transaction_message, with nothing loaded.
LoadNext ==
    LET e == OldestEntry
        f == files[e]
    IN IF OldestKnown = {} THEN Unloaded(NoEntry)
       ELSE IF NextKind(f) = "none" THEN Unloaded(e)
       ELSE [data |-> TRUE, entry |-> e, time |-> NextNo(f),
             call |-> Call(NextKind(f), f.start, NextNo(f), f.id),
             next |-> f.conf + 1]

Loaded == IF loaded.data THEN loaded ELSE LoadNext

-----------------------------------------------------------------------------
(* Taking the next message, and confirming it.                             *)

FromFile == Loaded.time < PeekTime(ring)

\* The message ocpp_transaction_get_next_message hands out.
NextCall == IF FromFile THEN Loaded.call
            ELSE IF queue # <<>> THEN Head(queue)
            ELSE NoCall

GetNextMessage ==
    /\ loaded' = Loaded
    /\ oldest' = IF loaded.data THEN oldest ELSE OldestKnown
    /\ IF FromFile
       THEN last_from_file' = TRUE /\ UNCHANGED <<known, queue, ring>>
       ELSE IF queue # <<>>
       THEN /\ last_from_file' = FALSE
            /\ queue' = Tail(queue)
            /\ known' = known - 1
            /\ ring' = GetTime(ring)
       ELSE known' = -1 /\ UNCHANGED <<queue, ring, last_from_file>>
    /\ UNCHANGED <<files, clock>>

\* Mutant of Confirmed: the offset moves past the next meter value.
ConfirmedSkips(f) ==
    CASE loaded.call.kind = "stop" -> NoFile
      [] loaded.call.kind = "start" -> [f EXCEPT !.conf = AtMeter(1), !.await = Await(f, -1)]
      [] OTHER -> [f EXCEPT !.conf = loaded.next + 1, !.await = Await(f, -1)]

\* The file once the loaded message is confirmed.
Confirmed(f) ==
    CASE loaded.call.kind = "stop" -> NoFile
      [] loaded.call.kind = "start" -> [f EXCEPT !.conf = AtMeter(1), !.await = Await(f, -1)]
      [] OTHER -> [f EXCEPT !.conf = loaded.next, !.await = Await(f, -1)]

\* ocpp_transaction_confirm_last: the message handed out last is done with.
ConfirmLast ==
    /\ IF last_from_file /\ loaded.entry # NoEntry
       THEN LET f == files[loaded.entry]
            IN /\ loaded' = [loaded EXCEPT !.data = FALSE]
               /\ IF f = NoFile
                  THEN UNCHANGED <<files, known>>
                  ELSE /\ files' = [files EXCEPT ![loaded.entry] = Confirmed(f)]
                       /\ known' = IF loaded.call.kind = "stop"
                                   THEN IF known >= 0 THEN known - 1 ELSE known
                                   ELSE Known(f, -1)
       ELSE UNCHANGED <<files, known, loaded>>
    /\ UNCHANGED <<oldest, queue, ring, last_from_file, clock>>

\* Mutant of GivenUp: the meter values removed still count.
GivenUpKeepsCount(f) ==
    IF f.conf = AtStart THEN [f EXCEPT !.id = UnknownId, !.conf = AtMeter(1), !.await = Await(f, -1)]
    ELSE IF f.conf = AtStop THEN NoFile
    ELSE IF f.active THEN [f EXCEPT !.conf = AtMeter(1), !.meters = <<>>]
    ELSE [f EXCEPT !.conf = AtStop, !.await = 1]

\* fail_loaded_transaction: the file once its next message has been given up.
GivenUp(f) ==
    IF f.conf = AtStart THEN [f EXCEPT !.id = UnknownId, !.conf = AtMeter(1), !.await = Await(f, -1)]
    ELSE IF f.conf = AtStop THEN NoFile
    ELSE IF f.active THEN [f EXCEPT !.conf = AtMeter(1), !.await = 0, !.meters = <<>>]
    ELSE [f EXCEPT !.conf = AtStop, !.await = 1]

\* ocpp_transaction_get_next_message when the message cannot be built.
GetNextFails ==
    /\ FromFile
    /\ files' = [files EXCEPT ![Loaded.entry] = GivenUp(@)]
    /\ known' = -1
    /\ loaded' = [Loaded EXCEPT !.data = FALSE, !.entry = NoEntry]
    /\ oldest' = IF loaded.data THEN oldest ELSE OldestKnown
    /\ UNCHANGED <<queue, ring, last_from_file, clock>>

-----------------------------------------------------------------------------
(* Storing a start, a meter value, a stop and the id of the transaction.   *)

Active == {e \in Entry : files[e].active}
ActiveEntry == IF Active = {} THEN NoEntry ELSE CHOOSE e \in Active : TRUE

Vacant == {e \in Entry : ~Exists(e)}
VacantEntry == IF Vacant = {} THEN NoEntry
               ELSE CHOOSE e \in Vacant : \A d \in Vacant : e <= d

\* Mutant of Stopped: the transaction stays active.
StoppedStillActive(f, no) == [f EXCEPT !.stop = no, !.await = Await(f, 1)]

Stopped(f, no) == [f EXCEPT !.active = FALSE, !.stop = no, !.await = Await(f, 1)]

\* The files once the active one, if any, has got a stop.
StopActive(no) ==
    IF Active = {} THEN files ELSE [files EXCEPT ![ActiveEntry] = Stopped(@, no)]

KnownAfterStop == IF Active = {} THEN known ELSE Known(files[ActiveEntry], 1)

\* ocpp_transaction_enqueue_stop
EnqueueStop ==
    /\ clock' = clock + 1
    /\ files' = StopActive(clock')
    /\ known' = KnownAfterStop
    /\ UNCHANGED <<oldest, loaded, queue, ring, last_from_file>>

Started(no) == [NoFile EXCEPT !.start = no, !.active = TRUE, !.await = 1]

\* ocpp_transaction_enqueue_start: a transaction still active is stopped first.
EnqueueStart ==
    /\ clock' = IF Active = {} THEN clock + 1 ELSE clock + 2
    /\ LET stopped == StopActive(clock + 1)
       IN IF Vacant = {}
          THEN files' = stopped /\ known' = KnownAfterStop
          ELSE files' = [stopped EXCEPT ![VacantEntry] = Started(clock')] /\ known' = -1
    /\ UNCHANGED <<oldest, loaded, queue, ring, last_from_file>>

\* ocpp_transaction_queue_send
QueueSend(tx, id) ==
    /\ Len(queue) < QueueCap
    /\ clock' = clock + 1
    /\ queue' = Append(queue, Call("meter", tx, clock', id))
    /\ ring' = SetTime(ring, clock')
    /\ known' = known + 1
    /\ UNCHANGED <<files, oldest, loaded, last_from_file>>

\* ocpp_transaction_write_meter_value, with room in the active file.
WriteMeterValue ==
    /\ Active # {}
    /\ Len(files[ActiveEntry].meters) < MaxMeters
    /\ clock' = clock + 1
    /\ LET f == files[ActiveEntry]
       IN files' = [files EXCEPT ![ActiveEntry] =
                       [f EXCEPT !.meters = Append(@, clock'), !.await = Await(f, 1)]]
    /\ known' = Known(files[ActiveEntry], 1)
    /\ UNCHANGED <<oldest, loaded, queue, ring, last_from_file>>

\* Mutant of SetRealId: the id goes to the active transaction.
SetRealIdActive(e, id) ==
    /\ files' = IF Active # {} THEN [files EXCEPT ![ActiveEntry].id = id] ELSE files
    /\ UNCHANGED <<known, oldest, loaded, queue, ring, last_from_file, clock>>

\* ocpp_transaction_set_real_id
SetRealId(e, id) ==
    /\ files' = IF Exists(e) THEN [files EXCEPT ![e].id = id] ELSE files
    /\ UNCHANGED <<known, oldest, loaded, queue, ring, last_from_file, clock>>

\* ocpp_transaction_message_count
CountMessages ==
    /\ known' = MessageCount
    /\ UNCHANGED <<files, oldest, loaded, queue, ring, last_from_file, clock>>

\* ocpp_transaction_clear_all: the cache and the ring are left as they are.
ClearAll ==
    /\ files' = [e \in Entry |-> NoFile]
    /\ queue' = <<>>
    /\ loaded' = Unloaded(NoEntry)
    /\ known' = -1
    /\ UNCHANGED <<oldest, ring, last_from_file, clock>>

\* What the RAM holds after a restart; the files are kept.
Booted ==
    /\ known' = -1
    /\ oldest' = {}
    /\ loaded' = NothingLoaded
    /\ queue' = <<>>
    /\ ring' = EmptyRing
    /\ last_from_file' = FALSE
    /\ UNCHANGED <<files, clock>>

StoreInit ==
    /\ files = [e \in Entry |-> NoFile]
    /\ known = -1
    /\ oldest = {}
    /\ loaded = NothingLoaded
    /\ queue = <<>>
    /\ ring = EmptyRing
    /\ last_from_file = FALSE
    /\ clock = 0

-----------------------------------------------------------------------------
(* The messages the storage still holds.                                   *)

FirstMeter(f) == IF f.conf = AtStart THEN 1
                 ELSE IF f.conf = AtStop THEN Len(f.meters) + 1 ELSE f.conf

PendingIn(f) ==
    {<<"start", f.start>> : x \in {y \in {f} : y.start # 0 /\ y.conf = AtStart}}
    \cup {<<"meter", f.meters[i]>> : i \in FirstMeter(f) .. Len(f.meters)}
    \cup {<<"stop", f.stop>> : x \in {y \in {f} : y.stop # 0}}

Message(c) == <<c.kind, c.no>>

Pending == UNION {PendingIn(files[e]) : e \in Entry}
Queued == {<<"meter", queue[i].no>> : i \in 1 .. Len(queue)}

-----------------------------------------------------------------------------
(* The shape of calls and files.                                           *)

Kind == {"none", "start", "meter", "stop"}
Id == Nat \cup {UnknownId}
CallType == [kind : Kind, tx : Nat, no : Nat \cup {Never}, id : Id]
Offset == Nat \cup {AtStop}
FileType == [start : Nat, active : BOOLEAN, id : Id, await : Nat, conf : Offset,
             meters : Seq(Nat), stop : Nat]
=============================================================================
