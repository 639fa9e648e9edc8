------------------------------ MODULE McuProofs ------------------------------
(***************************************************************************)
(* Proofs about the MCU: about McuProtocol, for any tasks, requests and    *)
(* polled parameters, any line and any number of restarts; and about       *)
(* FirmwareUpdate, for any images, sizes, numbers of lines and attempts,   *)
(* and any number of restarts, lost messages and commands.                 *)
(***************************************************************************)
EXTENDS McuProtocol, FirmwareUpdate, TLAPS

-----------------------------------------------------------------------------
(* The protocol.                                                           *)

Acks == {"readAck", "writeAck", "commandAck"}
RequestKinds == {"read", "write", "command"}
MessageOf(K) == [type : K, id : Nat, from : Tasks, late : BOOLEAN]
Reply == MessageOf(Acks)
Request == MessageOf(RequestKinds)

TypeInv ==
    /\ lock \in Tasks \cup {Nobody}
    /\ slot \in Seq(Reply) /\ hand \in Seq(Reply) /\ rx \in Seq(Reply) /\ tx \in Seq(Request)
    /\ pc \in [Tasks -> {"idle", "take", "flush", "wait", "delay"}]
    /\ req \in [Tasks -> Request]
    /\ req["poll"] = PollRequest(count)
    /\ \A t \in Callers : pc[t] # "idle" => req[t].from = t /\ req[t].type # "read"
    /\ \A t \in Callers : ~req[t].late
    /\ count \in DOMAIN Polled
    /\ value \in [Range(Polled) -> Acks \cup {"none"}]
    /\ executed \subseteq Callers /\ told \subseteq Callers

(* A message that is not late belongs to the task that holds the lock and  *)
(* waits for it.                                                           *)
Tied(s) == \A i \in DOMAIN s : ~s[i].late => s[i].from = lock /\ pc[s[i].from] = "wait"

(* A reply that is not late is that of a request the MCU has carried out.  *)
Real(s) == \A i \in DOMAIN s : ~s[i].late /\ s[i].from \in Callers => s[i].from \in executed

(* Whoever is between its flush and its reply holds the lock.              *)
Holding == \A t \in Tasks : pc[t] \in {"flush", "wait"} => lock = t

AckInv ==
    /\ Holding
    /\ Tied(tx) /\ Tied(rx) /\ Tied(hand) /\ Tied(slot)
    /\ Real(rx) /\ Real(hand) /\ Real(slot)
    /\ AckIsReal

(* The parameters before the poll's place have been received.              *)
PollInv ==
    /\ \A k \in DOMAIN Polled : k < count => value[Polled[k]] # "none"
    /\ ReadyMeansAll

-----------------------------------------------------------------------------
(* Sequences of messages.                                                  *)

LEMMA LateMessages ==
  ASSUME NEW K, NEW s \in Seq(MessageOf(K))
  PROVE  MakeLate(s) \in Seq(MessageOf(K)) /\ \A i \in DOMAIN MakeLate(s) : MakeLate(s)[i].late
<1>1. \A m \in MessageOf(K) : [m EXCEPT !.late = TRUE] \in MessageOf(K) /\ [m EXCEPT !.late = TRUE].late
  BY DEF MessageOf
<1>2. \A i \in DOMAIN s : s[i] \in MessageOf(K)
  OBVIOUS
<1>3. DOMAIN s = 1 .. Len(s) /\ Len(s) \in Nat
  OBVIOUS
<1>4. \A i \in DOMAIN s : [s[i] EXCEPT !.late = TRUE] \in MessageOf(K) /\ [s[i] EXCEPT !.late = TRUE].late
  BY <1>1, <1>2
<1> DEFINE L == [i \in DOMAIN s |-> [s[i] EXCEPT !.late = TRUE]]
<1>5. L \in [1 .. Len(s) -> MessageOf(K)]
  BY <1>3, <1>4
<1>6. L \in Seq(MessageOf(K)) /\ DOMAIN L = DOMAIN s
  BY <1>3, <1>5
<1>7. \A i \in DOMAIN s : L[i].late
  BY <1>4
<1> QED BY <1>6, <1>7 DEF MakeLate

LEMMA AppendMessage ==
  ASSUME NEW K, NEW s \in Seq(K), NEW m \in K
  PROVE  /\ Append(s, m) \in Seq(K)
         /\ \A i \in DOMAIN Append(s, m) :
              Append(s, m)[i] = m \/ \E j \in DOMAIN s : Append(s, m)[i] = s[j]
<1>1. Append(s, m) \in Seq(K) /\ DOMAIN Append(s, m) = 1 .. Len(s) + 1 /\ DOMAIN s = 1 .. Len(s)
  OBVIOUS
<1>2. \A i \in 1 .. Len(s) + 1 : Append(s, m)[i] = IF i <= Len(s) THEN s[i] ELSE m
  OBVIOUS
<1>3. \A i \in 1 .. Len(s) + 1 : i \in 1 .. Len(s) \/ ~(i <= Len(s))
  OBVIOUS
<1> QED BY <1>1, <1>2, <1>3

LEMMA TailMessages ==
  ASSUME NEW K, NEW s \in Seq(K), s # <<>>
  PROVE  /\ Tail(s) \in Seq(K) /\ Head(s) \in K /\ Head(s) = s[1] /\ 1 \in DOMAIN s
         /\ \A i \in DOMAIN Tail(s) : \E j \in DOMAIN s : Tail(s)[i] = s[j]
<1>1. \A i \in DOMAIN Tail(s) : Tail(s)[i] = s[i + 1] /\ i + 1 \in DOMAIN s
  OBVIOUS
<1> QED BY <1>1

LEMMA NoReplyIsNoAck ==
  \A q \in Request : ~Means(NoReply, q)
BY DEF Means, NoReply, AckOf, Request, MessageOf, RequestKinds

-----------------------------------------------------------------------------
(* Types.                                                                  *)

LEMMA PollRequestType ==
  ASSUME NEW i \in DOMAIN Polled
  PROVE  PollRequest(i) \in Request /\ PollRequest(i).type = "read" /\ ~PollRequest(i).late
<1>1. Polled[i] \in Nat
  BY McuProtocolAssumption
<1> QED BY <1>1 DEF PollRequest, Request, MessageOf, RequestKinds, Tasks

LEMMA FirstPolled == 1 \in DOMAIN Polled /\ DOMAIN Polled = 1 .. Len(Polled) /\ Len(Polled) \in Nat
BY McuProtocolAssumption

\* A reply, or none, returned to a task that asked for it.
LEMMA ReturnsType ==
  ASSUME TypeInv, NEW t \in Tasks, NEW r \in Reply \cup {NoReply}, Returns(t, r)
  PROVE  /\ pc' \in [Tasks -> {"idle", "take", "flush", "wait", "delay"}]
         /\ pc' = [pc EXCEPT ![t] = pc'[t]] /\ pc'[t] \in {"idle", "take", "delay"}
         /\ (t # "poll" => pc'[t] = "idle")
         /\ req' \in [Tasks -> Request]
         /\ req' = [req EXCEPT ![t] = req'[t]]
         /\ req'["poll"] = PollRequest(count)'
         /\ (t # "poll" => req'[t] = PollRequest(1))
         /\ count' \in DOMAIN Polled
         /\ value' \in [Range(Polled) -> Acks \cup {"none"}]
         /\ (told' = told \/ (told' = told \cup {t} /\ t \in Callers /\ r # NoReply))
<1>1. CASE t = "poll"
  <2> USE <1>1
  <2> DEFINE ok == Matches(req["poll"], r)
             n == Following(ok)
             next == IF n > Len(Polled) THEN 1 ELSE n
  <2>1. PollResult(r)
    BY DEF Returns
  <2>2. /\ value' = IF ok THEN [value EXCEPT ![Polled[count]] = r.type] ELSE value
        /\ count' = next
        /\ req' = [req EXCEPT !["poll"] = PollRequest(next)]
        /\ Go("poll", IF ok THEN "take" ELSE "delay")
        /\ told' = told
    BY <2>1 DEF PollResult
  <2>3. next \in DOMAIN Polled
    BY FirstPolled DEF TypeInv, Following
  <2>4. PollRequest(count)' = PollRequest(next)
    BY <2>2 DEF PollRequest
  <2>5. r.type \in Acks \cup {"none"} /\ Polled[count] \in Range(Polled)
    BY DEF Reply, MessageOf, NoReply, TypeInv, Range
  <2>6. value' \in [Range(Polled) -> Acks \cup {"none"}]
    BY <2>2, <2>5 DEF TypeInv
  <2>7. PollRequest(next) \in Request
    BY <2>3, PollRequestType
  <2> HIDE DEF ok, next
  <2>8. \E l \in {"take", "delay"} : pc' = [pc EXCEPT !["poll"] = l]
    BY <2>2 DEF Go
  <2> QED BY <2>2, <2>3, <2>4, <2>6, <2>7, <2>8 DEF TypeInv
<1>2. CASE t # "poll"
  <2>1. Result(t, r) /\ t \in Callers
    BY <1>2 DEF Returns, Tasks
  <2>2. /\ told' = IF Means(r, req[t]) THEN told \cup {t} ELSE told
        /\ req' = [req EXCEPT ![t] = PollRequest(1)]
        /\ pc' = [pc EXCEPT ![t] = "idle"]
        /\ UNCHANGED <<count, value, ready, errors>>
    BY <2>1 DEF Result, Go, polling
  <2>3. PollRequest(1) \in Request /\ PollRequest(count)' = PollRequest(count)
    BY <2>2, FirstPolled, PollRequestType DEF PollRequest
  <2>4. told' = told \/ (told' = told \cup {t} /\ r # NoReply)
    BY <2>2, NoReplyIsNoAck DEF TypeInv
  <2> QED BY <1>2, <2>1, <2>2, <2>3, <2>4 DEF TypeInv
<1> QED BY <1>1, <1>2

LEMMA EmptySequence == \A K : <<>> \in Seq(K) /\ DOMAIN <<>> = {}
OBVIOUS

LEMMA TypeInit == Init => TypeInv
<1> SUFFICES ASSUME Init PROVE TypeInv
  OBVIOUS
<1>1. \A K : <<>> \in Seq(K)
  BY EmptySequence
<1>2. PollRequest(1) \in Request /\ PollRequest(1).type = "read" /\ ~PollRequest(1).late
  BY FirstPolled, PollRequestType
<1>3. req \in [Tasks -> Request] /\ req["poll"] = PollRequest(1) /\ \A t \in Callers : req[t] = PollRequest(1)
  BY <1>2 DEF Init, NoRequest, Tasks
<1>4. pc \in [Tasks -> {"idle", "take", "flush", "wait", "delay"}] /\ \A t \in Callers : pc[t] = "idle"
  BY McuProtocolAssumption DEF Init, Start, Tasks
<1> QED BY <1>1, <1>2, <1>3, <1>4, FirstPolled DEF Init, TypeInv

\* What every step but those that end a request leaves as it is.
Same == UNCHANGED <<req, count, value>>

LEMMA TypeFrame ==
  ASSUME TypeInv, Same,
         lock' \in Tasks \cup {Nobody},
         slot' \in Seq(Reply), hand' \in Seq(Reply), rx' \in Seq(Reply), tx' \in Seq(Request),
         pc' \in [Tasks -> {"idle", "take", "flush", "wait", "delay"}],
         \A t \in Callers : pc'[t] # "idle" => pc[t] # "idle",
         executed' \subseteq Callers, told' \subseteq Callers
  PROVE  TypeInv'
<1>1. PollRequest(count)' = PollRequest(count)
  BY DEF Same, PollRequest
<1> QED BY <1>1 DEF TypeInv, Same

\* The end of a request keeps the types.
LEMMA TypeReturns ==
  ASSUME TypeInv, NEW t \in Tasks, NEW r \in Reply \cup {NoReply}, Returns(t, r),
         lock' \in Tasks \cup {Nobody},
         slot' \in Seq(Reply), hand' \in Seq(Reply), rx' \in Seq(Reply), tx' \in Seq(Request),
         executed' = executed
  PROVE  TypeInv'
<1>1. ~PollRequest(1).late
  BY FirstPolled, PollRequestType
<1>2. /\ pc' = [pc EXCEPT ![t] = pc'[t]] /\ req' = [req EXCEPT ![t] = req'[t]]
      /\ t # "poll" => pc'[t] = "idle" /\ req'[t] = PollRequest(1)
  BY ReturnsType
<1>3. \A u \in Callers : u # "poll" /\ u \in Tasks
  BY McuProtocolAssumption DEF Tasks
<1>4. pc \in [Tasks -> {"idle", "take", "flush", "wait", "delay"}] /\ req \in [Tasks -> Request]
  BY DEF TypeInv
<1>5. ASSUME NEW u \in Callers PROVE
      /\ pc'[u] # "idle" => pc[u] # "idle" /\ req'[u] = req[u]
      /\ ~req'[u].late
  <2>1. CASE u = t
    BY <1>1, <1>2, <1>3, <2>1
  <2>2. CASE u # t
    BY <1>2, <1>3, <1>4, <2>2 DEF TypeInv
  <2> QED BY <2>1, <2>2
<1> QED BY <1>5, ReturnsType DEF TypeInv

LEMMA TypeStep == TypeInv /\ [Next]_vars => TypeInv'
<1> SUFFICES ASSUME TypeInv, [Next]_vars PROVE TypeInv'
  OBVIOUS
<1> USE EmptySequence
<1>0. /\ lock \in Tasks \cup {Nobody}
      /\ slot \in Seq(Reply) /\ hand \in Seq(Reply) /\ rx \in Seq(Reply) /\ tx \in Seq(Request)
      /\ pc \in [Tasks -> {"idle", "take", "flush", "wait", "delay"}]
      /\ executed \subseteq Callers /\ told \subseteq Callers
  BY DEF TypeInv
<1>1. ASSUME NEW t \in Tasks, TakeLock(t) PROVE TypeInv'
  <2>1. pc' = [pc EXCEPT ![t] = "flush"] /\ pc[t] = "take"
    BY <1>1 DEF TakeLock, Go
  <2> QED BY <1>0, <1>1, <2>1, TypeFrame DEF TakeLock, Same, receiver, polling, history
<1>2. ASSUME NEW t \in Tasks, LockTimeout(t) PROVE TypeInv'
  <2>1. UNCHANGED <<lock, slot, hand, rx, tx, executed>>
    BY <1>2 DEF LockTimeout, receiver
  <2>2. CASE Returns(t, NoReply)
    BY <1>0, <2>1, <2>2, TypeReturns
  <2>3. CASE UNCHANGED <<pc, req, polling, told>>
    BY <1>0, <2>1, <2>3, TypeFrame DEF Same, polling
  <2> QED BY <1>2, <2>2, <2>3 DEF LockTimeout
<1>3. ASSUME NEW t \in Tasks, Flush(t) PROVE TypeInv'
  <2>1. pc' = [pc EXCEPT ![t] = "wait"] /\ pc[t] = "flush"
    BY <1>3 DEF Flush, Write, Go
  <2>2. \A s \in Seq(Request) : Append(s, req[t]) \in Seq(Request)
    BY AppendMessage DEF TypeInv
  <2>3. Len(tx) < MaxLine \/ tx # <<>>
    BY McuProtocolAssumption, <1>0
  <2>4. tx' \in Seq(Request)
    <3>1. CASE Len(tx) < MaxLine
      BY <1>0, <1>3, <2>2, <3>1 DEF Flush, Write
    <3>2. CASE ~(Len(tx) < MaxLine)
      <4>1. Tail(tx) \in Seq(Request)
        BY <1>0, <2>3, <3>2, TailMessages
      <4> QED BY <1>3, <2>2, <3>2, <4>1 DEF Flush, Write
    <3> QED BY <3>1, <3>2
  <2> QED BY <1>0, <1>3, <2>1, <2>4, TypeFrame DEF Flush, Same, polling, history
<1>4. ASSUME NEW t \in Tasks, NEW r \in Reply \cup {NoReply}, Over(t, r),
             slot' \in Seq(Reply), executed' = executed
      PROVE  TypeInv'
  <2>1. hand' \in Seq(Reply) /\ rx' \in Seq(Reply) /\ tx' \in Seq(Request)
    BY <1>0, <1>4, LateMessages DEF Over, Reply, Request
  <2> QED BY <1>4, <2>1, TypeReturns DEF Over
<1>5. ASSUME NEW t \in Tasks, Receive(t) PROVE TypeInv'
  <2>1. Head(slot) \in Reply
    BY <1>0, <1>5, TailMessages DEF Receive
  <2> QED BY <1>4, <1>5, <2>1 DEF Receive
<1>6. ASSUME NEW t \in Tasks, TimeOut(t) PROVE TypeInv'
  BY <1>0, <1>4, <1>6 DEF TimeOut
<1>7. ASSUME NEW t \in Callers, Send(t) PROVE TypeInv'
  <2>1. PICK q \in Requests : req' = [req EXCEPT ![t] = [type |-> q.type, id |-> q.id, from |-> t, late |-> FALSE]]
    BY <1>7 DEF Send
  <2>2. pc' = [pc EXCEPT ![t] = "take"] /\ UNCHANGED <<lock, receiver, tx, polling>>
        /\ executed' = executed \ {t} /\ told' = told \ {t}
    BY <1>7 DEF Send, Go
  <2>3. [type |-> q.type, id |-> q.id, from |-> t, late |-> FALSE] \in Request /\ q.type # "read"
    BY McuProtocolAssumption DEF Request, MessageOf, RequestKinds, Tasks
  <2>4. t # "poll" /\ t \in Tasks /\ PollRequest(count)' = PollRequest(count)
    BY <2>2, McuProtocolAssumption DEF Tasks, PollRequest, polling
  <2>5. /\ req' \in [Tasks -> Request] /\ req'["poll"] = PollRequest(count)'
        /\ \A u \in Callers : ~req'[u].late
        /\ \A u \in Callers : pc'[u] # "idle" => req'[u].from = u /\ req'[u].type # "read"
    BY <2>1, <2>2, <2>3, <2>4 DEF TypeInv, Tasks
  <2> QED BY <2>2, <2>4, <2>5 DEF TypeInv, receiver, polling
<1>8. CASE Delay
  <2>1. pc' = [pc EXCEPT !["poll"] = "take"]
    BY <1>8 DEF Delay, Go
  <2>2. /\ pc' \in [Tasks -> {"idle", "take", "flush", "wait", "delay"}]
        /\ \A t \in Callers : pc'[t] # "idle" => pc[t] # "idle"
    BY <1>0, <2>1, McuProtocolAssumption DEF Tasks
  <2> QED BY <1>0, <1>8, <2>2, TypeFrame DEF Delay, Same, receiver, polling, history
<1>9. CASE Skip
  BY <1>0, <1>9, TypeFrame DEF Skip, Same, polling, history
<1>10. CASE Parse
  <2>1. Tail(rx) \in Seq(Reply) /\ Head(rx) \in Reply
    BY <1>0, <1>10, TailMessages DEF Parse
  <2>2. <<Head(rx)>> \in Seq(Reply)
    BY <2>1
  <2> QED BY <1>0, <1>10, <2>1, <2>2, TypeFrame DEF Parse, Same, polling, history
<1>11. CASE Queue
  BY <1>0, <1>11, TypeFrame DEF Queue, Same, polling, history
<1>12. CASE Supervise \/ Settle \/ Update
  BY <1>0, <1>12, TypeFrame DEF Supervise, Settle, Update, Stop, Same, receiver, polling, history
<1>13. CASE Restart
  <2>1. tx' \in Seq(Request)
    BY <1>0, <1>13, LateMessages DEF Restart, Request
  <2>2. PollRequest(1) \in Request /\ PollRequest(1).type = "read" /\ ~PollRequest(1).late
    BY FirstPolled, PollRequestType
  <2>3. req' \in [Tasks -> Request] /\ req'["poll"] = PollRequest(1) /\ \A t \in Callers : req'[t] = PollRequest(1)
    BY <1>13, <2>2 DEF Restart, NoRequest, Tasks
  <2>4. pc' \in [Tasks -> {"idle", "take", "flush", "wait", "delay"}] /\ \A t \in Callers : pc'[t] = "idle"
    BY <1>13, McuProtocolAssumption DEF Restart, Start, Tasks
  <2>5. PollRequest(count)' = PollRequest(1)
    BY <1>13 DEF Restart, PollRequest
  <2> QED BY <1>13, <2>1, <2>2, <2>3, <2>4, <2>5, FirstPolled DEF Restart, TypeInv
<1>14. CASE Serve
  <2>1. Tail(tx) \in Seq(Request) /\ Head(tx) \in Request
    BY <1>0, <1>14, TailMessages DEF Serve
  <2>2. [Head(tx) EXCEPT !.type = AckOf(Head(tx).type)] \in Reply
    BY <2>1 DEF Request, Reply, MessageOf, AckOf, Acks
  <2>3. rx' \in Seq(Reply) /\ executed' \subseteq Callers
    <3>1. \A m \in Reply : Append(rx, m) \in Seq(Reply)
      BY <1>0
    <3>2. rx' = rx \/ rx' = Append(rx, [Head(tx) EXCEPT !.type = AckOf(Head(tx).type)])
      BY <1>14 DEF Serve
    <3>3. executed' \subseteq Callers
      BY <1>0, <1>14 DEF Serve
    <3> QED BY <1>0, <2>2, <3>1, <3>2, <3>3
  <2> QED BY <1>0, <1>14, <2>1, <2>3, TypeFrame DEF Serve, Same, polling
<1>15. CASE Lose
  <2>1. tx' \in Seq(Request) /\ rx' \in Seq(Reply)
    <3>1. tx # <<>> => Tail(tx) \in Seq(Request)
      BY <1>0, TailMessages
    <3>2. rx # <<>> => Tail(rx) \in Seq(Reply)
      BY <1>0, TailMessages
    <3> QED BY <1>0, <1>15, <3>1, <3>2 DEF Lose
  <2> QED BY <1>0, <1>15, <2>1, TypeFrame DEF Lose, Same, polling, history
<1>16. CASE McuChange
  BY <1>0, <1>16, TypeFrame DEF McuChange, Same, receiver, polling, history
<1>17. CASE UNCHANGED vars
  BY <1>0, <1>17, TypeFrame DEF vars, Same, receiver, polling, history
<1> QED
  BY <1>1, <1>2, <1>3, <1>5, <1>6, <1>7, <1>8, <1>9, <1>10, <1>11, <1>12, <1>13, <1>14, <1>15, <1>16, <1>17
     DEF Next, Caller, Poll, Receiver, RunRequest, Tasks

-----------------------------------------------------------------------------
(* What a task is told of its request.                                     *)

\* Messages that are all late are nobody's.
AllLate(s) == \A i \in DOMAIN s : s[i].late

LEMMA LateIsTied ==
  \A s : AllLate(s) => /\ \A i \in DOMAIN s : ~s[i].late => FALSE
                       /\ Tied(s) /\ Real(s)
BY DEF AllLate, Tied, Real

LEMMA MessagesTyped ==
  ASSUME TypeInv, NEW s \in {tx, rx, hand, slot}
  PROVE  \A i \in DOMAIN s : s[i].from \in Tasks /\ s[i].late \in BOOLEAN
<1>1. \A m \in Reply \cup Request : m.from \in Tasks /\ m.late \in BOOLEAN
  BY DEF Reply, Request, MessageOf
<1>2. s \in Seq(Reply) \/ s \in Seq(Request)
  BY DEF TypeInv
<1>3. CASE s \in Seq(Reply)
  <2>1. \A i \in DOMAIN s : s[i] \in Reply
    BY <1>3
  <2> QED BY <1>1, <2>1
<1>4. CASE s \in Seq(Request)
  <2>1. \A i \in DOMAIN s : s[i] \in Request
    BY <1>4
  <2> QED BY <1>1, <2>1
<1> QED BY <1>2, <1>3, <1>4

\* While no task waits, everything on its way is late.
LEMMA NobodyWaits ==
  ASSUME TypeInv, Tied(tx), Tied(rx), Tied(hand), Tied(slot),
         lock = Nobody \/ (lock \in Tasks /\ pc[lock] # "wait")
  PROVE  AllLate(tx) /\ AllLate(rx) /\ AllLate(hand) /\ AllLate(slot)
<1>1. Nobody \notin Tasks
  BY McuProtocolAssumption DEF Nobody, Tasks
<1>2. ASSUME NEW s \in {tx, rx, hand, slot} PROVE AllLate(s)
  <2>1. Tied(s)
    BY <1>2
  <2>2. \A i \in DOMAIN s : s[i].from \in Tasks
    BY <1>2, MessagesTyped
  <2> QED BY <1>1, <2>1, <2>2 DEF Tied, AllLate
<1> QED BY <1>2

LEMMA AckInit == Init => AckInv
<1> SUFFICES ASSUME Init PROVE AckInv
  OBVIOUS
<1>1. \A t \in Tasks : pc[t] \in {"take", "idle"}
  BY DEF Init, Start
<1> QED BY <1>1, EmptySequence DEF Init, AckInv, Holding, Tied, Real, AckIsReal

\* The end of a request: everything that is on its way becomes late.
LEMMA AckOver ==
  ASSUME TypeInv, AckInv, NEW t \in Tasks, pc[t] = "wait", NEW r \in Reply \cup {NoReply}, Over(t, r),
         slot' = <<>>, executed' = executed,
         late' \/ r = NoReply \/ (r.from = t /\ (t \in Callers => t \in executed)),
         late => late'
  PROVE  AckInv'
<1>1. /\ AllLate(tx') /\ AllLate(rx') /\ AllLate(hand') /\ AllLate(slot')
  BY LateMessages, EmptySequence DEF Over, AllLate, TypeInv, Reply, Request
<1>2. Tied(tx)' /\ Tied(rx)' /\ Tied(hand)' /\ Tied(slot)' /\ Real(rx)' /\ Real(hand)' /\ Real(slot)'
  BY <1>1 DEF Tied, Real, AllLate
<1>3. Returns(t, r)
  BY DEF Over
<1>4. Holding'
  <2>1. lock = t /\ \A u \in Tasks : u # t => pc[u] \notin {"flush", "wait"}
    BY DEF AckInv, Holding
  <2>2. pc' = [pc EXCEPT ![t] = pc'[t]] /\ pc'[t] \in {"idle", "take", "delay"}
    BY <1>3, ReturnsType
  <2>3. \A u \in Tasks : pc'[u] \notin {"flush", "wait"}
    BY <2>1, <2>2 DEF TypeInv
  <2> QED BY <2>3 DEF Holding
<1>5. AckIsReal'
  <2>1. told' = told \/ (told' = told \cup {t} /\ t \in Callers /\ r # NoReply)
    BY <1>3, ReturnsType
  <2> QED BY <2>1 DEF AckInv, AckIsReal
<1> QED BY <1>2, <1>4, <1>5 DEF AckInv

LEMMA AckStep == TypeInv /\ AckInv /\ [Next]_vars => AckInv'
<1> SUFFICES ASSUME TypeInv, AckInv, [Next]_vars PROVE AckInv'
  OBVIOUS
<1> USE EmptySequence
<1>0. /\ Holding /\ Tied(tx) /\ Tied(rx) /\ Tied(hand) /\ Tied(slot)
      /\ Real(rx) /\ Real(hand) /\ Real(slot) /\ AckIsReal
      /\ slot \in Seq(Reply) /\ hand \in Seq(Reply) /\ rx \in Seq(Reply) /\ tx \in Seq(Request)
      /\ pc \in [Tasks -> {"idle", "take", "flush", "wait", "delay"}]
      /\ Nobody \notin Tasks
  BY McuProtocolAssumption DEF AckInv, TypeInv, Nobody, Tasks
<1>1. ASSUME NEW t \in Tasks, TakeLock(t) PROVE AckInv'
  <2>1. lock = Nobody /\ lock' = t /\ pc' = [pc EXCEPT ![t] = "flush"]
        /\ UNCHANGED <<slot, hand, rx, tx, executed, told, late>>
    BY <1>1 DEF TakeLock, Go, receiver, history
  <2>2. AllLate(tx) /\ AllLate(rx) /\ AllLate(hand) /\ AllLate(slot)
    BY <1>0, <2>1, NobodyWaits
  <2>3. Holding'
    BY <1>0, <2>1 DEF Holding
  <2> QED BY <1>0, <2>1, <2>2, <2>3 DEF AckInv, Tied, Real, AllLate, AckIsReal
<1>2. ASSUME NEW t \in Tasks, LockTimeout(t) PROVE AckInv'
  <2>1. UNCHANGED <<lock, slot, hand, rx, tx, executed, late>> /\ pc[t] = "take"
    BY <1>2 DEF LockTimeout, receiver
  <2>2. told' = told /\ \A u \in Tasks : pc'[u] \in {"flush", "wait"} \/ pc[u] \in {"flush", "wait"} => pc'[u] = pc[u]
    <3>1. CASE Returns(t, NoReply)
      <4>1. told' = told /\ pc' = [pc EXCEPT ![t] = pc'[t]] /\ pc'[t] \in {"idle", "take", "delay"}
        BY <3>1, ReturnsType
      <4> QED BY <1>0, <2>1, <4>1
    <3>2. CASE UNCHANGED <<pc, req, polling, told>>
      BY <3>2
    <3> QED BY <1>2, <3>1, <3>2 DEF LockTimeout
  <2>3. Holding'
    BY <1>0, <2>1, <2>2 DEF Holding
  <2>4. \A s : Tied(s) /\ (\A i \in DOMAIN s : s[i].from \in Tasks \/ s[i].late)
             => \A i \in DOMAIN s : ~s[i].late => s[i].from = lock' /\ pc'[s[i].from] = "wait"
    BY <2>1, <2>2 DEF Tied
  <2>5. \A s \in {tx, rx, hand, slot} : \A i \in DOMAIN s : s[i].from \in Tasks
    BY MessagesTyped
  <2>6. Tied(tx)' /\ Tied(rx)' /\ Tied(hand)' /\ Tied(slot)'
    BY <1>0, <2>1, <2>4, <2>5 DEF Tied
  <2> QED BY <1>0, <2>1, <2>2, <2>3, <2>6 DEF AckInv, Real, AckIsReal
<1>3. ASSUME NEW t \in Tasks, Flush(t) PROVE AckInv'
  <2>1. /\ lock' = lock /\ pc[t] = "flush" /\ pc' = [pc EXCEPT ![t] = "wait"]
        /\ rx' = <<>> /\ slot' = <<>> /\ UNCHANGED <<hand, executed, told, late>>
    BY <1>3 DEF Flush, Write, Go, history
  <2>2. lock = t
    BY <1>0, <2>1 DEF Holding
  <2>3. AllLate(tx) /\ AllLate(hand)
    BY <1>0, <2>1, <2>2, NobodyWaits
  <2>4. req[t] \in Request /\ req[t].from = t
    <3>1. CASE t = "poll"
      BY <3>1 DEF TypeInv, PollRequest
    <3>2. CASE t # "poll"
      BY <2>1, <3>2 DEF TypeInv, Tasks
    <3> QED BY <3>1, <3>2 DEF TypeInv
  <2>5. \E s \in Seq(Request) : AllLate(s) /\ tx' = Append(s, req[t])
    <3>1. CASE Len(tx) < MaxLine
      BY <1>0, <1>3, <2>3, <3>1 DEF Flush, Write
    <3>2. CASE ~(Len(tx) < MaxLine)
      <4>1. tx # <<>>
        BY <3>2, McuProtocolAssumption
      <4>2. Tail(tx) \in Seq(Request) /\ AllLate(Tail(tx))
        BY <1>0, <2>3, <4>1, TailMessages DEF AllLate
      <4> QED BY <1>3, <3>2, <4>2 DEF Flush, Write
    <3> QED BY <3>1, <3>2
  <2>6. Tied(tx)'
    <3>1. PICK s \in Seq(Request) : AllLate(s) /\ tx' = Append(s, req[t])
      BY <2>5
    <3>2. \A i \in DOMAIN tx' : tx'[i] = req[t] \/ \E j \in DOMAIN s : tx'[i] = s[j]
      BY <2>4, <3>1, AppendMessage
    <3>3. pc'[t] = "wait" /\ lock' = t
      BY <1>0, <2>1, <2>2
    <3> QED BY <2>4, <3>1, <3>2, <3>3 DEF Tied, AllLate
  <2>7. Holding'
    BY <1>0, <2>1, <2>2 DEF Holding
  <2> QED BY <1>0, <2>1, <2>3, <2>6, <2>7 DEF AckInv, Tied, Real, AllLate, AckIsReal
<1>4. ASSUME NEW t \in Tasks, Receive(t) PROVE AckInv'
  <2>1. PICK r : r = Head(slot)
    OBVIOUS
  <2>2. slot # <<>> /\ pc[t] = "wait" /\ slot' = <<>> /\ late' = (late \/ r.late)
        /\ Over(t, r) /\ executed' = executed
    BY <1>4, <2>1 DEF Receive
  <2>3. r \in Reply /\ r = slot[1] /\ 1 \in DOMAIN slot
    BY <1>0, <2>1, <2>2, TailMessages
  <2>4. lock = t
    BY <1>0, <2>2 DEF Holding
  <2>5. Tied(slot) /\ Real(slot)
    BY <1>0
  <2>6. ~r.late => r.from = t
    BY <2>3, <2>4, <2>5 DEF Tied
  <2>7. ~r.late /\ r.from \in Callers => r.from \in executed
    BY <2>3, <2>5 DEF Real
  <2>8. late' \/ (r.from = t /\ (t \in Callers => t \in executed))
    BY <2>2, <2>6, <2>7
  <2>9. r \in Reply \cup {NoReply} /\ (late => late')
    BY <2>2, <2>3
  <2> QED BY <2>2, <2>8, <2>9, AckOver
<1>5. ASSUME NEW t \in Tasks, TimeOut(t) PROVE AckInv'
  <2>1. /\ pc[t] = "wait" /\ slot = <<>> /\ Over(t, NoReply)
        /\ slot' = slot /\ executed' = executed /\ late' = late
    BY <1>5 DEF TimeOut
  <2>2. NoReply \in Reply \cup {NoReply}
    OBVIOUS
  <2> QED BY <2>1, <2>2, AckOver
<1>6. ASSUME NEW t \in Callers, Send(t) PROVE AckInv'
  <2>1. /\ pc[t] = "idle" /\ pc' = [pc EXCEPT ![t] = "take"] /\ executed' = executed \ {t} /\ told' = told \ {t}
        /\ UNCHANGED <<lock, slot, hand, rx, tx, late>> /\ t \in Tasks
    BY <1>6 DEF Send, Go, receiver, Tasks
  <2>2. Holding'
    BY <1>0, <2>1 DEF Holding
  <2>3. \A s \in {tx, rx, hand, slot} : \A i \in DOMAIN s :
           ~s[i].late => s[i].from = lock /\ pc[s[i].from] = "wait" /\ s[i].from # t
    BY <1>0, <2>1 DEF Tied
  <2>4. \A s \in {tx, rx, hand, slot} : \A i \in DOMAIN s :
           ~s[i].late => s[i].from = lock /\ pc'[s[i].from] = "wait" /\ s[i].from # t
    BY <1>0, <2>1, <2>3
  <2>5. Tied(tx)' /\ Tied(rx)' /\ Tied(hand)' /\ Tied(slot)'
    BY <2>1, <2>4 DEF Tied
  <2>6. Real(rx)' /\ Real(hand)' /\ Real(slot)'
    BY <1>0, <2>1, <2>4 DEF Real
  <2> QED BY <1>0, <2>1, <2>2, <2>5, <2>6 DEF AckInv, AckIsReal
<1>7. CASE Delay
  <2>1. pc["poll"] = "delay" /\ pc' = [pc EXCEPT !["poll"] = "take"]
        /\ UNCHANGED <<lock, slot, hand, rx, tx, executed, told, late>>
    BY <1>7 DEF Delay, Go, receiver, history
  <2>2. Holding'
    BY <1>0, <2>1 DEF Holding
  <2>3. Tied(tx)' /\ Tied(rx)' /\ Tied(hand)' /\ Tied(slot)'
    BY <1>0, <2>1 DEF Tied
  <2> QED BY <1>0, <2>1, <2>2, <2>3 DEF AckInv, Real, AckIsReal
<1>8. CASE Skip
  BY <1>0, <1>8 DEF Skip, history, AckInv, Holding, Tied, Real, AckIsReal
<1>9. CASE Parse
  <2>1. rx # <<>> /\ hand' = <<Head(rx)>> /\ rx' \in {<<>>, Tail(rx)}
        /\ UNCHANGED <<lock, slot, tx, pc, executed, told, late>>
    BY <1>9 DEF Parse, history
  <2>2. /\ Head(rx) = rx[1] /\ 1 \in DOMAIN rx
        /\ \A i \in DOMAIN Tail(rx) : \E j \in DOMAIN rx : Tail(rx)[i] = rx[j]
    BY <1>0, <2>1, TailMessages
  <2>3. \A i \in DOMAIN hand' : hand'[i] = rx[1]
    BY <2>1, <2>2
  <2>4. Tied(rx)' /\ Real(rx)'
    <3>1. CASE rx' = <<>>
      BY <3>1 DEF Tied, Real
    <3>2. CASE rx' = Tail(rx)
      <4>1. \A i \in DOMAIN rx' : \E j \in DOMAIN rx : rx'[i] = rx[j]
        BY <2>2, <3>2
      <4> QED BY <1>0, <2>1, <4>1 DEF Tied, Real
    <3> QED BY <2>1, <3>1, <3>2
  <2>5. Tied(hand)' /\ Real(hand)'
    BY <1>0, <2>1, <2>2, <2>3 DEF Tied, Real
  <2> QED BY <1>0, <2>1, <2>4, <2>5 DEF AckInv, Holding, Tied, Real, AckIsReal
<1>10. CASE Queue
  BY <1>0, <1>10 DEF Queue, history, AckInv, Holding, Tied, Real, AckIsReal
<1>11. CASE Supervise \/ Settle \/ Update
  BY <1>0, <1>11 DEF Supervise, Settle, Update, Stop, receiver, history, AckInv, Holding, Tied, Real, AckIsReal
<1>12. CASE Restart
  <2>1. AllLate(tx')
    BY <1>0, <1>12, LateMessages DEF Restart, Request, AllLate
  <2>2. \A t \in Tasks : pc'[t] \in {"take", "idle"}
    BY <1>12 DEF Restart, Start
  <2> QED BY <1>12, <2>1, <2>2 DEF Restart, AckInv, Holding, Tied, Real, AllLate, AckIsReal
<1>13. CASE Serve
  <2> DEFINE m == [Head(tx) EXCEPT !.type = AckOf(Head(tx).type)]
  <2>1. /\ tx # <<>> /\ tx' = Tail(tx) /\ UNCHANGED <<lock, slot, hand, pc, told, late>>
        /\ \/ rx' = rx /\ executed' = executed
           \/ /\ (rx' = rx \/ rx' = Append(rx, m))
              /\ executed' = IF Head(tx).late THEN executed ELSE executed \cup ({Head(tx).from} \cap Callers)
    BY <1>13 DEF Serve
  <2>2. /\ Head(tx) = tx[1] /\ 1 \in DOMAIN tx /\ Head(tx) \in Request
        /\ \A i \in DOMAIN Tail(tx) : \E j \in DOMAIN tx : Tail(tx)[i] = tx[j]
    BY <1>0, <2>1, TailMessages
  <2>3. m \in Reply /\ m.late = Head(tx).late /\ m.from = Head(tx).from
    BY <2>2 DEF Request, Reply, MessageOf, AckOf, Acks
  <2>4. executed \subseteq executed'
    BY <2>1
  <2>5. Tied(tx)'
    BY <1>0, <2>1, <2>2 DEF Tied
  <2>6. CASE rx' = rx
    BY <1>0, <2>1, <2>4, <2>5, <2>6 DEF AckInv, Holding, Tied, Real, AckIsReal
  <2>7. CASE rx' # rx
    <3>1. /\ rx' = Append(rx, m)
          /\ executed' = IF Head(tx).late THEN executed ELSE executed \cup ({Head(tx).from} \cap Callers)
      BY <2>1, <2>7
    <3>2. \A i \in DOMAIN rx' : rx'[i] = m \/ \E j \in DOMAIN rx : rx'[i] = rx[j]
      BY <1>0, <2>3, <3>1, AppendMessage
    <3>3. ~m.late => m.from = lock /\ pc[m.from] = "wait"
      BY <1>0, <2>2, <2>3 DEF Tied
    <3>4. ~m.late /\ m.from \in Callers => m.from \in executed'
      BY <2>3, <3>1
    <3>5. Tied(rx)'
      <4>1. \A j \in DOMAIN rx : ~rx[j].late => rx[j].from = lock' /\ pc'[rx[j].from] = "wait"
        BY <1>0, <2>1 DEF Tied
      <4>2. ~m.late => m.from = lock' /\ pc'[m.from] = "wait"
        BY <2>1, <3>3
      <4> HIDE DEF m
      <4> QED BY <3>2, <4>1, <4>2 DEF Tied
    <3>6. Real(rx)'
      BY <1>0, <2>4, <3>2, <3>4 DEF Real
    <3> QED BY <1>0, <2>1, <2>4, <2>5, <3>5, <3>6 DEF AckInv, Holding, Tied, Real, AckIsReal
  <2> QED BY <2>6, <2>7
<1>14. CASE Lose
  <2>1. UNCHANGED <<lock, slot, hand, pc, executed, told, late>>
    BY <1>14 DEF Lose, history
  <2>2. CASE tx # <<>> /\ tx' = Tail(tx) /\ UNCHANGED rx
    <3>1. Tied(tx)'
      BY <1>0, <2>1, <2>2, TailMessages DEF Tied
    <3> QED BY <1>0, <2>1, <2>2, <3>1 DEF AckInv, Holding, Tied, Real, AckIsReal
  <2>3. CASE rx # <<>> /\ rx' = Tail(rx) /\ UNCHANGED tx
    <3>1. Tied(rx)' /\ Real(rx)'
      BY <1>0, <2>1, <2>3, TailMessages DEF Tied, Real
    <3> QED BY <1>0, <2>1, <2>3, <3>1 DEF AckInv, Holding, Tied, Real, AckIsReal
  <2> QED BY <1>14, <2>2, <2>3 DEF Lose
<1>15. CASE McuChange
  BY <1>0, <1>15 DEF McuChange, receiver, history, AckInv, Holding, Tied, Real, AckIsReal
<1>16. CASE UNCHANGED vars
  BY <1>0, <1>16 DEF vars, receiver, history, AckInv, Holding, Tied, Real, AckIsReal
<1> QED
  BY <1>1, <1>2, <1>3, <1>4, <1>5, <1>6, <1>7, <1>8, <1>9, <1>10, <1>11, <1>12, <1>13, <1>14, <1>15, <1>16
     DEF Next, Caller, Poll, Receiver, RunRequest, Tasks

\* A task that is told its request was carried out is told the truth.
THEOREM AcksAreReal == Spec => []AckIsReal
<1>1. Init => TypeInv /\ AckInv
  BY TypeInit, AckInit
<1>2. TypeInv /\ AckInv /\ [Next]_vars => (TypeInv /\ AckInv)'
  BY TypeStep, AckStep
<1>3. AckInv => AckIsReal
  BY DEF AckInv
<1> QED BY <1>1, <1>2, <1>3, PTL DEF Spec

-----------------------------------------------------------------------------
(* What has been polled.                                                   *)

LEMMA PollInit == Init => PollInv
<1> SUFFICES ASSUME Init PROVE PollInv
  OBVIOUS
<1>1. count = 1 /\ ready = FALSE
  BY DEF Init
<1>2. \A k \in DOMAIN Polled : ~(k < 1)
  BY FirstPolled
<1> QED BY <1>1, <1>2 DEF PollInv, ReadyMeansAll

LEMMA PollFrame == PollInv /\ UNCHANGED polling => PollInv'
BY DEF PollInv, ReadyMeansAll, polling

\* A request of the poll ends: the parameter counts as received only with a
\* reply, because the identifier of no reply is not that of a parameter.
LEMMA PollReturns ==
  ASSUME 0 \notin Range(Polled), TypeInv, PollInv,
         NEW t \in Tasks, NEW r \in Reply \cup {NoReply}, Returns(t, r)
  PROVE  PollInv'
<1>1. CASE t # "poll"
  <2>1. UNCHANGED polling
    BY <1>1 DEF Returns, Result
  <2> QED BY <2>1, PollFrame
<1>2. CASE t = "poll"
  <2> DEFINE ok == Matches(req["poll"], r)
             n == Following(ok)
             round == n > Len(Polled)
             next == IF round THEN 1 ELSE n
  <2>1. /\ value' = IF ok THEN [value EXCEPT ![Polled[count]] = r.type] ELSE value
        /\ ready' = (ready \/ round)
        /\ count' = next
    BY <1>2 DEF Returns, PollResult
  <2>2. count \in DOMAIN Polled /\ Polled[count] \in Range(Polled)
        /\ \A k \in DOMAIN Polled : Polled[k] \in Range(Polled)
        /\ value \in [Range(Polled) -> Acks \cup {"none"}]
    BY DEF TypeInv, Range
  <2>3. CASE ok
    <3>1. r # NoReply
      BY <2>2, <2>3 DEF TypeInv, PollRequest, Matches, NoReply
    <3>2. r.type # "none"
      BY <3>1 DEF Reply, MessageOf, Acks
    <3>3. \A i \in Range(Polled) : value[i] # "none" \/ i = Polled[count] => value'[i] # "none"
      BY <2>1, <2>2, <2>3, <3>2
    <3>4. \A k \in DOMAIN Polled : k < count + 1 => value'[Polled[k]] # "none"
      BY <2>2, <3>3, FirstPolled DEF PollInv
    <3>5. n = count + 1
      BY <2>3 DEF Following
    <3>6. ASSUME NEW k \in DOMAIN Polled, k < count' PROVE value'[Polled[k]] # "none"
      BY <2>1, <2>2, <3>4, <3>5, <3>6, FirstPolled
    <3>7. ReadyMeansAll'
      <4>1. CASE ready
        BY <3>3, <4>1 DEF PollInv, ReadyMeansAll
      <4>2. CASE ~ready /\ round
        <5>1. \A k \in DOMAIN Polled : k < count + 1
          BY <2>2, <3>5, <4>2, FirstPolled
        <5>2. \A k \in DOMAIN Polled : value'[Polled[k]] # "none"
          BY <3>4, <5>1
        <5> QED BY <5>2 DEF ReadyMeansAll, Range
      <4>3. CASE ~ready /\ ~round
        BY <2>1, <4>3 DEF ReadyMeansAll
      <4> QED BY <4>1, <4>2, <4>3
    <3> QED BY <3>6, <3>7 DEF PollInv
  <2>4. CASE ~ok
    <3>1. n = count /\ ~round /\ value' = value
      BY <2>1, <2>2, <2>4, FirstPolled DEF Following
    <3>2. count' = count /\ (ready' => ready)
      BY <2>1, <3>1
    <3> QED BY <3>1, <3>2 DEF PollInv, ReadyMeansAll
  <2> QED BY <2>3, <2>4
<1> QED BY <1>1, <1>2

LEMMA PollStep ==
  ASSUME 0 \notin Range(Polled)
  PROVE  TypeInv /\ PollInv /\ [Next]_vars => PollInv'
<1> SUFFICES ASSUME TypeInv, PollInv, [Next]_vars PROVE PollInv'
  OBVIOUS
<1>1. ASSUME NEW t \in Tasks, TakeLock(t) \/ Flush(t) PROVE PollInv'
  BY <1>1, PollFrame DEF TakeLock, Flush
<1>2. ASSUME NEW t \in Tasks, LockTimeout(t) PROVE PollInv'
  <2>1. CASE Returns(t, NoReply)
    BY <2>1, PollReturns
  <2>2. CASE UNCHANGED polling
    BY <2>2, PollFrame
  <2> QED BY <1>2, <2>1, <2>2 DEF LockTimeout
<1>3. ASSUME NEW t \in Tasks, Receive(t) PROVE PollInv'
  <2>1. Head(slot) \in Reply
    BY <1>3, TailMessages DEF Receive, TypeInv
  <2> QED BY <1>3, <2>1, PollReturns DEF Receive, Over
<1>4. ASSUME NEW t \in Tasks, TimeOut(t) PROVE PollInv'
  BY <1>4, PollReturns DEF TimeOut, Over
<1>5. ASSUME NEW t \in Callers, Send(t) PROVE PollInv'
  BY <1>5, PollFrame DEF Send
<1>6. CASE Delay \/ Skip \/ Parse \/ Queue \/ Serve \/ Lose \/ McuChange \/ Supervise \/ Settle \/ Update
  BY <1>6, PollFrame DEF Delay, Skip, Parse, Queue, Serve, Lose, McuChange, Supervise, Settle, Update, Stop
<1>7. CASE Restart
  <2>1. count' = 1 /\ ready' = FALSE /\ \A k \in DOMAIN Polled : ~(k < 1)
    BY <1>7, FirstPolled DEF Restart
  <2> QED BY <2>1 DEF PollInv, ReadyMeansAll
<1>8. CASE UNCHANGED vars
  BY <1>8, PollFrame DEF vars
<1> QED
  BY <1>1, <1>2, <1>3, <1>4, <1>5, <1>6, <1>7, <1>8
     DEF Next, Caller, Poll, Receiver, RunRequest, Tasks

\* Unless the identifier 0, that of no reply, is among those polled, the MCU
\* is ready only when all of them have been received since the start.
THEOREM ReadyIsAll == ASSUME 0 \notin Range(Polled) PROVE Spec => []ReadyMeansAll
<1>1. Init => TypeInv /\ PollInv
  BY TypeInit, PollInit
<1>2. TypeInv /\ PollInv /\ [Next]_vars => (TypeInv /\ PollInv)'
  BY TypeStep, PollStep
<1>3. PollInv => ReadyMeansAll
  BY DEF PollInv
<1> QED BY <1>1, <1>2, <1>3, PTL DEF Spec

-----------------------------------------------------------------------------
(* The program of the MCU: whenever the charger runs, the MCU runs the     *)
(* program of the running image.                                           *)

Steps == {"header", "reread", "restart", "isboot", "enter", "entered", "delete",
          "line", "sethdr", "confirm", "start"}

(* The partitions, the running one and the attempt have their fields. *)
PartInv ==
    /\ partition = [s \in Part |-> partition[s]]
    /\ \A s \in Part : partition[s] = [img |-> partition[s].img, state |-> partition[s].state]
    /\ cur \in Part /\ boot \in Part
    /\ try = [n |-> try.n, step |-> try.step] /\ try.n \in 0 .. MaxTries /\ try.step \in Steps
    /\ dspic = [mode |-> dspic.mode, hdr |-> dspic.hdr, v |-> dspic.v, n |-> dspic.n]

(* The MCU runs whole programs only, and update_dspic starts one, or takes *)
(* it to run, only under the header of the image it belongs to.            *)
McuInv ==
    /\ dspic.mode \in {"app", "boot"}
    /\ dspic.mode = "app" => WholeMcu
    /\ phase = "sync" /\ try.step \in {"reread", "restart", "start"} => dspic.hdr = Target

UpdateInv == PartInv /\ McuInv /\ Matched

-----------------------------------------------------------------------------
(* What a step has to leave alone.                                         *)

LEMMA ImageIsKept ==
  ASSUME PartInv, NEW p \in Part, NEW r,
         r = [img |-> r.img, state |-> r.state],
         partition' = [partition EXCEPT ![p] = r], p = cur => r.img = Target,
         UNCHANGED <<cur, try, dspic>>, boot' \in Part
  PROVE  PartInv' /\ Target' = Target
<1>1. /\ partition' = [s \in Part |-> IF s = p THEN r ELSE partition[s]]
  BY DEF PartInv
<1>2. /\ partition' = [s \in Part |-> partition'[s]]
      /\ \A s \in Part : partition'[s] = IF s = p THEN r ELSE partition[s]
  BY <1>1
<1>3. \A s \in Part : partition'[s] = [img |-> partition'[s].img, state |-> partition'[s].state]
  BY <1>2 DEF PartInv
<1>4. Target' = Target
  BY <1>2 DEF Target, PartInv
<1> QED BY <1>2, <1>3, <1>4 DEF PartInv

LEMMA OffKeepsInv ==
  ASSUME UpdateInv, Off, PartInv', dspic'.mode \in {"app", "boot"}, dspic'.mode = "app" => WholeMcu'
  PROVE  UpdateInv'
BY DEF UpdateInv, McuInv, Off, Matched

LEMMA SameKeepsInv ==
  ASSUME UpdateInv, PartInv', Target' = Target, UNCHANGED <<dspic, phase, try>>
  PROVE  UpdateInv'
BY DEF UpdateInv, McuInv, Matched, WholeMcu

-----------------------------------------------------------------------------
(* Starting.                                                               *)

LEMMA BootKeepsInv == ASSUME UpdateInv, Boot PROVE UpdateInv'
<1> DEFINE chosen == IF Bootable(boot) /\ partition[boot].state # "pending" THEN boot
                     ELSE IF boot # 0 /\ Bootable(NextPart(boot)) THEN NextPart(boot)
                     ELSE 0
           state(s) == CASE partition[s].state = "pending" -> "aborted"
                         [] partition[s].state = "new" /\ s = chosen -> "pending"
                         [] OTHER -> partition[s].state
<1>1. partition' = [s \in Part |-> [partition[s] EXCEPT !.state = state(s)]]
  BY DEF Boot
<1> HIDE DEF state
<1>2. \A s \in Part : partition'[s] = [img |-> partition[s].img, state |-> state(s)]
  BY <1>1 DEF UpdateInv, PartInv
<1>3. PartInv'
  <2>1. partition' = [s \in Part |-> partition'[s]]
    BY <1>1
  <2>2. \A s \in Part : partition'[s] = [img |-> partition'[s].img, state |-> partition'[s].state]
    <3> TAKE s \in Part
    <3>1. PICK x : partition'[s] = [img |-> partition[s].img, state |-> x]
      BY <1>2
    <3> QED BY <3>1
  <2>3. /\ dspic' = [mode |-> dspic'.mode, hdr |-> dspic'.hdr, v |-> dspic'.v, n |-> dspic'.n]
        /\ try' = [n |-> try'.n, step |-> try'.step] /\ try'.n \in 0 .. MaxTries /\ try'.step \in Steps
    <3>1. dspic' = dspic /\ try' = [n |-> 1, step |-> "header"]
      BY DEF Boot
    <3> QED BY <3>1, FirmwareUpdateAssumption DEF UpdateInv, PartInv, Steps
  <2>4. cur' \in Part /\ boot' \in Part
    BY DEF Boot, NextPart, Part, UpdateInv, PartInv
  <2> QED BY <2>1, <2>2, <2>3, <2>4 DEF PartInv
<1>4. phase' = "sync" /\ try'.step = "header" /\ dspic' = dspic
  BY DEF Boot
<1> QED BY <1>3, <1>4 DEF UpdateInv, McuInv, Matched, WholeMcu

LEMMA StateKept ==
  ASSUME PartInv, NEW x, partition' = [partition EXCEPT ![cur].state = x], UNCHANGED <<cur, boot>>
  PROVE  Target' = Target
BY DEF PartInv, Target

\* Going on to a step keeps the invariant if the step may follow.
LEMMA ProceedKeepsInv ==
  ASSUME PartInv, NEW step \in Steps \cup {"success", "failure"}, NEW marked, Proceed(step, marked), phase = "sync",
         dspic' = [mode |-> dspic'.mode, hdr |-> dspic'.hdr, v |-> dspic'.v, n |-> dspic'.n],
         dspic'.mode \in {"app", "boot"}, dspic'.mode = "app" => WholeMcu',
         step \in {"reread", "restart", "start"} => dspic'.hdr = Target,
         step = "success" => dspic'.mode = "app" /\ dspic'.hdr = Target
  PROVE  UpdateInv'
<1>1. CASE step = "success"
  <2>1. /\ phase' = "run" /\ UNCHANGED <<boot, cur, try>> /\ Confirm(marked)
    BY <1>1 DEF Proceed
  <2>2. PICK x : partition' = [partition EXCEPT ![cur].state = x]
    BY <2>1 DEF Confirm
  <2> DEFINE r == [img |-> Target, state |-> x]
  <2>3. /\ partition' = [s \in Part |-> IF s = cur THEN r ELSE partition[s]]
        /\ cur' = cur /\ boot' = boot /\ try' = try
    <3>1. [partition[cur] EXCEPT !.state = x] = r
      BY DEF PartInv, Target
    <3>2. partition' = [s \in Part |-> IF s = cur THEN [partition[cur] EXCEPT !.state = x] ELSE partition[s]]
      BY <2>2 DEF PartInv
    <3> QED BY <2>1, <3>1, <3>2
  <2>4. /\ partition' = [s \in Part |-> partition'[s]]
        /\ \A s \in Part : partition'[s] = IF s = cur THEN r ELSE partition[s]
    BY <2>3
  <2>5. PartInv' /\ Target' = Target
    BY <2>3, <2>4 DEF PartInv, Target
  <2> QED BY <1>1, <2>1, <2>5 DEF UpdateInv, McuInv, Matched, WholeMcu
<1>2. CASE step = "failure" /\ try.n < MaxTries
  <2>1. /\ try' = [n |-> try.n + 1, step |-> "header"] /\ UNCHANGED <<partition, boot, phase, cur>>
    BY <1>2, FirmwareUpdateAssumption DEF Proceed, PartInv
  <2> QED BY <1>2, <2>1, FirmwareUpdateAssumption DEF UpdateInv, PartInv, McuInv, Matched, Steps
<1>3. CASE step = "failure" /\ try.n = MaxTries
  <2>1. Off /\ UNCHANGED <<partition, boot, cur>>
    BY <1>3, FirmwareUpdateAssumption DEF Proceed, PartInv
  <2> QED BY <2>1, FirmwareUpdateAssumption DEF Off, UpdateInv, PartInv, McuInv, Matched, Steps
<1>4. CASE step # "success" /\ (step = "failure" => ~(try.n < MaxTries) /\ try.n # MaxTries)
  <2>1. /\ try' = [try EXCEPT !.step = step] /\ UNCHANGED <<partition, boot, phase, cur>>
    BY <1>4 DEF Proceed
  <2>2. try' = [n |-> try.n, step |-> step] /\ step \in Steps
    BY <1>4, <2>1, FirmwareUpdateAssumption DEF PartInv
  <2>3. PartInv' /\ Target' = Target
    BY <2>1, <2>2 DEF PartInv, Target
  <2> QED BY <2>1, <2>2, <2>3 DEF UpdateInv, McuInv, Matched
<1> QED BY <1>1, <1>2, <1>3, <1>4

\* What a request does to the MCU, and what may follow it.
LEMMA EffectIsWhole ==
  ASSUME PartInv, McuInv
  PROVE  /\ Effect = [mode |-> Effect.mode, hdr |-> Effect.hdr, v |-> Effect.v, n |-> Effect.n]
         /\ Effect.mode \in {"app", "boot"}
         /\ Effect.mode = "app" =>
              Effect.n = Lines /\ Effect.hdr = Effect.v /\ Effect.v \notin Bad
         /\ try.step \notin {"delete", "sethdr"} => Effect.hdr = dspic.hdr
<1>1. CASE try.step = "enter"
  BY <1>1 DEF Effect, PartInv
<1>2. CASE try.step = "delete" /\ dspic.mode = "boot"
  BY <1>2 DEF Effect, PartInv
<1>3. CASE try.step = "line" /\ dspic.mode = "boot"
  BY <1>3 DEF Effect, PartInv
<1>4. CASE try.step = "sethdr" /\ dspic.mode = "boot"
  BY <1>4 DEF Effect, PartInv
<1>5. CASE try.step \in {"start", "restart"} /\ dspic.mode = "boot" /\ WholeMcu
  <2>1. Effect = [dspic EXCEPT !.mode = "app"]
    BY <1>5 DEF Effect
  <2> QED BY <2>1, <1>5 DEF PartInv, WholeMcu
<1>6. CASE ~(\/ try.step = "enter"
             \/ try.step \in {"delete", "line", "sethdr"} /\ dspic.mode = "boot"
             \/ try.step \in {"start", "restart"} /\ dspic.mode = "boot" /\ WholeMcu)
  <2>1. Effect = dspic
    BY <1>6 DEF Effect
  <2> QED BY <2>1 DEF PartInv, McuInv, WholeMcu
<1> QED BY <1>1, <1>2, <1>3, <1>4, <1>5, <1>6

LEMMA AfterIsRight ==
  ASSUME PartInv, McuInv, phase = "sync", ~Refuses
  PROVE  /\ After \in {"reread", "restart", "start"} => Effect.hdr = Target
         /\ After = "success" => Effect.mode = "app" /\ Effect.hdr = Target
         /\ After \in Steps \cup {"success", "failure"}
<1>1. try.step \in {"start", "restart"} =>
        /\ dspic.mode = "boot" /\ WholeMcu
        /\ Effect = [dspic EXCEPT !.mode = "app"]
  BY DEF Refuses, Effect, McuInv
<1>2. After \in {"reread", "restart", "start"} => dspic.hdr = Target /\ Effect = dspic
  BY DEF After, McuInv, PartInv, Steps, Effect
<1>3. CASE After = "success" /\ try.step \in {"start", "restart"}
  BY <1>1, <1>3 DEF McuInv, PartInv
<1>4. After = "success" /\ try.step \notin {"start", "restart"} =>
        try.step = "reread" /\ dspic.mode # "boot" /\ Effect = dspic
  BY DEF After, PartInv, Steps, Effect
<1>5. After = "success" => Effect.mode = "app" /\ Effect.hdr = Target
  BY <1>3, <1>4 DEF McuInv
<1>6. After \in Steps \cup {"success", "failure"}
  BY DEF After, PartInv, Steps
<1> QED BY <1>2, <1>5, <1>6

LEMMA SyncKeepsInv == ASSUME UpdateInv, Sync PROVE UpdateInv'
<1> USE DEF UpdateInv
<1>1. ASSUME dspic' = Effect, ~Refuses, NEW marked, Proceed(After, marked) PROVE UpdateInv'
  <2>1. dspic'.mode = "app" => WholeMcu'
    BY <1>1, EffectIsWhole DEF WholeMcu
  <2> QED BY <1>1, <2>1, EffectIsWhole, AfterIsRight, ProceedKeepsInv DEF Sync
<1>2. ASSUME dspic' \in {dspic, Effect}, Proceed(AfterFailure, TRUE) PROVE UpdateInv'
  <2>1. dspic'.mode = "app" => WholeMcu'
    BY <1>2, EffectIsWhole DEF WholeMcu, McuInv
  <2>2. /\ dspic' = [mode |-> dspic'.mode, hdr |-> dspic'.hdr, v |-> dspic'.v, n |-> dspic'.n]
        /\ dspic'.mode \in {"app", "boot"}
    BY <1>2, EffectIsWhole DEF PartInv, McuInv
  <2>3. /\ AfterFailure \notin {"reread", "restart", "start", "success"}
        /\ AfterFailure \in Steps \cup {"success", "failure"}
    BY DEF AfterFailure, Steps
  <2> QED BY <1>2, <2>1, <2>2, <2>3, ProceedKeepsInv DEF Sync
<1> QED BY <1>1, <1>2 DEF Sync

LEMMA McuStartsKeepsInv == ASSUME UpdateInv, McuStarts PROVE UpdateInv'
<1>1. /\ dspic' = [dspic EXCEPT !.mode = "app"] /\ WholeMcu
      /\ UNCHANGED <<partition, boot, phase, cur, try>>
      /\ phase = "off" \/ (phase = "sync" /\ try.step = "header")
  BY DEF McuStarts
<1>2. /\ dspic' = [mode |-> "app", hdr |-> dspic.hdr, v |-> dspic.v, n |-> dspic.n]
  BY <1>1 DEF UpdateInv, PartInv
<1>3. WholeMcu'
  BY <1>1, <1>2 DEF WholeMcu
<1>4. PartInv' /\ Target' = Target
  BY <1>1, <1>2 DEF UpdateInv, PartInv, Target
<1> QED BY <1>1, <1>2, <1>3, <1>4 DEF UpdateInv, McuInv, Matched

-----------------------------------------------------------------------------
(* Restarts, commands and the OTA task.                                    *)

LEMMA OffKeepsParts ==
  ASSUME PartInv, Off, UNCHANGED <<partition, boot, cur, dspic>> PROVE PartInv'
BY FirmwareUpdateAssumption DEF PartInv, Off, Steps

LEMMA CrashKeepsInv == ASSUME UpdateInv, Crash PROVE UpdateInv'
<1>1. /\ Off /\ UNCHANGED <<partition, boot, cur>>
      /\ dspic' \in {dspic, [dspic EXCEPT !.mode = "boot"]}
  BY DEF Crash
<1>2. PartInv'
  BY <1>1, FirmwareUpdateAssumption DEF UpdateInv, PartInv, Off, Steps
<1>3. dspic' = dspic \/ dspic'.mode = "boot"
  BY <1>1 DEF UpdateInv, PartInv
<1> QED BY <1>1, <1>2, <1>3, OffKeepsInv DEF UpdateInv, McuInv, WholeMcu

\* A restart in which otadata may be changed.
LEMMA RestartKeepsInv ==
  ASSUME UpdateInv, Off, UNCHANGED <<cur, dspic>>, boot' \in Part,
         partition' = [s \in Part |-> partition'[s]],
         \A s \in Part : partition'[s] = [img |-> partition'[s].img, state |-> partition'[s].state]
  PROVE  UpdateInv'
<1>1. PartInv'
  BY FirmwareUpdateAssumption DEF UpdateInv, PartInv, Off, Steps
<1> QED BY <1>1, OffKeepsInv DEF UpdateInv, McuInv, WholeMcu

LEMMA RollbackKeepsInv == ASSUME UpdateInv, Rollback \/ RollbackToFactory PROVE UpdateInv'
<1>1. CASE Rollback
  <2>1. /\ partition' = [partition EXCEPT ![cur].state = "invalid"] /\ boot' = NextPart(cur)
        /\ Off /\ UNCHANGED <<dspic, cur>>
    BY <1>1 DEF Rollback
  <2>2. partition' = [s \in Part |-> IF s = cur THEN [partition[cur] EXCEPT !.state = "invalid"] ELSE partition[s]]
    BY <2>1 DEF UpdateInv, PartInv
  <2>3. [partition[cur] EXCEPT !.state = "invalid"] = [img |-> partition[cur].img, state |-> "invalid"]
    BY DEF UpdateInv, PartInv
  <2>4. \A s \in Part : partition'[s] = [img |-> partition'[s].img, state |-> partition'[s].state]
    BY <2>2, <2>3 DEF UpdateInv, PartInv
  <2>5. partition' = [s \in Part |-> partition'[s]]
    BY <2>2
  <2> QED BY <2>1, <2>4, <2>5, RestartKeepsInv DEF NextPart, Part
<1>2. CASE RollbackToFactory
  <2>1. /\ partition' = [s \in Part |-> IF s = 0 THEN partition[0] ELSE [partition[s] EXCEPT !.state = "none"]]
        /\ boot' = 0 /\ Off /\ UNCHANGED <<dspic, cur>>
    BY <1>2 DEF RollbackToFactory
  <2>2. \A s \in Part : [partition[s] EXCEPT !.state = "none"] = [img |-> partition[s].img, state |-> "none"]
    BY DEF UpdateInv, PartInv
  <2>3. \A s \in Part : partition'[s] = [img |-> partition'[s].img, state |-> partition'[s].state]
    BY <2>1, <2>2 DEF UpdateInv, PartInv
  <2>4. partition' = [s \in Part |-> partition'[s]]
    BY <2>1
  <2> QED BY <2>1, <2>3, <2>4, RestartKeepsInv DEF Part
<1> QED BY <1>1, <1>2

\* The steps of the OTA task that leave the partitions alone.
LEMMA QuietKeepsInv ==
  ASSUME UpdateInv, UNCHANGED <<partition, boot, dspic, phase, cur, try>> PROVE UpdateInv'
BY DEF UpdateInv, PartInv, McuInv, Matched, WholeMcu, Target

\* An update erases the partition that is not running.
LEMMA BeginKeepsInv ==
  ASSUME UpdateInv, NEW loc, Begin(loc), UNCHANGED <<boot, dspic, phase, cur, try>> PROVE UpdateInv'
<1>1. CASE partition' = partition
  BY <1>1, QuietKeepsInv
<1>2. CASE partition' = [partition EXCEPT ![NextPart(cur)].img = None]
  <2> DEFINE p == NextPart(cur)
             r == [img |-> None, state |-> partition[p].state]
  <2>1. p \in Part /\ p # cur
    BY DEF UpdateInv, PartInv, NextPart, Part
  <2>2. partition' = [partition EXCEPT ![p] = r]
    <3>1. [partition[p] EXCEPT !.img = None] = r
      BY <2>1 DEF UpdateInv, PartInv
    <3> QED BY <1>2, <3>1
  <2>3. PartInv' /\ Target' = Target
    <3> HIDE DEF p
    <3> QED BY <2>1, <2>2, ImageIsKept DEF UpdateInv, PartInv
  <2> QED BY <2>3, SameKeepsInv
<1> QED BY <1>1, <1>2 DEF Begin

LEMMA LocateKeepsInv == ASSUME UpdateInv, Locate PROVE UpdateInv'
<1>1. UNCHANGED <<boot, dspic, phase, cur, try>>
  BY DEF Locate, UnchangedButOta
<1>2. \E loc, ver : Decide(loc, ver)
  BY DEF Locate
<1>3. \E loc : Begin(loc) \/ partition' = partition
  BY <1>2 DEF Decide
<1> QED BY <1>1, <1>3, BeginKeepsInv, QuietKeepsInv

\* A new image is put where the running one is not, and the charger restarts.
LEMMA InstallKeepsInv == ASSUME UpdateInv, NEW whole, NEW img, Install(whole, img) PROVE UpdateInv'
<1>1. Off /\ UNCHANGED <<dspic, cur>>
  BY DEF Install
<1>2. CASE UNCHANGED <<partition, boot>>
  BY <1>1, <1>2, RestartKeepsInv DEF UpdateInv, PartInv
<1>3. CASE /\ partition' = [partition EXCEPT ![NextPart(cur)] = [img |-> img, state |-> "new"]]
           /\ boot' = NextPart(cur)
  <2>1. partition' = [s \in Part |-> IF s = NextPart(cur) THEN [img |-> img, state |-> "new"] ELSE partition[s]]
    BY <1>3 DEF UpdateInv, PartInv
  <2>2. /\ partition' = [s \in Part |-> partition'[s]]
        /\ \A s \in Part : partition'[s] = IF s = NextPart(cur) THEN [img |-> img, state |-> "new"] ELSE partition[s]
    BY <2>1
  <2>3. \A s \in Part : partition'[s] = [img |-> partition'[s].img, state |-> partition'[s].state]
    BY <2>2 DEF UpdateInv, PartInv
  <2> QED BY <1>1, <1>3, <2>2, <2>3, RestartKeepsInv DEF NextPart, Part
<1> QED BY <1>2, <1>3 DEF Install

LEMMA OtaTaskKeepsInv == ASSUME UpdateInv, OtaTask PROVE UpdateInv'
<1>1. CASE Take \/ CertificateExpired \/ SafeBlock \/ SafeFailed \/ SegmentedBlock
           \/ Leave("safe") \/ Leave("segmented") \/ LibraryFailed
  <2>1. UNCHANGED <<partition, boot, dspic, phase, cur, try>>
    BY <1>1 DEF Take, CertificateExpired, SafeBlock, SafeFailed, SegmentedBlock, Leave,
                LibraryFailed, UnchangedButOta
  <2> QED BY <2>1, QuietKeepsInv
<1>2. CASE NoLocation
  <2>1. Off /\ UNCHANGED <<partition, boot, cur, dspic>>
    BY <1>2 DEF NoLocation, flash
  <2> QED BY <2>1, RestartKeepsInv DEF UpdateInv, PartInv
<1>3. CASE Locate
  BY <1>3, LocateKeepsInv
<1>4. CASE Finish \/ Library
  BY <1>4, InstallKeepsInv DEF Finish, Library
<1> QED BY <1>1, <1>2, <1>3, <1>4 DEF OtaTask

-----------------------------------------------------------------------------
LEMMA UpdateStarts == UpdateInit => UpdateInv
<1> SUFFICES ASSUME UpdateInit PROVE UpdateInv
  OBVIOUS
<1>1. /\ partition = [s \in Part |-> CASE s = 0 -> [img |-> 1, state |-> "valid"]
                                       [] s = 1 -> [img |-> 1, state |-> "valid"]
                                       [] OTHER -> [img |-> None, state |-> "none"]]
      /\ boot \in {0, 1} /\ cur = boot /\ phase = "off"
      /\ dspic = [mode |-> "app", hdr |-> 1, v |-> 1, n |-> Lines]
      /\ try = [n |-> 0, step |-> "header"]
  BY DEF UpdateInit
<1>2. PartInv
  BY <1>1, FirmwareUpdateAssumption DEF PartInv, Part, Steps
<1> QED BY <1>1, <1>2, FirmwareUpdateAssumption DEF UpdateInv, McuInv, Matched, WholeMcu

LEMMA UpdateKeeps == UpdateInv /\ [UpdateNext]_updateVars => UpdateInv'
<1> SUFFICES ASSUME UpdateInv, [UpdateNext]_updateVars PROVE UpdateInv'
  OBVIOUS
<1>1. CASE Boot
  BY <1>1, BootKeepsInv
<1>2. CASE Sync
  BY <1>2, SyncKeepsInv
<1>3. CASE McuStarts
  BY <1>3, McuStartsKeepsInv
<1>4. CASE Crash
  BY <1>4, CrashKeepsInv
<1>5. CASE (\E kind \in Kinds : Command(kind)) \/ OcppCommand \/ AbortCommand
  <2>1. UNCHANGED <<partition, boot, dspic, phase, cur, try>>
    BY <1>5 DEF Command, OcppCommand, AbortCommand, flash
  <2> QED BY <2>1, QuietKeepsInv
<1>6. CASE Rollback \/ RollbackToFactory
  BY <1>6, RollbackKeepsInv
<1>7. CASE OtaTask
  BY <1>7, OtaTaskKeepsInv
<1>8. CASE Timeout
  <2>1. Off /\ UNCHANGED <<partition, boot, cur, dspic>>
    BY <1>8 DEF Timeout, flash
  <2> QED BY <2>1, RestartKeepsInv DEF UpdateInv, PartInv
<1>9. CASE UNCHANGED updateVars
  BY <1>9, QuietKeepsInv DEF updateVars, flash
<1> QED BY <1>1, <1>2, <1>3, <1>4, <1>5, <1>6, <1>7, <1>8, <1>9 DEF UpdateNext

(* validate_booted_image does its work: for any images, numbers of lines,  *)
(* attempts, commands and troubles, the charger never runs with an MCU     *)
(* that is not running the whole program of the running image.             *)
THEOREM RunsMatched == UpdateSpec => []Matched
<1>1. UpdateInv => Matched
  BY DEF UpdateInv
<1> QED BY <1>1, UpdateStarts, UpdateKeeps, PTL DEF UpdateSpec
=============================================================================
