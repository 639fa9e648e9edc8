-------------------------- MODULE ConnectorProofs --------------------------
(***************************************************************************)
(* Proofs about Connector, for any tokens and families of tokens and any   *)
(* number of events and risks: its types, that transaction and status      *)
(* agree, that a transaction starts with the token that was granted last   *)
(* and respects a reservation, and that a tag ends only a transaction it   *)
(* may end.                                                                *)
(*                                                                         *)
(* The invariants come in layers.  Sound holds whatever happens.  Agree    *)
(* relates the transaction, the status entered, the status seen and the    *)
(* MCU.  Entitled says whom the connector serves, and Owned whose tag has  *)
(* stopped it.  Each of these holds until a risk it names is taken, and    *)
(* what has been taken stays taken.                                        *)
(***************************************************************************)
EXTENDS Connector, FiniteSetTheorems, TLAPS

-----------------------------------------------------------------------------
(* Types.                                                                  *)

Status == InTx \cup {"Unavailable", "Available", "Preparing", "Finishing", "Reserved", "Faulted"}
Modes == {"disconnected", "requesting", "charging", "paused"} \cup OddModes
Alarms == {"fault", "other", "notice"}
Token == Tokens \cup {None}
Code == Token \cup {"default"}

Connectors ==
    [st : Status, exit : Status, faulted : BOOLEAN, notified : SUBSET Alarms, startup : BOOLEAN,
     auth : BOOLEAN, asking : BOOLEAN, start : Token, finishing : BOOLEAN, tx : Code, by : Token,
     open : BOOLEAN, code : Code, rfid : Token,
     reset : {None, "initiated", "stopSent", "finalize", "doReset", "wait"},
     wait : BOOLEAN, over : {None, "paused", "disconnected"}, prev : Modes, sched : BOOLEAN]
Calls == [kind : {"start", "cancel", "stop", "reserved"}, tok : Tokens, ref : Code, live : BOOLEAN]
Starts == [kind : {"tx"}, tok : Code, live : BOOLEAN]

TypeOK ==
    /\ h \in Connectors
    /\ pc \in {"observe", "act", "end"}
    /\ seen \in [mode : Modes, st : Status]
    /\ store \in Code /\ resv \in Token /\ tag \in Token
    /\ {oper, regd, own, energy, limit} \subseteq BOOLEAN
    /\ mcu \in {"disconnected", "requesting", "idle", "charging", "paused"}
    /\ odd \in OddModes \cup {None}
    /\ told \in {None, "start", "stop", "reset"}
    /\ warn \subseteq Alarms
    /\ calls \in Seq(Calls) /\ starts \in Seq(Starts)

-----------------------------------------------------------------------------
(* What the helpers return.                                                *)

\* The modes of the MCU in which the car may draw current.
Drawing == {"idle", "charging", "paused"}

\* What no callback changes, and no handler.
Same(s, u) == /\ u.st = s.st /\ u.exit = s.exit /\ u.faulted = s.faulted /\ u.startup = s.startup
              /\ u.tx = s.tx /\ u.over = s.over /\ u.open = s.open

\* The same in all that the invariants speak of.
Like(s, u) == /\ Same(s, u)
              /\ u.auth = s.auth /\ u.by = s.by /\ u.start = s.start /\ u.code = s.code
              /\ u.asking = s.asking /\ u.reset = s.reset /\ u.rfid = s.rfid

LEMMA RevokedIs ==
  ASSUME NEW s \in Connectors
  PROVE  /\ Revoked(s) \in Connectors /\ Same(s, Revoked(s))
         /\ Revoked(s).auth = FALSE /\ Revoked(s).by = None /\ Revoked(s).start = None
         /\ Revoked(s).code = s.code /\ Revoked(s).asking = s.asking
         /\ Revoked(s).reset = s.reset /\ Revoked(s).rfid = s.rfid
BY DEF Revoked, Connectors, Same, Token, Code

LEMMA GrantedIs ==
  ASSUME NEW s \in Connectors, NEW t \in Tokens
  PROVE  /\ Granted(s, t) \in Connectors /\ Same(s, Granted(s, t))
         /\ Granted(s, t).auth = TRUE /\ Granted(s, t).by = t /\ Granted(s, t).start = t
         /\ Granted(s, t).code = t /\ Granted(s, t).asking = FALSE
         /\ Granted(s, t).reset = s.reset /\ Granted(s, t).rfid = s.rfid
BY DEF Granted, Connectors, Same, Token, Code

LEMMA DeniedIs ==
  ASSUME NEW s \in Connectors
  PROVE  /\ Denied(s) \in Connectors /\ Same(s, Denied(s))
         /\ Denied(s).auth = FALSE /\ Denied(s).by = None /\ Denied(s).start = None
         /\ Denied(s).code = s.code /\ Denied(s).asking = FALSE
         /\ Denied(s).reset = s.reset /\ Denied(s).rfid = s.rfid
BY DEF Denied, Revoked, Connectors, Same, Token, Code

LEMMA ResettingIs ==
  ASSUME NEW s \in Connectors
  PROVE  /\ Resetting(s) \in Connectors /\ Same(s, Resetting(s))
         /\ Resetting(s).auth = s.auth /\ Resetting(s).by = s.by /\ Resetting(s).start = s.start
         /\ Resetting(s).code = s.code /\ Resetting(s).asking = s.asking
         /\ Resetting(s).reset = "initiated" /\ Resetting(s).rfid = s.rfid
BY DEF Resetting, Connectors, Same

LEMMA AskingIs ==
  ASSUME NEW s \in Connectors, NEW b \in BOOLEAN
  PROVE  LET u == [s EXCEPT !.asking = b]
         IN  /\ u \in Connectors /\ Same(s, u)
             /\ u.auth = s.auth /\ u.by = s.by /\ u.start = s.start
             /\ u.code = s.code /\ u.asking = b
             /\ u.reset = s.reset /\ u.rfid = s.rfid
BY DEF Connectors, Same

LEMMA FinishedIs ==
  ASSUME NEW s \in Connectors
  PROVE  LET u == [s EXCEPT !.finishing = FALSE]
         IN  /\ u \in Connectors /\ Same(s, u)
             /\ u.auth = s.auth /\ u.by = s.by /\ u.start = s.start
             /\ u.code = s.code /\ u.asking = s.asking
             /\ u.reset = s.reset /\ u.rfid = s.rfid
BY DEF Connectors, Same

LEMMA RecodedIs ==
  ASSUME NEW s \in Connectors, NEW c \in Code
  PROVE  LET u == [s EXCEPT !.code = c]
         IN  /\ u \in Connectors /\ Same(s, u)
             /\ u.auth = s.auth /\ u.by = s.by /\ u.start = s.start
             /\ u.code = c /\ u.asking = s.asking
             /\ u.reset = s.reset /\ u.rfid = s.rfid
BY DEF Connectors, Same

LEMMA TaggedIs ==
  ASSUME NEW s \in Connectors, NEW t \in Tokens
  PROVE  LET u == [s EXCEPT !.rfid = IF s.open THEN t ELSE @]
         IN  /\ u \in Connectors /\ Same(s, u)
             /\ u.auth = s.auth /\ u.by = s.by /\ u.start = s.start
             /\ u.code = s.code /\ u.asking = s.asking
             /\ u.reset = s.reset /\ u.rfid = IF s.open THEN t ELSE s.rfid
BY DEF Connectors, Same, Token

-----------------------------------------------------------------------------
(* What becomes of a connector when a request is answered.                 *)

Result(s, u, c) ==
    /\ u \in Connectors /\ Same(s, u)
    /\ \/ /\ c.kind \in {"start", "reserved"} /\ (c.kind = "reserved" => Related(c.tok, c.ref))
          /\ u.auth = TRUE /\ u.by = c.tok /\ u.start = c.tok /\ u.code = c.tok
          /\ u.asking = FALSE /\ u.reset = s.reset /\ u.rfid = s.rfid
       \/ /\ c.kind \in {"start", "reserved"}
          /\ u.auth = FALSE /\ u.by = None /\ u.start = None /\ u.code = s.code
          /\ u.asking = FALSE /\ u.reset = s.reset /\ u.rfid = s.rfid
       \/ /\ c.kind \in {"start", "reserved", "cancel"}
          /\ u.auth = s.auth /\ u.by = s.by /\ u.start = s.start /\ u.code = s.code
          /\ u.asking = FALSE /\ u.reset = s.reset /\ u.rfid = s.rfid
       \/ /\ c.kind = "cancel"
          /\ u.auth = FALSE /\ u.by = None /\ u.start = None /\ u.code = None
          /\ u.asking = FALSE /\ u.reset = "initiated" /\ u.rfid = s.rfid
       \/ /\ c.kind = "stop" /\ Related(c.tok, c.ref)
          /\ u.auth = FALSE /\ u.by = None /\ u.start = None /\ u.code = s.code
          /\ u.asking = s.asking /\ u.reset = "initiated"
          /\ u.rfid = s.rfid \/ (s.open /\ u.rfid = c.tok)
       \/ c.kind = "stop" /\ Like(s, u)

LEMMA OutcomeIs ==
  ASSUME NEW s \in Connectors, NEW c \in Calls, NEW u \in Outcomes(s, c)
  PROVE  Result(s, u, c)
<1>1. /\ c.tok \in Tokens /\ c.kind \in {"start", "cancel", "stop", "reserved"}
  BY DEF Calls
<1>2. \A yes \in Verdicts(c) : yes => c.kind = "start" \/ Related(c.tok, c.ref)
  BY DEF Verdicts, Related
<1>3. CASE c.kind \in {"start", "reserved"} /\ u = [s EXCEPT !.asking = FALSE]
  BY <1>3, AskingIs DEF Result
<1>4. CASE c.kind \in {"start", "reserved"} /\ \E yes \in Verdicts(c) : u = Answered(s, c, yes)
  <2>1. PICK yes \in Verdicts(c) : u = Answered(s, c, yes)
    BY <1>4
  <2>2. u = IF yes THEN Granted(s, c.tok) ELSE Denied(s)
    BY <1>4, <2>1 DEF Answered
  <2>3. CASE yes
    BY <1>1, <1>2, <1>4, <2>2, <2>3, GrantedIs DEF Result
  <2>4. CASE ~yes
    BY <1>4, <2>2, <2>4, DeniedIs DEF Result
  <2> QED BY <2>3, <2>4
<1>5. CASE c.kind = "cancel"
  <2>1. PICK yes \in Verdicts(c) : u = Answered(s, c, yes)
    BY <1>5 DEF Outcomes
  <2>2. u = IF yes THEN [Resetting(Denied(s)) EXCEPT !.code = None] ELSE [s EXCEPT !.asking = FALSE]
    BY <1>5, <2>1 DEF Answered
  <2>3. CASE yes
    <3>1. None \in Code
      BY DEF Code, Token
    <3>2. PICK d : d = Denied(s)
      OBVIOUS
    <3>3. PICK r : r = Resetting(d)
      OBVIOUS
    <3>4. u = [r EXCEPT !.code = None]
      BY <2>2, <2>3, <3>2, <3>3
    <3>5. /\ d \in Connectors /\ Same(s, d) /\ d.auth = FALSE /\ d.by = None /\ d.start = None
          /\ d.asking = FALSE /\ d.rfid = s.rfid
      BY <3>2, DeniedIs
    <3>6. /\ r \in Connectors /\ Same(d, r) /\ r.auth = FALSE /\ r.by = None /\ r.start = None
          /\ r.asking = FALSE /\ r.rfid = s.rfid /\ r.reset = "initiated"
      BY <3>3, <3>5, ResettingIs
    <3>7. /\ u \in Connectors /\ Same(r, u) /\ u.auth = FALSE /\ u.by = None /\ u.start = None
          /\ u.asking = FALSE /\ u.rfid = s.rfid /\ u.reset = "initiated" /\ u.code = None
      BY <3>1, <3>4, <3>6, RecodedIs
    <3> QED BY <1>5, <3>5, <3>6, <3>7 DEF Result, Same
  <2>4. CASE ~yes
    BY <1>5, <2>2, <2>4, AskingIs DEF Result
  <2> QED BY <2>3, <2>4
<1>6. CASE c.kind = "stop"
  <2>1. PICK yes \in Verdicts(c) : u = Answered(s, c, yes)
    BY <1>6 DEF Outcomes
  <2>2. CASE yes
    <3>2. PICK d : d = Revoked(s)
      OBVIOUS
    <3>3. /\ d \in Connectors /\ Same(s, d) /\ d.auth = FALSE /\ d.by = None /\ d.start = None
          /\ d.code = s.code /\ d.asking = s.asking /\ d.rfid = s.rfid
      BY <3>2, RevokedIs
    <3>4. PICK r : r = [d EXCEPT !.rfid = IF d.open THEN c.tok ELSE @]
      OBVIOUS
    <3>5. /\ r \in Connectors /\ Same(d, r) /\ r.auth = FALSE /\ r.by = None /\ r.start = None
          /\ r.code = s.code /\ r.asking = s.asking
          /\ r.rfid = IF s.open THEN c.tok ELSE s.rfid
      BY <1>1, <3>3, <3>4, TaggedIs DEF Same
    <3>6. u = Resetting(r)
      BY <1>6, <2>1, <2>2, <3>2, <3>3, <3>4 DEF Answered, Same
    <3>7. /\ u \in Connectors /\ Same(r, u) /\ u.auth = FALSE /\ u.by = None /\ u.start = None
          /\ u.code = s.code /\ u.asking = s.asking /\ u.reset = "initiated"
          /\ u.rfid = IF s.open THEN c.tok ELSE s.rfid
      BY <3>5, <3>6, ResettingIs
    <3>8. Same(s, u)
      BY <3>3, <3>5, <3>7 DEF Same
    <3> QED BY <1>2, <1>6, <2>2, <3>7, <3>8 DEF Result
  <2>3. CASE ~yes
    BY <1>6, <2>1, <2>3 DEF Answered, Result, Like, Same
  <2> QED BY <2>2, <2>3
<1> QED BY <1>1, <1>3, <1>4, <1>5, <1>6 DEF Outcomes

LEMMA LikeResult ==
  ASSUME NEW s, NEW r, NEW u, NEW c, Like(s, r), Result(r, u, c)
  PROVE  Result(s, u, c)
BY DEF Like, Same, Result

\* A request that waits for its answer.
Waits(s, u, c) ==
    /\ u \in Connectors /\ Same(s, u)
    /\ u.auth = s.auth /\ u.by = s.by /\ u.start = s.start /\ u.code = s.code
    /\ u.asking \in {s.asking, TRUE} /\ (c.kind = "start" => u.asking = TRUE)
    /\ u.reset = s.reset /\ u.rfid = s.rfid

Request(kind, tok, ref) == [kind |-> kind, tok |-> tok, ref |-> ref, live |-> TRUE]

\* A connector s asks c.
Asks(s, c) ==
    \/ calls' = calls /\ Result(s, h', c)
    \/ calls' = Append(calls, c) /\ Waits(s, h', c)

LEMMA LikeAsks ==
  ASSUME NEW s, NEW r, NEW c, Like(s, r), Asks(r, c)
  PROVE  Asks(s, c)
<1>1. CASE calls' = calls /\ Result(r, h', c)
  BY <1>1, LikeResult DEF Asks
<1>2. CASE calls' = Append(calls, c) /\ Waits(r, h', c)
  <2>1. Waits(s, h', c)
    BY <1>2 DEF Waits, Like, Same
  <2> QED BY <1>2, <2>1 DEF Asks
<1> QED BY <1>1, <1>2 DEF Asks

LEMMA AskIs ==
  ASSUME NEW s \in Connectors, NEW kind \in {"start", "cancel", "stop", "reserved"},
         NEW tok \in Tokens, NEW ref \in Code, Ask(s, kind, tok, ref)
  PROVE  Request(kind, tok, ref) \in Calls /\ Asks(s, Request(kind, tok, ref))
<1>1. PICK c : c = Request(kind, tok, ref)
  OBVIOUS
<1>2. c \in Calls /\ c.kind = kind
  BY <1>1 DEF Request, Calls
<1>3. PICK r : r = IF kind \in {"start", "cancel"} THEN [s EXCEPT !.asking = TRUE] ELSE s
  OBVIOUS
<1>4. \/ h' \in Outcomes(r, c) /\ calls' = calls
      \/ h' = r /\ calls' = Append(calls, c)
  BY <1>1, <1>3 DEF Ask, Request
<1>5. /\ r \in Connectors /\ Same(s, r) /\ r.auth = s.auth /\ r.by = s.by /\ r.start = s.start
      /\ r.code = s.code /\ r.reset = s.reset /\ r.rfid = s.rfid
      /\ r.asking = IF kind \in {"start", "cancel"} THEN TRUE ELSE s.asking
  <2>1. CASE kind \in {"start", "cancel"}
    BY <1>3, <2>1, AskingIs
  <2>2. CASE kind \notin {"start", "cancel"}
    BY <1>3, <2>2 DEF Same
  <2> QED BY <2>1, <2>2
<1>6. CASE h' \in Outcomes(r, c) /\ calls' = calls
  <2>1. Result(r, h', c)
    BY <1>2, <1>5, <1>6, OutcomeIs
  <2>2. Result(s, h', c)
    BY <1>2, <1>5, <2>1 DEF Result, Same, Like
  <2> QED BY <1>1, <1>2, <1>6, <2>2 DEF Asks
<1>7. CASE h' = r /\ calls' = Append(calls, c)
  BY <1>1, <1>2, <1>5, <1>7 DEF Asks, Waits
<1> QED BY <1>4, <1>6, <1>7

LEMMA CallsOutdated ==
  ASSUME NEW kinds, NEW cs \in Seq(Calls)
  PROVE  LET os == Outdated(cs, kinds)
         IN  /\ os \in Seq(Calls) /\ Len(os) = Len(cs) /\ DOMAIN os = DOMAIN cs
             /\ \A i \in DOMAIN cs : /\ os[i].kind = cs[i].kind /\ os[i].tok = cs[i].tok /\ os[i].ref = cs[i].ref
                                     /\ os[i].live = (cs[i].live /\ cs[i].kind \notin kinds)
<1> DEFINE over(i) == [cs[i] EXCEPT !.live = @ /\ cs[i].kind \notin kinds]
<1>1. PICK os : os = Outdated(cs, kinds)
  OBVIOUS
<1>2. os = [i \in 1 .. Len(cs) |-> over(i)]
  BY <1>1 DEF Outdated
<1>3. \A i \in 1 .. Len(cs) : /\ os[i] \in Calls /\ os[i].kind = cs[i].kind /\ os[i].tok = cs[i].tok /\ os[i].ref = cs[i].ref
                              /\ os[i].live = (cs[i].live /\ cs[i].kind \notin kinds)
  <2> SUFFICES ASSUME NEW i \in 1 .. Len(cs)
               PROVE  /\ os[i] \in Calls /\ os[i].kind = cs[i].kind /\ os[i].tok = cs[i].tok /\ os[i].ref = cs[i].ref
                      /\ os[i].live = (cs[i].live /\ cs[i].kind \notin kinds)
    OBVIOUS
  <2>1. os[i] = [cs[i] EXCEPT !.live = cs[i].live /\ cs[i].kind \notin kinds]
    <3>1. over(i) = [cs[i] EXCEPT !.live = cs[i].live /\ cs[i].kind \notin kinds]
      OBVIOUS
    <3> HIDE DEF over
    <3> QED BY <1>2, <3>1
  <2>2. cs[i] \in Calls
    OBVIOUS
  <2> QED BY <2>1, <2>2 DEF Calls
<1> HIDE DEF over
<1>4. os \in Seq(Calls) /\ Len(os) = Len(cs) /\ DOMAIN os = 1 .. Len(cs)
  BY <1>2, <1>3
<1> QED BY <1>1, <1>3, <1>4

LEMMA StartsOutdated ==
  ASSUME NEW kinds, NEW cs \in Seq(Starts)
  PROVE  LET os == Outdated(cs, kinds)
         IN  /\ os \in Seq(Starts) /\ Len(os) = Len(cs) /\ DOMAIN os = DOMAIN cs
             /\ \A i \in DOMAIN cs : /\ os[i].kind = cs[i].kind /\ os[i].tok = cs[i].tok
                                     /\ os[i].live = (cs[i].live /\ cs[i].kind \notin kinds)
<1> DEFINE over(i) == [cs[i] EXCEPT !.live = @ /\ cs[i].kind \notin kinds]
<1>1. PICK os : os = Outdated(cs, kinds)
  OBVIOUS
<1>2. os = [i \in 1 .. Len(cs) |-> over(i)]
  BY <1>1 DEF Outdated
<1>3. \A i \in 1 .. Len(cs) : /\ os[i] \in Starts /\ os[i].kind = cs[i].kind /\ os[i].tok = cs[i].tok
                              /\ os[i].live = (cs[i].live /\ cs[i].kind \notin kinds)
  <2> SUFFICES ASSUME NEW i \in 1 .. Len(cs)
               PROVE  /\ os[i] \in Starts /\ os[i].kind = cs[i].kind /\ os[i].tok = cs[i].tok
                      /\ os[i].live = (cs[i].live /\ cs[i].kind \notin kinds)
    OBVIOUS
  <2>1. os[i] = [cs[i] EXCEPT !.live = cs[i].live /\ cs[i].kind \notin kinds]
    <3>1. over(i) = [cs[i] EXCEPT !.live = cs[i].live /\ cs[i].kind \notin kinds]
      OBVIOUS
    <3> HIDE DEF over
    <3> QED BY <1>2, <3>1
  <2>2. cs[i] \in Starts
    OBVIOUS
  <2> QED BY <2>1, <2>2 DEF Starts
<1> HIDE DEF over
<1>4. os \in Seq(Starts) /\ Len(os) = Len(cs) /\ DOMAIN os = 1 .. Len(cs)
  BY <1>2, <1>3
<1> QED BY <1>1, <1>3, <1>4

\* No answer concerns the transaction that has ended.
LEMMA NoneCurrent ==
  ASSUME NEW cs \in Seq(Starts), NEW os, os = Outdated(cs, {"tx"})
  PROVE  /\ os \in Seq(Starts) /\ Len(os) = Len(cs)
         /\ \A i \in DOMAIN os : os[i].live = FALSE
<1>1. \A i \in DOMAIN cs : cs[i].kind = "tx"
  <2>1. \A i \in 1 .. Len(cs) : cs[i] \in Starts
    OBVIOUS
  <2>2. DOMAIN cs = 1 .. Len(cs)
    OBVIOUS
  <2> QED BY <2>1, <2>2 DEF Starts
<1>2. /\ os \in Seq(Starts) /\ Len(os) = Len(cs) /\ DOMAIN os = DOMAIN cs
      /\ \A i \in DOMAIN cs : os[i].live = (cs[i].live /\ cs[i].kind \notin {"tx"})
  BY StartsOutdated
<1> QED BY <1>1, <1>2

-----------------------------------------------------------------------------
(* What the steps of the loop do.                                          *)

\* What is loaded when the charger has been registered.
LoadedFrom(s, u) ==
    /\ u \in Connectors
    /\ u.st = s.st /\ u.exit = s.exit /\ u.faulted = s.faulted /\ u.over = s.over /\ u.open = s.open
    /\ u.by = s.by /\ u.start = s.start /\ u.asking = s.asking /\ u.reset = s.reset /\ u.rfid = s.rfid
    /\ u.startup = FALSE /\ u.auth = FALSE
    /\ store = None => u.tx = s.tx /\ u.code = s.code
    /\ store # None => u.code = store /\ u.tx = IF Mode(s) \in {"charging", "paused"} THEN store ELSE None

LEMMA LoadedIs ==
  ASSUME NEW s \in Connectors, store \in Code
  PROVE  LoadedFrom(s, Loaded(s))
<1>1. PICK a : a = [s EXCEPT !.startup = FALSE, !.auth = FALSE]
  OBVIOUS
<1>2. /\ a \in Connectors
      /\ a.st = s.st /\ a.exit = s.exit /\ a.faulted = s.faulted /\ a.over = s.over /\ a.open = s.open
      /\ a.by = s.by /\ a.start = s.start /\ a.asking = s.asking /\ a.reset = s.reset /\ a.rfid = s.rfid
      /\ a.startup = FALSE /\ a.auth = FALSE /\ a.tx = s.tx /\ a.code = s.code
  BY <1>1 DEF Connectors
<1>3. PICK b : b = [a EXCEPT !.tx = store, !.code = store]
  OBVIOUS
<1>4. /\ b \in Connectors
      /\ b.st = s.st /\ b.exit = s.exit /\ b.faulted = s.faulted /\ b.over = s.over /\ b.open = s.open
      /\ b.by = s.by /\ b.start = s.start /\ b.asking = s.asking /\ b.reset = s.reset /\ b.rfid = s.rfid
      /\ b.startup = FALSE /\ b.auth = FALSE /\ b.tx = store /\ b.code = store
  BY <1>2, <1>3 DEF Connectors
<1>5. PICK c : c = [b EXCEPT !.tx = None]
  OBVIOUS
<1>6. /\ c \in Connectors
      /\ c.st = s.st /\ c.exit = s.exit /\ c.faulted = s.faulted /\ c.over = s.over /\ c.open = s.open
      /\ c.by = s.by /\ c.start = s.start /\ c.asking = s.asking /\ c.reset = s.reset /\ c.rfid = s.rfid
      /\ c.startup = FALSE /\ c.auth = FALSE /\ c.tx = None /\ c.code = store
  BY <1>4, <1>5 DEF Connectors, Code, Token
<1>7. Loaded(s) = IF store = None THEN a ELSE IF Mode(s) \in {"charging", "paused"} THEN b ELSE c
  BY <1>1, <1>3, <1>5 DEF Loaded
<1> QED BY <1>2, <1>4, <1>6, <1>7 DEF LoadedFrom

\* A connector whose warnings have been read.
WarnedFrom(s, u, new) ==
    /\ u \in Connectors
    /\ u.st = s.st /\ u.startup = s.startup /\ u.tx = s.tx /\ u.over = s.over /\ u.open = s.open
    /\ u.auth = s.auth /\ u.by = s.by /\ u.start = s.start /\ u.code = s.code
    /\ u.asking = s.asking /\ u.reset = s.reset /\ u.rfid = s.rfid
    /\ new => u.faulted = TRUE /\ u.exit = s.st
    /\ ~new => u.faulted = s.faulted /\ u.exit = s.exit

LEMMA WarnedIs ==
  ASSUME NEW s \in Connectors, NEW new, warn \subseteq Alarms
  PROVE  WarnedFrom(s, Warned(s, new), Faults(new) # {})
<1>1. CASE Faults(new) = {}
  BY <1>1 DEF Warned, WarnedFrom, Connectors
<1>2. CASE Faults(new) # {}
  BY <1>2 DEF Warned, WarnedFrom, Connectors
<1> QED BY <1>1, <1>2

LEMMA ModeIs ==
  ASSUME TypeOK, NEW s \in Connectors
  PROVE  Mode(s) \in Modes
BY DEF Mode, TypeOK, Connectors, Modes

LEMMA StateIs ==
  ASSUME TypeOK, NEW s \in Connectors
  PROVE  State(s) \in Status
<1>1. InService(s) \in Status
  BY ModeIs DEF InService, Modes, OddModes, Status, InTx
<1> QED BY <1>1 DEF State, Connectors, Status

LEMMA StateOf ==
  ASSUME TypeOK, NEW s \in Connectors
  PROVE  /\ s.faulted => State(s) = "Faulted"
         /\ ~s.faulted /\ s.st = "Faulted" => State(s) = s.exit
         /\ ~s.faulted /\ s.st # "Faulted" => State(s) # "Faulted"
<1>1. InService(s) # "Faulted"
  BY ModeIs DEF InService, Modes, OddModes, InTx
<1> QED BY <1>1 DEF State, Connectors

\* The status x of a connector in operation, by what it depends on.
Serves(s, x) ==
    /\ x \in InTx \cup {"Reserved", "Available", "Preparing", "Finishing"}
    /\ x \in InTx => mcu \in Drawing \/ (mcu = "requesting" /\ s.auth /\ s.tx # None)
    /\ mcu \in Drawing => x \in InTx
    /\ x = "Reserved" => resv # None /\ ~s.auth
    /\ x = "Available" => resv = None /\ ~s.auth /\ ~s.asking /\ mcu = "disconnected"
    /\ x = "Preparing" => s.st \notin InTx /\ (resv = None \/ s.auth)
    /\ x = "Finishing" => resv = None \/ s.auth

LEMMA StateServes ==
  ASSUME TypeOK, NEW s \in Connectors, ~s.faulted, s.st # "Faulted"
  PROVE  /\ s.reset # None => State(s) = "Finishing"
         /\ s.reset = None /\ (s.startup \/ ~oper \/ ~own) => State(s) = "Unavailable"
         /\ s.reset = None /\ ~s.startup /\ oper /\ own /\ s.over = None /\ odd = None
            => Serves(s, State(s))
<1>1. ASSUME s.over = None, odd = None
      PROVE  Serves(s, InService(s))
  <2>1. Mode(s) = IF mcu = "idle" THEN "charging" ELSE mcu
    BY <1>1 DEF Mode
  <2>2. mcu \in {"disconnected", "requesting", "idle", "charging", "paused"}
    BY DEF TypeOK
  <2>3. CASE mcu = "disconnected"
    <3>1. InService(s) = IF resv # None /\ ~s.auth THEN "Reserved"
                         ELSE IF ~s.auth /\ ~s.asking THEN "Available"
                         ELSE IF s.st \in InTx THEN "Finishing" ELSE "Preparing"
      BY <2>1, <2>3 DEF InService
    <3> QED BY <2>3, <3>1 DEF Serves, Drawing, InTx
  <2>4. CASE mcu = "requesting"
    <3>1. InService(s) = IF resv # None /\ ~s.auth THEN "Reserved"
                         ELSE IF s.auth /\ s.tx # None THEN "SuspendedEVSE"
                         ELSE IF s.finishing \/ s.st \in InTx THEN "Finishing" ELSE "Preparing"
      BY <2>1, <2>4 DEF InService
    <3> QED BY <2>4, <3>1 DEF Serves, Drawing, InTx
  <2>5. CASE mcu \in Drawing
    <3>1. InService(s) \in InTx
      BY <2>1, <2>5 DEF InService, InTx, Drawing
    <3> QED BY <2>5, <3>1 DEF Serves, Drawing, InTx
  <2> QED BY <2>2, <2>3, <2>4, <2>5 DEF Drawing
<1> QED BY <1>1 DEF State, None

\* Observe, with a fault that is taken up, and without.
Observes(s, new) ==
    /\ pc = "observe" /\ pc' = "act" /\ told \in {None, "stop"}
    /\ IF h.startup /\ ~s.startup THEN LoadedFrom(h, s) ELSE s = h
    /\ WarnedFrom(s, h', new)
    /\ store' = IF h.startup /\ ~s.startup THEN s.tx ELSE store
    /\ starts' = IF store' # store THEN Outdated(starts, {"tx"}) ELSE starts
    /\ seen' = [mode |-> Mode(h), st |-> IF new THEN "Faulted" ELSE State(s)]
    /\ new => ~s.startup /\ (h.st = "Faulted" => "flap" \in taken')
             /\ (h.startup /\ s.tx # None => "gap" \in taken')
    /\ UNCHANGED <<resv, oper, own, mcu, odd, told, warn, tag, calls>>

LEMMA ObserveDoes ==
  ASSUME TypeOK, Observe
  PROVE  \E s \in Connectors, new \in BOOLEAN : Observes(s, new)
<1>1. PICK ready \in (IF h.startup THEN BOOLEAN ELSE {TRUE}) :
         LET s1    == IF h.startup /\ ready THEN Loaded(h) ELSE h
             new   == warn \ s1.notified
             s2    == IF ready /\ regd THEN Warned(s1, new) ELSE s1
             alarm == s2.faulted /\ Faults(new) # {}
         IN  /\ h' = s2
             /\ store' = IF h.startup /\ ready THEN s2.tx ELSE store
             /\ starts' = IF store' # store THEN Outdated(starts, {"tx"}) ELSE starts
             /\ seen' = [mode |-> Mode(h), st |-> IF alarm THEN "Faulted" ELSE State(s1)]
             /\ Note(When(alarm /\ h.st = "Faulted", "flap")
                     \cup When(s2.faulted /\ h.startup /\ s2.tx # None, "gap"))
  BY DEF Observe
<1>2. PICK s : s = IF h.startup /\ ready THEN Loaded(h) ELSE h
  OBVIOUS
<1>3. PICK new : new = Faults(warn \ s.notified)
  OBVIOUS
<1>4. h' = IF ready /\ regd THEN Warned(s, warn \ s.notified) ELSE s
  BY <1>1, <1>2, <1>3
<1>5. s \in Connectors /\ ready \in BOOLEAN /\ (~h.startup => ready)
  BY <1>1, <1>2, LoadedIs DEF TypeOK, LoadedFrom
<1>6. /\ IF h.startup /\ ready THEN LoadedFrom(h, s) ELSE s = h
      /\ s.startup = (h.startup /\ ~ready)
  BY <1>2, <1>5, LoadedIs DEF TypeOK, LoadedFrom, Connectors
<1>7. PICK alarm \in BOOLEAN : alarm = (ready /\ regd /\ new # {})
  OBVIOUS
<1>8. WarnedFrom(s, h', alarm)
  <2>1. CASE ready /\ regd
    <3>1. WarnedFrom(s, Warned(s, warn \ s.notified), Faults(warn \ s.notified) # {})
      BY <1>5, WarnedIs DEF TypeOK
    <3>2. (Faults(warn \ s.notified) # {}) = alarm
      BY <1>3, <1>7, <2>1
    <3> QED BY <1>4, <2>1, <3>1, <3>2
  <2>2. CASE ~(ready /\ regd)
    BY <1>4, <1>5, <1>7, <2>2 DEF WarnedFrom
  <2> QED BY <2>1, <2>2
<1>9. /\ store' = IF h.startup /\ ready THEN s.tx ELSE store
      /\ starts' = IF store' # store THEN Outdated(starts, {"tx"}) ELSE starts
  BY <1>1, <1>8 DEF WarnedFrom
<1>10. seen' = [mode |-> Mode(h), st |-> IF alarm THEN "Faulted" ELSE State(s)]
  <2>1. seen' = [mode |-> Mode(h), st |-> IF h'.faulted /\ new # {} THEN "Faulted" ELSE State(s)]
    BY <1>1, <1>2, <1>3
  <2>2. CASE alarm
    BY <1>7, <1>8, <2>1, <2>2 DEF WarnedFrom
  <2>3. CASE ~alarm /\ new = {}
    BY <2>1, <2>3
  <2>4. CASE ~alarm /\ new # {}
    <3>1. h' = s
      BY <1>4, <1>7, <2>4
    <3>2. h'.faulted => State(s) = "Faulted"
      BY <3>1 DEF State
    <3> QED BY <2>1, <2>4, <3>2
  <2> QED BY <2>2, <2>3, <2>4
<1>11. alarm => /\ ~s.startup /\ (h.st = "Faulted" => "flap" \in taken')
                /\ (h.startup /\ s.tx # None => "gap" \in taken')
  <2> SUFFICES ASSUME alarm
               PROVE  /\ ~s.startup /\ (h.st = "Faulted" => "flap" \in taken')
                      /\ (h.startup /\ s.tx # None => "gap" \in taken')
    OBVIOUS
  <2>1. h'.faulted = TRUE /\ h'.tx = s.tx /\ new # {} /\ ready
    BY <1>7, <1>8 DEF WarnedFrom
  <2>2. Note(When(h'.faulted /\ new # {} /\ h.st = "Faulted", "flap")
             \cup When(h'.faulted /\ h.startup /\ h'.tx # None, "gap"))
    BY <1>1, <1>2, <1>3
  <2> QED BY <1>6, <2>1, <2>2 DEF Note, When
<1>12. /\ pc = "observe" /\ pc' = "act" /\ told \in {None, "stop"}
       /\ UNCHANGED <<resv, oper, own, mcu, odd, told, warn, tag, calls>>
  BY DEF Observe
<1>13. (h.startup /\ ready) = (h.startup /\ ~s.startup)
  BY <1>5, <1>6 DEF TypeOK, Connectors
<1>14. Observes(s, alarm)
  BY <1>6, <1>8, <1>9, <1>10, <1>11, <1>12, <1>13 DEF Observes
<1> QED BY <1>5, <1>7, <1>14

\* The status that is entered.
Entered == IF h.sched /\ own /\ seen.st = "Available" THEN "Unavailable" ELSE seen.st

Enters(new) ==
    /\ pc = "act" /\ pc' = "end" /\ seen.st # h.st
    /\ new \in {seen.st, "Unavailable"} /\ (new # seen.st => seen.st = "Available" /\ own)
    /\ h' \in Connectors /\ h'.st = new
    /\ h'.exit = h.exit /\ h'.faulted = h.faulted /\ h'.startup = h.startup /\ h'.over = h.over
    /\ h'.open = h.open /\ h'.asking = h.asking /\ h'.reset = h.reset /\ h'.rfid = h.rfid
    /\ Begins(h.st, new) => /\ h'.code = h'.tx
                            /\ h'.tx = IF h.code # None THEN h.code
                                       ELSE IF h.start # None THEN h.start ELSE "default"
    /\ Ends(h.st, new) => h'.tx = None
    /\ ~Begins(h.st, new) /\ ~Ends(h.st, new) => h'.tx = h.tx
    /\ ~Begins(h.st, new) => h'.code = h.code
    /\ IF new = "Finishing" \/ Ends(h.st, new)
       THEN h'.auth = FALSE /\ h'.by = None /\ h'.start = None
       ELSE h'.auth = h.auth /\ h'.by = h.by /\ h'.start = h.start
    /\ own' \in {own, FALSE} /\ (own' # own => new = "Unavailable" /\ seen.st = "Available")
    /\ (new # seen.st /\ h.st \in {"SuspendedEV", "SuspendedEVSE"} => "sched" \in taken')
    /\ resv' = IF new = "Finishing" \/ Begins(h.st, new) THEN None ELSE resv
    /\ store' = IF Ends(h.st, new) \/ Begins(h.st, new) THEN h'.tx ELSE store
    /\ told' \in {told, "start"}
    /\ told' # told => new = "SuspendedEVSE" /\ h.st = "SuspendedEV"
    /\ UNCHANGED <<seen, oper, mcu, odd, warn, tag>>

LEMMA EnterDoes ==
  ASSUME TypeOK, Enter
  PROVE  /\ Enters(Entered)
         /\ starts' = IF Begins(h.st, Entered)
                      THEN Append(Outdated(starts, {"tx"}),
                                  [kind |-> "tx", tok |-> h'.tx, live |-> TRUE])
                      ELSE IF Ends(h.st, Entered) THEN Outdated(starts, {"tx"}) ELSE starts
         /\ \E gone : /\ calls' = Outdated(calls, gone)
                      /\ ("stop" \in gone <=> Ends(h.st, Entered))
                      /\ ("reserved" \in gone <=> resv' # resv)
<1>1. PICK new : new = Entered
  OBVIOUS
<1>2. PICK s1 : s1 = IF h.st = "Finishing" /\ seen.st # "Faulted"
                     THEN [h EXCEPT !.finishing = FALSE] ELSE h
  OBVIOUS
<1>3. PICK t : t = IF h.code # None THEN h.code ELSE IF h.start # None THEN h.start ELSE "default"
  OBVIOUS
<1>4. PICK s2 : s2 = IF Ends(h.st, new) THEN Ended(s1)
                     ELSE IF Begins(h.st, new) THEN Begun(s1) ELSE s1
  OBVIOUS
<1>5. PICK s3 : s3 = IF new = "Finishing" THEN [Revoked(s2) EXCEPT !.finishing = TRUE]
                     ELSE IF Ends(h.st, new) THEN Revoked(s2) ELSE s2
  OBVIOUS
<1>6. /\ h' = [s3 EXCEPT !.st = new]
      /\ own' = (own /\ ~(h.sched /\ own /\ seen.st = "Available"))
      /\ resv' = IF new = "Finishing" \/ Begins(h.st, new) THEN None ELSE resv
      /\ store' = IF Ends(h.st, new) \/ Begins(h.st, new) THEN s2.tx ELSE store
      /\ starts' = IF Begins(h.st, new)
                   THEN Append(Outdated(starts, {"tx"}),
                               [kind |-> "tx", tok |-> s2.tx, live |-> TRUE])
                   ELSE IF Ends(h.st, new) THEN Outdated(starts, {"tx"}) ELSE starts
      /\ calls' = Outdated(calls, (IF Ends(h.st, new) THEN {"stop"} ELSE {})
                                  \cup (IF resv' # resv THEN {"reserved"} ELSE {}))
      /\ told' = IF new = "SuspendedEVSE" /\ h.st = "SuspendedEV" /\ limit THEN "start" ELSE told
      /\ Note(When(h.sched /\ own /\ seen.st = "Available"
                   /\ h.st \in {"SuspendedEV", "SuspendedEVSE"}, "sched"))
  BY <1>1, <1>2, <1>4, <1>5 DEF Enter, Entered
<1>7. /\ s1 \in Connectors /\ Like(h, s1)
  BY <1>2, FinishedIs DEF TypeOK, Like, Same
<1>8. /\ s2 \in Connectors
      /\ s2.st = h.st /\ s2.exit = h.exit /\ s2.faulted = h.faulted /\ s2.startup = h.startup /\ s2.over = h.over
      /\ s2.open = h.open /\ s2.asking = h.asking /\ s2.reset = h.reset /\ s2.rfid = h.rfid
      /\ s2.auth = h.auth /\ s2.by = h.by /\ s2.start = h.start
      /\ s2.tx = IF Ends(h.st, new) THEN None ELSE IF Begins(h.st, new) THEN t ELSE h.tx
      /\ s2.code = IF ~Ends(h.st, new) /\ Begins(h.st, new) THEN t ELSE h.code
  <2>1. CASE Ends(h.st, new)
    <3>1. s2 = [s1 EXCEPT !.tx = None]
      BY <1>4, <2>1 DEF Ended
    <3> QED BY <1>7, <2>1, <3>1 DEF Connectors, Like, Same, Code, Token
  <2>2. CASE ~Ends(h.st, new) /\ Begins(h.st, new)
    <3>1. s2 = [s1 EXCEPT !.tx = t, !.code = t]
      BY <1>3, <1>4, <1>7, <2>2 DEF Begun, Like
    <3>2. t \in Code
      BY <1>3 DEF TypeOK, Connectors, Code
    <3> QED BY <1>7, <2>2, <3>1, <3>2 DEF Connectors, Like, Same
  <2>3. CASE ~Ends(h.st, new) /\ ~Begins(h.st, new)
    BY <1>4, <1>7, <2>3 DEF Like, Same
  <2> QED BY <2>1, <2>2, <2>3
<1>9. /\ s3 \in Connectors
      /\ s3.st = h.st /\ s3.exit = h.exit /\ s3.faulted = h.faulted /\ s3.startup = h.startup /\ s3.over = h.over
      /\ s3.open = h.open /\ s3.asking = h.asking /\ s3.reset = h.reset /\ s3.rfid = h.rfid
      /\ s3.tx = s2.tx /\ s3.code = s2.code
      /\ IF new = "Finishing" \/ Ends(h.st, new)
         THEN s3.auth = FALSE /\ s3.by = None /\ s3.start = None
         ELSE s3.auth = h.auth /\ s3.by = h.by /\ s3.start = h.start
  <2>1. PICK r : r = Revoked(s2)
    OBVIOUS
  <2>2. /\ r \in Connectors /\ Same(s2, r) /\ r.auth = FALSE /\ r.by = None /\ r.start = None
        /\ r.code = s2.code /\ r.asking = s2.asking /\ r.reset = s2.reset /\ r.rfid = s2.rfid
    BY <1>8, <2>1, RevokedIs
  <2>3. CASE new = "Finishing"
    <3>1. s3 = [r EXCEPT !.finishing = TRUE]
      BY <1>5, <2>1, <2>3
    <3> QED BY <1>8, <2>2, <2>3, <3>1 DEF Connectors, Same
  <2>4. CASE new # "Finishing" /\ Ends(h.st, new)
    BY <1>5, <1>8, <2>1, <2>2, <2>4 DEF Same
  <2>5. CASE new # "Finishing" /\ ~Ends(h.st, new)
    BY <1>5, <1>8, <2>5
  <2> QED BY <2>3, <2>4, <2>5
<1>10. new \in Status /\ new \in {seen.st, "Unavailable"}
  BY <1>1 DEF Entered, TypeOK, Status
<1>11. /\ h' \in Connectors /\ h'.st = new /\ h'.exit = h.exit /\ h'.faulted = h.faulted
       /\ h'.startup = h.startup /\ h'.over = h.over
       /\ h'.open = h.open /\ h'.asking = h.asking /\ h'.reset = h.reset /\ h'.rfid = h.rfid
       /\ h'.tx = s2.tx /\ h'.code = s2.code
       /\ h'.auth = s3.auth /\ h'.by = s3.by /\ h'.start = s3.start
  BY <1>6, <1>9, <1>10 DEF Connectors
<1>12. ~(Begins(h.st, new) /\ Ends(h.st, new))
  BY DEF Begins, Ends, InTx
<1>13. /\ pc = "act" /\ pc' = "end" /\ seen.st # h.st
       /\ UNCHANGED <<seen, oper, mcu, odd, warn, tag>>
  BY DEF Enter
<1>14. /\ own' \in {own, FALSE} /\ (own' # own => new = "Unavailable" /\ seen.st = "Available")
       /\ (new # seen.st => seen.st = "Available" /\ own)
       /\ (new # seen.st /\ h.st \in {"SuspendedEV", "SuspendedEVSE"} => "sched" \in taken')
  BY <1>1, <1>6 DEF Entered, Note, When, TypeOK
<1>15. Enters(new)
  <2>1. /\ Begins(h.st, new) => h'.code = h'.tx /\ h'.tx = t
        /\ Ends(h.st, new) => h'.tx = None
        /\ ~Begins(h.st, new) /\ ~Ends(h.st, new) => h'.tx = h.tx
        /\ ~Begins(h.st, new) => h'.code = h.code
    BY <1>8, <1>11, <1>12
  <2>2. IF new = "Finishing" \/ Ends(h.st, new)
        THEN h'.auth = FALSE /\ h'.by = None /\ h'.start = None
        ELSE h'.auth = h.auth /\ h'.by = h.by /\ h'.start = h.start
    BY <1>9, <1>11
  <2>3. /\ resv' = IF new = "Finishing" \/ Begins(h.st, new) THEN None ELSE resv
        /\ store' = IF Ends(h.st, new) \/ Begins(h.st, new) THEN h'.tx ELSE store
        /\ told' \in {told, "start"}
        /\ told' # told => new = "SuspendedEVSE" /\ h.st = "SuspendedEV"
    BY <1>6, <1>11
  <2> QED BY <1>3, <1>10, <1>11, <1>13, <1>14, <2>1, <2>2, <2>3 DEF Enters
<1>16. starts' = IF Begins(h.st, new)
                 THEN Append(Outdated(starts, {"tx"}), [kind |-> "tx", tok |-> h'.tx, live |-> TRUE])
                 ELSE IF Ends(h.st, new) THEN Outdated(starts, {"tx"}) ELSE starts
  BY <1>6, <1>11
<1>17. \E gone : /\ calls' = Outdated(calls, gone)
                /\ ("stop" \in gone <=> Ends(h.st, new))
                /\ ("reserved" \in gone <=> resv' # resv)
  <2>1. PICK gone : gone = (IF Ends(h.st, new) THEN {"stop"} ELSE {})
                           \cup (IF resv' # resv THEN {"reserved"} ELSE {})
    OBVIOUS
  <2>2. calls' = Outdated(calls, gone)
    BY <1>6, <2>1
  <2>3. ("stop" \in gone <=> Ends(h.st, new)) /\ ("reserved" \in gone <=> resv' # resv)
    BY <2>1
  <2> QED BY <2>2, <2>3
<1> QED BY <1>1, <1>15, <1>16, <1>17

\* The end of a round: the charge session, and the reset of the session.
EndsRound ==
    /\ pc = "end" /\ pc' = "observe"
    /\ h' \in Connectors
    /\ h'.st = h.st /\ h'.exit = h.exit /\ h'.faulted = h.faulted /\ h'.startup = h.startup /\ h'.tx = h.tx
    /\ h'.auth = h.auth /\ h'.by = h.by /\ h'.start = h.start /\ h'.asking = h.asking
    /\ h'.code \in {h.code, None} /\ h'.rfid \in {h.rfid, None}
    /\ h'.open # h.open => h'.rfid = None
    /\ \/ /\ h.reset = "initiated" /\ h'.reset = "stopSent" /\ h'.over = "paused" /\ told' = "stop"
       \/ /\ h.reset = "initiated" /\ h'.reset = None /\ h'.over = None /\ told' = told
          /\ "nack" \in taken'
       \/ /\ h.reset = "stopSent" /\ h'.reset \in {"stopSent", "finalize"} /\ h'.over = h.over /\ told' = told
       \/ /\ h.reset = "finalize" /\ h'.reset = "doReset" /\ h'.over = "disconnected" /\ told' = told
       \/ /\ h.reset = "doReset" /\ ~h'.open /\ h'.reset = "wait" /\ h'.over = h.over
          /\ told' = "reset" \/ (told' = told /\ "nack" \in taken')
       \/ /\ h.reset = "wait" /\ h'.reset = None /\ h'.over = None /\ told' = told
       \/ /\ h'.reset = h.reset /\ h'.over = h.over /\ told' = told
    /\ tag' \in {tag, None}
    /\ UNCHANGED <<seen, store, resv, oper, own, mcu, odd, warn, calls, starts>>

LEMMA EndLoopDoes ==
  ASSUME TypeOK, EndLoop
  PROVE  EndsRound
<1>1. PICK s : s = Session(h, seen.mode)
  OBVIOUS
<1>2. PICK x : x = [s EXCEPT !.prev = seen.mode]
  OBVIOUS
<1>3. PICK o \in StopAndReset(x) :
           /\ h' = o.h
           /\ told' = IF o.cmd # None THEN o.cmd ELSE told
           /\ Take(When(o.nack, "nack"))
  BY <1>1, <1>2 DEF EndLoop
<1>4. /\ s \in Connectors
      /\ s.st = h.st /\ s.exit = h.exit /\ s.faulted = h.faulted /\ s.startup = h.startup /\ s.tx = h.tx
      /\ s.auth = h.auth /\ s.by = h.by /\ s.start = h.start /\ s.asking = h.asking
      /\ s.code \in {h.code, None} /\ s.rfid \in {h.rfid, None} /\ (s.open # h.open => s.rfid = None)
      /\ s.reset = h.reset /\ s.over = h.over
  <2>1. h \in Connectors
    BY DEF TypeOK
  <2>2. CASE s = h
    BY <2>1, <2>2
  <2>3. CASE s = [h EXCEPT !.open = TRUE, !.code = None, !.rfid = None]
    BY <2>1, <2>3 DEF Connectors, Code, Token
  <2>4. CASE s = [h EXCEPT !.open = FALSE, !.code = None, !.rfid = None]
    BY <2>1, <2>4 DEF Connectors, Code, Token
  <2> QED BY <1>1, <2>2, <2>3, <2>4 DEF Session
<1>5. /\ x \in Connectors
      /\ x.st = h.st /\ x.exit = h.exit /\ x.faulted = h.faulted /\ x.startup = h.startup /\ x.tx = h.tx
      /\ x.auth = h.auth /\ x.by = h.by /\ x.start = h.start /\ x.asking = h.asking
      /\ x.code \in {h.code, None} /\ x.rfid \in {h.rfid, None} /\ (x.open # h.open => x.rfid = None)
      /\ x.reset = h.reset /\ x.over = h.over
  BY <1>2, <1>4 DEF Connectors, TypeOK
<1> DEFINE Alike(u) ==
      /\ u \in Connectors
      /\ u.st = x.st /\ u.exit = x.exit /\ u.faulted = x.faulted /\ u.startup = x.startup /\ u.tx = x.tx
      /\ u.auth = x.auth /\ u.by = x.by /\ u.start = x.start /\ u.asking = x.asking
      /\ u.code = x.code /\ u.rfid = x.rfid /\ u.open = x.open
<1>6. \A r \in {None, "initiated", "stopSent", "finalize", "doReset", "wait"}, v \in {None, "paused", "disconnected"} :
        LET u == [x EXCEPT !.reset = r, !.over = v] IN Alike(u) /\ u.reset = r /\ u.over = v
  <2> TAKE r \in {None, "initiated", "stopSent", "finalize", "doReset", "wait"},
           v \in {None, "paused", "disconnected"}
  <2>1. PICK u : u = [x EXCEPT !.reset = r, !.over = v]
    OBVIOUS
  <2>2. Alike(u) /\ u.reset = r /\ u.over = v
    BY <1>5, <2>1 DEF Connectors
  <2> QED BY <2>1, <2>2
<1>7. \A r \in {None, "initiated", "stopSent", "finalize", "doReset", "wait"} :
        LET u == [x EXCEPT !.reset = r] IN Alike(u) /\ u.reset = r /\ u.over = x.over
  BY <1>5 DEF Connectors
<1>8. LET u == [x EXCEPT !.wait = FALSE] IN Alike(u) /\ u.reset = x.reset /\ u.over = x.over
  BY <1>5 DEF Connectors
<1>9. Alike(x)
  BY <1>5
<1> DEFINE Resets ==
       \/ /\ x.reset = "initiated" /\ h'.reset = "stopSent" /\ h'.over = "paused" /\ told' = "stop"
       \/ /\ x.reset = "initiated" /\ h'.reset = None /\ h'.over = None /\ told' = told
          /\ "nack" \in taken'
       \/ /\ x.reset = "stopSent" /\ h'.reset \in {"stopSent", "finalize"} /\ h'.over = x.over /\ told' = told
       \/ /\ x.reset = "finalize" /\ h'.reset = "doReset" /\ h'.over = "disconnected" /\ told' = told
       \/ /\ x.reset = "doReset" /\ ~x.open /\ h'.reset = "wait" /\ h'.over = x.over
          /\ told' = "reset" \/ (told' = told /\ "nack" \in taken')
       \/ /\ x.reset = "wait" /\ h'.reset = None /\ h'.over = None /\ told' = told
       \/ /\ h'.reset = x.reset /\ h'.over = x.over /\ told' = told
<1>10. o.nack => "nack" \in taken'
  BY <1>3 DEF Take, Note, When
<1>11. Alike(h') /\ Resets
  <2> HIDE DEF Alike
  <2>1. CASE x.reset = "initiated"
    <3>1. \/ o = [h |-> [x EXCEPT !.reset = "stopSent", !.over = "paused"], cmd |-> "stop", nack |-> FALSE]
          \/ o = [h |-> [x EXCEPT !.reset = None, !.over = None], cmd |-> None, nack |-> TRUE]
      BY <1>3, <2>1 DEF StopAndReset
    <3>2. CASE o = [h |-> [x EXCEPT !.reset = "stopSent", !.over = "paused"], cmd |-> "stop", nack |-> FALSE]
      <4>1. h' = [x EXCEPT !.reset = "stopSent", !.over = "paused"] /\ told' = "stop"
        BY <1>3, <3>2 DEF None
      <4> QED BY <1>6, <2>1, <4>1
    <3>3. CASE o = [h |-> [x EXCEPT !.reset = None, !.over = None], cmd |-> None, nack |-> TRUE]
      <4>1. h' = [x EXCEPT !.reset = None, !.over = None] /\ told' = told /\ "nack" \in taken'
        BY <1>3, <1>10, <3>3
      <4> QED BY <1>6, <2>1, <4>1
    <3> QED BY <3>1, <3>2, <3>3
  <2>2. CASE x.reset = "stopSent"
    <3>1. o = [h |-> IF mcu # "charging" \/ ~x.wait THEN [x EXCEPT !.reset = "finalize"]
                     ELSE [x EXCEPT !.wait = FALSE], cmd |-> None, nack |-> FALSE]
      BY <1>3, <2>2 DEF StopAndReset
    <3>2. told' = told
      BY <1>3, <3>1
    <3>3. h' = [x EXCEPT !.reset = "finalize"] \/ h' = [x EXCEPT !.wait = FALSE]
      BY <1>3, <3>1
    <3> QED BY <1>7, <1>8, <2>2, <3>2, <3>3
  <2>3. CASE x.reset = "finalize"
    <3>1. o = [h |-> [x EXCEPT !.reset = "doReset", !.over = "disconnected"], cmd |-> None, nack |-> FALSE]
      BY <1>3, <2>3 DEF StopAndReset
    <3>2. h' = [x EXCEPT !.reset = "doReset", !.over = "disconnected"] /\ told' = told
      BY <1>3, <3>1
    <3> QED BY <1>6, <2>3, <3>2
  <2>4. CASE x.reset = "doReset" /\ ~x.open
    <3>1. \/ o = [h |-> [x EXCEPT !.reset = "wait"], cmd |-> "reset", nack |-> FALSE]
          \/ o = [h |-> [x EXCEPT !.reset = "wait"], cmd |-> None, nack |-> TRUE]
      BY <1>3, <2>4 DEF StopAndReset
    <3>2. h' = [x EXCEPT !.reset = "wait"] /\ (told' = "reset" \/ (told' = told /\ "nack" \in taken'))
      BY <1>3, <1>10, <3>1 DEF None
    <3> QED BY <1>7, <2>4, <3>2
  <2>5. CASE x.reset = "wait" /\ ~energy
    <3>1. o = [h |-> [x EXCEPT !.reset = None, !.over = None], cmd |-> None, nack |-> FALSE]
      BY <1>3, <2>5 DEF StopAndReset
    <3>2. h' = [x EXCEPT !.reset = None, !.over = None] /\ told' = told
      BY <1>3, <3>1
    <3> QED BY <1>6, <2>5, <3>2
  <2>6. CASE /\ x.reset \notin {"initiated", "stopSent", "finalize"}
             /\ ~(x.reset = "doReset" /\ ~x.open) /\ ~(x.reset = "wait" /\ ~energy)
    <3>1. o = [h |-> x, cmd |-> None, nack |-> FALSE]
      BY <1>3, <2>6 DEF StopAndReset
    <3>2. h' = x /\ told' = told
      BY <1>3, <3>1
    <3> QED BY <1>9, <3>2
  <2> QED BY <2>1, <2>2, <2>3, <2>4, <2>5, <2>6
<1>12. /\ pc = "end" /\ pc' = "observe" /\ tag' \in {tag, None}
       /\ UNCHANGED <<seen, store, resv, oper, own, mcu, odd, warn, calls, starts>>
  BY DEF EndLoop
<1> QED BY <1>5, <1>11, <1>12 DEF EndsRound

-----------------------------------------------------------------------------
(* What the handlers and the callbacks do.                                 *)

LEMMA AuthorizeDoes ==
  ASSUME TypeOK, Authorize
  PROVE  \E c \in Calls : c.kind = "start" /\ c.live = TRUE /\ Asks(h, c)
<1>1. PICK s : s = [h EXCEPT !.finishing = FALSE]
  OBVIOUS
<1>2. s \in Connectors /\ Like(h, s)
  BY <1>1, FinishedIs DEF TypeOK, Like
<1>3. Ask(s, "start", tag, None) /\ tag \in Tokens /\ None \in Code
  BY <1>1 DEF Authorize, NewTag, TypeOK, Token, Code
<1>4. PICK c : c = Request("start", tag, None)
  OBVIOUS
<1>5. c \in Calls /\ Asks(s, c)
  BY <1>2, <1>3, <1>4, AskIs
<1>6. Asks(h, c)
  BY <1>2, <1>5, LikeAsks
<1> QED BY <1>4, <1>5, <1>6 DEF Request

LEMMA PreparingTagDoes ==
  ASSUME TypeOK, PreparingTag
  PROVE  \E c \in Calls : /\ c.kind = IF h.auth THEN "cancel" ELSE "start"
                          /\ c.live = TRUE /\ Asks(h, c)
<1>1. tag \in Tokens /\ None \in Code /\ h \in Connectors /\ h.code \in Code
  BY DEF PreparingTag, NewTag, TypeOK, Token, Code, Connectors
<1>2. CASE h.auth
  <2>1. Ask(h, "cancel", tag, h.code)
    BY <1>2 DEF PreparingTag
  <2>2. PICK c : c = Request("cancel", tag, h.code)
    OBVIOUS
  <2>3. c \in Calls /\ Asks(h, c)
    BY <1>1, <2>1, <2>2, AskIs
  <2> QED BY <1>2, <2>2, <2>3 DEF Request
<1>3. CASE ~h.auth
  <2>1. Ask(h, "start", tag, None)
    BY <1>3 DEF PreparingTag
  <2>2. PICK c : c = Request("start", tag, None)
    OBVIOUS
  <2>3. c \in Calls /\ Asks(h, c)
    BY <1>1, <2>1, <2>2, AskIs
  <2> QED BY <1>3, <2>2, <2>3 DEF Request
<1> QED BY <1>2, <1>3

LEMMA DuringTxDoes ==
  ASSUME TypeOK, DuringTx
  PROVE  \/ UNCHANGED <<h, calls>>
         \/ \E c \in Calls : /\ c.kind = "stop" /\ c.ref = h.code
                             /\ c.live = TRUE /\ Asks(h, c)
<1>1. CASE NewTag
  <2>1. tag \in Tokens /\ h \in Connectors /\ h.code \in Code
    BY <1>1 DEF NewTag, TypeOK, Token, Connectors
  <2>2. Ask(h, "stop", tag, h.code)
    BY <1>1 DEF DuringTx
  <2>3. PICK c : c = Request("stop", tag, h.code)
    OBVIOUS
  <2>4. c \in Calls /\ Asks(h, c)
    BY <2>1, <2>2, <2>3, AskIs
  <2> QED BY <2>3, <2>4 DEF Request
<1>2. CASE ~NewTag
  BY <1>2 DEF DuringTx
<1> QED BY <1>1, <1>2

LEMMA ReservedTagDoes ==
  ASSUME TypeOK, ReservedTag
  PROVE  \E c \in Calls : /\ c.kind = "reserved" /\ c.ref = resv
                          /\ c.live = TRUE /\ Asks(h, c)
<1>1. tag \in Tokens /\ h \in Connectors /\ resv \in Code
  BY DEF ReservedTag, NewTag, TypeOK, Token, Code
<1>2. Ask(h, "reserved", tag, resv)
  BY DEF ReservedTag
<1>3. PICK c : c = Request("reserved", tag, resv)
  OBVIOUS
<1>4. c \in Calls /\ Asks(h, c)
  BY <1>1, <1>2, <1>3, AskIs
<1> QED BY <1>3, <1>4 DEF Request

LEMMA GrantResult ==
  ASSUME NEW s \in Connectors, NEW r \in Connectors, Like(s, r), NEW c \in Calls,
         c.kind \in {"start", "reserved"}, c.kind = "reserved" => c.tok = c.ref,
         NEW u \in {Granted(r, c.tok), [r EXCEPT !.asking = FALSE]}
  PROVE  Result(s, u, c)
<1>1. c.tok \in Tokens /\ Related(c.tok, c.tok)
  BY DEF Calls, Related
<1>2. CASE u = Granted(r, c.tok)
  BY <1>1, <1>2, GrantedIs DEF Result, Like, Same
<1>3. CASE u = [r EXCEPT !.asking = FALSE]
  BY <1>3, AskingIs DEF Result, Like, Same
<1> QED BY <1>2, <1>3

LEMMA RemoteStartDoes ==
  ASSUME TypeOK, RemoteStart
  PROVE  \E c \in Calls :
            /\ \/ State(h) \in {"Available", "Preparing", "Finishing"} /\ c.kind = "start"
               \/ State(h) = "Reserved" /\ resv # None /\ c.kind = "reserved" /\ c.ref = resv
            /\ c.live = TRUE /\ Asks(h, c)
<1>1. PICK t \in Tokens, authorize \in BOOLEAN :
         LET st == State(h)
             s1 == [h EXCEPT !.finishing = FALSE]
         IN  \/ /\ st \in {"Available", "Preparing", "Finishing"}
                /\ IF authorize THEN Ask(s1, "start", t, None)
                   ELSE h' \in {Granted(s1, t), [s1 EXCEPT !.asking = FALSE]} /\ calls' = calls
             \/ /\ st = "Reserved" /\ resv # None
                /\ IF authorize THEN Ask(h, "reserved", t, resv)
                   ELSE t = resv /\ h' \in {Granted(h, t), [h EXCEPT !.asking = FALSE]} /\ calls' = calls
  BY DEF RemoteStart
<1>2. PICK s : s = [h EXCEPT !.finishing = FALSE]
  OBVIOUS
<1>3. s \in Connectors /\ Like(h, s) /\ h \in Connectors /\ Like(h, h)
  BY <1>2, FinishedIs DEF TypeOK, Like, Same
<1>4. None \in Code /\ resv \in Code
  BY DEF TypeOK, Token, Code
<1>5. CASE State(h) \in {"Available", "Preparing", "Finishing"}
  <2>1. IF authorize THEN Ask(s, "start", t, None)
        ELSE h' \in {Granted(s, t), [s EXCEPT !.asking = FALSE]} /\ calls' = calls
    BY <1>1, <1>2, <1>5
  <2>2. PICK c : c = Request("start", t, None)
    OBVIOUS
  <2>3. c \in Calls /\ c.kind = "start" /\ c.tok = t /\ c.live = TRUE
    BY <1>4, <2>2 DEF Request, Calls
  <2>4. CASE authorize
    <3>1. Asks(s, c)
      BY <1>3, <1>4, <2>1, <2>2, <2>4, AskIs
    <3> QED BY <1>3, <1>5, <2>3, <3>1, LikeAsks
  <2>5. CASE ~authorize
    BY <1>3, <1>5, <2>1, <2>3, <2>5, GrantResult DEF Asks
  <2> QED BY <2>4, <2>5
<1>6. CASE State(h) = "Reserved"
  <2>1. resv # None /\ IF authorize THEN Ask(h, "reserved", t, resv)
        ELSE t = resv /\ h' \in {Granted(h, t), [h EXCEPT !.asking = FALSE]} /\ calls' = calls
    BY <1>1, <1>6
  <2>2. PICK c : c = Request("reserved", t, resv)
    OBVIOUS
  <2>3. c \in Calls /\ c.kind = "reserved" /\ c.tok = t /\ c.ref = resv /\ c.live = TRUE
    BY <1>4, <2>2 DEF Request, Calls
  <2>4. CASE authorize
    <3>1. Asks(h, c)
      BY <1>3, <1>4, <2>1, <2>2, <2>4, AskIs
    <3> QED BY <1>6, <2>1, <2>3, <3>1
  <2>5. CASE ~authorize
    BY <1>3, <1>6, <2>1, <2>3, <2>5, GrantResult DEF Asks
  <2> QED BY <2>4, <2>5
<1> QED BY <1>1, <1>5, <1>6

LEMMA ReplyDoes ==
  ASSUME TypeOK, Reply
  PROVE  /\ calls # <<>> /\ calls' = Tail(calls) /\ Head(calls) \in Calls
         /\ Result(h, h', Head(calls))
         /\ ~Head(calls).live => "stale" \in taken'
<1>1. calls # <<>> /\ Head(calls) \in Calls
  BY DEF Reply, TypeOK
<1>2. Result(h, h', Head(calls))
  BY <1>1, OutcomeIs DEF Reply, TypeOK
<1> QED BY <1>1, <1>2 DEF Reply, Note, When

\* The answer to a start.
StartAnswered ==
    LET c == Head(starts)
    IN  /\ starts # <<>> /\ starts' = Tail(starts) /\ c \in Starts
        /\ h' \in Connectors /\ Same(h, h') /\ h'.code = c.tok
        /\ h'.asking = h.asking /\ h'.rfid = h.rfid
        /\ \/ h'.auth = h.auth /\ h'.by = h.by /\ h'.start = h.start /\ h'.reset = h.reset
           \/ /\ h.tx # None
              /\ h'.auth = FALSE /\ h'.by = None /\ h'.start = None /\ h'.reset = "initiated"
        /\ ~c.live /\ h.code # c.tok => "late" \in taken'

LEMMA StartReplyDoes ==
  ASSUME TypeOK, StartReply
  PROVE  StartAnswered
<1>1. PICK c : c = Head(starts)
  OBVIOUS
<1>2. starts # <<>> /\ starts' = Tail(starts) /\ c \in Starts
  BY <1>1 DEF StartReply, TypeOK
<1>3. PICK s : s = [h EXCEPT !.code = c.tok]
  OBVIOUS
<1>4. /\ s \in Connectors /\ Same(h, s) /\ s.auth = h.auth /\ s.by = h.by /\ s.start = h.start
      /\ s.code = c.tok /\ s.asking = h.asking /\ s.reset = h.reset /\ s.rfid = h.rfid
  BY <1>2, <1>3, RecodedIs DEF TypeOK, Starts
<1>5. /\ \E valid \in BOOLEAN : h' = IF c.live /\ h.tx # None /\ ~valid THEN Resetting(Revoked(s)) ELSE s
      /\ Note(When(~c.live /\ h.code # c.tok, "late"))
  BY <1>1, <1>3 DEF StartReply
<1>6. ~c.live /\ h.code # c.tok => "late" \in taken'
  BY <1>5 DEF Note, When
<1>7. CASE h' = s
  BY <1>1, <1>2, <1>4, <1>6, <1>7 DEF StartAnswered
<1>8. CASE h.tx # None /\ h' = Resetting(Revoked(s))
  <2>1. PICK r : r = Revoked(s)
    OBVIOUS
  <2>2. /\ r \in Connectors /\ Same(s, r) /\ r.auth = FALSE /\ r.by = None /\ r.start = None
        /\ r.code = c.tok /\ r.asking = h.asking /\ r.rfid = h.rfid
    BY <1>4, <2>1, RevokedIs
  <2>3. /\ h' \in Connectors /\ Same(r, h') /\ h'.auth = FALSE /\ h'.by = None /\ h'.start = None
        /\ h'.code = c.tok /\ h'.asking = h.asking /\ h'.rfid = h.rfid /\ h'.reset = "initiated"
    BY <1>8, <2>1, <2>2, ResettingIs
  <2>4. Same(h, h')
    BY <1>4, <2>2, <2>3 DEF Same
  <2> QED BY <1>1, <1>2, <1>6, <1>8, <2>3, <2>4 DEF StartAnswered
<1> QED BY <1>5, <1>7, <1>8

LEMMA RemoteStopDoes ==
  ASSUME TypeOK, RemoteStop
  PROVE  /\ h.tx # None /\ h' \in Connectors /\ Same(h, h')
         /\ h'.auth = FALSE /\ h'.by = None /\ h'.start = None /\ h'.code = h.code
         /\ h'.asking = h.asking /\ h'.rfid = h.rfid /\ h'.reset = "initiated"
<1>1. PICK r : r = Revoked(h)
  OBVIOUS
<1>2. /\ r \in Connectors /\ Same(h, r) /\ r.auth = FALSE /\ r.by = None /\ r.start = None
      /\ r.code = h.code /\ r.asking = h.asking /\ r.rfid = h.rfid
  BY <1>1, RevokedIs DEF TypeOK
<1>3. h.tx # None /\ h' = Resetting(r)
  BY <1>1 DEF RemoteStop
<1>4. /\ h' \in Connectors /\ Same(r, h') /\ h'.auth = FALSE /\ h'.by = None /\ h'.start = None
      /\ h'.code = h.code /\ h'.asking = h.asking /\ h'.rfid = h.rfid /\ h'.reset = "initiated"
  BY <1>2, <1>3, ResettingIs
<1> QED BY <1>2, <1>3, <1>4 DEF Same

LEMMA ConnectionTimeoutDoes ==
  ASSUME TypeOK, ConnectionTimeout
  PROVE  /\ h' \in Connectors /\ Same(h, h')
         /\ h'.auth = FALSE /\ h'.by = None /\ h'.code = None
         /\ h'.asking = h.asking /\ h'.rfid = h.rfid /\ h'.reset = "initiated"
<1>1. PICK r : r = Resetting(h)
  OBVIOUS
<1>2. /\ r \in Connectors /\ Same(h, r) /\ r.asking = h.asking /\ r.rfid = h.rfid /\ r.reset = "initiated"
  BY <1>1, ResettingIs DEF TypeOK
<1>3. h' = [r EXCEPT !.auth = FALSE, !.by = None, !.code = None]
  BY <1>1 DEF ConnectionTimeout
<1> QED BY <1>2, <1>3 DEF Same, Connectors, Token, Code

LEMMA RecoverDoes ==
  ASSUME TypeOK, Recover
  PROVE  /\ h' \in Connectors /\ h'.faulted = FALSE
         /\ h'.st = h.st /\ h'.exit = h.exit /\ h'.startup = h.startup /\ h'.tx = h.tx /\ h'.over = h.over
         /\ h'.open = h.open /\ h'.auth = h.auth /\ h'.by = h.by /\ h'.start = h.start /\ h'.code = h.code
         /\ h'.asking = h.asking /\ h'.reset = h.reset /\ h'.rfid = h.rfid
BY DEF TypeOK, Recover, Connectors

LEMMA ChangeAvailabilityDoes ==
  ASSUME TypeOK, ChangeAvailability
  PROVE  h' \in Connectors /\ Like(h, h')
<1>1. PICK b \in BOOLEAN : h' = [h EXCEPT !.sched = b]
  BY DEF ChangeAvailability, TypeOK
<1> QED BY <1>1 DEF TypeOK, Connectors, Like, Same

LEMMA RestartDoes ==
  ASSUME TypeOK, Restart
  PROVE  /\ h' \in Connectors /\ h'.st = "Unavailable" /\ h'.exit = "Unavailable"
         /\ h'.faulted = FALSE /\ h'.startup = TRUE /\ h'.auth = FALSE /\ h'.asking = FALSE
         /\ h'.start = None /\ h'.tx = None /\ h'.by = None /\ h'.rfid = None
         /\ h'.reset = None /\ h'.over = None
<1>1. CASE h' = Boot
  BY <1>1 DEF Boot, Connectors, Status, Modes, Token, Code, InTx
<1>2. CASE h' = [Boot EXCEPT !.open = TRUE, !.code = h.code]
  <2>1. h.code \in Code
    BY DEF TypeOK, Connectors
  <2> QED BY <1>2, <2>1 DEF Boot, Connectors, Status, Modes, Token, Code, InTx
<1> QED BY <1>1, <1>2 DEF Restart

-----------------------------------------------------------------------------
(* The types.                                                              *)

LEMMA TypeInit == Init => TypeOK
<1> SUFFICES ASSUME Init PROVE TypeOK
  OBVIOUS
<1>1. h \in Connectors
  BY DEF Init, Boot, Connectors, Status, Modes, Token, Code, InTx
<1>2. calls \in Seq(Calls) /\ starts \in Seq(Starts)
  BY DEF Init
<1>3. seen \in [mode : Modes, st : Status]
  BY DEF Init, Unread, Modes, Status
<1> QED BY <1>1, <1>2, <1>3 DEF Init, TypeOK, Token, Code

\* What becomes of h and the requests when one is made.
LEMMA AsksType ==
  ASSUME TypeOK, NEW c \in Calls, Asks(h, c)
  PROVE  h' \in Connectors /\ calls' \in Seq(Calls)
<1>1. h' \in Connectors
  BY DEF Asks, Result, Waits
<1>2. calls \in Seq(Calls)
  BY DEF TypeOK
<1>3. calls' = calls \/ calls' = Append(calls, c)
  BY DEF Asks
<1> QED BY <1>1, <1>2, <1>3

LEMMA ObserveType == ASSUME TypeOK, Observe PROVE TypeOK'
<1>1. PICK s \in Connectors, new \in BOOLEAN : Observes(s, new)
  BY ObserveDoes
<1>2. h' \in Connectors
  BY <1>1 DEF Observes, WarnedFrom
<1>3. store' \in Code
  BY <1>1 DEF Observes, Connectors, TypeOK
<1>4. starts' \in Seq(Starts)
  BY <1>1, StartsOutdated DEF Observes, TypeOK
<1>5. seen' \in [mode : Modes, st : Status]
  <2>1. Mode(h) \in Modes /\ State(s) \in Status /\ "Faulted" \in Status
    BY ModeIs, StateIs DEF TypeOK, Status
  <2>2. seen' = [mode |-> Mode(h), st |-> IF new THEN "Faulted" ELSE State(s)]
    BY <1>1 DEF Observes
  <2> QED BY <2>1, <2>2
<1>6. pc' = "act" /\ UNCHANGED <<resv, oper, regd, own, mcu, odd, told, energy, limit, warn, tag, calls>>
  BY DEF Observe
<1> QED BY <1>2, <1>3, <1>4, <1>5, <1>6 DEF TypeOK

LEMMA EnterType == ASSUME TypeOK, Enter PROVE TypeOK'
<1>1. Enters(Entered)
  BY EnterDoes
<1>2. h' \in Connectors /\ h'.tx \in Code
  BY <1>1 DEF Enters, Connectors
<1>3. calls' \in Seq(Calls)
  BY EnterDoes, CallsOutdated DEF TypeOK
<1>4. starts' \in Seq(Starts)
  <2>1. PICK os : os = Outdated(starts, {"tx"})
    OBVIOUS
  <2>2. os \in Seq(Starts)
    BY <2>1, StartsOutdated DEF TypeOK
  <2>3. [kind |-> "tx", tok |-> h'.tx, live |-> TRUE] \in Starts
    BY <1>2 DEF Starts
  <2>4. starts' \in {Append(os, [kind |-> "tx", tok |-> h'.tx, live |-> TRUE]), os, starts}
    BY <2>1, EnterDoes
  <2>5. starts \in Seq(Starts)
    BY DEF TypeOK
  <2> QED BY <2>2, <2>3, <2>4, <2>5
<1>5. own' \in BOOLEAN /\ resv' \in Token /\ store' \in Code /\ told' \in {told, "start"} /\ pc' = "end"
  BY <1>1, <1>2 DEF Enters, TypeOK, Token
<1>6. UNCHANGED <<seen, oper, regd, mcu, odd, energy, limit, warn, tag>>
  BY DEF Enter
<1> QED BY <1>2, <1>3, <1>4, <1>5, <1>6 DEF TypeOK

LEMMA HandlerType == ASSUME TypeOK, Handler PROVE TypeOK'
<1>1. /\ UNCHANGED Kept /\ pc' = "end" /\ tag' \in {tag, None}
      /\ told' \in {told, "start"} /\ limit' \in {limit, TRUE}
  BY DEF Handler, Authorize, StartCharging, PreparingTag, ConnectionTimeout, DuringTx, ReservedTag,
         Recover, NothingToDo, Handling
<1>2. h' \in Connectors /\ calls' \in Seq(Calls)
  <2>1. CASE Authorize
    BY <2>1, AuthorizeDoes, AsksType
  <2>2. CASE StartCharging
    <3>1. calls' = Outdated(calls, {"cancel"}) /\ h' = h
      BY <2>2 DEF StartCharging
    <3> QED BY <3>1, CallsOutdated DEF TypeOK
  <2>3. CASE PreparingTag
    BY <2>3, PreparingTagDoes, AsksType
  <2>4. CASE ConnectionTimeout
    BY <2>4, ConnectionTimeoutDoes DEF ConnectionTimeout, TypeOK
  <2>5. CASE DuringTx
    BY <2>5, DuringTxDoes, AsksType DEF TypeOK
  <2>6. CASE ReservedTag
    BY <2>6, ReservedTagDoes, AsksType
  <2>7. CASE Recover
    BY <2>7, RecoverDoes DEF Recover, TypeOK
  <2>8. CASE NothingToDo
    BY <2>8 DEF NothingToDo, TypeOK
  <2> QED BY <2>1, <2>2, <2>3, <2>4, <2>5, <2>6, <2>7, <2>8 DEF Handler
<1> QED BY <1>1, <1>2 DEF TypeOK, Kept, Token

LEMMA EndLoopType == ASSUME TypeOK, EndLoop PROVE TypeOK'
<1>1. EndsRound
  BY EndLoopDoes
<1>2. UNCHANGED <<regd, energy, limit>>
  BY DEF EndLoop
<1> QED BY <1>1, <1>2 DEF EndsRound, TypeOK, Token

LEMMA CallbackType == ASSUME TypeOK, Callback PROVE TypeOK'
<1>1. CASE Reply
  <2>1. h' \in Connectors /\ calls # <<>> /\ calls' = Tail(calls)
    BY <1>1, ReplyDoes DEF Result
  <2>2. calls \in Seq(Calls)
    BY DEF TypeOK
  <2>3. calls' \in Seq(Calls)
    BY <2>1, <2>2
  <2> QED BY <1>1, <2>1, <2>3 DEF Reply, Elsewhere, TypeOK
<1>2. CASE StartReply
  <2>1. h' \in Connectors /\ starts # <<>> /\ starts' = Tail(starts)
    BY <1>2, StartReplyDoes DEF StartAnswered
  <2>2. starts \in Seq(Starts)
    BY DEF TypeOK
  <2>3. starts' \in Seq(Starts)
    BY <2>1, <2>2
  <2> QED BY <1>2, <2>1, <2>3 DEF StartReply, Elsewhere, TypeOK
<1>3. CASE RemoteStart
  <2>1. h' \in Connectors /\ calls' \in Seq(Calls)
    BY <1>3, RemoteStartDoes, AsksType
  <2> QED BY <1>3, <2>1 DEF RemoteStart, Elsewhere, TypeOK
<1>4. CASE RemoteStop
  BY <1>4, RemoteStopDoes DEF RemoteStop, Elsewhere, TypeOK
<1>5. CASE Reserve \/ Unreserve
  <2>1. calls' = calls \/ calls' = Outdated(calls, {"reserved"})
    BY <1>5 DEF Reserve, Unreserve
  <2>2. calls' \in Seq(Calls)
    BY <2>1, CallsOutdated DEF TypeOK
  <2>3. resv' \in Token
    BY <1>5 DEF Reserve, Unreserve, Token
  <2> QED BY <1>5, <2>2, <2>3 DEF Reserve, Unreserve, Elsewhere, TypeOK
<1>6. CASE ChangeAvailability
  <2>1. own' \in BOOLEAN
    BY <1>6 DEF ChangeAvailability, TypeOK
  <2> QED BY <1>6, <2>1, ChangeAvailabilityDoes DEF ChangeAvailability, Elsewhere, TypeOK
<1>7. CASE SetChargingVariables
  BY <1>7 DEF SetChargingVariables, TypeOK
<1> QED BY <1>1, <1>2, <1>3, <1>4, <1>5, <1>6, <1>7 DEF Callback

LEMMA WorldType == ASSUME TypeOK, World PROVE TypeOK'
<1>1. CASE ShowTag \/ Connect \/ Disconnect \/ McuObeys \/ CarDraws
  BY <1>1 DEF ShowTag, Connect, Disconnect, McuObeys, CarDraws, Software, TypeOK, Token
<1>2. CASE Report \/ Warnings
  BY <1>2 DEF Report, Warnings, Software, TypeOK, Alarms
<1>3. CASE Disable
  BY <1>3 DEF Disable, Software, TypeOK
<1>4. CASE Restart
  <2>1. h' \in Connectors /\ pc' = "observe" /\ calls' \in Seq(Calls) /\ tag' \in Token
    BY <1>4, RestartDoes DEF Restart, Token
  <2>2. seen' \in [mode : Modes, st : Status]
    BY <1>4 DEF Restart, Unread, Modes, Status
  <2>3. UNCHANGED <<store, resv, oper, regd, own, mcu, odd, told, energy, limit, warn, starts>>
    BY <1>4 DEF Restart
  <2> QED BY <2>1, <2>2, <2>3 DEF TypeOK
<1> QED BY <1>1, <1>2, <1>3, <1>4 DEF World

LEMMA TypeStep == ASSUME TypeOK, [Next]_vars PROVE TypeOK'
<1>1. CASE UNCHANGED vars
  BY <1>1 DEF vars, TypeOK
<1> QED BY <1>1, ObserveType, EnterType, HandlerType, EndLoopType, CallbackType, WorldType
        DEF Next, Loop

-----------------------------------------------------------------------------
(* What holds whatever the risks.                                          *)

Busy == InTx \cup {"Preparing"}
Ready == {"Available", "Preparing"}

\* A charger that starts has neither a transaction nor an authorisation.
Starting == h.startup => /\ h.st = "Unavailable" /\ h.tx = None /\ h.reset = None
                         /\ calls = <<>> /\ h.auth = FALSE
                         /\ (pc = "act" => seen.st = "Unavailable")
OnFile == ~h.startup => store = h.tx
Overruled == h.over # None => h.reset # None
\* A fault is entered in the round that takes it up, and left for the status it began in.
Faulting ==
    /\ h.faulted /\ h.st # "Faulted" => pc = "act" /\ seen.st = "Faulted" /\ h.exit = h.st
    /\ pc = "act" /\ h.st # "Faulted" /\ seen.st = "Faulted" => h.faulted
    /\ pc = "act" /\ h.st = "Faulted"
       => seen.st \in {"Faulted", h.exit} /\ (h.faulted => seen.st = "Faulted")
\* A status of use is not computed while the session is reset.
Unreset == pc = "act" /\ h.st # "Faulted" /\ seen.st \in Busy => h.reset \in {None, "initiated"}
GrantedBy == /\ h.auth = (h.by # None)
             /\ h.auth => h.start = h.by
\* A start that counts is the one of the transaction on file.
Current == \A i \in DOMAIN starts : starts[i].live => starts[i].tok = store

Sound == Starting /\ OnFile /\ Overruled /\ Faulting /\ Unreset /\ GrantedBy /\ Current

LEMMA Fields ==
  ASSUME NEW s \in Connectors
  PROVE  /\ {s.auth, s.startup, s.faulted, s.asking, s.open} \subseteq BOOLEAN
         /\ s.st \in Status /\ s.exit \in Status /\ s.reset \in {None, "initiated", "stopSent", "finalize", "doReset", "wait"}
         /\ s.by \in Token /\ s.start \in Token /\ s.rfid \in Token /\ s.tx \in Code /\ s.code \in Code
         /\ s.over \in {None, "paused", "disconnected"}
BY DEF Connectors

\* A step of a handler, or of a callback.
LEMMA SoundKept ==
  ASSUME TypeOK, Sound, h' \in Connectors, Same(h, h'), UNCHANGED <<seen, store, starts>>,
         pc' = pc \/ (pc' = "end" /\ seen.st = h.st),
         h'.reset \in {h.reset, "initiated"},
         h.startup => h'.reset = None /\ h'.auth = FALSE /\ calls' = <<>>,
         h'.auth = (h'.by # None) /\ (h'.auth => h'.start = h'.by)
  PROVE  Sound'
<1> USE Fields
<1>1. Starting'
  BY DEF TypeOK, Sound, Starting, Same
<1>2. OnFile' /\ Overruled'
  BY DEF TypeOK, Sound, OnFile, Overruled, Same, None
<1>3. Faulting'
  BY DEF TypeOK, Sound, Faulting, Same
<1>4. Unreset'
  BY DEF TypeOK, Sound, Unreset, Same
<1>5. GrantedBy'
  BY DEF GrantedBy
<1>6. Current'
  BY DEF Sound, Current
<1> QED BY <1>1, <1>2, <1>3, <1>4, <1>5, <1>6 DEF Sound

\* A request is made, or answered.
LEMMA SoundAsks ==
  ASSUME TypeOK, Sound, NEW c \in Calls, ~h.startup,
         UNCHANGED <<seen, store, starts>>,
         pc' = pc \/ (pc' = "end" /\ seen.st = h.st),
         Result(h, h', c) \/ Waits(h, h', c)
  PROVE  Sound'
<1>1. c.tok \in Tokens /\ c.tok # None
  BY ConnectorAssumption DEF Calls, None
<1>2. GrantedBy
  BY DEF Sound
<1>3. h' \in Connectors /\ Same(h, h') /\ h'.reset \in {h.reset, "initiated"}
  BY DEF Result, Waits, Like
<1>4. h'.auth = (h'.by # None) /\ (h'.auth => h'.start = h'.by)
  BY <1>1, <1>2 DEF Result, Waits, Like, GrantedBy
<1> QED BY <1>3, <1>4, SoundKept

LEMMA SoundInit == Init => Sound
<1> SUFFICES ASSUME Init PROVE Sound
  OBVIOUS
<1>1. /\ h.st = "Unavailable" /\ h.tx = None /\ h.reset = None /\ h.auth = FALSE /\ h.startup = TRUE
      /\ h.over = None /\ h.faulted = FALSE /\ h.by = None /\ calls = <<>> /\ starts = <<>>
      /\ pc = "observe" /\ store = None
  BY DEF Init, Boot
<1>2. \A i \in DOMAIN starts : FALSE
  BY <1>1
<1> QED BY <1>1, <1>2 DEF Sound, Starting, OnFile, Overruled, Faulting, Unreset, GrantedBy, Current

LEMMA SoundObserve == ASSUME TypeOK, Sound, Observe PROVE Sound'
<1>1. PICK s \in Connectors, new \in BOOLEAN : Observes(s, new)
  BY ObserveDoes
<1>2. h \in Connectors /\ h' \in Connectors /\ pc' = "act" /\ UNCHANGED calls
  BY <1>1 DEF Observes, WarnedFrom, TypeOK
<1>3. seen'.st = IF new THEN "Faulted" ELSE State(s)
  BY <1>1 DEF Observes
<1>4. Starting'
  <2> SUFFICES ASSUME h'.startup
               PROVE  h'.st = "Unavailable" /\ h'.tx = None /\ h'.reset = None
                      /\ calls' = <<>> /\ h'.auth = FALSE /\ seen'.st = "Unavailable"
    BY <1>2 DEF Starting
  <2>1. s.startup /\ ~new
    BY <1>1 DEF Observes, WarnedFrom
  <2>2. s = h
    BY <1>1, <2>1 DEF Observes, LoadedFrom
  <2>3. /\ h'.st = h.st /\ h'.tx = h.tx /\ h'.reset = h.reset /\ h'.auth = h.auth /\ h.startup
        /\ h'.faulted = h.faulted
    BY <1>1, <2>1, <2>2 DEF Observes, WarnedFrom
  <2>4. ~h.faulted
    BY <1>1, <2>3 DEF Observes, Sound, Faulting, Starting
  <2> QED BY <1>2, <1>3, <2>1, <2>2, <2>3, <2>4 DEF Sound, Starting, State
<1>5. OnFile'
  BY <1>1 DEF Observes, WarnedFrom, LoadedFrom, Sound, OnFile
<1>6. s.over = h.over /\ s.reset = h.reset /\ h'.over = h.over /\ h'.reset = h.reset /\ h'.st = h.st
      /\ s.st = h.st /\ s.faulted = h.faulted /\ s.exit = h.exit
  BY <1>1 DEF Observes, WarnedFrom, LoadedFrom
<1>7. Overruled'
  BY <1>6 DEF Sound, Overruled
<1>8. Faulting'
  <2>1. /\ h'.faulted = (h.faulted \/ new) /\ h'.exit = IF new THEN h.st ELSE h.exit
    BY <1>1, <1>2, <1>6, Fields DEF WarnedFrom, Observes
  <2>2. h.faulted => h.st = "Faulted"
    BY <1>1 DEF Observes, Sound, Faulting
  <2> QED BY <1>2, <1>3, <1>6, <2>1, <2>2, StateOf DEF Faulting
<1>9. Unreset'
  BY <1>2, <1>3, <1>6, Fields DEF Unreset, State, Busy, InTx
<1>10. GrantedBy'
  BY <1>1, <1>2, Fields DEF Observes, WarnedFrom, LoadedFrom, Sound, GrantedBy, Starting
<1>11. Current'
  <2>1. CASE store' = store
    BY <1>1, <2>1 DEF Observes, Sound, Current
  <2>2. CASE store' # store
    <3>1. starts' = Outdated(starts, {"tx"}) /\ starts \in Seq(Starts)
      BY <1>1, <2>2 DEF Observes, TypeOK
    <3>3. \A i \in DOMAIN starts' : starts'[i].live = FALSE
      BY <3>1, NoneCurrent
    <3> QED BY <3>3 DEF Current
  <2> QED BY <2>1, <2>2
<1> QED BY <1>4, <1>5, <1>7, <1>8, <1>9, <1>10, <1>11 DEF Sound

LEMMA SoundEnter == ASSUME TypeOK, Sound, Enter PROVE Sound'
<1> DEFINE new == Entered
<1>1. Enters(new)
  BY EnterDoes
<1> HIDE DEF new
<1>2. h \in Connectors /\ h' \in Connectors /\ pc = "act" /\ pc' = "end"
  BY <1>1 DEF Enters, TypeOK
<1>3. Starting'
  BY <1>1, <1>2 DEF Enters, Sound, Starting
<1>4. OnFile'
  BY <1>1 DEF Enters, Sound, OnFile
<1>5. Overruled' /\ Unreset'
  BY <1>1, <1>2 DEF Enters, Sound, Overruled, Unreset
<1>6. Faulting'
  BY <1>1, <1>2 DEF Enters, Sound, Faulting
<1>7. GrantedBy'
  BY <1>1 DEF Enters, Sound, GrantedBy
<1>8. Current'
  <2>1. PICK os : os = Outdated(starts, {"tx"})
    OBVIOUS
  <2>2. starts \in Seq(Starts)
    BY DEF TypeOK
  <2>3. os \in Seq(Starts) /\ \A i \in DOMAIN os : os[i].live = FALSE
    BY <2>1, <2>2, NoneCurrent
  <2>4. CASE Begins(h.st, new)
    <3>1. PICK e : e = [kind |-> "tx", tok |-> h'.tx, live |-> TRUE]
      OBVIOUS
    <3>2. starts' = Append(os, e) /\ e.tok = store'
      BY <1>1, <2>1, <2>4, <3>1, EnterDoes DEF new, Enters
    <3>3. \A i \in DOMAIN starts' : starts'[i] = e \/ (i \in DOMAIN os /\ starts'[i] = os[i])
      BY <2>3, <3>2
    <3> QED BY <2>3, <3>2, <3>3 DEF Current
  <2>5. CASE ~Begins(h.st, new) /\ Ends(h.st, new)
    BY <2>1, <2>3, <2>5, EnterDoes DEF new, Current
  <2>6. CASE ~Begins(h.st, new) /\ ~Ends(h.st, new)
    BY <1>1, <2>6, EnterDoes DEF new, Enters, Sound, Current
  <2> QED BY <2>4, <2>5, <2>6
<1> QED BY <1>3, <1>4, <1>5, <1>6, <1>7, <1>8 DEF Sound

LEMMA SoundHandler == ASSUME TypeOK, Sound, Handler PROVE Sound'
<1>1. /\ UNCHANGED <<seen, store, starts>> /\ pc = "act" /\ pc' = "end" /\ seen.st = h.st
  BY DEF Handler, Authorize, StartCharging, PreparingTag, ConnectionTimeout, DuringTx, ReservedTag,
         Recover, NothingToDo, Handling, Kept
<1>2. Starting /\ GrantedBy /\ h \in Connectors
  BY DEF Sound, TypeOK
<1>3. CASE Authorize
  <2>1. ~h.startup
    BY <1>2, <1>3 DEF Authorize, Handling, Starting
  <2> QED BY <1>1, <1>3, <2>1, AuthorizeDoes, SoundAsks DEF Asks
<1>4. CASE UNCHANGED h
  <2>1. h.startup => calls' = <<>> /\ h'.reset = None /\ h'.auth = FALSE
    <3>1. CASE calls' = calls
      BY <1>2, <1>4, <3>1 DEF Starting
    <3>2. CASE StartCharging
      BY <1>2, <3>2 DEF Starting, StartCharging, Handling
    <3>3. CASE calls' # calls /\ ~StartCharging
      <4>1. h.st # "Unavailable"
        BY <3>3 DEF Handler, Authorize, PreparingTag, ConnectionTimeout, DuringTx, ReservedTag,
                    Recover, NothingToDo, Handling, InTx
      <4> QED BY <1>2, <4>1 DEF Starting
    <3> QED BY <3>1, <3>2, <3>3
  <2> QED BY <1>1, <1>2, <1>4, <2>1, SoundKept DEF Same, GrantedBy
<1>5. CASE PreparingTag
  <2>1. ~h.startup
    BY <1>2, <1>5 DEF PreparingTag, Handling, Starting
  <2> QED BY <1>1, <1>5, <2>1, PreparingTagDoes, SoundAsks DEF Asks
<1>6. CASE ConnectionTimeout
  <2>1. ~h.startup
    BY <1>2, <1>6 DEF ConnectionTimeout, Handling, Starting
  <2> QED BY <1>1, <1>6, <2>1, ConnectionTimeoutDoes, SoundKept
<1>7. CASE DuringTx
  <2>1. ~h.startup
    BY <1>2, <1>7 DEF DuringTx, Handling, Starting, InTx
  <2> QED BY <1>1, <1>4, <1>7, <2>1, DuringTxDoes, SoundAsks DEF Asks
<1>8. CASE ReservedTag
  <2>1. ~h.startup
    BY <1>2, <1>8 DEF ReservedTag, Handling, Starting
  <2> QED BY <1>1, <1>8, <2>1, ReservedTagDoes, SoundAsks DEF Asks
<1>9. CASE Recover
  <2>1. ~h.startup /\ h.st = "Faulted"
    BY <1>2, <1>9 DEF Recover, Handling, Starting
  <2> QED BY <1>1, <1>2, <1>9, <2>1, RecoverDoes
          DEF Sound, Starting, OnFile, Overruled, Faulting, Unreset, GrantedBy, Current
<1>10. CASE StartCharging \/ NothingToDo
  BY <1>4, <1>10 DEF StartCharging, NothingToDo
<1> QED BY <1>3, <1>5, <1>6, <1>7, <1>8, <1>9, <1>10 DEF Handler

LEMMA SoundEndLoop == ASSUME TypeOK, Sound, EndLoop PROVE Sound'
<1>1. EndsRound
  BY EndLoopDoes
<1>2. h \in Connectors /\ h' \in Connectors
  BY <1>1 DEF EndsRound, TypeOK
<1>3. Starting'
  BY <1>1 DEF EndsRound, Sound, Starting, None
<1>4. OnFile' /\ GrantedBy' /\ Current'
  BY <1>1 DEF EndsRound, Sound, OnFile, GrantedBy, Current
<1>5. Overruled'
  BY <1>1 DEF EndsRound, Sound, Overruled, None
<1>6. Faulting' /\ Unreset'
  BY <1>1 DEF EndsRound, Sound, Faulting, Unreset
<1> QED BY <1>3, <1>4, <1>5, <1>6 DEF Sound

LEMMA SoundCallback == ASSUME TypeOK, Sound, Callback PROVE Sound'
<1>1. Starting /\ GrantedBy /\ h \in Connectors
  BY DEF Sound, TypeOK
<1>2. CASE Reply
  <2>1. calls # <<>> /\ Head(calls) \in Calls /\ Result(h, h', Head(calls))
    BY <1>2, ReplyDoes
  <2>2. ~h.startup
    BY <1>1, <2>1 DEF Starting
  <2>3. UNCHANGED <<seen, store, starts, pc>>
    BY <1>2 DEF Reply, Elsewhere
  <2> QED BY <2>1, <2>2, <2>3, SoundAsks
<1>3. CASE StartReply
  <2>1. StartAnswered /\ UNCHANGED <<seen, store, pc, calls>>
    BY <1>3, StartReplyDoes DEF StartReply, Elsewhere
  <2>2. h' \in Connectors /\ Same(h, h')
    BY <2>1 DEF StartAnswered
  <2>3. \/ h'.auth = h.auth /\ h'.by = h.by /\ h'.start = h.start /\ h'.reset = h.reset
        \/ h.tx # None /\ h'.auth = FALSE /\ h'.by = None /\ h'.start = None /\ h'.reset = "initiated"
    BY <2>1 DEF StartAnswered
  <2>4. Starting' /\ OnFile' /\ Overruled' /\ Faulting' /\ Unreset' /\ GrantedBy'
    BY <1>1, <2>1, <2>2, <2>3, Fields DEF Sound, Starting, OnFile, Overruled, Faulting, Unreset, GrantedBy, Same, None
  <2>5. Current'
    <3>1. starts \in Seq(Starts) /\ starts # <<>> /\ starts' = Tail(starts)
      BY <2>1 DEF StartAnswered, TypeOK
    <3>2. \A i \in DOMAIN starts' : i + 1 \in DOMAIN starts /\ starts'[i] = starts[i + 1]
      BY <3>1
    <3> QED BY <2>1, <3>2 DEF Sound, Current
  <2> QED BY <2>4, <2>5 DEF Sound
<1>4. CASE RemoteStart
  <2>1. PICK c \in Calls :
            /\ \/ State(h) \in {"Available", "Preparing", "Finishing"} /\ c.kind = "start"
               \/ State(h) = "Reserved" /\ resv # None /\ c.kind = "reserved" /\ c.ref = resv
            /\ c.live = TRUE /\ Asks(h, c)
    BY <1>4, RemoteStartDoes
  <2>2. ~h.startup
    BY <1>1, <2>1 DEF Starting, State
  <2>3. UNCHANGED <<seen, store, starts, pc>>
    BY <1>4 DEF RemoteStart, Elsewhere
  <2> QED BY <2>1, <2>2, <2>3, SoundAsks DEF Asks
<1>5. CASE RemoteStop
  <2>1. UNCHANGED <<seen, store, starts, pc, calls>>
    BY <1>5 DEF RemoteStop, Elsewhere
  <2>2. ~h.startup
    BY <1>1, <1>5 DEF Starting, RemoteStop
  <2> QED BY <1>5, <2>1, <2>2, RemoteStopDoes, SoundKept
<1>6. CASE Reserve \/ Unreserve \/ ChangeAvailability \/ SetChargingVariables
  <2>1. UNCHANGED <<seen, store, starts, pc>> /\ Like(h, h') /\ h' \in Connectors
    BY <1>1, <1>6, ChangeAvailabilityDoes
       DEF Reserve, Unreserve, ChangeAvailability, SetChargingVariables, Elsewhere, Like, Same
  <2>2. h.startup => calls' = <<>>
    BY <1>1, <1>6 DEF Starting, Reserve, Unreserve, ChangeAvailability, SetChargingVariables, Outdated, State
  <2> QED BY <1>1, <2>1, <2>2, SoundKept DEF Like, GrantedBy, Starting
<1> QED BY <1>2, <1>3, <1>4, <1>5, <1>6 DEF Callback

LEMMA SoundWorld == ASSUME TypeOK, Sound, World PROVE Sound'
<1>1. CASE ShowTag \/ Connect \/ Disconnect \/ McuObeys \/ CarDraws \/ Report \/ Warnings \/ Disable
  <2>1. UNCHANGED <<h, pc, seen, store, calls, starts>>
    BY <1>1 DEF ShowTag, Connect, Disconnect, McuObeys, CarDraws, Report, Warnings, Disable, Software
  <2> QED BY <2>1 DEF Sound, Starting, OnFile, Overruled, Faulting, Unreset, GrantedBy, Current
<1>2. CASE Restart
  <2>1. pc' = "observe" /\ calls' = <<>> /\ UNCHANGED <<store, starts>>
    BY <1>2 DEF Restart
  <2> QED BY <1>2, <2>1, RestartDoes
          DEF Sound, Starting, OnFile, Overruled, Faulting, Unreset, GrantedBy, Current
<1> QED BY <1>1, <1>2 DEF World

-----------------------------------------------------------------------------
(* The transaction, the status and the MCU agree.                          *)

\* The status, or the one a fault has interrupted.
Status0 == IF h.st = "Faulted" THEN h.exit ELSE h.st
Live == mcu \in Drawing \/ told = "start"
Stopping == h.reset \in {"initiated", "stopSent", "finalize", "doReset"} \/ told = "reset"

R1 == {"race", "nack", "disable", "sched", "gap", "mode"}

\* A connector in use is in operation.
Usable == ~own \/ ~oper => Status0 \notin Busy /\ (pc = "act" => seen.st \notin Busy)

Exited == h.st = "Faulted" => h.exit # "Faulted"

Agree ==
    /\ odd = None
    /\ Status0 \in InTx => h.tx # None
    /\ h.tx # None => \/ Status0 \in InTx \cup {"Faulted"}
                      \/ pc = "act" /\ h.st = "Unavailable" /\ seen.st \in InTx
    /\ store # None => resv = None /\ oper /\ own
    /\ Live => \/ h.tx # None \/ (h.startup /\ store # None)
               \/ Status0 \in {"Preparing", "Faulted"} \/ Stopping
    /\ pc = "act" /\ seen.st \notin {h.st, "Faulted"}
       => /\ h.st \in InTx => seen.st \in InTx \cup {"Available", "Finishing"}
          /\ seen.st \in InTx /\ h.tx = None => h.st \in Ready
          /\ seen.st \notin Busy /\ h.st \in Busy => ~Live \/ Stopping
    /\ h.reset = "wait" => ~Live \/ told = "reset"

\* What a round of the loop sees.
Observed ==
    /\ pc = "observe" /\ pc' = "act" /\ told \in {None, "stop"}
    /\ UNCHANGED <<resv, oper, own, mcu, odd, told, calls>>
    /\ h \in Connectors /\ h' \in Connectors
    /\ h'.st = h.st /\ h'.reset = h.reset /\ h'.over = h.over /\ h'.asking = h.asking
    /\ h'.by = h.by /\ h'.start = h.start /\ h'.rfid = h.rfid /\ h'.open = h.open
    /\ \/ h'.exit = h.exit
       \/ h'.exit = h.st /\ (h.st = "Faulted" => "flap" \in taken')
    /\ \/ UNCHANGED store /\ h'.tx = h.tx /\ h'.auth = h.auth /\ h'.code = h.code /\ h'.startup = h.startup
       \/ /\ h.startup /\ ~h'.startup /\ h'.auth = FALSE /\ store' = h'.tx
          /\ h'.tx # None => h'.tx = store /\ h'.code = store /\ (odd = None => mcu \in Drawing)
          /\ store # None /\ odd = None /\ mcu \in Drawing => h'.tx = store
          /\ h'.tx # None /\ seen'.st = "Faulted" => "gap" \in taken'
    /\ h.st = "Faulted" => seen'.st \in {"Faulted", h.exit}
    /\ h.st # "Faulted" /\ seen'.st # "Faulted"
       => /\ h.reset # None => seen'.st = "Finishing"
          /\ h.reset = None /\ (h'.startup \/ ~oper \/ ~own) => seen'.st = "Unavailable"
          /\ h.reset = None /\ ~h'.startup /\ oper /\ own /\ odd = None => Serves(h', seen'.st)

LEMMA ObservedIs == ASSUME TypeOK, Sound, Observe PROVE Observed
<1>1. PICK s \in Connectors, new \in BOOLEAN : Observes(s, new)
  BY ObserveDoes
<1>2. h \in Connectors /\ h' \in Connectors /\ pc = "observe" /\ pc' = "act" /\ told \in {None, "stop"}
      /\ UNCHANGED <<resv, oper, own, mcu, odd, told, calls>>
  BY <1>1 DEF Observes, WarnedFrom, TypeOK
<1>3. seen'.st = IF new THEN "Faulted" ELSE State(s)
  BY <1>1 DEF Observes
<1>4. /\ s.st = h.st /\ s.reset = h.reset /\ s.over = h.over /\ s.asking = h.asking
      /\ s.by = h.by /\ s.start = h.start /\ s.rfid = h.rfid /\ s.open = h.open
      /\ s.faulted = h.faulted /\ s.exit = h.exit
  BY <1>1 DEF Observes, LoadedFrom
<1>5. /\ h'.st = s.st /\ h'.reset = s.reset /\ h'.over = s.over /\ h'.asking = s.asking
      /\ h'.by = s.by /\ h'.start = s.start /\ h'.rfid = s.rfid /\ h'.open = s.open
      /\ h'.tx = s.tx /\ h'.auth = s.auth /\ h'.code = s.code /\ h'.startup = s.startup
      /\ (new => h'.exit = s.st) /\ (~new => h'.exit = s.exit)
  BY <1>1 DEF Observes, WarnedFrom
<1>6. h.faulted => h.st = "Faulted"
  BY <1>2 DEF Sound, Faulting
<1>7. \/ UNCHANGED store /\ h'.tx = h.tx /\ h'.auth = h.auth /\ h'.code = h.code /\ h'.startup = h.startup
      \/ /\ h.startup /\ ~h'.startup /\ h'.auth = FALSE /\ store' = h'.tx
         /\ h'.tx # None => h'.tx = store /\ h'.code = store /\ (odd = None => mcu \in Drawing)
         /\ store # None /\ odd = None /\ mcu \in Drawing => h'.tx = store
         /\ h'.tx # None /\ seen'.st = "Faulted" => "gap" \in taken'
  <2>1. CASE h.startup /\ ~s.startup
    <3>1. LoadedFrom(h, s) /\ store' = s.tx
      BY <1>1, <2>1 DEF Observes
    <3>2. h.st = "Unavailable" /\ h.reset = None /\ h.over = None /\ h.tx = None
      BY <2>1 DEF Sound, Starting, Overruled
    <3>3. odd = None => (Mode(h) \in {"charging", "paused"} <=> mcu \in Drawing)
      BY <3>2 DEF Mode, TypeOK, Drawing
    <3>4. seen'.st = "Faulted" => new
      BY <1>2, <1>3, <1>4, <1>6, <3>2, StateOf
    <3>5. new /\ s.tx # None => "gap" \in taken'
      BY <1>1, <2>1 DEF Observes
    <3> QED BY <1>5, <2>1, <3>1, <3>2, <3>3, <3>4, <3>5 DEF LoadedFrom
  <2>2. CASE ~(h.startup /\ ~s.startup)
    BY <1>1, <1>5, <2>2 DEF Observes
  <2> QED BY <2>1, <2>2
<1>8. h'.exit = h.exit \/ (h'.exit = h.st /\ (h.st = "Faulted" => "flap" \in taken'))
  BY <1>1, <1>4, <1>5 DEF Observes
<1>9. h.st = "Faulted" => seen'.st \in {"Faulted", h.exit}
  BY <1>2, <1>3, <1>4, Fields, StateOf
<1>10. ASSUME h.st # "Faulted", seen'.st # "Faulted"
       PROVE  /\ h.reset # None => seen'.st = "Finishing"
              /\ h.reset = None /\ (h'.startup \/ ~oper \/ ~own) => seen'.st = "Unavailable"
              /\ h.reset = None /\ ~h'.startup /\ oper /\ own /\ odd = None => Serves(h', seen'.st)
  <2>1. seen'.st = State(s) /\ ~s.faulted /\ s.st # "Faulted"
    BY <1>3, <1>4, <1>6, <1>10
  <2>2. h.reset = None => h.over = None
    BY DEF Sound, Overruled
  <2>3. Serves(s, State(s)) => Serves(h', State(s))
    BY <1>5 DEF Serves
  <2> QED BY <1>4, <1>5, <2>1, <2>2, <2>3, StateServes
<1> QED BY <1>2, <1>4, <1>5, <1>7, <1>8, <1>9, <1>10 DEF Observed

LEMMA AgreeInit == Init => Usable /\ Exited /\ Agree
<1> SUFFICES ASSUME Init PROVE Usable /\ Exited /\ Agree
  OBVIOUS
<1>1. /\ h.st = "Unavailable" /\ h.tx = None /\ h.reset = None /\ h.startup = TRUE
      /\ pc = "observe" /\ store = None /\ own = TRUE /\ oper = TRUE /\ mcu = "disconnected" /\ odd = None /\ told = None
  BY DEF Init, Boot
<1> QED BY <1>1 DEF Usable, Exited, Agree, Status0, Live, InTx, Drawing, None

LEMMA UsableObserve == ASSUME TypeOK, Sound, Usable, Observe PROVE Usable'
<1>1. Observed
  BY ObservedIs
<1> QED BY <1>1, Fields DEF Observed, Usable, Status0, Busy, InTx

LEMMA AgreeObserve == ASSUME TypeOK, Sound, Usable, Agree, Observe, Without(R1)' PROVE Agree'
<1>1. Observed /\ "gap" \notin taken'
  BY ObservedIs DEF Without, R1
<1>0. odd = None /\ odd' = None
  BY <1>1 DEF Agree, Observed
<1>2. h.startup => h.st = "Unavailable" /\ h.tx = None /\ h.reset = None
  BY DEF Sound, Starting
<1>3. ~h.startup => store = h.tx
  BY DEF Sound, OnFile
<1>4. (Status0 \in InTx => h.tx # None)'
  BY <1>0, <1>1, <1>2 DEF Observed, Agree, Status0, InTx
<1>5. (h.tx # None => \/ Status0 \in InTx \cup {"Faulted"}
                      \/ pc = "act" /\ h.st = "Unavailable" /\ seen.st \in InTx)'
  BY <1>0, <1>1, <1>2 DEF Observed, Agree, Status0, InTx, Serves
<1>6. (store # None => resv = None /\ oper /\ own)'
  BY <1>0, <1>1, <1>2 DEF Observed, Agree
<1>7. (Live => \/ h.tx # None \/ (h.startup /\ store # None)
               \/ Status0 \in {"Preparing", "Faulted"} \/ Stopping)'
  BY <1>0, <1>1, <1>2 DEF Observed, Agree, Status0, Live, Stopping, None
<1>8. (h.reset = "wait" => ~Live \/ told = "reset")'
  BY <1>1 DEF Observed, Agree, Live
<1>9. ASSUME seen'.st # h.st, seen'.st # "Faulted"
      PROVE  /\ h.st \in InTx => seen'.st \in InTx \cup {"Available", "Finishing"}
             /\ seen'.st \in InTx /\ h'.tx = None => h.st \in Ready
             /\ seen'.st \notin Busy /\ h.st \in Busy => ~Live \/ Stopping
  <2>1. h.st \in InTx => seen'.st \in InTx \cup {"Available", "Finishing"}
    BY <1>0, <1>1, <1>2, <1>3, <1>9 DEF Observed, Agree, Status0, InTx, Serves
  <2>2. seen'.st \in InTx /\ h'.tx = None => h.st \in Ready
    BY <1>0, <1>1, <1>2, <1>3, <1>9 DEF Observed, Agree, Status0, InTx, Serves, Live, Stopping, Ready, None
  <2>3. seen'.st \notin Busy /\ h.st \in Busy => ~Live \/ Stopping
    BY <1>0, <1>1, <1>2, <1>3, <1>9, Fields DEF Observed, Agree, Usable, Status0, Busy, InTx, Serves, Live, Stopping, None
  <2> QED BY <2>1, <2>2, <2>3
<1> QED BY <1>0, <1>1, <1>4, <1>5, <1>6, <1>7, <1>8, <1>9 DEF Observed, Agree, Live, Stopping

\* A status is entered from the one seen, or the wait for a change of availability.
LEMMA EnteredFrom ==
  ASSUME TypeOK, Sound, Enter
  PROVE  /\ Enters(Entered) /\ h \in Connectors
         /\ h.st = "Faulted" => Entered \in {h.exit, "Unavailable"} /\ seen.st = h.exit
         /\ Entered = "Faulted" => h.exit = h.st
         /\ seen.st = "Faulted" => Entered = "Faulted"
<1>1. Enters(Entered) /\ h \in Connectors
  BY EnterDoes DEF TypeOK
<1> QED BY <1>1, Fields DEF Enters, Sound, Faulting

LEMMA UsableEnter == ASSUME TypeOK, Sound, Usable, Enter PROVE Usable'
<1>1. PICK new : new = Entered
  OBVIOUS
<1>2. Enters(new) /\ pc' = "end" /\ pc = "act"
  BY <1>1, EnteredFrom DEF Enters
<1>3. Status0' = IF new = "Faulted" THEN h.st ELSE new
  BY <1>1, <1>2, EnteredFrom DEF Enters, Status0
<1>4. CASE own' # own
  <2>1. new = "Unavailable"
    BY <1>2, <1>4 DEF Enters
  <2> QED BY <1>2, <1>3, <2>1 DEF Usable, Busy, InTx
<1>5. CASE own' = own
  <2>1. oper' = oper /\ new \in {seen.st, "Unavailable"}
    BY <1>2 DEF Enters
  <2>2. new = "Faulted" => Status0 = h.st
    BY <1>1, EnteredFrom DEF Status0
  <2> QED BY <1>2, <1>3, <1>5, <2>1, <2>2 DEF Usable, Busy, InTx
<1> QED BY <1>4, <1>5

LEMMA ExitedEnter == ASSUME TypeOK, Sound, Exited, Enter PROVE Exited'
<1>1. Enters(Entered) /\ (Entered = "Faulted" => h.exit = h.st)
  BY EnteredFrom
<1>2. h.st = "Faulted" => Entered # "Faulted"
  BY <1>1, EnteredFrom DEF Exited
<1> QED BY <1>1, <1>2 DEF Enters, Exited

LEMMA AgreeEnter == ASSUME TypeOK, Sound, Usable, Agree, Enter, Without(R1)' PROVE Agree'
<1>1. PICK new : new = Entered
  OBVIOUS
<1>2. /\ Enters(new) /\ pc' = "end" /\ pc = "act" /\ "sched" \notin taken'
      /\ h.st = "Faulted" => new \in {h.exit, "Unavailable"} /\ seen.st = h.exit
      /\ new = "Faulted" => h.exit = h.st
      /\ seen.st = "Faulted" => new = "Faulted"
  BY <1>1, EnteredFrom DEF Enters, Without, R1
<1>3. Status0' = IF new = "Faulted" THEN h.st ELSE new
  BY <1>2 DEF Enters, Status0
<1>4. /\ h.startup => h.st = "Unavailable" /\ h.tx = None /\ h.reset = None
      /\ ~h.startup => store = h.tx
      /\ seen.st \in Busy /\ h.st # "Faulted" => h.reset \in {None, "initiated"}
  BY <1>2 DEF Sound, Starting, OnFile, Unreset
<1>5. (Status0 \in InTx => h.tx # None)'
  BY <1>2, <1>3, <1>4, ConnectorAssumption DEF Enters, Agree, Status0, InTx, Ends, Begins, Ready, None
<1>6. (h.tx # None => Status0 \in InTx \cup {"Faulted"})'
  BY <1>2, <1>3, <1>4 DEF Enters, Agree, Status0, InTx, Ends, Begins, Ready
<1>7. (store # None => resv = None /\ oper /\ own)'
  <2>1. ~h.startup /\ store = h.tx /\ {own, oper, own', oper'} \subseteq BOOLEAN
    BY <1>2, <1>4 DEF Enters, Sound, Starting, TypeOK
  <2>2. CASE Begins(h.st, new)
    <3>1. new \in InTx /\ seen.st = new /\ own' = own /\ oper' = oper
      BY <1>2, <2>2 DEF Enters, Begins, InTx
    <3>2. own /\ oper
      BY <1>2, <2>1, <3>1 DEF Usable, Busy
    <3> QED BY <1>2, <2>2, <3>1, <3>2 DEF Enters
  <2>3. CASE ~Begins(h.st, new) /\ ~Ends(h.st, new)
    <3>1. /\ store' = store /\ oper' = oper /\ (resv = None => resv' = None)
          /\ own' \in {own, FALSE} /\ (own' # own => new = "Unavailable" /\ seen.st = "Available")
          /\ (new # seen.st /\ h.st \in {"SuspendedEV", "SuspendedEVSE"} => "sched" \in taken')
      BY <1>2, <2>3 DEF Enters
    <3>2. h.tx # None /\ new = "Unavailable" /\ seen.st = "Available" => FALSE
      BY <1>2, <2>3, <3>1 DEF Agree, Status0, Ends, InTx
    <3> QED BY <2>1, <3>1, <3>2 DEF Agree
  <2>4. CASE ~Begins(h.st, new) /\ Ends(h.st, new)
    BY <1>2, <2>4 DEF Enters
  <2> QED BY <2>2, <2>3, <2>4
<1>8. (Live => \/ h.tx # None \/ (h.startup /\ store # None)
               \/ Status0 \in {"Preparing", "Faulted"} \/ Stopping)'
  BY <1>2, <1>3, <1>4, <1>5 DEF Enters, Agree, Status0, InTx, Ends, Begins, Ready, Busy, Live, Stopping
<1>9. (h.reset = "wait" => ~Live \/ told = "reset")'
  BY <1>2, <1>4 DEF Enters, Agree, Live, Busy, InTx, None
<1>10. odd' = None
  BY <1>2 DEF Enters, Agree
<1> QED BY <1>2, <1>10, <1>5, <1>6, <1>7, <1>8, <1>9 DEF Agree

\* What handlers leave alone, and callbacks that do not command the MCU.
Stays(s, u) == /\ u \in Connectors
               /\ u.st = s.st /\ u.exit = s.exit /\ u.startup = s.startup /\ u.tx = s.tx

LEMMA AgreeKept ==
  ASSUME TypeOK, Sound, Stays(h, h'), UNCHANGED <<seen, store, resv, oper, own, mcu, odd>>,
         pc' = pc \/ (pc' = "end" /\ pc = "act" /\ seen.st = h.st),
         h'.reset \in {h.reset, "initiated"},
         \/ told' = told
         \/ told' = "start" /\ pc = "act" /\ seen.st = h.st /\ h.st \in {"Preparing", "SuspendedEVSE"}
  PROVE  /\ Usable => Usable'
         /\ Exited => Exited'
         /\ Agree => Agree'
<1>1. /\ h \in Connectors
      /\ pc = "act" /\ seen.st \in Busy /\ h.st # "Faulted" => h.reset \in {None, "initiated"}
  BY DEF TypeOK, Sound, Unreset
<1>2. (Usable => Usable') /\ (Exited => Exited')
  BY DEF Stays, Usable, Exited, Status0
<1>3. ASSUME Agree PROVE Agree'
  <2>1. Status0' = Status0
    BY DEF Stays, Status0
  <2>2. /\ (Status0 \in InTx => h.tx # None)'
        /\ (store # None => resv = None /\ oper /\ own)'
    BY <1>3, <2>1 DEF Stays, Agree
  <2>3. (h.tx # None => \/ Status0 \in InTx \cup {"Faulted"}
                        \/ pc = "act" /\ h.st = "Unavailable" /\ seen.st \in InTx)'
    BY <1>3, <2>1 DEF Stays, Agree, InTx
  <2>4. Stopping => Stopping' \/ told' = "start"
    BY DEF Stopping, None
  <2>5. (Live => \/ h.tx # None \/ (h.startup /\ store # None)
                 \/ Status0 \in {"Preparing", "Faulted"} \/ Stopping)'
    BY <1>3, <2>1, <2>4 DEF Stays, Agree, Status0, Live, Stopping, InTx
  <2>6. (h.reset = "wait" => ~Live \/ told = "reset")'
    BY <1>1, <1>3 DEF Agree, Live, Busy, InTx, None
  <2>7. (pc = "act" /\ seen.st \notin {h.st, "Faulted"}
         => /\ h.st \in InTx => seen.st \in InTx \cup {"Available", "Finishing"}
            /\ seen.st \in InTx /\ h.tx = None => h.st \in Ready
            /\ seen.st \notin Busy /\ h.st \in Busy => ~Live \/ Stopping)'
    <3>1. CASE told' = told
      <4>1. (Live' <=> Live) /\ (Stopping => Stopping')
        BY <3>1 DEF Live, Stopping, None
      <4> QED BY <1>3, <4>1 DEF Stays, Agree
    <3>2. CASE told' # told
      BY <3>2 DEF Stays
    <3> QED BY <3>1, <3>2
  <2>8. odd' = None
    BY <1>3 DEF Agree
  <2> QED BY <2>2, <2>3, <2>5, <2>6, <2>7, <2>8 DEF Agree
<1> QED BY <1>2, <1>3

\* What one of the requests does to the connector.
LEMMA AsksStays ==
  ASSUME NEW c \in Calls, Result(h, h', c) \/ Waits(h, h', c)
  PROVE  Stays(h, h') /\ h'.reset \in {h.reset, "initiated"}
BY DEF Result, Waits, Like, Same, Stays

LEMMA HandlerStays ==
  ASSUME TypeOK, Handler
  PROVE  /\ Stays(h, h') /\ h'.reset \in {h.reset, "initiated"}
         /\ UNCHANGED <<seen, store, resv, oper, own, mcu, odd>>
         /\ pc' = "end" /\ pc = "act" /\ seen.st = h.st
         /\ \/ told' = told
            \/ told' = "start" /\ h.st \in {"Preparing", "SuspendedEVSE"}
<1>1. /\ UNCHANGED <<seen, store, resv, oper, own, mcu, odd>>
      /\ pc' = "end" /\ pc = "act" /\ seen.st = h.st
      /\ \/ told' = told
         \/ told' = "start" /\ h.st \in {"Preparing", "SuspendedEVSE"}
  BY DEF Handler, Authorize, StartCharging, PreparingTag, ConnectionTimeout, DuringTx, ReservedTag,
         Recover, NothingToDo, Handling, Kept
<1>2. Stays(h, h') /\ h'.reset \in {h.reset, "initiated"}
  <2>1. CASE Authorize
    BY <2>1, AuthorizeDoes, AsksStays DEF Asks
  <2>2. CASE PreparingTag
    BY <2>2, PreparingTagDoes, AsksStays DEF Asks
  <2>3. CASE DuringTx
    BY <2>3, DuringTxDoes, AsksStays DEF Asks, Stays, TypeOK
  <2>4. CASE ReservedTag
    BY <2>4, ReservedTagDoes, AsksStays DEF Asks
  <2>5. CASE ConnectionTimeout
    BY <2>5, ConnectionTimeoutDoes DEF Same, Stays
  <2>6. CASE Recover
    BY <2>6, RecoverDoes DEF Stays
  <2>7. CASE StartCharging \/ NothingToDo
    BY <2>7 DEF StartCharging, NothingToDo, Stays, TypeOK
  <2> QED BY <2>1, <2>2, <2>3, <2>4, <2>5, <2>6, <2>7 DEF Handler
<1> QED BY <1>1, <1>2

LEMMA CallbackStays ==
  ASSUME TypeOK, Reply \/ StartReply \/ RemoteStart \/ RemoteStop
  PROVE  /\ Stays(h, h') /\ h'.reset \in {h.reset, "initiated"}
         /\ UNCHANGED <<pc, seen, store, resv, oper, own, mcu, odd, told>>
<1>1. UNCHANGED <<pc, seen, store, resv, oper, own, mcu, odd, told>>
  BY DEF Reply, StartReply, RemoteStart, RemoteStop, Elsewhere
<1>2. Stays(h, h') /\ h'.reset \in {h.reset, "initiated"}
  <2>1. CASE Reply
    BY <2>1, ReplyDoes, AsksStays
  <2>2. CASE StartReply
    BY <2>2, StartReplyDoes DEF StartAnswered, Same, Stays
  <2>3. CASE RemoteStart
    BY <2>3, RemoteStartDoes, AsksStays DEF Asks
  <2>4. CASE RemoteStop
    BY <2>4, RemoteStopDoes DEF Same, Stays
  <2> QED BY <2>1, <2>2, <2>3, <2>4
<1> QED BY <1>1, <1>2

LEMMA AgreeEndLoop == ASSUME TypeOK, Sound, EndLoop
  PROVE  /\ Usable => Usable'
         /\ Exited => Exited'
         /\ Agree /\ Without(R1)' => Agree'
<1>1. EndsRound
  BY EndLoopDoes
<1>2. (Usable => Usable') /\ (Exited => Exited')
  BY <1>1 DEF EndsRound, Usable, Exited, Status0
<1>3. ASSUME Agree, Without(R1)' PROVE Agree'
  <2>1. Status0' = Status0 /\ "nack" \notin taken'
    BY <1>1, <1>3 DEF EndsRound, Status0, Without, R1
  <2>2. /\ (Status0 \in InTx => h.tx # None)'
        /\ (h.tx # None => \/ Status0 \in InTx \cup {"Faulted"}
                           \/ pc = "act" /\ h.st = "Unavailable" /\ seen.st \in InTx)'
        /\ (store # None => resv = None /\ oper /\ own)'
        /\ pc' # "act" /\ odd' = None
    BY <1>1, <1>3, <2>1 DEF EndsRound, Agree
  <2>3. (Live => \/ h.tx # None \/ (h.startup /\ store # None)
                 \/ Status0 \in {"Preparing", "Faulted"} \/ Stopping)'
    BY <1>1, <1>3, <2>1 DEF EndsRound, Agree, Live, Stopping, None
  <2>4. (h.reset = "wait" => ~Live \/ told = "reset")'
    BY <1>1, <1>3, <2>1 DEF EndsRound, Agree, Live, None
  <2> QED BY <2>2, <2>3, <2>4 DEF Agree
<1> QED BY <1>2, <1>3

LEMMA AgreeReserve == ASSUME TypeOK, Sound, Reserve \/ Unreserve
  PROVE  /\ Usable => Usable'
         /\ Exited => Exited'
         /\ Agree /\ Without(R1)' => Agree'
<1>1. UNCHANGED <<h, pc, seen, store, oper, own, mcu, odd, told>>
  BY DEF Reserve, Unreserve, Elsewhere
<1>2. (Usable => Usable') /\ (Exited => Exited') /\ Status0' = Status0 /\ Live' = Live /\ Stopping' = Stopping
  BY <1>1 DEF Usable, Exited, Status0, Live, Stopping
<1>3. ASSUME Agree, Without(R1)', store # None PROVE resv' = None
  <2>1. CASE Unreserve
    BY <2>1 DEF Unreserve
  <2>2. CASE Reserve
    <3>1. State(h) \in {"Available", "Reserved"} /\ h.st # "Faulted"
          /\ ~(State(h) = "Available" /\ Unseen)
      BY <1>3, <2>2 DEF Reserve, Take, Note, When, Without, R1
    <3>2. ~h.faulted /\ h \in Connectors
      BY <3>1, StateOf DEF TypeOK
    <3>3. h.reset = None /\ ~h.startup /\ oper /\ own /\ h.over = None
      BY <3>1, <3>2, StateServes DEF Sound, Overruled
    <3>4. State(h) # "Reserved"
      BY <1>3, <3>1, <3>2, <3>3, StateServes DEF Serves, Agree
    <3>5. pc # "act" /\ h.st = "Available"
      BY <3>1, <3>4 DEF Unseen
    <3> QED BY <1>3, <3>3, <3>5 DEF Sound, OnFile, Agree, Status0, InTx
  <2> QED BY <2>1, <2>2
<1>4. ASSUME Agree, Without(R1)' PROVE Agree'
  BY <1>1, <1>2, <1>3, <1>4 DEF Agree
<1> QED BY <1>2, <1>4

LEMMA AgreeAvailability == ASSUME TypeOK, Sound, ChangeAvailability
  PROVE  /\ Usable /\ "race" \notin taken' => Usable'
         /\ Exited => Exited'
         /\ Agree /\ Without(R1)' => Agree'
<1>1. UNCHANGED <<pc, seen, store, resv, oper, mcu, odd, told>> /\ Like(h, h')
  BY ChangeAvailabilityDoes DEF ChangeAvailability, Elsewhere
<1>2. Status0' = Status0 /\ Live' = Live /\ Stopping' = Stopping
  BY <1>1 DEF Like, Same, Status0, Live, Stopping
<1>3. ASSUME ~own', "race" \notin taken', own
      PROVE  pc # "act" /\ h.st = "Available" /\ ~h.startup
  <2>1. State(h) = "Available" /\ ~Unseen
    BY <1>3 DEF ChangeAvailability, Take, Note, When
  <2>2. pc # "act" /\ h.st = "Available"
    BY <2>1 DEF Unseen
  <2> QED BY <2>2 DEF Sound, Starting
<1>4. own' \in BOOLEAN /\ own \in BOOLEAN
  BY DEF ChangeAvailability, TypeOK
<1>5. ASSUME Usable, "race" \notin taken' PROVE Usable'
  BY <1>1, <1>2, <1>3, <1>4, <1>5 DEF Usable, Status0, Busy, InTx
<1>6. Exited => Exited'
  BY <1>1 DEF Exited, Like, Same
<1>7. ASSUME Agree, Without(R1)' PROVE Agree'
  <2>1. "race" \notin taken'
    BY <1>7 DEF Without, R1
  <2>2. store # None => own'
    BY <1>3, <1>4, <1>7, <2>1 DEF Sound, OnFile, Agree, Status0, InTx
  <2> QED BY <1>1, <1>2, <1>7, <2>2 DEF Agree, Like, Same
<1> QED BY <1>5, <1>6, <1>7

LEMMA AgreeCharging == ASSUME TypeOK, Sound, SetChargingVariables
  PROVE  /\ Usable => Usable'
         /\ Exited => Exited'
         /\ Agree /\ Without(R1)' => Agree'
<1>1. UNCHANGED <<h, pc, seen, store, resv, oper, own, odd>> /\ h.tx # None
      /\ limit' = ~limit /\ limit \in BOOLEAN
      /\ mcu' = (IF limit /\ mcu \in {"idle", "charging"} THEN "paused" ELSE mcu)
      /\ told' = IF limit THEN told ELSE "start"
  BY DEF SetChargingVariables, TypeOK
<1>2. (Usable => Usable') /\ (Exited => Exited') /\ Status0' = Status0
  BY <1>1 DEF Usable, Exited, Status0
<1>3. ASSUME Agree, Without(R1)' PROVE Agree'
  <2>1. ~limit => pc # "act" /\ h.reset = None
    BY <1>1, <1>3 DEF SetChargingVariables, Take, Note, When, Without, R1, Unseen
  <2>2. limit => (Live' <=> Live) /\ told' = told /\ Stopping' = Stopping
    BY <1>1 DEF Live, Drawing, Stopping
  <2> QED BY <1>1, <1>2, <1>3, <2>1, <2>2 DEF Agree, None
<1> QED BY <1>2, <1>3

LEMMA AgreeMcu ==
  ASSUME TypeOK, Sound, ShowTag \/ Connect \/ Disconnect \/ McuObeys \/ CarDraws \/ Warnings
  PROVE  /\ UNCHANGED <<h, pc, seen, store, resv, oper, own, odd, calls, starts, taken>>
         /\ Live' => Live /\ (told = "reset" => told' = "reset")
<1>1. UNCHANGED <<h, pc, seen, store, resv, oper, own, odd, calls, starts, taken>>
  BY DEF ShowTag, Connect, Disconnect, McuObeys, CarDraws, Warnings, Software
<1>2. mcu \in {"disconnected", "requesting", "idle", "charging", "paused"} /\ told \in {None, "start", "stop", "reset"}
  BY DEF TypeOK
<1>3. CASE ShowTag \/ Warnings
  BY <1>1, <1>3 DEF ShowTag, Warnings, Live
<1>4. CASE Connect \/ Disconnect
  BY <1>1, <1>4 DEF Connect, Disconnect, Live, Drawing, None
<1>5. CASE CarDraws
  BY <1>1, <1>5 DEF CarDraws, Live, Drawing
<1>6. CASE McuObeys
  <2>1. told' = None /\ told # None /\ told' # "start"
    BY <1>6 DEF McuObeys, None
  <2>2. CASE told = "start"
    BY <1>1, <2>1, <2>2 DEF Live
  <2>3. CASE told \in {"stop", "reset"}
    <3>1. mcu' = IF mcu # "disconnected" THEN "requesting" ELSE mcu
      BY <1>6, <2>3 DEF McuObeys
    <3> QED BY <1>1, <2>1, <3>1 DEF Live, Drawing
  <2> QED BY <1>2, <2>1, <2>2, <2>3
<1> QED BY <1>1, <1>3, <1>4, <1>5, <1>6

LEMMA AgreeWorld == ASSUME TypeOK, Sound, World
  PROVE  /\ Usable /\ "disable" \notin taken' => Usable'
         /\ Exited => Exited'
         /\ Agree /\ Without(R1)' => Agree'
<1>1. CASE ShowTag \/ Connect \/ Disconnect \/ McuObeys \/ CarDraws \/ Warnings
  <2>1. /\ UNCHANGED <<h, pc, seen, store, resv, oper, own, odd>>
        /\ Live' => Live /\ (told = "reset" => told' = "reset")
    BY <1>1, AgreeMcu
  <2>2. (Usable => Usable') /\ (Exited => Exited') /\ Status0' = Status0
    BY <2>1 DEF Usable, Exited, Status0
  <2>3. ASSUME Agree PROVE Agree'
    <3>1. Live' => (Stopping => Stopping')
      BY <2>1 DEF Stopping
    <3> QED BY <2>1, <2>2, <2>3, <3>1 DEF Agree
  <2> QED BY <2>2, <2>3
<1>2. CASE Disable
  <2>1. UNCHANGED <<h, pc, seen, store, resv, own, mcu, odd, told>> /\ {oper, oper'} \subseteq BOOLEAN
    BY <1>2 DEF Disable, Software, TypeOK
  <2>2. Status0' = Status0 /\ Live' = Live /\ Stopping' = Stopping /\ (Exited => Exited')
    BY <2>1 DEF Exited, Status0, Live, Stopping
  <2>3. ASSUME oper, ~oper', "disable" \notin taken'
        PROVE  h.st \in {"Available", "Reserved"} /\ pc # "act" /\ ~h.startup
    <3>1. h.st \in {"Available", "Reserved"} /\ ~Unseen
      BY <1>2, <2>3 DEF Disable, Take, Note, When, InUse
    <3> QED BY <3>1 DEF Unseen, Sound, Starting
  <2>4. ASSUME Usable, "disable" \notin taken' PROVE Usable'
    BY <2>1, <2>2, <2>3, <2>4 DEF Usable, Status0, Busy, InTx
  <2>5. ASSUME Agree, Without(R1)' PROVE Agree'
    <3>1. "disable" \notin taken'
      BY <2>5 DEF Without, R1
    <3>2. store # None => oper'
      BY <2>1, <2>3, <2>5, <3>1 DEF Sound, OnFile, Agree, Status0, InTx
    <3> QED BY <2>1, <2>2, <2>5, <3>2 DEF Agree
  <2> QED BY <2>2, <2>4, <2>5
<1>3. CASE Restart
  <2>1. /\ h'.st = "Unavailable" /\ h'.tx = None /\ h'.reset = None /\ h'.startup = TRUE
        /\ pc' = "observe" /\ UNCHANGED <<store, resv, oper, own, mcu, odd, told>>
    BY <1>3, RestartDoes DEF Restart
  <2>2. Usable' /\ Exited'
    BY <2>1 DEF Usable, Exited, Status0, Busy, InTx
  <2>3. ASSUME Agree, Without(R1)' PROVE Agree'
    <3>1. told # "start" /\ ~(store = None /\ mcu \in {"idle", "charging", "paused"})
      BY <1>3, <2>3 DEF Restart, Take, Note, When, Without, R1
    <3> QED BY <2>1, <2>3, <3>1 DEF Agree, Status0, InTx, Live, Drawing, None
  <2> QED BY <2>2, <2>3
<1>4. CASE Report
  <2>1. UNCHANGED <<h, pc, seen, store, resv, oper, own, mcu, told>> /\ (odd' # None => "mode" \in taken')
    BY <1>4 DEF Report, Software, Take, Note, When
  <2>2. (Usable => Usable') /\ (Exited => Exited') /\ Status0' = Status0 /\ Live' = Live /\ Stopping' = Stopping
    BY <2>1 DEF Usable, Exited, Status0, Live, Stopping
  <2>3. ASSUME Agree, Without(R1)' PROVE Agree'
    <3>1. odd' = None
      BY <2>1, <2>3 DEF Without, R1
    <3> QED BY <2>1, <2>2, <2>3, <3>1 DEF Agree
  <2> QED BY <2>2, <2>3
<1> QED BY <1>1, <1>2, <1>3, <1>4 DEF World

\* The risks noted stay noted.
LEMMA TakenGrows == [Next]_vars => taken \subseteq taken'
BY DEF Next, Loop, Handler, Callback, World, Observe, Enter, Authorize, StartCharging, PreparingTag,
       ConnectionTimeout, DuringTx, ReservedTag, Recover, NothingToDo, EndLoop, Reply, StartReply,
       RemoteStart, RemoteStop, Reserve, Unreserve, ChangeAvailability, SetChargingVariables,
       ShowTag, Connect, Disconnect, McuObeys, CarDraws, Report, Warnings, Disable, Restart, Take, Note, vars

LEMMA WithoutBefore == ASSUME [Next]_vars, NEW rs, Without(rs)' PROVE Without(rs)
BY TakenGrows DEF Without

\* What holds of the agreement whatever was taken.
InStep == /\ Without({"race", "disable"}) => Usable
          /\ Without({"flap"}) => Exited
          /\ Without(R1) => Agree

LEMMA InStepStep == ASSUME TypeOK, Sound, InStep, [Next]_vars PROVE InStep'
<1>1. ASSUME Without({"race", "disable"})' PROVE Usable'
  <2>1. Usable /\ "race" \notin taken' /\ "disable" \notin taken'
    BY <1>1, WithoutBefore DEF InStep, Without
  <2>2. CASE Observe \/ Enter \/ EndLoop
    BY <2>1, <2>2, UsableObserve, UsableEnter, AgreeEndLoop
  <2>3. CASE Handler
    BY <2>1, <2>3, HandlerStays, AgreeKept
  <2>4. CASE Reply \/ StartReply \/ RemoteStart \/ RemoteStop
    BY <2>1, <2>4, CallbackStays, AgreeKept
  <2>5. CASE Reserve \/ Unreserve \/ ChangeAvailability \/ SetChargingVariables \/ World
    BY <2>1, <2>5, AgreeReserve, AgreeAvailability, AgreeCharging, AgreeWorld
  <2>6. CASE UNCHANGED vars
    BY <2>1, <2>6 DEF vars, Usable, Status0
  <2> QED BY <2>2, <2>3, <2>4, <2>5, <2>6 DEF Next, Loop, Callback
<1>2. ASSUME Without({"flap"})' PROVE Exited'
  <2>1. Exited /\ "flap" \notin taken'
    BY <1>2, WithoutBefore DEF InStep, Without
  <2>2. CASE Observe
    BY <2>1, <2>2, ObservedIs DEF Observed, Exited
  <2>3. CASE Enter \/ EndLoop
    BY <2>1, <2>3, ExitedEnter, AgreeEndLoop
  <2>4. CASE Handler
    BY <2>1, <2>4, HandlerStays, AgreeKept
  <2>5. CASE Reply \/ StartReply \/ RemoteStart \/ RemoteStop
    BY <2>1, <2>5, CallbackStays, AgreeKept
  <2>6. CASE Reserve \/ Unreserve \/ ChangeAvailability \/ SetChargingVariables \/ World
    BY <2>1, <2>6, AgreeReserve, AgreeAvailability, AgreeCharging, AgreeWorld
  <2>7. CASE UNCHANGED vars
    BY <2>1, <2>7 DEF vars, Exited
  <2> QED BY <2>2, <2>3, <2>4, <2>5, <2>6, <2>7 DEF Next, Loop, Callback
<1>3. ASSUME Without(R1)' PROVE Agree'
  <2>1. Agree /\ Usable
    <3>1. Without(R1)
      BY <1>3, WithoutBefore
    <3>2. Without({"race", "disable"})
      BY <3>1 DEF Without, R1
    <3> QED BY <3>1, <3>2 DEF InStep
  <2>2. CASE Observe \/ Enter \/ EndLoop
    BY <1>3, <2>1, <2>2, AgreeObserve, AgreeEnter, AgreeEndLoop
  <2>3. CASE Handler
    BY <2>1, <2>3, HandlerStays, AgreeKept
  <2>4. CASE Reply \/ StartReply \/ RemoteStart \/ RemoteStop
    BY <2>1, <2>4, CallbackStays, AgreeKept
  <2>5. CASE Reserve \/ Unreserve \/ ChangeAvailability \/ SetChargingVariables \/ World
    BY <1>3, <2>1, <2>5, AgreeReserve, AgreeAvailability, AgreeCharging, AgreeWorld
  <2>6. CASE UNCHANGED vars
    BY <2>1, <2>6 DEF vars, Agree, Status0, Live, Stopping
  <2> QED BY <2>2, <2>3, <2>4, <2>5, <2>6 DEF Next, Loop, Callback
<1> QED BY <1>1, <1>2, <1>3 DEF InStep

\* The variables keep their types through every interleaving of the loop, the callbacks and the
\* MCU, whatever risks are taken: no handler leaves a static without a value the others expect.
THEOREM TypeCorrect == Spec => []TypeOK
<1>1. Init => TypeOK
  BY TypeInit
<1>2. TypeOK /\ [Next]_vars => TypeOK'
  BY TypeStep
<1> QED BY <1>1, <1>2, PTL DEF Spec

LEMMA SoundStep == ASSUME TypeOK, Sound, [Next]_vars PROVE Sound'
<1>1. CASE UNCHANGED vars
  BY <1>1 DEF vars, Sound, Starting, OnFile, Overruled, Faulting, Unreset, GrantedBy, Current
<1> QED BY <1>1, SoundObserve, SoundEnter, SoundHandler, SoundEndLoop, SoundCallback, SoundWorld DEF Next, Loop

LEMMA Invariant == Spec => [](TypeOK /\ Sound /\ InStep)
<1>1. Init => TypeOK /\ Sound /\ InStep
  BY TypeInit, SoundInit, AgreeInit DEF InStep
<1>2. TypeOK /\ Sound /\ InStep /\ [Next]_vars => (TypeOK /\ Sound /\ InStep)'
  BY TypeStep, SoundStep, InStepStep
<1> QED BY <1>1, <1>2, PTL DEF Spec

\* The transaction, the status and the file agree unless one of the risks named there was taken.
THEOREM TransactionInState == Spec => []TxInState
<1>1. TypeOK /\ Sound /\ InStep => TxInState
  <2> SUFFICES ASSUME TypeOK, Sound, InStep, Without({"race", "nack", "disable", "sched", "gap", "flap", "mode"})
               PROVE  /\ Status0 \in InTx => h.tx # None
                      /\ h.tx # None => Status0 \in InTx \cup {"Unavailable"}
                      /\ ~h.startup => store = h.tx
    BY DEF TxInState, Status0
  <2>1. Agree /\ Exited
    BY DEF InStep, Without, R1
  <2>2. Status0 # "Faulted"
    BY <2>1 DEF Exited, Status0
  <2> QED BY <2>1, <2>2 DEF Agree, Sound, OnFile, Status0
<1> QED BY <1>1, Invariant, PTL

-----------------------------------------------------------------------------
(* Who may charge.                                                         *)

R2 == {"late", "second", "stale", "race", "disable", "mode"}

\* The request that is answered next.
Call == Head(calls)
Asked(kinds) == calls # <<>> /\ Call.kind \in kinds

\* The MCU charges, or is about to, or its charging has been seen.
Wants == mcu \in Drawing \/ (told = "start" /\ mcu # "disconnected")
Draws == Wants \/ (pc = "act" /\ seen.st \in InTx)

\* The code of the session is that of the authorisation, then of the transaction.
CodeRight == /\ h.auth /\ h.tx = None => h.code \in {None, h.by}
             /\ h.tx # None => h.code \in {None, h.tx}
\* One request at a time; a start waits only while nothing is authorised.
CallsRight ==
    /\ Len(calls) <= 1
    /\ Asked({"start", "reserved"}) => ~h.auth /\ h.tx = None
    /\ Asked({"start"}) => h.asking /\ resv = None
    /\ Asked({"reserved"}) /\ Call.live => resv = Call.ref
    /\ Asked({"stop"}) /\ Call.live => Status0 \in InTx \cup {"Faulted"} \/ ~h.auth
\* Charging that has no transaction yet is authorised, and no answer revokes that.
DrawsRight == Draws /\ Status0 \in Ready /\ h.tx = None => h.auth /\ (calls # <<>> => ~Call.live)
\* What the loop has seen and not yet acted on.
SeenRight ==
    pc = "act" =>
    /\ h.st \in InTx => seen.st \in InTx \cup {"Available", "Reserved", "Finishing", "Faulted"}
    /\ h.st \in InTx /\ seen.st \in {"Available", "Reserved"} => ~h.auth \/ calls = <<>>
    /\ seen.st \in Ready /\ seen.st # h.st /\ h.st # "Faulted" => ~Wants
    /\ seen.st = "Available" /\ h.st = "Available" => resv = None
\* Only the token of the reservation is authorised while there is one.
BookedRight == /\ h.auth /\ resv # None => Related(h.by, resv)
               /\ h.st = "Finishing" => resv = None

Entitled == odd = None /\ CodeRight /\ CallsRight /\ DrawsRight /\ SeenRight /\ BookedRight

LEMMA Outdates ==
  ASSUME TypeOK, NEW gone, calls' = Outdated(calls, gone)
  PROVE  /\ Len(calls') = Len(calls) /\ (calls' # <<>> <=> calls # <<>>)
         /\ calls # <<>> => /\ Call'.kind = Call.kind /\ Call'.tok = Call.tok /\ Call'.ref = Call.ref
                            /\ Call'.live = (Call.live /\ Call.kind \notin gone)
<1>1. calls \in Seq(Calls)
  BY DEF TypeOK
<1>2. PICK os : os = Outdated(calls, gone)
  OBVIOUS
<1>3. /\ os \in Seq(Calls) /\ Len(os) = Len(calls) /\ DOMAIN os = DOMAIN calls
      /\ \A i \in DOMAIN calls : /\ os[i].kind = calls[i].kind /\ os[i].tok = calls[i].tok /\ os[i].ref = calls[i].ref
                                 /\ os[i].live = (calls[i].live /\ calls[i].kind \notin gone)
  BY <1>1, <1>2, CallsOutdated
<1>4. calls # <<>> => 1 \in DOMAIN calls
  BY <1>1
<1>5. Head(calls) = calls[1] /\ Head(os) = os[1]
  BY <1>1, <1>3
<1> QED BY <1>1, <1>2, <1>3, <1>4, <1>5 DEF Call

LEMMA OnlyCall ==
  ASSUME NEW c, calls = <<>>, calls' = Append(calls, c)
  PROVE  Len(calls') = 1 /\ calls' # <<>> /\ Call' = c
BY DEF Call

LEMMA NoCall ==
  ASSUME TypeOK, CallsRight, calls # <<>>, calls' = Tail(calls)
  PROVE  calls' = <<>>
BY DEF TypeOK, CallsRight

LEMMA EntitledInit == Init => Entitled
<1> SUFFICES ASSUME Init PROVE Entitled
  OBVIOUS
<1>1. /\ h.auth = FALSE /\ h.st = "Unavailable" /\ h.tx = None /\ calls = <<>> /\ Len(calls) = 0
      /\ pc = "observe" /\ resv = None /\ mcu = "disconnected" /\ odd = None /\ told = None
  BY DEF Init, Boot
<1> QED BY <1>1 DEF Entitled, CodeRight, CallsRight, DrawsRight, SeenRight, BookedRight, Asked,
                    Status0, Ready

LEMMA EntitledObserve == ASSUME TypeOK, Sound, Usable, Entitled, Observe PROVE Entitled'
<1>1. Observed
  BY ObservedIs
<1>0. odd = None /\ odd' = None
  BY <1>1 DEF Entitled, Observed
<1>2. h.startup => h.st = "Unavailable" /\ h.tx = None /\ h.reset = None /\ calls = <<>> /\ h.auth = FALSE
  BY DEF Sound, Starting
<1>3. /\ calls' = calls /\ h'.st = h.st /\ resv' = resv /\ Wants' = Wants /\ h'.by = h.by
      /\ \/ h'.tx = h.tx /\ h'.auth = h.auth /\ h'.code = h.code
         \/ /\ h.startup /\ h'.auth = FALSE
            /\ h'.tx # None => h'.tx = store /\ h'.code = store
  BY <1>1 DEF Observed, Wants
<1>4. Status0' = Status0 \/ Status0' = "Faulted"
  BY <1>1 DEF Observed, Status0
<1>5. CodeRight'
  BY <1>3 DEF Entitled, CodeRight
<1>6. CallsRight'
  BY <1>1, <1>2, <1>3, <1>4 DEF Observed, Entitled, CallsRight, Asked, Call
<1>7. DrawsRight'
  <2> SUFFICES ASSUME Draws', Status0' \in Ready, h'.tx = None
               PROVE  h'.auth /\ (calls # <<>> => ~Call.live)
    BY <1>3 DEF DrawsRight, Call
  <2>1. Status0 \in Ready /\ Status0' = Status0
    BY <1>4 DEF Ready
  <2>2. ~h.startup /\ h.tx = None /\ h'.auth = h.auth
    BY <1>2, <1>3, <2>1 DEF Status0, Ready
  <2>3. ASSUME seen'.st \in InTx PROVE mcu \in Drawing
    <3>1. h.st # "Faulted"
      BY <1>1, <2>1, <2>3 DEF Observed, Status0, Ready, InTx
    <3> QED BY <1>0, <1>1, <1>2, <2>2, <2>3, <3>1 DEF Observed, Serves, InTx
  <2>4. Draws
    BY <1>3, <2>3 DEF Draws, Wants
  <2> QED BY <2>1, <2>2, <2>4 DEF Entitled, DrawsRight
<1>8. SeenRight'
  <2>1. h.st \in InTx => seen'.st \in InTx \cup {"Available", "Reserved", "Finishing", "Faulted"}
    BY <1>0, <1>1, <1>2 DEF Observed, Usable, Status0, Busy, InTx, Serves
  <2>2. h.st \in InTx /\ seen'.st \in {"Available", "Reserved"} => ~h'.auth
    BY <1>0, <1>1, <1>2 DEF Observed, InTx, Serves
  <2>3. seen'.st \in Ready /\ h.st # "Faulted" => ~Wants
    BY <1>0, <1>1 DEF Observed, Ready, InTx, Serves, Wants, None
  <2>4. seen'.st = "Available" /\ h.st = "Available" => resv = None
    BY <1>0, <1>1 DEF Observed, Serves
  <2> QED BY <1>3, <2>1, <2>2, <2>3, <2>4 DEF SeenRight
<1>9. BookedRight'
  BY <1>3 DEF Entitled, BookedRight
<1> QED BY <1>0, <1>5, <1>6, <1>7, <1>8, <1>9 DEF Entitled

LEMMA EntitledEnter == ASSUME TypeOK, Sound, Entitled, Enter PROVE Entitled'
<1>1. PICK new : new = Entered
  OBVIOUS
<1>2. /\ Enters(new) /\ pc' = "end" /\ pc = "act"
      /\ h.st = "Faulted" => new \in {h.exit, "Unavailable"} /\ seen.st = h.exit
      /\ new = "Faulted" => h.exit = h.st
      /\ seen.st = "Faulted" => new = "Faulted"
  BY <1>1, EnteredFrom DEF Enters
<1>3. Status0' = IF new = "Faulted" THEN h.st ELSE new
  BY <1>2 DEF Enters, Status0
<1>4. PICK gone : /\ calls' = Outdated(calls, gone)
                  /\ ("stop" \in gone <=> Ends(h.st, new))
                  /\ ("reserved" \in gone <=> resv' # resv)
  BY <1>1, EnterDoes
<1>5. /\ Len(calls') = Len(calls) /\ (calls' # <<>> <=> calls # <<>>)
      /\ calls # <<>> => /\ Call'.kind = Call.kind /\ Call'.tok = Call.tok /\ Call'.ref = Call.ref
                         /\ Call'.live = (Call.live /\ Call.kind \notin gone)
  BY <1>4, Outdates
<1>6. /\ resv' \in {None, resv} /\ (h'.auth => h.auth /\ h'.by = h.by)
      /\ h'.asking = h.asking /\ h' \in Connectors /\ h \in Connectors
  BY <1>2 DEF Enters, TypeOK
<1>7. Begins(h.st, new) => new = seen.st /\ new \in InTx /\ h.st \in Ready /\ Status0 = h.st
  BY <1>2 DEF Enters, Begins, Ready, InTx, Status0
<1>8. CodeRight'
  <2>1. CASE Begins(h.st, new)
    <3>1. h'.tx # None /\ h'.code = h'.tx
      BY <1>2, <2>1 DEF Enters, None
    <3> QED BY <3>1 DEF CodeRight
  <2>2. CASE Ends(h.st, new)
    BY <1>2, <2>2 DEF Enters, CodeRight
  <2>3. CASE ~Begins(h.st, new) /\ ~Ends(h.st, new)
    BY <1>2, <1>6, <2>3 DEF Enters, Entitled, CodeRight
  <2> QED BY <2>1, <2>2, <2>3
<1>9. CallsRight'
  <2>1. Asked({"start", "reserved"})' => ~h'.auth /\ h'.tx = None
    <3> SUFFICES ASSUME Asked({"start", "reserved"})'
                 PROVE  ~h'.auth /\ h'.tx = None
      OBVIOUS
    <3>1. ~h.auth /\ h.tx = None
      BY <1>5 DEF Entitled, CallsRight, Asked
    <3>2. ~Begins(h.st, new)
      BY <1>2, <1>7, <3>1 DEF Entitled, DrawsRight, Draws
    <3> QED BY <1>2, <1>6, <3>1, <3>2 DEF Enters
  <2>2. Asked({"start"})' => h'.asking /\ resv' = None
    BY <1>5, <1>6 DEF Entitled, CallsRight, Asked
  <2>3. Asked({"reserved"})' /\ Call'.live => resv' = Call'.ref
    BY <1>4, <1>5 DEF Entitled, CallsRight, Asked
  <2>4. Asked({"stop"})' /\ Call'.live => Status0' \in InTx \cup {"Faulted"} \/ ~h'.auth
    <3> SUFFICES ASSUME Asked({"stop"})', Call'.live, h'.auth
                 PROVE  Status0' \in InTx \cup {"Faulted"}
      OBVIOUS
    <3>1. Asked({"stop"}) /\ Call.live /\ ~Ends(h.st, new) /\ h.auth /\ calls # <<>>
      BY <1>4, <1>5, <1>6 DEF Asked
    <3>2. Status0 \in InTx \cup {"Faulted"}
      BY <3>1 DEF Entitled, CallsRight
    <3>3. CASE h.st = "Faulted"
      BY <1>2, <1>3, <3>2, <3>3 DEF Enters, Status0, InTx
    <3>4. CASE h.st # "Faulted"
      BY <1>2, <1>3, <3>1, <3>2, <3>4 DEF Enters, Status0, InTx, Entitled, SeenRight, Ends
    <3> QED BY <3>3, <3>4
  <2>5. Len(calls') <= 1
    BY <1>5 DEF Entitled, CallsRight
  <2> QED BY <2>1, <2>2, <2>3, <2>4, <2>5 DEF CallsRight
<1>10. DrawsRight'
  <2> SUFFICES ASSUME Draws', Status0' \in Ready, h'.tx = None
               PROVE  h'.auth /\ (calls' # <<>> => ~Call'.live)
    BY DEF DrawsRight
  <2>1. new # "SuspendedEVSE"
    BY <1>3 DEF Ready
  <2>2. Wants
    BY <1>2, <2>1 DEF Draws, Wants, Enters
  <2>3. Status0 = Status0'
    <3>1. CASE h.st = "Faulted"
      BY <1>2, <1>3, <3>1 DEF Status0, Ready, Enters
    <3>2. CASE h.st # "Faulted"
      BY <1>2, <1>3, <2>2, <3>2 DEF Status0, Ready, Enters, Entitled, SeenRight
    <3> QED BY <3>1, <3>2
  <2>4. ~Begins(h.st, new) /\ ~Ends(h.st, new) /\ new # "Finishing"
    BY <1>2, <1>3, <2>3 DEF Ready, InTx, Begins, Ends, Status0, Enters
  <2>5. h.tx = None /\ h'.auth = h.auth
    BY <1>2, <2>4 DEF Enters
  <2> QED BY <1>5, <2>2, <2>3, <2>5 DEF Entitled, DrawsRight, Draws
<1>11. SeenRight' /\ BookedRight'
  <2>1. h'.st = "Finishing" => resv' = None
    BY <1>2 DEF Enters
  <2> QED BY <1>2, <1>6, <2>1 DEF Entitled, SeenRight, BookedRight
<1>12. odd' = None
  BY <1>2 DEF Enters, Entitled
<1> QED BY <1>8, <1>9, <1>10, <1>11, <1>12 DEF Entitled

\* A request is made while there is none.
LEMMA EntitledAsks ==
  ASSUME TypeOK, Entitled, NEW c \in Calls, c.live = TRUE, Asks(h, c), calls = <<>>,
         UNCHANGED <<seen, resv, mcu, odd>>, pc' \in {pc, "end"},
         told' = told \/ (Status0 \notin Ready /\ pc' = "end"),
         c.kind \in {"start", "reserved"} => ~h.auth /\ h.tx = None,
         c.kind = "start" => resv = None,
         c.kind = "reserved" => c.ref = resv,
         c.kind = "cancel" => mcu = "disconnected" /\ pc' = "end",
         c.kind = "stop" => Status0 \in InTx /\ pc' = "end"
  PROVE  Entitled'
<1>1. Result(h, h', c) \/ Waits(h, h', c)
  BY DEF Asks
<1>2. /\ h' \in Connectors /\ h \in Connectors /\ h'.st = h.st /\ h'.exit = h.exit /\ h'.tx = h.tx
      /\ Status0' = Status0
  BY <1>1 DEF Result, Waits, Like, Same, TypeOK, Status0
<1>3. \/ calls' = <<>> /\ Len(calls') = 0 /\ Result(h, h', c)
      \/ Len(calls') = 1 /\ calls' # <<>> /\ Call' = c /\ Waits(h, h', c)
  BY OnlyCall DEF Asks
<1>4. CodeRight'
  BY <1>1, <1>2 DEF Result, Waits, Like, Entitled, CodeRight
<1>5. CallsRight'
  <2>1. CASE calls' = <<>> /\ Len(calls') = 0
    BY <2>1 DEF CallsRight, Asked
  <2>2. CASE Len(calls') = 1 /\ Call' = c /\ Waits(h, h', c)
    BY <1>2, <2>2 DEF CallsRight, Asked, Waits
  <2> QED BY <1>3, <2>1, <2>2
<1>6. Draws' /\ Status0 \in Ready => Draws
  BY DEF Draws, Wants
<1>7. DrawsRight'
  <2> SUFFICES ASSUME Draws', Status0 \in Ready, h.tx = None
               PROVE  h'.auth /\ (calls' # <<>> => ~Call'.live)
    BY <1>2 DEF DrawsRight
  <2>1. h.auth /\ c.kind = "cancel"
    BY <1>6 DEF Entitled, DrawsRight, Calls, Ready, InTx
  <2>2. mcu = "disconnected" /\ pc' = "end"
    BY <2>1
  <2> QED BY <2>2 DEF Draws, Wants, Drawing
<1>8. SeenRight'
  <2> SUFFICES ASSUME pc' = "act" PROVE SeenRight'
    BY DEF SeenRight
  <2>1. pc = "act" /\ told' = told /\ c.kind \in {"start", "reserved"}
    BY DEF Calls
  <2>2. calls' = <<>> \/ ~h'.auth
    BY <1>3, <2>1 DEF Waits
  <2> QED BY <1>2, <2>1, <2>2 DEF Entitled, SeenRight, Wants
<1>9. BookedRight'
  BY <1>1, <1>2 DEF Result, Waits, Like, Entitled, BookedRight
<1>20. odd' = None
  BY DEF Entitled
<1> QED BY <1>20, <1>4, <1>5, <1>7, <1>8, <1>9 DEF Entitled

\* A step that asks nothing: what is authorised stays so, or is revoked.
LEMMA EntitledKept ==
  ASSUME TypeOK, Entitled, Stays(h, h'), UNCHANGED <<seen, resv, mcu, odd>>, pc' \in {pc, "end"},
         told' = told \/ (told' \in {None, "stop", "reset"}) \/ (Status0 \notin Ready /\ pc' = "end"),
         h'.asking = h.asking, h'.code \in {h.code, None},
         \/ h'.auth = h.auth /\ h'.by = h.by
         \/ h'.auth = FALSE /\ (h.tx # None \/ (mcu = "disconnected" /\ pc' = "end")),
         calls' = calls \/ (\E gone : calls' = Outdated(calls, gone))
  PROVE  Entitled'
<1>1. /\ h' \in Connectors /\ h \in Connectors /\ h'.st = h.st /\ h'.exit = h.exit /\ h'.tx = h.tx
      /\ Status0' = Status0
  BY DEF Stays, TypeOK, Status0
<1>2. h'.auth => h.auth /\ h'.by = h.by
  OBVIOUS
<1>3. /\ Len(calls') = Len(calls) /\ (calls' # <<>> <=> calls # <<>>)
      /\ calls # <<>> => /\ Call'.kind = Call.kind /\ Call'.tok = Call.tok /\ Call'.ref = Call.ref
                         /\ (Call'.live => Call.live)
  <2>1. CASE calls' = calls
    BY <2>1 DEF Call
  <2>2. CASE \E gone : calls' = Outdated(calls, gone)
    BY <2>2, Outdates
  <2> QED BY <2>1, <2>2
<1>4. CodeRight'
  BY <1>1, <1>2 DEF Entitled, CodeRight
<1>5. CallsRight'
  BY <1>1, <1>2, <1>3 DEF Entitled, CallsRight, Asked
<1>6. DrawsRight'
  <2> SUFFICES ASSUME Draws', Status0 \in Ready, h.tx = None
               PROVE  h'.auth /\ (calls' # <<>> => ~Call'.live)
    BY <1>1 DEF DrawsRight
  <2>1. Draws
    BY DEF Draws, Wants, None
  <2>2. h'.auth = h.auth
    BY <2>1 DEF Draws, Wants, Drawing, None
  <2> QED BY <1>3, <2>1, <2>2 DEF Entitled, DrawsRight
<1>7. SeenRight'
  <2> SUFFICES ASSUME pc' = "act" PROVE SeenRight'
    BY DEF SeenRight
  <2>1. pc = "act" /\ (Wants' => Wants)
    BY DEF Wants, None
  <2> QED BY <1>1, <1>2, <1>3, <2>1 DEF Entitled, SeenRight
<1>8. BookedRight'
  BY <1>1, <1>2 DEF Entitled, BookedRight
<1>20. odd' = None
  BY DEF Entitled
<1> QED BY <1>20, <1>4, <1>5, <1>6, <1>7, <1>8 DEF Entitled

LEMMA EntitledHandler == ASSUME TypeOK, Sound, Entitled, Handler, Without(R2)' PROVE Entitled'
<1>1. /\ Stays(h, h') /\ UNCHANGED <<seen, resv, mcu, odd>> /\ pc = "act" /\ pc' = "end" /\ seen.st = h.st
  BY HandlerStays
<1>2. h \in Connectors /\ "second" \notin taken' /\ "race" \notin taken'
  BY DEF TypeOK, Without, R2
<1>3. CASE Authorize
  <2>1. /\ h.st \in {"Available", "Finishing"} /\ calls = <<>> /\ ~h.auth /\ h.tx = None /\ told' = told
    BY <1>2, <1>3 DEF Authorize, Handling, Note, When, Authorised
  <2>2. resv = None
    BY <1>1, <2>1 DEF Entitled, SeenRight, BookedRight
  <2> QED BY <1>1, <1>3, <2>1, <2>2, AuthorizeDoes, EntitledAsks
<1>4. CASE StartCharging
  <2>1. /\ h.st = "Preparing" /\ h.auth /\ h' = h /\ told' \in {told, "start"} /\ calls' = Outdated(calls, {"cancel"})
    BY <1>4 DEF StartCharging, Handling
  <2>2. /\ Len(calls') = Len(calls) /\ (calls' # <<>> <=> calls # <<>>)
        /\ calls # <<>> => /\ Call'.kind = Call.kind /\ Call'.tok = Call.tok /\ Call'.ref = Call.ref
                           /\ Call'.live = (Call.live /\ Call.kind # "cancel")
    BY <2>1, Outdates
  <2>3. calls # <<>> => Call \in Calls
    BY DEF TypeOK, Call
  <2>4. calls' # <<>> => ~Call'.live
    BY <2>1, <2>2, <2>3 DEF Entitled, CallsRight, Asked, Calls, Status0, InTx
  <2>5. CodeRight' /\ BookedRight' /\ DrawsRight'
    BY <1>1, <2>1, <2>4 DEF Entitled, CodeRight, BookedRight, DrawsRight
  <2>6. CallsRight' /\ SeenRight'
    BY <1>1, <2>1, <2>2 DEF Entitled, CallsRight, SeenRight, Asked, Status0
  <2> QED BY <1>1, <2>5, <2>6 DEF Entitled
<1>5. CASE PreparingTag
  <2>1. /\ h.st = "Preparing" /\ calls = <<>> /\ told' = told /\ (mcu = "disconnected" \/ ~h.auth)
        /\ ~h.auth => h.tx = None /\ resv = None
    BY <1>2, <1>5 DEF PreparingTag, Handling, Note, When
  <2>2. PICK c \in Calls : c.kind = (IF h.auth THEN "cancel" ELSE "start") /\ c.live = TRUE /\ Asks(h, c)
    BY <1>5, PreparingTagDoes
  <2>3. h.auth \in BOOLEAN
    BY <1>2, Fields
  <2>4. CASE h.auth
    <3>1. c.kind = "cancel" /\ mcu = "disconnected"
      BY <2>1, <2>2, <2>4
    <3> QED BY <1>1, <2>1, <2>2, <3>1, EntitledAsks
  <2>5. CASE ~h.auth
    <3>1. c.kind = "start" /\ h.tx = None /\ resv = None
      BY <2>1, <2>2, <2>5
    <3>2. calls = <<>> /\ told' = told /\ c.live = TRUE /\ Asks(h, c)
      BY <2>1, <2>2
    <3> QED BY <1>1, <2>5, <3>1, <3>2, EntitledAsks
  <2> QED BY <2>4, <2>5
<1>6. CASE ConnectionTimeout
  BY <1>1, <1>6, ConnectionTimeoutDoes, EntitledKept DEF ConnectionTimeout
<1>7. CASE DuringTx
  <2>1. h.st \in InTx /\ Status0 \in InTx /\ Status0 \notin Ready
    BY <1>7 DEF DuringTx, Handling, InTx, Status0, Ready
  <2>2. CASE UNCHANGED <<h, calls>>
    <3>1. /\ h'.asking = h.asking /\ h'.code \in {h.code, None} /\ h'.auth = h.auth /\ h'.by = h.by
          /\ calls' = calls
      BY <2>2
    <3> QED BY <1>1, <2>1, <3>1, EntitledKept
  <2>3. CASE ~UNCHANGED <<h, calls>>
    <3>1. calls = <<>>
      BY <1>2, <1>7, <2>3 DEF DuringTx, Note, When
    <3>2. PICK c \in Calls : c.kind = "stop" /\ c.live = TRUE /\ Asks(h, c)
      BY <1>7, <2>3, DuringTxDoes
    <3> QED BY <1>1, <2>1, <3>1, <3>2, EntitledAsks
  <2> QED BY <2>2, <2>3
<1>8. CASE ReservedTag
  <2>1. calls = <<>> /\ ~h.auth /\ h.tx = None /\ told' = told
    BY <1>2, <1>8 DEF ReservedTag, Note, When, Authorised
  <2> QED BY <1>1, <1>8, <2>1, ReservedTagDoes, EntitledAsks
<1>9. CASE Recover
  <2>1. calls' = calls /\ told' = told
    BY <1>9 DEF Recover
  <2> QED BY <1>1, <1>9, <2>1, RecoverDoes, EntitledKept
<1>10. CASE NothingToDo
  <2>1. calls' = calls /\ told' = told /\ h' = h
    BY <1>10 DEF NothingToDo
  <2> QED BY <1>1, <2>1, EntitledKept
<1> QED BY <1>3, <1>4, <1>5, <1>6, <1>7, <1>8, <1>9, <1>10 DEF Handler

LEMMA EntitledEndLoop == ASSUME TypeOK, Entitled, EndLoop PROVE Entitled'
<1>1. EndsRound
  BY EndLoopDoes
<1>2. Stays(h, h') /\ UNCHANGED <<seen, resv, mcu, odd, calls>> /\ pc' = "observe" /\ h'.asking = h.asking
      /\ h'.code \in {h.code, None} /\ h'.auth = h.auth /\ h'.by = h.by /\ told' \in {told, "stop", "reset"}
  BY <1>1 DEF EndsRound, Stays
<1>3. Status0' = Status0 /\ (Draws' => Draws)
  BY <1>2 DEF Stays, Status0, Draws, Wants
<1>4. CodeRight' /\ BookedRight' /\ SeenRight'
  BY <1>2 DEF Stays, Entitled, CodeRight, BookedRight, SeenRight
<1>5. CallsRight' /\ DrawsRight'
  BY <1>2, <1>3 DEF Stays, Entitled, CallsRight, DrawsRight, Asked, Call
<1>20. odd' = None
  BY <1>2 DEF Entitled
<1> QED BY <1>20, <1>4, <1>5 DEF Entitled

LEMMA EntitledReply == ASSUME TypeOK, Sound, Entitled, Reply, Without(R2)' PROVE Entitled'
<1>1. /\ calls # <<>> /\ Call \in Calls /\ Result(h, h', Call) /\ Call.live
  BY ReplyDoes DEF Call, Without, R2, Calls
<1>2. calls' = <<>> /\ Len(calls') = 0
  BY ReplyDoes, NoCall DEF Entitled
<1>3. /\ Stays(h, h') /\ UNCHANGED <<pc, seen, resv, mcu, odd, told>>
  BY CallbackStays
<1>4. Status0' = Status0 /\ (Draws' <=> Draws) /\ Wants' = Wants
  BY <1>3 DEF Stays, Status0, Draws, Wants
<1>5. /\ Call.kind \in {"start", "reserved"} => ~h.auth /\ h.tx = None
      /\ Call.kind = "start" => resv = None
      /\ Call.kind = "reserved" => resv = Call.ref
      /\ Draws /\ Status0 \in Ready => h.tx # None
  BY <1>1 DEF Entitled, CallsRight, DrawsRight, Asked
<1>6. CodeRight'
  BY <1>1, <1>3, <1>5 DEF Result, Like, Stays, Entitled, CodeRight
<1>7. CallsRight' /\ DrawsRight' /\ SeenRight'
  <2>1. CallsRight'
    BY <1>2 DEF CallsRight, Asked
  <2>2. DrawsRight'
    BY <1>3, <1>4, <1>5 DEF DrawsRight, Stays
  <2>3. SeenRight'
    BY <1>2, <1>3, <1>4 DEF Entitled, SeenRight, Stays
  <2> QED BY <2>1, <2>2, <2>3
<1>8. BookedRight'
  BY <1>1, <1>3, <1>5 DEF Result, Like, Stays, Entitled, BookedRight
<1>20. odd' = None
  BY <1>3 DEF Entitled
<1> QED BY <1>20, <1>6, <1>7, <1>8 DEF Entitled

LEMMA EntitledStartReply == ASSUME TypeOK, Sound, Entitled, StartReply, Without(R2)' PROVE Entitled'
<1>1. PICK c : c = Head(starts)
  OBVIOUS
<1>2. StartAnswered /\ "late" \notin taken' /\ UNCHANGED calls
  BY StartReplyDoes DEF Without, R2, StartReply
<1>3. /\ starts # <<>> /\ h'.code = c.tok /\ (c.live \/ h.code = c.tok) /\ c.live \in BOOLEAN
      /\ h'.asking = h.asking
      /\ \/ h'.auth = h.auth /\ h'.by = h.by
         \/ h.tx # None /\ h'.auth = FALSE
  BY <1>1, <1>2 DEF StartAnswered, Starts
<1>4. c.live => c.tok = store
  <2>1. starts \in Seq(Starts)
    BY DEF TypeOK
  <2>2. 1 \in DOMAIN starts /\ c = starts[1]
    BY <1>1, <1>3, <2>1
  <2> QED BY <2>2 DEF Sound, Current
<1>5. /\ Stays(h, h') /\ UNCHANGED <<pc, seen, resv, mcu, odd, told>>
  BY CallbackStays
<1>6. Status0' = Status0 /\ (Draws' <=> Draws) /\ Wants' = Wants
  BY <1>5 DEF Stays, Status0, Draws, Wants
<1>7. h'.code \in {h.code, store}
  BY <1>3, <1>4
<1>8. h.startup => h.tx = None /\ h.auth = FALSE
  BY DEF Sound, Starting
<1>9. ~h.startup => store = h.tx
  BY DEF Sound, OnFile
<1>10. CodeRight'
  BY <1>3, <1>5, <1>7, <1>8, <1>9 DEF Stays, Entitled, CodeRight
<1>11. CallsRight' /\ DrawsRight'
  BY <1>2, <1>3, <1>5, <1>6 DEF Stays, Entitled, CallsRight, DrawsRight, Asked, Call
<1>12. SeenRight' /\ BookedRight'
  BY <1>2, <1>3, <1>5, <1>6 DEF Stays, Entitled, SeenRight, BookedRight
<1>20. odd' = None
  BY <1>5 DEF Entitled
<1> QED BY <1>20, <1>10, <1>11, <1>12 DEF Entitled

LEMMA EntitledRemoteStart == ASSUME TypeOK, Sound, Entitled, RemoteStart, Without(R2)' PROVE Entitled'
<1>1. PICK c \in Calls :
            /\ \/ State(h) \in {"Available", "Preparing", "Finishing"} /\ c.kind = "start"
               \/ State(h) = "Reserved" /\ resv # None /\ c.kind = "reserved" /\ c.ref = resv
            /\ c.live = TRUE /\ Asks(h, c)
  BY RemoteStartDoes
<1>2. calls = <<>> /\ ~h.auth /\ h.tx = None /\ (resv = None \/ ~Unseen)
  BY DEF RemoteStart, Take, Note, When, Authorised, Without, R2
<1>3. UNCHANGED <<pc, seen, resv, mcu, odd, told>>
  BY DEF RemoteStart, Elsewhere
<1>4. c.kind = "start" => resv = None
  <2> SUFFICES ASSUME c.kind = "start", ~Unseen
               PROVE  resv = None
    BY <1>2
  <2>1. State(h) \in {"Available", "Preparing", "Finishing"} /\ h.st = State(h) /\ h \in Connectors
    BY <1>1 DEF Unseen, TypeOK
  <2>2. ~h.faulted /\ h.st # "Faulted"
    BY <2>1, StateOf
  <2>3. CASE h.st = "Finishing"
    BY <2>3 DEF Entitled, BookedRight
  <2>4. CASE h.st \in {"Available", "Preparing"}
    <3>1. h.reset = None /\ ~h.startup /\ oper /\ own /\ h.over = None /\ odd = None
      BY <2>1, <2>2, <2>4, StateServes DEF Sound, Overruled, Entitled
    <3> QED BY <1>2, <2>1, <2>2, <2>4, <3>1, StateServes DEF Serves
  <2> QED BY <2>1, <2>3, <2>4
<1>5. /\ c.kind \in {"start", "reserved"}
      /\ c.kind = "reserved" => c.ref = resv
  BY <1>1
<1> QED BY <1>1, <1>2, <1>3, <1>4, <1>5, EntitledAsks

LEMMA EntitledReserve == ASSUME TypeOK, Sound, Entitled, Reserve, Without(R2)' PROVE Entitled'
<1>1. UNCHANGED <<h, pc, seen, mcu, odd, told>> /\ calls' = (IF resv' # resv THEN Outdated(calls, {"reserved"}) ELSE calls)
  BY DEF Reserve, Elsewhere
<1>2. /\ Len(calls') = Len(calls) /\ (calls' # <<>> <=> calls # <<>>)
      /\ calls # <<>> => /\ Call'.kind = Call.kind /\ Call'.tok = Call.tok /\ Call'.ref = Call.ref
                         /\ (Call'.live => Call.live /\ (resv' # resv => Call.kind # "reserved"))
  <2>1. CASE resv' # resv
    <3>1. calls' = Outdated(calls, {"reserved"})
      BY <1>1, <2>1
    <3> QED BY <2>1, <3>1, Outdates
  <2>2. CASE resv' = resv
    BY <1>1, <2>2 DEF Call
  <2> QED BY <2>1, <2>2
<1>3. State(h) \in {"Available", "Reserved"} /\ h.st # "Faulted" /\ ~(State(h) = "Available" /\ Unseen) /\ h \in Connectors
  BY DEF Reserve, Take, Note, When, Without, R2, TypeOK
<1>4. ~h.faulted
  BY <1>3, StateOf
<1>5. h.reset = None /\ ~h.startup /\ oper /\ own /\ h.over = None /\ odd = None
  BY <1>3, <1>4, StateServes DEF Sound, Overruled, Entitled
<1>6. /\ ~h.auth
      /\ State(h) = "Available" => ~h.asking
      /\ State(h) = "Reserved" => resv # None
  BY <1>3, <1>4, <1>5, StateServes DEF Serves
<1>7. State(h) = "Available" => pc # "act" /\ h.st = "Available"
  BY <1>3 DEF Unseen
<1>8. Status0' = Status0 /\ Draws' = Draws /\ Wants' = Wants
  BY <1>1 DEF Status0, Draws, Wants
<1>9. CodeRight' /\ DrawsRight' /\ BookedRight'
  BY <1>1, <1>2, <1>3, <1>6, <1>7, <1>8 DEF Entitled, CodeRight, DrawsRight, BookedRight
<1>10. CallsRight'
  BY <1>1, <1>2, <1>3, <1>6, <1>8 DEF Entitled, CallsRight, Asked
<1>11. SeenRight'
  BY <1>1, <1>2, <1>3, <1>6, <1>7, <1>8 DEF Entitled, SeenRight
<1>20. odd' = None
  BY <1>1 DEF Entitled
<1> QED BY <1>20, <1>9, <1>10, <1>11 DEF Entitled

LEMMA EntitledElse ==
  ASSUME TypeOK, Entitled, Unreserve \/ ChangeAvailability \/ SetChargingVariables \/ RemoteStop, Without(R2)'
  PROVE  Entitled'
<1>1. CASE Unreserve
  <2>1. UNCHANGED <<h, pc, seen, mcu, odd, told>> /\ resv' = None /\ calls' = Outdated(calls, {"reserved"})
    BY <1>1 DEF Unreserve, Elsewhere
  <2>2. /\ Len(calls') = Len(calls) /\ (calls' # <<>> <=> calls # <<>>)
        /\ calls # <<>> => /\ Call'.kind = Call.kind /\ Call'.tok = Call.tok /\ Call'.ref = Call.ref
                           /\ Call'.live = (Call.live /\ Call.kind # "reserved")
    BY <2>1, Outdates
  <2>3. Status0' = Status0 /\ Draws' = Draws /\ Wants' = Wants
    BY <2>1 DEF Status0, Draws, Wants
  <2>4. CodeRight' /\ DrawsRight' /\ BookedRight'
    BY <2>1, <2>2, <2>3 DEF Entitled, CodeRight, DrawsRight, BookedRight
  <2>5. CallsRight' /\ SeenRight'
    BY <2>1, <2>2, <2>3 DEF Entitled, CallsRight, SeenRight, Asked
  <2> QED BY <2>1, <2>4, <2>5 DEF Entitled
<1>2. CASE ChangeAvailability
  <2>1. UNCHANGED <<pc, seen, resv, mcu, odd, told, calls>>
    BY <1>2 DEF ChangeAvailability, Elsewhere
  <2>2. /\ Stays(h, h') /\ h'.asking = h.asking /\ h'.code = h.code /\ h'.auth = h.auth /\ h'.by = h.by
    BY <1>2, ChangeAvailabilityDoes DEF Like, Same, Stays
  <2> QED BY <2>1, <2>2, EntitledKept
<1>3. CASE SetChargingVariables
  <2>1. /\ UNCHANGED <<h, pc, seen, resv, odd, calls>> /\ h.tx # None
        /\ (Wants' => Wants) \/ pc # "act"
    <3>1. /\ limit' = ~limit /\ limit \in BOOLEAN
          /\ mcu' = (IF limit /\ mcu \in {"idle", "charging"} THEN "paused" ELSE mcu)
          /\ told' = IF limit THEN told ELSE "start"
          /\ limit' => ~Unseen
      BY <1>3 DEF SetChargingVariables, Take, Note, When, Without, R2, TypeOK
    <3> QED BY <1>3, <3>1 DEF SetChargingVariables, Wants, Drawing, Unseen
  <2>2. Status0' = Status0
    BY <2>1 DEF Status0
  <2> QED BY <2>1, <2>2 DEF Entitled, CodeRight, CallsRight, DrawsRight, SeenRight, BookedRight, Asked, Call
<1>4. CASE RemoteStop
  <2>1. UNCHANGED <<pc, seen, resv, mcu, odd, told, calls>>
    BY <1>4 DEF RemoteStop, Elsewhere
  <2>2. /\ Stays(h, h') /\ h'.asking = h.asking /\ h'.code = h.code /\ h'.auth = FALSE /\ h.tx # None
    BY <1>4, RemoteStopDoes DEF Same, Stays
  <2> QED BY <2>1, <2>2, EntitledKept
<1> QED BY <1>1, <1>2, <1>3, <1>4

LEMMA EntitledWorld == ASSUME TypeOK, Sound, Entitled, World, Without(R2)' PROVE Entitled'
<1>1. CASE ShowTag \/ Connect \/ Disconnect \/ McuObeys \/ CarDraws \/ Warnings \/ Disable
  <2>1. UNCHANGED <<h, pc, seen, resv, odd, calls>>
    BY <1>1 DEF ShowTag, Connect, Disconnect, McuObeys, CarDraws, Warnings, Disable, Software
  <2>2. Wants' => Wants
    <3>1. CASE ShowTag \/ Warnings \/ Disable
      BY <3>1 DEF ShowTag, Warnings, Disable, Wants
    <3>2. CASE Connect \/ Disconnect
      BY <3>2 DEF Connect, Disconnect, Wants, Drawing, None
    <3>3. CASE CarDraws
      BY <3>3 DEF CarDraws, Wants, Drawing
    <3>4. CASE McuObeys
      <4>1. told' = None /\ told \in {"start", "stop", "reset"}
        BY <3>4 DEF McuObeys, TypeOK
      <4>2. CASE told = "start"
        <5>1. mcu' = IF mcu \in {"requesting", "paused"} THEN IF limit THEN "idle" ELSE "paused" ELSE mcu
          BY <3>4, <4>2 DEF McuObeys
        <5> QED BY <4>1, <4>2, <5>1 DEF Wants, Drawing, None
      <4>3. CASE told \in {"stop", "reset"}
        <5>1. mcu' = IF mcu # "disconnected" THEN "requesting" ELSE mcu
          BY <3>4, <4>3 DEF McuObeys
        <5> QED BY <4>1, <5>1 DEF Wants, Drawing, None
      <4> QED BY <4>1, <4>2, <4>3
    <3> QED BY <1>1, <3>1, <3>2, <3>3, <3>4
  <2>3. Status0' = Status0 /\ (Draws' => Draws)
    BY <2>1, <2>2 DEF Status0, Draws
  <2> QED BY <2>1, <2>2, <2>3
          DEF Entitled, CodeRight, CallsRight, DrawsRight, SeenRight, BookedRight, Asked, Call
<1>2. CASE Restart
  <2>1. /\ h'.st = "Unavailable" /\ h'.tx = None /\ h'.auth = FALSE
        /\ pc' = "observe" /\ calls' = <<>> /\ Len(calls') = 0 /\ odd' = odd
    BY <1>2, RestartDoes DEF Restart
  <2> QED BY <2>1 DEF Entitled, CodeRight, CallsRight, DrawsRight, SeenRight, BookedRight, Asked, Status0, Ready
<1>3. CASE Report
  <2>1. UNCHANGED <<h, pc, seen, resv, mcu, told, calls>> /\ (odd' # None => "mode" \in taken')
    BY <1>3 DEF Report, Software, Take, Note, When
  <2>2. odd' = None
    BY <2>1 DEF Without, R2
  <2> QED BY <2>1, <2>2 DEF Entitled, CodeRight, CallsRight, DrawsRight, SeenRight, BookedRight, Asked, Call,
                            Draws, Wants, Status0
<1> QED BY <1>1, <1>2, <1>3 DEF World

\* Whom the connector serves unless one of those risks was taken.
Serving == Without(R2) => Entitled

LEMMA ServingStep == ASSUME TypeOK, Sound, InStep, Serving, [Next]_vars PROVE Serving'
<1> SUFFICES ASSUME Without(R2)' PROVE Entitled'
  BY DEF Serving
<1>1. Entitled /\ Usable
  <2>1. Without(R2)
    BY WithoutBefore
  <2>2. Without({"race", "disable"})
    BY <2>1 DEF Without, R2
  <2> QED BY <2>1, <2>2 DEF Serving, InStep
<1>2. CASE Observe \/ Enter \/ Handler \/ EndLoop
  BY <1>1, <1>2, EntitledObserve, EntitledEnter, EntitledHandler, EntitledEndLoop
<1>3. CASE Callback
  BY <1>1, <1>3, EntitledReply, EntitledStartReply, EntitledRemoteStart, EntitledReserve, EntitledElse DEF Callback
<1>4. CASE World
  BY <1>1, <1>4, EntitledWorld
<1>5. CASE UNCHANGED vars
  BY <1>1, <1>5 DEF vars, Entitled, CodeRight, CallsRight, DrawsRight, SeenRight, BookedRight, Asked, Call,
                    Draws, Wants, Status0
<1> QED BY <1>2, <1>3, <1>4, <1>5 DEF Next, Loop

LEMMA ServingInvariant == Spec => [](TypeOK /\ Sound /\ InStep /\ Serving)
<1>1. Init => TypeOK /\ Sound /\ InStep /\ Serving
  BY TypeInit, SoundInit, AgreeInit, EntitledInit DEF InStep, Serving
<1>2. TypeOK /\ Sound /\ InStep /\ Serving /\ [Next]_vars => (TypeOK /\ Sound /\ InStep /\ Serving)'
  BY TypeStep, SoundStep, InStepStep, ServingStep
<1> QED BY <1>1, <1>2, PTL DEF Spec

\* Only the loop begins and ends transactions.
LEMMA FileKept ==
  ASSUME [Next]_vars, store' # store
  PROVE  Observe \/ Enter
BY DEF Next, Loop, Handler, Callback, World, Authorize, StartCharging, PreparingTag,
       ConnectionTimeout, DuringTx, ReservedTag, Recover, NothingToDo, EndLoop, Reply, StartReply,
       RemoteStart, RemoteStop, Reserve, Unreserve, ChangeAvailability, SetChargingVariables,
       ShowTag, Connect, Disconnect, McuObeys, CarDraws, Report, Warnings, Disable, Restart,
       Kept, Elsewhere, Software, vars

\* A transaction that begins is the one of the token authorised last.
LEMMA BeginsRight ==
  ASSUME TypeOK, Sound, Entitled, [Next]_vars, store = None, store' # None
  PROVE  /\ store' = h.by
         /\ resv # None => Related(store', resv)
<1>1. CASE Observe
  <2>1. Observed
    BY <1>1, ObservedIs
  <2>2. CASE h.startup /\ store' = h'.tx /\ (h'.tx # None => h'.tx = store)
    BY <2>2
  <2>3. CASE UNCHANGED store
    BY <2>3
  <2> QED BY <2>1, <2>2, <2>3 DEF Observed
<1>2. CASE Enter
  <2>1. PICK new : new = Entered
    OBVIOUS
  <2>2. Enters(new) /\ h \in Connectors
    BY <1>2, <2>1, EnteredFrom
  <2>3. Begins(h.st, new)
    BY <2>2 DEF Enters
  <2>4. pc = "act" /\ new = seen.st /\ seen.st \in InTx /\ h.st \in Ready /\ Status0 = h.st
    BY <2>2, <2>3 DEF Enters, Begins, Ready, InTx, Status0
  <2>5. ~Ends(h.st, new)
    BY <2>4 DEF Ends, InTx, Ready
  <2>6. ~h.startup /\ h.tx = None
    BY <2>4 DEF Sound, Starting, OnFile, Ready
  <2>7. h.auth /\ h.code \in {None, h.by}
    BY <2>4, <2>6 DEF Entitled, DrawsRight, Draws, CodeRight
  <2>8. h.by # None /\ h.start = h.by
    BY <2>7 DEF Sound, GrantedBy
  <2>9. store' = h.by
    BY <2>2, <2>3, <2>7, <2>8 DEF Enters
  <2>10. resv # None => Related(h.by, resv)
    BY <2>7 DEF Entitled, BookedRight
  <2> QED BY <2>9, <2>10
<1> QED BY <1>1, <1>2, FileKept

\* A transaction starts with the token that was authorised last, unless one of the risks of R2
\* was taken: no interleaving of the loop with replies and remote commands gives it to another.
THEOREM TokenIsRight == Spec => TokenRight
<1>1. TypeOK /\ Sound /\ InStep /\ Serving /\ [Next]_vars =>
        [ Without({"late", "second", "stale", "race", "disable", "mode"})
          /\ store = None /\ store' # None => store' = h.by ]_vars
  BY BeginsRight DEF Serving, R2
<1> QED BY <1>1, ServingInvariant, PTL DEF Spec, TokenRight

\* Unless one of the same risks was taken, a transaction that starts while a reservation stands
\* is of its token or of a related one.
THEOREM ReservationIsKept == Spec => ReservationKept
<1>1. TypeOK /\ Sound /\ InStep /\ Serving /\ [Next]_vars =>
        [ Without({"late", "second", "stale", "race", "disable", "mode"})
          /\ store = None /\ store' # None /\ resv # None => Related(store', resv) ]_vars
  BY BeginsRight DEF Serving, R2
<1> QED BY <1>1, ServingInvariant, PTL DEF Spec, ReservationKept

-----------------------------------------------------------------------------
(* Who may stop.                                                           *)

R3 == R2 \cup {"nack", "sched", "gap"}

\* A request to stop was compared with the transaction that is active.
StopRight == Asked({"stop"}) /\ Call.live /\ h.tx # None => Call.ref \in {None, h.tx}
\* A tag that stopped the session is kept until the session is reset, or the car leaves.
StopKept == h.rfid # None => h.open = TRUE /\ h.reset \in {"initiated", "stopSent", "finalize", "doReset"}
\* It is of the transaction, and no transaction is about to begin.
StopOwned == /\ h.rfid # None /\ h.tx # None => Related(h.rfid, h.tx)
             /\ pc = "act" /\ h.st \in Ready /\ seen.st \in InTx => h.rfid = None

Owned == StopRight /\ StopKept /\ StopOwned

LEMMA NoneRelated == ASSUME NEW t \in Tokens PROVE ~Related(t, None)
BY ConnectorAssumption DEF Related, None

LEMMA OwnedInit == Init => Owned
<1> SUFFICES ASSUME Init PROVE Owned
  OBVIOUS
<1>1. h.rfid = None /\ calls = <<>>
  BY DEF Init, Boot
<1> QED BY <1>1 DEF Owned, StopRight, StopKept, StopOwned, Asked

\* A step that stops nothing by a tag.
LEMMA OwnedKept ==
  ASSUME TypeOK, Owned, Stays(h, h'), h'.rfid = h.rfid, h'.open = h.open,
         h'.reset \in {h.reset, "initiated"}, UNCHANGED seen, pc' \in {pc, "end"},
         \/ calls' = calls \/ calls' = <<>> \/ (\E gone : calls' = Outdated(calls, gone))
         \/ Call'.kind # "stop"
  PROVE  Owned'
<1>1. h'.st = h.st /\ h'.tx = h.tx
  BY DEF Stays
<1>2. StopRight'
  <2>1. CASE calls' = calls
    BY <1>1, <2>1 DEF Owned, StopRight, Asked, Call
  <2>2. CASE calls' = <<>> \/ Call'.kind # "stop"
    BY <2>2 DEF StopRight, Asked
  <2>3. CASE \E gone : calls' = Outdated(calls, gone)
    <3>1. /\ calls' # <<>> <=> calls # <<>>
          /\ calls # <<>> => /\ Call'.kind = Call.kind /\ Call'.ref = Call.ref
                             /\ (Call'.live => Call.live)
      BY <2>3, Outdates
    <3> QED BY <1>1, <3>1 DEF Owned, StopRight, Asked
  <2> QED BY <2>1, <2>2, <2>3
<1>3. StopKept'
  BY DEF Owned, StopKept
<1>4. StopOwned'
  BY <1>1 DEF Owned, StopOwned
<1> QED BY <1>2, <1>3, <1>4 DEF Owned

LEMMA OwnedObserve == ASSUME TypeOK, Sound, Owned, Observe PROVE Owned'
<1>1. Observed
  BY ObservedIs
<1>2. h.startup => h.tx = None /\ h.reset = None /\ calls = <<>>
  BY DEF Sound, Starting
<1>3. /\ calls' = calls /\ h'.rfid = h.rfid /\ h'.open = h.open /\ h'.reset = h.reset /\ h'.st = h.st
      /\ h'.tx = h.tx \/ h.startup
  BY <1>1 DEF Observed
<1>4. h.startup => h.rfid = None
  BY <1>2 DEF Owned, StopKept, None
<1>5. StopRight' /\ StopKept'
  BY <1>2, <1>3 DEF Owned, StopRight, StopKept, Asked, Call
<1>6. h'.rfid # None /\ h'.tx # None => Related(h'.rfid, h'.tx)
  BY <1>3, <1>4 DEF Owned, StopOwned
<1>7. h'.st \in Ready /\ seen'.st \in InTx => h'.rfid = None
  <2> SUFFICES ASSUME h.st \in Ready, seen'.st \in InTx PROVE h.rfid = None
    BY <1>3
  <2>1. h.reset = None
    BY <1>1 DEF Observed, Ready, InTx
  <2> QED BY <2>1 DEF Owned, StopKept, None
<1> QED BY <1>5, <1>6, <1>7 DEF Owned, StopOwned

LEMMA OwnedEnter == ASSUME TypeOK, Sound, Agree, Entitled, Owned, Enter PROVE Owned'
<1>1. PICK new : new = Entered
  OBVIOUS
<1>2. Enters(new) /\ pc' = "end" /\ pc = "act"
  BY <1>1, EnteredFrom DEF Enters
<1>3. PICK gone : /\ calls' = Outdated(calls, gone)
                  /\ ("stop" \in gone <=> Ends(h.st, new))
  BY <1>1, EnterDoes
<1>4. /\ calls' # <<>> <=> calls # <<>>
      /\ calls # <<>> => /\ Call'.kind = Call.kind /\ Call'.ref = Call.ref
                         /\ Call'.live = (Call.live /\ Call.kind \notin gone)
  BY <1>3, Outdates
<1>5. h'.rfid = h.rfid /\ h'.open = h.open /\ h'.reset = h.reset
  BY <1>2 DEF Enters
<1>6. Begins(h.st, new) => seen.st \in InTx /\ h.st \in Ready /\ Status0 = h.st
  BY <1>2 DEF Enters, Begins, Ready, InTx, Status0
<1>7. h'.tx = h.tx \/ h'.tx = None \/ Begins(h.st, new)
  BY <1>2 DEF Enters
<1>8. StopRight'
  <2> SUFFICES ASSUME Asked({"stop"})', Call'.live, h'.tx # None
               PROVE  Call'.ref \in {None, h'.tx}
    BY DEF StopRight
  <2>1. Asked({"stop"}) /\ Call.live /\ calls # <<>> /\ Call'.ref = Call.ref
    BY <1>4 DEF Asked
  <2>2. CASE Begins(h.st, new)
    <3>1. h.tx = None => h.auth /\ ~Call.live
      BY <1>2, <1>6, <2>1, <2>2 DEF Entitled, DrawsRight, Draws
    <3>2. h.tx = None
      BY <1>6, <2>2 DEF Agree, Ready, InTx
    <3> QED BY <2>1, <3>1, <3>2
  <2>3. CASE ~Begins(h.st, new)
    <3>1. h'.tx = h.tx
      BY <1>7, <2>3
    <3> QED BY <2>1, <3>1 DEF Owned, StopRight
  <2> QED BY <2>2, <2>3
<1>9. StopKept'
  BY <1>5 DEF Owned, StopKept
<1>10. StopOwned'
  BY <1>2, <1>5, <1>6, <1>7 DEF Owned, StopOwned
<1> QED BY <1>8, <1>9, <1>10 DEF Owned

\* A request to stop is made by the tag of a transaction that is active.
LEMMA OwnedHandler ==
  ASSUME TypeOK, Agree, Entitled, Owned, Handler, Without(R2)'
  PROVE  Owned'
<1>1. /\ Stays(h, h') /\ h'.reset \in {h.reset, "initiated"} /\ UNCHANGED seen
      /\ pc = "act" /\ pc' = "end" /\ seen.st = h.st
  BY HandlerStays
<1>2. h \in Connectors /\ "second" \notin taken'
  BY DEF TypeOK, Without, R2
<1>3. ASSUME NEW c \in Calls, c.kind # "stop", Asks(h, c), calls = <<>> PROVE Owned'
  <2>1. h'.rfid = h.rfid /\ h'.open = h.open
    BY <1>3 DEF Asks, Result, Waits, Like, Same
  <2>2. calls' = calls \/ Call'.kind # "stop"
    BY <1>3, OnlyCall DEF Asks
  <2> QED BY <1>1, <2>1, <2>2, OwnedKept
<1>4. CASE Authorize
  <2>1. calls = <<>>
    BY <1>2, <1>4 DEF Authorize, Note, When, Authorised
  <2>2. PICK c \in Calls : c.kind = "start" /\ Asks(h, c)
    BY <1>4, AuthorizeDoes
  <2> QED BY <1>3, <2>1, <2>2
<1>5. CASE StartCharging
  BY <1>1, <1>5, OwnedKept DEF StartCharging
<1>6. CASE PreparingTag
  <2>1. calls = <<>>
    BY <1>2, <1>6 DEF PreparingTag, Note, When
  <2>2. PICK c \in Calls : c.kind = (IF h.auth THEN "cancel" ELSE "start") /\ Asks(h, c)
    BY <1>6, PreparingTagDoes
  <2>3. c.kind # "stop"
    BY <2>2
  <2> QED BY <1>3, <2>1, <2>2, <2>3
<1>7. CASE ConnectionTimeout
  <2>1. h'.rfid = h.rfid /\ h'.open = h.open /\ calls' = calls
    BY <1>7, ConnectionTimeoutDoes DEF Same, ConnectionTimeout
  <2> QED BY <1>1, <2>1, OwnedKept
<1>8. CASE DuringTx
  <2>1. CASE UNCHANGED <<h, calls>>
    <3>1. h'.rfid = h.rfid /\ h'.open = h.open /\ calls' = calls
      BY <2>1
    <3> QED BY <1>1, <3>1, OwnedKept
  <2>2. CASE ~UNCHANGED <<h, calls>>
    <3>1. calls = <<>>
      BY <1>2, <1>8, <2>2 DEF DuringTx, Note, When
    <3>2. PICK c \in Calls : c.kind = "stop" /\ c.ref = h.code /\ c.live = TRUE /\ Asks(h, c)
      BY <1>8, <2>2, DuringTxDoes
    <3>3. h.tx # None /\ h.code \in {None, h.tx}
      <4>1. h.st \in InTx /\ Status0 = h.st
        BY <1>8 DEF DuringTx, Handling, InTx, Status0
      <4> QED BY <4>1 DEF Agree, Entitled, CodeRight
    <3>4. /\ h'.tx = h.tx /\ h'.open = h.open
      BY <1>1, <3>2 DEF Stays, Asks, Result, Waits, Like, Same
    <3>5. /\ StopRight'
      <4>1. calls' = <<>> \/ Call' = c
        BY <3>1, <3>2, OnlyCall DEF Asks
      <4> QED BY <3>2, <3>3, <3>4, <4>1 DEF StopRight, Asked
    <3>6. \/ h'.rfid = h.rfid
          \/ h.open /\ h'.rfid = c.tok /\ h'.reset = "initiated" /\ Related(c.tok, c.ref)
      BY <3>2 DEF Asks, Result, Waits, Like
    <3>7. c.tok \in Tokens /\ h.open \in BOOLEAN
      BY <1>2, Fields DEF Calls
    <3>8. StopKept'
      BY <1>1, <3>4, <3>6, <3>7 DEF Owned, StopKept
    <3>9. Related(c.tok, c.ref) => Related(c.tok, h.tx)
      BY <3>2, <3>3, <3>7, NoneRelated
    <3>10. StopOwned'
      BY <1>1, <3>4, <3>6, <3>9 DEF Owned, StopOwned
    <3> QED BY <3>5, <3>8, <3>10 DEF Owned
  <2> QED BY <2>1, <2>2
<1>9. CASE ReservedTag
  <2>1. calls = <<>>
    BY <1>2, <1>9 DEF ReservedTag, Note, When, Authorised
  <2>2. PICK c \in Calls : c.kind = "reserved" /\ Asks(h, c)
    BY <1>9, ReservedTagDoes
  <2> QED BY <1>3, <2>1, <2>2
<1>10. CASE Recover
  <2>1. h'.rfid = h.rfid /\ h'.open = h.open /\ calls' = calls
    BY <1>10, RecoverDoes DEF Recover
  <2> QED BY <1>1, <2>1, OwnedKept
<1>11. CASE NothingToDo
  BY <1>1, <1>11, OwnedKept DEF NothingToDo
<1> QED BY <1>4, <1>5, <1>6, <1>7, <1>8, <1>9, <1>10, <1>11 DEF Handler

LEMMA OwnedEndLoop == ASSUME TypeOK, Owned, EndLoop, "nack" \notin taken' PROVE Owned'
<1>1. EndsRound
  BY EndLoopDoes
<1>2. h.open \in BOOLEAN /\ h'.open \in BOOLEAN
  BY <1>1, Fields DEF EndsRound, TypeOK
<1>3. StopRight'
  BY <1>1 DEF EndsRound, Owned, StopRight, Asked, Call
<1>4. StopKept'
  <2> SUFFICES ASSUME h'.rfid # None
               PROVE  h'.open = TRUE /\ h'.reset \in {"initiated", "stopSent", "finalize", "doReset"}
    BY DEF StopKept
  <2>1. h.rfid # None /\ h'.open = h.open
    BY <1>1 DEF EndsRound
  <2>2. h.open = TRUE /\ h.reset \in {"initiated", "stopSent", "finalize", "doReset"}
    BY <2>1 DEF Owned, StopKept
  <2> QED BY <1>1, <2>1, <2>2 DEF EndsRound
<1>5. StopOwned'
  BY <1>1 DEF EndsRound, Owned, StopOwned
<1> QED BY <1>3, <1>4, <1>5 DEF Owned

LEMMA OwnedReply ==
  ASSUME TypeOK, Sound, Agree, Entitled, Owned, Reply, Without(R2)'
  PROVE  Owned'
<1>1. /\ calls # <<>> /\ Call \in Calls /\ Result(h, h', Call) /\ Call.live
  BY ReplyDoes DEF Call, Without, R2, Calls
<1>2. calls' = <<>>
  BY ReplyDoes, NoCall DEF Entitled
<1>3. Stays(h, h') /\ h'.reset \in {h.reset, "initiated"} /\ UNCHANGED <<pc, seen>>
  BY CallbackStays
<1>4. h'.open = h.open /\ h'.st = h.st /\ h'.tx = h.tx
  BY <1>1, <1>3 DEF Result, Same, Stays
<1>5. CASE h'.rfid = h.rfid
  BY <1>2, <1>3, <1>4, <1>5, OwnedKept
<1>6. CASE h'.rfid # h.rfid
  <2>1. Call.kind = "stop" /\ Related(Call.tok, Call.ref) /\ h'.reset = "initiated" /\ h.open /\ h'.rfid = Call.tok
    BY <1>1, <1>6 DEF Result, Like
  <2>2. Call.tok \in Tokens /\ h.open \in BOOLEAN
    BY <1>1, Fields DEF Calls, TypeOK
  <2>3. h.tx # None => Related(Call.tok, h.tx)
    BY <1>1, <2>1, <2>2, NoneRelated DEF Owned, StopRight, Asked
  <2>4. ~(pc = "act" /\ h.st \in Ready /\ seen.st \in InTx)
    <3> SUFFICES ASSUME pc = "act", h.st \in Ready, seen.st \in InTx
                 PROVE  FALSE
      OBVIOUS
    <3>1. Status0 = h.st /\ h.st \notin InTx \cup {"Faulted", "Unavailable"}
      BY DEF Status0, Ready, InTx
    <3>2. h.tx = None
      BY <3>1 DEF Agree
    <3> QED BY <1>1, <3>1, <3>2 DEF Entitled, DrawsRight, Draws
  <2>5. StopRight' /\ StopKept'
    BY <1>2, <1>4, <2>1, <2>2 DEF StopRight, StopKept, Asked
  <2>6. StopOwned'
    BY <1>3, <1>4, <2>1, <2>3, <2>4 DEF StopOwned
  <2> QED BY <2>5, <2>6 DEF Owned
<1> QED BY <1>5, <1>6

LEMMA OwnedCallback ==
  ASSUME TypeOK, Sound, Agree, Entitled, Owned, Callback, Without(R2)'
  PROVE  Owned'
<1>1. CASE Reply
  BY <1>1, OwnedReply
<1>2. CASE StartReply
  <2>1. h'.rfid = h.rfid /\ h'.open = h.open /\ calls' = calls
    BY <1>2, StartReplyDoes DEF StartAnswered, Same, StartReply
  <2> QED BY <1>2, <2>1, CallbackStays, OwnedKept
<1>3. CASE RemoteStop
  <2>1. h'.rfid = h.rfid /\ h'.open = h.open /\ calls' = calls
    BY <1>3, RemoteStopDoes DEF Same, RemoteStop
  <2> QED BY <1>3, <2>1, CallbackStays, OwnedKept
<1>4. CASE RemoteStart
  <2>1. calls = <<>>
    BY <1>4 DEF RemoteStart, Take, Note, When, Authorised, Without, R2
  <2>2. PICK c \in Calls : c.kind \in {"start", "reserved"} /\ Asks(h, c)
    BY <1>4, RemoteStartDoes
  <2>3. h'.rfid = h.rfid /\ h'.open = h.open
    BY <2>2 DEF Asks, Result, Waits, Like, Same
  <2>4. calls' = calls \/ Call'.kind # "stop"
    BY <2>1, <2>2, OnlyCall DEF Asks
  <2> QED BY <1>4, <2>3, <2>4, CallbackStays, OwnedKept
<1>5. CASE Reserve \/ Unreserve \/ SetChargingVariables
  <2>1. h' = h /\ UNCHANGED <<pc, seen>> /\ (calls' = calls \/ calls' = Outdated(calls, {"reserved"}))
    BY <1>5 DEF Reserve, Unreserve, SetChargingVariables, Elsewhere
  <2> QED BY <2>1, OwnedKept DEF Stays, TypeOK
<1>6. CASE ChangeAvailability
  <2>1. UNCHANGED <<pc, seen, calls>>
    BY <1>6 DEF ChangeAvailability, Elsewhere
  <2> QED BY <1>6, <2>1, ChangeAvailabilityDoes, OwnedKept DEF Stays, Like, Same
<1> QED BY <1>1, <1>2, <1>3, <1>4, <1>5, <1>6 DEF Callback

LEMMA OwnedWorld == ASSUME TypeOK, Owned, World PROVE Owned'
<1>1. CASE Restart
  <2>1. h'.rfid = None /\ calls' = <<>>
    BY <1>1, RestartDoes DEF Restart
  <2> QED BY <2>1 DEF Owned, StopRight, StopKept, StopOwned, Asked
<1>2. CASE ShowTag \/ Connect \/ Disconnect \/ McuObeys \/ CarDraws \/ Report \/ Warnings \/ Disable
  <2>1. UNCHANGED <<h, pc, seen, calls>>
    BY <1>2 DEF ShowTag, Connect, Disconnect, McuObeys, CarDraws, Report, Warnings, Disable, Software
  <2> QED BY <2>1, OwnedKept DEF Stays, TypeOK
<1> QED BY <1>1, <1>2 DEF World

\* Whose tag has stopped the session unless one of those risks was taken.
Owning == Without(R3) => Owned

LEMMA OwningStep == ASSUME TypeOK, Sound, InStep, Serving, Owning, [Next]_vars PROVE Owning'
<1> SUFFICES ASSUME Without(R3)' PROVE Owned'
  BY DEF Owning
<1>1. Without(R3) /\ Without(R2)' /\ "nack" \notin taken'
  BY WithoutBefore DEF Without, R3
<1>2. Owned /\ Without(R2) /\ Without(R1)
  BY <1>1 DEF Owning, Without, R1, R2, R3
<1>3. Entitled /\ Agree
  BY <1>2 DEF Serving, InStep
<1>4. CASE Observe \/ Enter \/ Handler \/ EndLoop
  BY <1>1, <1>2, <1>3, <1>4, OwnedObserve, OwnedEnter, OwnedHandler, OwnedEndLoop
<1>5. CASE Callback
  BY <1>1, <1>2, <1>3, <1>5, OwnedCallback
<1>6. CASE World
  BY <1>2, <1>6, OwnedWorld
<1>7. CASE UNCHANGED vars
  BY <1>2, <1>7 DEF vars, Owned, StopRight, StopKept, StopOwned, Asked, Call
<1> QED BY <1>4, <1>5, <1>6, <1>7 DEF Next, Loop

LEMMA OwningInvariant == Spec => [](TypeOK /\ Sound /\ InStep /\ Serving /\ Owning)
<1>1. Init => TypeOK /\ Sound /\ InStep /\ Serving /\ Owning
  BY TypeInit, SoundInit, AgreeInit, EntitledInit, OwnedInit DEF InStep, Serving, Owning
<1>2. TypeOK /\ Sound /\ InStep /\ Serving /\ Owning /\ [Next]_vars
      => (TypeOK /\ Sound /\ InStep /\ Serving /\ Owning)'
  BY TypeStep, SoundStep, InStepStep, ServingStep, OwningStep
<1> QED BY <1>1, <1>2, PTL DEF Spec

\* A transaction that ends with a tag noted for the session ends by a tag that may end it.
LEMMA EndsRight ==
  ASSUME TypeOK, Sound, Owned, store # None, h.rfid # None
  PROVE  Related(h.rfid, store)
<1>1. ~h.startup
  BY DEF Owned, StopKept, Sound, Starting, None
<1>2. h.tx # None /\ store = h.tx
  BY <1>1 DEF Sound, OnFile
<1> QED BY <1>2 DEF Owned, StopOwned

\* When a transaction ends in a session that a tag has stopped, the tag is of its token or of a
\* related one, unless one of the risks of R3 was taken: the answer to a comparison never
\* stops a transaction that it was not compared with.
THEOREM OwnerStopsIt == Spec => OwnerStops
<1>1. TypeOK /\ Sound /\ InStep /\ Serving /\ Owning /\ [Next]_vars =>
        [ Without({"late", "second", "stale", "race", "disable", "nack", "sched", "gap", "mode"})
          /\ store # None /\ store' = None /\ h.rfid # None => Related(h.rfid, store) ]_vars
  <2>1. R3 = {"late", "second", "stale", "race", "disable", "nack", "sched", "gap", "mode"}
    BY DEF R2, R3
  <2> QED BY <2>1, EndsRight DEF Owning
<1> QED BY <1>1, OwningInvariant, PTL DEF Spec, OwnerStops
=============================================================================
