--------------------------- MODULE OfflineDelivery ---------------------------
(***************************************************************************)
(* Charge sessions and signed readings on their way to the cloud           *)
(* (sessionHandler.c, chargeSession.c, OCMF.c; without MID).  The session  *)
(* task opens a session file when a car connects, closes it when the car   *)
(* leaves, and sends the closed files; every hour another task takes a     *)
(* signed reading, sends the readings it has logged and then this one; the *)
(* MQTT task sets the session id the cloud chose.  The charger may restart *)
(* at any step, and the connection may be lost.                            *)
(*                                                                         *)
(* A reset of the session by the cloud makes the charger see the car leave *)
(* and come back, and is not told apart from that.                         *)
(***************************************************************************)
EXTENDS BlockedPublish, OfflineFiles

CONSTANTS
    MaxWork,        \* bound: sessions and signed readings together
    MaxTroubles     \* bound: how many kinds of trouble a behaviour meets

\* Trouble is a restart, a lost connection, or one of the coincidences:
\* "stale": another task writes the session file with what it read before.
\* "torn": power fails while a block of a file is written over, or between the
\* session and its first value, or its last value and its end.
\* "lateid": the cloud's session id comes between seeing the car and starting.
\* "delete": the command that deletes the log.
ASSUME OfflineDeliveryAssumption ==
    /\ {MaxWork, MaxTroubles} \subseteq Nat
    /\ Publishers = {"session", "ocmf"}

VARIABLES
    session,    \* chargeSession
    cur,        \* chargeOperatingMode of the session task
    prev,       \* previousChargeOperatingMode
    first,      \* firstTimeAfterBoot
    doCheck,    \* doCheckOfflineSessions
    on,         \* isOnline
    carHere,    \* isCarConnected
    pc,         \* where the session task is
    left,       \* its local: files still to send
    after,      \* its local: where it goes on after sending
    ocmf,       \* the task of the readings: where it is and its locals
    remaining,  \* hasRemainingEnergy or hasCharged
    logLock,    \* whether the lock of the log can be had
    mode,       \* the operating mode the MCU reports
    starts, readings,   \* how many there have been
    troubles,   \* the kinds of trouble there have been
    ended,      \* the sessions that have ended
    unfiled,    \* the sessions without a file: none was free, the id came before the
                \* start, or another task wrote over the end that was on file
    kept,       \* the readings that were sent or logged
    pushedOut   \* the readings that gave way in a full log

ram == <<session, cur, prev, first, doCheck, on, carHere, pc, left, after>>
env == <<mode, starts, readings, troubles>>
history == <<ended, unfiled, kept, pushedOut>>
vars == <<publish, fileVars, ram, ocmf, remaining, logLock, env, history>>

Connected == {"requesting", "charging"}
NoSession == [no |-> 0, ended |-> FALSE, used |-> FALSE, local |-> FALSE]
Idle == [at |-> "idle", reading |-> 0, start |-> 0, end |-> 0, car |-> FALSE, seen |-> NoSession]

\* Trouble comes once for each kind, and only so many kinds.
Trouble(c) ==
    /\ c \in Coincidences \cup {"restart", "drop"}
    /\ c \notin troubles
    /\ Cardinality(troubles) < MaxTroubles
    /\ troubles' = troubles \cup {c}

Work == starts + readings < MaxWork

RamInit ==
    /\ session = NoSession
    /\ cur = "uninitialized" /\ prev = "uninitialized"
    /\ first = TRUE /\ doCheck = TRUE /\ on = FALSE /\ carHere = FALSE
    /\ pc = "top" /\ left = 0 /\ after = "look"
    /\ ocmf = Idle /\ remaining = FALSE /\ logLock = TRUE

Init ==
    /\ PublishInit /\ FilesInit /\ RamInit
    /\ mode = "disconnected"
    /\ starts = 0 /\ readings = 0 /\ troubles = {}
    /\ ended = {} /\ unfiled = {} /\ kept = {} /\ pushedOut = {}

-----------------------------------------------------------------------------
(* The session task.                                                       *)

\* The top of the loop: without a car, closed files are sent.
Top ==
    /\ pc = "top"
    /\ on' = online
    /\ doCheck' = (doCheck \/ (~online /\ cur # "disconnected"))
    /\ IF online /\ doCheck /\ cur = "disconnected"
       THEN pc' = "send" /\ left' = Cardinality(Used) /\ after' = "look"
       ELSE pc' = "look" /\ UNCHANGED <<left, after>>
    /\ UNCHANGED <<publish, fileVars, session, cur, prev, first, carHere, ocmf, remaining, logLock, env, history>>

\* sessionHandler_CheckAndSendOfflineSessions: a file that cannot be read is an
\* empty message.
SessionMessage(f) == <<"session", IF files[f].valid THEN files[f].no ELSE 0>>

Send ==
    /\ pc = "send"
    /\ IF left = 0
       THEN /\ pc' = after
            /\ doCheck' = (doCheck /\ after # "look")
            /\ UNCHANGED call
       ELSE /\ Call("session", SessionMessage(OldestFile))
            /\ pc' = "sent"
            /\ UNCHANGED doCheck
    /\ UNCHANGED <<mutex, blocked, bits, outbox, handling, online, got, fileVars, session, cur, prev,
                   first, on, carHere, left, after, ocmf, remaining, logLock, env, history>>

\* Mutant of Sent: the file goes whatever came of sending it.
SentAnyhow ==
    /\ pc = "sent" /\ (Returned("session", "ok") \/ Returned("session", "failed"))
    /\ Done("session")
    /\ DeleteFile(OldestFile)
    /\ left' = left - 1 /\ pc' = "send"
    /\ UNCHANGED <<mutex, blocked, bits, outbox, handling, online, got, activeFile, lastUsed, open, log, session,
                   cur, prev, first, doCheck, on, carHere, after, ocmf, remaining, logLock, env, history>>

Sent ==
    /\ pc = "sent"
    /\ \/ /\ Returned("session", "ok")
          /\ DeleteFile(OldestFile)
          /\ left' = left - 1 /\ pc' = "send"
          /\ UNCHANGED doCheck
       \/ /\ Returned("session", "failed")
          /\ pc' = after
          /\ doCheck' = (doCheck /\ after # "look")
          /\ UNCHANGED <<files, left>>
    /\ Done("session")
    /\ UNCHANGED <<mutex, blocked, bits, outbox, handling, online, got, activeFile, lastUsed, open, log, session,
                   cur, prev, first, on, carHere, after, ocmf, remaining, logLock, env, history>>

\* After a boot with a car, the session on file goes on.
Resume ==
    IF first /\ mode # "disconnected" /\ session = NoSession /\ Incomplete >= 0
    THEN /\ session' = [NoSession EXCEPT !.no = files[Incomplete].no]
         /\ activeFile' = Incomplete
         /\ open' = TRUE
    ELSE UNCHANGED <<activeFile, open, session>>

\* The loop looks at the car.
Look ==
    /\ pc = "look"
    /\ cur' = mode
    /\ Resume
    /\ first' = FALSE
    /\ carHere' = (mode # "disconnected")
    /\ pc' = IF mode \in Connected /\ prev \notin Connected THEN "start" ELSE "end"
    /\ UNCHANGED <<publish, files, lastUsed, log, prev, doCheck, on, left, after, ocmf, remaining, logLock, env, history>>

\* chargeSession_Start: a session that already has an id goes on.
Start ==
    /\ pc = "start"
    /\ IF session # NoSession
       THEN /\ session' = [session EXCEPT !.local = FALSE]
            /\ pc' = "end"
            /\ UNCHANGED <<fileVars, starts, unfiled>>
       ELSE /\ starts' = starts + 1
            /\ session' = [NoSession EXCEPT !.no = starts', !.local = TRUE]
            /\ SaveSession(starts')
            /\ unfiled' = IF NewFile < 0 THEN unfiled \cup {starts'} ELSE unfiled
            /\ pc' = "begin"
    /\ UNCHANGED <<publish, cur, prev, first, doCheck, on, carHere, left, after, ocmf, remaining, logLock, mode, readings, troubles,
                   ended, kept, pushedOut>>

\* The first value of the session.
Begin ==
    /\ pc = "begin"
    /\ AppendEnergy("B")
    /\ pc' = "end"
    /\ UNCHANGED <<publish, activeFile, lastUsed, log, session, cur, prev, first, doCheck, on, carHere, left, after,
                   ocmf, remaining, logLock, env, history>>

\* The end of the loop: the energy is read, and a car that left ends the session
\* with its last value.
End ==
    /\ pc = "end"
    /\ remaining' = (remaining \/ (prev = "charging" /\ cur # "charging"))
    /\ IF cur = "disconnected" /\ prev \in Connected
       THEN IF session # NoSession
            THEN /\ AppendEnergy("E")
                 /\ session' = [session EXCEPT !.ended = TRUE]
                 /\ pc' = "seal"
                 /\ UNCHANGED prev
            ELSE pc' = "top" /\ prev' = cur /\ UNCHANGED <<session, files, open>>
       ELSE /\ session' = IF cur = "charging" THEN [session EXCEPT !.used = TRUE] ELSE session
            /\ pc' = "top" /\ prev' = cur
            /\ UNCHANGED <<files, open>>
    /\ UNCHANGED <<publish, activeFile, lastUsed, log, cur, first, doCheck, on, carHere, left, after,
                   ocmf, logLock, env, history>>

\* chargeSession_Finalize: the end goes to the file.
Seal ==
    /\ pc = "seal"
    /\ UpdateSession(session.no, session.ended)
    /\ pc' = "sealed"
    /\ UNCHANGED <<publish, session, cur, prev, first, doCheck, on, carHere, left, after, ocmf, remaining, logLock, env, history>>

\* The file is let go, or deleted if the session is local and has no energy.
Dropped == session.local /\ ~session.used

LetGo ==
    /\ pc = "sealed"
    /\ activeFile' = -1
    /\ IF Dropped /\ activeFile >= 0
       THEN DeleteFile(activeFile) /\ lastUsed' = -1
       ELSE lastUsed' = activeFile /\ UNCHANGED files
    /\ ended' = IF Dropped THEN ended ELSE ended \cup {session.no}
    /\ IF on THEN pc' = "send" /\ left' = Cardinality({f \in Slots : files'[f] # NoFile}) /\ after' = "clear"
             ELSE pc' = "clear" /\ UNCHANGED <<left, after>>
    /\ UNCHANGED <<publish, open, log, session, cur, prev, first, doCheck, on, carHere, ocmf, remaining, logLock,
                   env, unfiled, kept, pushedOut>>

\* chargeSession_Clear.
Clear ==
    /\ pc = "clear"
    /\ session' = NoSession
    /\ prev' = cur
    /\ pc' = "top"
    /\ UNCHANGED <<publish, fileVars, cur, first, doCheck, on, carHere, left, after, ocmf, remaining, logLock, env, history>>

SessionTask == Top \/ Send \/ Sent \/ Look \/ Start \/ Begin \/ End \/ Seal \/ LetGo \/ Clear

-----------------------------------------------------------------------------
(* The task of the signed readings: on_send_signed_meter_value.            *)

Rest == <<mutex, blocked, bits, outbox, handling, online, got>>
Others == <<ram, logLock, mode, starts, troubles, ended, unfiled>>

\* The hour is over.  Energy that flows, or is left over, gives a reading; the
\* log is sent in any case.
Measures == mode = "charging" \/ remaining

Hour ==
    /\ ocmf.at = "idle"
    /\ IF Measures THEN Work /\ readings' = readings + 1 ELSE UNCHANGED readings
    /\ remaining' = (mode = "charging")
    /\ ocmf' = [Idle EXCEPT !.at = IF online THEN "open" ELSE "append",
                            !.reading = IF Measures THEN readings' ELSE 0,
                            !.car = mode # "disconnected"]
    /\ UNCHANGED <<publish, fileVars, Others, kept, pushedOut>>

\* Without a reading that is all.
Skip ==
    /\ ocmf.at \in {"own", "append"} /\ ocmf.reading = 0
    /\ ocmf' = Idle
    /\ UNCHANGED <<publish, fileVars, Others, readings, remaining, kept, pushedOut>>

\* offline_log_attempt_send reads the header.  Without the lock the log counts
\* as empty.
OpenLog ==
    /\ ocmf.at = "open"
    /\ ocmf' = IF logLock THEN [ocmf EXCEPT !.at = "line", !.start = log.start, !.end = log.end]
               ELSE [ocmf EXCEPT !.at = "own"]
    /\ UNCHANGED <<publish, fileVars, Others, readings, remaining, kept, pushedOut>>

\* Each line is sent; after the last one the header is set to the beginning.
Line ==
    /\ ocmf.at = "line"
    /\ IF ocmf.start = ocmf.end
       THEN /\ IF ocmf.start # 0 THEN SetHeader(0, 0) ELSE UNCHANGED log
            /\ ocmf' = [ocmf EXCEPT !.at = "own"]
            /\ UNCHANGED call
       ELSE /\ Call("ocmf", <<"reading", log.lines[ocmf.start]>>)
            /\ ocmf' = [ocmf EXCEPT !.at = "lineSent"]
            /\ UNCHANGED log
    /\ UNCHANGED <<Rest, files, activeFile, lastUsed, open, Others, readings, remaining, kept, pushedOut>>

\* Mutant of LineSent: the header moves on although the line was not sent.
LineSentAnyhow ==
    /\ ocmf.at = "lineSent" /\ (Returned("ocmf", "ok") \/ Returned("ocmf", "failed"))
    /\ SetHeader(Following(ocmf.start), ocmf.end)
    /\ ocmf' = [ocmf EXCEPT !.at = "line", !.start = Following(@)]
    /\ Done("ocmf")
    /\ UNCHANGED <<Rest, files, activeFile, lastUsed, open, Others, readings, remaining, kept, pushedOut>>

LineSent ==
    /\ ocmf.at = "lineSent"
    /\ \/ /\ Returned("ocmf", "ok")
          /\ SetHeader(Following(ocmf.start), ocmf.end)
          /\ ocmf' = [ocmf EXCEPT !.at = "line", !.start = Following(@)]
       \/ /\ Returned("ocmf", "failed")
          /\ ocmf' = [ocmf EXCEPT !.at = "append"]
          /\ UNCHANGED log
    /\ Done("ocmf")
    /\ UNCHANGED <<Rest, files, activeFile, lastUsed, open, Others, readings, remaining, kept, pushedOut>>

\* With the log empty the reading itself is sent.
Own ==
    /\ ocmf.at = "own" /\ ocmf.reading # 0
    /\ Call("ocmf", <<"reading", ocmf.reading>>)
    /\ ocmf' = [ocmf EXCEPT !.at = "ownSent"]
    /\ UNCHANGED <<Rest, fileVars, Others, readings, remaining, kept, pushedOut>>

OwnSent ==
    /\ ocmf.at = "ownSent"
    /\ \/ /\ Returned("ocmf", "ok")
          /\ ocmf' = [ocmf EXCEPT !.at = "value"]
          /\ kept' = kept \cup {ocmf.reading}
       \/ /\ Returned("ocmf", "failed")
          /\ ocmf' = [ocmf EXCEPT !.at = "append"]
          /\ UNCHANGED kept
    /\ Done("ocmf")
    /\ UNCHANGED <<Rest, fileVars, Others, readings, remaining, pushedOut>>

\* The reading is logged, unless the lock cannot be had: its line is written, and
\* then the header.
LogLine ==
    /\ ocmf.at = "append" /\ ocmf.reading # 0
    /\ IF logLock
       THEN /\ WriteLine(ocmf.reading)
            /\ ocmf' = [ocmf EXCEPT !.at = "header"]
            /\ UNCHANGED kept
       ELSE /\ ocmf' = [ocmf EXCEPT !.at = "value"]
            /\ kept' = kept \cup {ocmf.reading}
            /\ UNCHANGED log
    /\ UNCHANGED <<publish, files, activeFile, lastUsed, open, Others, readings, remaining, pushedOut>>

LogHeader ==
    /\ ocmf.at = "header"
    /\ MoveEnd
    /\ pushedOut' = IF Following(log.end) = log.start THEN pushedOut \cup {log.lines[log.start]} ELSE pushedOut
    /\ kept' = kept \cup {ocmf.reading}
    /\ ocmf' = [ocmf EXCEPT !.at = "value"]
    /\ UNCHANGED <<publish, files, activeFile, lastUsed, open, Others, readings, remaining>>

\* The session file gets the value and the session as it is now.
Value ==
    /\ ocmf.at = "value"
    /\ IF ocmf.car THEN AppendEnergy("T") ELSE UNCHANGED <<files, open>>
    /\ ocmf' = IF ocmf.car THEN [ocmf EXCEPT !.at = "save", !.seen = session] ELSE Idle
    /\ UNCHANGED <<publish, activeFile, lastUsed, log, Others, readings, remaining, kept, pushedOut>>

Save ==
    /\ ocmf.at = "save"
    /\ \/ /\ UpdateSession(session.no, session.ended)
          /\ UNCHANGED <<troubles, unfiled>>
       \/ /\ <<session.no, session.ended>> # <<ocmf.seen.no, ocmf.seen.ended>> /\ Trouble("stale")
          /\ UpdateSession(ocmf.seen.no, ocmf.seen.ended)
          /\ unfiled' = IF pc = "sealed" THEN unfiled \cup {session.no} ELSE unfiled
    /\ ocmf' = Idle
    /\ UNCHANGED <<publish, ram, logLock, mode, starts, readings, remaining, ended, kept, pushedOut>>

OcmfTask == Hour \/ Skip \/ OpenLog \/ Line \/ LineSent \/ Own \/ OwnSent \/ LogLine \/ LogHeader \/ Value \/ Save

-----------------------------------------------------------------------------
(* Commands from the cloud.                                                *)

\* chargeSession_SetSessionIdFromCloud.  With an id set before the session
\* starts, the session counts as one that goes on.
SetSessionId ==
    /\ carHere
    /\ \/ session.local /\ UNCHANGED <<troubles, starts, unfiled>>
       \/ /\ session = NoSession /\ pc = "start" /\ Work /\ Trouble("lateid")
          /\ starts' = starts + 1 /\ unfiled' = unfiled \cup {starts'}
    /\ session' = [session EXCEPT !.no = IF @ = 0 THEN starts' ELSE @, !.local = FALSE]
    /\ UpdateSession(session'.no, session'.ended)
    /\ UNCHANGED <<publish, cur, prev, first, doCheck, on, carHere, pc, left, after, ocmf, remaining, logLock,
                   mode, readings, ended, kept, pushedOut>>

\* offline_log_delete, which keeps the lock.
DeleteLog ==
    /\ Trouble("delete") /\ logLock /\ ocmf.at \notin {"line", "lineSent", "header"}
    /\ logLock' = FALSE
    /\ SetHeader(0, 0)
    /\ UNCHANGED <<publish, files, activeFile, lastUsed, open, ram, ocmf, remaining, mode, starts, readings, history>>

-----------------------------------------------------------------------------
(* The car, the network and the power.                                     *)

CarChange ==
    /\ pc = "look"
    /\ \E m \in CASE mode = "disconnected" -> {"requesting"}
                  [] mode = "requesting" -> {"charging", "disconnected"}
                  [] mode = "charging" -> {"disconnected"} :
          /\ mode' = m
          /\ m = "requesting" /\ mode = "disconnected" => Work
    /\ UNCHANGED <<publish, fileVars, ram, ocmf, remaining, logLock, starts, readings, troubles, history>>

Network ==
    /\ \/ /\ \/ \E t \in Publishers : Publish(t) \/ WakeUp(t)
             \/ Acknowledge \/ SetPublished \/ Expire \/ GoOnline
          /\ UNCHANGED troubles
       \/ /\ \E t \in Publishers : TimeOut(t)
          /\ IF handling # 0 THEN Trouble("lateack") ELSE UNCHANGED troubles
    /\ UNCHANGED <<fileVars, ram, ocmf, remaining, logLock, mode, starts, readings, history>>

Drop ==
    /\ Trouble("drop") /\ GoOffline
    /\ UNCHANGED <<fileVars, ram, ocmf, remaining, logLock, mode, starts, readings, history>>

\* The session file whose block is being written over.
Written == {f \in Used : f = activeFile /\ (pc = "seal" \/ ocmf.at = "save")}

Restart ==
    /\ \/ Trouble("restart") /\ pc \notin {"begin", "seal"} /\ UNCHANGED files
       \/ Trouble("torn") /\ pc \in {"begin", "seal"} /\ UNCHANGED files
       \/ Trouble("torn") /\ \E f \in Written : files' = [files EXCEPT ![f].valid = FALSE]
    /\ PublishRestart /\ FilesForget
    /\ session' = NoSession
    /\ cur' = "uninitialized" /\ prev' = "uninitialized"
    /\ first' = TRUE /\ doCheck' = TRUE /\ on' = FALSE /\ carHere' = FALSE
    /\ pc' = "top" /\ left' = 0 /\ after' = "look"
    /\ ocmf' = Idle /\ remaining' = FALSE /\ logLock' = TRUE
    /\ UNCHANGED <<log, mode, starts, readings, history>>

Next == SessionTask \/ OcmfTask \/ SetSessionId \/ DeleteLog \/ CarChange \/ Network \/ Drop \/ Restart

\* The tasks run when they can, and a lost connection comes back.
Fairness == WF_vars(SessionTask) /\ WF_vars(OcmfTask) /\ WF_vars(Network)

Spec == Init /\ [][Next]_vars /\ Fairness

-----------------------------------------------------------------------------
Untroubled(by) == troubles \cap by = {}

\* What publish_iothub_event_blocked reports as published has reached the
\* cloud, unless an acknowledgement met the end of the wait.
Reported == Untroubled({"lateack"}) => ReportedIsThere

\* A session that ended is on file until the cloud has it, unless it had no file
\* or there was a false report: whatever the power, the cloud and the other task do
\* (chargeSession_Finalize, sessionHandler_CheckAndSendOfflineSessions).
SessionsKept ==
    Untroubled({"lateack"}) =>
        \A n \in ended \ unfiled :
            \/ <<"session", n>> \in got
            \/ \E f \in Used : files[f].no = n /\ files[f].valid /\ (files[f].ended \/ f = activeFile)

\* A reading that was taken is in the log until the cloud has it, unless it gave
\* way in a full log, the log was deleted or there was a false report.
ReadingsKept ==
    Untroubled({"lateack", "delete"}) =>
        \A r \in kept \ pushedOut : <<"reading", r>> \in got \/ r \in Logged

\* A session on file that has ended holds its first value, the hourly ones and its
\* last one, with room kept for the last, and nothing after it.
RightlyClosed ==
    Untroubled({"torn", "stale", "lateid"}) =>
        \A f \in Used : files[f].ended =>
            LET v == files[f].values IN
            /\ Len(v) >= 2 /\ v[1] = "B" /\ v[Len(v)] = "E"
            /\ \A i \in 2 .. Len(v) - 1 : v[i] = "T"

\* Readings, and sessions, reach the cloud for the first time in the order they
\* were made, sessions unless a file was given the number of an earlier one.
InOrder == [][\A new \in got' \ got, old \in got :
                 new[1] = old[1] /\ new[2] # 0 /\ (new[1] = "session" => Untroubled({"stale"}))
                 => old[2] < new[2]]_got

\* A charger that restarts with the car connected goes on with the session that
\* was cut (sessionHandler.c:3020): never with one that has ended, and always if
\* the first file is still there and its own file can be read.  A file that an
\* earlier restart, or another task, left open is taken for the last one.
Resumes ==
    [][first /\ ~first' /\ mode # "disconnected"
       /\ Untroubled({"stale"}) /\ (Untroubled({"restart"}) \/ Untroubled({"torn"})) =>
           /\ session'.no # 0 => session'.no = starts /\ starts \notin ended
           /\ \A f \in Used : 0 \in Used /\ files[f].no = starts /\ files[f].valid /\ ~files[f].ended
                  => session'.no = starts /\ activeFile' = f]_vars

\* A session that has ended reaches the cloud once the charger is online without
\* a car (sessionHandler.c:2869).
Delivered == \A n \in 1 .. MaxWork :
    n \in ended \ unfiled /\ troubles \subseteq {"drop"} ~> <<"session", n>> \in got
=============================================================================
