---------------------------- MODULE OfflineFiles ----------------------------
(***************************************************************************)
(* What a charger keeps for the cloud while it cannot reach it: one file   *)
(* per charge session (offlineSession.c) and a ring of signed readings in  *)
(* one file (offline_log.c).  A session is a number in the order of their  *)
(* starts; the text of a session and the energy of a reading are left out. *)
(***************************************************************************)
EXTENDS Naturals, Integers, Sequences, FiniteSets, FiniteSetsExt

CONSTANTS
    MaxFiles,       \* max_offline_session_files
    MaxValues,      \* max_offline_signed_values
    MaxItems        \* OFFLINE_LOG_MAX_ITEMS

ASSUME OfflineFilesAssumption ==
    /\ MaxFiles \in Nat \ {0}
    /\ MaxValues \in Nat \ {0, 1}
    /\ MaxItems \in Nat \ {0, 1}

VARIABLES
    files,      \* the session files by number
    activeFile, \* activeFileNumber
    lastUsed,   \* lastUsedFileNumber
    open,       \* offlineSessionOpen
    log         \* the log: its header, and the readings in its slots

flash == <<files, log>>
fileVars == <<files, activeFile, lastUsed, open, log>>

Slots == 0 .. MaxFiles - 1
NoFile == [no |-> 0, ended |-> FALSE, valid |-> FALSE, values |-> <<>>]
Used == {f \in Slots : files[f] # NoFile}

FilesInit ==
    /\ files = [f \in Slots |-> NoFile]
    /\ activeFile = -1 /\ lastUsed = -1 /\ open = FALSE
    /\ log = [start |-> 0, end |-> 0, lines |-> [i \in 0 .. MaxItems - 1 |-> 0]]

FilesForget == activeFile' = -1 /\ lastUsed' = -1 /\ open' = FALSE

-----------------------------------------------------------------------------
(* offlineSession.c                                                        *)

\* Mutant of NewFile: the first unused file from below.
NewFileFromBelow == IF Used = Slots THEN -1 ELSE Min(Slots \ Used)

\* One above the highest that is used.
NewFile == IF Used = {} THEN 0
           ELSE IF Max(Used) = MaxFiles - 1 THEN -1
           ELSE Max(Used) + 1

OldestFile == IF Used = {} THEN -1 ELSE Min(Used)

\* offlineSession_SaveSession.
SaveSession(no) ==
    /\ activeFile' = NewFile
    /\ files' = IF NewFile < 0 THEN files
                ELSE [files EXCEPT ![NewFile] = [no |-> no, ended |-> FALSE, valid |-> TRUE, values |-> <<>>]]
    /\ UNCHANGED <<lastUsed, open, log>>

\* offlineSession_UpdateSessionOnFile for a file that exists.
UpdateSession(no, ended) ==
    /\ files' = IF activeFile < 0 \/ activeFile \notin Used THEN files
                ELSE [files EXCEPT ![activeFile].no = no, ![activeFile].ended = ended,
                                   ![activeFile].valid = TRUE]
    /\ UNCHANGED <<activeFile, lastUsed, open, log>>

\* Mutant of Accepted: a value is taken although the session is closed.
AcceptedAlways(label) == label = "B" \/ Len(files[activeFile].values) > 0

\* The last place is for the value that ends the session.
Accepted(label) ==
    LET n == Len(files[activeFile].values) IN
    \/ label = "B"
    \/ label = "T" /\ open /\ n > 0 /\ n < MaxValues - 1
    \/ label = "E" /\ open /\ n > 0 /\ n < MaxValues

\* offlineSession_append_energy.
AppendEnergy(label) ==
    IF activeFile < 0 \/ activeFile \notin Used
    THEN UNCHANGED <<files, open>>
    ELSE /\ open' = IF label = "B" THEN TRUE ELSE IF label = "E" THEN FALSE ELSE open
         /\ files' = IF ~Accepted(label) THEN files
                     ELSE [files EXCEPT ![activeFile].values =
                               IF label = "B" THEN <<"B">> ELSE Append(@, label)]

SetInactive == lastUsed' = activeFile /\ activeFile' = -1

DeleteFile(f) == files' = IF f \in Slots THEN [files EXCEPT ![f] = NoFile] ELSE files

\* Mutant of Incomplete: the end of the session is not looked at.
IncompleteOrNot == IF 0 \in Used /\ files[Max(Used)].valid THEN Max(Used) ELSE -1

\* offlineSession_CheckIfLastLessionIncomplete: only the last file is looked
\* at, and only if the first one is there.
Incomplete == IF 0 \in Used /\ files[Max(Used)].valid /\ ~files[Max(Used)].ended
              THEN Max(Used) ELSE -1

-----------------------------------------------------------------------------
(* offline_log.c                                                           *)

Following(i) == (i + 1) % MaxItems

\* The readings between start and end.
Logged == {log.lines[i] : i \in {j \in 0 .. MaxItems - 1 :
              (j + MaxItems - log.start) % MaxItems < (log.end + MaxItems - log.start) % MaxItems}}

\* offline_log_append_energy: the line first, then the header, and the oldest
\* reading gives way.
WriteLine(r) == log' = [log EXCEPT !.lines[log.end] = r]

MoveEnd ==
    log' = [log EXCEPT !.end = Following(log.end),
                       !.start = IF Following(log.end) = @ THEN Following(@) ELSE @]

SetHeader(first, last) == log' = [log EXCEPT !.start = first, !.end = last]
=============================================================================
