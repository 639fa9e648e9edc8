--------------------------- MODULE FirmwareUpdate ---------------------------
(***************************************************************************)
(* An update of the charger: the OTA task that fetches an image            *)
(* (apollo_ota.c), in blocks (safe_ota.c, segmented_ota.c) or with the     *)
(* library, the partitions and the bootloader that falls back from an      *)
(* image that was not confirmed, and the start of an image, which first    *)
(* brings the program of the MCU to the version it carries                 *)
(* (validate_booted_image, dspic_update.c).                                *)
(***************************************************************************)
EXTENDS Naturals, FiniteSets

CONSTANTS
    Versions,     \* the images there are; 1 is the one in the factory partition
    OcppVersion,  \* OCPP_IMAGE_VERSION, what an OCPP update counts as
    Size,         \* the size of each image
    Chunk,        \* chunk_size
    Lines,        \* the lines of the MCU's program
    MaxTries,     \* how often update_dspic tries
    Bad,          \* images whose MCU program does not start
    Refused,      \* versions the downgrade checks turn away
    Kinds,        \* the kinds of update that are ordered
    MaxCommands,  \* bound: commands
    MaxTroubles   \* bound: restarts, lost messages, failed requests and writes

ASSUME FirmwareUpdateAssumption ==
    /\ Versions \subseteq Nat \ {0} /\ OcppVersion \notin Versions
    /\ 1 \in Versions \ Bad
    /\ Size \in [Versions -> Nat \ {0}]
    /\ {Chunk, Lines, MaxTries} \subseteq Nat \ {0}
    /\ Bad \subseteq Versions /\ Refused \subseteq Versions \cup {OcppVersion}
    /\ Kinds \subseteq {"sdk", "segmented", "safe", "ocpp", "ifnew"}

None == 0
Part == 0 .. 2      \* factory, ota_0 and ota_1

\* esp_ota_get_next_update_partition
NextPart(s) == IF s = 1 THEN 2 ELSE 1

VARIABLES
    partition,  \* the partitions: the image in each if it is whole, and its state in otadata
    boot,       \* the partition otadata selects
    dspic,      \* the MCU: its mode, its header, the version and lines of its program
    phase,      \* "off", "sync" in update_dspic, "run"
    cur,        \* the running partition
    try,        \* the attempt of update_dspic and the step it is at
    bits,       \* event_group of the OTA task
    onlyNew,    \* updateOnlyIfNewVersion
    location,   \* image_location: the image it names
    version,    \* image_version of the OTA task
    abort,      \* the downloads whose doAbortOTA is set
    timer,      \* timeout_timer is active
    total,      \* total_size of safe_ota and segmented_ota
    job,        \* where the OTA task is, and the locals of its download
    commands, troubles

flash == <<partition, boot, dspic>>
ota == <<bits, onlyNew, location, version, abort, timer, total, job>>
bounds == <<commands, troubles>>
updateVars == <<flash, phase, cur, try, ota, bounds>>

NoJob == [at |-> "idle", selected |-> {}, img |-> None, start |-> 0, end |-> 0, nr |-> 0,
          recv |-> 0, pos |-> 0, ok |-> TRUE, error |-> FALSE]

UpdateInit ==
    /\ partition = [s \in Part |-> CASE s = 0 -> [img |-> 1, state |-> "valid"]
                                     [] s = 1 -> [img |-> 1, state |-> "valid"]
                                     [] OTHER -> [img |-> None, state |-> "none"]]
    /\ boot \in {0, 1} /\ cur = boot
    /\ dspic = [mode |-> "app", hdr |-> 1, v |-> 1, n |-> Lines]
    /\ phase = "off" /\ try = [n |-> 0, step |-> "header"]
    /\ bits = {} /\ onlyNew = FALSE /\ location = None /\ version = None
    /\ abort = {} /\ timer = FALSE /\ total = [safe |-> 0, segmented |-> 0] /\ job = NoJob
    /\ commands = 0 /\ troubles = 0

Trouble == troubles < MaxTroubles /\ troubles' = troubles + 1

\* esp_restart, a crash or a power loss: what is not on flash is lost.
Off ==
    /\ phase' = "off" /\ try' = [n |-> 0, step |-> "header"]
    /\ bits' = {} /\ onlyNew' = FALSE /\ location' = None /\ version' = None
    /\ abort' = {} /\ timer' = FALSE /\ total' = [safe |-> 0, segmented |-> 0] /\ job' = NoJob

-----------------------------------------------------------------------------
(* Starting: the bootloader, update_dspic and validate_booted_image.       *)

Bootable(s) == partition[s].img # None /\ partition[s].state \in {"valid", "new", "pending"}

\* Mutant: an image is valid as soon as it starts.
BootValid ==
    /\ phase = "off"
    /\ cur' = boot
    /\ partition' = [partition EXCEPT ![boot].state = "valid"]
    /\ phase' = "sync" /\ try' = [n |-> 1, step |-> "header"]
    /\ UNCHANGED <<boot, dspic, ota, bounds>>

\* An image that is still to be confirmed gets one start.
Boot ==
    /\ phase = "off"
    /\ LET chosen == IF Bootable(boot) /\ partition[boot].state # "pending" THEN boot
                     ELSE IF boot # 0 /\ Bootable(NextPart(boot)) THEN NextPart(boot)
                     ELSE 0
       IN  /\ cur' = chosen /\ boot' = chosen
           /\ partition' = [s \in Part |->
                [partition[s] EXCEPT !.state = CASE @ = "pending" -> "aborted"
                                                 [] @ = "new" /\ s = chosen -> "pending"
                                                 [] OTHER -> @]]
    /\ phase' = "sync" /\ try' = [n |-> 1, step |-> "header"]
    /\ UNCHANGED <<dspic, ota, bounds>>

Target == partition[cur].img
WholeMcu == dspic.n = Lines /\ dspic.hdr = dspic.v /\ dspic.v \notin Bad

\* What the MCU does with the request of a step, and whether it refuses it.
Effect ==
    CASE try.step = "enter" -> [dspic EXCEPT !.mode = "boot"]
      [] try.step = "delete" /\ dspic.mode = "boot" -> [dspic EXCEPT !.hdr = None, !.v = None, !.n = 0]
      [] try.step = "line" /\ dspic.mode = "boot" -> [dspic EXCEPT !.v = Target, !.n = @ + 1]
      [] try.step = "sethdr" /\ dspic.mode = "boot" -> [dspic EXCEPT !.hdr = Target]
      [] try.step \in {"start", "restart"} /\ dspic.mode = "boot" /\ WholeMcu -> [dspic EXCEPT !.mode = "app"]
      [] OTHER -> dspic

Refuses ==
    \/ try.step \in {"delete", "line", "sethdr", "start", "restart"} /\ dspic.mode = "app"
    \/ try.step \in {"start", "restart"} /\ ~WholeMcu

\* Mutant: a header that matches is enough, without asking whether the
\* program runs.
AfterHeader ==
    CASE try.step = "header" -> IF dspic.hdr = Target THEN "success" ELSE "isboot"
      [] try.step = "isboot" -> IF dspic.mode = "boot" THEN "delete" ELSE "enter"
      [] try.step = "enter" -> "entered"
      [] try.step = "entered" -> "delete"
      [] try.step = "delete" -> "line"
      [] try.step = "line" -> IF dspic.n + 1 = Lines THEN "sethdr" ELSE "line"
      [] try.step = "sethdr" -> "confirm"
      [] try.step = "confirm" -> IF dspic.hdr = Target THEN "start" ELSE "failure"
      [] try.step = "start" -> "success"

\* update_dspic_task: the step after one that was answered. "reread" and
\* "restart" belong to the branch of a header that matches already.
After ==
    CASE try.step = "header" -> IF dspic.hdr = Target THEN "reread" ELSE "isboot"
      [] try.step = "reread" -> IF dspic.mode = "boot" THEN "restart" ELSE "success"
      [] try.step = "restart" -> "success"
      [] try.step = "isboot" -> IF dspic.mode = "boot" THEN "delete" ELSE "enter"
      [] try.step = "enter" -> "entered"
      [] try.step = "entered" -> "delete"
      [] try.step = "delete" -> "line"
      [] try.step = "line" -> IF dspic.n + 1 = Lines THEN "sethdr" ELSE "line"
      [] try.step = "sethdr" -> "confirm"
      [] try.step = "confirm" -> IF dspic.hdr = Target THEN "start" ELSE "failure"
      [] try.step = "start" -> "success"

\* A start that fails is followed by flashing; any other failure ends the attempt.
AfterFailure == IF try.step = "restart" THEN "isboot" ELSE "failure"

\* The image is marked valid once the MCU runs its program. Marking may fail,
\* which is only logged.
Confirm(marked) == partition' = [partition EXCEPT ![cur].state = IF @ = "pending" /\ marked THEN "valid" ELSE @]

\* update_dspic and validate_booted_image after it.
Proceed(step, marked) ==
    CASE step = "success" -> /\ phase' = "run" /\ Confirm(marked)
                             /\ UNCHANGED <<boot, cur, try, ota>>
      [] step = "failure" /\ try.n < MaxTries ->
                             /\ try' = [n |-> try.n + 1, step |-> "header"]
                             /\ UNCHANGED <<partition, boot, phase, cur, ota>>
      [] step = "failure" /\ try.n = MaxTries -> Off /\ UNCHANGED <<partition, boot, cur>>
      [] OTHER -> try' = [try EXCEPT !.step = step] /\ UNCHANGED <<partition, boot, phase, cur, ota>>

\* One request of update_dspic_task: answered, or lost on the way there
\* or back.
Sync ==
    /\ phase = "sync"
    /\ \/ dspic' = Effect /\ ~Refuses /\ Proceed(After, TRUE) /\ UNCHANGED troubles
       \/ dspic' = Effect /\ ~Refuses /\ After = "success" /\ Proceed(After, FALSE) /\ Trouble
       \/ dspic' = dspic /\ Refuses /\ Proceed(AfterFailure, TRUE) /\ UNCHANGED troubles
       \/ dspic' \in {dspic, Effect} /\ Proceed(AfterFailure, TRUE) /\ Trouble
    /\ UNCHANGED commands

\* The MCU's bootloader starts a whole program when nobody talks to it.
McuStarts ==
    /\ dspic.mode = "boot" /\ WholeMcu
    /\ phase = "off" \/ (phase = "sync" /\ try.step = "header")
    /\ dspic' = [dspic EXCEPT !.mode = "app"]
    /\ UNCHANGED <<partition, boot, phase, cur, try, ota, bounds>>

\* A power loss restarts the MCU too.
Crash ==
    /\ phase # "off" /\ Trouble /\ Off
    /\ dspic' \in {dspic, [dspic EXCEPT !.mode = "boot"]}
    /\ UNCHANGED <<partition, boot, cur, commands>>

-----------------------------------------------------------------------------
(* Commands: the kinds of update, the end of one, and the rollbacks.       *)

CommandTaken == commands < MaxCommands /\ commands' = commands + 1 /\ phase = "run"

\* start_ota, start_segmented_ota, start_safe_ota and
\* start_segmented_ota_if_new_version, which starts the safe one.
Command(kind) ==
    /\ CommandTaken /\ kind \in Kinds \ {"ocpp"}
    /\ bits' = bits \cup {IF kind = "ifnew" THEN "safe" ELSE kind}
    /\ onlyNew' = (onlyNew \/ kind = "ifnew")
    /\ UNCHANGED <<flash, phase, cur, try, location, version, abort, timer, total, job, troubles>>

\* start_ocpp_ota writes the location the OTA task may be reading.
OcppCommand ==
    /\ CommandTaken /\ "ocpp" \in Kinds
    /\ location' \in Versions
    /\ bits' = bits \cup {"ocpp"}
    /\ UNCHANGED <<flash, phase, cur, try, onlyNew, version, abort, timer, total, job, troubles>>

AbortCommand ==
    /\ CommandTaken
    /\ abort' = {"safe", "segmented"}
    /\ UNCHANGED <<flash, phase, cur, try, bits, onlyNew, location, version, timer, total, job, troubles>>

\* ota_rollback: only to an image that was confirmed.
Rollback ==
    /\ CommandTaken
    /\ cur # 0 /\ partition[NextPart(cur)].img # None /\ partition[NextPart(cur)].state = "valid"
    /\ partition' = [partition EXCEPT ![cur].state = "invalid"] /\ boot' = NextPart(cur)
    /\ Off /\ UNCHANGED <<dspic, cur, troubles>>

\* ota_rollback_to_factory, and the restart that follows: otadata is erased.
RollbackToFactory ==
    /\ CommandTaken
    /\ partition' = [s \in Part |-> IF s = 0 THEN partition[0] ELSE [partition[s] EXCEPT !.state = "none"]]
    /\ boot' = 0
    /\ Off /\ UNCHANGED <<dspic, cur, troubles>>

-----------------------------------------------------------------------------
(* The OTA task.                                                           *)

UnchangedButOta == UNCHANGED <<boot, dspic, phase, cur, try, commands>>

\* Mutant: the timer is reset only when it runs.
TakeUntimed ==
    /\ phase = "run" /\ job.at = "idle" /\ bits # {}
    /\ job' = [NoJob EXCEPT !.at = "locate", !.selected = bits]
    /\ UnchangedButOta
    /\ UNCHANGED <<partition, bits, onlyNew, location, version, abort, timer, total, troubles>>

\* The timer is reset unless it runs already.
Take ==
    /\ phase = "run" /\ job.at = "idle" /\ bits # {}
    /\ job' = [NoJob EXCEPT !.at = "locate", !.selected = bits]
    /\ timer' = TRUE
    /\ UnchangedButOta /\ UNCHANGED <<partition, bits, onlyNew, location, version, abort, total, troubles>>

StopOTA == bits' = {} /\ timer' = FALSE /\ job' = NoJob

\* The order in which the selected kinds are looked at.
Kind == IF "sdk" \in job.selected THEN "sdk"
        ELSE IF "segmented" \in job.selected THEN "segmented"
        ELSE IF "safe" \in job.selected THEN "safe" ELSE "ocpp"

\* esp_ota_begin and esp_https_ota_begin, which erase the partition, and
\* ocpp_ota_validate_app_description. An image that is not confirmed may not
\* begin an update; neither may an OCPP update to an old image.
Begin(loc) ==
    IF \/ partition[cur].state = "pending"
       \/ Kind \in {"sdk", "ocpp"} /\ loc = None
       \/ Kind = "ocpp" /\ loc \in Refused
    THEN StopOTA /\ UNCHANGED partition
    ELSE /\ job' = [job EXCEPT !.at = IF Kind \in {"sdk", "ocpp"} THEN "library" ELSE Kind,
                               !.img = IF Kind \in {"sdk", "ocpp"} THEN loc ELSE None,
                               !.end = Chunk - 1]
         /\ partition' = [partition EXCEPT ![NextPart(cur)].img = None]
         /\ UNCHANGED <<bits, timer>>

SameVersion(ver) == onlyNew /\ ver = partition[cur].img

\* The checks of the version, and the start of the download.
Decide(loc, ver) ==
    /\ location' = loc /\ version' = ver
    /\ onlyNew' = (onlyNew /\ ~SameVersion(ver))
    /\ IF SameVersion(ver) \/ ver \in Refused
       THEN StopOTA /\ UNCHANGED partition
       ELSE Begin(loc)

\* An OCPP update brings its location; the others ask the cloud for it, and
\* go on with what they had when the cloud did not answer.
Locate ==
    /\ job.at = "locate"
    /\ IF "ocpp" \in job.selected
       THEN Decide(location, OcppVersion) /\ UNCHANGED troubles
       ELSE \/ \E v \in Versions : Decide(v, v) /\ UNCHANGED troubles
            \/ Decide(location, version) /\ Trouble
    /\ UnchangedButOta /\ UNCHANGED <<abort, total>>

\* The certificate is out of date: the task begins again with a new one, or
\* gives up when there is none.
CertificateExpired ==
    /\ job.at = "locate" /\ "ocpp" \notin job.selected /\ Trouble
    /\ \/ job' = NoJob /\ UNCHANGED <<bits, timer>>
       \/ StopOTA
    /\ UnchangedButOta /\ UNCHANGED <<partition, onlyNew, location, version, abort, total>>

\* A block of the image at the location, and what it does to the download.
Offered == IF job.start >= Size[location] THEN 0
           ELSE (IF job.end < Size[location] THEN job.end + 1 ELSE Size[location]) - job.start

Blocks(n) == (n + Chunk - 1) \div Chunk

Written(j, length) ==
    LET right == j.ok /\ j.pos = j.start /\ j.img \in {None, location}
    IN  [j EXCEPT !.ok = right, !.img = location, !.pos = IF right THEN @ + length ELSE @]

Advanced(j, size) ==
    LET next == j.end + Chunk
    IN  [j EXCEPT !.start = j.end + 1, !.end = IF next > size THEN size ELSE next]

\* The top of the loop of do_safe_ota and do_segmented_ota.
Done(kind) == total[kind] > 0 /\ job.start > total[kind]
Fetches(kind) == job.at = kind /\ ~Done(kind) /\ kind \notin abort /\ location # None

Leave(kind) ==
    /\ job.at = kind /\ (Done(kind) \/ kind \in abort)
    /\ abort' = abort \ {kind}
    /\ IF kind \in abort THEN StopOTA
       ELSE job' = [job EXCEPT !.at = "finish"] /\ UNCHANGED <<bits, timer>>
    /\ UnchangedButOta /\ UNCHANGED <<partition, onlyNew, location, version, total, troubles>>

\* A request for the empty location ends in a crash.
NoLocation ==
    /\ job.at \in {"safe", "segmented"} /\ location = None
    /\ Off /\ UNCHANGED <<flash, cur, bounds>>

\* The number of blocks is taken from the first total that is known.
Counted == IF job.nr = 0 /\ total.safe > 0 THEN [job EXCEPT !.nr = Blocks(total.safe)] ELSE job

\* Whether the length of the next block is not the expected one; the end of
\* the last block is one beyond the image.
InvalidLength(j, length) ==
    LET expected == j.end - j.start + 1
    IN  \/ j.recv + 1 < j.nr /\ length # expected
        \/ j.recv + 1 = j.nr /\ length # expected - 1

\* A block that was received: retried, or written, perhaps without success.
SafeReceived(length, written) ==
    LET j == Counted
        w == [IF written THEN Written(j, length) ELSE [j EXCEPT !.ok = FALSE]
                EXCEPT !.recv = IF @ > j.nr THEN @ ELSE @ + 1]
    IN  /\ total' = [total EXCEPT !.safe = Size[location]]
        /\ job' = IF InvalidLength(j, length) THEN j
                  ELSE IF j.error THEN w ELSE Advanced(w, Size[location])

SafeBlock ==
    /\ Fetches("safe")
    /\ \/ SafeReceived(Offered, TRUE) /\ UNCHANGED troubles
       \/ Offered > 1 /\ SafeReceived(Offered - 1, TRUE) /\ Trouble
       \/ SafeReceived(Offered, FALSE) /\ Trouble
    /\ UnchangedButOta /\ UNCHANGED <<partition, bits, onlyNew, location, version, abort, timer>>

\* A request that failed is retried. flash_error may have been set by the
\* event handler, and nothing resets it.
SafeFailed ==
    /\ Fetches("safe") /\ Trouble
    /\ \E error \in {job.error, TRUE} : job' = [Counted EXCEPT !.error = error]
    /\ UnchangedButOta /\ UNCHANGED <<partition, bits, onlyNew, location, version, abort, timer, total>>

\* The segmented download looks at flash_error only: a request that broke
\* off without an event, "cut", counts as flashed.
SegmentedBlock ==
    /\ Fetches("segmented")
    /\ \E outcome \in {"got", "cut", "unwritten", "failed"} :
        LET j == CASE outcome = "got" -> Written(job, Offered)
                   [] outcome = "cut" -> [job EXCEPT !.ok = FALSE]
                   [] OTHER -> [job EXCEPT !.ok = @ /\ outcome = "failed", !.error = TRUE]
            known == IF outcome = "failed" THEN total.segmented ELSE Size[location]
        IN  /\ IF outcome = "got" THEN UNCHANGED troubles ELSE Trouble
            /\ total' = [total EXCEPT !.segmented = known]
            /\ job' = IF j.error THEN j ELSE Advanced(j, known)
    /\ UnchangedButOta /\ UNCHANGED <<partition, bits, onlyNew, location, version, abort, timer>>

\* esp_ota_set_boot_partition takes an image only if it is whole.
Install(whole, img) ==
    /\ IF whole THEN /\ partition' = [partition EXCEPT ![NextPart(cur)] = [img |-> img, state |-> "new"]]
                     /\ boot' = NextPart(cur)
       ELSE UNCHANGED <<partition, boot>>
    /\ Off /\ UNCHANGED <<dspic, cur, bounds>>

Finish == job.at = "finish" /\ Install(job.ok /\ job.pos = Size[job.img], job.img)

Library == job.at = "library" /\ Install(TRUE, job.img)

LibraryFailed ==
    /\ job.at = "library" /\ Trouble /\ StopOTA
    /\ UnchangedButOta /\ UNCHANGED <<partition, onlyNew, location, version, abort, total>>

\* on_ota_timeout
Timeout == timer /\ Off /\ UNCHANGED <<flash, cur, bounds>>

-----------------------------------------------------------------------------
OtaTask == \/ Take \/ Locate \/ CertificateExpired \/ NoLocation
           \/ SafeBlock \/ SafeFailed \/ SegmentedBlock
           \/ Leave("safe") \/ Leave("segmented")
           \/ Finish \/ Library \/ LibraryFailed

UpdateNext ==
    \/ Boot \/ Sync \/ McuStarts \/ Crash
    \/ \E kind \in Kinds : Command(kind)
    \/ OcppCommand \/ AbortCommand \/ Rollback \/ RollbackToFactory
    \/ OtaTask \/ Timeout

\* The timer is left out: what a download owes to it is said where it is used.
UpdateFairness == WF_updateVars(Boot) /\ WF_updateVars(Sync) /\ WF_updateVars(OtaTask)

UpdateSpec == UpdateInit /\ [][UpdateNext]_updateVars /\ UpdateFairness

-----------------------------------------------------------------------------
(* Properties.                                                             *)

\* validate_booted_image: whenever the charger runs, the MCU runs the program
\* that the running image carries, whole, whatever was lost or cut off while
\* it was written and whichever image the bootloader fell back to.
Matched == phase = "run" => dspic.mode = "app" /\ WholeMcu /\ dspic.v = Target

\* The charger runs again and again: neither an image whose MCU program does
\* not start, nor a restart at any point of an update, leaves it without an
\* image that runs.
RunsAgain == []<>(phase = "run")

\* An update that was begun comes to an end: it is stopped, or the charger
\* restarts, be it only by timeout_timer, which runs for as long.
OtaEnds == WF_updateVars(Timeout) => (job.at # "idle" ~> job.at = "idle")

\* A download in blocks for which flash_error is not set gets through the image
\* without the timer, whatever blocks were short or had to be retried.  Only of an
\* image of whole blocks do_safe_ota asks for the last one again and again, as the
\* length it expects of it is one too short.
InBlocks == job.at \in {"safe", "segmented"}
WholeBlocks == job.at = "safe" /\ location # None /\ Size[location] % Chunk = 0
DownloadEnds == (InBlocks /\ ~job.error) ~> (~InBlocks \/ job.error \/ WholeBlocks)

\* Every update ends, and a download without errors does so by itself.
UpdateEnds == OtaEnds /\ DownloadEnds
=============================================================================
