# TLA+ verification of the Apollo ESP32 application

The application runs a Zaptec EV charger on an ESP32: it talks to a
co-processor that switches the power (the MCU), to a cloud over MQTT or to an
OCPP 1.6 central system over a websocket, keeps sessions and signed meter
values on flash, and updates itself over the air. This directory holds TLA+
models of its parts, the TLC runs that check them on small instances, and
theorems about them proved with TLAPS for every size. Every definition that
models code is listed with the lines it stands for under `map` in
`PROJECT.json`.

## 1. Inventory

Paths are below `src/`. The last column names the modules here.

| Component | State it keeps | Operations and interactions | What is hard, and what makes it correct | Model |
|---|---|---|---|---|
| MID long-term storage, `components/mid/lts/mid_lts.c`, `mid_active.c` | a ring of page files of CRC'd records; `midlts_ctx_t`: next id, write page, whether a session is open, its events | `mid_session_init` scans and replays; `mid_session_add_open/tariff/close/id/auth` append; `try_purge` removes an expired page; `read_session`, `read_record` for signing | power loss between any two file operations, a full ring, purges and wrap-around: ids unique and continued, nothing young removed, the open session rebuilt | `MidLts`, `LegalLog`, `MCMidLts`, `MidLtsProofs` |
| MID session interface, `components/mid/mid.c`, `mid_event.c` | the one LTS context, event log, status word | called from the session handler and the OCMF code, no lock yet (a TODO) | two tasks in one context | in `MidLts` as `Writers` |
| OCMF, `main/OCMF.c`, `mid_ocmf.c`, `mid_sign*.c` | key, positions of stored meter values | formats and signs; the hourly reading that is sent or logged | a position outlives the page it names | the hourly reading in `OfflineDelivery`; the rest not modelled |
| OCPP transaction storage, `components/ocpp/ocpp_transaction.c` | up to `CONFIG_OCPP_MAX_TRANSACTION_FILES` files with header, start, meter values, stop; a RAM queue with a ring of times; a cache of oldest files; the loaded message; `known_message_count` | session task enqueues start, meter values, stop; OCPP task takes the next message and confirms it; start answers set the real id; boot restores an active transaction; a cloud command clears all | several caches of one truth; restarts between calls: nothing lost or repeated, chronological order, counts and ids right | `OcppTransaction`, `OcppStore`, `MCOcppStore`, `OcppTransactionProofs`, `OcppStoreProofs` |
| OCPP call scheduling, `components/ocpp/ocpp_task.c`, `ocpp_listener.c`, loop of `main/ocpp.c` | queue of generic calls, the active, failed and awaiting call, message timer, task notifications | session task and others enqueue; OCPP task sends one call at a time; websocket task matches answers; timers give up and retry | answer against timer, retries, lost answers, drops: one at a time, in order, settled once and in the end | `OcppTask`, `Delivery`, `OcppTaskProofs` |
| OCPP main task, `main/ocpp.c`, `ocpp_task.c` | the flags that end it, registration, the masks, the view of the connection, the locals of its loop | start-up, BootNotification, the loop, soft and hard reset, a new security profile, another controller, teardown and reconnection | requests to end from three tasks without a lock; notifications taken where they are not looked at; masks saved and restored | `OcppLifecycle` |
| OCPP authorisation, `ocpp_auth.c` | local list with version, cache, pending authorisation | Authorize with a timeout, SendLocalList full and differential | an answer that comes after what it is about is gone; power loss during an update | as asked and answered, in `Connector`; the files not modelled |
| OCPP reservation, `ocpp_reservation.c` | one reservation, in RAM and in a file | ReserveNow, CancelReservation, expiry, restart | a reservation against an authorisation under way | in `Connector` |
| OCPP smart charging, `ocpp_smart_charging.c` | charge profiles by purpose and stack level in files, the active period and limit | SetChargingProfile, ClearChargingProfile, GetCompositeSchedule, a task that wakes at period borders | merging stacks over time, recurrence, profile of an ended transaction | `ChargingProfiles`, `CompositeSchedule`, `SmartCharging`, `MCSmartCharging`, `SmartChargingProofs` |
| OCPP messages and JSON, `ocpp_json/`, `messages/`, `types/` | none | build and validate JSON | data only | not modelled |
| Session handler, `main/sessionHandler.c` | the connector's status, token and reset; transaction id; stored authorisation; the session | polls the MCU each second and drives the session, the OCPP connector and the transaction; callbacks of the OCPP task in between | a long loop of conditions over asynchronous inputs, statics without a lock | `Connector`, `ConnectorProofs`, `OcppStore`, `OfflineDelivery` |
| Charge controller and session, `main/chargeController.c`, `chargeSession.c` | schedule, random delay, pause override; the session record | sets start/stop to the MCU; opens, finalises and stores sessions | restart within a session | the session in `OfflineDelivery`, the commands in `Connector`; schedules not modelled |
| Offline sessions, `main/offlineSession.c` | up to 100 session files of signed values and their completion | written while charging, sent and removed when the cloud is back | power loss in a file; the numbering of files; sent but not removed | `OfflineFiles`, `OfflineDelivery` |
| Offline log, `main/offline_log.c`, `offlineHandler.c` | a ring of energy lines in one file with a start/end header | appended when a signed value cannot be sent, replayed when online | power loss between line and header, full ring, publish without advance | `OfflineFiles`, `OfflineDelivery` |
| Cloud connection, `components/zaptec_cloud` | MQTT connection, the publication that waits, token, device twin, command parsing | observations out, settings and commands in | an acknowledgement against the end of the wait for it | `BlockedPublish`; commands where they touch a modelled part |
| Connectivity, `main/connectivity.c`, `wifi/network.c`, `cellular_modem` | chosen and active interface, reconnect and error counters | starts, stops and resets interfaces on a timer | switching while a reconnect is under way; restart counters | not modelled (section 6) |
| MCU protocol, `components/zaptec_protocol` | the write lock, a reply queue of one, parser state, the polled values | `runRequest` sends and waits; `uartRecvTask` parses; the poll; the error count that restarts the charger | a late reply taken for the next one; a release without a take | `McuProtocol`, `MCMcuProtocol`, `McuProofs` |
| Over-the-air updates, `components/apollo_ota` | partition, read position, validation marks | segmented and whole downloads, self-test after boot, rollback | failed segments, endless retries, power loss, rollback | `FirmwareUpdate`, `MCFirmwareUpdate`, `McuProofs` |
| Co-processor updates, `dspic_update.c`, `pic_update.c`, `fpga_update.c` | versions, bootloader state | at boot, compare and flash, retry | power loss half-way | the MCU in `FirmwareUpdate`; the FPGA and the old PIC not modelled |
| Calibration, `components/calibration` | state and sub-state, averages, stored parameters | steps driven by broadcasts, timeouts, upload | numerical steps, in the factory only | not modelled |
| Bluetooth, `components/ble` | advertising, PIN authentication, chunked attributes | GATT reads and writes | order of attribute writes; the authentication gate | not modelled |
| Authentication and RFID, `components/authentication`, `i2c` | tag list, pairing state, last tag | reader task passes tags to the session handler | a tag in the middle of another authorisation | the tag as an event of `Connector` |
| Persistent storage, `main/storage.c`, `fat.c` | NVS parameters, FAT partitions | getters, setters, `storage_SaveConfiguration` | mostly one assignment each | not modelled |
| Certificates, `main/certificate.c` | two bundles, a version | update, verify, fall back | power loss between bundles | not modelled |
| Diagnostics, logging, production test, time, sensors, capabilities, start-up | device state | drivers, scripts, formatting | sequential I/O | not modelled |
| `nanopb`, `rfc3986`, `wpa_supplicant` | none | third-party code | | not modelled |

Tasks meet in FreeRTOS mutexes and queues (the active call, `file_lock`, the
UART lock), in task notifications (the OCPP task), in plain shared variables
(the session handler and its timers) and in files (everything that survives a
restart). `hazards` in `PROJECT.json` names the lines where this can go wrong
and the property that covers each.

## 2. The modules and the code

**MidLts.** `files` and `log` are the page files, `ctx` is `midlts_ctx_t`,
`mode` and `walk` the progress and locals of `mid_session_init_internal`, `pc`
and `job` the locals of each writer's call. A call of `mid_session_add_*` is
cut where a power loss or another writer can come between: `AddEvent` (the
checks of the caller), `OpenPage` (`fopen` with "a", which creates the file),
`WriteRecord` (write, sync, close), `UpdateContext`, and on a full page
`PageFull`, `Purge` and `PurgeRefused`. `OpenFails` and `WriteFails` are the
error returns. `Scan`, `ReplayRecord` and `ReplayPageEnd` are the boot, one
turn of a loop each. `Crash` loses the RAM. A record is its kind, id and time;
a CRC or a short record is not modelled, because `fwrite` of a record smaller
than a block followed by `fsync` is taken as all or nothing. `LegalLog` is the
promise without pages: records with growing ids, removed only when expired.
`MCMidLts` adds three history variables that say what a restart should find.

**OcppTransaction** has one operator per function of the storage, each run under
`file_lock` in the code: `EnqueueStart`, `WriteMeterValue`, `EnqueueStop`,
`QueueSend`, `GetNextMessage`, `GetNextFails`, `ConfirmLast`, `SetRealId`,
`CountMessages`, `ClearAll`, and `Booted` for what the RAM holds after a
restart. A file is its start, its header (active flag, id, `awaiting_message_count`,
`confirmed_offset`), its meter values and its stop. Time is the number of
messages made, so that "chronological" is the order of those numbers.

**OcppStore** is the storage with its two users at the granularity of calls: the
session task (`start_transaction`, `sample_meter_values`, `stop_transaction`)
and an OCPP task that takes one message, gets a result and runs the callback.
The callback is a step of its own (`LearnId`), because it runs after the
message has been confirmed.

**OcppTask** puts the real scheduler in place of that OCPP task. `bits` is the
notification value, `pc`, `held`, `enqueued`, `awaiting`, `connected` are the
locals of `ocpp_task` and `send_next_call`, `active` is the one-place queue
under `ocpp_active_call_lock_1`, `failed` and `blocked` are
`failed_transaction_call` and `awaiting_failed`. `Wake` is a turn of the main
loop; `TimeoutActive`, `Count`, `Acquire`, `Activate`, `Block`, `Send` and
`SendFails` the pieces of it that other tasks can come between. `Answer`
is `handle_active_call_if_match` under its lock, `Answered` the callback and
the notification after it, `Timeout` the message timer, `Ripen` the passing of
the retry interval. The network may lose an answer (`Lose`), drop and come back.
Three orders of events break what is promised of the calls (section "Risks"): the
model takes them and goes on, and the history `met` says which have come about.
`Delivery` is the promise: messages are taken and settled one at a time, oldest
first.

**OcppLifecycle** is the task around that loop, from start-up to its end, with
the calls taken as single steps. `flags` are the statics `should_run`,
`should_reboot`, `should_reconnect`, `graceful_exit` and `reset_from_cs`; `pc`
is where `ocpp_task` is and `data`, `enqueued`, `awaiting`, `left`, `back` are
its locals; `bits` are its notifications; `connected` is its view of the
connection and `link` the websocket; `enq`, `snd` and `prev` are the masks;
`boot`, `generic`, `stored`, `failed` and `active` the calls; `tx` the session
handler's transaction. The steps follow the function: `Network`, `Open`,
`Opened`; the registration (`AwaitWake`, `AwaitSend`, `Registered`,
`RegisterAgain`); `Enter` into the loop, whose turn is `Check`, `Wake`, `Quit`,
`Events`, `Problems` and the sends; `prepare_reset` (`StopTransaction` and the
`Drain` steps); `Clean`, `Teardown`, `Flags`, `Exit`. Three other tasks ask for
an end: `Reset` and `Reconfigure` (websocket task), `ChooseOther` and
`ChooseOcpp` (portal). Each puts what it has to write in `request`, and `Write`
writes one flag of it at a time and notifies at the end, so that the task may act
on a request of which only the first flags are set.

**BlockedPublish** is `publish_iothub_event_blocked` with its mutex, the id it
waits for, the notification, and the MQTT task that acknowledges. **OfflineFiles**
is what `offlineSession.c` and `offline_log.c` keep on flash: one operator per
write; the log is its lines and its header of start and end, and an append writes
the line (`WriteLine`) and then the header (`MoveEnd`), with a restart in between.
**OfflineDelivery** puts them together with their users: the session task
(`Top`, `Send`, `Sent`, `Look`, `Start`, `Begin`, `End`, `Seal`, `LetGo`,
`Clear`: one turn of the session handler's loop, cut where it writes a file or
waits for the cloud), the task of the signed readings (`Hour` to `Save`, which
is `on_send_signed_meter_value` with the replay of the log, that of an hour
without a reading too), the commands
`SetSessionId` and `DeleteLog`, the car, the network and restarts. The history
`unfiled` has the sessions that have no file to be kept in: none was free, the
id came before the start, or the other task wrote the session as it was before
its end over the end that was on file.

**McuProtocol** is the line to the MCU. `lock` is `uart_write_lock`, `slot` the
reply queue of one, `hand` the reply that `uartRecvTask` holds, `rx` and `tx` the
line. `TakeLock`, `Write`, `Flush`, `Receive` and `TimeOut` are `runRequest`;
`Result` is what a caller makes of what it returns, `PollResult` and `Delay` the
poll; `Parse`, `Queue` and `Skip` are the receiving task; `Supervise` is the
session handler's watch over `mcuComErrorCount`, which begins half a minute after
the start (`Settle`) and rests while the charger is updated (`Update`). The MCU (`Serve`) may be prompt,
slow or dead, which is outside `src/`. Nothing ties a reply to a request but
the moment it arrives; the history `late` says that this has gone wrong.
`MCMcuProtocol` gives TLC two of a Go charger's parameters; that of a Go Plus with
identifier 0 is not among them (section 4).

**FirmwareUpdate** joins three things that meet at a restart. `partition`, `boot`
are the partitions and the choice in otadata (the bootloader, `Bootable` and
`BootValid`, is external); `dspic`, `phase`, `cur`, `try` are the start of an image, which
checks and flashes the MCU (`Sync` is one step of `update_dspic`, through
`After`); `bits`, `onlyNew`, `location`, `version`, `abort`, `timer`, `total`
and `job` are the OTA task: `Take`, `Locate`, `SafeBlock` and `SafeFailed`,
`SegmentedBlock`, `Library`, `Finish`, `Timeout`. A `Crash` may come at any step
and loses the RAM. Its specification is `UpdateSpec`, with `UpdateInit` and
`UpdateNext`, so that one module can prove about it and about the MCU's line.
`MCFirmwareUpdate` makes each image two blocks, of which the last is short but
for one image, and has one version that the downgrade checks turn away.

### Smart charging

**ChargingProfiles** has the pure functions of `ocpp_smart_charging.c`: from when and
how long a profile holds, the periods copied from it, and the combination of the
transaction's and the charge point's schedules; **CompositeSchedule** the answer to
GetCompositeSchedule. The last definitions of `ChargingProfiles` (`Runs`, `Ruling`, `TxLimit`, `MaxLimit`) are not code: they
say, second by second, what OCPP means by a set of profiles, and the runs
compare the two. **SmartCharging** is the task with its notifications (`Wake`,
`Pass`, `SelectTx`, `SelectMax`, `Apply`), the calls of the central system
(`SetArrives`, `Install`, `Clear`) and of the session handler (`Start`,
`IdReceived`, `Stop`, `Stopped`, `ResumeStart`), and the clock. `Tick` assumes that the
task deals with a second before the next one comes.

`MCSmartCharging` chooses the profiles and states `CompositeRight`. `Plain` is a set on which the charger does
what it should: a default with three steps, a nightly one that recurs, one of a
transaction that stacks over the default, and a limit for the charge point that
expires. On the other catalogues it does not, without any coincidence:

| Catalogue | Code | What goes wrong |
|---|---|---|
| `Later` | `:1169` | `get_when_schedule_is_active` answers "never" for a profile whose start is still to come, against its comment; the profile is not looked at again when it starts |
| `Lowest` | `:1946`, `:1970` | a stack level is compared with a profile id, so a profile at level 0 is taken as the previous one |
| `AllDay` | renewal | a recurring profile without duration is not renewed on the next day |
| `Cut` | `copy_period_at` | the bound of the last period has the wrong sign |
| `Above` | selection | defaults at or above the level of a transaction profile that has expired are ignored until the transaction ends |
| `Flat` | merging | equal consecutive periods are merged and the start of the merged one overwritten |
| `MaxOnly` (clears) | `:726`, `:305` | a clear by purpose removes the charge point's profiles when it names the default, never when it names them; a clear by level and id removes where the id does not match |

### The connector

**Connector** is the OCPP part of the session handler. `h` gathers the statics of
`sessionHandler.c` that its loop and the callbacks share: status, exit and fault
state, authorisation, start token, the tag, the reset in progress. A round of
the loop is `Observe` (read the MCU, compute the status), `Enter` or one of the
handlers of a status that stays (`Authorize`, `StartCharging`, `PreparingTag`,
`ConnectionTimeout`, `DuringTx`, `ReservedTag`, `Recover`, `NothingToDo`), and
`EndLoop` (charge session and session reset). The OCPP task comes between
with `Reply`, `StartReply`, `RemoteStart`, `RemoteStop`, `Reserve`, `Unreserve`,
`ChangeAvailability` and `SetChargingVariables`; the user and the MCU with
`ShowTag`, `Connect`, `Disconnect`, `McuObeys`, `CarDraws`, `Report`, `Warnings`,
`Disable` and `Restart`. `mcu` is what the MCU does and `odd` a mode it reports
instead (active, stopping, stopped, uninitialized); nothing in `src/` says when
it does, so it may at any time. Of the warnings only those of
`MCU_WARNING_TRANSITION_FAULTED` fault the connector (`Faults`), and all are
looked at while the charger is registered (`regd`), in operation or not. Authorisation requests are a queue, because they are
answered in order and after a time; the local list and the parents of tokens
are external here, as `Families`.

Ten legal orders of events lead to states the code does not provide for:

| Risk | What happens | Line |
|---|---|---|
| `late` | a start is answered when its transaction has ended: the answer revokes or grants for whatever is going on by then | `sessionHandler.c:798` |
| `second` | an authorisation begins while another is asked for, given or in use | request callbacks, tags |
| `stale` | a tag is compared with a transaction or reservation that is gone when the answer comes | authorisation callbacks |
| `race` | a request is granted for the status `get_ocpp_state` computes in the OCPP task, which the loop has not entered; a tag is taken in a status the loop has yet to leave; a reservation is accepted while it is Faulted | request callbacks, tags |
| `nack` | the MCU refuses `StopCharging` or `ResetSession`: from Finishing back to Charging without a transaction, or Finishing for ever | session reset |
| `disable` | disabled in use: Suspended to Unavailable does not stop the transaction, Unavailable to Charging does not start one | status transitions |
| `sched` | a scheduled change to inoperative meets the end of a transaction from Suspended | status transitions |
| `gap` | a restart after `StartCharging` and before `start_transaction`, or during a fault | start-up |
| `flap` | a new warning while Faulted makes Faulted the state to return to, for ever | `ocpp_faulted_exit_state` |
| `mode` | the MCU reports a mode that what it does here does not explain: to Available, Unavailable or Reserved and back to Charging, a transaction is ended, not ended or begun again | `sessionHandler.c:1377` |

Answers are matched with what they are about by `live`: `Outdated` marks the calls
and starts whose subject is gone. A start that begins outdates the earlier ones,
because its meta id replaces theirs (`sessionHandler.c:1124`, `:744`).

What each property survives was found by proving it. With four events and one risk
in a behaviour `TokenRight`, `ReservationKept` and `OwnerStops` hold under weaker
premises than beyond these bounds: with more events, a request granted for a
status that is not entered and a tag taken before a reservation is seen lead
to a transaction whose token was not granted last, and disabling
a connector in use to two authorisations in one round. They therefore name
`race` and `disable` too, and `OwnerStops`, which needs that status and
transaction agree, also `nack`, `sched` and `gap`. For the same reason `StopEnds`
names `flap` and `DisconnectEnds` names `mode`, which take five events or more to
break them.

### Risks

Some coincidences break a property that otherwise holds. Each has a name; a
behaviour records which it has met; and a property says which of them it does not
survive, so that everything else is checked with all of them on. A run bounds
how many one behaviour takes.

| Module | Coincidence | Meaning | What it breaks |
|---|---|---|---|
| MCOcppStore | `uncounted` | a meter value is queued while `known_message_count` is -1, which makes it 0 | the count of all messages |
| | `reuse` | a start takes the number of a removed file the cache still names | order, and that what is stored is found |
| | `clear` | the cloud command clears the storage; ring, cache and an answered start survive | order and ids |
| | `crash` | a restart comes between the confirmation of a start and its callback | that a valid id is the real one |
| OcppTask | `reuse` | a start takes the number of a removed file the cache still names | the order, and so `Delivery` |
| | `race` | a timeout is taken while the answer to the same call has been matched and is not yet notified; the notification passes for one about the next call | `Delivery`, through the pointer left at `ocpp_task.c:638` |
| | `late` | the answer to an earlier attempt is matched while the call is being sent again | `Delivery`: what is sent has been settled |
| OcppLifecycle | `overtaken` | a request to end, or what the task writes itself, comes on top of another request, be that one written only in part | `Obeyed` |
| | `gone` | the portal wants OCPP back just as the task ends | `Obeyed` |
| | `swallowed` | a notification is taken where it is not looked at | `InService` |
| OfflineDelivery | `lateack` | an acknowledgement meets the end of the wait for it | `Reported`, and what rests on it |
| | `stale` | another task writes the session file with what it read before | `RightlyClosed`, `InOrder` for sessions, `Resumes`; `SessionsKept` of the session whose end it writes over |
| | `torn` | power fails inside a block that is written over, or between a session and its first or last value | `RightlyClosed`, and with another restart `Resumes` |
| | `lateid` | the cloud's session id comes between seeing the car and starting | `RightlyClosed`; `SessionsKept` of that session |
| | `delete` | the command deletes the log, and keeps its lock | `ReadingsKept` |
| SmartCharging | `early` | a resumed transaction is seen before its start time | the limits |
| | `unwritten` | an accepted profile cannot be written | `ProfilesKept`, the limits |
| | `raced` | a profile replaces an expired one that the task is about to remove | `ProfilesKept`, the limits |
| | `both` | a start and a stop are seen together | all four |
| | `revived`, `slow` | a profile is installed after the end of its transaction | `TxEnds`, the limits |
| Connector | the ten above | | as its properties say with `Without` |

## 3. Plan

The models follow the order of importance: what must survive (storage of
transactions, meter values and sessions), what must be delivered (calls,
publications, readings), who may charge (connector), how much (smart charging),
what everything stands on (MCU line, updates, the life of the OCPP task).

Left, in this order: the files of the OCPP local list and of the reservation
under power loss; charge schedules and the random delay; the connectivity
supervisor; OCMF positions in the MID ring. Every safety property that a run checks is a
theorem too, but for those that section 5 lists with the reason; left to prove
are invariants of `OcppLifecycle`, whose runs ask for liveness only, and `Resumes`
after more than one restart.

## 4. The runs

Sizes are distinct states.

| Run | Question | Result |
|---|---|---|
| `MidLtsRing` | One writer; 3 pages of 2 records fill, wrap and are purged; power loss at every point; ids 0..6. | 1.1 M. `SessionWhole`: an open session has every reading and can be read back. `BootSucceeds`, `RestartKeepsContext`, and the refinement of `LegalLog`, hold. |
| `MidLtsFaults` | Every file operation may fail half-way as well. | 0.4 M. Retention holds, no record is ahead of the id in use, and booting terminates. |
| `OcppStore` | Start, sample, stop, take, confirm, learn the id, restart; with unbuildable messages and one of the risks in each behaviour; 3 files, 6 messages. | 0.28 M. Nothing lost, one active file, and counts, order and ids kept as far as section 2 says. |
| `OcppTask` | All tasks, timers, lossy network, one drop, 2 files, 3 messages, 2 attempts; up to the first of the three coincidences. | 0.4 M. `Delivery` is implemented, also when a timer expires while an answer is handled and both are notified; each message is settled in the end. |
| `OcppTaskRisks` | Beyond the coincidences too; 1 file, 2 messages. | 2.8 M. The task never sleeps for an answer nobody can give. |
| `OcppLifecycle` | Resets soft and hard, a new security profile, another controller and back, refusals, drops, closed connections, lost notifications, requests half written; 3 events in each behaviour. | 0.9 M. `Obeyed`: an accepted request to end the task is carried through. `InService`: while OCPP is wanted the task always serves again. |
| `OfflineDelivery` | Sessions and hourly readings with restarts, drops and one kind of coincidence in each behaviour; 2 files, a log of 2, 3 sessions and readings, one kind of trouble. | 4.6 M. Sessions and readings are kept until the cloud has them, in order and rightly closed; a restart resumes the session that was cut. |
| `OfflineWaits` | Is a finished session sent once the charger is online without a car? | No: see below. |
| `McuProtocol` | One caller and the poll, a slow, dead or reviving MCU. | 0.6 M. A caller is told the truth, ready means all, the poll recovers, a dead MCU is noticed by a charger that is not being updated. |
| `FirmwareUpdate` | Every kind of update of 3 images, one whose MCU program does not start; one whose size is a multiple of the block, and one that is turned away; 2 commands, 3 troubles. | 72 k. Image and MCU program match whenever the charger runs; it always runs again; each update ends with the timer, and a download in blocks without a failed request before it, but for the image of whole blocks. |
| `SmartCharging` | Setting, clearing, starting, stopping and restarting against the clock. | 1.3 M. For the profiles of `Plain` the limit and the composite schedule are what they say; profiles are kept and end as they should. |
| `Connector` | 3 tokens, two of them related; 4 events, any one of the ten risks. | 1.4 M. Status, transaction, token, reservation and reset agree. |

`OfflineWaits` is the negative run and the finding in `PROJECT.json`: the flag that
a comment calls a check "when online" is only set in the turn in which a car leaves
or the charger comes online, so a session that could not be sent then waits for the next such
occasion, with the charger online and idle.

**Why the bounds are enough.** Three pages are the fewest with a first, a middle
and a last page, and two records the fewest with a first and a last record in a
page; seven ids fill the ring and purge a page, and a time that goes to 2 with
a retention of 1 has both young and expired pages. Three transaction files
with at most two stored meter values reach every value of `confirmed_offset`, a
vacant number below one in use, and no vacant number; six messages
are two transactions with meter values that overlap in the storage, or three
of which the last is begun after the first was removed; the queue of two wraps its ring and fills; the cache is as
large as in the code (5). For the scheduler two files are the fewest
of which one can be vacant and still cached while the other waits; two attempts give a retry and a last
failure; a start, a meter value and a stop are the three kinds of message. One
retry of a reset gives a failed attempt and a last one, and three events put a
request between a trouble and another request. Two session files and three
sessions or readings reach a file that is still to be sent behind one that is open, and a log
of two wraps. Two polled parameters are the fewest whose replies can be
exchanged, and a line of two holds a late reply beside the next one. Two blocks
are the fewest with an offset and an end, the second one short or, for one image, whole. A day of two
seconds recurs within three, and a transaction may begin in either half of it. Three tokens are a
user, a relative and a stranger; four events are enough for a tag during the
authorisation of another with the car leaving meanwhile. The safety properties of
`Connector` were also checked once with two tokens and five events (2.4 M states).

**Fairness.** `MidLts!Fairness`: `mid_init` runs on the main task before the tasks
that record events, and a call in progress is continued. `BootTerminates`
assumes moreover that the charger stops restarting, which is part of the
formula. `OcppTask!Fairness`: the OCPP task runs when it has something
to do; the websocket task returns from its callback; FreeRTOS timers expire,
the message timer by its period and the retry interval by the clock; the
websocket client reconnects by itself; and heartbeats, enqueued by an
auto-reload timer, keep coming, which is what wakes a task with a failed
message. Nothing is assumed of the network there: answers may be lost for ever.
`OcppLifecycle!Fairness`: the task runs, those that write a request go on writing it, the session handler ends a transaction
it was told to stop, the central system answers unless an event of the run
has it refuse, timers expire, and the client reconnects; how often it may be
otherwise is bounded by the events. `McuProtocol`: weak fairness of the tasks, of the session handler's loop, of a restart
and of an MCU that is not dead, and strong fairness of the poll's taking of the lock,
since a FreeRTOS mutex goes to the longest waiter of the highest priority.
`OfflineDelivery`: the session task, the task of the readings and the MQTT task
run. `FirmwareUpdate`: the start of an image and the OTA task run;
that the one-hour timer expires is assumed only in `OtaEnds`. `Connector`: the
loop goes on, stated as `pc` changing again and again, and the MCU does what it has
acknowledged; the loop waits for nothing but the MCU, and nothing is assumed of answers;
`StopEnds` and `DisconnectEnds` say in the formula what they need of the car
and of warnings.

**Other divergences seen.** These follow from the models, or were read beside
them, and are not separate runs.

MID storage:

- A power loss after `fopen` has made a page file and before its first record is
  synced leaves an empty file, and the next `mid_init` fails (`mid_lts.c:142`).
  `BootSucceeds` is therefore stated for calls that run to their end.
- Each refused purge leaves the write page advanced (`mid_lts.c:200`), so that a
  later purge need not take the oldest page, as the comment at `:640` expects.
- The END without a START that the comment at `:641` tolerates makes `mid_init`
  fail when it is the last record of its page (`:436`).
- With two writers ids are no longer unique: the semaphore is still a TODO
  (`mid.c:266`). With faults of `fsync` neither: a record that has landed
  is not counted.
- A session that spans pages cannot be read back (`mid_lts.c:691`):
  `SessionWhole` reads back sessions within one page.

OCPP transactions and calls:

- `find_oldest` keeps a cached entry for a file number that is used again
  (`ocpp_transaction.c:283`).
- A start answered after its session has ended leaves the id at -1, and the
  stop is sent with it (`sessionHandler.c:737`; the definition `StopHasId`).
- A matching answer to a call the timer gave up clears `awaiting_response` of
  its successor (`main/ocpp.c:3837`).
- `ESP_ERR_NOT_FOUND` sets `enqueued_calls` to 0 while a failed message waits for
  its interval; with heartbeats off nothing wakes the task (`main/ocpp.c:3863`).
- `receive_transaction_call` frees the awaiting call where it means the failed
  one; error paths give `file_lock` twice or never (`ocpp_transaction.c:1862`).

OCPP main task:

- QUIT is handled in the loop only if the task was waiting; otherwise the loop's
  condition ends it and the result of `prepare_reset` is not looked at, so
  there are no `ResetRetries`.
- An accepted Reset is lost when `ocpp_end_and_reconnect` is pending too, or when it
  comes on top of an `ocpp_end` whose graceful attempt fails; a Reset given
  up while offline is not reported. `ocpp_end` of the portal is not called
  while a reconnect or reset is pending. `ocpp_init` just as the task ends
  leaves nobody running.
- `prepare_reset` takes notifications it does not look at, so that after a failed
  attempt the loop may wait for an answer that has been, or keep a closed
  client until the restart after hours offline. The wait for registration
  likewise takes the notification of a drop, and `eOCPP_FIRMWARE_UPDATE` taken
  in `prepare_reset` is lost.
- An end during registration masks the generic calls only, so stored transaction
  messages are taken and fail as prohibited; an end before the network is up
  uses queues that do not exist yet; with a call out, a message is taken twice.
- `cloud_publish_awaiting &= !...` clears all bits; `problem_count` is set back to 1
  when problems are frequent (`main/ocpp.c:3831`).

Offline storage:

- A restart between the session file and its first value leaves a session without
  values; with file 0 gone an incomplete session is not resumed; with file 99
  in use a new session is not filed; the other task may write a session that has just ended
  back as it was before its end; a session id set before the session
  starts means that it has no file. A torn block is sent as an empty message and deleted.
- A task that could not take `blocked_publish_mutex` gives it; `offline_log_delete`
  takes the log's lock and never gives it.

Updates and MCU:

- `flash_error` is never reset: the same block is asked for until the timer ends
  the update. An image whose size is a multiple of `chunk_size` never completes,
  because its last block is expected to be one byte shorter than it is (`safe_ota.c:172`);
  the length of a first block is not checked; a failed `esp_ota_write` is not
  noticed; a request broken off counts as flashed in the segmented download.
- `doAbortOTA` set while idle aborts the next update; `StopOTA` clears the bits of
  commands that came meanwhile; `updateOnlyIfNewVersion` stays set after an aborted
  one; an OCPP command changes `image_location` under a running download.
- `OCPP_OTA_UNBLOCKED` together with another selection: the version check is made
  on `OCPP_IMAGE_VERSION`, but the image is fetched by the other kind
  (`apollo_ota.c:195`, comment `:262`).
- Go Plus polls `ParamMode` with identifier 0, which an empty reply has too
  (`protocol_task.c:476`, comment `:414`): `MCU_IsReady` may then be early. `ReadyIsAll`
  is proved for identifiers that are not 0.

Seen in parts that are not modelled: the differential update of the local list
adds a tag into a deleted entry and then appends it again, never removes a
deleted token and never reuses entry 0 (`ocpp_auth.c:898`); a full update removes the
list before it renames the new one; `ocpp_reservation.c` writes in place, and
uses its information after it has expired; `connectivity.c:102` blocks the timer task.

## 5. What is proved

TLAPS checks these for all values of the constants that satisfy the assumptions
named in each module (`MidLtsAssumption`, `OcppTransactionAssumption`,
`OcppStoreAssumption`, `BlockedPublishAssumption`, `OfflineFilesAssumption`,
`OfflineDeliveryAssumption`, `McuProtocolAssumption`, `FirmwareUpdateAssumption`,
`OcppTaskAssumption`, `SmartChargingAssumption`, `ConnectorAssumption`).
The inductive invariants were checked by TLC, as invariants of a run, while they
were developed.

- `MidLtsProofs!TypeCorrect`: `Spec => []TypeOK`, for any number of writers,
  pages and records, with all faults and restarts. The interesting part is the
  boot: `ScanPages` shows that the page with the least (greatest) first id
  exists, by well-foundedness of the strict subset order on a finite set.
- `MidLtsProofs!Retention`: under `Serial` (at most one writer),
  `Spec => RetentionKept`. `try_purge` looks at the last meter value
  of a page only, so retention needs that the times within a page do not
  decrease. `TimeInv` says this, and that no meter value in a page is later than
  the clock or than the event of the call in progress; the purge compares with the
  time of that event. Without `Serial`, two writers may land their records out
  of order.
- `MidLtsProofs!IdsAhead`: under `Serial`, `Spec => []NoIdAhead`, with all faults.
  `IdInv` orders the pages: of two of them one is older throughout (`PagesInv`), only
  the newest may grow and its records end below the next id, also for the context a
  boot is rebuilding page by page (`BootInv`) and for the call in progress (`JobInv`).
- `MidLtsProofs!Implements`: under `Serial` and without failed syncs,
  `Spec => ImplementsLegalLog`, from the same invariant: an append adds the next id,
  a purge takes a whole oldest page, the rest stutters. A record that landed
  although its sync failed has the id of the next one; two writers may repeat ids too.
- `MidLtsProofs!BootSucceedsHolds` and `RestartHolds`: under `Serial`,
  `MCSpec => []BootSucceeds`, and without failing writes and syncs
  `MCSpec => RestartKeepsContext`. `RingInv` says what the replay relies on: the pages
  form an arc of the ring in which the ids go on without a gap and only the newest
  has room (`ChainInv`), between two STARTs there is an END (`Alternates`), and
  the context, with the record that has landed, `Follows` the records: it holds
  the start, exactly the meter values since, and whether an id and an authorisation came
  since. `AtPage` and `WholeInv` say where an append stands in the ring between its
  tries, `ReplayInv` that the context of a replay follows the records up to its
  place. Two contexts that follow the same records are the same (`SameFollow`),
  which is the theorem. It holds as long as no call has failed, or no write or sync
  can fail and the oldest page went first (`Steady`); a page purged out of turn tears the arc.
- `MidLtsProofs!SessionKept`: under `Serial` and without failed syncs,
  `Spec => []SessionWhole`. `TellInv` needs no arc: it says that a page holds consecutive
  ids (`InRow`), that the page with room ends at the next id (`NextInRow`), and that the
  context holds the session that the records before its id tell (`Tells`): the
  meter values from a START on, in order, each still on flash among its events and
  each event still on flash unchanged. Between two calls every record has been told
  (`AllTold`). The session on one page is then the run of records between its START
  and its END (`ClosedOnPage`), and reading it gives a sequence with increasing ids and
  the same elements, so the same sequence (`SameEvents`). `Readings` and
  `ReadSession` are recursive functions: that they exist is shown by counting up
  (`CountUp`, from the greatest element of a finite set), as is what they return
  (`ReadingsAre`, `OnePageRead`). With a failed sync a record may land that the context
  is never told.
- `OcppStoreProofs!ActiveIsSession`: `Spec => []OneActive`, with all risks and
  faults. `OneActive` alone is not inductive: a start stops the active
  file it finds, so the invariant `ActiveInv` adds that there is only one
  (`OneEntry`) and that files and session have their fields. Each operation but
  the start is shown to be *tame*: it makes no file active that was not,
  and changes no start of an active one.
- `OcppStoreProofs!NothingLostHolds`: `Spec => []NothingLost`, with all risks and
  faults. What could go wrong is that a confirmation takes another message
  than the one that was answered, so `StoreInv` says that the loaded message is
  the next of its file, whatever has been stored since (`LoadedInv`), that a message
  from a file that is out for an answer is the loaded one (`CallInv`), that starts and
  stops stay on file (`OwedInv`), and of each file that it is active until its
  stop (`FileRight`). A start, a meter value, a stop or an id only *adds* to a
  file (`Adds`); a confirmation takes one message from it (`ConfirmedLoses`).
- `OcppStoreProofs!OrderKeptHolds`: `MCSpec => []OrderKept`, with all faults and
  risks; the premises are those of the property. `CalmInv` keeps, whatever happens,
  the numbers in each file in order (`TidyAll`), the transactions after one another
  (`Apart`) and the queue in order (`Line`); as long as no number in the
  cache was taken again and the storage not cleared, also `DueInv`: the cache names the oldest files
  and the loaded message is the oldest on file (`CacheOrder`), the ring holds the
  times of the queue (`TimesInv`), and what is out for an answer is owed and older
  than all that waits (`AllOwed`, `OldestOut`, `LoadedOut`, `QueuedOut`).
- `OcppStoreProofs!IdsKeptHolds`: `MCSpec => []IdsKept`, likewise. `OwnInv`
  follows an id from the answer of a start through its callback, file and session into
  the messages: the file of an answered start stays until its callback
  (`AnswerOwn`), the file a session names is its own (`SessionOwn`), and no message is
  out while a callback waits (`CallOwn`). `RealInv` says when it is the id given by the central
  system: a file whose start was answered is past it and has its id or a callback to
  come (`FilesReal`). A file *passes* an operation (`Passes`) if it keeps
  its transaction, and its id once its start is settled.
- `OcppStoreProofs!CountsKeptHolds`: `MCSpec => []CountsKept`. That a header counts what
  waits in its file is part of `Tidy`, of each file; that the total once
  known is right is `CountInv`: an operation that changes one file changes the
  sum over the files by what it changes there (`StoredChanges`), and each one
  either adds the same to `known_message_count` or makes it unknown.
- `OcppTaskProofs!DeliversInOrder`: `Spec => ImplementsDelivery`, for any files, queue, retries and drops, up to the first
  of the three coincidences; the charge point does not restart here. `Delivering(o)` says
  that `o` is the message out: `Due` the storage's side, that what is owed is what
  is stored, queued or out, and `o` the oldest of it, loaded or in no file any more;
  `Holds` the task's side, that of the active, the failed and the held call those that
  are a transaction message are `o`; `PlacesInv` which of them there
  are at each place of the loop. Each step takes, settles, accepts or stutters.
- `OcppTaskProofs!NeverStuckHolds`: `Spec => []NeverStuck`, with all losses and drops,
  and beyond any coincidence. `TaskInv` adds to it what the steps before the wait have secured: a
  call in hand is one, and while it is being sent, the call is active, its answer is
  being handled or a notification is set. Unique ids (`NewUidReal`) keep
  a call from looking like none.
- `OfflineDeliveryProofs`: `Reported`, `RightlyClosed`, `SessionsKept`,
  `ReadingsKept`, `InOrder` and `Resumes`, for any sizes and any combination of a
  restart, a torn block, a drop and coincidences.
  `SessionsKept` excepts of these only the false report (`lateack`), and by `unfiled` the
  sessions that have no file to be kept in: it holds with the other task writing
  the session file from what it read before, and with torn files. `SessionInv` says
  why: what is sent is the oldest file that ended, a session is in hand as long as its
  end is not on file, and the file of a session that has ended is written by nobody
  once it is let go (`Reached`), or the session is in `unfiled`.
  `ReportInv` follows each publication through the wait for its acknowledgement;
  `FilesInv` the session files (at most one open, and it is the session's),
  `SessionInv` and `ReadingInv` the copies that the two tasks hold of sessions and
  readings between reading a file and writing it. Each theorem carries the
  premise of its property: which coincidences the behaviour has not met.
  The order rests on what is handed over never being ahead of what is still to come:
  `LineInv` says so of the readings (the log ascends from its start, its newest line is
  not ahead of the reading in hand, and that one is published only with the log empty),
  `NumberInv` of the sessions (the files ascend, and the oldest is sent), and `InTurn` of
  the outbox and the cloud. `Resumes` adds `LastInv`: while nothing was cut, the only
  file that is not closed is the one in hand, and its session is the last one, so that
  after the restart it is the file with the highest number; `FirstInv` says that between a
  boot and the first look at the car nothing changes it. A second restart can find the
  file of an earlier one still open, which `Resumes` leaves out.
- `McuProofs!AcksAreReal`: `Spec => []AckIsReal`, for any callers,
  requests and line length. A reply carries no name, so the invariant `AckInv`
  traces each one: `Tied` says that a reply on its way that is not marked late belongs
  to the holder of the lock and came after its flush, `Real` that its request has been
  carried out, `Holding` that nobody else waits.
- `McuProofs!ReadyIsAll`: `Spec => []ReadyMeansAll` if no polled
  identifier is 0. `PollInv` says that all parameters before the poll's place
  have had their reply since the start.
- `McuProofs!RunsMatched`: `UpdateSpec => []Matched`, for any images, sizes,
  failures and restarts. `UpdateInv` adds to `Matched` that the partition running
  holds an image (`PartInv`), and what is on the MCU at each step of
  `update_dspic` (`McuInv`): an MCU in its program holds a whole one, and after the step
  that compares headers its header is that of the target. It rests on the MCU's
  bootloader refusing to start a program that is not whole.
- `SmartChargingProofs!ProfilesKeptHolds` and `TxEndsHolds`, for any profiles, times,
  transactions and coincidences. `ProfileInv` says that without a transaction no profile of one is
  in force, also while a profile waits for `file_lock` (`command`), and
  `TaskInv` that what is about to be removed has expired; `TxInv` that a profile of a
  transaction is of the one that runs or its end is still among the notifications,
  and that the task holds no transaction for active whose end it has seen. `ProfilesKeptHolds` assumes
  `ClearsWhatItSays`: by level and identifier, or for the default purpose, the
  charger clears other profiles than it was asked to (`MaxOnly` above).
- `SmartChargingProofs!CombinedIsLower`: for any two lists of periods that rise and begin
  together and any duration, the list `combine_schedules` writes rises, begins with them
  and says at each time up to the duration the lower of what they say. `Combined` is its loop as a
  recursive function of the number of turns, over all the entries there are; `After` is the loop
  invariant: what is left of a list says what the list says (`RestOf`), the next entries are
  later than both in hand (`Ahead`), what is written is right up to those (`Goes`) or
  for good (`Ended`), and unless the duration is passed no more entries are left
  than turns, so that the bound on the turns cuts nothing off. The property of the runs that rests
  on it, `LimitRight`, also takes what the periods copied from a profile say, which is not
  always what the profile says (`Flat`, `Cut` above).
- `ConnectorProofs`: `TypeCorrect`, `TransactionInState`, `TokenIsRight`,
  `ReservationIsKept` and `OwnerStopsIt`, for any tokens, families, events and
  combinations of risks; each theorem carries the premise of its property, the risks the
  behaviour has not met. The invariants come in layers, each resting on those before
  it. `Sound` holds whatever happens: what the start-up, the file of the transaction, the
  override, a fault and a reset imply of each other, that the token authorised is the one granted
  last (`GrantedBy`), and that a start that counts is of the transaction on
  file (`Current`). `InStep` relates the transaction, the status
  entered, the status seen and the MCU (`Usable`, `Exited`, `Agree`), across the three
  parts of a round and whatever callback comes between them. `Serving` says whom the connector
  serves: one request is out at most and only while nobody is authorised
  (`CallsRight`), a car that draws current without a transaction is authorised by a
  token that no answer can revoke (`DrawsRight`), the code of the session is that token's
  (`CodeRight`), and only the reservation's token is authorised while there is one
  (`BookedRight`). `Owning` follows a tag that stops, from the
  comparison to the end of the transaction.

Only model-checked:

- liveness (`BootTerminates`, `Settled`, `InService`, `PollRecovers`, `DeadNoticed`,
  `RunsAgain`, `UpdateEnds`, `StopEnds`, `DisconnectEnds`), as it needs ENABLED;
- `LimitRight` and `CompositeRight`, which compare a walk over the periods of the
  profiles with a definition that looks at each second, and hold of profiles that keep to
  the rules of `Plain` only (of their last step, the lower of two lists, see
  `CombinedIsLower`);
- everything about `OcppLifecycle`: its two properties, `Obeyed` and `InService`, are
  liveness.

## 6. What is left out of the modelled parts

- `MidLts`: the wrap-around of the 32-bit record id; CRC errors.
- `OcppStore`: file system errors inside a call, which is one step; freed calls, but where
  `receive_transaction_call` leaves a pointer behind (`Garbage`); sizes, text, JSON.
- `OcppLifecycle`: operation without LTE allowed (one more caller of
  `ocpp_end_and_reconnect`), `WEBSOCKET_FAILURE`, the firmware-update event,
  clock-aligned values, the moment before notifications are configured, the
  length of the boot interval.
- `OfflineDelivery`: the MID variants of session and reading; MCU modes that pass
  between two samples; builds for the Go Plus.
- `FirmwareUpdate`: FPGA and the old PIC; verification of an image is
  `esp_ota_set_boot_partition`'s, external.
- `SmartCharging`: `read_profile_from_file` gives a lock its callers hold;
  sizes and units.
- `Connector`: the warning mode of the MCU (which is Faulted by itself), pauses by schedule, operation without
  authorisation, the configuration by which an invalid id only pauses, charging
  profiles in RemoteStart, status notifications, a car that leaves and comes
  back between two rounds, callbacks between registration and the first round.

Not modelled at all, and why: calibration (numerical, in the factory), Bluetooth,
the production test, sensors and displays (sequential drivers), JSON and OCMF text
(data only), storage parameters (single assignments), third-party code; the local
list's files, the reservation's file, schedules and connectivity for want of
priority (section 3).
