# A TLA+ model of the Aurora RS-485 gateway

The firmware under `src/main` is an ESP32 gateway between a heat pump's RS-485 bus and WiFi: it polls the registers of the
Aurora control board (the ABC), serves them over HTTPS, writes setpoints, and updates itself over the air. This directory
models its logic in TLA+, checks the models with TLC on small instances and proves their main invariants with TLAPS for
every value of the constants.

## 1. Inventory

| component | state | operations | interacts with |
|---|---|---|---|
| RS-485 driver, `aurora_modbus.c` | `s_lock`, `s_last_exception`, three fault counters, the UART buffer | FC03 read, FC06 write | called by the poll task and the HTTP task; shares the wire with the AWL, another master |
| Poller, `poller.c` | cache with one slot per register, statistics, `s_enabled` | one loop over `SPANS` about every two seconds, reads of the cache, suspension | calls the driver, heartbeats the supervisor, read by the API |
| HTTP API, `api.c` | `s_last_reg_us`; one server task | status, health, registers, setpoint, mode, logs, wifi drop and debug | driver, cache, settings, log, WiFi |
| Settings, `settings.c` | two flags in RAM and in flash | load at boot, store | set by `/api/mode`; read by the API, `main.c` and the confirm task |
| OTA and rollback, `ota.c`, `confirm_task` in `main.c` | image states, boot slot, `s_marked_valid`, two tasks of a trial | upload, confirm, rollback watchdog | bootloader, poll statistics, the API being up |
| Log ring, `logbuf.c` | `s_buf`, `s_head`, `s_wrapped` | append by every task, dump by the API | every component logs |
| Boot sequence, `main.c` | none of its own | settings, driver, poller, watchdog, WiFi, API, in that order | everything |
| WiFi, `wifi.c` | retries, connected, the slow-retry timer | events of the driver, forced disconnect | supervisor, API, boot |
| Supervisor, `supervisor.c` | heartbeats, start of an outage | checks every 5 s, reboots | poller, WiFi |
| Authentication, `auth.c` | `s_rejects`, `s_rejects_logged`, time of the last logged refusal | check of a header, 401, throttled log of refusals | every guarded request, the log |
| Simulator, `simulator/` | registers, physics, a serial link | slave dispatch, writes, frame resynchronisation | stands in for the ABC in the tests |
| Web page, tools, certificates | none | rendering, provisioning | - |

**What is hard here.** Two tasks share one UART and one mutex; replies can be damaged, lost, refused or late, and other
traffic is overheard; one flag and one counter are read after the lock they belong to is given back; the cache is written
register by register by one task and read word by word by another; polling is suspended while a loop is running; flags live
in RAM and in flash and either may fail; the board may reset at any instruction; two tasks race to end a trial; one task
serves every request, uploads included, and reads what a handler leaves of a body; a dump copies a ring that is being
written, into which anybody who is refused may write. `hazards` in `PROJECT.json` lists each
of these at its line, with the properties that watch it.

**What makes each component correct.**
Driver: a call gets the answer to its own request or an error, never an earlier one, and it returns.
Poller: after the first success the cache is complete and nothing in it is older than the beginning of the last full loop, suspension
takes effect, and the task always comes back to its heartbeat. API and settings: what a client was granted holds and what it is told is in force,
only legal setpoints go out, a page is complete and shows values the zones had, and every request ends. Authentication: only the key gets through, every refusal is counted, and
refusals do not push the log out of the ring. OTA: there is always a whole image to boot and to fall back to, a healthy image stays, a trial
ends. Log: the ring is the tail of what was logged; a dump is that tail, but for its oldest bytes.
WiFi and supervisor: something always makes an idle station try again; the supervisor reboots neither hastily nor late.

## 2. Modules

| module | models | extends |
|---|---|---|
| `RegisterService` | what `aurora_modbus.h` promises: an abstract register service with one request in flight | |
| `RegisterCache` | what `poller.h` promises its readers: a cache that only moves forward, and an age | |
| `UpdateService` | what `ota.h` promises of an update: complete, on trial first, kept only if it is healthy | |
| `AuroraModbus` | the driver, with the ABC, the AWL and the wire as environment | |
| `Poller` | the poll loop, the cache, suspension | `AuroraModbus` |
| `Status` | the status page, read word by word from the cache | `Poller` |
| `Api` | HTTP handlers, settings, resets | `Status` |
| `Ota` | uploads, trials, confirmation, rollback | |
| `LogRing` | the ring and its dump | |
| `Auth` | the bearer check and the throttle of its log | `LogRing` |
| `Link` | WiFi events, retries and forced disconnects, the boot wait, the supervisor | |
| `BusProof`, `PollerProof`, `StatusProof`, `ApiProof`, `OtaProof`, `LogRingProof`, `AuthProof`, `LinkProof` | theorems about the module each is named after | that module, `TLAPS` (`PollerProof`, `StatusProof` and `ApiProof` also the one before, as their modules do) |
| `MCBus`, `MCPoller`, `MCStatus`, `MCApi`, `MCOta`, `MCAuth`, `MCLink` | the small instances TLC checks | that module |

`Poller`, `Status` and `Api` compose by extension: a step of theirs conjoins the driver's own action with what the caller does
around it, so the driver is never summarised; `Auth` extends `LogRing` likewise. `Ota`, `LogRing` and `Link` share no state with the bus beyond "a poll has
succeeded" and "the poll task comes round", and stand alone.

The three modules without a proof of their own are abstract: `AuroraModbus` implements `RegisterService`, `Poller` implements
`RegisterCache` and `Ota` implements `UpdateService`, each under a mapping that stands beside the property at the end of the module
(`ImplementsService`, `ImplementsCache`, `ImplementsUpdates`).

A definition with a suffix, such as `Drain_Missing` before `Drain`, is a faulty variant of the one it precedes. No
specification uses it; `PROJECT.json` lists which property fails when it replaces its original.

### AuroraModbus

One step per point where another task or the bus can be noticed. `Call` is the entry of `aurora_read_holding` or
`aurora_write_single`, with the request built; `TakeLock` is `xSemaphoreTake` plus the clearing of `s_last_exception` and
the first flush in `transact()`; `IdleWait` is one look of `wait_bus_idle()` at the UART: it drains what it finds and looks again, or
finds the line silent, or gives up (`GivesUp`, line 65), counts that, and lets the request go out all the same; `Transmit` is the write and the wait
for its end, `TxFail` either of them failing, when the request may be out or not; what arrives between the last drain and the end of the transmission
stays in the buffer and may be taken for the answer, so `FreshReply` dates a request by its last drain. `Receive`
or `Timeout` ends the wait for a frame; `GiveLock` is the inter-frame delay and `xSemaphoreGive`; `Return` hands the result
to the caller.

`Verdict` has the checks of `transact()` in their order: exception frames first, from any address, then size, address,
checksum, contents. A frame is reduced to what these look at; the CRC is the flag `crc`. `reg`, `arg` and `ver` of a read's
reply are invisible to the driver, as in the protocol: they let the properties say whose data it was. `rx` keeps the first
frame since the last flush, because `transact()` parses one frame and the next transaction flushes the rest.
`Env` switches on the environment's faults one by one: late, corrupt, foreign, txfail.

### Poller

`span` is the position in the loop, 0 at its head where the heartbeat is given and the flag is looked at. `PollStore`
stores a whole span, as `cache_put()` does under `s_cache_lock`. `SetEnabled` comes at any moment. `PollPublish` takes `last_success_us` (`okVer`) where a loop
ends, as `poller.c:172-176` does. `startVer`, `okStart` and `offTx` are history: how recent the register file was when the present loop, and the loop that
set the age, began, and how many requests were sent since polling was switched off.

**What the age means.** `age_s` counts from the end of the last loop without failure, and a word read early in that loop is older than that: by up to the
length of the loop, about 5.7 s if every span takes its time (`poller.c:154`). `age_s` therefore understates the age of the oldest word on a page
(`www/index.html:184` shows it as "Data age"), and no property here says otherwise. What holds, and what `AgeWithinOneLoop`, `StatusNotStale`, `ZonesAreReal` and `RegisterCache`
say, is that nothing is older than the beginning of that one loop, however many later loops fail halfway and whatever is read while they run.

`RegisterCache` is what a reader may rely on without knowing of tasks, loops or the bus. `Known(r)` maps a slot to the moments at which its own
register held its word: `{}` for a slot that is invalid, and for a word of another register as well, so that one would show as a
slot that went back to invalid. A successful `PollStore` is a `Refresh` of one span, all of it and of one moment; a `PollPublish` after a loop
without failure is a `Publish`: the age is dated now, and no slot is older than a moment between the date before and now, which is where the loop began; the
rest is invisible.

### Status

`status_get()` is the longest reader of the cache: one `poller_get()` after another, each under `s_cache_lock` on its own,
while the poll task stores spans. `StatusGet` takes the age (`DateOfAge` is the loop whose end `poller_age_s()` counts from; where it began is history), `StatusLoopWord`
one value of the loop and fault sections, `StatusConfig` the number of zones, `StatusWord` one word of a zone; a zone with a missing word is
left out. `TempShown`, `HeatShown` and `CoolShown` are the decoding of the code; `Packed` is how the ABC packs a zone, which
is what makes a value shown comparable with one the zone had. The real `SPANS` cover the registers of two zones although `MAX_ZONES` is 6: zones 3
to 6 never appear, which `StatusIsComplete` allows by speaking of polled zones only.

### Api

`http` is where the one server task is. A request without the key is turned away (`Unauthorized`), and so is a body of the wrong length or cut
short (`BodyLengthBad`, `BodyCut`); all three close the socket, which is what `auth.h:18-29` asks of every caller. Any request may come with a body,
whether its handler reads one or not. A body left unread on a socket that stays open puts the server in `purge` after the answer; `Purged` ends that, without
fairness: the client decides how long it lasts. So a GET with a `Content-Length`, or `POST /api/debug/wifi-drop`, can hold the server, with or without
the key; what `RefusedPostsClose` says is that a refused request and a post to `/api/setpoint` or `/api/mode` cannot, and `RequestsAnswered` lets a request end in the purge.
`registers` and `setpoint` drive the bus through the driver's own `Call` and `Return`; `Browse` stands for the page, health and the
other requests that answer at once. `Reboot` may strike anywhere and keeps only `nvs`, which may itself be
found unreadable and be erased (`main.c:106-109`).

`mode` takes the steps of the code, one at a time, so that a reset or the poll task may come between any two: `ModeSave` puts a flag in flash, where it may fail before, at
or after the commit; `ModeCopy` sets the variable of `settings.c`; `ModeApply` tells the poll task (`poller_set_enabled()`); `ModeReply` answers. A 200, of `GET` or `POST`, tells
both flags (`Told`): the writes flag of the settings and the poll flag of the poll task. `granted` is history: what the last 200 to set a flag granted. The two notions differ:
after a 500 whose commit did reach the flash, or when a flag could not be read at boot, `/api/mode` tells what is in RAM, and the flash, hence the next boot, may
say otherwise. `GrantedFlagsHold` is about what was granted, `ModeTellsTruth` about what is told: it is in force, and for the flags the request set it is in flash too.
(`wifi_debug` is a log level and is left out.)

### Auth

`AuthOk` has the checks of `auth_ok()`; the one of `httpd_req_get_hdr_value_str()` (`auth.c:92-95`), which sends a 401 without
counting it, cannot fail after the length was found to fit, and is left out. `Throttled` decides between `RefuseSilently` and `RefuseAndLog`,
whose line goes through the ring's own `Log`; every other task may log at any time (`OtherLine`), and `LogsGet` dumps the ring
with the key. The counters wrap at `RejectMax`, their difference does not; the model excludes 2^32 refusals in one window.
`unreported`, `mark` and `probes` are history. Refusals after the last line stay unreported until the next one outside the window.

### Ota

Time is in ticks. In a tick every task whose delay is over runs once, in any order (`due`): both the confirm task and the
rollback watchdog count from boot, so their order at the limit is the scheduler's. The bootloader is external: it
boots the selected slot, puts a new image on trial, and gives up one that is booted again while on trial. `esp_ota_begin`
refuses to work during a trial, as `CONFIG_BOOTLOADER_APP_ROLLBACK_ENABLE` makes it. An upload that is refused or fails is answered with
`json_reply()` and the socket kept open (`LeaveBody`); the server then reads the rest of the body (`Purge`) before it serves anybody.
One clock drives both tasks of a trial, though in the code their delays differ. `Answers` is `ota_pending_verify()`: if the state of the image cannot be read it says that there is
no trial (`ota.c:27-29`). Then the watchdog is not armed or stands down, `ota_mark_valid()` is done without a mark, and the trial lasts until the next reset, which
reverts it; `misread` remembers that there was such a read since boot. `esp_ota_begin()` and the bootloader read the state by means of their own, which are assumed to work.

`UpdateService` has one slot that runs and a spare. `PhaseNow` and `SpareNow` map the image states, the torn or whole contents and the
position of the upload to it: the erasure by `esp_ota_begin()` is `Erase`, the validation `Fill`, the selection `Select`, which may fail;
`ConfirmWake` is `Confirm`, which asks for an API that is up; every reset, of whatever cause, is one `Reset`, which starts a trial, ends it with the old slot, or
changes nothing. The two tasks of a trial, the chunks and the purge are invisible.

### LogRing

Bytes are numbered as they are written, so the content of the ring says which part of the log it is. `Store` is the two
copies of `append()` with the head and the wrap flag; a line longer than the ring keeps its end. The dump takes the indices
in one step and then copies byte by byte while others log.

### Link

The WiFi driver is external: `esp_wifi_connect()` starts an attempt if there is none, attempts fail or succeed, connections and
addresses get lost, and the driver may stop working altogether (`Wedge`). What it tells the firmware waits in `events` until
the event loop comes to it. `OnStart`, `OnDisconnected` and `OnGotIp` are the branches of `on_wifi_event()`; `RetryTimer` runs
on the timer task, `AskDrop`, `ForceDisconnect` and `Dropped` on the HTTP task, `ConnectReturns`, `LoopEnds` and `ApiStarts` (the retries of
`api_start()`) in `app_main()`. The supervisor's check is one step; its times are kept as ages, in ticks of `CHECK_INTERVAL_MS`. `offline`, `upFor`,
`downFor` and `steady` are history, and do not look at `s_connected`: the link as the WiFi driver has reported it, from the moment of the report on, before the event loop comes
to it. An outage the driver never reports, because it is wedged while online or because only the address is lost, is in none of them: the firmware has no way to know of it. `CheckTorn` is a check that read the heartbeat, a
64-bit value without a lock, half old and half new: a reboot nobody asked for, with a poll task that works, which `NoHastyReboot` exempts. The return of `esp_wifi_connect()` is ignored
(`wifi.c:31, 38, 59`) and the model assumes that it never fails; if it did, no event would follow and `RetryPending` would be lost. Nothing here outlives a reset.

## 3. Runs

| run | instance | shows |
|---|---|---|
| `bus_noisy` | two tasks, one read, one write, late and overheard frames, failing UART, registers changing once | `FreshReply`, `ExceptionScoped`, `CallReturns` |
| `bus_quiet` | two tasks, two reads of equal length, one write, damaged and lost replies, failing UART | `OwnReply`; the driver implements `RegisterService` |
| `poller` | two spans, a zone of three registers and the zone configuration, an HTTP task that reads them raw and renders the status, one change of every setting, refused and lost replies | `AgeWithinOneLoop`, `OwnRegister`, `SuspendDrains`, `PollerCycles`; the poller implements `RegisterCache`; `StatusIsComplete`, `StatusNotStale`, `ZonesAreReal` |
| `poller_late` | two adjacent spans of equal length, replies may be late | finding 1 |
| `poller_silent` | the same, no faults | finding 2 |
| `api` | one zone, one raw register, setpoints either side of every check, three mode bodies, failing flash, resets | `GrantedFlagsHold`, `ModeTellsTruth`, `WritesAreLegal`, `WrittenMeansWritten`, `RefusedPostsClose`, `RequestsAnswered` |
| `api_exception` | one raw read against the poller | finding 3 |
| `ota` | trials of 3 ticks, watchdog at 5, uploads of up to 3 bytes in chunks of 2, resets at any step | `AlwaysBootable`, `FallbackKept`, `HealthyIsKept`, `TrialEnds`, `UploadEnds`; the whole implements `UpdateService` |
| `ota_bus_dead` | the same | finding 4 |
| `ota_refused` | the same | finding 5 |
| `link` | one fast retry, a first check after one tick, limits of one tick, an access point that comes and goes, a driver that may wedge, a poll task that may hang | `RetryPending`, `NoHastyReboot`, `CaughtInTime`, `Reachable` |
| `log` | a ring of 4 bytes, messages of up to 4 cut to lines of 3, 12 bytes written, dumps into 3 sizes of buffer; windows of 2 ticks in 4, counters that wrap at 4, a header that fails each check | `RingIsWindow`, `DumpFits`, `GarblesOldestOnly`, `RejectsAccounted`, `ProbingCannotScrub` |

Why the instances are large enough. Two tasks are all the callers the driver has. A wrong pairing of request and
reply needs two requests that the driver cannot tell apart, and two spans of equal length are there; a third request adds
interleavings of the same kind. One change of the registers (`MaxVer = 1`) separates before from after, which is all that
"older than" means. `CounterMax` is 2^32 - 1 in the code and 0 or 1 here: a counter wraps at every step, or every second
one, and nothing reads it back. In `api` registers do not change (`MaxVer = 0`), and replies are answered, refused or lost but not damaged: freshness
and damage are the concern of the runs below it, and no property of `api` is about time. `MaxDrains` is how often `wait_bus_idle()` finds something before it gives up, 40 ms
in the code: with 1 the wait ends silent at once, silent after a drain, and by giving up; the proofs cover every bound. In `ota` the watchdog outlasts the confirmation by two ticks as 420 s
outlast 300 s; the three bytes make a full chunk, a short one and an empty rest. In `poller` the two versions of a zone differ in every bit of the heating setpoint, and its second temperature is the sentinel -999.9: a
value put together from both, or decoded wrongly, is seen. In `log` 12 bytes wrap the ring three
times, with lines that end before, at and after its end, and dumps into a buffer that holds the whole ring and into smaller ones. In `link` the limits of 12 and
360 ticks are one: an outage is then counted over three checks, with reconnections between them; the proofs cover every limit. The bounds are the
constants commented as such; no guard in the code corresponds to `MaxVer`, `MaxLen`, `MaxMessage`, `MaxWritten`,
`MaxNow` and `QueueLen`.

**Fairness.** A transaction ends: `wait_bus_idle()` gives up and the frame has a deadline, so the steps of a task holding
the lock are weakly fair. A waiting task gets the lock under strong fairness: the lock is free again and again but not
continuously, and every holder sleeps without it, the poll task for two seconds a loop and the HTTP task until the next
request. The poll task and the server task run (weak fairness), and each wait for
a piece of a body is bounded by `recv_wait_timeout` (`api.c:589`). In `Ota` time passes, tasks run when their
delay is over, and `httpd_req_recv()` returns, at worst with a timeout. The ABC, WiFi, the client, the flash and
the operator owe nothing: they may stay silent or fail for ever. In `Link` an attempt to connect ends, and an access point
that stays up accepts one in the long run (strong fairness, since attempts come and go), gives it an address, and its event
is handled before a reboot at least once, and
`api_start()` finds its memory sooner or later; time passes however often a client drops the link (strong fairness of `Tick`).

TLC checks for deadlock in every run: the board never stops.

## 4. What is proved

For every set of tasks, requests, foreign frames, exception codes, list of spans and bound, from the assumptions
named in the modules (`RequestAssumption`: a read asks for 1 to 125 registers; `SpanAssumption`: the spans are reads and there
is one; `HttpTaskAssumption`: the server is not the poll task; `SetpointAssumption`: a setpoint that passes the checks is one of
the requests; `ZoneSpanAssumption`: no span splits the two setpoint words of a zone, as none of `SPANS` does (`poller.c:28-36`);
`ZonesAssumption`, `FrameAssumption`, `CfgWordsAssumption`, `HttpAssumption`, `OtaAssumption`, `LogAssumption` and the like: the ranges).

- **Driver** (`BusProof`). The invariant is the conjunction of: types; the lock is held exactly by the task that is inside a
  transaction, so that at most one is; no frame in `rx`, once the wait for a silent line has ended, is older than that moment; and the exception register is 0 or
  belongs to the frame just read. The first part is what makes the others inductive: only the holder flushes, sends or parses. It
  gives `BusTypeCorrect`, `RepliesAreFresh`, `ExceptionsAreScoped`. On a quiet bus the invariant is extended: every
  request in the air and every intact frame in `rx` belongs to the holder, whose write, if the echo is there, was carried out.
  That is what neither the header nor the checksum of a reply ensures. It gives `AnswersAreOwn`.
  `DriverImplementsService` is the refinement: under that invariant the end of the idle wait is a `Send` (it is this task's turn and nobody else's request is out,
  because of the lock), an accepted frame a `Succeed` (it is the answer to this request, and no older than it), any other end of the
  transaction a `Fail`, and the lock and the drain are invisible to the caller. The theorem assumes `QuietBus`; finding 1 is what happens without it.
- **Poller** (`PollerProof`). `PollImplementsBus`: every step of the composition is a step of the driver or leaves it
  alone, so the driver's theorems hold of it. `AgeIsWithinOneLoop` needs a strengthening that speaks of a loop half done:
  the spans already read without failure hold words at least as recent as the loop's start, a loop begins no earlier than the last good one ended
  (`okStart`, `okVer`, `startVer` in this order),
  and while the request of a span is out, the task carries exactly that request. `SuspensionDrains` needs
  that the requests sent since suspension and those the loop may still send are together no more than the spans. `SlotsHoldTheirOwn` follows from
  `AnswersAreOwn` and the same bookkeeping. `SlotsNeverGoBack` is an action property, on any bus: a slot stays valid and its word only gets
  newer. Its invariant `TimeInv` says that a reply under way to the poll task is at least as recent as all that is in the cache, which holds because
  the request was sent after everything cached was read (`FreshReply` again), and the poll task has one request out at a time.
  `PollerImplementsCache` puts these together as a refinement of `RegisterCache`, for any list of spans: `OwnRegister` and `SlotsNeverGoBack` make
  every store a `Refresh`, `AgeIsWithinOneLoop` and the order of the loops make every success a `Publish`. It assumes `QuietBus`: on another bus a slot may hold another register's word (finding 1).
- **Status** (`StatusProof`). `StatusIsNeverStale` and `StatusIsAlwaysComplete` follow one page through its words. Every slot is, once
  there was a full success, at least as recent as `okStart` (the poller's invariant), and `okStart` only grows; so a word put on the page later is no
  older than the beginning of the loop whose age was taken first. For completeness every slot the page asks for is valid from then on.
  `ZonesAreAlwaysReal` is about the values: for any table of zones with 16-bit temperatures and setpoints the ABC can pack. It needs the arithmetic of the
  packed words, shown first as lemmas without state (`SignedFacts`, `PackedFacts`, `ShownFacts`: decoding a word that was packed gives the
  value back), and an invariant in two parts. `Together`: the two setpoint words of a zone are of the same moment in the cache, since one
  span stores both. `ZoneInv`: every word on the page is its own register's, and between the two reads of a zone the high word is no
  younger than the one the cache still holds (`SlotsNeverGoBack`). So two words of the same moment decode to a setpoint of that moment, and otherwise
  the low one is the younger, which is the exception the property states.
- **API and settings** (`ApiProof`). Short of a reset every step is a step of the poller or leaves it alone (`ServerUsesPoller`), so the
  invariants of the bus, the poller and the page carry over; a reset re-establishes them. `StatusOfTheServer` says so of the page. What is added is
  an invariant that follows a mode request step by step through flash, RAM and the poll task's flag: which flags it has stored, copied and applied at each `http`, and
  that outside of it RAM and the poll task agree (`GrantedFlagsAlwaysHold`, `ModeAlwaysTellsTruth`); and that a
  write under way is one that passed the checks and that nothing but the server, which waits for it, switches writes off (`WritesAreAlwaysLegal`).
  `WrittenIsWritten` takes the quiet bus's invariant along: the 200 is sent in the step in which the call returns.
  `RefusalsNeverPurge` needs of the reply that an unread body and a refusal come with the socket closed.
  `BusOfTheServer` and `ZonesOfTheServer` carry the guarantees of the driver, the poller and the zones over to the whole server with resets.
- **OTA** (`OtaProof`). `SlotsInOrder`: the running image is whole; it is settled, or the other slot is whole and settled; the
  selected slot is whole, and differs from the running one only between selection and restart. `AlwaysAnImage` and `AlwaysAFallback` follow.
  `HealthyStays` needs, besides the types, when each of the two tasks last ran: confirm_task comes round within its delay of any moment, so an
  image ready by `ConfirmMinUptime` is off trial a delay later. It is proved for `Margin > 1`; with a watchdog one tick behind the limit the two
  tasks are due in the same tick and the order is the scheduler's. The code leaves 120 s (`main.c:40-41`).
  `OtaImplementsUpdates` is the refinement of `UpdateService`. Beside `SlotsInv` it needs that the slot an upload is writing is torn until it is validated, so
  that nothing skips the erasure or the validation, and that uploads and confirm_task exist only where the API is up (`ReachedInv`).
- **Log** (`LogRingProof`). `RingHoldsTheTail` is inductive with the types; each byte of `Copied` is compared with the window it
  must become, in the cases of a line that does and does not reach the end of the ring. `OnlyTheOldestGarbled` needs in addition that what has been
  copied so far is either the byte meant or one written after the snapshot, at a distance bounded by what was logged since.
- **Authentication** (`AuthProof`). `OnlyTheKey` says which headers pass. Every step of `Auth` is one of `LogRing` or leaves the log alone
  (`AuthKeepsTheLog`), so the ring's theorems hold with it. `EveryRefusalCounts` is the invariant that `unreported` is the difference of the two
  counters; it needs the difference to be below their range, which is why 2^32 refusals in a window are excluded. `ProbesAreThrottled` needs that
  each line about a refusal since another task's came a window after the one before.
- **Link** (`LinkProof`). `ARetryIsPending` is inductive with the types: each handler that takes the last event either connects or
  starts the timer. `RebootsAreJustified` and `FaultsAreCaught` need an invariant that follows the supervisor's view of the link
  through a tick: before and after the check, during the grace period, and with the outage since the driver's report ahead of the counted one by
  at most the time to the first check. It ties the two views of the link together: `s_connected` differs from what the driver has reported only while a
  report waits in `events`, and none does at a tick. The first theorem exempts a reboot from a torn heartbeat, the second an outage the driver does not report.

Every invariant of the passing runs is stated by a theorem, and so are the three action properties and the three
refinements. Only model-checked: the liveness properties
(`CallReturns`, `PollerCycles`, `RequestsAnswered`, `TrialEnds`, `UploadEnds`, `Reachable`), since fairness is outside what the prover does, and the findings
of section 5, which are counterexamples. The three theorems `DriverImplementsService`, `PollerImplementsCache` and `HealthyStays` are conditional, on `QuietBus` or
`Margin > 1`, and so are the properties that name `QuietBus` themselves; the runs `bus_quiet`, `poller`, `api` and `ota` are instances where the condition holds.

## 5. Where code and documents disagree

1. `ReadBeforeValid` (`poller_late`). A reply that misses its deadline can arrive after the flush of the next transaction.
   Nothing in an FC03 reply names its register, so a next read of equal length takes it, and the poll task stores it
   under a register that was never read, which `poller.h:35-36` excludes. Spans 25 and 325 have equal length and are
   adjacent.
2. `SilentWhenSuspended` (`poller_silent`). `docs/FIRMWARE.md:175` says that with polling disabled the board never
   transmits. The handlers of `/api/registers` and `/api/setpoint` do not look at the flag, and the poll task finishes its
   loop; `SuspendDrains` is what does hold.
3. `ExceptionIsOwn` (`api_exception`). `aurora_last_exception()` is read after `s_lock` is given back, so it can be the poll
   task's, although `aurora_modbus.h:37-40` promises the most recent one of the caller.
4. `ReachableIsKept` (`ota_bus_dead`). `docs/FIRMWARE.md:93-96` says confirmation depends on WiFi and API and not on a poll;
   `confirm_task` waits for one when polling is enabled, as its own comment says, and the watchdog reverts the image. (The
   same document says at line 100 that the watchdog waits three minutes; `main.c:41` makes it seven.)
5. `RefusalsClose` (`ota_refused`). `api.c:96-102` and `auth.h:18-29` say that a failure before the body has been read must close
   the socket, since the server otherwise reads the body for as long as the client sends it. `ota_post_handler()` answers a refused
   `esp_ota_begin()`, a lack of memory or a failed write with `json_reply()`, which returns `ESP_OK`; during a trial every upload is
   refused that way. Only a client with the key gets so far, and its next pause of `recv_wait_timeout` ends it.

## 6. Not modelled

Bytes on the wire and the CRC polynomial; the text of JSON; TLS; that comparing a token takes the same time whatever it is; mDNS, log levels and
certificates; health, which reads counters of the other components and whose answer decides nothing; the web
page and the provisioning scripts. The simulator is a test double of the ABC in Python, with floating-point physics, and no part of the gateway: the ABC of
these models may answer anything the protocol allows, which includes what the simulator answers. What lies under the firmware is
modelled from how it is used: FreeRTOS mutexes, the UART driver, NVS, `esp_ota_ops`, the bootloader, the HTTP server's
single task. `s_cache` and the indices of the log are always accessed under their locks, so their
steps are atomic. An address lost while the station stays associated is not an outage to the supervisor: `IP_EVENT_STA_LOST_IP` is not
subscribed to. It and a driver wedged while online are steps of `Link`, but no property counts such an outage. How long a purge of a body lasts is the client's affair; the
length of a loop, hence by how much `age_s` falls short of a word's age, is not measured, only bounded by one loop.

## 7. Plan

Done, in this order: `AuroraModbus`, `RegisterService`, `Poller`, `Api`, `Ota`, `LogRing`, `Link` and their proofs; then `Status`, `Auth` and its
proofs, request bodies in `Api`, refused uploads in `Ota`, `api_start()` and the torn heartbeat in `Link`.

Then the proofs about `Status` and `Api`, `HealthyStays` and the types of `Ota`, and the refinement of `RegisterService`.

Then `ZonesAreReal` for any table of zones; `RegisterCache` and `UpdateService` and the proofs that the poller and the updates
implement them; the invariants of the bus, the poller and the zones for the whole server.

Done last: the age dated where the code dates it; the steps of a mode request one by one, and what `/api/mode` tells; bodies of any request and their purge; the end of
the idle wait on a busy line; an image whose state cannot be read; the outages of `Link` by the driver's reports instead of `s_connected`.

Next: a refinement for the settings (a flag that is set, or not, across failing commits) and one for the log (a tail with a dump). A module with the driver, the API and `Ota` together would add little: they share the server task, so an upload and a
write never overlap.
