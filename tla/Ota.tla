----------------------------------- MODULE Ota -----------------------------------
(***************************************************************************)
(* Over-the-air updates with rollback: src/main/ota.c, and confirm_task()  *)
(* of src/main/main.c, which decides that a new image may stay.            *)
(*                                                                         *)
(* An upload fills the slot that is not running and selects it; the next   *)
(* boot runs it on trial.  During a trial confirm_task and the rollback    *)
(* watchdog race: the first marks the image valid, the second resets the   *)
(* board.  A power loss or a panic may reset it anywhere.                  *)
(*                                                                         *)
(* Time is in ticks, and every task whose delay is over runs within the    *)
(* tick, in any order.  The bootloader and esp_ota_ops are external: an    *)
(* image on trial that is booted again is given up for the other slot, and *)
(* esp_ota_begin() refuses to work during a trial.                         *)
(***************************************************************************)
EXTENDS Integers

CONSTANTS
  ConfirmMinUptime,   \* CONFIRM_MIN_UPTIME_S, in ticks
  Margin,             \* what ROLLBACK_TIMEOUT_MS adds to it
  OtaChunk,           \* OTA_CHUNK
  MaxLen,             \* bound: the longest upload
  StallLimit          \* receive timeouts in a row that make up OTA_STALL_S

ASSUME OtaAssumption ==
  /\ ConfirmMinUptime \in Nat \ {0} /\ Margin \in Nat \ {0}
  /\ OtaChunk \in Nat \ {0} /\ MaxLen \in Nat /\ StallLimit \in Nat

Slots == {"ota_0", "ota_1"}
Other(s) == IF s = "ota_0" THEN "ota_1" ELSE "ota_0"

VARIABLES
  content,    \* "whole" image or "torn" in each slot
  imgState,   \* esp_ota_img_states_t of each slot
  boot,       \* the slot the bootloader takes next
  running,    \* the slot the board is running
  uptime,     \* ticks since boot, up to RollbackTimeout
  due,        \* tasks whose delay is over
  marked,     \* s_marked_valid
  wdt,        \* rollback_watchdog_task: "off", "armed", about to reset
  waited,     \* its waited
  api,        \* WiFi and the API are up
  confirm,    \* confirm_task: "off" or "holding"
  needPoll,   \* its need_poll
  polling,    \* settings_polling_enabled(), persisted
  polled,     \* poller_stats_t.ever_succeeded
  upload,     \* where ota_post_handler is
  remaining,  \* its remaining
  stalls,     \* receive timeouts since last_progress_us
  misread,    \* history: the image's state could not be read since the board booted
  reachedAt,  \* history: uptime when the API came up
  readyAt     \* history: uptime when the image had proved itself

flash    == <<content, imgState, boot, running>>
clock    == <<uptime, due>>
trial    == <<marked, wdt, waited, confirm, needPoll, misread>>
health   == <<api, polling, polled, reachedAt, readyAt>>
transfer == <<upload, remaining, stalls>>
otaVars  == <<flash, clock, trial, health, transfer>>

RollbackTimeout_Short == ConfirmMinUptime - 1
RollbackTimeout == ConfirmMinUptime + Margin
Never == RollbackTimeout + 1

\* The running image is on trial.
Pending == imgState[running] = "pending"

\* ota_pending_verify(): what it answers; an image whose state cannot be read is
\* taken for one that is not on trial.
Answers(p) ==
  \/ p = Pending /\ UNCHANGED misread
  \/ p = FALSE /\ misread' = TRUE

---------------------------------------------------------------------------
(* Booting. *)

\* What app_main() starts with: the watchdog is armed if ota_pending_verify()
\* finds the image on trial.
Fresh(onTrial) ==
  /\ uptime' = 0 /\ due' = {}
  /\ marked' = FALSE /\ waited' = 0
  /\ wdt' = IF onTrial THEN "armed" ELSE "off"
  /\ confirm' = "off" /\ needPoll' = FALSE
  /\ api' = FALSE /\ polled' = FALSE
  /\ reachedAt' = Never /\ readyAt' = Never
  /\ upload' = "idle" /\ remaining' = 0 /\ stalls' = 0
  /\ UNCHANGED <<content, polling>>

\* The bootloader gives up an image that was on trial already.
RollBack ==
  /\ imgState[boot] = "pending"
  /\ imgState' = [imgState EXCEPT ![boot] = "aborted"]
  /\ boot' = Other(boot) /\ running' = Other(boot)
  /\ Fresh(FALSE) /\ misread' = FALSE

BootNew ==
  /\ imgState[boot] = "new"
  /\ imgState' = [imgState EXCEPT ![boot] = "pending"]
  /\ running' = boot
  /\ \E read \in BOOLEAN : Fresh(read) /\ misread' = ~read
  /\ UNCHANGED boot

BootAgain ==
  /\ imgState[boot] \notin {"new", "pending"}
  /\ running' = boot
  /\ Fresh(FALSE) /\ misread' = FALSE
  /\ UNCHANGED <<imgState, boot>>

Reset == RollBack \/ BootNew \/ BootAgain

---------------------------------------------------------------------------
(* Time and health. *)

\* A tick ends when every task whose delay was over has run.
Tick ==
  /\ due = {}
  /\ uptime' = IF uptime < RollbackTimeout THEN uptime + 1 ELSE uptime
  /\ due' = (IF wdt = "armed" THEN {"watchdog"} ELSE {})
            \cup (IF confirm = "holding" THEN {"confirm"} ELSE {})
  /\ UNCHANGED <<flash, trial, health, transfer>>

Proved(n, p) == n => p
Noted == IF readyAt = Never THEN uptime ELSE readyAt

\* WiFi has an address and api_start() succeeded; confirm_task starts, and
\* looks at the polling setting once.
ApiUp ==
  /\ ~api /\ api' = TRUE /\ reachedAt' = uptime
  /\ \E p \in BOOLEAN :
       /\ Answers(p)
       /\ IF p
            THEN /\ confirm' = "holding" /\ needPoll' = polling
                 /\ readyAt' = IF Proved(polling, polled) THEN Noted ELSE readyAt
            ELSE UNCHANGED <<confirm, needPoll, readyAt>>
  /\ UNCHANGED <<flash, clock, marked, wdt, waited, polling, polled, transfer>>

\* The first loop of the poll task that succeeds.
PollSucceeds ==
  /\ polling /\ ~polled /\ polled' = TRUE
  /\ readyAt' = IF confirm = "holding" THEN Noted ELSE readyAt
  /\ UNCHANGED <<flash, clock, trial, api, polling, reachedAt, transfer>>

\* POST /api/mode, between uploads.
SetPolling ==
  /\ api /\ upload = "idle"
  /\ polling' = ~polling
  /\ UNCHANGED <<flash, clock, trial, api, polled, reachedAt, readyAt, transfer>>

---------------------------------------------------------------------------
(* The trial. *)

\* ota_mark_valid(): nothing is left to mark if the state cannot be read, and
\* the flash may not take the mark.
MarkValid ==
  \/ /\ Answers(TRUE)
     /\ \/ imgState' = [imgState EXCEPT ![running] = "valid"] /\ marked' = TRUE
        \/ UNCHANGED <<imgState, marked>>
  \/ Answers(FALSE) /\ marked' = TRUE /\ UNCHANGED imgState

\* confirm_task wakes: after enough uptime, and a poll if it needs one, it
\* marks the image valid and ends, whatever came of the mark.
ConfirmWake ==
  /\ "confirm" \in due
  /\ due' = due \ {"confirm"}
  /\ IF uptime >= ConfirmMinUptime /\ Proved(needPoll, polled)
       THEN confirm' = "off" /\ MarkValid
       ELSE UNCHANGED <<confirm, imgState, marked, misread>>
  /\ UNCHANGED <<content, boot, running, uptime, wdt, waited, needPoll, health, transfer>>

StandsDown_WhenReachable(p) == marked \/ ~p \/ api
StandsDown(p) == marked \/ ~p

\* The watchdog wakes: when its time is over it does not look again, and when it
\* cannot read the state it gives the trial up for the rest of this boot.
WatchdogWake ==
  /\ "watchdog" \in due
  /\ due' = due \ {"watchdog"}
  /\ waited' = waited + 1
  /\ IF waited' >= RollbackTimeout
       THEN wdt' = "expired" /\ UNCHANGED misread
       ELSE \E p \in BOOLEAN :
              Answers(p) /\ wdt' = IF StandsDown(p) THEN "off" ELSE "armed"
  /\ UNCHANGED <<flash, uptime, marked, confirm, needPoll, health, transfer>>

\* 200 ms later: esp_restart().
WatchdogReset == wdt = "expired" /\ Reset

---------------------------------------------------------------------------
(* POST /api/ota *)

Target_Running == running
Target == Other(running)

\* An error response that leaves the socket open, with n bytes of the body
\* unread: esp_http_server reads them before it serves anybody else.
LeaveBody(n) ==
  /\ upload' = IF n > 0 THEN "purge" ELSE "idle"
  /\ remaining' = n /\ stalls' = 0

\* esp_ota_begin() erases the target, or refuses before it does, as it must
\* during a trial; after the erasure it may still fail, or there is no memory.
UploadBegin(n) ==
  /\ api /\ upload = "idle"
  /\ \/ /\ ~Pending
        /\ content' = [content EXCEPT ![Target] = "torn"]
        /\ \/ upload' = "receive" /\ remaining' = n /\ stalls' = 0
           \/ LeaveBody(n)
     \/ LeaveBody(n) /\ UNCHANGED content
  /\ UNCHANGED <<imgState, boot, running, clock, trial, health>>

\* esp_ota_abort(), an error response, and nothing left to read: the body is
\* read, or the socket is closed or dead.
GiveUp ==
  /\ upload' = "idle" /\ remaining' = 0 /\ stalls' = 0
  /\ UNCHANGED <<flash, clock, trial, health>>

Want_Chunk == OtaChunk
Want == IF remaining < OtaChunk THEN remaining ELSE OtaChunk

UploadReceive ==
  /\ upload = "receive" /\ remaining > 0
  /\ \E got \in 1..Want : remaining' = remaining - got
  /\ stalls' = 0
  /\ UNCHANGED <<flash, clock, trial, health, upload>>

Stalled_Never == FALSE
Stalled == stalls >= StallLimit

\* A receive times out: once more, unless there was no progress for too long.
UploadTimeout ==
  /\ upload = "receive" /\ remaining > 0
  /\ IF Stalled THEN GiveUp
     ELSE /\ stalls' = IF stalls < StallLimit THEN stalls + 1 ELSE stalls
          /\ UNCHANGED <<flash, clock, trial, health, upload, remaining>>

\* The socket fails, or the flash does not take the bytes just received.
UploadFails ==
  /\ upload = "receive" /\ remaining > 0
  /\ \/ GiveUp
     \/ /\ \E got \in 1..Want : LeaveBody(remaining - got)
        /\ UNCHANGED <<flash, clock, trial, health>>

\* The server reads what is left of the body, until a receive fails.
Purge ==
  /\ upload = "purge"
  /\ \E left \in 0..remaining - 1 : LeaveBody(left)
  /\ UNCHANGED <<flash, clock, trial, health>>

Accepted_Anyway(ok) == TRUE
Accepted(ok) == ok

\* esp_ota_end() validates what was written.
UploadEnd ==
  /\ upload = "receive" /\ remaining <= 0
  /\ \E ok \in BOOLEAN :
       IF Accepted(ok)
         THEN /\ content' = IF ok THEN [content EXCEPT ![Target] = "whole"] ELSE content
              /\ upload' = "select"
              /\ UNCHANGED <<imgState, boot, running, clock, trial, health, remaining, stalls>>
         ELSE GiveUp

\* esp_ota_set_boot_partition(): the response and 1200 ms follow.
UploadSelect ==
  /\ upload = "select"
  /\ \/ /\ boot' = Target
        /\ imgState' = [imgState EXCEPT ![Target] = "new"]
        /\ upload' = "restart"
        /\ UNCHANGED <<content, running, clock, trial, health, remaining, stalls>>
     \/ GiveUp

UploadRestart == upload = "restart" /\ Reset

\* What the server does even if the client never sends another byte.
UploadGoesOn == UploadTimeout \/ UploadEnd \/ UploadSelect \/ UploadRestart \/ Purge

---------------------------------------------------------------------------
OtaInit ==
  /\ content = [s \in Slots |-> IF s = "ota_0" THEN "whole" ELSE "torn"]
  /\ imgState = [s \in Slots |-> "undefined"]
  /\ boot = "ota_0" /\ running = "ota_0"
  /\ uptime = 0 /\ due = {}
  /\ marked = FALSE /\ waited = 0 /\ wdt = "off"
  /\ confirm = "off" /\ needPoll = FALSE /\ misread = FALSE
  /\ api = FALSE /\ polling \in BOOLEAN /\ polled = FALSE
  /\ reachedAt = Never /\ readyAt = Never
  /\ upload = "idle" /\ remaining = 0 /\ stalls = 0

OtaNext ==
  \/ Reset \/ Tick \/ ApiUp \/ PollSucceeds \/ SetPolling
  \/ ConfirmWake \/ WatchdogWake \/ WatchdogReset
  \/ \E n \in 1..MaxLen : UploadBegin(n)
  \/ UploadReceive \/ UploadFails \/ UploadGoesOn

(* Fairness: time passes, the tasks run when their delay is over, and       *)
(* httpd_req_recv() returns, at worst with a timeout.  WiFi, the ABC and    *)
(* the client owe nothing.                                                  *)
OtaFairness ==
  /\ WF_otaVars(Tick) /\ WF_otaVars(ConfirmWake)
  /\ WF_otaVars(WatchdogWake) /\ WF_otaVars(WatchdogReset)
  /\ WF_otaVars(UploadGoesOn)

OtaSpec == OtaInit /\ [][OtaNext]_otaVars /\ OtaFairness

---------------------------------------------------------------------------
OtaTypeOK ==
  /\ content \in [Slots -> {"whole", "torn"}]
  /\ imgState \in [Slots -> {"undefined", "new", "pending", "valid", "aborted"}]
  /\ boot \in Slots /\ running \in Slots
  /\ uptime \in 0..RollbackTimeout /\ due \subseteq {"watchdog", "confirm"}
  /\ wdt \in {"off", "armed", "expired"} /\ waited \in 0..RollbackTimeout
  /\ confirm \in {"off", "holding"}
  /\ \A b \in {marked, needPoll, misread, api, polling, polled} : b \in BOOLEAN
  /\ upload \in {"idle", "receive", "select", "restart", "purge"}
  /\ remaining \in 0..MaxLen /\ stalls \in 0..StallLimit
  /\ reachedAt \in 0..Never /\ readyAt \in 0..Never

\* Whenever the board is reset there is a whole image to boot: a truncated,
\* stalled or corrupt upload, or a power loss during one, never selects a slot
\* that is not complete.
AlwaysBootable == content[boot] = "whole"

\* While an image is on trial the previous one is still there to go back to:
\* whole, and not itself in doubt.
FallbackKept ==
  Pending => content[Other(running)] = "whole" /\ imgState[Other(running)] \in {"undefined", "valid"}

\* main.c:37-38: the watchdog never catches a healthy image that has not had
\* the time to prove itself; one that was ready when confirm_task first looks
\* is off trial by then, unless the flash refused the mark.  confirm_task must
\* have been able to read that there is a trial: if it could not, it has ended.
HealthyIsKept ==
  wdt = "expired" /\ Pending /\ readyAt <= ConfirmMinUptime => confirm = "off"

\* Every trial ends: the image is confirmed or the board is reset, even if it
\* never reaches WiFi or never polls, or the flash refuses the mark, as long as
\* the image's state can be read.  If a read fails (ota.c:27-29) the watchdog
\* is not armed, or stands down, and the trial may last until the next reset.
TrialEnds == Pending ~> (~Pending \/ misread)

\* Every upload ends, whatever the client does: the one task of the HTTP
\* server is never wedged by it.
UploadEnds == upload # "idle" ~> upload = "idle"

\* What the slots are to somebody who is updating the board.
PhaseNow == IF Pending THEN "trial" ELSE IF upload = "restart" THEN "staged" ELSE "settled"
SpareNow == IF content[Other(running)] = "torn" THEN "empty"
            ELSE IF upload \in {"select", "restart"} THEN "fresh" ELSE "kept"

Updates == INSTANCE UpdateService
  WITH current <- running, phase <- PhaseNow, spare <- SpareNow, healthy <- api

\* ota.h:4-8: the upload, the bootloader, confirm_task and the watchdog together,
\* reset at any point, do what the header says of an update: run nothing but a
\* complete image, on trial first, and keep it only when it is reachable.
ImplementsUpdates == Updates!Spec

\* FIRMWARE.md:93-96: confirmation is "not" tied "to a successful Modbus poll",
\* for that "would mean an unplugged RS-485 cable rolls back every new image":
\* an image that is reachable in time is off trial when the watchdog expires.
ReachableIsKept ==
  wdt = "expired" /\ Pending /\ reachedAt <= ConfirmMinUptime => confirm = "off"

\* api.c:96-102: "returning ESP_OK there would send IDF into its body-purge
\* loop", so close the socket, and "use send_error (keep-alive) only after the
\* body is fully consumed": a refused upload leaves the server nothing to read.
RefusalsClose == upload # "purge"
=============================================================================
