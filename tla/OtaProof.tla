--------------------------------- MODULE OtaProof ---------------------------------
(***************************************************************************)
(* Proofs about Ota: whatever is uploaded and wherever the board is reset, *)
(* there is a whole image to boot; a trial never puts its own fallback at  *)
(* risk; and the watchdog never catches an image that proved itself in     *)
(* time.                                                                   *)
(***************************************************************************)
EXTENDS Ota, TLAPS

Settled == {"undefined", "valid"}

\* The slots, and how far the upload is.
SlotsOK ==
  /\ content \in [Slots -> {"whole", "torn"}]
  /\ imgState \in [Slots -> {"undefined", "new", "pending", "valid", "aborted"}]
  /\ boot \in Slots /\ running \in Slots
  /\ upload \in {"idle", "receive", "select", "restart", "purge"}

\* The inductive invariant.  The running image is whole and settled, or on
\* trial with a settled fallback; nothing is uploaded during a trial; and the
\* other slot is selected only once it is whole.
SlotsInv ==
  /\ SlotsOK
  /\ content[running] = "whole"
  /\ imgState[running] \in Settled \cup {"pending"}
  /\ FallbackKept
  /\ upload \in {"receive", "select", "restart"} => ~Pending
  /\ upload \in {"select", "restart"} => content[Other(running)] = "whole"
  /\ upload # "restart" => boot = running
  /\ upload = "restart" => boot = Other(running) /\ imgState[boot] = "new"

\* There are two slots.
LEMMA OtherSlot ==
  ASSUME NEW s \in Slots
  PROVE  Other(s) \in Slots /\ Other(s) # s /\ Other(Other(s)) = s
BY DEF Slots, Other

\* The board is flashed over USB once, into ota_0.
LEMMA InitSlots == OtaInit => SlotsInv
BY DEF OtaInit, SlotsInv, SlotsOK, FallbackKept, Pending, Settled, Slots, Other

\* A reset at any moment finds a whole image, whichever way the bootloader goes.
LEMMA ResetSlots ==
  ASSUME SlotsInv, Reset
  PROVE  SlotsInv'
<1>1. CASE RollBack
  BY <1>1, OtherSlot DEF RollBack, Fresh, SlotsInv, SlotsOK, FallbackKept, Pending, Settled
<1>2. CASE BootNew
  BY <1>2, OtherSlot DEF BootNew, Fresh, SlotsInv, SlotsOK, FallbackKept, Pending, Settled
<1>3. CASE BootAgain
  BY <1>3, OtherSlot DEF BootAgain, Fresh, SlotsInv, SlotsOK, FallbackKept, Pending, Settled
<1> QED BY <1>1, <1>2, <1>3 DEF Reset

\* A step that touches neither the slots nor the upload.
LEMMA StillSlots ==
  ASSUME SlotsInv, UNCHANGED <<flash, upload>>
  PROVE  SlotsInv'
BY DEF flash, SlotsInv, SlotsOK, FallbackKept, Pending

\* Giving an upload up leaves the slots as they are.
LEMMA GiveUpSlots ==
  ASSUME SlotsInv, GiveUp, upload # "restart"
  PROVE  SlotsInv'
BY DEF GiveUp, flash, SlotsInv, SlotsOK, FallbackKept, Pending

\* Every step keeps the slots in order.
LEMMA NextSlots == SlotsInv /\ [OtaNext]_otaVars => SlotsInv'
<1> SUFFICES ASSUME SlotsInv, [OtaNext]_otaVars
             PROVE  SlotsInv'
  OBVIOUS
<1>1. CASE Reset \/ WatchdogReset \/ UploadRestart
  BY <1>1, ResetSlots DEF WatchdogReset, UploadRestart
<1>2. CASE Tick \/ ApiUp \/ PollSucceeds \/ SetPolling \/ WatchdogWake
  BY <1>2, StillSlots DEF Tick, ApiUp, PollSucceeds, SetPolling, WatchdogWake, transfer
<1>3. CASE ConfirmWake
  <2>1. CASE UNCHANGED imgState
    BY <1>3, <2>1, StillSlots DEF ConfirmWake, flash, transfer
  <2>2. CASE imgState' = [imgState EXCEPT ![running] = "valid"]
    BY <1>3, <2>2, OtherSlot
    DEF ConfirmWake, transfer, SlotsInv, SlotsOK, FallbackKept, Pending, Settled
  <2> QED BY <1>3, <2>1, <2>2 DEF ConfirmWake, MarkValid
<1>4. ASSUME NEW n \in 1..MaxLen, UploadBegin(n)
      PROVE  SlotsInv'
  BY <1>4, OtherSlot
  DEF UploadBegin, LeaveBody, Target, SlotsInv, SlotsOK, FallbackKept, Pending, Settled
<1>5. CASE UploadReceive
  BY <1>5, StillSlots DEF UploadReceive
<1>6. CASE UploadTimeout
  BY <1>6, StillSlots, GiveUpSlots DEF UploadTimeout
<1>7. CASE UploadFails \/ Purge
  <2>1. CASE GiveUp /\ upload = "receive"
    BY <2>1, GiveUpSlots
  <2>2. CASE /\ UNCHANGED flash
             /\ upload' \in {"purge", "idle"} /\ upload \in {"receive", "purge"}
    BY <2>2 DEF flash, SlotsInv, SlotsOK, FallbackKept, Pending
  <2> QED BY <1>7, <2>1, <2>2 DEF UploadFails, Purge, LeaveBody
<1>8. CASE UploadEnd
  <2>1. CASE GiveUp
    BY <1>8, <2>1, GiveUpSlots DEF UploadEnd
  <2>2. CASE /\ content' = [content EXCEPT ![Target] = "whole"]
             /\ upload' = "select"
             /\ UNCHANGED <<imgState, boot, running>>
    BY <1>8, <2>2, OtherSlot
    DEF UploadEnd, Target, SlotsInv, SlotsOK, FallbackKept, Pending, Settled
  <2> QED BY <1>8, <2>1, <2>2 DEF UploadEnd, Accepted
<1>9. CASE UploadSelect
  <2>1. CASE GiveUp
    BY <1>9, <2>1, GiveUpSlots DEF UploadSelect
  <2>2. CASE /\ boot' = Target
             /\ imgState' = [imgState EXCEPT ![Target] = "new"]
             /\ upload' = "restart"
             /\ UNCHANGED <<content, running>>
    BY <1>9, <2>2, OtherSlot
    DEF UploadSelect, Target, SlotsInv, SlotsOK, FallbackKept, Pending, Settled
  <2> QED BY <1>9, <2>1, <2>2 DEF UploadSelect
<1>10. CASE UNCHANGED otaVars
  BY <1>10, StillSlots DEF otaVars, transfer
<1> QED
  BY <1>1, <1>2, <1>3, <1>4, <1>5, <1>6, <1>7, <1>8, <1>9, <1>10
  DEF OtaNext, UploadGoesOn

\* The inductive invariant holds for every length of a trial and of an upload.
THEOREM SlotsInOrder == OtaSpec => []SlotsInv
<1>1. OtaInit => SlotsInv
  BY InitSlots
<1>2. SlotsInv /\ [OtaNext]_otaVars => SlotsInv'
  BY NextSlots
<1> QED BY <1>1, <1>2, PTL DEF OtaSpec

\* ota_post_handler() never leaves the board without a whole image to boot: not
\* by a truncated, stalled or corrupt upload, nor by a reset during one.
THEOREM AlwaysAnImage == OtaSpec => []AlwaysBootable
<1>1. SlotsInv => AlwaysBootable
  BY DEF SlotsInv, AlwaysBootable
<1> QED BY <1>1, SlotsInOrder, PTL

\* An image on trial always has a whole, settled image to fall back to.
THEOREM AlwaysAFallback == OtaSpec => []FallbackKept
<1>1. SlotsInv => FallbackKept
  BY DEF SlotsInv
<1> QED BY <1>1, SlotsInOrder, PTL

---------------------------------------------------------------------------
(* The race of confirm_task and the watchdog. *)

ClockOK ==
  /\ uptime \in 0..RollbackTimeout /\ waited \in 0..RollbackTimeout
  /\ due \subseteq {"watchdog", "confirm"}
  /\ wdt \in {"off", "armed", "expired"} /\ confirm \in {"off", "holding"}
  /\ reachedAt \in 0..Never /\ readyAt \in 0..Never

HealthOK ==
  /\ marked \in BOOLEAN /\ needPoll \in BOOLEAN /\ misread \in BOOLEAN /\ api \in BOOLEAN
  /\ polling \in BOOLEAN /\ polled \in BOOLEAN

TransferOK == remaining \in 0..MaxLen /\ stalls \in 0..StallLimit

\* The watchdog counts the ticks since boot, less the one it is about to count.
WatchdogInv ==
  /\ wdt = "armed" =>
       /\ waited < RollbackTimeout
       /\ IF "watchdog" \in due THEN waited + 1 = uptime ELSE waited = uptime
  /\ wdt = "expired" => uptime = RollbackTimeout
  /\ "watchdog" \in due => wdt = "armed"

\* An image that was ready in time is released at the next tick at the latest.
ConfirmInv ==
  /\ ~api => readyAt = Never /\ confirm = "off"
  /\ confirm = "holding" /\ readyAt # Never => (needPoll => polled)
  /\ confirm = "holding" /\ readyAt <= ConfirmMinUptime /\ uptime > ConfirmMinUptime =>
       uptime = ConfirmMinUptime + 1 /\ "confirm" \in due

TrialInv == ClockOK /\ HealthOK /\ TransferOK /\ WatchdogInv /\ ConfirmInv

LEMMA Times ==
  /\ ConfirmMinUptime \in Nat \ {0} /\ Margin \in Nat \ {0}
  /\ RollbackTimeout = ConfirmMinUptime + Margin /\ RollbackTimeout \in Nat \ {0}
  /\ Never = RollbackTimeout + 1 /\ Never \in Nat
  /\ MaxLen \in Nat /\ StallLimit \in Nat /\ OtaChunk \in Nat \ {0}
BY OtaAssumption DEF RollbackTimeout, Never

\* What a boot starts with.
LEMMA FreshTrial ==
  ASSUME NEW onTrial \in BOOLEAN, TrialInv, Fresh(onTrial), misread' \in BOOLEAN
  PROVE  TrialInv'
<1>1. ClockOK' /\ TransferOK'
  BY Times DEF Fresh, ClockOK, TransferOK
<1>2. HealthOK'
  BY DEF Fresh, TrialInv, HealthOK
<1>3. WatchdogInv' /\ ConfirmInv'
  <2>1. /\ uptime' = 0 /\ waited' = 0 /\ due' = {} /\ wdt' \in {"armed", "off"}
        /\ confirm' = "off" /\ readyAt' = Never
    BY DEF Fresh
  <2>2. WatchdogInv'
    <3>1. "watchdog" \notin due' /\ wdt' # "expired" /\ waited' = uptime' /\ uptime' = 0
      BY <2>1
    <3>2. 0 < RollbackTimeout
      BY Times
    <3> QED BY <3>1, <3>2 DEF WatchdogInv
  <2>3. ConfirmInv'
    BY <2>1 DEF ConfirmInv
  <2> QED BY <2>2, <2>3
<1> QED BY <1>1, <1>2, <1>3 DEF TrialInv

LEMMA InitTrial == OtaInit => TrialInv
<1> SUFFICES ASSUME OtaInit
             PROVE  TrialInv
  OBVIOUS
<1>1. ClockOK /\ TransferOK
  BY Times DEF OtaInit, ClockOK, TransferOK
<1>2. HealthOK
  BY Zenon DEF OtaInit, HealthOK
<1>3. WatchdogInv /\ ConfirmInv
  BY Times DEF OtaInit, WatchdogInv, ConfirmInv
<1> QED BY <1>1, <1>2, <1>3 DEF TrialInv

LEMMA TickTrial ==
  ASSUME TrialInv, Tick
  PROVE  TrialInv'
<1> USE DEF TrialInv
<1>1. /\ due = {} /\ uptime' = (IF uptime < RollbackTimeout THEN uptime + 1 ELSE uptime)
      /\ ("watchdog" \in due' <=> wdt = "armed") /\ ("confirm" \in due' <=> confirm = "holding")
      /\ due' \subseteq {"watchdog", "confirm"}
      /\ UNCHANGED <<marked, wdt, waited, confirm, needPoll, misread, api, polling, polled,
                     reachedAt, readyAt, remaining, stalls>>
  BY DEF Tick, trial, health, transfer
<1>2. ClockOK' /\ HealthOK' /\ TransferOK'
  BY <1>1, Times DEF ClockOK, HealthOK, TransferOK
<1>3. WatchdogInv'
  BY <1>1, Times DEF ClockOK, WatchdogInv
<1>4. ConfirmInv'
  BY <1>1, Times DEF ClockOK, ConfirmInv
<1> QED BY <1>2, <1>3, <1>4

LEMMA ApiUpTrial ==
  ASSUME TrialInv, ApiUp
  PROVE  TrialInv'
<1> USE DEF TrialInv
<1>1. /\ ~api /\ api' = TRUE /\ reachedAt' = uptime
      /\ readyAt = Never /\ confirm = "off"
      /\ UNCHANGED <<uptime, due, marked, wdt, waited, polling, polled, remaining, stalls>>
  BY DEF ApiUp, clock, transfer, ConfirmInv
<1>6. misread' \in BOOLEAN
  BY DEF ApiUp, Answers, HealthOK
<1>2. \/ confirm' = "off" /\ UNCHANGED <<needPoll, readyAt>>
      \/ /\ confirm' = "holding" /\ needPoll' = polling
         /\ \/ readyAt' = Never
            \/ readyAt' = uptime /\ (polling => polled)
  BY <1>1 DEF ApiUp, Proved, Noted
<1>3. ClockOK' /\ HealthOK' /\ TransferOK'
  <2>1. ClockOK' /\ TransferOK'
    BY <1>1, <1>2, Times DEF ClockOK, TransferOK
  <2>2. HealthOK'
    BY <1>1, <1>2, <1>6 DEF HealthOK
  <2> QED BY <2>1, <2>2
<1>4. WatchdogInv'
  BY <1>1 DEF WatchdogInv
<1>5. ConfirmInv'
  BY <1>1, <1>2, Times DEF ClockOK, ConfirmInv
<1> QED BY <1>3, <1>4, <1>5

LEMMA PollSucceedsTrial ==
  ASSUME TrialInv, PollSucceeds
  PROVE  TrialInv'
<1> USE DEF TrialInv
<1>1. /\ polled' = TRUE
      /\ readyAt' \in {readyAt, uptime} /\ (readyAt' # readyAt => readyAt = Never)
      /\ confirm = "off" => readyAt' = readyAt
      /\ UNCHANGED <<uptime, due, marked, wdt, waited, confirm, needPoll, misread, api, polling,
                     reachedAt, remaining, stalls>>
  BY DEF PollSucceeds, Noted, clock, trial, transfer
<1>2. ClockOK' /\ TransferOK'
  BY <1>1, Times DEF ClockOK, TransferOK
<1>3. HealthOK'
  BY <1>1 DEF HealthOK
<1>4. WatchdogInv'
  BY <1>1 DEF WatchdogInv
<1>5. ConfirmInv'
  BY <1>1, Times DEF ClockOK, ConfirmInv
<1> QED BY <1>2, <1>3, <1>4, <1>5

LEMMA ConfirmWakeTrial ==
  ASSUME TrialInv, ConfirmWake
  PROVE  TrialInv'
<1> USE DEF TrialInv
<1>1. /\ due' = due \ {"confirm"} /\ confirm' \in {confirm, "off"} /\ marked' \in {marked, TRUE}
      /\ misread' \in {misread, TRUE}
      /\ uptime >= ConfirmMinUptime /\ (needPoll => polled) => confirm' = "off"
      /\ UNCHANGED <<uptime, wdt, waited, needPoll, api, polling, polled, reachedAt, readyAt,
                     remaining, stalls>>
  BY DEF ConfirmWake, MarkValid, Answers, Proved, health, transfer
<1>2. ClockOK' /\ TransferOK'
  BY <1>1 DEF ClockOK, TransferOK
<1>3. HealthOK'
  BY <1>1 DEF HealthOK
<1>4. WatchdogInv'
  BY <1>1 DEF WatchdogInv
<1>5. ConfirmInv'
  BY <1>1, Times DEF ClockOK, ConfirmInv
<1> QED BY <1>2, <1>3, <1>4, <1>5

LEMMA WatchdogWakeTrial ==
  ASSUME TrialInv, WatchdogWake
  PROVE  TrialInv'
<1> USE DEF TrialInv
<1>1. /\ "watchdog" \in due /\ due' = due \ {"watchdog"} /\ waited' = waited + 1
      /\ wdt' \in {"expired", "off", "armed"}
      /\ wdt' = "expired" <=> waited' >= RollbackTimeout
      /\ misread' \in {misread, TRUE}
      /\ UNCHANGED <<uptime, marked, confirm, needPoll, api, polling, polled, reachedAt,
                     readyAt, remaining, stalls>>
  BY DEF WatchdogWake, Answers, health, transfer
<1>2. waited' = uptime /\ wdt = "armed"
  BY <1>1 DEF WatchdogInv, ClockOK
<1>3. ClockOK' /\ TransferOK' /\ HealthOK'
  BY <1>1, <1>2 DEF ClockOK, TransferOK, HealthOK
<1>4. WatchdogInv'
  BY <1>1, <1>2, Times DEF ClockOK, WatchdogInv
<1>5. ConfirmInv'
  BY <1>1 DEF ConfirmInv
<1> QED BY <1>3, <1>4, <1>5

\* The upload does not touch the race.
LEMMA UploadTrial ==
  ASSUME TrialInv, remaining' \in 0..MaxLen, stalls' \in 0..StallLimit,
         UNCHANGED <<clock, trial, health>>
  PROVE  TrialInv'
<1>1. UNCHANGED <<uptime, due, marked, wdt, waited, confirm, needPoll, misread, api, polling,
                  polled, reachedAt, readyAt>>
  BY DEF clock, trial, health
<1> QED BY <1>1 DEF TrialInv, ClockOK, HealthOK, TransferOK, WatchdogInv, ConfirmInv

LEMMA NextTrial == TrialInv /\ [OtaNext]_otaVars => TrialInv'
<1> SUFFICES ASSUME TrialInv, [OtaNext]_otaVars
             PROVE  TrialInv'
  OBVIOUS
<1>0. remaining \in 0..MaxLen /\ stalls \in 0..StallLimit
  BY DEF TrialInv, TransferOK
<1>1. CASE Reset \/ WatchdogReset \/ UploadRestart
  <2>1. \E read \in BOOLEAN : Fresh(read) /\ misread' \in BOOLEAN
    BY <1>1 DEF WatchdogReset, UploadRestart, Reset, RollBack, BootNew, BootAgain
  <2> QED BY <2>1, FreshTrial
<1>2. CASE SetPolling
  <2>1. /\ polling' \in BOOLEAN
        /\ UNCHANGED <<uptime, due, marked, wdt, waited, confirm, needPoll, misread, api, polled,
                       reachedAt, readyAt, remaining, stalls>>
    BY <1>2 DEF SetPolling, TrialInv, HealthOK, clock, trial, transfer
  <2> QED BY <2>1 DEF TrialInv, ClockOK, HealthOK, TransferOK, WatchdogInv, ConfirmInv
<1>3. ASSUME NEW n \in 1..MaxLen, UploadBegin(n)
      PROVE  TrialInv'
  BY <1>3, UploadTrial, Times DEF UploadBegin, LeaveBody
<1>4. CASE GiveUp
  BY <1>4, UploadTrial, Times DEF GiveUp
<1>5. CASE UploadReceive
  <2>1. PICK got \in 1..Want : remaining' = remaining - got
    BY <1>5 DEF UploadReceive
  <2>2. Want <= remaining /\ Want \in Int
    BY <1>0, Times DEF Want
  <2> QED BY <1>0, <1>5, <2>1, <2>2, UploadTrial, Times DEF UploadReceive
<1>6. CASE UploadTimeout
  BY <1>0, <1>4, <1>6, UploadTrial, Times DEF UploadTimeout
<1>7. CASE UploadFails
  <2>1. CASE \E got \in 1..Want : LeaveBody(remaining - got)
    <3>1. PICK got \in 1..Want : LeaveBody(remaining - got)
      BY <2>1
    <3>2. Want <= remaining /\ Want \in Int
      BY <1>0, Times DEF Want
    <3>3. UNCHANGED <<clock, trial, health>>
      BY <1>7 DEF UploadFails, GiveUp
    <3> QED BY <1>0, <3>1, <3>2, <3>3, UploadTrial, Times DEF LeaveBody
  <2> QED BY <1>4, <1>7, <2>1 DEF UploadFails
<1>8. CASE Purge
  <2>1. PICK left \in 0..remaining - 1 : LeaveBody(left)
    BY <1>8 DEF Purge
  <2> QED BY <1>0, <1>8, <2>1, UploadTrial, Times DEF Purge, LeaveBody
<1>9. CASE UploadEnd \/ UploadSelect
  <2>1. CASE UNCHANGED <<clock, trial, health, remaining, stalls>>
    BY <1>0, <2>1, UploadTrial
  <2> QED BY <1>4, <1>9, <2>1 DEF UploadEnd, UploadSelect
<1>10. CASE UNCHANGED otaVars
  BY <1>0, <1>10, UploadTrial DEF otaVars, transfer
<1> QED
  BY <1>1, <1>2, <1>3, <1>5, <1>6, <1>7, <1>8, <1>9, <1>10, TickTrial, ApiUpTrial,
     PollSucceedsTrial, ConfirmWakeTrial, WatchdogWakeTrial
  DEF OtaNext, UploadGoesOn

\* The state of the slots, the trial and the upload is well typed.
THEOREM OtaTypeCorrect == OtaSpec => []OtaTypeOK
<1>1. OtaInit => TrialInv
  BY InitTrial
<1>2. TrialInv /\ [OtaNext]_otaVars => TrialInv'
  BY NextTrial
<1>3. SlotsInv /\ TrialInv => OtaTypeOK
  BY DEF SlotsInv, SlotsOK, TrialInv, ClockOK, HealthOK, TransferOK, OtaTypeOK
<1> QED BY <1>1, <1>2, <1>3, SlotsInOrder, PTL DEF OtaSpec

\* rollback_watchdog_task() never resets an image that confirm_task could have
\* released in time, if ROLLBACK_TIMEOUT_MS leaves confirm_task more than one of
\* its own delays after CONFIRM_MIN_UPTIME_S.
THEOREM HealthyStays == OtaSpec => [](Margin > 1 => HealthyIsKept)
<1>1. OtaInit => TrialInv
  BY InitTrial
<1>2. TrialInv /\ [OtaNext]_otaVars => TrialInv'
  BY NextTrial
<1>3. TrialInv => (Margin > 1 => HealthyIsKept)
  BY Times DEF TrialInv, ClockOK, WatchdogInv, ConfirmInv, HealthyIsKept
<1> QED BY <1>1, <1>2, <1>3, PTL DEF OtaSpec

---------------------------------------------------------------------------
(* Every step is one of an update as ota.h describes it, or none. *)

\* What the upload and confirm_task know, beyond the slots: the slot being
\* written is torn, and both run only where the API does.
ReachedInv ==
  /\ upload = "receive" => content[Other(running)] = "torn"
  /\ upload # "idle" => api
  /\ confirm = "holding" \/ "confirm" \in due => api

UpdateInv == SlotsInv /\ ReachedInv

LEMMA ReachedInit == OtaInit => ReachedInv
BY Zenon DEF OtaInit, ReachedInv

\* A boot starts without an upload or confirm_task.
LEMMA FreshReached ==
  ASSUME NEW onTrial, Fresh(onTrial)
  PROVE  ReachedInv'
BY DEF Fresh, ReachedInv

LEMMA ReachedNext == UpdateInv /\ [OtaNext]_otaVars => ReachedInv'
<1> SUFFICES ASSUME SlotsInv, ReachedInv, [OtaNext]_otaVars
             PROVE  ReachedInv'
  BY DEF UpdateInv
<1>1. CASE Reset \/ WatchdogReset \/ UploadRestart
  BY <1>1, FreshReached DEF WatchdogReset, UploadRestart, Reset, RollBack, BootNew, BootAgain
<1>2. CASE Tick
  BY <1>2 DEF Tick, flash, trial, health, transfer, ReachedInv
<1>3. CASE ApiUp
  BY <1>3 DEF ApiUp, flash, clock, transfer, ReachedInv
<1>4. CASE PollSucceeds \/ SetPolling
  BY <1>4 DEF PollSucceeds, SetPolling, flash, clock, trial, transfer, ReachedInv
<1>5. CASE ConfirmWake \/ WatchdogWake
  BY <1>5 DEF ConfirmWake, MarkValid, WatchdogWake, flash, health, transfer, ReachedInv
<1>6. ASSUME NEW n \in 1..MaxLen, UploadBegin(n)
      PROVE  ReachedInv'
  BY <1>6, OtherSlot
  DEF UploadBegin, LeaveBody, Target, clock, trial, health, ReachedInv, SlotsInv, SlotsOK
<1>7. CASE UploadReceive \/ UploadTimeout \/ UploadFails \/ Purge
  BY <1>7
  DEF UploadReceive, UploadTimeout, UploadFails, Purge, GiveUp, LeaveBody, flash, clock, trial,
      health, ReachedInv
<1>8. CASE UploadEnd \/ UploadSelect
  BY <1>8
  DEF UploadEnd, Accepted, UploadSelect, GiveUp, flash, clock, trial, health, ReachedInv
<1>9. CASE UNCHANGED otaVars
  BY <1>9 DEF otaVars, flash, clock, trial, health, transfer, ReachedInv
<1> QED
  BY <1>1, <1>2, <1>3, <1>4, <1>5, <1>6, <1>7, <1>8, <1>9 DEF OtaNext, UploadGoesOn

\* The two modules mean the same slot by the other one.
LEMMA SameOther == \A s : Updates!Other(s) = Other(s)
BY DEF Updates!Other, Other

\* A step that shows nothing of itself in the slots.
LEMMA Unseen ==
  ASSUME UNCHANGED <<content, imgState, running, api>>,
         \/ UNCHANGED upload
         \/ upload \notin {"select", "restart"} /\ upload' \notin {"select", "restart"}
  PROVE  UNCHANGED Updates!updateVars
BY DEF Updates!updateVars, PhaseNow, SpareNow, Pending

\* The board starts as ota.h expects it.
LEMMA UpdateStart == OtaInit => Updates!Init
BY DEF OtaInit, Updates!Init, PhaseNow, SpareNow, Pending, Slots, Other

\* A reset starts a trial, ends it, or leaves the slots alone.
LEMMA UpdateReset ==
  ASSUME UpdateInv, Reset
  PROVE  Updates!Reset
<1> USE DEF UpdateInv
<1>1. /\ api' = FALSE /\ upload' = "idle" /\ content' = content
      /\ running \in Slots /\ Other(running) \in Slots
      /\ Other(running) # running /\ Other(Other(running)) = running
  BY OtherSlot DEF Reset, RollBack, BootNew, BootAgain, Fresh, SlotsInv, SlotsOK
<1>2. CASE BootNew
  <2>1. upload = "restart" /\ boot = Other(running) /\ running' = Other(running)
    BY <1>2 DEF BootNew, SlotsInv, Settled, Pending
  <2>2. ~Pending /\ content[Other(running)] = "whole" /\ content[running] = "whole"
    BY <2>1 DEF SlotsInv
  <2>3. Pending'
    BY <1>1, <1>2, <2>1 DEF BootNew, Pending, SlotsInv, SlotsOK
  <2>4. PhaseNow = "staged" /\ PhaseNow' = "trial" /\ SpareNow' = "kept"
    BY <1>1, <2>1, <2>2, <2>3 DEF PhaseNow, SpareNow
  <2> QED BY <1>1, <2>1, <2>4, SameOther DEF Updates!Reset
<1>3. CASE RollBack
  <2>1. upload # "restart" /\ boot = running /\ Pending /\ running' = Other(running)
    BY <1>3 DEF RollBack, SlotsInv, Pending
  <2>2. /\ content[Other(running)] = "whole" /\ content[running] = "whole"
        /\ imgState[Other(running)] # "pending" /\ upload \notin {"select", "restart"}
    BY <2>1 DEF SlotsInv, FallbackKept
  <2>3. ~Pending'
    BY <1>1, <1>3, <2>1, <2>2 DEF RollBack, Pending, SlotsInv, SlotsOK
  <2>4. /\ PhaseNow = "trial" /\ PhaseNow' = "settled"
        /\ SpareNow = "kept" /\ SpareNow' = "kept"
    BY <1>1, <2>1, <2>2, <2>3 DEF PhaseNow, SpareNow
  <2> QED BY <1>1, <2>1, <2>4, SameOther DEF Updates!Reset
<1>4. CASE BootAgain
  <2>1. upload # "restart" /\ boot = running /\ running' = running /\ imgState' = imgState
    BY <1>4 DEF BootAgain, SlotsInv
  <2>2. ~Pending /\ ~Pending'
    BY <1>4, <2>1 DEF BootAgain, Pending
  <2>3. /\ PhaseNow = "settled" /\ PhaseNow' = "settled"
        /\ SpareNow' = IF SpareNow = "fresh" THEN "kept" ELSE SpareNow
    BY <1>1, <2>1, <2>2 DEF PhaseNow, SpareNow
  <2> QED BY <1>1, <2>1, <2>3 DEF Updates!Reset
<1> QED BY <1>2, <1>3, <1>4 DEF Reset

\* confirm_task confirms an image on trial that is reachable.
LEMMA UpdateConfirm ==
  ASSUME UpdateInv, ConfirmWake
  PROVE  [Updates!Next]_Updates!updateVars
<1> USE DEF UpdateInv
<1>1. /\ api /\ api' = api
      /\ UNCHANGED <<content, running, upload>>
      /\ running \in Slots /\ Other(running) # running
  BY OtherSlot DEF ConfirmWake, ReachedInv, health, transfer, SlotsInv, SlotsOK
<1>2. CASE UNCHANGED imgState
  BY <1>1, <1>2, Unseen
<1>3. CASE imgState' = [imgState EXCEPT ![running] = "valid"]
  <2>1. ~Pending'
    BY <1>1, <1>3 DEF Pending, SlotsInv, SlotsOK
  <2>2. UNCHANGED SpareNow
    BY <1>1 DEF SpareNow
  <2>3. CASE Pending
    <3>1. PhaseNow = "trial" /\ PhaseNow' = "settled"
      BY <1>1, <2>1, <2>3 DEF PhaseNow, SlotsInv
    <3> QED BY <1>1, <2>2, <3>1 DEF Updates!Next, Updates!Confirm
  <2>4. CASE ~Pending
    <3>1. UNCHANGED PhaseNow
      BY <1>1, <2>1, <2>4 DEF PhaseNow
    <3> QED BY <1>1, <2>2, <3>1 DEF Updates!updateVars
  <2> QED BY <2>3, <2>4
<1> QED BY <1>2, <1>3 DEF ConfirmWake, MarkValid

\* The slot is erased before a byte of the upload is read.
LEMMA UpdateErase ==
  ASSUME UpdateInv, NEW n, UploadBegin(n)
  PROVE  [Updates!Next]_Updates!updateVars
<1> USE DEF UpdateInv
<1>1. /\ api /\ api' = api /\ upload = "idle" /\ upload' \notin {"select", "restart"}
      /\ UNCHANGED <<imgState, running>>
      /\ running \in Slots /\ Other(running) \in Slots
  BY OtherSlot DEF UploadBegin, LeaveBody, health, SlotsInv, SlotsOK
<1>2. CASE UNCHANGED content
  BY <1>1, <1>2, Unseen
<1>3. CASE ~Pending /\ content' = [content EXCEPT ![Target] = "torn"]
  <2>1. SpareNow' = "empty"
    BY <1>1, <1>3 DEF SpareNow, Target, SlotsInv, SlotsOK
  <2>2. PhaseNow = "settled" /\ PhaseNow' = "settled"
    BY <1>1, <1>3 DEF PhaseNow, Pending
  <2> QED BY <1>1, <2>1, <2>2 DEF Updates!Next, Updates!Erase
<1> QED BY <1>2, <1>3 DEF UploadBegin

\* The slot is filled when the image has been validated, and not before.
LEMMA UpdateFill ==
  ASSUME UpdateInv, UploadEnd
  PROVE  [Updates!Next]_Updates!updateVars
<1> USE DEF UpdateInv
<1>1. /\ api /\ api' = api /\ upload = "receive"
      /\ UNCHANGED <<imgState, running>>
      /\ running \in Slots /\ Other(running) \in Slots /\ ~Pending
      /\ content[Other(running)] = "torn"
  BY OtherSlot DEF UploadEnd, GiveUp, flash, health, SlotsInv, SlotsOK, ReachedInv
<1>2. CASE GiveUp
  BY <1>1, <1>2, Unseen DEF GiveUp, flash, health
<1>3. CASE content' = [content EXCEPT ![Target] = "whole"] /\ upload' = "select"
  <2>1. SpareNow = "empty" /\ SpareNow' = "fresh"
    BY <1>1, <1>3 DEF SpareNow, Target, SlotsInv, SlotsOK
  <2>2. PhaseNow = "settled" /\ PhaseNow' = "settled"
    BY <1>1, <1>3 DEF PhaseNow, Pending
  <2> QED BY <1>1, <2>1, <2>2 DEF Updates!Next, Updates!Fill
<1> QED BY <1>2, <1>3 DEF UploadEnd, Accepted

\* It is selected, or never run.
LEMMA UpdateSelect ==
  ASSUME UpdateInv, UploadSelect
  PROVE  [Updates!Next]_Updates!updateVars
<1> USE DEF UpdateInv
<1>1. /\ api /\ api' = api /\ upload = "select"
      /\ UNCHANGED <<content, running>>
      /\ running \in Slots /\ Other(running) # running /\ ~Pending
      /\ content[Other(running)] = "whole"
  BY OtherSlot DEF UploadSelect, GiveUp, flash, health, SlotsInv, SlotsOK, ReachedInv
<1>2. PhaseNow = "settled" /\ SpareNow = "fresh"
  BY <1>1 DEF PhaseNow, SpareNow
<1>3. CASE imgState' = [imgState EXCEPT ![Target] = "new"] /\ upload' = "restart"
  <2>1. ~Pending'
    BY <1>1, <1>3 DEF Pending, Target, SlotsInv, SlotsOK
  <2>2. PhaseNow' = "staged" /\ SpareNow' = "fresh"
    BY <1>1, <1>3, <2>1 DEF PhaseNow, SpareNow
  <2> QED BY <1>1, <1>2, <2>2 DEF Updates!Next, Updates!Select
<1>4. CASE GiveUp
  <2>1. ~Pending' /\ upload' = "idle"
    BY <1>1, <1>4 DEF GiveUp, flash, Pending
  <2>2. PhaseNow' = "settled" /\ SpareNow' = "kept"
    BY <1>1, <2>1 DEF PhaseNow, SpareNow
  <2> QED BY <1>1, <1>2, <2>2 DEF Updates!Next, Updates!Select
<1> QED BY <1>3, <1>4 DEF UploadSelect

LEMMA UpdateStep ==
  UpdateInv /\ [OtaNext]_otaVars => [Updates!Next]_Updates!updateVars
<1> SUFFICES ASSUME UpdateInv, [OtaNext]_otaVars
             PROVE  [Updates!Next]_Updates!updateVars
  OBVIOUS
<1>1. CASE Reset \/ WatchdogReset \/ UploadRestart
  BY <1>1, UpdateReset DEF WatchdogReset, UploadRestart, Updates!Next
<1>2. CASE Tick \/ PollSucceeds \/ SetPolling \/ WatchdogWake \/ UploadReceive
  BY <1>2, Unseen
  DEF Tick, PollSucceeds, SetPolling, WatchdogWake, UploadReceive, flash, health, transfer
<1>3. CASE ApiUp
  <2>1. ~api /\ api' = TRUE /\ UNCHANGED <<content, imgState, running, upload>>
    BY <1>3 DEF ApiUp, flash, transfer
  <2>2. UNCHANGED <<PhaseNow, SpareNow>>
    BY <2>1 DEF PhaseNow, SpareNow, Pending
  <2> QED BY <2>1, <2>2 DEF Updates!Next, Updates!Reach
<1>4. ASSUME NEW n \in 1..MaxLen, UploadBegin(n)
      PROVE  [Updates!Next]_Updates!updateVars
  BY <1>4, UpdateErase
<1>5. CASE UploadTimeout \/ UploadFails \/ Purge
  BY <1>5, Unseen DEF UploadTimeout, UploadFails, Purge, GiveUp, LeaveBody, flash, health
<1>6. CASE UNCHANGED otaVars
  BY <1>6, Unseen DEF otaVars, flash, health, transfer
<1> QED
  BY <1>1, <1>2, <1>3, <1>4, <1>5, <1>6, UpdateConfirm, UpdateFill, UpdateSelect
  DEF OtaNext, UploadGoesOn

\* ota.c, confirm_task and the bootloader implement the update that ota.h
\* describes, for every length of a trial and of an upload: what runs is a
\* complete image, first on trial, and it stays only if it was reachable.
THEOREM OtaImplementsUpdates == OtaSpec => ImplementsUpdates
<1>1. OtaInit => UpdateInv /\ Updates!Init
  BY InitSlots, ReachedInit, UpdateStart DEF UpdateInv
<1>2. UpdateInv /\ [OtaNext]_otaVars => UpdateInv'
  BY NextSlots, ReachedNext DEF UpdateInv
<1>3. UpdateInv /\ [OtaNext]_otaVars => [Updates!Next]_Updates!updateVars
  BY UpdateStep
<1> QED BY <1>1, <1>2, <1>3, PTL DEF OtaSpec, ImplementsUpdates, Updates!Spec
=============================================================================
