----------------------------------- MODULE Api -----------------------------------
(***************************************************************************)
(* The HTTP server of src/main/api.c and the settings of                   *)
(* src/main/settings.c, on top of the status page, the poll task and the   *)
(* driver.  One task serves one request at a time; a request that drives   *)
(* the bus blocks it in the driver, and every other task runs between its  *)
(* steps.  The board may reset at any moment and keeps only its flash.     *)
(*                                                                         *)
(* Who may ask is settled in Auth; here a request carries the key or not.  *)
(* Any request may come with a body, whether its handler reads one or not. *)
(***************************************************************************)
EXTENDS Status

CONSTANTS
  Queries,      \* reads /api/registers may be asked for
  Setpoints,    \* bodies of POST /api/setpoint, value in hundredths of a degree
  ModeBodies,   \* bodies of POST /api/mode
  NoBody        \* no mode change in progress

Flags == {"writes", "polling"}

\* What a mode body asks of a flag.
Wishes == {"keep", "on", "off"}

\* Where mode_post() is: a flag goes to flash, then to its variable in RAM, and
\* the poll task is told of it.
ModeStates == {"writes", "writesRam", "polling", "pollingRam", "apply", "moded"}

ASSUME HttpAssumption ==
  /\ Queries \subseteq {q \in Requests : q.fc = "read"}
  /\ Setpoints \subseteq [zone: Int, mode: {"cool", "heat", "other"}, value: Nat]
  /\ ModeBodies \subseteq [Flags -> Wishes]
  /\ NoBody \notin ModeBodies

VARIABLES
  body,     \* the mode change it is carrying out
  failed,   \* mode_post's err is not ESP_OK
  recent,   \* less than 500 ms since s_last_reg_us
  ram,      \* s_writes_enabled, s_polling_enabled
  nvs,      \* the flags in flash
  granted   \* history: what the last mode change that set a flag was granted, if any

apiVars  == <<body, failed, recent, ram, nvs, granted>>
httpVars == <<statusVars, apiVars>>
vars     == <<allStatusVars, apiVars>>

---------------------------------------------------------------------------
(* settings.c *)

\* put_flag(): a failure before nvs_set_u8() leaves the flash alone, a failed
\* commit leaves either value.
PutFlag(f, b, ok) ==
  \E kept \in IF ok THEN {b} ELSE {b, nvs[f]} : nvs' = [nvs EXCEPT ![f] = kept]

---------------------------------------------------------------------------
(* Before a handler gets to its own checks. *)

Closes_Never == FALSE
Closes == TRUE

\* auth_ok() has sent a 401 and the handler returns ESP_FAIL, or reject_close()
\* turns away a body that is empty, too long or cut short.  The other requests
\* that need the key are "guarded".
TurnAway(to, status) ==
  /\ http' = "answer"
  /\ reply' = [NoReply EXCEPT !.to = to, !.status = status,
                             !.unread = to \in Posts, !.close = Closes]
  /\ UNCHANGED <<allVars, page, apiVars>>

Unauthorized == http = "idle" /\ \E to \in Posts \cup {"guarded"} : TurnAway(to, 401)

BodyLengthBad == http = "idle" /\ \E to \in Posts : TurnAway(to, 400)

\* The handler receives the body, piece by piece.
PostBegins(to) ==
  /\ http = "idle"
  /\ http' = "body" /\ reply' = [NoReply EXCEPT !.to = to]
  /\ UNCHANGED <<allVars, page, apiVars>>

BodyCut == http = "body" /\ TurnAway(reply.to, 400)

\* The whole body is there.
Received(to) == http = "body" /\ reply.to = to

MayWrite_Always == TRUE
MayWrite == ram["writes"]

\* It is not JSON, or lacks a field; setpoint_post() looks at the flag first.
BodyInvalid(to) ==
  /\ Received(to) /\ (to = "setpoint" => MayWrite)
  /\ Send(to, 400, 0)
  /\ UNCHANGED <<allVars, page, apiVars>>

\* GET /, /api/health and /api/logs, and POST /api/debug/wifi-drop: one answer,
\* and no state of this module.
Browse ==
  /\ http = "idle"
  /\ Send("page", 200, 0)
  /\ UNCHANGED <<allVars, page, apiVars>>

---------------------------------------------------------------------------
(* GET /api/registers *)

\* The rate limit counts admissions, before the parameters are looked at.
RegistersLimited ==
  /\ http = "idle" /\ recent
  /\ Send("registers", 429, 0)
  /\ UNCHANGED <<allVars, page, apiVars>>

RegistersInvalid ==
  /\ http = "idle" /\ ~recent
  /\ recent' = TRUE
  /\ Send("registers", 400, 0)
  /\ UNCHANGED <<allVars, page, body, failed, ram, nvs, granted>>

RegistersRead(q) ==
  /\ http = "idle" /\ ~recent
  /\ recent' = TRUE
  /\ Call(HttpTask, q)
  /\ http' = "registers"
  /\ UNCHANGED <<pollVars, page, reply, body, failed, ram, nvs, granted>>

Elapse ==
  /\ recent /\ recent' = FALSE
  /\ UNCHANGED <<allStatusVars, body, failed, ram, nvs, granted>>

---------------------------------------------------------------------------
(* POST /api/setpoint *)

\* Limits in hundredths of a degree: COOL_MIN_F .. COOL_MAX_F and HEAT_...
Low(mode)  == IF mode = "cool" THEN 5400 ELSE 4000
High(mode) == IF mode = "cool" THEN 9900 ELSE 9000

SetpointReg(s) == (IF s.mode = "cool" THEN 21204 ELSE 21203) + 9 * (s.zone - 1)

\* lround(value_f * 10.0)
Tenths(hundredths) == (hundredths + 5) \div 10

SetpointWrite(s) == [fc |-> "write", reg |-> SetpointReg(s), arg |-> Tenths(s.value)]

\* What is wrong with a body, whoever sends it; the first check that fails
\* decides the status.
Unfit(s) ==
  IF s.mode = "other" \/ s.zone \notin 1..MaxZones            THEN 400
  ELSE IF s.value < Low(s.mode) \/ s.value > High(s.mode)     THEN 422
  ELSE 0

Complaint(s) == IF ~MayWrite THEN 403 ELSE Unfit(s)

ASSUME SetpointAssumption ==
  \A s \in Setpoints : Unfit(s) = 0 => SetpointWrite(s) \in Requests

SetpointRefused(s) ==
  /\ Received("setpoint") /\ Complaint(s) # 0
  /\ Send("setpoint", Complaint(s), 0)
  /\ UNCHANGED <<allVars, page, apiVars>>

SetpointPost(s) ==
  /\ Received("setpoint") /\ Complaint(s) = 0
  /\ Call(HttpTask, SetpointWrite(s))
  /\ http' = "setpoint"
  /\ UNCHANGED <<pollVars, page, reply, apiVars>>

BusStatus_Always200 == 200
BusStatus == IF err[HttpTask] = "ESP_OK" THEN 200 ELSE 502

\* The driver has returned to either handler; aurora_last_exception() is read
\* now, after s_lock was given back.
BusReply ==
  /\ http \in {"registers", "setpoint"}
  /\ Return(HttpTask)
  /\ Send(http, BusStatus, IF err[HttpTask] = "ESP_OK" THEN 0 ELSE lastExc)
  /\ UNCHANGED <<pollVars, page, apiVars>>

---------------------------------------------------------------------------
(* /api/mode *)

\* What either method tells: settings_writes_enabled(), poller_is_enabled().
Told(f) == IF f = "writes" THEN ram["writes"] ELSE enabled

ModeGet ==
  /\ http = "idle"
  /\ Send("flags", 200, 0)
  /\ UNCHANGED <<allVars, page, apiVars>>

\* The flags a body sets; with none of them it sets wifi_debug, a log level.
Wanted(b) == {f \in Flags : b[f] # "keep"}
Wish(f)   == body[f] = "on"

\* Until the reply, no earlier answer binds a wanted flag any more.
ModePost(b) ==
  /\ Received("mode")
  /\ http' = "writes"
  /\ body' = b
  /\ failed' = FALSE
  /\ granted' = [f \in Flags |-> IF f \in Wanted(b) THEN {} ELSE granted[f]]
  /\ UNCHANGED <<allVars, page, reply, recent, ram, nvs>>

GoesOn_Regardless == TRUE
GoesOn == ~failed

\* settings_set_...(): persist the flag, the second only if the first went well.
ModeSave(f) ==
  /\ http = f
  /\ http' = IF f = "writes" THEN "writesRam" ELSE "pollingRam"
  /\ IF GoesOn /\ f \in Wanted(body)
       THEN \E ok \in BOOLEAN : PutFlag(f, Wish(f), ok) /\ failed' = ~ok
       ELSE UNCHANGED <<nvs, failed>>
  /\ UNCHANGED <<allVars, page, reply, body, recent, ram, granted>>

\* ... then set its variable.
ModeCopy(f) ==
  /\ http = IF f = "writes" THEN "writesRam" ELSE "pollingRam"
  /\ http' = IF f = "writes" THEN "polling" ELSE "apply"
  /\ ram' = IF ~failed /\ f \in Wanted(body) THEN [ram EXCEPT ![f] = Wish(f)] ELSE ram
  /\ UNCHANGED <<allVars, page, reply, body, failed, recent, nvs, granted>>

Applies_Unsaved == TRUE
Applies == ~failed

\* poller_set_enabled(): the running poll task gets the flag once it is stored.
ModeApply ==
  /\ http = "apply"
  /\ http' = "moded"
  /\ IF Applies /\ "polling" \in Wanted(body) THEN SetEnabled(Wish("polling"))
                                              ELSE UNCHANGED allVars
  /\ UNCHANGED <<page, reply, apiVars>>

\* Only a 200 grants the change: a 500 leaves the client in doubt.
ModeReply ==
  /\ http = "moded"
  /\ Send("mode", IF failed THEN 500 ELSE 200, 0)
  /\ granted' = IF failed THEN granted
                ELSE [f \in Flags |-> IF f \in Wanted(body) THEN {Wish(f)} ELSE granted[f]]
  /\ body' = NoBody /\ failed' = FALSE
  /\ UNCHANGED <<allVars, page, recent, ram, nvs>>

---------------------------------------------------------------------------
(* Booting. *)

AllOff == [f \in Flags |-> FALSE]

\* settings_load() takes a flag it cannot read for off; the poll task then
\* starts with the loaded flag.
Loaded(stored) == {l \in [Flags -> BOOLEAN] : \A f \in Flags : l[f] => stored[f]}

ApiInit ==
  /\ nvs \in [Flags -> BOOLEAN]
  /\ granted = [f \in Flags |-> {nvs[f]}]
  /\ ram \in Loaded(nvs)
  /\ PollInit /\ enabled = ram["polling"]
  /\ http = "idle" /\ page = NoPage /\ reply = NoReply
  /\ body = NoBody /\ failed = FALSE /\ recent = FALSE

\* Power loss, panic or esp_restart(): everything but the flash starts afresh,
\* and a flash partition that is full or of another version is erased.
Reboot ==
  /\ \/ UNCHANGED <<nvs, granted>>
     \/ nvs' = AllOff /\ granted' = [f \in Flags |-> granted[f] \ {TRUE}]
  /\ lock' = NoTask /\ lastExc' = 0 /\ faults' = [c \in Counters |-> 0]
  /\ pc' = [t \in Tasks |-> "idle"] /\ req' = [t \in Tasks |-> NoReq]
  /\ err' = [t \in Tasks |-> "none"] /\ seen' = [t \in Tasks |-> {}]
  /\ drains' = 0 /\ rx' = {} /\ air' = (IF "late" \in Env THEN air ELSE {})
  /\ applied' = {} /\ asked' = [t \in Tasks |-> 0]
  /\ ram' \in Loaded(nvs')
  /\ enabled' = ram'["polling"]
  /\ span' = 0 /\ allOk' = TRUE /\ cache' = [r \in PollRegs |-> {}]
  /\ stats' = [polls_ok |-> 0, polls_failed |-> 0, ever_succeeded |-> FALSE]
  /\ startVer' = 0 /\ okStart' = 0 /\ okVer' = 0 /\ offTx' = 0
  /\ http' = "idle" /\ page' = NoPage /\ reply' = NoReply
  /\ body' = NoBody /\ failed' = FALSE /\ recent' = FALSE
  /\ UNCHANGED ver

HttpArrives ==
  \/ Unauthorized \/ BodyLengthBad \/ \E to \in Posts : PostBegins(to)
  \/ RegistersLimited \/ RegistersInvalid \/ \E q \in Queries : RegistersRead(q)
  \/ StatusArrives /\ UNCHANGED apiVars
  \/ ModeGet \/ Browse

HttpStep ==
  \/ BodyCut \/ \E to \in Posts : BodyInvalid(to)
  \/ \E s \in Setpoints : SetpointRefused(s) \/ SetpointPost(s)
  \/ \E b \in ModeBodies : ModePost(b)
  \/ BusReply
  \/ \E f \in Flags : ModeSave(f) \/ ModeCopy(f)
  \/ ModeApply \/ ModeReply
  \/ StatusStep /\ UNCHANGED apiVars

BoardStep ==
  \/ PollTaskStep \/ BusOutside
  \/ \E t \in Tasks : Locks(t) \/ Transact(t)

ApiNext ==
  \/ HttpArrives \/ HttpStep \/ Elapse
  \/ Purged /\ UNCHANGED apiVars
  \/ BoardStep /\ UNCHANGED httpVars
  \/ Reboot

(* The server task runs, each wait for a piece of a body is bounded by      *)
(* recv_wait_timeout, and everything below it runs.                         *)
ApiFairness ==
  /\ WF_vars(HttpStep)
  /\ WF_vars(PollTaskStep /\ UNCHANGED httpVars)
  /\ \A t \in Tasks : /\ WF_vars(Transact(t) /\ UNCHANGED httpVars)
                      /\ SF_vars(Locks(t) /\ UNCHANGED httpVars)

ApiSpec == ApiInit /\ [][ApiNext]_vars /\ ApiFairness

---------------------------------------------------------------------------
HttpStates == ModeStates \cup {"idle", "body", "registers", "setpoint", "loop", "zones",
                               "answer", "purge"}
Requesters == {"nobody", "status", "page", "registers", "setpoint", "flags", "mode", "guarded"}
Replies == [to: Requesters,
            status: {0, 200, 400, 401, 403, 422, 429, 500, 502, 503}, exc: Nat,
            unread: BOOLEAN, close: BOOLEAN]

ApiTypeOK ==
  /\ PollTypeOK
  /\ http \in HttpStates /\ PageOK(page) /\ reply \in Replies
  /\ body \in ModeBodies \cup {NoBody}
  /\ failed \in BOOLEAN /\ recent \in BOOLEAN
  /\ ram \in [Flags -> BOOLEAN] /\ nvs \in [Flags -> BOOLEAN]
  /\ granted \in [Flags -> SUBSET BOOLEAN]

\* What a client was granted with a 200 is in flash, until another request sets
\* that flag or the flash is erased, and is in force unless the flag could not
\* be read at boot, which leaves the board on the safe side; off survives even
\* an erasure.  A change answered with 500 binds nobody: it may be in flash or
\* not.
GrantedFlagsHold ==
  \A f \in Flags : \A b \in granted[f] : nvs[f] = b /\ ram[f] \in {b, FALSE}

\* Whoever asks /api/mode, by either method, is told what is in force: the flag
\* POST /api/setpoint looks at, and a poll flag on which the poll task and the
\* settings agree again; never on for a flag that was last granted off; and a
\* change answered with 200 is told as it was asked for and is in flash.  What
\* is told of a flag nobody was granted may differ from the flash: after a 500,
\* or when the flag could not be read at boot.
ModeTellsTruth ==
  [][http # "answer" /\ http' = "answer" /\ reply'.to \in {"flags", "mode"}
     /\ reply'.status = 200 =>
       /\ \A f \in Flags : Told(f) = ram[f] /\ \A b \in granted'[f] : Told(f) \in {b, FALSE}
       /\ http = "moded" => \A f \in Wanted(body) : Told(f) = Wish(f) /\ nvs[f] = Wish(f)]_vars

\* Every write on its way to the ABC is a setpoint of an existing zone within
\* the limits of its mode, and writes are enabled as long as it is under way.
WritesAreLegal ==
  pc[HttpTask] # "idle" /\ req[HttpTask].fc = "write" =>
    /\ ram["writes"]
    /\ \E z \in 1..MaxZones :
         \/ req[HttpTask].reg = 21204 + 9 * (z - 1) /\ req[HttpTask].arg \in 540..990
         \/ req[HttpTask].reg = 21203 + 9 * (z - 1) /\ req[HttpTask].arg \in 400..900

\* On a quiet bus "written": true is said only of a write the ABC carried out.
WrittenMeansWritten ==
  [][QuietBus /\ http = "setpoint" /\ http' = "answer" /\ reply'.status = 200
     => HttpTask \in applied]_vars

\* Every request is answered, or the board resets: the one task that also serves
\* OTA never stays behind the bus, whoever else is on it.  It is then free, or
\* purges a body no handler has read, which takes as long as the client likes.
RequestsAnswered == http # "idle" ~> http \in {"idle", "purge"}

\* A request without the key, a post turned away before its body was read and a
\* post refused after it never leave the server task a body to purge (the
\* slowloris of auth.h and reject_close()).  Other requests may.
RefusedPostsClose ==
  [][http' = "purge" /\ http # "purge" => reply.to \notin Posts \cup {"guarded"}]_vars

\* aurora_modbus.h:37-40: the exception reported with a failed transaction
\* "always reflects the most recent one" of the caller: what the handler reads
\* when its call has failed is an exception of that call.
ExceptionIsOwn ==
  pc[HttpTask] = "done" /\ err[HttpTask] # "ESP_OK" /\ lastExc # 0 =>
    \E f \in seen[HttpTask] : IsException(f) /\ f.b2 = lastExc
=============================================================================
