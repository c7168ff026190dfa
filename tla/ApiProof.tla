-------------------------------- MODULE ApiProof --------------------------------
(***************************************************************************)
(* Proofs about the HTTP server and the settings: what the poll task and   *)
(* the status page are proved to do they still do behind the server and    *)
(* across resets, a mode change that was granted holds, what is told of    *)
(* the modes is in force, and only legal setpoints reach the driver.       *)
(***************************************************************************)
EXTENDS Api, StatusProof

\* Where each flag of a mode change is to be found, if it goes well.
Saved(f) == \/ f = "writes" /\ http \in {"writesRam", "polling"}
            \/ http \in {"pollingRam", "apply", "moded"}
Copied(f) == \/ f = "writes" /\ http \in {"polling", "pollingRam"}
             \/ http \in {"apply", "moded"}

\* While a mode change is under way nobody holds a grant of what it changes, and
\* as long as it goes well flash and then RAM have what it asks for.
ModeInv ==
  http \in ModeStates =>
    /\ body \in ModeBodies
    /\ \A f \in Wanted(body) :
         /\ granted[f] = {}
         /\ Saved(f) /\ ~failed => nvs[f] = Wish(f)
         /\ Copied(f) /\ ~failed => ram[f] = Wish(f)

\* The poll task and the settings agree, but for a moment of a mode change: it
\* is set in RAM and the task not told yet.
PollFlagInv ==
  \/ http = "apply" /\ ~failed /\ "polling" \in Wanted(body)
  \/ enabled = ram["polling"]

\* A write of a setpoint within the limits of its mode.
CoolTenths == 540..990
HeatTenths == 400..900
Legal(q) ==
  \E z \in 1..MaxZones :
    \/ q.reg = 21204 + 9 * (z - 1) /\ q.arg \in CoolTenths
    \/ q.reg = 21203 + 9 * (z - 1) /\ q.arg \in HeatTenths

\* Inside the driver the server task either reads or sets a setpoint.
HttpCallInv ==
  pc[HttpTask] # "idle" =>
    \/ http = "registers" /\ req[HttpTask].fc = "read"
    \/ /\ http = "setpoint" /\ ram["writes"]
       /\ req[HttpTask].fc = "write" /\ Legal(req[HttpTask])

ApiTypes ==
  /\ http \in HttpStates /\ reply \in Replies
  /\ body \in ModeBodies \cup {NoBody}
  /\ failed \in BOOLEAN /\ recent \in BOOLEAN
  /\ ram \in [Flags -> BOOLEAN] /\ nvs \in [Flags -> BOOLEAN]
  /\ granted \in [Flags -> SUBSET BOOLEAN]

FlagsInv == GrantedFlagsHold /\ PollFlagInv /\ ModeInv

ApiInv == PollInv /\ PageInv /\ ApiTypes /\ FlagsInv /\ HttpCallInv

---------------------------------------------------------------------------
(* What the steps of the server are to the poll task and the bus. *)

LEMMA ReadBody ==
  /\ \A q \in Queries : q \in Requests /\ q.fc = "read"
  /\ \A s \in Setpoints : /\ s.zone \in Int /\ s.value \in Nat
                          /\ s.mode \in {"cool", "heat", "other"}
  /\ \A b \in ModeBodies : b \in [Flags -> Wishes]
<1>1. \A s \in Setpoints : s \in [zone: Int, mode: {"cool", "heat", "other"}, value: Nat]
  BY HttpAssumption
<1> QED BY <1>1, HttpAssumption

LEMMA CallsAreOthers ==
  ASSUME UNCHANGED pollVars, Return(HttpTask) \/ \E q \in Requests : Call(HttpTask, q)
  PROVE  PollNext
<1>1. HttpTask \in Tasks \ {PollTask}
  BY HttpTaskAssumption
<1> QED BY <1>1 DEF PollNext, OtherCalls

(* Short of a reset, the server only ever does to the poll task what a client *)
(* of it may do.                                                              *)
LEMMA ServerUsesPoller ==
  ASSUME ApiNext, ~Reboot
  PROVE  [PollNext]_allVars
<1>1. CASE \E q \in Queries : RegistersRead(q)
  BY <1>1, ReadBody, CallsAreOthers DEF RegistersRead
<1>2. CASE \E s \in Setpoints : SetpointPost(s)
  <2>1. PICK s \in Setpoints : SetpointPost(s)
    BY <1>2
  <2>2. Unfit(s) = 0
    BY <2>1 DEF SetpointPost, Complaint
  <2> QED BY <2>1, <2>2, SetpointAssumption, CallsAreOthers DEF SetpointPost
<1>3. CASE BusReply
  BY <1>3, CallsAreOthers DEF BusReply
<1>4. CASE ModeApply
  <2>1. \E b \in BOOLEAN : SetEnabled(b) \/ UNCHANGED allVars
    BY <1>4 DEF ModeApply, Wish
  <2> QED BY <2>1 DEF PollNext
<1>5. CASE BoardStep
  BY <1>5 DEF BoardStep, PollNext
<1>6. CASE \/ Unauthorized \/ BodyLengthBad \/ \E to \in Posts : PostBegins(to)
           \/ RegistersLimited \/ RegistersInvalid \/ StatusArrives \/ ModeGet \/ Browse
           \/ BodyCut \/ \E to \in Posts : BodyInvalid(to)
           \/ \E s \in Setpoints : SetpointRefused(s)
           \/ \E b \in ModeBodies : ModePost(b)
           \/ \E f \in Flags : ModeSave(f) \/ ModeCopy(f)
           \/ ModeReply \/ StatusStep \/ Purged \/ Elapse
  <2>1. UNCHANGED allVars
    BY <1>6 DEF Unauthorized, BodyLengthBad, TurnAway, PostBegins, RegistersLimited,
                RegistersInvalid, StatusArrives, StatusUnready, StatusGet, ModeGet, Browse,
                BodyCut, BodyInvalid, SetpointRefused, ModePost, ModeSave, ModeCopy,
                ModeReply, StatusStep, StatusLoopWord, StatusConfig, StatusWord,
                StatusReply, Sent, Purged, Elapse, allStatusVars
  <2> QED BY <2>1
<1> QED BY <1>1, <1>2, <1>3, <1>4, <1>5, <1>6 DEF ApiNext, HttpArrives, HttpStep

(* A reset leaves the poll task as it starts, on a bus that may still carry   *)
(* the answers to what it had asked.                                          *)
LEMMA RebootPoller ==
  ASSUME PollInv, Reboot
  PROVE  PollInv'
<1>1. /\ lock' = NoTask /\ lastExc' = 0 /\ faults' = [c \in Counters |-> 0]
      /\ pc' = [t \in Tasks |-> "idle"] /\ req' = [t \in Tasks |-> NoReq]
      /\ err' = [t \in Tasks |-> "none"] /\ seen' = [t \in Tasks |-> {}]
      /\ drains' = 0 /\ rx' = {} /\ air' \subseteq air /\ applied' = {} /\ ver' = ver
      /\ asked' = [t \in Tasks |-> 0]
  BY DEF Reboot
<1>2. BusTypeOK /\ air \subseteq Requests /\ ver \in 0..MaxVer
  BY DEF PollInv, PollTypeOK, BusTypeOK
<1>3. BusTypeOK'
  BY <1>1, <1>2, BoundAssumption DEF BusTypeOK, PcStates, Held, Errors, Counters
<1>4. BusInv'
  <2>1. LockInv'
    BY <1>1, TaskAssumption DEF LockInv, Held
  <2>2. CallInv' /\ ClearInv' /\ FreshReply' /\ ExceptionScoped'
    BY <1>1 DEF CallInv, ClearInv, FreshReply, ExceptionScoped, Replied, Held
  <2>3. AgeInv'
    BY <1>1, <1>2 DEF AgeInv
  <2> QED BY <1>3, <2>1, <2>2, <2>3 DEF BusInv
<1>5. /\ enabled' = ram'["polling"] /\ ram' \in [Flags -> BOOLEAN]
      /\ span' = 0 /\ allOk' = TRUE /\ cache' = [r \in PollRegs |-> {}]
      /\ stats' = [polls_ok |-> 0, polls_failed |-> 0, ever_succeeded |-> FALSE]
      /\ startVer' = 0 /\ okStart' = 0 /\ okVer' = 0 /\ offTx' = 0
  BY DEF Reboot, Loaded
<1>6. PollTypeOK'
  <2>1. enabled' \in BOOLEAN
    BY <1>5 DEF Flags
  <2> QED BY <1>3, <1>5, <2>1, SpanFacts, BoundAssumption DEF PollTypeOK
<1>7. /\ LoopInv' /\ RecentInv' /\ ProgressInv' /\ DrainInv' /\ AgeWithinOneLoop'
  BY <1>1, <1>2, <1>5, SpanFacts, SpanAssumption
     DEF LoopInv, RecentInv, ProgressInv, DrainInv, Unsent, BeforeSend, AgeWithinOneLoop
<1> QED BY <1>4, <1>6, <1>7 DEF PollInv

LEMMA PollInvHolds ==
  ASSUME PollInv, [ApiNext]_vars
  PROVE  PollInv'
<1>1. CASE Reboot
  BY <1>1, RebootPoller
<1>2. CASE ~Reboot
  <2>1. [PollNext]_allVars
    BY <1>2, ServerUsesPoller DEF vars, allStatusVars
  <2> QED BY <2>1, PollInvNext
<1> QED BY <1>1, <1>2

---------------------------------------------------------------------------
(* The status page, among the other requests. *)

LEMMA PageKept ==
  ASSUME PollInv, PageInv, [PollNext]_allVars, page' = page,
         http' \notin {"loop", "zones"}, ~StatusSent'
  PROVE  PageInv'
<1>1. okStart <= okStart' /\ okStart \in Int /\ okStart' \in Int
  BY AgeAdvances, PollInvNext DEF PollInv, PollTypeOK
<1>2. page.age.began \in Int
  BY PageFields DEF PageInv, PageShape
<1>3. PageShape' /\ PageWhole'
  BY DEF PageInv, PageShape, PageWhole, Covered, WordReg
<1>4. PageFresh'
  BY <1>1, <1>2 DEF PageInv, PageFresh, NoOlder
<1> QED BY <1>3, <1>4 DEF PageInv

(* An answer that is not a status. *)
LEMMA SendFacts ==
  ASSUME NEW to \in Requesters \ {"nobody", "guarded"},
         NEW status \in {200, 400, 403, 422, 429, 500, 502, 503}, NEW exc \in Nat,
         Send(to, status, exc)
  PROVE  /\ http' = "answer" /\ reply' \in Replies
         /\ to # "status" \/ status # 200 => ~StatusSent'
<1>1. /\ http' = "answer"
      /\ reply' = [to |-> to, status |-> status, exc |-> exc, unread |-> FALSE,
                   close |-> FALSE]
  BY DEF Send, NoReply
<1> QED BY <1>1 DEF Replies, Requesters, StatusSent

LEMMA TurnAwayFacts ==
  ASSUME NEW to \in Requesters,
         NEW status \in {400, 401}, TurnAway(to, status)
  PROVE  /\ http' = "answer" /\ reply' \in Replies /\ ~StatusSent'
         /\ UNCHANGED <<allVars, page, apiVars>>
<1>1. /\ http' = "answer" /\ UNCHANGED <<allVars, page, apiVars>>
      /\ reply' = [to |-> to, status |-> status, exc |-> 0, unread |-> (to \in Posts),
                   close |-> TRUE]
  BY DEF TurnAway, NoReply, Closes
<1>2. reply' \in Replies /\ reply'.status # 200
  BY <1>1 DEF Replies
<1> QED BY <1>1, <1>2 DEF StatusSent

LEMMA PageHolds ==
  ASSUME PollInv, PageInv, ApiTypes, [ApiNext]_vars
  PROVE  PageInv'
<1>1. CASE Reboot
  <2>1. page' = NoPage /\ http' = "idle" /\ okStart' \in Nat
    BY <1>1 DEF Reboot
  <2> QED BY <2>1, EmptyPage DEF StatusSent
<1>2. CASE StatusArrives \/ StatusStep \/ Purged
  BY <1>2, GetStep, UnreadyStep, LoopWordStep, ConfigStep, WordStep, ReplyStep, SentStep,
     PurgedStep DEF StatusArrives, StatusStep
<1>3. CASE (BoardStep /\ UNCHANGED httpVars) \/ Elapse \/ UNCHANGED vars
  <2>1. UNCHANGED statusVars
    BY <1>3 DEF httpVars, Elapse, allStatusVars, vars
  <2>2. [PollNext]_allVars
    BY <1>3 DEF BoardStep, PollNext, Elapse, allStatusVars, vars
  <2> QED BY <2>1, <2>2, PageWaits
<1>4. CASE Unauthorized \/ BodyLengthBad \/ BodyCut
  <2>1. PICK to \in Requesters, status \in {400, 401} : TurnAway(to, status)
    BY <1>4 DEF Unauthorized, BodyLengthBad, BodyCut, Posts, ApiTypes, Replies, Requesters
  <2> QED BY <2>1, TurnAwayFacts, PageKept
<1>5. CASE \/ RegistersLimited \/ RegistersInvalid \/ ModeGet \/ Browse
           \/ \E to \in Posts : BodyInvalid(to)
  <2>1. PICK to \in Requesters \ {"nobody", "guarded", "status"}, status \in {200, 400, 429} :
          Send(to, status, 0)
    BY <1>5 DEF RegistersLimited, RegistersInvalid, ModeGet, Browse, BodyInvalid, Posts,
                Requesters
  <2>2. page' = page /\ UNCHANGED allVars
    BY <1>5 DEF RegistersLimited, RegistersInvalid, ModeGet, Browse, BodyInvalid
  <2> QED BY <2>1, <2>2, SendFacts, PageKept DEF Requesters
<1>6. CASE \E s \in Setpoints : SetpointRefused(s)
  <2>1. PICK status \in {400, 403, 422} : Send("setpoint", status, 0)
    BY <1>6 DEF SetpointRefused, Complaint, Unfit
  <2>2. page' = page /\ UNCHANGED allVars
    BY <1>6 DEF SetpointRefused
  <2> QED BY <2>1, <2>2, SendFacts, PageKept DEF Requesters
<1>7. CASE BusReply
  <2>1. lastExc \in Nat
    BY DEF PollInv, PollTypeOK, BusTypeOK
  <2>2. PICK to \in {"registers", "setpoint"}, status \in {200, 502}, exc \in Nat :
          Send(to, status, exc)
    BY <1>7, <2>1 DEF BusReply, BusStatus
  <2>3. page' = page /\ [PollNext]_allVars
    BY <1>7, CallsAreOthers DEF BusReply
  <2> QED BY <2>2, <2>3, SendFacts, PageKept DEF Requesters
<1>8. CASE ModeReply
  <2>1. PICK status \in {200, 500} : Send("mode", status, 0)
    BY <1>8 DEF ModeReply
  <2>2. page' = page /\ UNCHANGED allVars
    BY <1>8 DEF ModeReply
  <2> QED BY <2>1, <2>2, SendFacts, PageKept DEF Requesters
<1>9. CASE \/ \E to \in Posts : PostBegins(to)
           \/ \E q \in Queries : RegistersRead(q)
           \/ \E s \in Setpoints : SetpointPost(s)
           \/ \E b \in ModeBodies : ModePost(b)
           \/ ModeApply \/ \E f \in Flags : ModeSave(f) \/ ModeCopy(f)
  <2>1. page' = page /\ http' \in ModeStates \cup {"body", "registers", "setpoint"}
    BY <1>9 DEF PostBegins, RegistersRead, SetpointPost, ModePost, ModeSave, ModeCopy,
                ModeApply, ModeStates
  <2>2. ~Reboot
    BY <2>1 DEF Reboot, ModeStates
  <2>3. [PollNext]_allVars
    BY <2>2, ServerUsesPoller DEF vars, allStatusVars
  <2> QED BY <2>1, <2>3, PageKept DEF StatusSent, ModeStates
<1> QED BY <1>1, <1>2, <1>3, <1>4, <1>5, <1>6, <1>7, <1>8, <1>9
        DEF ApiNext, HttpArrives, HttpStep

---------------------------------------------------------------------------
(* Types. *)

LEMMA PutFlagFacts ==
  ASSUME ApiTypes, NEW f \in Flags, NEW b \in BOOLEAN, NEW ok \in BOOLEAN,
         PutFlag(f, b, ok)
  PROVE  /\ nvs' \in [Flags -> BOOLEAN]
         /\ \A g \in Flags \ {f} : nvs'[g] = nvs[g]
         /\ ok => nvs'[f] = b
<1>1. \E v \in BOOLEAN : nvs' = [nvs EXCEPT ![f] = v] /\ (ok => v = b)
  <2>1. nvs[f] \in BOOLEAN
    BY DEF ApiTypes
  <2> QED BY <2>1 DEF PutFlag
<1> QED BY <1>1 DEF ApiTypes

\* What the steps of a mode change do to its flags.
LEMMA ModeSaveFacts ==
  ASSUME ApiTypes, NEW f \in Flags, ModeSave(f)
  PROVE  /\ http = f /\ http' = IF f = "writes" THEN "writesRam" ELSE "pollingRam"
         /\ UNCHANGED <<allVars, page, reply, body, recent, ram, granted>>
         /\ failed' \in BOOLEAN /\ nvs' \in [Flags -> BOOLEAN]
         /\ f \notin Wanted(body) => nvs' = nvs /\ failed' = failed
         /\ \A g \in Flags \ {f} : nvs'[g] = nvs[g]
         /\ ~failed' => ~failed /\ (f \in Wanted(body) => nvs'[f] = Wish(f))
<1>1. /\ http = f /\ http' = IF f = "writes" THEN "writesRam" ELSE "pollingRam"
      /\ UNCHANGED <<allVars, page, reply, body, recent, ram, granted>>
  BY DEF ModeSave
<1>2. CASE GoesOn /\ f \in Wanted(body)
  <2>1. PICK ok \in BOOLEAN : PutFlag(f, Wish(f), ok) /\ failed' = ~ok
    BY <1>2 DEF ModeSave
  <2>2. Wish(f) \in BOOLEAN
    BY DEF Wish
  <2>3. /\ nvs' \in [Flags -> BOOLEAN] /\ \A g \in Flags \ {f} : nvs'[g] = nvs[g]
        /\ ok => nvs'[f] = Wish(f)
    BY <2>1, <2>2, PutFlagFacts
  <2> QED BY <1>1, <1>2, <2>1, <2>3 DEF GoesOn
<1>3. CASE ~(GoesOn /\ f \in Wanted(body))
  <2>1. UNCHANGED <<nvs, failed>>
    BY <1>3 DEF ModeSave
  <2> QED BY <1>1, <1>3, <2>1 DEF GoesOn, ApiTypes
<1> QED BY <1>2, <1>3

LEMMA ModeCopyFacts ==
  ASSUME ApiTypes, NEW f \in Flags, ModeCopy(f)
  PROVE  /\ http = IF f = "writes" THEN "writesRam" ELSE "pollingRam"
         /\ http' = IF f = "writes" THEN "polling" ELSE "apply"
         /\ UNCHANGED <<allVars, page, reply, body, failed, recent, nvs, granted>>
         /\ ram' \in [Flags -> BOOLEAN]
         /\ failed \/ f \notin Wanted(body) => ram' = ram
         /\ \A g \in Flags \ {f} : ram'[g] = ram[g]
         /\ ~failed /\ f \in Wanted(body) => ram'[f] = Wish(f)
<1>1. Wish(f) \in BOOLEAN
  BY DEF Wish
<1> QED BY <1>1 DEF ModeCopy, ApiTypes

LEMMA TypesHold ==
  ASSUME PollInv, ApiTypes, [ApiNext]_vars
  PROVE  ApiTypes'
<1> USE DEF HttpStates, ModeStates
<1>1. CASE Reboot
  <2>1. ram' \in [Flags -> BOOLEAN]
    BY <1>1 DEF Reboot, Loaded
  <2>2. nvs' \in [Flags -> BOOLEAN] /\ granted' \in [Flags -> SUBSET BOOLEAN]
    BY <1>1 DEF Reboot, AllOff, ApiTypes
  <2>3. reply' \in Replies
    BY <1>1 DEF Reboot, NoReply, Replies, Requesters
  <2> QED BY <1>1, <2>1, <2>2, <2>3 DEF Reboot, ApiTypes
<1>2. CASE StatusArrives /\ UNCHANGED apiVars
  <2>1. CASE StatusUnready
    BY <1>2, <2>1, SendFacts DEF StatusUnready, Requesters, apiVars, ApiTypes
  <2>2. CASE StatusGet
    BY <1>2, <2>2 DEF StatusGet, apiVars, ApiTypes
  <2> QED BY <1>2, <2>1, <2>2 DEF StatusArrives
<1>3. CASE StatusStep /\ UNCHANGED apiVars
  <2>1. CASE StatusReply
    BY <1>3, <2>1, SendFacts DEF StatusReply, Requesters, apiVars, ApiTypes
  <2>2. CASE Sent
    <3>1. reply' \in Replies
      BY <2>2 DEF Sent, NoReply, Replies, Requesters
    <3> QED BY <1>3, <2>2, <3>1 DEF Sent, apiVars, ApiTypes
  <2>3. CASE StatusLoopWord \/ StatusConfig \/ StatusWord
    BY <1>3, <2>3 DEF StatusLoopWord, StatusConfig, StatusWord, apiVars, ApiTypes
  <2> QED BY <1>3, <2>1, <2>2, <2>3 DEF StatusStep
<1>4. CASE (BoardStep /\ UNCHANGED httpVars) \/ Elapse \/ UNCHANGED vars
  BY <1>4 DEF httpVars, statusVars, apiVars, Elapse, allStatusVars, vars, ApiTypes
<1>5. CASE Unauthorized \/ BodyLengthBad \/ BodyCut
  <2>1. PICK to \in Requesters, status \in {400, 401} : TurnAway(to, status)
    BY <1>5 DEF Unauthorized, BodyLengthBad, BodyCut, Posts, ApiTypes, Replies, Requesters
  <2> QED BY <2>1, TurnAwayFacts DEF apiVars, ApiTypes
<1>6. CASE \/ RegistersLimited \/ RegistersInvalid \/ ModeGet \/ Browse
           \/ \E to \in Posts : BodyInvalid(to)
  <2>1. PICK to \in Requesters \ {"nobody", "guarded", "status"}, status \in {200, 400, 429} :
          Send(to, status, 0)
    BY <1>6 DEF RegistersLimited, RegistersInvalid, ModeGet, Browse, BodyInvalid, Posts,
                Requesters
  <2>2. http' = "answer" /\ reply' \in Replies
    BY <2>1, SendFacts
  <2>3. UNCHANGED <<body, failed, ram, nvs, granted>> /\ (recent' = recent \/ recent' = TRUE)
    BY <1>6 DEF RegistersLimited, RegistersInvalid, ModeGet, Browse, BodyInvalid, apiVars
  <2>4. recent' \in BOOLEAN
    BY <2>3 DEF ApiTypes
  <2> QED BY <2>2, <2>3, <2>4 DEF ApiTypes
<1>7. CASE \E s \in Setpoints : SetpointRefused(s)
  <2>1. PICK status \in {400, 403, 422} : Send("setpoint", status, 0)
    BY <1>7 DEF SetpointRefused, Complaint, Unfit
  <2> QED BY <1>7, <2>1, SendFacts DEF SetpointRefused, Requesters, apiVars, ApiTypes
<1>8. CASE BusReply
  <2>1. lastExc \in Nat
    BY DEF PollInv, PollTypeOK, BusTypeOK
  <2>2. PICK to \in {"registers", "setpoint"}, status \in {200, 502}, exc \in Nat :
          Send(to, status, exc)
    BY <1>8, <2>1 DEF BusReply, BusStatus
  <2> QED BY <1>8, <2>2, SendFacts DEF BusReply, Requesters, apiVars, ApiTypes
<1>9. CASE \E to \in Posts : PostBegins(to)
  <2>1. PICK to \in Posts : reply' = [to |-> to, status |-> 0, exc |-> 0, unread |-> FALSE,
                                      close |-> FALSE]
    BY <1>9 DEF PostBegins, NoReply
  <2>2. reply' \in Replies
    BY <2>1 DEF Replies, Requesters, Posts
  <2> QED BY <1>9, <2>2 DEF PostBegins, apiVars, ApiTypes
<1>10. CASE \/ \E q \in Queries : RegistersRead(q)
            \/ \E s \in Setpoints : SetpointPost(s)
  BY <1>10 DEF RegistersRead, SetpointPost, apiVars, ApiTypes
<1>11. CASE \E b \in ModeBodies : ModePost(b)
  BY <1>11 DEF ModePost, ApiTypes
<1>12. CASE \E f \in Flags : ModeSave(f) \/ ModeCopy(f)
  <2>1. PICK f \in Flags : ModeSave(f) \/ ModeCopy(f)
    BY <1>12
  <2>2. http' \in ModeStates /\ UNCHANGED <<reply, body, recent, granted>>
    BY <2>1, ModeSaveFacts, ModeCopyFacts DEF ModeStates
  <2>3. failed' \in BOOLEAN /\ ram' \in [Flags -> BOOLEAN] /\ nvs' \in [Flags -> BOOLEAN]
    BY <2>1, ModeSaveFacts, ModeCopyFacts DEF ApiTypes
  <2> QED BY <2>2, <2>3 DEF ApiTypes
<1>13. CASE ModeApply
  BY <1>13 DEF ModeApply, apiVars, ApiTypes
<1>14. CASE ModeReply
  <2>1. PICK status \in {200, 500} : Send("mode", status, 0)
    BY <1>14 DEF ModeReply
  <2>2. \A f \in Flags : Wish(f) \in BOOLEAN
    BY DEF Wish
  <2>3. granted' \in [Flags -> SUBSET BOOLEAN]
    BY <1>14, <2>2 DEF ModeReply, ApiTypes
  <2>4. http' = "answer" /\ reply' \in Replies
    BY <2>1, SendFacts DEF Requesters
  <2>5. body' = NoBody /\ failed' = FALSE /\ UNCHANGED <<recent, ram, nvs>>
    BY <1>14 DEF ModeReply
  <2> QED BY <2>3, <2>4, <2>5 DEF ApiTypes
<1>15. CASE Purged /\ UNCHANGED apiVars
  BY <1>15 DEF Purged, apiVars, ApiTypes
<1> QED BY <1>1, <1>2, <1>3, <1>4, <1>5, <1>6, <1>7, <1>8, <1>9, <1>10, <1>11, <1>12,
           <1>13, <1>14, <1>15 DEF ApiNext, HttpArrives, HttpStep

---------------------------------------------------------------------------
(* The flags. *)

\* Which stage a step of a mode change leads to.
LEMMA SaveStage ==
  ASSUME NEW f \in {"writes", "polling"}, NEW g \in {"writes", "polling"}, http = f,
         http' = IF f = "writes" THEN "writesRam" ELSE "pollingRam"
  PROVE  /\ g = f => ~Copied(g)'
         /\ g # f => (Saved(g)' => Saved(g)) /\ (Copied(g)' => Copied(g))
<1>1. CASE f = "writes"
  <2>1. http = "writes" /\ http' = "writesRam"
    BY <1>1
  <2> QED BY <1>1, <2>1 DEF Saved, Copied
<1>2. CASE f = "polling"
  <2>1. http = "polling" /\ http' = "pollingRam"
    BY <1>2
  <2> QED BY <1>2, <2>1 DEF Saved, Copied
<1> QED BY <1>1, <1>2

LEMMA CopyStage ==
  ASSUME NEW f \in {"writes", "polling"}, NEW g \in {"writes", "polling"},
         http = IF f = "writes" THEN "writesRam" ELSE "pollingRam",
         http' = IF f = "writes" THEN "polling" ELSE "apply"
  PROVE  (Saved(g)' => Saved(g)) /\ (g # f => (Copied(g)' => Copied(g)))
<1>1. CASE f = "writes"
  <2>1. http = "writesRam" /\ http' = "polling"
    BY <1>1
  <2> QED BY <1>1, <2>1 DEF Saved, Copied
<1>2. CASE f = "polling"
  <2>1. http = "pollingRam" /\ http' = "apply"
    BY <1>2
  <2> QED BY <1>2, <2>1 DEF Saved, Copied
<1> QED BY <1>1, <1>2

(* The steps of a mode change: flags nobody holds a grant of may be anything. *)
LEMMA ModeSaveStep ==
  ASSUME ApiTypes, FlagsInv, NEW f \in Flags, ModeSave(f)
  PROVE  FlagsInv'
<1>1. /\ http = f /\ http' = IF f = "writes" THEN "writesRam" ELSE "pollingRam"
      /\ UNCHANGED <<body, ram, granted, enabled>>
      /\ f \notin Wanted(body) => nvs' = nvs /\ failed' = failed
      /\ \A g \in Flags \ {f} : nvs'[g] = nvs[g]
      /\ ~failed' => ~failed /\ (f \in Wanted(body) => nvs'[f] = Wish(f))
  BY ModeSaveFacts DEF allVars, pollVars
<1>2. f \in {"writes", "polling"} /\ http \in ModeStates
  BY <1>1 DEF Flags, ModeStates
<1>3. GrantedFlagsHold'
  <2>1. f \in Wanted(body) => granted[f] = {}
    BY <1>2 DEF FlagsInv, ModeInv
  <2> QED BY <1>1, <2>1 DEF FlagsInv, GrantedFlagsHold
<1>4. PollFlagInv'
  BY <1>1, <1>2 DEF FlagsInv, PollFlagInv
<1>5. ModeInv'
  <2>1. ASSUME NEW g \in Wanted(body)
        PROVE  /\ granted'[g] = {}
               /\ Saved(g)' /\ ~failed' => nvs'[g] = Wish(g)
               /\ Copied(g)' /\ ~failed' => ram'[g] = Wish(g)
    <3>1. /\ granted[g] = {}
          /\ Saved(g) /\ ~failed => nvs[g] = Wish(g)
          /\ Copied(g) /\ ~failed => ram[g] = Wish(g)
      BY <1>2, <2>1 DEF FlagsInv, ModeInv
    <3>2. g \in {"writes", "polling"}
      BY <2>1 DEF Wanted, Flags
    <3>3. CASE g = f
      <4>1. ~Copied(g)'
        BY <1>1, <1>2, <3>2, <3>3, SaveStage
      <4> QED BY <1>1, <2>1, <3>1, <3>3, <4>1
    <3>4. CASE g # f
      <4>1. nvs'[g] = nvs[g]
        BY <1>1, <3>2, <3>4 DEF Flags
      <4>2. Saved(g)' => Saved(g)
        BY <1>1, <1>2, <3>2, <3>4, SaveStage
      <4>3. Copied(g)' => Copied(g)
        BY <1>1, <1>2, <3>2, <3>4, SaveStage
      <4> QED BY <1>1, <3>1, <4>1, <4>2, <4>3
    <3> QED BY <3>3, <3>4
  <2>2. body' = body /\ body \in ModeBodies /\ Wanted(body)' = Wanted(body)
    BY <1>1, <1>2 DEF FlagsInv, ModeInv, Wanted
  <2> QED BY <2>1, <2>2 DEF ModeInv, Wish, Saved, Copied, ModeStates, Wanted
<1> QED BY <1>3, <1>4, <1>5 DEF FlagsInv

LEMMA ModeCopyStep ==
  ASSUME ApiTypes, FlagsInv, NEW f \in Flags, ModeCopy(f)
  PROVE  FlagsInv'
<1>1. /\ http = IF f = "writes" THEN "writesRam" ELSE "pollingRam"
      /\ http' = IF f = "writes" THEN "polling" ELSE "apply"
      /\ UNCHANGED <<body, failed, nvs, granted, enabled>>
      /\ failed \/ f \notin Wanted(body) => ram' = ram
      /\ \A g \in Flags \ {f} : ram'[g] = ram[g]
      /\ ~failed /\ f \in Wanted(body) => ram'[f] = Wish(f)
  BY ModeCopyFacts DEF allVars, pollVars
<1>2. f \in {"writes", "polling"} /\ http \in ModeStates
  BY <1>1 DEF Flags, ModeStates
<1>3. GrantedFlagsHold'
  <2>1. f \in Wanted(body) => granted[f] = {}
    BY <1>2 DEF FlagsInv, ModeInv
  <2> QED BY <1>1, <2>1 DEF FlagsInv, GrantedFlagsHold
<1>4. PollFlagInv'
  <2>1. enabled = ram["polling"]
    BY <1>1, <1>2 DEF FlagsInv, PollFlagInv
  <2>2. CASE f = "writes"
    BY <1>1, <2>1, <2>2 DEF PollFlagInv, Flags
  <2>3. CASE f = "polling"
    BY <1>1, <2>1, <2>3 DEF PollFlagInv, Wanted
  <2> QED BY <1>2, <2>2, <2>3
<1>5. ModeInv'
  <2>1. ASSUME NEW g \in Wanted(body)
        PROVE  /\ granted'[g] = {}
               /\ Saved(g)' /\ ~failed' => nvs'[g] = Wish(g)
               /\ Copied(g)' /\ ~failed' => ram'[g] = Wish(g)
    <3>1. /\ granted[g] = {}
          /\ Saved(g) /\ ~failed => nvs[g] = Wish(g)
          /\ Copied(g) /\ ~failed => ram[g] = Wish(g)
      BY <1>2, <2>1 DEF FlagsInv, ModeInv
    <3>2. g \in {"writes", "polling"}
      BY <2>1 DEF Wanted, Flags
    <3>3. Saved(g)' => Saved(g)
      BY <1>1, <1>2, <3>2, CopyStage
    <3>4. CASE g = f
      BY <1>1, <2>1, <3>1, <3>3, <3>4
    <3>5. CASE g # f
      <4>1. ram'[g] = ram[g]
        BY <1>1, <3>2, <3>5 DEF Flags
      <4>2. Copied(g)' => Copied(g)
        BY <1>1, <1>2, <3>2, <3>5, CopyStage
      <4> QED BY <1>1, <3>1, <3>3, <4>1, <4>2
    <3> QED BY <3>4, <3>5
  <2>2. body' = body /\ body \in ModeBodies /\ Wanted(body)' = Wanted(body)
    BY <1>1, <1>2 DEF FlagsInv, ModeInv, Wanted
  <2> QED BY <2>1, <2>2 DEF ModeInv, Wish, Saved, Copied, ModeStates, Wanted
<1> QED BY <1>3, <1>4, <1>5 DEF FlagsInv

\* The poll task is told what the settings hold by now.
LEMMA ModeApplyStep ==
  ASSUME ApiTypes, FlagsInv, ModeApply
  PROVE  FlagsInv'
<1>1. /\ http = "apply" /\ http' = "moded" /\ UNCHANGED <<body, failed, ram, nvs, granted>>
      /\ IF ~failed /\ "polling" \in Wanted(body) THEN enabled' = Wish("polling")
                                                  ELSE enabled' = enabled
  BY DEF ModeApply, Applies, SetEnabled, apiVars, allVars, pollVars
<1>2. ~failed /\ "polling" \in Wanted(body) => ram["polling"] = Wish("polling")
  BY <1>1 DEF FlagsInv, ModeInv, ModeStates, Copied
<1>3. PollFlagInv'
  BY <1>1, <1>2 DEF FlagsInv, PollFlagInv
<1>4. GrantedFlagsHold'
  BY <1>1 DEF FlagsInv, GrantedFlagsHold
<1>5. ModeInv'
  BY <1>1 DEF FlagsInv, ModeInv, ModeStates, Saved, Copied, Wanted, Wish, Flags
<1> QED BY <1>3, <1>4, <1>5 DEF FlagsInv

\* When a mode change has gone well, flash, RAM and the poll task have it.
LEMMA ModeDone ==
  ASSUME FlagsInv, http = "moded", ~failed, NEW f \in Wanted(body)
  PROVE  nvs[f] = Wish(f) /\ ram[f] = Wish(f) /\ granted[f] = {}
<1>1. http \in ModeStates /\ Saved(f) /\ Copied(f)
  BY DEF ModeStates, Saved, Copied
<1> QED BY <1>1 DEF FlagsInv, ModeInv

LEMMA ModeReplyStep ==
  ASSUME ApiTypes, FlagsInv, ModeReply
  PROVE  FlagsInv'
<1>1. /\ http = "moded" /\ UNCHANGED <<ram, nvs, enabled>> /\ http' = "answer"
      /\ granted' = IF failed THEN granted
                    ELSE [f \in Flags |-> IF f \in Wanted(body) THEN {Wish(f)} ELSE granted[f]]
  BY DEF ModeReply, Send, allVars, pollVars
<1>2. PollFlagInv' /\ ModeInv'
  BY <1>1 DEF FlagsInv, PollFlagInv, ModeInv, ModeStates
<1>3. GrantedFlagsHold'
  <2>1. CASE failed
    BY <1>1, <2>1 DEF FlagsInv, GrantedFlagsHold
  <2>2. CASE ~failed
    <3>1. ASSUME NEW f \in Flags, NEW b \in granted'[f]
          PROVE  nvs[f] = b /\ ram[f] \in {b, FALSE}
      <4>1. CASE f \in Wanted(body)
        <5>1. b = Wish(f)
          BY <1>1, <2>2, <3>1, <4>1
        <5> QED BY <1>1, <2>2, <4>1, <5>1, ModeDone
      <4>2. CASE f \notin Wanted(body)
        <5>1. b \in granted[f]
          BY <1>1, <2>2, <3>1, <4>2
        <5> QED BY <5>1 DEF FlagsInv, GrantedFlagsHold
      <4> QED BY <4>1, <4>2
    <3> QED BY <1>1, <3>1 DEF GrantedFlagsHold
  <2> QED BY <2>1, <2>2
<1> QED BY <1>2, <1>3 DEF FlagsInv

(* A reset: a flag that cannot be read comes up off, and so does every flag of *)
(* a flash that was erased.                                                    *)
LEMMA RebootFlags ==
  ASSUME ApiTypes, FlagsInv, Reboot
  PROVE  FlagsInv'
<1>1. /\ ram' \in [Flags -> BOOLEAN] /\ \A f \in Flags : ram'[f] => nvs'[f]
      /\ enabled' = ram'["polling"] /\ http' = "idle"
  BY DEF Reboot, Loaded
<1>2. PollFlagInv' /\ ModeInv'
  BY <1>1 DEF PollFlagInv, ModeInv, ModeStates
<1>3. ASSUME NEW f \in Flags, NEW b \in granted'[f]
      PROVE  nvs'[f] = b /\ b \in BOOLEAN
  <2>1. CASE UNCHANGED <<nvs, granted>>
    BY <1>3, <2>1 DEF FlagsInv, GrantedFlagsHold, ApiTypes
  <2>2. CASE nvs' = AllOff /\ granted' = [g \in Flags |-> granted[g] \ {TRUE}]
    <3>1. b \in granted[f] \ {TRUE}
      BY <1>3, <2>2
    <3>2. b = FALSE
      <4>1. granted[f] \subseteq BOOLEAN
        BY DEF ApiTypes
      <4> QED BY <3>1, <4>1
    <3> QED BY <2>2, <3>2 DEF AllOff
  <2> QED BY <2>1, <2>2 DEF Reboot
<1>4. GrantedFlagsHold'
  <2>1. ASSUME NEW f \in Flags, NEW b \in granted'[f]
        PROVE  ram'[f] \in {b, FALSE}
    <3>1. nvs'[f] = b /\ b \in BOOLEAN
      BY <1>3
    <3>2. ram'[f] \in BOOLEAN /\ (ram'[f] => nvs'[f])
      BY <1>1
    <3> QED BY <3>1, <3>2
  <2> QED BY <1>3, <2>1 DEF GrantedFlagsHold
<1> QED BY <1>2, <1>4 DEF FlagsInv

LEMMA FlagsHold ==
  ASSUME ApiTypes, FlagsInv, [ApiNext]_vars
  PROVE  FlagsInv'
<1>1. CASE \/ Reboot \/ ModeApply \/ ModeReply
           \/ \E f \in Flags : ModeSave(f) \/ ModeCopy(f)
  BY <1>1, RebootFlags, ModeSaveStep, ModeCopyStep, ModeApplyStep, ModeReplyStep
<1>2. CASE \E b \in ModeBodies : ModePost(b)
  <2>1. PICK b \in ModeBodies : ModePost(b)
    BY <1>2
  <2>2. /\ http = "body" /\ http' = "writes" /\ body' = b /\ UNCHANGED <<ram, nvs, enabled>>
        /\ granted' = [f \in Flags |-> IF f \in Wanted(b) THEN {} ELSE granted[f]]
    BY <2>1 DEF ModePost, Received, allVars, pollVars
  <2>3. ModeInv'
    <3>1. Wanted(body)' = Wanted(b) /\ Wanted(b) \subseteq Flags
      BY <2>2 DEF Wanted
    <3>2. \A f \in Wanted(b) : granted'[f] = {} /\ ~Saved(f)' /\ ~Copied(f)'
      BY <2>2, <3>1 DEF Saved, Copied
    <3> QED BY <2>2, <3>1, <3>2 DEF ModeInv, Wanted, Saved, Copied
  <2>4. PollFlagInv' /\ GrantedFlagsHold'
    BY <2>2 DEF FlagsInv, GrantedFlagsHold, PollFlagInv
  <2> QED BY <2>3, <2>4 DEF FlagsInv
<1>3. CASE (BoardStep /\ UNCHANGED httpVars) \/ Elapse \/ UNCHANGED vars
  <2>1. UNCHANGED <<http, body, failed, ram, nvs, granted>>
    BY <1>3 DEF httpVars, statusVars, apiVars, Elapse, allStatusVars, vars
  <2>2. enabled' = enabled
    BY <1>3 DEF BoardStep, PollTaskStep, PollTop, PollSpan, PollStore, PollPublish,
                BusOutside, Locks, Transact, CountSends, pollVars, allVars, Elapse,
                allStatusVars, vars
  <2> QED BY <2>1, <2>2 DEF FlagsInv, GrantedFlagsHold, PollFlagInv, ModeInv, Wanted, Wish,
                            Saved, Copied, ModeStates
<1>4. CASE \/ Unauthorized \/ BodyLengthBad \/ \E to \in Posts : PostBegins(to)
           \/ RegistersLimited \/ RegistersInvalid \/ \E q \in Queries : RegistersRead(q)
           \/ StatusArrives /\ UNCHANGED apiVars
           \/ ModeGet \/ Browse \/ BodyCut \/ \E to \in Posts : BodyInvalid(to)
           \/ \E s \in Setpoints : SetpointRefused(s) \/ SetpointPost(s)
           \/ BusReply
           \/ (StatusStep \/ Purged) /\ UNCHANGED apiVars
  <2>1. UNCHANGED <<body, failed, ram, nvs, granted, enabled>>
    BY <1>4 DEF Unauthorized, BodyLengthBad, TurnAway, PostBegins, RegistersLimited,
                RegistersInvalid, RegistersRead, StatusArrives, StatusUnready, StatusGet,
                ModeGet, Browse, BodyCut, BodyInvalid, SetpointRefused, SetpointPost, BusReply,
                StatusStep, StatusLoopWord, StatusConfig, StatusWord, StatusReply, Sent,
                Purged, apiVars, allVars, pollVars
  <2>2. http' \notin ModeStates /\ http \notin ModeStates
    <3>1. CASE \/ Unauthorized \/ BodyLengthBad \/ \E to \in Posts : PostBegins(to)
               \/ RegistersLimited \/ RegistersInvalid \/ \E q \in Queries : RegistersRead(q)
               \/ ModeGet \/ Browse
      BY <3>1 DEF Unauthorized, BodyLengthBad, TurnAway, PostBegins, RegistersLimited,
                  RegistersInvalid, RegistersRead, ModeGet, Browse, Send, ModeStates
    <3>2. CASE \/ BodyCut \/ \E to \in Posts : BodyInvalid(to)
               \/ \E s \in Setpoints : SetpointRefused(s) \/ SetpointPost(s)
      BY <3>2 DEF BodyCut, TurnAway, BodyInvalid, Received, SetpointRefused, SetpointPost,
                  Send, ModeStates
    <3>3. CASE BusReply
      BY <3>3 DEF BusReply, Send, ModeStates
    <3>4. CASE StatusArrives \/ Purged
      BY <3>4 DEF StatusArrives, StatusUnready, StatusGet, Purged, Send, ModeStates
    <3>5. CASE StatusStep
      BY <3>5 DEF StatusStep, StatusLoopWord, StatusConfig, StatusWord, StatusReply, Sent,
                  Send, ModeStates
    <3> QED BY <1>4, <3>1, <3>2, <3>3, <3>4, <3>5
  <2>4. enabled = ram["polling"]
    BY <2>2 DEF FlagsInv, PollFlagInv, ModeStates
  <2> QED BY <2>1, <2>2, <2>4 DEF FlagsInv, GrantedFlagsHold, PollFlagInv, ModeInv
<1> QED BY <1>1, <1>2, <1>3, <1>4 DEF ApiNext, HttpArrives, HttpStep

---------------------------------------------------------------------------
(* What is written. *)

(* A setpoint that passes the checks is within the limits on the wire too: the *)
(* rounding to tenths cannot leave them.                                       *)
LEMMA UnfitFacts ==
  ASSUME NEW s \in Setpoints, Unfit(s) = 0
  PROVE  SetpointWrite(s).fc = "write" /\ Legal(SetpointWrite(s))
<1>1. s.zone \in 1..MaxZones /\ s.mode \in {"cool", "heat"} /\ s.value \in Nat
  BY ReadBody DEF Unfit
<1>2. ~(s.value < Low(s.mode) \/ s.value > High(s.mode))
  BY <1>1 DEF Unfit
<1>3. \A v \in Nat : /\ v >= 5400 /\ v <= 9900 => (v + 5) \div 10 \in CoolTenths
                     /\ v >= 4000 /\ v <= 9000 => (v + 5) \div 10 \in HeatTenths
  BY DEF CoolTenths, HeatTenths
<1>4. /\ SetpointWrite(s).fc = "write"
      /\ SetpointWrite(s).reg = SetpointReg(s) /\ SetpointWrite(s).arg = Tenths(s.value)
  BY DEF SetpointWrite
<1>5. CASE s.mode = "cool"
  <2>1. s.value >= 5400 /\ s.value <= 9900
    BY <1>1, <1>2, <1>5 DEF Low, High
  <2>2. Tenths(s.value) \in CoolTenths /\ SetpointReg(s) = 21204 + 9 * (s.zone - 1)
    BY <1>1, <1>3, <1>5, <2>1 DEF Tenths, SetpointReg
  <2>3. \E z \in 1..MaxZones : /\ SetpointWrite(s).reg = 21204 + 9 * (z - 1)
                               /\ SetpointWrite(s).arg \in CoolTenths
    BY <1>1, <1>4, <2>2
  <2> QED BY <1>4, <2>3 DEF Legal
<1>6. CASE s.mode = "heat"
  <2>1. s.value >= 4000 /\ s.value <= 9000
    BY <1>1, <1>2, <1>6 DEF Low, High
  <2>2. Tenths(s.value) \in HeatTenths /\ SetpointReg(s) = 21203 + 9 * (s.zone - 1)
    BY <1>1, <1>3, <1>6, <2>1 DEF Tenths, SetpointReg
  <2>3. \E z \in 1..MaxZones : /\ SetpointWrite(s).reg = 21203 + 9 * (z - 1)
                               /\ SetpointWrite(s).arg \in HeatTenths
    BY <1>1, <1>4, <2>2
  <2> QED BY <1>4, <2>3 DEF Legal
<1> QED BY <1>1, <1>5, <1>6

(* Nothing but the server moves it into or out of the driver. *)
LEMMA BoardLeavesCall ==
  ASSUME PollInv, BoardStep
  PROVE  /\ pc'[HttpTask] # "idle" => pc[HttpTask] # "idle"
         /\ req'[HttpTask] = req[HttpTask]
<1>0. HttpTask \in Tasks /\ HttpTask # PollTask /\ PollTask \in Tasks
  BY HttpTaskAssumption, SpanAssumption
<1>1. pc \in [Tasks -> PcStates] /\ req \in [Tasks -> Requests \cup {NoReq}]
  BY DEF PollInv, PollTypeOK, BusTypeOK
<1>2. CASE PollTaskStep
  BY <1>0, <1>1, <1>2 DEF PollTaskStep, PollTop, PollSpan, PollStore, PollPublish, Call,
                          Return, busVars
<1>3. CASE BusOutside
  BY <1>3, OutsideFrame DEF BusOutside
<1>4. CASE \E t \in Tasks : Locks(t) \/ Transact(t)
  <2>1. PICK t \in Tasks : Locks(t) \/ Transact(t)
    BY <1>4
  <2>2. req' = req
    BY <2>1, DriverView DEF PollInv
  <2>3. pc[t] # "idle" /\ (pc' = pc \/ \E p : pc' = [pc EXCEPT ![t] = p])
    <3>1. pc[t] # "idle"
      BY <2>1 DEF Locks, Transact, Transaction, TakeLock, IdleWait, Transmit, TxFail, Receive,
                  Timeout, GiveLock
    <3>2. \/ pc' = pc
          \/ \E p \in {"quiet", "send", "await", "delay", "done"} : pc' = [pc EXCEPT ![t] = p]
      BY <2>1 DEF Locks, Transact, Transaction, TakeLock, IdleWait, Transmit, TxFail, Receive,
                  Timeout, GiveLock
    <3> QED BY <1>1, <3>1, <3>2
  <2> QED BY <1>0, <1>1, <2>2, <2>3
<1> QED BY <1>2, <1>3, <1>4 DEF BoardStep

LEMMA CallHolds ==
  ASSUME PollInv, ApiTypes, HttpCallInv, [ApiNext]_vars
  PROVE  HttpCallInv'
<1>0. HttpTask \in Tasks /\ pc \in [Tasks -> PcStates]
      /\ req \in [Tasks -> Requests \cup {NoReq}]
  BY HttpTaskAssumption DEF PollInv, PollTypeOK, BusTypeOK
<1>1. CASE Reboot \/ BusReply
  <2>1. pc'[HttpTask] = "idle"
    BY <1>0, <1>1 DEF Reboot, BusReply, Return
  <2> QED BY <2>1 DEF HttpCallInv
<1>2. CASE \E q \in Queries : RegistersRead(q)
  <2>1. http' = "registers" /\ req'[HttpTask].fc = "read"
    BY <1>0, <1>2, ReadBody DEF RegistersRead, Call
  <2> QED BY <2>1 DEF HttpCallInv
<1>3. CASE \E s \in Setpoints : SetpointPost(s)
  <2>1. PICK s \in Setpoints : SetpointPost(s)
    BY <1>3
  <2>2. MayWrite /\ Unfit(s) = 0
    BY <2>1 DEF SetpointPost, Complaint
  <2>3. http' = "setpoint" /\ ram'["writes"] /\ req'[HttpTask] = SetpointWrite(s)
    BY <1>0, <2>1, <2>2 DEF SetpointPost, Call, apiVars, MayWrite
  <2> QED BY <2>2, <2>3, UnfitFacts DEF HttpCallInv, Legal
<1>4. CASE (BoardStep /\ UNCHANGED httpVars) \/ Elapse \/ UNCHANGED vars
  <2>1. http' = http /\ ram' = ram
    BY <1>4 DEF httpVars, statusVars, apiVars, Elapse, allStatusVars, vars
  <2>2. /\ pc'[HttpTask] # "idle" => pc[HttpTask] # "idle"
        /\ req'[HttpTask] = req[HttpTask]
    BY <1>4, BoardLeavesCall DEF Elapse, allStatusVars, vars, allVars, busVars
  <2> QED BY <2>1, <2>2 DEF HttpCallInv, Legal
\* Everywhere else the server is not in the driver.
<1>5. CASE \/ Unauthorized \/ BodyLengthBad \/ \E to \in Posts : PostBegins(to)
           \/ RegistersLimited \/ RegistersInvalid \/ StatusArrives \/ ModeGet \/ Browse
           \/ BodyCut \/ \E to \in Posts : BodyInvalid(to)
           \/ \E s \in Setpoints : SetpointRefused(s)
           \/ \E b \in ModeBodies : ModePost(b)
           \/ \E f \in Flags : ModeSave(f) \/ ModeCopy(f)
           \/ ModeApply \/ ModeReply \/ StatusStep \/ Purged
  <2>1. http \notin {"registers", "setpoint"}
    BY SMTT(20), <1>5 DEF Unauthorized, BodyLengthBad, PostBegins, RegistersLimited,
                RegistersInvalid, StatusArrives, StatusUnready, StatusGet, ModeGet, Browse,
                BodyCut, BodyInvalid, Received, SetpointRefused, ModePost, ModeSave, ModeCopy,
                Flags, ModeApply, ModeReply, StatusStep, StatusLoopWord, StatusConfig,
                StatusWord, StatusReply, Sent, Purged
  <2>2. pc' = pc
    BY <1>5 DEF Unauthorized, BodyLengthBad, TurnAway, PostBegins, RegistersLimited,
                RegistersInvalid, StatusArrives, StatusUnready, StatusGet, ModeGet, Browse,
                BodyCut, BodyInvalid, SetpointRefused, ModePost, ModeSave, ModeCopy,
                ModeApply, SetEnabled, ModeReply, StatusStep, StatusLoopWord, StatusConfig,
                StatusWord, StatusReply, Sent, Purged, allVars, busVars
  <2> QED BY <2>1, <2>2 DEF HttpCallInv
<1> QED BY <1>1, <1>2, <1>3, <1>4, <1>5 DEF ApiNext, HttpArrives, HttpStep

---------------------------------------------------------------------------
LEMMA ApiInvInit ==
  ASSUME ApiInit
  PROVE  ApiInv
<1>1. PollInv
  BY PollInvInit DEF ApiInit
<1>2. http = "idle" /\ page = NoPage /\ reply = NoReply
  BY DEF ApiInit
<1>3. PageInv
  <2>1. StatusInit
    BY <1>2 DEF ApiInit, StatusInit
  <2> QED BY <2>1, StatusInvInit DEF StatusInv
<1>4. ApiTypes
  <2>1. ram \in [Flags -> BOOLEAN] /\ nvs \in [Flags -> BOOLEAN]
    BY DEF ApiInit, Loaded
  <2>2. granted \in [Flags -> SUBSET BOOLEAN]
    BY <2>1 DEF ApiInit
  <2>3. reply \in Replies
    BY <1>2 DEF NoReply, Replies, Requesters
  <2>4. body = NoBody /\ failed = FALSE /\ recent = FALSE
    BY DEF ApiInit
  <2> QED BY <1>2, <2>1, <2>2, <2>3, <2>4 DEF ApiTypes, HttpStates
<1>5. FlagsInv
  <2>1. GrantedFlagsHold
    <3>1. \A f \in Flags : ram[f] \in BOOLEAN /\ nvs[f] \in BOOLEAN /\ (ram[f] => nvs[f])
      BY DEF ApiInit, Loaded
    <3>2. \A f \in Flags : granted[f] = {nvs[f]}
      BY DEF ApiInit
    <3> QED BY <3>1, <3>2 DEF GrantedFlagsHold
  <2>2. PollFlagInv /\ ModeInv
    BY DEF ApiInit, PollFlagInv, ModeInv, ModeStates
  <2> QED BY <2>1, <2>2 DEF FlagsInv
<1>6. HttpCallInv
  <2>1. pc[HttpTask] = "idle"
    BY HttpTaskAssumption DEF ApiInit, PollInit, BusInit
  <2> QED BY <2>1 DEF HttpCallInv
<1> QED BY <1>1, <1>3, <1>4, <1>5, <1>6 DEF ApiInv

LEMMA ApiInvNext ==
  ASSUME ApiInv, [ApiNext]_vars
  PROVE  ApiInv'
BY PollInvHolds, PageHolds, TypesHold, FlagsHold, CallHolds DEF ApiInv

(* The state of the server, the settings and all below them is well typed. *)
THEOREM ApiTypeCorrect == ApiSpec => []ApiTypeOK
<1>1. ApiInit => ApiInv
  BY ApiInvInit
<1>2. ApiInv /\ [ApiNext]_vars => ApiInv'
  BY ApiInvNext
<1>3. ApiInv => ApiTypeOK
  <2> SUFFICES ASSUME ApiInv
               PROVE  ApiTypeOK
    OBVIOUS
  <2>1. PageOK(page)
    BY DEF ApiInv, PageInv, PageShape, Pages, Ages, PageOK
  <2> QED BY <2>1 DEF ApiInv, PollInv, ApiTypes, ApiTypeOK
<1> QED BY <1>1, <1>2, <1>3, PTL DEF ApiSpec

(* What a mode change was granted with a 200 is in flash and in force, through *)
(* failing flash, changes cut short by a reset, and resets that find the flash *)
(* erased or unreadable.                                                       *)
THEOREM GrantedFlagsAlwaysHold == ApiSpec => []GrantedFlagsHold
<1>1. ApiInit => ApiInv
  BY ApiInvInit
<1>2. ApiInv /\ [ApiNext]_vars => ApiInv'
  BY ApiInvNext
<1>3. ApiInv => GrantedFlagsHold
  BY DEF ApiInv, FlagsInv
<1> QED BY <1>1, <1>2, <1>3, PTL DEF ApiSpec

\* A step that ends in a reply leaves the flags in RAM alone, and only the mode
\* change in progress ends a mode change.
LEMMA AnswerStep ==
  ASSUME [ApiNext]_vars, http # "answer", http' = "answer"
  PROVE  ram' = ram /\ http # "apply" /\ (http = "moded" => ModeReply)
<1>1. ~Reboot /\ ~(Purged /\ UNCHANGED apiVars) /\ ~(BoardStep /\ UNCHANGED httpVars)
      /\ ~Elapse /\ ~UNCHANGED vars
  BY DEF Reboot, Purged, httpVars, statusVars, Elapse, allStatusVars, vars
<1>2. ~\E f \in Flags : ModeSave(f) \/ ModeCopy(f)
  BY DEF ModeSave, ModeCopy
<1>3. CASE ModeReply
  BY <1>3 DEF ModeReply
<1>4. CASE ~ModeReply
  <2>1. \/ Unauthorized \/ BodyLengthBad \/ \E to \in Posts : PostBegins(to)
        \/ RegistersLimited \/ RegistersInvalid \/ \E q \in Queries : RegistersRead(q)
        \/ StatusArrives /\ UNCHANGED apiVars
        \/ ModeGet \/ Browse \/ BodyCut \/ \E to \in Posts : BodyInvalid(to)
        \/ \E s \in Setpoints : SetpointRefused(s) \/ SetpointPost(s)
        \/ \E b \in ModeBodies : ModePost(b)
        \/ BusReply \/ ModeApply
        \/ StatusStep /\ UNCHANGED apiVars
    BY <1>1, <1>2, <1>4 DEF ApiNext, HttpArrives, HttpStep
  <2> QED BY <2>1 DEF Unauthorized, BodyLengthBad, TurnAway, PostBegins, RegistersLimited,
                RegistersInvalid, RegistersRead, StatusArrives, StatusUnready, StatusGet,
                ModeGet, Browse, BodyCut, BodyInvalid, Received, SetpointRefused, SetpointPost,
                ModePost, BusReply, ModeApply, StatusStep, StatusLoopWord, StatusConfig,
                StatusWord, StatusReply, Sent, apiVars
<1> QED BY <1>3, <1>4

LEMMA ModeTold ==
  ASSUME ApiInv, [ApiNext]_vars, http # "answer", http' = "answer",
         reply'.to \in {"flags", "mode"}, reply'.status = 200
  PROVE  /\ \A f \in Flags : Told(f) = ram[f] /\ \A b \in granted'[f] : Told(f) \in {b, FALSE}
         /\ http = "moded" => \A f \in Wanted(body) : Told(f) = Wish(f) /\ nvs[f] = Wish(f)
<1>1. ram' = ram /\ http # "apply" /\ (http = "moded" => ModeReply)
  BY AnswerStep
<1>2. \A f \in Flags : Told(f) = ram[f]
  BY <1>1 DEF ApiInv, FlagsInv, PollFlagInv, Told, Flags
<1>3. \A f \in Flags : \A b \in granted'[f] : ram[f] \in {b, FALSE}
  BY <1>1, ApiInvNext DEF ApiInv, FlagsInv, GrantedFlagsHold
<1>4. ASSUME http = "moded", NEW f \in Wanted(body)
      PROVE  Told(f) = Wish(f) /\ nvs[f] = Wish(f)
  <2>1. reply'.status = IF failed THEN 500 ELSE 200
    <3>1. ModeReply
      BY <1>1, <1>4
    <3> QED BY <3>1 DEF ModeReply, Send, NoReply
  <2>2. ~failed /\ f \in Flags
    BY <1>4, <2>1 DEF Wanted
  <2> QED BY <1>2, <1>4, <2>2, ModeDone DEF ApiInv
<1> QED BY <1>2, <1>3, <1>4

(* What /api/mode tells, asked or after a change, is what is in force, never    *)
(* on for a flag last granted off, and after a change what was asked for, in    *)
(* flash as well.                                                               *)
THEOREM ModeAlwaysTellsTruth == ApiSpec => ModeTellsTruth
<1>1. ApiInit => ApiInv
  BY ApiInvInit
<1>2. ApiInv /\ [ApiNext]_vars => ApiInv'
  BY ApiInvNext
<1>3. ApiInv /\ [ApiNext]_vars =>
        [http # "answer" /\ http' = "answer" /\ reply'.to \in {"flags", "mode"}
         /\ reply'.status = 200 =>
           /\ \A f \in Flags : Told(f) = ram[f]
                               /\ \A b \in granted'[f] : Told(f) \in {b, FALSE}
           /\ http = "moded" =>
                \A f \in Wanted(body) : Told(f) = Wish(f) /\ nvs[f] = Wish(f)]_vars
  BY ModeTold
<1> QED BY <1>1, <1>2, <1>3, PTL DEF ApiSpec, ModeTellsTruth

(* For any setpoint bodies, only a legal one is ever on its way to the ABC, and *)
(* only while writes are enabled.                                               *)
THEOREM WritesAreAlwaysLegal == ApiSpec => []WritesAreLegal
<1>1. ApiInit => ApiInv
  BY ApiInvInit
<1>2. ApiInv /\ [ApiNext]_vars => ApiInv'
  BY ApiInvNext
<1>3. ApiInv => WritesAreLegal
  BY DEF ApiInv, HttpCallInv, Legal, CoolTenths, HeatTenths, WritesAreLegal
<1> QED BY <1>1, <1>2, <1>3, PTL DEF ApiSpec

(* Behind the server, and across resets, a status still leaves nothing out and *)
(* has no word older than the beginning of the loop its age is counted from.   *)
THEOREM StatusOfTheServer == ApiSpec => [](AgeWithinOneLoop /\ StatusIsComplete /\ StatusNotStale)
<1>1. ApiInit => ApiInv
  BY ApiInvInit
<1>2. ApiInv /\ [ApiNext]_vars => ApiInv'
  BY ApiInvNext
<1>3. ApiInv => AgeWithinOneLoop /\ StatusIsComplete /\ StatusNotStale
  BY CompletePage, FreshPage DEF ApiInv, PollInv
<1> QED BY <1>1, <1>2, <1>3, PTL DEF ApiSpec

---------------------------------------------------------------------------
(* The quiet bus: no reset brings back what another task asked. *)
LEMMA QuietHolds ==
  ASSUME ApiInv, QuietBus, QuietInv, [ApiNext]_vars
  PROVE  QuietInv'
<1>1. CASE Reboot
  <2>1. /\ air' = {} /\ rx' = {} /\ pc' = [t \in Tasks |-> "idle"]
    BY <1>1 DEF Reboot, QuietBus
  <2> QED BY <2>1 DEF QuietInv, AirInv, RxInv, OwnInv, Replied
<1>2. CASE ~Reboot
  <2>1. [BusNext]_busVars
    <3>1. [PollNext]_allVars
      BY <1>2, ServerUsesPoller DEF vars, allStatusVars
    <3> QED BY <3>1, PollUsesBus DEF allVars
  <2> QED BY <2>1, QuietInvNext DEF ApiInv, PollInv
<1> QED BY <1>1, <1>2

LEMMA WrittenStep ==
  ASSUME ApiInv, QuietBus, QuietInv, ApiNext,
         http = "setpoint", http' = "answer", reply'.status = 200
  PROVE  HttpTask \in applied
<1>1. BusReply
  <2>1. ~Reboot /\ ~(BoardStep /\ UNCHANGED httpVars) /\ ~Elapse
    BY DEF Reboot, httpVars, statusVars, Elapse, allStatusVars
  <2>2. ~(\/ Unauthorized \/ BodyLengthBad \/ \E to \in Posts : PostBegins(to)
          \/ RegistersLimited \/ RegistersInvalid \/ \E q \in Queries : RegistersRead(q)
          \/ StatusArrives \/ ModeGet \/ Browse
          \/ BodyCut \/ \E to \in Posts : BodyInvalid(to)
          \/ \E s \in Setpoints : SetpointRefused(s) \/ SetpointPost(s)
          \/ \E b \in ModeBodies : ModePost(b)
          \/ \E f \in Flags : ModeSave(f) \/ ModeCopy(f)
          \/ ModeApply \/ ModeReply \/ StatusStep \/ Purged)
    BY DEF Unauthorized, BodyLengthBad, PostBegins, RegistersLimited,
           RegistersInvalid, RegistersRead, StatusArrives, StatusUnready, StatusGet,
           ModeGet, Browse, BodyCut, BodyInvalid, Received, SetpointRefused, SetpointPost,
           ModePost, ModeSave, ModeCopy, Flags, ModeApply, ModeReply, StatusStep,
           StatusLoopWord, StatusConfig, StatusWord, StatusReply, Sent, Purged
  <2> QED BY <2>1, <2>2 DEF ApiNext, HttpArrives, HttpStep
<1>2. pc[HttpTask] = "done" /\ HttpTask \in Tasks
  BY <1>1, HttpTaskAssumption DEF BusReply, Return
<1>3. err[HttpTask] = "ESP_OK"
  <2>1. reply'.status = BusStatus
    BY <1>1 DEF BusReply, Send, NoReply
  <2> QED BY <2>1 DEF BusStatus
<1>4. req[HttpTask].fc = "write"
  BY <1>2 DEF ApiInv, HttpCallInv
<1> QED BY <1>2, <1>3, <1>4 DEF QuietInv, OwnInv, Replied

(* On a quiet bus "written": true is never said of a write the ABC has not      *)
(* carried out, whatever else is under way and however often the board resets.  *)
THEOREM WrittenIsWritten == ApiSpec => WrittenMeansWritten
<1> DEFINE Inv == ApiInv /\ (QuietBus => QuietInv)
<1>1. ApiInit => Inv
  BY ApiInvInit, QuietInvInit DEF ApiInit, PollInit
<1>2. Inv /\ [ApiNext]_vars => Inv'
  <2>1. QuietBus' = QuietBus
    BY DEF QuietBus
  <2> QED BY <2>1, ApiInvNext, QuietHolds
<1>3. Inv /\ [ApiNext]_vars =>
        [QuietBus /\ http = "setpoint" /\ http' = "answer" /\ reply'.status = 200
           => HttpTask \in applied]_vars
  BY WrittenStep
<1> QED BY <1>1, <1>2, <1>3, PTL DEF ApiSpec, WrittenMeansWritten

---------------------------------------------------------------------------
(* What becomes of a body. *)

\* An answer that leaves the body of a post unread, or refuses a guarded
\* request, is one after which the socket is closed.
BodyInv == reply.unread \/ reply.to = "guarded" => reply.close

\* Only the turning away of a request leaves a body behind.
LEMMA BodyHolds ==
  ASSUME BodyInv, [ApiNext]_vars
  PROVE  BodyInv'
<1>1. CASE UNCHANGED reply
  BY <1>1 DEF BodyInv
<1>2. CASE reply' = NoReply
  BY <1>2 DEF NoReply, BodyInv
<1>3. CASE \E to, status : TurnAway(to, status)
  BY <1>3 DEF TurnAway, Closes, NoReply, BodyInv
<1>4. CASE \E to \in Requesters \ {"guarded"} : \E status, exc : Send(to, status, exc)
  BY <1>4 DEF Send, NoReply, BodyInv
<1>5. CASE \E to \in Posts : PostBegins(to)
  BY <1>5 DEF PostBegins, NoReply, Posts, BodyInv
<1>6. ASSUME HttpArrives
      PROVE  \/ UNCHANGED reply
             \/ \E to, status : TurnAway(to, status)
             \/ \E to \in Requesters \ {"guarded"} : \E status, exc : Send(to, status, exc)
             \/ \E to \in Posts : PostBegins(to)
  BY <1>6 DEF HttpArrives, Unauthorized, BodyLengthBad, RegistersLimited, RegistersInvalid,
              RegistersRead, StatusArrives, StatusUnready, StatusGet, ModeGet, Browse, Requesters
<1>7. ASSUME HttpStep
      PROVE  \/ UNCHANGED reply \/ reply' = NoReply
             \/ \E to, status : TurnAway(to, status)
             \/ \E to \in Requesters \ {"guarded"} : \E status, exc : Send(to, status, exc)
  <2>1. CASE BodyCut
    BY <2>1 DEF BodyCut
  <2>2. CASE \E to \in Posts : BodyInvalid(to)
    BY <2>2 DEF BodyInvalid, Posts, Requesters
  <2>3. CASE \E s \in Setpoints : SetpointRefused(s) \/ SetpointPost(s)
    BY <2>3 DEF SetpointRefused, SetpointPost, Requesters
  <2>4. CASE BusReply
    BY <2>4 DEF BusReply, Requesters
  <2>5. CASE StatusStep
    BY <2>5 DEF StatusStep, StatusLoopWord, StatusConfig, StatusWord, StatusReply, Sent, Requesters
  <2>6. CASE \/ \E b \in ModeBodies : ModePost(b)
             \/ \E f \in Flags : ModeSave(f) \/ ModeCopy(f)
             \/ ModeApply \/ ModeReply
    BY <2>6 DEF ModePost, ModeSave, ModeCopy, ModeApply, ModeReply, Requesters
  <2> QED BY <1>7, <2>1, <2>2, <2>3, <2>4, <2>5, <2>6 DEF HttpStep
<1>8. CASE Elapse \/ Purged \/ (BoardStep /\ UNCHANGED httpVars) \/ UNCHANGED vars
  BY <1>1, <1>8 DEF Elapse, Purged, httpVars, vars, allStatusVars, statusVars
<1>9. CASE Reboot
  BY <1>2, <1>9 DEF Reboot
<1>10. CASE HttpArrives
  BY <1>1, <1>3, <1>4, <1>5, <1>6, <1>10
<1>11. CASE HttpStep
  BY <1>1, <1>2, <1>3, <1>4, <1>7, <1>11
<1> QED BY <1>8, <1>9, <1>10, <1>11 DEF ApiNext

\* The purge begins where an answer has been sent.
LEMMA PurgeStep ==
  ASSUME BodyInv, ApiNext, http' = "purge", http # "purge"
  PROVE  reply.to \notin Posts \cup {"guarded"}
<1>1. Sent
  <2>1. ~Reboot /\ ~(BoardStep /\ UNCHANGED httpVars) /\ ~Elapse /\ ~Purged
    BY DEF Reboot, httpVars, statusVars, Elapse, allStatusVars, Purged
  <2>2. ~HttpArrives
    BY DEF HttpArrives, Unauthorized, BodyLengthBad, TurnAway, PostBegins, RegistersLimited,
           RegistersInvalid, RegistersRead, StatusArrives, StatusUnready, StatusGet, ModeGet,
           Browse, Send
  <2>3. ~(\/ BodyCut \/ \E to \in Posts : BodyInvalid(to)
          \/ \E s \in Setpoints : SetpointRefused(s) \/ SetpointPost(s)
          \/ \E b \in ModeBodies : ModePost(b)
          \/ BusReply
          \/ \E f \in Flags : ModeSave(f) \/ ModeCopy(f)
          \/ ModeApply \/ ModeReply
          \/ StatusLoopWord \/ StatusConfig \/ StatusWord \/ StatusReply)
    BY DEF BodyCut, TurnAway, BodyInvalid, SetpointRefused, SetpointPost, ModePost, BusReply,
           ModeSave, ModeCopy, ModeApply, ModeReply, StatusLoopWord, StatusConfig, StatusWord,
           StatusReply, Send
  <2> QED BY <2>1, <2>2, <2>3 DEF ApiNext, HttpStep, StatusStep
<1> QED BY <1>1 DEF Sent, BodyLeft, BodyInv

(* A request that is refused, and a post however it ends, never make the server *)
(* purge a body.                                                                *)
THEOREM RefusalsNeverPurge == ApiSpec => RefusedPostsClose
<1>1. ApiInit => BodyInv
  BY DEF ApiInit, BodyInv, NoReply
<1>2. BodyInv /\ [ApiNext]_vars => BodyInv'
  BY BodyHolds
<1>3. BodyInv /\ [ApiNext]_vars =>
        [http' = "purge" /\ http # "purge" => reply.to \notin Posts \cup {"guarded"}]_vars
  BY PurgeStep
<1> QED BY <1>1, <1>2, <1>3, PTL DEF ApiSpec, RefusedPostsClose

---------------------------------------------------------------------------
(* What the poll task and the page are proved to do behind the server, and     *)
(* from one reset to the next.                                                 *)

\* A reset empties the cache and the UART; what the ABC is at goes on.
LEMMA TimeHolds ==
  ASSUME PollInv, TimeInv, [ApiNext]_vars
  PROVE  TimeInv'
<1>1. CASE Reboot
  <2>1. /\ rx' = {} /\ cache' = [r \in PollRegs |-> {}] /\ pc'[PollTask] = "idle"
        /\ \A t \in Tasks : seen'[t] = {}
    BY <1>1, SpanAssumption DEF Reboot
  <2> QED BY <2>1, SpanAssumption DEF TimeInv, PastInv, CacheBy, OneWord
<1>2. CASE ~Reboot
  BY <1>2, ServerUsesPoller, TimeInvNext DEF vars, allStatusVars
<1> QED BY <1>1, <1>2

LEMMA SlotsHold ==
  ASSUME PollInv, QuietBus, QuietInv, OwnSlotInv, Together, [ApiNext]_vars
  PROVE  OwnSlotInv' /\ Together'
<1>1. CASE Reboot
  <2>1. \A r \in PollRegs : cache'[r] = {}
    BY <1>1 DEF Reboot
  <2>2. Together'
    BY <2>1 DEF Together, PollerGet, WordReg
  <2> QED BY <2>1, <2>2 DEF OwnSlotInv
<1>2. CASE ~Reboot
  BY <1>2, ServerUsesPoller, OwnSlotNext, TogetherNext DEF vars, allStatusVars
<1> QED BY <1>1, <1>2

\* No other request touches the page or begins one.
LEMMA OtherRequests ==
  ASSUME \/ Unauthorized \/ BodyLengthBad \/ \E to \in Posts : PostBegins(to)
         \/ RegistersLimited \/ RegistersInvalid \/ \E q \in Queries : RegistersRead(q)
         \/ ModeGet \/ Browse \/ BodyCut \/ \E to \in Posts : BodyInvalid(to)
         \/ \E s \in Setpoints : SetpointRefused(s) \/ SetpointPost(s)
         \/ \E b \in ModeBodies : ModePost(b)
         \/ \E f \in Flags : ModeSave(f) \/ ModeCopy(f)
         \/ BusReply \/ ModeApply \/ ModeReply
  PROVE  page' = page /\ http' # "zones"
BY DEF Unauthorized, BodyLengthBad, TurnAway, PostBegins, RegistersLimited,
       RegistersInvalid, RegistersRead, ModeGet, Browse, BodyCut, BodyInvalid,
       SetpointRefused, SetpointPost, ModePost, BusReply, ModeSave, ModeCopy, ModeApply,
       ModeReply, Send

LEMMA ZonesHold ==
  ASSUME PollInv, PageInv, TimeInv, OwnSlotInv, Together, ZoneInv, [ApiNext]_vars
  PROVE  ZoneInv'
<1>1. CASE Reboot
  <2>1. page'.words = <<>> /\ page'.shown = {}
    BY <1>1 DEF Reboot, NoPage
  <2> QED BY <2>1 DEF ZoneInv, OwnWords, InOrder, LowNext, WordReg
<1>2. CASE StatusArrives \/ StatusStep \/ Purged
  BY <1>2, ZonePage
<1>3. CASE (BoardStep /\ UNCHANGED httpVars) \/ Elapse \/ UNCHANGED vars
  <2>1. UNCHANGED statusVars
    BY <1>3 DEF httpVars, Elapse, allStatusVars, vars
  <2>2. [PollNext]_allVars
    BY <1>3 DEF BoardStep, PollNext, Elapse, allStatusVars, vars
  <2> QED BY <2>1, <2>2, ZoneWaits
<1>4. CASE \/ Unauthorized \/ BodyLengthBad \/ \E to \in Posts : PostBegins(to)
           \/ RegistersLimited \/ RegistersInvalid \/ \E q \in Queries : RegistersRead(q)
           \/ ModeGet \/ Browse \/ BodyCut \/ \E to \in Posts : BodyInvalid(to)
           \/ \E s \in Setpoints : SetpointRefused(s) \/ SetpointPost(s)
           \/ \E b \in ModeBodies : ModePost(b)
           \/ \E f \in Flags : ModeSave(f) \/ ModeCopy(f)
           \/ BusReply \/ ModeApply \/ ModeReply
  <2>1. page' = page /\ http' # "zones"
    BY <1>4, OtherRequests
  <2> QED BY <2>1 DEF ZoneInv, OwnWords, InOrder, LowNext, WordReg
<1> QED BY <1>1, <1>2, <1>3, <1>4 DEF ApiNext, HttpArrives, HttpStep

(* Nor does a word of the page come from the future. *)
LEMMA PastHolds ==
  ASSUME PollInv, PageInv, TimeInv, PagePast, [ApiNext]_vars
  PROVE  PagePast'
<1>1. CASE Reboot
  <2>1. page'.words = <<>> /\ page'.shown = {}
    BY <1>1 DEF Reboot, NoPage
  <2> QED BY <2>1 DEF PagePast, Past
<1>2. CASE StatusArrives \/ StatusStep \/ Purged
  <2>1. UNCHANGED allVars
    BY <1>2 DEF StatusArrives, StatusUnready, StatusGet, StatusStep, StatusLoopWord,
                StatusConfig, StatusWord, StatusReply, Sent, Purged
  <2> QED BY <1>2, <2>1, PastPage
<1>3. CASE ~Reboot /\ ~(StatusArrives \/ StatusStep \/ Purged)
  <2>1. [PollNext]_allVars
    BY <1>3, ServerUsesPoller DEF vars, allStatusVars
  <2>2. page' = page
    <3>1. CASE (BoardStep /\ UNCHANGED httpVars) \/ Elapse \/ UNCHANGED vars
      BY <3>1 DEF httpVars, statusVars, Elapse, allStatusVars, vars
    <3> QED BY <1>3, <3>1, OtherRequests DEF ApiNext, HttpArrives, HttpStep
  <2> QED BY <2>1, <2>2, PastStays
<1> QED BY <1>1, <1>2, <1>3

ServerInv == /\ ApiInv /\ TimeInv /\ PagePast
             /\ QuietBus => QuietInv /\ OwnSlotInv /\ Together /\ ZoneInv

LEMMA ServerInvInit ==
  ASSUME ApiInit
  PROVE  ServerInv
<1>1. PollInit /\ http = "idle" /\ page = NoPage
  BY DEF ApiInit
<1>2. OwnSlotInv
  BY <1>1 DEF PollInit, OwnSlotInv
<1>3. QuietInv
  BY <1>1, QuietInvInit DEF PollInit
<1> QED BY <1>1, <1>2, <1>3, ApiInvInit, TimeInvInit, ZoneInvInit DEF ServerInv

LEMMA ServerInvNext ==
  ASSUME ServerInv, [ApiNext]_vars
  PROVE  ServerInv'
<1>1. ApiInv /\ PollInv /\ PageInv /\ TimeInv /\ PagePast
  BY DEF ServerInv, ApiInv
<1>2. ApiInv' /\ TimeInv' /\ PagePast'
  BY <1>1, ApiInvNext, TimeHolds, PastHolds
<1>3. QuietBus' = QuietBus
  BY DEF QuietBus
<1>4. ASSUME QuietBus
      PROVE  QuietInv' /\ OwnSlotInv' /\ Together' /\ ZoneInv'
  <2>1. QuietInv /\ OwnSlotInv /\ Together /\ ZoneInv
    BY <1>4 DEF ServerInv
  <2> QED BY <1>1, <1>4, <2>1, QuietHolds, SlotsHold, ZonesHold
<1> QED BY <1>2, <1>3, <1>4 DEF ServerInv

(* The driver and the poll task keep behind the server, and across resets,     *)
(* everything they keep on their own: fresh replies and exceptions of their    *)
(* own call on any bus, answers and slots of their own on a quiet one, and a   *)
(* suspended poll task that is silent after the loop it is in.                 *)
THEOREM BusOfTheServer ==
  ApiSpec => [](FreshReply /\ ExceptionScoped /\ OwnReply /\ OwnRegister /\ SuspendDrains)
<1>1. ApiInit => ServerInv
  BY ServerInvInit
<1>2. ServerInv /\ [ApiNext]_vars => ServerInv'
  BY ServerInvNext
<1>3. ServerInv => FreshReply /\ ExceptionScoped /\ OwnReply /\ OwnRegister /\ SuspendDrains
  BY Drained DEF ServerInv, ApiInv, PollInv, BusInv, QuietInv, OwnInv, OwnReply, OwnSlotInv,
                 OwnRegister
<1> QED BY <1>1, <1>2, <1>3, PTL DEF ApiSpec

(* A status of the whole gateway shows only settings the zones had since the   *)
(* loop its age is counted from began, the one torn by a poll excepted,        *)
(* whatever the requests around it.                                            *)
THEOREM ZonesOfTheServer == ApiSpec => []ZonesAreReal
<1>1. ApiInit => ServerInv
  BY ServerInvInit
<1>2. ServerInv /\ [ApiNext]_vars => ServerInv'
  BY ServerInvNext
<1>3. ServerInv => ZonesAreReal
  BY RealZones DEF ServerInv, ApiInv, PollInv, PollTypeOK, BusTypeOK, ZonesAreReal
<1> QED BY <1>1, <1>2, <1>3, PTL DEF ApiSpec
=============================================================================
