---------------------------------- MODULE Status ----------------------------------
(***************************************************************************)
(* GET /api/status of src/main/api.c, on top of the poll task: the page is *)
(* put together from one poller_get() after another, each under            *)
(* s_cache_lock on its own, while the poll task goes on storing spans.     *)
(***************************************************************************)
EXTENDS Poller

CONSTANTS
  HttpTask,   \* the task of esp_http_server
  LoopRegs,   \* the registers of the loop and fault sections, in order
  Zones,      \* what each zone of the ABC is at each version of its registers
  CfgWords    \* the word of ZoneCfgReg at each version

MaxZones   == 6
ZoneBase   == 31007
ZoneCfgReg == 31101

Setting == 36..99
Int16   == {t \in Int : -32768 <= t /\ t < 32768}

ASSUME HttpTaskAssumption == HttpTask \in Tasks \ {PollTask}
ASSUME LoopRegsAssumption == LoopRegs \in Seq(Nat)
ASSUME ZonesAssumption ==
  Zones \in [1..MaxZones -> [0..MaxVer -> [temp: Int16, heat: Setting, cool: Setting]]]
\* SPANS never splits the two setpoint words of a zone.
ASSUME ZoneSpanAssumption ==
  \A z \in 1..MaxZones, i \in 1..NumSpans :
    ZoneBase + 3 * (z - 1) + 1 \in SpanRegs(i) <=> ZoneBase + 3 * (z - 1) + 2 \in SpanRegs(i)
ASSUME CfgWordsAssumption == CfgWords \in [0..MaxVer -> Nat]

VARIABLES
  http,    \* what the server task is doing
  page,    \* the status it is putting together
  reply    \* the response it is sending

statusVars == <<http, page, reply>>
allStatusVars == <<allVars, statusVars>>

\* age: the loop whose end age_s counts from; zone: the one being rendered,
\* words: of it
NoPage == [age |-> [began |-> 0, ended |-> 0], loop |-> <<>>, count |-> 0,
           zone |-> 1, words |-> <<>>, shown |-> {}]

\* unread: a post is answered before its body has been read; close: the handler
\* returns ESP_FAIL, on which esp_http_server closes the socket.
NoReply == [to |-> "nobody", status |-> 0, exc |-> 0, unread |-> FALSE, close |-> FALSE]

\* The response is on its way; send_json() and send_error() keep the socket.
Send(to, status, exc) ==
  /\ http' = "answer"
  /\ reply' = [NoReply EXCEPT !.to = to, !.status = status, !.exc = exc]

---------------------------------------------------------------------------
(* What a word says.  How the ABC packs a zone is the inverse of what the   *)
(* code unpacks.                                                            *)

Packed(z) == (z.cool - 36) * 131072 + (z.heat - 36) * 2048

Content(w) ==
  LET z == Zones[(w.reg - ZoneBase) \div 3 + 1][w.ver]
  IN CASE (w.reg - ZoneBase) % 3 = 0 -> z.temp % 65536
       [] (w.reg - ZoneBase) % 3 = 1 -> Packed(z) \div 65536
       [] (w.reg - ZoneBase) % 3 = 2 -> Packed(z) % 65536

\* add_tenths(): two's complement, and null for the sentinel.
SentinelNA == -9999
Signed(raw) == IF raw < 32768 THEN raw ELSE raw - 65536
TempShown(tv) == {Signed(tv)} \ {SentinelNA}

Data(hi, lo) == hi * 65536 + lo
HeatShown_LowWord(hi, lo) == (lo \div 2048) + 36
HeatShown(hi, lo) == ((Data(hi, lo) \div 2048) % 64) + 36
CoolShown(hi, lo) == ((Data(hi, lo) \div 131072) % 64) + 36

\* The zones an ABC has; a word that is not the configuration may say anything.
CountIn(w) == IF w.fc = "read" /\ w.reg = ZoneCfgReg
                THEN {(CfgWords[w.ver] \div 256) % 8} ELSE 0..7
CountsIn(slot) == IF slot = {} THEN {0} ELSE UNION {CountIn(w) : w \in slot}

---------------------------------------------------------------------------
(* status_get() *)

\* poller_get(): {} if the register is not polled or its slot not valid.
PollerGet(r) == IF r \in PollRegs THEN cache[r] ELSE {}

\* poller_age_s(): negative until a loop has succeeded, and then the time since
\* that loop ended.  When it began is history: the reply does not say.
HasAge == stats.ever_succeeded
DateOfAge == [began |-> okStart, ended |-> okVer]

StatusUnready ==
  /\ http = "idle" /\ ~HasAge
  /\ Send("status", 503, 0)
  /\ UNCHANGED <<allVars, page>>

\* The age comes before the first word.
StatusGet ==
  /\ http = "idle" /\ HasAge
  /\ http' = "loop"
  /\ page' = [NoPage EXCEPT !.age = DateOfAge]
  /\ UNCHANGED <<allVars, reply>>

\* One value of the loop and fault sections; a missing one is null.
StatusLoopWord ==
  /\ http = "loop" /\ Len(page.loop) < Len(LoopRegs)
  /\ page' = [page EXCEPT !.loop = Append(@, PollerGet(LoopRegs[Len(@) + 1]))]
  /\ UNCHANGED <<allVars, http, reply>>

\* The count of zones, 0 if it is missing.
StatusConfig ==
  /\ http = "loop" /\ Len(page.loop) = Len(LoopRegs)
  /\ http' = "zones"
  /\ \E n \in CountsIn(PollerGet(ZoneCfgReg)) : page' = [page EXCEPT !.count = n]
  /\ UNCHANGED <<allVars, reply>>

ZonesLeft == page.zone <= page.count /\ page.zone <= MaxZones

Advanced == [page EXCEPT !.zone = @ + 1, !.words = <<>>]

\* The next word of a zone; a zone with a missing word is left out.
StatusWord ==
  /\ http = "zones" /\ ZonesLeft
  /\ LET slot == PollerGet(ZoneBase + 3 * (page.zone - 1) + Len(page.words))
         got  == Append(page.words, slot)
     IN page' = IF slot = {} THEN Advanced
                ELSE IF Len(got) < 3 THEN [page EXCEPT !.words = got]
                ELSE [Advanced EXCEPT !.shown = @ \cup {[zone |-> page.zone, words |-> got]}]
  /\ UNCHANGED <<allVars, http, reply>>

Dated_AtReply == DateOfAge
Dated == page.age

StatusReply ==
  /\ http = "zones" /\ ~ZonesLeft
  /\ Send("status", 200, 0)
  /\ page' = [page EXCEPT !.age = Dated]
  /\ UNCHANGED allVars

\* The posts whose handlers receive the body; any other request may come with
\* one that no handler looks at.
Posts == {"setpoint", "mode"}
BodyLeft == reply.unread \/ reply.to \notin Posts

\* The response has been sent.  A body left unread on a socket that stays open
\* is for esp_http_server to purge.
Sent ==
  /\ http = "answer"
  /\ http' = "idle" \/ (BodyLeft /\ ~reply.close /\ http' = "purge")
  /\ reply' = NoReply /\ page' = NoPage
  /\ UNCHANGED allVars

\* The body has been purged, or receiving it has failed.  Nothing says when:
\* the client sends it as slowly as it likes.
Purged ==
  /\ http = "purge" /\ http' = "idle"
  /\ UNCHANGED <<allVars, page, reply>>

StatusArrives == StatusUnready \/ StatusGet

StatusStep == StatusLoopWord \/ StatusConfig \/ StatusWord \/ StatusReply \/ Sent

---------------------------------------------------------------------------
StatusInit ==
  /\ PollInit
  /\ http = "idle" /\ page = NoPage /\ reply = NoReply

\* The server task makes no other call while it renders a page.
OtherStep ==
  /\ PollNext
  /\ pc'[HttpTask] # "idle" => http = "idle"
  /\ UNCHANGED statusVars

StatusNext ==
  \/ pc[HttpTask] = "idle" /\ StatusArrives
  \/ StatusStep \/ Purged
  \/ OtherStep

(* Fairness as in Poller. *)
StatusFairness ==
  /\ WF_allStatusVars(PollTaskStep /\ UNCHANGED statusVars)
  /\ \A t \in Tasks : /\ WF_allStatusVars(Transact(t) /\ UNCHANGED statusVars)
                      /\ SF_allStatusVars(Locks(t) /\ UNCHANGED statusVars)

StatusSpec == StatusInit /\ [][StatusNext]_allStatusVars /\ StatusFairness

---------------------------------------------------------------------------
PageOK(p) ==
  /\ p.age \in [began: 0..MaxVer, ended: 0..MaxVer]
  /\ Len(p.loop) <= Len(LoopRegs) /\ \A i \in DOMAIN p.loop : p.loop[i] \subseteq Word
  /\ p.count \in 0..7 /\ p.zone \in 1..MaxZones + 1
  /\ Len(p.words) < 3 /\ \A i \in DOMAIN p.words : p.words[i] \subseteq Word

StatusTypeOK ==
  /\ PollTypeOK
  /\ http \in {"idle", "loop", "zones", "answer", "purge"}
  /\ PageOK(page)
  /\ reply.status \in {0, 200, 503} /\ reply.exc = 0

\* The page of a status that has been rendered.
StatusSent == http = "answer" /\ reply.to = "status" /\ reply.status = 200

\* A status never leaves out a value that is polled, nor a zone the ABC has and
\* the poll set covers: behind the gate on the first successful poll every slot
\* is valid, and stays so while later polls fail.
StatusIsComplete ==
  StatusSent =>
    /\ \A i \in DOMAIN LoopRegs : LoopRegs[i] \in PollRegs => page.loop[i] # {}
    /\ {s.zone : s \in page.shown} =
         {z \in 1..page.count \cap 1..MaxZones :
            \A k \in 0..2 : ZoneBase + 3 * (z - 1) + k \in PollRegs}

\* Nothing in a status is older than the beginning of the loop whose end the
\* age_s it carries counts from: the age is taken before the first word, and
\* later polls only make the words younger.  A word read early in that loop may
\* be older than age_s says, by no more than the loop.
StatusNotStale ==
  StatusSent =>
    /\ \A i \in DOMAIN page.loop : \A w \in page.loop[i] : w.ver >= page.age.began
    /\ \A s \in page.shown, k \in 1..3 : \A w \in s.words[k] : w.ver >= page.age.began

\* On a quiet bus the temperature and the cooling setpoint of a zone are those
\* it had at some moment since that loop began (not since the moment age_s
\* counts from, where the loop ended).  So is the heating setpoint, whose bits
\* straddle two words, unless a poll came between the two reads: then it may be
\* one the zone never had.
ZonesAreReal ==
  QuietBus /\ StatusSent =>
    \A s \in page.shown :
      \A tv \in s.words[1], hi \in s.words[2], lo \in s.words[3] :
        LET Ever(P(_)) == \E v \in page.age.began..ver : P(Zones[s.zone][v])
            heat == HeatShown(Content(hi), Content(lo))
            cool == CoolShown(Content(hi), Content(lo))
        IN /\ Ever(LAMBDA z : TempShown(Content(tv)) = {z.temp} \ {SentinelNA})
           /\ Ever(LAMBDA z : cool = z.cool)
           /\ Ever(LAMBDA z : heat = z.heat) \/ hi.ver < lo.ver
=============================================================================
