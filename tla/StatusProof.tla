------------------------------- MODULE StatusProof -------------------------------
(***************************************************************************)
(* Proofs about the status page: though the cache changes between any two  *)
(* of its words, it leaves out nothing that is polled, and nothing on it   *)
(* is older than the loop its age is counted from.                         *)
(***************************************************************************)
EXTENDS Status, PollerProof

Ages == [began: 0..MaxVer, ended: 0..MaxVer]

Pages == [age: Ages, loop: Seq(SUBSET Word), count: 0..7, zone: 1..MaxZones + 1,
          words: Seq(SUBSET Word),
          shown: SUBSET [zone: 1..MaxZones, words: Seq(SUBSET Word)]]

\* How far the page is.
PageShape ==
  /\ page \in Pages
  /\ Len(page.loop) <= Len(LoopRegs) /\ Len(page.words) < 3
  /\ page.zone <= page.count + 1
  /\ \A s \in page.shown : Len(s.words) = 3
  /\ http = "loop" => page.zone = 1 /\ page.words = <<>> /\ page.shown = {}
  /\ http = "zones" \/ StatusSent => Len(page.loop) = Len(LoopRegs)
  /\ StatusSent => ~ZonesLeft

NoOlder(words, v) == \A i \in 1..Len(words) : \A w \in words[i] : w.ver >= v

\* The age comes from a loop that was published before the first word was read.
PageFresh ==
  /\ page.age.began <= okStart
  /\ http \in {"loop", "zones"} => stats.ever_succeeded
  /\ NoOlder(page.loop, page.age.began) /\ NoOlder(page.words, page.age.began)
  /\ \A s \in page.shown : NoOlder(s.words, page.age.began)

WordReg(z, k) == ZoneBase + 3 * (z - 1) + k
Covered(z) == \A k \in 0..2 : WordReg(z, k) \in PollRegs

\* Every zone behind the one being rendered is on the page if it is polled.
PageWhole ==
  /\ \A i \in 1..Len(page.loop) : LoopRegs[i] \in PollRegs => page.loop[i] # {}
  /\ \A k \in 0..2 : k < Len(page.words) => WordReg(page.zone, k) \in PollRegs
  /\ \A s \in page.shown : s.zone < page.zone /\ Covered(s.zone)
  /\ \A z \in 1..MaxZones :
       z < page.zone /\ Covered(z) => \E s \in page.shown : s.zone = z

PageInv == PageShape /\ PageFresh /\ PageWhole

---------------------------------------------------------------------------
(* What the page relies on. *)

LEMMA ParameterFacts ==
  /\ LoopRegs \in Seq(Nat) /\ Len(LoopRegs) \in Nat
  /\ \A i \in 1..Len(LoopRegs) : LoopRegs[i] \in Nat
  /\ CfgWords \in [0..MaxVer -> Nat]
  /\ HttpTask \in Tasks /\ HttpTask # PollTask
<1>1. LoopRegs \in Seq(Nat)
  BY LoopRegsAssumption
<1>2. CfgWords \in [0..MaxVer -> Nat]
  BY CfgWordsAssumption
<1>3. HttpTask \in Tasks /\ HttpTask # PollTask
  BY HttpTaskAssumption
<1> QED BY <1>1, <1>2, <1>3

LEMMA AppendFacts ==
  ASSUME NEW S, NEW s \in Seq(S), NEW e \in S
  PROVE  /\ Append(s, e) \in Seq(S) /\ Len(Append(s, e)) = Len(s) + 1
         /\ \A i \in 1..Len(s) : Append(s, e)[i] = s[i]
         /\ Append(s, e)[Len(s) + 1] = e
OBVIOUS

LEMMA PageFields ==
  ASSUME page \in Pages
  PROVE  /\ page.age \in Ages /\ page.age.began \in 0..MaxVer
         /\ page.count \in 0..7 /\ page.zone \in 1..7
         /\ page.loop \in Seq(SUBSET Word) /\ page.words \in Seq(SUBSET Word)
         /\ Len(page.words) \in Nat
         /\ \A s \in page.shown : s.zone \in 1..6 /\ s.words \in Seq(SUBSET Word)
<1>1. page.shown \in SUBSET [zone: 1..6, words: Seq(SUBSET Word)]
  BY DEF Pages, MaxZones
<1>2. \A s \in page.shown : s.zone \in 1..6 /\ s.words \in Seq(SUBSET Word)
  BY <1>1
<1>3. /\ page.age \in Ages /\ page.count \in 0..7 /\ page.zone \in 1..7
      /\ page.loop \in Seq(SUBSET Word) /\ page.words \in Seq(SUBSET Word)
  BY DEF Pages, MaxZones
<1>4. page.age.began \in 0..MaxVer
  BY <1>3 DEF Ages
<1> QED BY <1>2, <1>3, <1>4

\* poller_get() after the first success: a word as recent as the age, or none
\* because the register is not polled.
LEMMA SlotFacts ==
  ASSUME PollInv, stats.ever_succeeded, NEW r \in Nat
  PROVE  /\ PollerGet(r) \in SUBSET Word
         /\ r \in PollRegs <=> PollerGet(r) # {}
         /\ \A w \in PollerGet(r) : w.ver >= okStart
BY DEF PollInv, PollTypeOK, AgeWithinOneLoop, PollerGet

\* What the age dates never goes back.
LEMMA AgeAdvances ==
  ASSUME PollInv, [PollNext]_allVars
  PROVE  okStart <= okStart' /\ (stats.ever_succeeded => stats'.ever_succeeded)
<1>1. CASE PollPublish
  <2>1. stats \in [polls_ok: Nat, polls_failed: Nat, ever_succeeded: BOOLEAN]
    BY DEF PollInv, PollTypeOK
  <2>2. stats.ever_succeeded => stats'.ever_succeeded
    BY <1>1, <2>1 DEF PollPublish
  <2>3. okStart' \in {okStart, startVer}
    BY <1>1 DEF PollPublish
  <2>4. okStart <= startVer /\ okStart \in Int
    BY DEF PollInv, RecentInv, PollTypeOK
  <2> QED BY <2>2, <2>3, <2>4
<1>2. CASE ~PollPublish
  <2>1. okStart' = okStart /\ stats' = stats
    BY <1>2 DEF PollNext, PollTaskStep, PollTop, MayPoll, PollSpan, PollStore,
                SetEnabled, Locks, Transact, CountSends, OtherCalls, BusOutside,
                allVars, pollVars
  <2> QED BY <2>1 DEF PollInv, PollTypeOK
<1> QED BY <1>1, <1>2

\* The page stands still while the poll task and the bus move.
LEMMA PageWaits ==
  ASSUME PollInv, PageInv, [PollNext]_allVars, UNCHANGED statusVars
  PROVE  PageInv'
<1>1. okStart <= okStart' /\ (stats.ever_succeeded => stats'.ever_succeeded)
  BY AgeAdvances
<1>2. okStart \in Int /\ okStart' \in Int
  BY PollInvNext DEF PollInv, PollTypeOK
<1>3. PageShape' /\ PageWhole'
  BY DEF PageInv, PageShape, PageWhole, statusVars, StatusSent, ZonesLeft, Covered, WordReg
<1>4. PageFresh'
  BY <1>1, <1>2 DEF PageInv, PageShape, Pages, Ages, PageFresh, NoOlder, statusVars
<1> QED BY <1>3, <1>4 DEF PageInv

---------------------------------------------------------------------------
(* The steps of the page. *)

\* An empty page, whatever the server does with it.
LEMMA EmptyPage ==
  ASSUME PollInv, page' = NoPage, okStart' \in Nat,
         http' \in {"loop", "zones"} => FALSE,
         ~StatusSent'
  PROVE  PageInv'
<1>1. /\ page'.age.began = 0 /\ page'.loop = <<>> /\ page'.count = 0 /\ page'.zone = 1
      /\ page'.words = <<>> /\ page'.shown = {}
  BY DEF NoPage
<1>2. page' \in Pages
  BY BoundAssumption DEF NoPage, Pages, Ages, MaxZones
<1>3. PageShape'
  BY <1>1, <1>2, ParameterFacts DEF PageShape
<1>4. PageFresh' /\ PageWhole'
  BY <1>1 DEF PageFresh, PageWhole, NoOlder
<1> QED BY <1>3, <1>4 DEF PageInv

LEMMA GetStep ==
  ASSUME PollInv, PageInv, StatusGet
  PROVE  PageInv'
<1>1. /\ page'.age.began = okStart /\ page'.loop = <<>> /\ page'.count = 0 /\ page'.zone = 1
      /\ page'.words = <<>> /\ page'.shown = {}
      /\ http' = "loop" /\ UNCHANGED <<stats, okStart>> /\ stats.ever_succeeded
  BY DEF StatusGet, NoPage, HasAge, DateOfAge, allVars, pollVars
<1>2. page' \in Pages
  <2>1. okStart \in 0..MaxVer /\ okVer \in 0..MaxVer
    BY DEF PollInv, PollTypeOK
  <2>2. page' = [age |-> [began |-> okStart, ended |-> okVer], loop |-> <<>>, count |-> 0,
                 zone |-> 1, words |-> <<>>, shown |-> {}]
    BY DEF StatusGet, NoPage, DateOfAge
  <2> QED BY <2>1, <2>2 DEF Pages, Ages, MaxZones
<1>3. PageShape'
  BY <1>1, <1>2, ParameterFacts DEF PageShape, StatusSent
<1>4. PageFresh' /\ PageWhole'
  BY <1>1 DEF PageFresh, PageWhole, NoOlder, PollInv, PollTypeOK
<1> QED BY <1>3, <1>4 DEF PageInv

LEMMA LoopWordStep ==
  ASSUME PollInv, PageInv, StatusLoopWord
  PROVE  PageInv'
<1> DEFINE i == Len(page.loop) + 1
           slot == PollerGet(LoopRegs[i])
<1>1. page \in Pages /\ page.loop \in Seq(SUBSET Word) /\ Len(page.loop) < Len(LoopRegs)
  BY DEF StatusLoopWord, PageInv, PageShape, Pages
<1>2. i \in 1..Len(LoopRegs) /\ LoopRegs[i] \in Nat
  BY <1>1, ParameterFacts
<1>3. /\ slot \in SUBSET Word /\ (LoopRegs[i] \in PollRegs => slot # {})
      /\ \A w \in slot : w.ver >= okStart
  BY <1>2, SlotFacts DEF StatusLoopWord, PageInv, PageFresh
<1>4. /\ page' = [page EXCEPT !.loop = Append(@, slot)]
      /\ http = "loop" /\ http' = "loop" /\ UNCHANGED <<stats, okStart, reply>>
  BY DEF StatusLoopWord, allVars, pollVars
<1> HIDE DEF slot
<1>5. /\ page'.loop = Append(page.loop, slot)
      /\ page'.age = page.age /\ page'.count = page.count /\ page'.zone = page.zone
      /\ page'.words = page.words /\ page'.shown = page.shown
  BY <1>1, <1>4 DEF Pages
<1>6. /\ page'.loop \in Seq(SUBSET Word) /\ Len(page'.loop) = i
      /\ \A j \in 1..Len(page.loop) : page'.loop[j] = page.loop[j]
      /\ page'.loop[i] = slot
  BY <1>1, <1>3, <1>5, AppendFacts
<1>7. page' \in Pages
  BY <1>1, <1>4, <1>5, <1>6 DEF Pages
<1>8. PageShape'
  BY <1>2, <1>4, <1>5, <1>6, <1>7 DEF PageInv, PageShape, StatusSent
<1>9. PageFresh'
  <2>1. page.age.began \in Int /\ okStart \in Int /\ page.age.began <= okStart
    BY <1>1 DEF Pages, Ages, PageInv, PageFresh, PollInv, PollTypeOK
  <2>2. \A w \in slot : w.ver \in Int
    BY <1>3 DEF Word
  <2>3. ASSUME NEW j \in 1..Len(page'.loop), NEW w \in page'.loop[j]
        PROVE  w.ver >= page.age.began
    <3>1. CASE j = i
      BY <1>3, <1>6, <2>1, <2>2, <2>3, <3>1
    <3>2. CASE j # i
      <4>1. j \in 1..Len(page.loop)
        BY <1>1, <1>6, <3>2
      <4> QED BY <1>6, <2>3, <4>1 DEF NoOlder, PageInv, PageFresh
    <3> QED BY <3>1, <3>2
  <2> QED BY <1>4, <1>5, <2>3 DEF PageInv, PageFresh, NoOlder
<1>10. PageWhole'
  BY <1>1, <1>3, <1>5, <1>6 DEF PageInv, PageWhole, Covered, WordReg
<1> QED BY <1>8, <1>9, <1>10 DEF PageInv

LEMMA CountType ==
  ASSUME NEW slot \in SUBSET Word
  PROVE  CountsIn(slot) \subseteq 0..7
<1>1. ASSUME NEW w \in slot
      PROVE  CountIn(w) \subseteq 0..7
  <2>1. CfgWords[w.ver] \in Int
    BY ParameterFacts DEF Word
  <2>2. \A n \in Int : (n \div 256) % 8 \in 0..7
    OBVIOUS
  <2> QED BY <2>1, <2>2 DEF CountIn
<1> QED BY <1>1 DEF CountsIn

LEMMA ConfigStep ==
  ASSUME PollInv, PageInv, StatusConfig
  PROVE  PageInv'
<1>1. PollerGet(ZoneCfgReg) \in SUBSET Word
  BY DEF PollerGet, PollInv, PollTypeOK
<1>2. PICK n \in CountsIn(PollerGet(ZoneCfgReg)) : page' = [page EXCEPT !.count = n]
  BY DEF StatusConfig
<1>3. n \in 0..7
  BY <1>1, CountType
<1>4. /\ page \in Pages /\ http = "loop" /\ http' = "zones"
      /\ UNCHANGED <<stats, okStart, reply>> /\ Len(page.loop) = Len(LoopRegs)
  BY DEF StatusConfig, PageInv, PageShape, allVars, pollVars
<1>5. /\ page'.count = n
      /\ page'.age = page.age /\ page'.loop = page.loop /\ page'.zone = page.zone
      /\ page'.words = page.words /\ page'.shown = page.shown
  BY <1>2, <1>4 DEF Pages
<1>6. page' \in Pages
  BY <1>2, <1>3, <1>4 DEF Pages
<1>7. PageShape'
  BY <1>3, <1>4, <1>5, <1>6 DEF PageInv, PageShape, StatusSent
<1>8. PageFresh' /\ PageWhole'
  BY <1>4, <1>5 DEF PageInv, PageFresh, PageWhole, Covered, WordReg
<1> QED BY <1>7, <1>8 DEF PageInv

(* A word is kept, completes its zone, or is missing and drops the zone. *)
LEMMA WordStep ==
  ASSUME PollInv, PageInv, StatusWord
  PROVE  PageInv'
<1> DEFINE r    == WordReg(page.zone, Len(page.words))
           slot == PollerGet(r)
           got  == Append(page.words, slot)
<1>1. /\ page \in Pages /\ page.words \in Seq(SUBSET Word) /\ Len(page.words) \in 0..2
      /\ page.zone \in 1..MaxZones /\ page.zone <= page.count /\ page.count \in 0..7
      /\ Len(page.loop) = Len(LoopRegs)
  <2>1. page \in Pages /\ Len(page.words) < 3 /\ Len(page.loop) = Len(LoopRegs)
    BY DEF StatusWord, PageInv, PageShape
  <2>2. page.zone <= page.count /\ page.zone <= MaxZones
    BY DEF StatusWord, ZonesLeft
  <2>3. /\ page.words \in Seq(SUBSET Word) /\ page.count \in 0..7 /\ page.zone \in 1..7
        /\ Len(page.words) \in Nat
    BY <2>1, PageFields
  <2>4. page.zone \in 1..MaxZones
    BY <2>2, <2>3 DEF MaxZones
  <2>5. \A n \in Nat : n < 3 => n \in 0..2
    OBVIOUS
  <2> QED BY <2>1, <2>2, <2>3, <2>4, <2>5
<1>2. r \in Nat
  BY <1>1 DEF WordReg, ZoneBase, MaxZones
<1>3. /\ slot \in SUBSET Word /\ (r \in PollRegs <=> slot # {})
      /\ \A w \in slot : w.ver >= okStart
  BY <1>2, SlotFacts DEF StatusWord, PageInv, PageFresh
<1>4. /\ http = "zones" /\ http' = "zones" /\ UNCHANGED <<stats, okStart, reply>>
      /\ page' = IF slot = {} THEN Advanced
                 ELSE IF Len(got) < 3 THEN [page EXCEPT !.words = got]
                 ELSE [Advanced EXCEPT !.shown = @ \cup {[zone |-> page.zone, words |-> got]}]
  BY DEF StatusWord, WordReg, allVars, pollVars
<1>5. /\ got \in Seq(SUBSET Word) /\ Len(got) = Len(page.words) + 1
      /\ \A i \in 1..Len(page.words) : got[i] = page.words[i]
      /\ got[Len(got)] = slot
  BY <1>1, <1>3, AppendFacts
<1>6. NoOlder(got, page.age.began)
  <2>1. page.age.began \in Int /\ okStart \in Int /\ page.age.began <= okStart
    BY <1>1 DEF Pages, Ages, PageInv, PageFresh, PollInv, PollTypeOK
  <2>2. \A w \in slot : w.ver \in Int
    BY <1>3 DEF Word
  <2>3. ASSUME NEW j \in 1..Len(got), NEW w \in got[j]
        PROVE  w.ver >= page.age.began
    <3>1. CASE j = Len(got)
      BY <1>3, <1>5, <2>1, <2>2, <2>3, <3>1
    <3>2. CASE j # Len(got)
      <4>1. j \in 1..Len(page.words)
        BY <1>1, <1>5, <3>2
      <4> QED BY <1>5, <2>3, <4>1 DEF NoOlder, PageInv, PageFresh
    <3> QED BY <3>1, <3>2
  <2> QED BY <2>3 DEF NoOlder
<1>7. slot # {} => \A k \in 0..2 : k < Len(got) => WordReg(page.zone, k) \in PollRegs
  BY <1>1, <1>3, <1>5 DEF PageInv, PageWhole
<1>8. slot = {} => ~Covered(page.zone)
  BY <1>1, <1>3 DEF Covered
<1> HIDE DEF slot, got, r
<1>9. CASE slot = {}
  <2>1. /\ page'.age = page.age /\ page'.loop = page.loop /\ page'.count = page.count
        /\ page'.zone = page.zone + 1 /\ page'.words = <<>> /\ page'.shown = page.shown
    BY <1>1, <1>4, <1>9 DEF Advanced, Pages
  <2>2. page' \in Pages
    <3>1. page' = [age |-> page.age, loop |-> page.loop, count |-> page.count,
                   zone |-> page.zone + 1, words |-> <<>>, shown |-> page.shown]
      BY <1>1, <1>4, <1>9 DEF Advanced, Pages
    <3>2. page.zone + 1 \in 1..MaxZones + 1 /\ <<>> \in Seq(SUBSET Word)
      BY <1>1 DEF MaxZones
    <3>3. page.shown \subseteq [zone: 1..MaxZones, words: Seq(SUBSET Word)]
      BY <1>1 DEF Pages
    <3> QED BY <1>1, <3>1, <3>2, <3>3, PageFields DEF Pages
  <2>3. PageShape'
    BY SMTT(20), <1>1, <1>4, <2>1, <2>2 DEF PageInv, PageShape, StatusSent
  <2>4. PageFresh'
    BY <1>4, <2>1 DEF PageInv, PageFresh, NoOlder
  <2>5. PageWhole'
    <3>1. \A s \in page'.shown : s.zone < page'.zone /\ Covered(s.zone)
      <4>1. \A s \in page.shown : s.zone \in 1..6 /\ s.zone < page.zone /\ Covered(s.zone)
        BY <1>1, PageFields DEF PageInv, PageWhole
      <4>2. \A s \in page.shown : s.zone < page.zone + 1
        BY <1>1, <4>1 DEF MaxZones
      <4> QED BY <2>1, <4>1, <4>2
    <3>2. ASSUME NEW z \in 1..MaxZones, z < page'.zone, Covered(z)
          PROVE  \E s \in page'.shown : s.zone = z
      <4>1. z < page.zone
        BY <1>1, <1>8, <1>9, <2>1, <3>2 DEF MaxZones
      <4> QED BY <2>1, <3>2, <4>1 DEF PageInv, PageWhole
    <3>3. /\ \A i \in 1..Len(page'.loop) : LoopRegs[i] \in PollRegs => page'.loop[i] # {}
          /\ Len(page'.words) = 0
      BY <2>1 DEF PageInv, PageWhole
    <3> QED BY <3>1, <3>2, <3>3 DEF PageWhole, Covered, WordReg
  <2> QED BY <2>3, <2>4, <2>5 DEF PageInv
<1>10. CASE slot # {} /\ Len(got) < 3
  <2>1. page' = [page EXCEPT !.words = got]
    BY <1>4, <1>10
  <2>2. /\ page'.age = page.age /\ page'.loop = page.loop /\ page'.count = page.count
        /\ page'.zone = page.zone /\ page'.words = got /\ page'.shown = page.shown
    BY <1>1, <2>1 DEF Pages
  <2>3. page' \in Pages
    BY <1>1, <1>5, <2>1 DEF Pages
  <2>4. PageShape' /\ PageFresh'
    BY <1>1, <1>4, <1>6, <1>10, <2>2, <2>3
       DEF PageInv, PageShape, PageFresh, NoOlder, StatusSent
  <2>5. PageWhole'
    BY <1>7, <1>10, <2>2 DEF PageInv, PageWhole, Covered, WordReg
  <2> QED BY <2>4, <2>5 DEF PageInv
<1>11. CASE slot # {} /\ ~(Len(got) < 3)
  <2> DEFINE one == [zone |-> page.zone, words |-> got]
  <2>1. page' = [Advanced EXCEPT !.shown = @ \cup {one}]
    BY <1>4, <1>11
  <2>2. /\ page'.age = page.age /\ page'.loop = page.loop /\ page'.count = page.count
        /\ page'.zone = page.zone + 1 /\ page'.words = <<>>
        /\ page'.shown = page.shown \cup {one}
    BY <1>1, <2>1 DEF Advanced, Pages
  <2>3. Len(got) = 3 /\ Covered(page.zone)
    BY <1>1, <1>5, <1>7, <1>11 DEF Covered
  <2>4. one \in [zone: 1..MaxZones, words: Seq(SUBSET Word)]
    BY <1>1, <1>5
  <2>5. page' \in Pages
    <3>1. page' = [age |-> page.age, loop |-> page.loop, count |-> page.count,
                   zone |-> page.zone + 1, words |-> <<>>,
                   shown |-> page.shown \cup {one}]
      BY <1>1, <2>1 DEF Advanced, Pages
    <3>2. page.shown \cup {one} \subseteq [zone: 1..MaxZones, words: Seq(SUBSET Word)]
      BY <1>1, <2>4 DEF Pages
    <3>3. page.zone + 1 \in 1..MaxZones + 1 /\ <<>> \in Seq(SUBSET Word)
      BY <1>1 DEF MaxZones
    <3> HIDE DEF one
    <3> QED BY <1>1, <3>1, <3>2, <3>3, PageFields DEF Pages
  <2>6. one.zone = page.zone /\ one.words = got
    OBVIOUS
  <2> HIDE DEF one
  <2>7. PageShape'
    BY <1>1, <1>4, <2>2, <2>3, <2>5, <2>6 DEF PageInv, PageShape, StatusSent
  <2>8. PageFresh'
    BY <1>4, <1>6, <2>2, <2>6 DEF PageInv, PageFresh, NoOlder
  <2>9. PageWhole'
    <3>1. \A s \in page'.shown : s.zone < page'.zone /\ Covered(s.zone)
      <4>1. ASSUME NEW s \in page.shown
            PROVE  s.zone < page.zone + 1 /\ Covered(s.zone)
        <5>1. s.zone < page.zone /\ Covered(s.zone) /\ s.zone \in 1..6
          BY <1>1, PageFields DEF PageInv, PageWhole
        <5> QED BY <1>1, <5>1 DEF MaxZones
      <4>2. one.zone < page.zone + 1 /\ Covered(one.zone)
        BY <1>1, <2>3, <2>6 DEF MaxZones
      <4> QED BY <2>2, <4>1, <4>2
    <3>2. ASSUME NEW z \in 1..MaxZones, z < page'.zone, Covered(z)
          PROVE  \E s \in page'.shown : s.zone = z
      BY <1>1, <2>2, <2>6, <3>2 DEF PageInv, PageWhole, MaxZones
    <3>3. /\ \A i \in 1..Len(page'.loop) : LoopRegs[i] \in PollRegs => page'.loop[i] # {}
          /\ Len(page'.words) = 0
      BY <2>2 DEF PageInv, PageWhole
    <3> QED BY <3>1, <3>2, <3>3 DEF PageWhole, Covered, WordReg
  <2> QED BY <2>7, <2>8, <2>9 DEF PageInv
<1> QED BY <1>9, <1>10, <1>11

LEMMA ReplyStep ==
  ASSUME PollInv, PageInv, StatusReply
  PROVE  PageInv'
<1>1. page \in Pages /\ http = "zones" /\ ~ZonesLeft
  BY DEF StatusReply, PageInv, PageShape
<1>2. page' = page
  BY <1>1 DEF StatusReply, Dated, Pages
<1>3. http' = "answer" /\ UNCHANGED <<stats, okStart>>
  BY DEF StatusReply, Send, allVars, pollVars
<1>4. PageShape'
  BY <1>1, <1>2, <1>3 DEF PageInv, PageShape, StatusSent, ZonesLeft
<1>5. PageFresh' /\ PageWhole'
  BY <1>2, <1>3 DEF PageInv, PageFresh, PageWhole, NoOlder, Covered, WordReg
<1> QED BY <1>4, <1>5 DEF PageInv

(* A refusal before the first good loop leaves the page as it was. *)
LEMMA UnreadyStep ==
  ASSUME PollInv, PageInv, StatusUnready
  PROVE  PageInv'
<1>1. page' = page /\ http' = "answer" /\ UNCHANGED <<stats, okStart>>
  BY DEF StatusUnready, Send, allVars, pollVars
<1>2. ~StatusSent'
  <2>1. reply' = [NoReply EXCEPT !.to = "status", !.status = 503, !.exc = 0]
    BY DEF StatusUnready, Send
  <2>2. reply'.status = 503
    BY <2>1 DEF NoReply
  <2> QED BY <2>2 DEF StatusSent
<1>3. PageShape' /\ PageFresh' /\ PageWhole'
  BY <1>1, <1>2
     DEF PageInv, PageShape, PageFresh, PageWhole, NoOlder, Covered, WordReg
<1> QED BY <1>3 DEF PageInv

LEMMA SentStep ==
  ASSUME PollInv, Sent
  PROVE  PageInv'
<1>1. page' = NoPage /\ http' \in {"purge", "idle"} /\ okStart' \in Nat
  BY DEF Sent, allVars, pollVars, PollInv, PollTypeOK
<1> QED BY <1>1, EmptyPage DEF StatusSent

\* Purging a body has nothing to do with the page.
LEMMA PurgedStep ==
  ASSUME PollInv, PageInv, Purged
  PROVE  PageInv'
<1>1. page' = page /\ http' = "idle" /\ UNCHANGED allVars
  BY DEF Purged
<1>2. PageShape' /\ PageWhole'
  BY <1>1 DEF PageInv, PageShape, PageWhole, StatusSent, Covered, WordReg
<1>3. PageFresh'
  BY <1>1 DEF PageInv, PageFresh, NoOlder, allVars, pollVars
<1> QED BY <1>2, <1>3 DEF PageInv

---------------------------------------------------------------------------
(* The whole server task. *)

ReplyInv ==
  /\ http \in {"idle", "loop", "zones", "answer", "purge"}
  /\ reply.status \in {0, 200, 503} /\ reply.exc = 0 /\ ~reply.unread

StatusInv == PollInv /\ PageInv /\ ReplyInv

LEMMA StatusInvInit ==
  ASSUME StatusInit
  PROVE  StatusInv
<1>1. PollInv
  BY PollInvInit DEF StatusInit
<1>2. /\ page.age.began = 0 /\ page.loop = <<>> /\ page.count = 0 /\ page.zone = 1
      /\ page.words = <<>> /\ page.shown = {} /\ http = "idle" /\ reply = NoReply
  BY DEF StatusInit, NoPage
<1>3. page \in Pages
  BY BoundAssumption DEF StatusInit, NoPage, Pages, Ages, MaxZones
<1>4. PageShape
  BY <1>2, <1>3, ParameterFacts DEF PageShape, StatusSent
<1>5. PageFresh /\ PageWhole
  BY <1>1, <1>2 DEF PageFresh, PageWhole, NoOlder, PollInv, PollTypeOK
<1>6. ReplyInv
  BY <1>2 DEF ReplyInv, NoReply
<1> QED BY <1>1, <1>4, <1>5, <1>6 DEF StatusInv, PageInv

LEMMA ReplyInvNext ==
  ASSUME ReplyInv, StatusNext
  PROVE  ReplyInv'
<1>1. CASE StatusUnready
  <2>1. reply' = [NoReply EXCEPT !.to = "status", !.status = 503, !.exc = 0]
        /\ http' = "answer"
    BY <1>1 DEF StatusUnready, Send
  <2> QED BY <2>1 DEF ReplyInv, NoReply
<1>2. CASE StatusReply
  <2>1. reply' = [NoReply EXCEPT !.to = "status", !.status = 200, !.exc = 0]
        /\ http' = "answer"
    BY <1>2 DEF StatusReply, Send
  <2> QED BY <2>1 DEF ReplyInv, NoReply
<1>3. CASE Sent
  BY <1>3 DEF Sent, ReplyInv, NoReply
<1>4. CASE StatusGet \/ StatusLoopWord \/ StatusConfig \/ StatusWord \/ Purged \/ OtherStep
  BY <1>4 DEF StatusGet, StatusLoopWord, StatusConfig, StatusWord, Purged, OtherStep,
              statusVars, ReplyInv
<1> QED BY <1>1, <1>2, <1>3, <1>4 DEF StatusNext, StatusArrives, StatusStep

LEMMA StatusInvNext ==
  ASSUME StatusInv, [StatusNext]_allStatusVars
  PROVE  StatusInv'
<1>1. PollInv /\ PageInv /\ ReplyInv
  BY DEF StatusInv
<1>2. CASE OtherStep \/ UNCHANGED allStatusVars
  <2>1. [PollNext]_allVars /\ UNCHANGED statusVars
    BY <1>2 DEF OtherStep, allStatusVars
  <2>2. PollInv' /\ PageInv'
    BY <1>1, <2>1, PollInvNext, PageWaits
  <2>3. ReplyInv'
    BY <1>1, <2>1 DEF statusVars, ReplyInv
  <2> QED BY <2>2, <2>3 DEF StatusInv
<1>3. CASE StatusNext /\ ~OtherStep
  <2>1. StatusArrives \/ StatusStep \/ Purged
    BY <1>3 DEF StatusNext
  <2>2. UNCHANGED allVars
    BY <2>1 DEF StatusArrives, StatusStep, StatusUnready, StatusGet, StatusLoopWord,
                StatusConfig, StatusWord, StatusReply, Sent, Purged
  <2>3. PollInv'
    BY <1>1, <2>2, PollInvNext
  <2>4. PageInv'
    BY <1>1, <2>1, GetStep, UnreadyStep, LoopWordStep, ConfigStep, WordStep, ReplyStep,
       SentStep, PurgedStep DEF StatusArrives, StatusStep
  <2>5. ReplyInv'
    BY <1>1, <1>3, ReplyInvNext
  <2> QED BY <2>3, <2>4, <2>5 DEF StatusInv
<1> QED BY <1>2, <1>3

(* What the invariant says of a page that has been rendered. *)
LEMMA FreshPage ==
  ASSUME PageInv
  PROVE  StatusNotStale
<1> SUFFICES ASSUME StatusSent
             PROVE  StatusNotStale
  BY DEF StatusNotStale
<1>1. page \in Pages /\ \A s \in page.shown : Len(s.words) = 3
  BY DEF PageInv, PageShape
<1>2. DOMAIN page.loop = 1..Len(page.loop)
  BY <1>1, PageFields
<1>3. NoOlder(page.loop, page.age.began) /\ \A s \in page.shown : NoOlder(s.words, page.age.began)
  BY DEF PageInv, PageFresh
<1> QED BY <1>1, <1>2, <1>3 DEF NoOlder, StatusNotStale

LEMMA CompletePage ==
  ASSUME PageInv
  PROVE  StatusIsComplete
<1> SUFFICES ASSUME StatusSent
             PROVE  StatusIsComplete
  BY DEF StatusIsComplete
<1>1. /\ page \in Pages /\ Len(page.loop) = Len(LoopRegs)
      /\ page.zone <= page.count + 1
      /\ page.count \in 0..7 /\ page.zone \in 1..7
      /\ page.zone > page.count \/ page.zone > MaxZones
  BY DEF PageInv, PageShape, Pages, ZonesLeft, MaxZones
<1>2. \A i \in DOMAIN LoopRegs : LoopRegs[i] \in PollRegs => page.loop[i] # {}
  BY <1>1, ParameterFacts DEF PageInv, PageWhole
<1>3. ASSUME NEW s \in page.shown
      PROVE  s.zone \in 1..page.count \cap 1..MaxZones /\ Covered(s.zone)
  <2>1. s.zone \in 1..6 /\ s.zone < page.zone /\ Covered(s.zone)
    BY <1>1, PageFields DEF PageInv, PageWhole
  <2> QED BY <1>1, <2>1 DEF MaxZones
<1>4. ASSUME NEW z \in 1..page.count \cap 1..MaxZones, Covered(z)
      PROVE  \E s \in page.shown : s.zone = z
  BY <1>1, <1>4 DEF PageInv, PageWhole, MaxZones
<1>5. {s.zone : s \in page.shown} =
        {z \in 1..page.count \cap 1..MaxZones : Covered(z)}
  BY <1>3, <1>4
<1> QED BY <1>2, <1>5 DEF StatusIsComplete, Covered, WordReg

(* The page under construction is well typed. *)
THEOREM StatusTypeCorrect == StatusSpec => []StatusTypeOK
<1>1. StatusInit => StatusInv
  BY StatusInvInit
<1>2. StatusInv /\ [StatusNext]_allStatusVars => StatusInv'
  BY StatusInvNext
<1>3. StatusInv => StatusTypeOK
  BY DEF StatusInv, PollInv, PageInv, PageShape, Pages, Ages, ReplyInv, StatusTypeOK, PageOK
<1> QED BY <1>1, <1>2, <1>3, PTL DEF StatusSpec

(* No word is older than the loop whose end the age_s it is served with counts *)
(* from, however the poll task, the other callers and the bus interleave with  *)
(* the rendering of the page.                                                  *)
THEOREM StatusIsNeverStale == StatusSpec => []StatusNotStale
<1>1. StatusInit => StatusInv
  BY StatusInvInit
<1>2. StatusInv /\ [StatusNext]_allStatusVars => StatusInv'
  BY StatusInvNext
<1>3. StatusInv => StatusNotStale
  BY FreshPage DEF StatusInv
<1> QED BY <1>1, <1>2, <1>3, PTL DEF StatusSpec

(* A rendered status leaves out no polled register and no zone that the ABC    *)
(* reports and the poll set covers, for any poll set and any zone count.       *)
THEOREM StatusIsAlwaysComplete == StatusSpec => []StatusIsComplete
<1>1. StatusInit => StatusInv
  BY StatusInvInit
<1>2. StatusInv /\ [StatusNext]_allStatusVars => StatusInv'
  BY StatusInvNext
<1>3. StatusInv => StatusIsComplete
  BY CompletePage DEF StatusInv
<1> QED BY <1>1, <1>2, <1>3, PTL DEF StatusSpec

---------------------------------------------------------------------------
(* What the words of a zone say. *)

LEMMA ZoneFacts ==
  ASSUME NEW z \in 1..MaxZones, NEW v \in 0..MaxVer
  PROVE  /\ Zones[z][v].temp \in Int16
         /\ Zones[z][v].heat \in Setting /\ Zones[z][v].cool \in Setting
<1>1. Zones[z][v] \in [temp: Int16, heat: Setting, cool: Setting]
  BY ZonesAssumption
<1> QED BY <1>1

LEMMA RegisterOfWord ==
  ASSUME NEW z \in 1..MaxZones, NEW k \in 0..2
  PROVE  /\ WordReg(z, k) \in Nat
         /\ (WordReg(z, k) - ZoneBase) \div 3 + 1 = z
         /\ (WordReg(z, k) - ZoneBase) % 3 = k
<1>1. z \in 1..6
  BY DEF MaxZones
<1>2. WordReg(z, k) - ZoneBase = 3 * (z - 1) + k /\ WordReg(z, k) \in Nat
  BY <1>1 DEF WordReg, ZoneBase
<1>3. (3 * (z - 1) + k) \div 3 = z - 1 /\ (3 * (z - 1) + k) % 3 = k
  BY <1>1
<1> QED BY <1>1, <1>2, <1>3

LEMMA ContentFacts ==
  ASSUME NEW z \in 1..MaxZones, NEW k \in 0..2, NEW w, w.reg = WordReg(z, k)
  PROVE  /\ k = 0 => Content(w) = Zones[z][w.ver].temp % 65536
         /\ k = 1 => Content(w) = Packed(Zones[z][w.ver]) \div 65536
         /\ k = 2 => Content(w) = Packed(Zones[z][w.ver]) % 65536
<1>1. (w.reg - ZoneBase) \div 3 + 1 = z /\ (w.reg - ZoneBase) % 3 = k
  BY RegisterOfWord
<1> QED BY <1>1 DEF Content

\* add_tenths() undoes the two's complement.
LEMMA SignedFacts ==
  ASSUME NEW t \in Int16
  PROVE  Signed(t % 65536) = t
<1>1. t \in Int /\ -32768 <= t /\ t < 32768
  BY DEF Int16
<1>2. CASE t >= 0
  <2>1. t % 65536 = t
    BY <1>1, <1>2
  <2> QED BY <1>1, <2>1 DEF Signed
<1>3. CASE t < 0
  <2>1. t % 65536 = t + 65536
    BY <1>1, <1>3
  <2>2. ~(t + 65536 < 32768)
    BY <1>1
  <2> QED BY <1>1, <2>1, <2>2 DEF Signed
<1> QED BY <1>1, <1>2, <1>3

\* The high word holds the cooling setpoint and the first bit of the heating
\* setpoint, the low word the other five.
LEMMA PackedFacts ==
  ASSUME NEW z, z.heat \in Setting, z.cool \in Setting
  PROVE  /\ Packed(z) \div 65536 = 2 * (z.cool - 36) + (z.heat - 36) \div 32
         /\ Packed(z) % 65536 = 2048 * ((z.heat - 36) % 32)
         /\ (z.heat - 36) \div 32 \in 0..1 /\ (z.heat - 36) % 32 \in 0..31
         /\ z.heat - 36 = (32 * ((z.heat - 36) \div 32)) + ((z.heat - 36) % 32)
<1> DEFINE h == z.heat - 36
           c == z.cool - 36
           a == h \div 32
           b == h % 32
<1>1. h \in 0..63 /\ c \in 0..63
  BY DEF Setting
<1> HIDE DEF h, c
<1>2. a \in 0..1 /\ b \in 0..31 /\ h = 32 * a + b
  BY <1>1
<1> HIDE DEF a, b
<1>3. Packed(z) = 65536 * (2 * c + a) + 2048 * b
  BY SMTT(20), <1>1, <1>2 DEF Packed, h, c
<1>4. 2048 * b \in Nat /\ 2048 * b < 65536 /\ 2 * c + a \in Nat
  BY <1>1, <1>2
<1>5. ASSUME NEW q \in Nat, NEW r \in Nat, r < 65536
      PROVE  ((65536 * q + r) \div 65536 = q) /\ ((65536 * q + r) % 65536 = r)
  <2>1. (65536 * q + r) \div 65536 = q
    BY <1>5
  <2>2. (65536 * q + r) % 65536 = r
    BY <1>5
  <2> QED BY <2>1, <2>2
<1>6. Packed(z) \div 65536 = 2 * c + a /\ Packed(z) % 65536 = 2048 * b
  <2> DEFINE q == 2 * c + a
             r == 2048 * b
  <2>1. q \in Nat /\ r \in Nat /\ r < 65536 /\ Packed(z) = 65536 * q + r
    BY <1>3, <1>4
  <2> HIDE DEF q, r
  <2>2. ((65536 * q + r) \div 65536 = q) /\ ((65536 * q + r) % 65536 = r)
    BY <1>5, <2>1
  <2>3. Packed(z) \div 65536 = q /\ Packed(z) % 65536 = r
    BY <2>1, <2>2
  <2> QED BY <2>3 DEF q, r
<1> QED BY <1>2, <1>6 DEF h, c, a, b

\* Whatever low word it is put together with, a high word gives its own cooling
\* setpoint; with a low word of the same moment it gives the heating setpoint.
LEMMA ShownFacts ==
  ASSUME NEW x, x.heat \in Setting, x.cool \in Setting,
         NEW y, y.heat \in Setting, y.cool \in Setting
  PROVE  /\ CoolShown(Packed(x) \div 65536, Packed(y) % 65536) = x.cool
         /\ HeatShown(Packed(x) \div 65536, Packed(x) % 65536) = x.heat
<1> DEFINE c == x.cool - 36
           h == x.heat - 36
           a == h \div 32
           b == h % 32
           d == (y.heat - 36) % 32
<1>1. /\ Packed(x) \div 65536 = 2 * c + a /\ Packed(x) % 65536 = 2048 * b
      /\ Packed(y) % 65536 = 2048 * d
      /\ a \in 0..1 /\ b \in 0..31 /\ d \in 0..31 /\ h = 32 * a + b
  BY PackedFacts
<1>2. c \in 0..63 /\ h \in 0..63 /\ x.cool = c + 36 /\ x.heat = h + 36
  BY DEF Setting
<1> HIDE DEF c, h, a, b, d
<1>3. \A n \in 0..31 : Data(2 * c + a, 2048 * n) = 131072 * c + 2048 * (32 * a + n)
  BY <1>1, <1>2 DEF Data
<1>4. \A q \in Nat, r \in Nat : r < 131072 => (131072 * q + r) \div 131072 = q
  OBVIOUS
<1>5. Data(2 * c + a, 2048 * d) \div 131072 = c
  <2>1. 2048 * (32 * a + d) \in Nat /\ 2048 * (32 * a + d) < 131072 /\ c \in Nat
    BY <1>1, <1>2
  <2> QED BY <1>1, <1>3, <1>4, <2>1
<1>6. Data(2 * c + a, 2048 * b) \div 2048 = 64 * c + h
  <2>1. Data(2 * c + a, 2048 * b) = 2048 * (64 * c + h)
    BY <1>1, <1>2, <1>3
  <2>2. \A q \in Nat : (2048 * q) \div 2048 = q
    OBVIOUS
  <2> QED BY <1>2, <2>1, <2>2
<1>7. (64 * c + h) % 64 = h /\ c % 64 = c
  BY <1>2
<1> QED BY <1>1, <1>2, <1>5, <1>6, <1>7 DEF CoolShown, HeatShown

---------------------------------------------------------------------------
(* The zones of a page on a quiet bus: each word is its zone's own at some     *)
(* moment, and the low word of the setpoints is never older than the high one. *)

\* The words of the setpoints are stored together.
Together ==
  \A z \in 1..MaxZones :
    \A hi \in PollerGet(WordReg(z, 1)), lo \in PollerGet(WordReg(z, 2)) : hi.ver = lo.ver

OwnWords(words, z) ==
  \A i \in 1..Len(words) : \A w \in words[i] : w.reg = WordReg(z, i - 1)

InOrder(words) == \A hi \in words[2], lo \in words[3] : hi.ver <= lo.ver

\* The low word that will be read next.
LowNext ==
  http = "zones" /\ Len(page.words) = 2 =>
    \A hi \in page.words[2], lo \in PollerGet(WordReg(page.zone, 2)) : hi.ver <= lo.ver

ZoneInv ==
  /\ OwnWords(page.words, page.zone) /\ LowNext
  /\ \A s \in page.shown : OwnWords(s.words, s.zone) /\ InOrder(s.words)

LEMMA SlotNumbers ==
  ASSUME PollInv, NEW r
  PROVE  PollerGet(r) \subseteq Word /\ \A w \in PollerGet(r) : w.ver \in Nat
<1>1. \A q \in PollRegs : cache[q] \subseteq Word
  BY DEF PollInv, PollTypeOK
<1> QED BY <1>1, PollNumbers DEF PollerGet

LEMMA TogetherNext ==
  ASSUME PollInv, Together, [PollNext]_allVars
  PROVE  Together'
<1>1. CASE cache' = cache
  BY <1>1 DEF Together, PollerGet, WordReg
<1>2. ASSUME PollStore, NEW f \in seen[PollTask], cache' = Stored(f)
      PROVE  Together'
  <2>0. span \in Loop /\ cache \in [PollRegs -> SUBSET Word] /\ f \in Frame
    BY <1>2, PollNumbers DEF PollStore, Loop, PollInv, PollTypeOK
  <2>1. /\ \A r \in SpanRegs(span) : \A w \in cache'[r] : w.ver = f.ver
        /\ \A r \in PollRegs \ SpanRegs(span) : cache'[r] = cache[r]
    BY <1>2, <2>0, StoredFacts
  <2>2. \A z \in 1..MaxZones : WordReg(z, 1) \in SpanRegs(span) <=> WordReg(z, 2) \in SpanRegs(span)
    BY <2>0, ZoneSpanAssumption DEF WordReg, Loop
  <2>3. ASSUME NEW z \in 1..MaxZones, NEW hi \in PollerGet(WordReg(z, 1))',
               NEW lo \in PollerGet(WordReg(z, 2))'
        PROVE  hi.ver = lo.ver
    <3>0. /\ WordReg(z, 1) \in PollRegs /\ hi \in cache'[WordReg(z, 1)]
          /\ WordReg(z, 2) \in PollRegs /\ lo \in cache'[WordReg(z, 2)]
      BY <2>3 DEF PollerGet, WordReg
    <3>1. CASE WordReg(z, 1) \in SpanRegs(span)
      BY <2>1, <2>2, <3>0, <3>1
    <3>2. CASE WordReg(z, 1) \notin SpanRegs(span)
      <4>1. hi \in PollerGet(WordReg(z, 1)) /\ lo \in PollerGet(WordReg(z, 2))
        BY <2>1, <2>2, <3>0, <3>2 DEF PollerGet
      <4> QED BY <4>1 DEF Together
    <3> QED BY <3>1, <3>2
  <2> QED BY <2>3 DEF Together, WordReg
<1>3. cache' = cache \/ (PollStore /\ \E f \in seen[PollTask] : cache' = Stored(f))
  BY CacheStays DEF PollStore, LoopFailed
<1> QED BY <1>1, <1>2, <1>3

\* While the page waits its next word only gets younger.
LEMMA ZoneWaits ==
  ASSUME PollInv, PageInv, TimeInv, ZoneInv, [PollNext]_allVars, UNCHANGED statusVars
  PROVE  ZoneInv'
<1>0. http' = http /\ page' = page
  BY DEF statusVars
<1>1. Forward /\ PollInv'
  BY TimeInvNext, PollInvNext
<1>2. ASSUME http = "zones", Len(page.words) = 2, NEW hi \in page.words[2],
             NEW lo \in PollerGet(WordReg(page.zone, 2))'
      PROVE  hi.ver <= lo.ver
  <2> DEFINE r == WordReg(page.zone, 2)
  <2>1. r \in PollRegs /\ lo \in cache'[r] /\ cache[r] # {}
    <3>1. r \in PollRegs /\ lo \in cache'[r]
      BY <1>0, <1>2 DEF PollerGet, WordReg
    <3>2. stats.ever_succeeded /\ AgeWithinOneLoop
      BY <1>2 DEF PageInv, PageFresh, PollInv
    <3> QED BY <3>1, <3>2 DEF AgeWithinOneLoop
  <2>2. PICK l \in cache[r] : TRUE
    BY <2>1
  <2>3. l \in PollerGet(r)
    BY <2>1, <2>2 DEF PollerGet
  <2>4. hi.ver <= l.ver /\ l.ver <= lo.ver
    BY <1>1, <1>2, <2>1, <2>3 DEF ZoneInv, LowNext, Forward
  <2>5. l.ver \in Nat /\ lo.ver \in Nat
    <3>1. \A w \in cache'[r] : w.ver \in Nat
      <4>1. cache' \in [PollRegs -> SUBSET Word]
        BY <1>1 DEF PollInv, PollTypeOK
      <4>2. \A w \in Word : w.ver \in Nat
        BY DEF Word
      <4> QED BY <2>1, <4>1, <4>2
    <3> QED BY <2>1, <2>2, <3>1, PollNumbers
  <2>6. hi.ver \in Nat
    <3>1. page.words \in Seq(SUBSET Word)
      BY PageFields DEF PageInv, PageShape
    <3>2. page.words[2] \subseteq Word
      BY <1>2, <3>1
    <3> QED BY <1>2, <3>2 DEF Word
  <2> QED BY <2>4, <2>5, <2>6
<1>3. LowNext'
  BY <1>0, <1>2 DEF LowNext, WordReg
<1> QED BY <1>0, <1>3 DEF ZoneInv, OwnWords, InOrder, WordReg

LEMMA ZoneEmpty ==
  ASSUME page'.words = <<>>, page'.shown = page.shown, ZoneInv
  PROVE  ZoneInv'
BY DEF ZoneInv, OwnWords, InOrder, LowNext, WordReg

(* The next word of a zone. *)
LEMMA ZoneWord ==
  ASSUME PollInv, PageInv, OwnSlotInv, Together, ZoneInv, StatusWord
  PROVE  ZoneInv'
<1> DEFINE n    == Len(page.words)
           r    == WordReg(page.zone, n)
           slot == PollerGet(r)
           got  == Append(page.words, slot)
<1>1. /\ page \in Pages /\ page.words \in Seq(SUBSET Word) /\ n \in 0..2
      /\ page.zone \in 1..MaxZones
  <2>1. page \in Pages /\ Len(page.words) < 3
    BY DEF PageInv, PageShape
  <2>2. /\ page.words \in Seq(SUBSET Word) /\ Len(page.words) \in Nat /\ page.zone \in 1..7
    BY <2>1, PageFields
  <2>3. page.zone <= MaxZones
    BY DEF StatusWord, ZonesLeft
  <2>4. \A m \in Nat : m < 3 => m \in 0..2
    OBVIOUS
  <2>5. n \in 0..2
    BY <2>1, <2>2, <2>4
  <2>6. page.zone \in 1..MaxZones
    BY <2>2, <2>3 DEF MaxZones
  <2> QED BY <2>1, <2>2, <2>5, <2>6
<1>2. /\ http' = "zones" /\ cache' = cache
      /\ page' = IF slot = {} THEN Advanced
                 ELSE IF Len(got) < 3 THEN [page EXCEPT !.words = got]
                 ELSE [Advanced EXCEPT !.shown = @ \cup {[zone |-> page.zone, words |-> got]}]
  BY DEF StatusWord, WordReg, allVars, pollVars
<1>3. slot \in SUBSET Word /\ \A w \in slot : w.reg = r
  BY SlotNumbers DEF PollerGet, OwnSlotInv
<1>4. /\ got \in Seq(SUBSET Word) /\ Len(got) = n + 1
      /\ \A i \in 1..n : got[i] = page.words[i]
      /\ got[n + 1] = slot
  BY <1>1, <1>3, AppendFacts
<1>5. OwnWords(got, page.zone)
  <2>1. ASSUME NEW i \in 1..Len(got), NEW w \in got[i]
        PROVE  w.reg = WordReg(page.zone, i - 1)
    <3>1. CASE i = n + 1
      <4>1. i - 1 = n
        BY <1>1, <3>1
      <4> QED BY <1>3, <1>4, <2>1, <3>1, <4>1
    <3>2. CASE i # n + 1
      <4>1. i \in 1..n
        BY <1>1, <1>4, <3>2
      <4> QED BY <1>4, <2>1, <4>1 DEF ZoneInv, OwnWords
    <3> QED BY <3>1, <3>2
  <2> QED BY <2>1 DEF OwnWords
<1>6. n = 1 => \A hi \in got[2], lo \in PollerGet(WordReg(page.zone, 2)) : hi.ver <= lo.ver
  <2> SUFFICES ASSUME n = 1, NEW hi \in got[2], NEW lo \in PollerGet(WordReg(page.zone, 2))
               PROVE  hi.ver <= lo.ver
    OBVIOUS
  <2>1. hi \in PollerGet(WordReg(page.zone, 1))
    BY <1>4
  <2>2. hi.ver = lo.ver
    BY <1>1, <2>1 DEF Together
  <2> QED BY <2>1, <2>2, SlotNumbers
<1>7. n = 2 => InOrder(got)
  <2> SUFFICES ASSUME n = 2
               PROVE  InOrder(got)
    OBVIOUS
  <2>1. got[2] = page.words[2] /\ got[3] = PollerGet(WordReg(page.zone, 2))
    BY <1>4
  <2> QED BY <2>1 DEF InOrder, ZoneInv, LowNext, StatusWord
<1> HIDE DEF slot, got, r
<1>8. CASE slot = {}
  <2>1. page'.words = <<>> /\ page'.shown = page.shown
    BY <1>1, <1>2, <1>8 DEF Advanced, Pages
  <2> QED BY <2>1, ZoneEmpty
<1>9. CASE slot # {} /\ Len(got) < 3
  <2>1. page'.words = got /\ page'.zone = page.zone /\ page'.shown = page.shown
    BY <1>1, <1>2, <1>9 DEF Pages
  <2>2. LowNext'
    <3>1. Len(got) = 2 => n = 1
      <4>1. \A m \in 0..2 : m + 1 = 2 => m = 1
        OBVIOUS
      <4> QED BY <1>1, <1>4, <4>1, Zenon
    <3> QED BY <1>2, <1>6, <2>1, <3>1 DEF LowNext, PollerGet, WordReg
  <2> QED BY <1>5, <2>1, <2>2 DEF ZoneInv, OwnWords, InOrder, WordReg
<1>10. CASE slot # {} /\ ~(Len(got) < 3)
  <2> DEFINE one == [zone |-> page.zone, words |-> got]
  <2>1. page'.words = <<>> /\ page'.shown = page.shown \cup {one}
    BY <1>1, <1>2, <1>10 DEF Advanced, Pages
  <2>2. one.zone = page.zone /\ one.words = got
    OBVIOUS
  <2> HIDE DEF one
  <2>3. n = 2
    BY <1>1, <1>4, <1>10
  <2>4. \A s \in page'.shown : OwnWords(s.words, s.zone) /\ InOrder(s.words)
    BY <1>5, <1>7, <2>1, <2>2, <2>3 DEF ZoneInv
  <2>5. OwnWords(page.words, page.zone)' /\ LowNext'
    BY <2>1 DEF OwnWords, LowNext
  <2> QED BY <2>4, <2>5 DEF ZoneInv, OwnWords, InOrder, WordReg
<1> QED BY <1>8, <1>9, <1>10

(* Every other step of the page leaves its zones alone or begins it again. *)
LEMMA ZonePage ==
  ASSUME PollInv, PageInv, OwnSlotInv, Together, ZoneInv,
         StatusArrives \/ StatusStep \/ Purged
  PROVE  ZoneInv'
<1>0. page \in Pages /\ (http = "loop" => page.words = <<>>)
  BY DEF PageInv, PageShape
<1>1. CASE StatusWord
  BY <1>1, ZoneWord
<1>2. CASE StatusGet \/ Sent
  <2>1. page'.words = <<>> /\ page'.shown = {}
    BY <1>2 DEF StatusGet, Sent, NoPage
  <2> QED BY <2>1 DEF ZoneInv, OwnWords, InOrder, LowNext, WordReg
<1>3. CASE StatusLoopWord \/ StatusConfig
  <2>1. page'.words = <<>> /\ page'.shown = page.shown
    BY <1>0, <1>3 DEF StatusLoopWord, StatusConfig, Pages
  <2> QED BY <2>1, ZoneEmpty
<1>4. CASE StatusUnready \/ StatusReply \/ Purged
  <2>1. page' = page /\ http' \in {"answer", "idle"}
    BY <1>0, <1>4 DEF StatusUnready, StatusReply, Purged, Send, Dated, Pages
  <2> QED BY <2>1 DEF ZoneInv, OwnWords, InOrder, LowNext, WordReg
<1> QED BY <1>1, <1>2, <1>3, <1>4 DEF StatusArrives, StatusStep

(* No word of a page comes from the future. *)
Past(words) == \A i \in 1..Len(words) : \A w \in words[i] : w.ver <= ver

PagePast == Past(page.words) /\ \A s \in page.shown : Past(s.words)

LEMMA PastStays ==
  ASSUME PollInv, PageInv, PagePast, [PollNext]_allVars, page' = page
  PROVE  PagePast'
<1>1. page' = page /\ ver \in Nat /\ ver' \in Nat /\ ver <= ver'
  BY VersionsGrow
<1>2. ASSUME NEW words \in Seq(SUBSET Word), Past(words)
      PROVE  \A i \in 1..Len(words) : \A w \in words[i] : w.ver <= ver'
  <2>1. \A i \in 1..Len(words) : \A w \in words[i] : w.ver \in Nat
    BY DEF Word
  <2> QED BY <1>1, <1>2, <2>1 DEF Past
<1>3. page.words \in Seq(SUBSET Word) /\ \A s \in page.shown : s.words \in Seq(SUBSET Word)
  BY PageFields DEF PageInv, PageShape
<1> QED BY <1>1, <1>2, <1>3 DEF PagePast, Past

LEMMA PastPage ==
  ASSUME PollInv, PageInv, TimeInv, PagePast, UNCHANGED allVars,
         StatusArrives \/ StatusStep \/ Purged
  PROVE  PagePast'
<1>0. page \in Pages /\ page.words \in Seq(SUBSET Word)
  BY PageFields DEF PageInv, PageShape
<1>1. ver' = ver
  BY DEF allVars, busVars
<1>2. CASE StatusWord
  <2> DEFINE slot == PollerGet(WordReg(page.zone, Len(page.words)))
             got  == Append(page.words, slot)
  <2>1. slot \subseteq Word /\ \A w \in slot : w.ver <= ver
    BY SlotNumbers DEF TimeInv, CacheBy, PollerGet
  <2>2. page' = IF slot = {} THEN Advanced
                ELSE IF Len(got) < 3 THEN [page EXCEPT !.words = got]
                ELSE [Advanced EXCEPT !.shown = @ \cup {[zone |-> page.zone, words |-> got]}]
    BY <1>2 DEF StatusWord, WordReg
  <2>3. /\ got \in Seq(SUBSET Word) /\ Len(got) = Len(page.words) + 1
        /\ \A i \in 1..Len(page.words) : got[i] = page.words[i]
        /\ got[Len(page.words) + 1] = slot
    BY <1>0, <2>1, AppendFacts
  <2> HIDE DEF slot, got
  <2>4. Past(got)
    <3>1. \A i \in 1..Len(got) : i \in 1..Len(page.words) \/ i = Len(page.words) + 1
      BY <1>0, <2>3
    <3> QED BY <2>1, <2>3, <3>1 DEF Past, PagePast
  <2>5. /\ page'.words = <<>> \/ page'.words = got
        /\ \/ page'.shown = page.shown
           \/ \E z : page'.shown = page.shown \cup {[zone |-> z, words |-> got]}
    BY <1>0, <2>2 DEF Advanced, Pages
  <2>6. Past(<<>>)
    BY DEF Past
  <2> QED BY <1>1, <2>4, <2>5, <2>6 DEF PagePast, Past
<1>3. CASE StatusGet \/ Sent
  <2>1. page'.words = <<>> /\ page'.shown = {}
    BY <1>3 DEF StatusGet, Sent, NoPage
  <2> QED BY <2>1 DEF PagePast, Past
<1>4. CASE StatusLoopWord \/ StatusConfig \/ StatusUnready \/ StatusReply \/ Purged
  <2>1. page'.words = page.words /\ page'.shown = page.shown
    BY <1>0, <1>4 DEF StatusLoopWord, StatusConfig, StatusUnready, StatusReply, Purged, Dated,
                      Send, Pages
  <2> QED BY <1>1, <2>1 DEF PagePast, Past
<1> QED BY <1>2, <1>3, <1>4 DEF StatusArrives, StatusStep

(* What the words of a zone show. *)
LEMMA RealZones ==
  ASSUME PageInv, ZoneInv, PagePast, ver \in 0..MaxVer
  PROVE  ZonesAreReal
<1> SUFFICES ASSUME NEW s \in page.shown,
                    NEW tv \in s.words[1], NEW hi \in s.words[2], NEW lo \in s.words[3]
             PROVE  LET Ever(P(_)) == \E v \in page.age.began..ver : P(Zones[s.zone][v])
                        heat == HeatShown(Content(hi), Content(lo))
                        cool == CoolShown(Content(hi), Content(lo))
                    IN /\ Ever(LAMBDA z : TempShown(Content(tv)) = {z.temp} \ {SentinelNA})
                       /\ Ever(LAMBDA z : cool = z.cool)
                       /\ Ever(LAMBDA z : heat = z.heat) \/ hi.ver < lo.ver
  BY DEF ZonesAreReal
<1>1. /\ s.zone \in 1..MaxZones /\ s.words \in Seq(SUBSET Word) /\ Len(s.words) = 3
      /\ page.age.began \in 0..MaxVer
  BY PageFields DEF PageInv, PageShape, MaxZones
<1>2. \A w \in s.words[1] \cup s.words[2] \cup s.words[3] :
         w.ver \in page.age.began..ver /\ w.ver \in 0..MaxVer
  <2>1. \A i \in 1..3 : s.words[i] \subseteq Word
    BY <1>1
  <2>2. \A w \in Word : w.ver \in 0..MaxVer
    BY DEF Word
  <2>3. \A i \in 1..3 : \A w \in s.words[i] : w.ver >= page.age.began /\ w.ver <= ver
    BY <1>1 DEF PageInv, PageFresh, NoOlder, PagePast, Past
  <2> QED BY <1>1, <2>1, <2>2, <2>3
<1>3. tv.reg = WordReg(s.zone, 0) /\ hi.reg = WordReg(s.zone, 1) /\ lo.reg = WordReg(s.zone, 2)
  BY <1>1 DEF ZoneInv, OwnWords
<1> DEFINE a == Zones[s.zone][tv.ver]
           x == Zones[s.zone][hi.ver]
           y == Zones[s.zone][lo.ver]
<1>4. /\ Content(tv) = a.temp % 65536
      /\ Content(hi) = Packed(x) \div 65536 /\ Content(lo) = Packed(y) % 65536
  BY <1>1, <1>3, ContentFacts
<1>5. /\ a.temp \in Int16
      /\ x.heat \in Setting /\ x.cool \in Setting /\ y.heat \in Setting /\ y.cool \in Setting
  BY <1>1, <1>2, ZoneFacts
<1>6. TempShown(Content(tv)) = {a.temp} \ {SentinelNA}
  BY <1>4, <1>5, SignedFacts DEF TempShown
<1>7. CoolShown(Content(hi), Content(lo)) = x.cool
  BY <1>4, <1>5, ShownFacts
<1>8. HeatShown(Content(hi), Content(lo)) = x.heat \/ hi.ver < lo.ver
  <2>1. hi.ver <= lo.ver /\ hi.ver \in Int /\ lo.ver \in Int
    BY <1>2 DEF ZoneInv, InOrder
  <2>2. CASE hi.ver = lo.ver
    BY <1>4, <1>5, <2>2, ShownFacts
  <2> QED BY <2>1, <2>2
<1> QED BY <1>2, <1>6, <1>7, <1>8

LEMMA ZoneInvInit ==
  ASSUME PollInit, http = "idle", page = NoPage
  PROVE  ZoneInv /\ Together /\ PagePast
<1>1. page.words = <<>> /\ page.shown = {}
  BY DEF NoPage
<1>2. \A r : PollerGet(r) = {}
  BY DEF PollInit, PollerGet
<1> QED BY <1>1, <1>2 DEF ZoneInv, OwnWords, LowNext, Together, PagePast, Past

(* On a quiet bus the temperature and the cooling setpoint of every zone of a  *)
(* page are values it had since the loop the age is counted from began, and so *)
(* is the heating setpoint unless its low word is the younger: for any zones,  *)
(* any history of their settings and any spans that keep the two setpoint      *)
(* words together.                                                             *)
THEOREM ZonesAreAlwaysReal == StatusSpec => []ZonesAreReal
<1> DEFINE Inv == /\ StatusInv /\ TimeInv /\ PagePast
                  /\ QuietBus => QuietInv /\ OwnSlotInv /\ Together /\ ZoneInv
<1>1. StatusInit => Inv
  BY StatusInvInit, TimeInvInit, QuietInvInit, ZoneInvInit
     DEF StatusInit, PollInit, OwnSlotInv
<1>2. Inv /\ [StatusNext]_allStatusVars => Inv'
  <2> SUFFICES ASSUME Inv, [StatusNext]_allStatusVars
               PROVE  Inv'
    OBVIOUS
  <2>1. PollInv /\ PageInv /\ StatusInv'
    BY StatusInvNext DEF StatusInv
  <2>2. \/ [PollNext]_allVars /\ UNCHANGED statusVars
        \/ UNCHANGED allVars /\ (StatusArrives \/ StatusStep \/ Purged)
    BY DEF StatusNext, OtherStep, allStatusVars, StatusArrives, StatusStep, StatusUnready,
           StatusGet, StatusLoopWord, StatusConfig, StatusWord, StatusReply, Sent, Purged
  <2>3. [PollNext]_allVars
    BY <2>2
  <2>4. TimeInv'
    BY <2>1, <2>3, TimeInvNext
  <2>5. PagePast' /\ QuietBus' = QuietBus
    BY <2>1, <2>2, PastStays, PastPage DEF statusVars, QuietBus
  <2>6. ASSUME QuietBus
        PROVE  QuietInv' /\ OwnSlotInv' /\ Together' /\ ZoneInv'
    <3>1. [BusNext]_busVars /\ BusInv
      BY <2>1, <2>3, PollUsesBus DEF allVars, PollInv
    <3>2. QuietInv' /\ OwnSlotInv' /\ Together'
      BY <2>1, <2>3, <2>6, <3>1, QuietInvNext, OwnSlotNext, TogetherNext
    <3>3. ZoneInv'
      BY <2>1, <2>2, <2>6, ZoneWaits, ZonePage
    <3> QED BY <3>2, <3>3
  <2> QED BY <2>1, <2>4, <2>5, <2>6
<1>3. Inv => ZonesAreReal
  BY RealZones DEF StatusInv, PollInv, PollTypeOK, BusTypeOK, ZonesAreReal
<1> QED BY <1>1, <1>2, <1>3, PTL DEF StatusSpec
=============================================================================
