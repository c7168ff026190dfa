------------------------------- MODULE PollerProof -------------------------------
(***************************************************************************)
(* Proofs about the poll task: it uses the driver as the driver may be     *)
(* used, the age it publishes covers the cache but for the length of one   *)
(* loop, suspending polling drains the bus within one loop, and on a quiet *)
(* bus a slot holds its own register.                                      *)
(***************************************************************************)
EXTENDS Poller, BusProof

Loop == 1..NumSpans

\* While the task is inside the driver, it reads the span it is at.
LoopInv == pc[PollTask] # "idle" => span \in Loop /\ req[PollTask] = Spans[span]

\* What is being read now is at least as recent as the beginning of the loop.
RecentInv ==
  /\ okStart <= okVer /\ okVer <= ver /\ okStart <= startVer /\ startVer <= ver
  /\ span # 0 => okVer <= startVer
  /\ pc[PollTask] \in {"send", "await"} => startVer <= asked[PollTask]
  /\ \A f \in seen[PollTask] : startVer <= f.ver

\* As long as a loop goes well, the spans behind it were stored by it.
ProgressInv ==
  span # 0 /\ allOk =>
    \A i \in Loop : i < span =>
      \A r \in SpanRegs(i) : cache[r] # {} /\ \A w \in cache[r] : startVer <= w.ver

BeforeSend == {"idle", "want", "quiet", "send"}

\* How many requests the loop may still send.
Unsent == IF span = 0 THEN 0
          ELSE NumSpans - span + IF pc[PollTask] \in BeforeSend THEN 1 ELSE 0

DrainInv == ~enabled => offTx + Unsent <= NumSpans

PollInv == /\ PollTypeOK /\ BusInv /\ LoopInv /\ RecentInv /\ ProgressInv /\ DrainInv
           /\ AgeWithinOneLoop

OwnSlotInv == \A r \in PollRegs : \A w \in cache[r] : w.fc = "read" /\ w.reg = r

---------------------------------------------------------------------------
LEMMA SpanFacts ==
  /\ NumSpans \in Nat \ {0}
  /\ \A i \in Loop : /\ Spans[i] \in Requests /\ Spans[i].fc = "read"
                     /\ Spans[i].reg \in Nat /\ Spans[i].arg \in Nat
                     /\ SpanRegs(i) \subseteq PollRegs
<1>1. \A i \in Loop : Spans[i] \in Requests /\ Spans[i].fc = "read"
  BY SpanAssumption DEF Loop, NumSpans
<1>2. \A i \in Loop : SpanRegs(i) \subseteq PollRegs
  BY DEF PollRegs, Loop
<1> QED BY <1>1, <1>2, SpanAssumption, RequestAssumption DEF NumSpans, Request

(* The poll task and the other callers use the driver only as BusNext allows. *)
LEMMA PollUsesBus ==
  ASSUME PollNext
  PROVE  [BusNext]_busVars
<1>1. CASE PollSpan
  BY <1>1, SpanFacts, SpanAssumption DEF PollSpan, Loop, BusNext
<1>2. CASE PollStore
  BY <1>2, SpanAssumption DEF PollStore, LoopFailed, NextSpan, BusNext
<1>3. CASE PollTop \/ PollPublish \/ \E b \in BOOLEAN : SetEnabled(b)
  BY <1>3 DEF PollTop, MayPoll, PollPublish, SetEnabled
<1>4. CASE \E t \in Tasks : Locks(t) \/ Transact(t)
  BY <1>4 DEF Locks, Transact, BusNext
<1>5. CASE OtherCalls \/ BusOutside
  BY <1>5 DEF OtherCalls, BusOutside, BusNext
<1> QED BY <1>1, <1>2, <1>3, <1>4, <1>5 DEF PollNext, PollTaskStep

(* Any step of the bus that is not a call or return of the poll task: what it *)
(* can change of the task's view of the driver.                               *)
LEMMA DriverView ==
  ASSUME BusInv, NEW t \in Tasks, Locks(t) \/ Transact(t)
  PROVE  /\ ver' = ver
         /\ t # PollTask => pc'[PollTask] = pc[PollTask] /\ seen'[PollTask] = seen[PollTask]
                            /\ asked'[PollTask] = asked[PollTask]
         /\ req' = req
BY SpanAssumption
   DEF Locks, Transact, Transaction, TakeLock, LockFree, ClearException, IdleWait,
       Drain, Transmit, TxFail, Receive, Timeout, GiveLock, Release, BusInv, BusTypeOK
LEMMA PollBusStep ==
  ASSUME PollInv, PollNext
  PROVE  BusInv' /\ BusTypeOK'
BY PollUsesBus, BusInvNext DEF PollInv, BusInv

(* The rest of the task's invariant, when its own variables change. *)
TaskInv == LoopInv /\ RecentInv /\ ProgressInv /\ DrainInv /\ AgeWithinOneLoop /\ PollTypeOK

LEMMA PollTopStep ==
  ASSUME PollInv, PollTop, BusTypeOK'
  PROVE  TaskInv'
<1> USE DEF PollInv
<1>0. pc[PollTask] = "idle" /\ seen[PollTask] = {}
  <2>1. pc[PollTask] = "idle"
    BY SpanFacts DEF PollTop, MayPoll, LoopInv, Loop
  <2> QED BY <2>1, SpanAssumption DEF BusInv, CallInv, Replied
<1>1. PollTypeOK'
  BY SpanFacts DEF PollTop, MayPoll, PollTypeOK, BusTypeOK
<1>2. LoopInv'
  BY <1>0 DEF PollTop, MayPoll, busVars, LoopInv
<1>3. RecentInv'
  BY <1>0, BoundAssumption DEF PollTop, MayPoll, busVars, RecentInv, PollTypeOK,
                               BusTypeOK
<1>4. ProgressInv'
  BY DEF PollTop, MayPoll, ProgressInv, Loop
<1>5. DrainInv'
  BY SpanFacts DEF PollTop, MayPoll, DrainInv
<1>6. AgeWithinOneLoop'
  BY DEF PollTop, MayPoll, AgeWithinOneLoop
<1> QED BY <1>1, <1>2, <1>3, <1>4, <1>5, <1>6 DEF TaskInv

LEMMA PollSpanStep ==
  ASSUME PollInv, PollSpan, BusTypeOK'
  PROVE  TaskInv'
<1> USE SpanAssumption DEF PollInv
<1>0. /\ UNCHANGED <<pollVars, ver, seen>> /\ span \in Loop
      /\ pc' = [pc EXCEPT ![PollTask] = "want"] /\ pc[PollTask] = "idle"
      /\ req' = [req EXCEPT ![PollTask] = Spans[span]]
  BY DEF PollSpan, Call, Loop
<1>1. PollTypeOK'
  BY <1>0 DEF pollVars, PollTypeOK
<1>2. LoopInv'
  BY <1>0 DEF pollVars, LoopInv, PollTypeOK, BusTypeOK
<1>3. RecentInv'
  BY <1>0 DEF pollVars, RecentInv, PollTypeOK, BusTypeOK
<1>4. ProgressInv' /\ AgeWithinOneLoop'
  BY <1>0 DEF pollVars, ProgressInv, AgeWithinOneLoop, SpanRegs, PollRegs
<1>5. DrainInv'
  BY <1>0 DEF pollVars, DrainInv, Unsent, BeforeSend, PollTypeOK, BusTypeOK
<1> QED BY <1>1, <1>2, <1>3, <1>4, <1>5 DEF TaskInv

(* What a successful span leaves in the cache. *)
LEMMA StoredFacts ==
  ASSUME span \in Loop, cache \in [PollRegs -> SUBSET Word], NEW f \in Frame
  PROVE  /\ Stored(f) \in [PollRegs -> SUBSET Word]
         /\ \A r \in SpanRegs(span) :
              /\ Stored(f)[r] # {}
              /\ \A w \in Stored(f)[r] :
                   w.fc = f.fc /\ w.reg = f.reg + (r - Spans[span].reg) /\ w.ver = f.ver
         /\ \A r \in PollRegs \ SpanRegs(span) : Stored(f)[r] = cache[r]
<1>1. ASSUME NEW r \in SpanRegs(span)
      PROVE  [fc |-> f.fc, reg |-> f.reg + (r - Spans[span].reg), ver |-> f.ver] \in Word
  BY SpanFacts DEF SpanRegs, Frame, Word
<1>2. Stored(f) \in [PollRegs -> SUBSET Word]
  BY <1>1 DEF Stored, WordIndex
<1>3. \A r \in SpanRegs(span) :
         Stored(f)[r] = {[fc |-> f.fc, reg |-> f.reg + (r - Spans[span].reg), ver |-> f.ver]}
  BY SpanFacts DEF Stored, WordIndex
<1>4. \A r \in PollRegs \ SpanRegs(span) : Stored(f)[r] = cache[r]
  BY DEF Stored, WordIndex
<1>5. ASSUME NEW r \in SpanRegs(span), NEW w \in Stored(f)[r]
      PROVE  w.fc = f.fc /\ w.reg = f.reg + (r - Spans[span].reg) /\ w.ver = f.ver
  <2>1. w = [fc |-> f.fc, reg |-> f.reg + (r - Spans[span].reg), ver |-> f.ver]
    BY <1>3, <1>5
  <2> QED BY <2>1
<1>6. \A r \in SpanRegs(span) : Stored(f)[r] # {}
  BY <1>3
<1> QED BY <1>2, <1>4, <1>5, <1>6

LEMMA PollStoreStep ==
  ASSUME PollInv, PollStore, BusTypeOK'
  PROVE  TaskInv'
<1> USE SpanAssumption DEF PollInv
<1>0. /\ span \in Loop /\ span' = span + 1
      /\ UNCHANGED <<enabled, stats, startVer, okStart, okVer, offTx, ver>>
      /\ pc' = [pc EXCEPT ![PollTask] = "idle"] /\ pc[PollTask] = "done"
      /\ seen' = [seen EXCEPT ![PollTask] = {}]
      /\ allOk' => allOk
  BY DEF PollStore, LoopFailed, NextSpan, Return, Loop, PollTypeOK
<1>1. \/ allOk' = FALSE /\ cache' = cache
      \/ allOk' = allOk /\ \E f \in seen[PollTask] : cache' = Stored(f)
  BY DEF PollStore, LoopFailed, NextSpan
<1>2. PollTypeOK'
  <2>1. cache' \in [PollRegs -> SUBSET Word]
    BY <1>0, <1>1, StoredFacts DEF PollTypeOK, BusTypeOK
  <2>2. span' \in 0..NumSpans + 1
    BY <1>0, SpanFacts DEF Loop
  <2>3. allOk' \in BOOLEAN
    BY <1>1 DEF PollTypeOK
  <2> QED BY <1>0, <2>1, <2>2, <2>3 DEF PollTypeOK
<1>3. LoopInv'
  BY <1>0 DEF LoopInv, PollTypeOK, BusTypeOK
<1>4. RecentInv'
  <2>1. okVer <= startVer
    BY <1>0 DEF RecentInv, Loop
  <2>2. pc'[PollTask] = "idle" /\ seen'[PollTask] = {}
    BY <1>0 DEF PollTypeOK, BusTypeOK
  <2> QED BY <1>0, <2>1, <2>2 DEF RecentInv
<1>5. \A r \in PollRegs :
         \/ cache'[r] = cache[r]
         \/ cache'[r] # {} /\ \A w \in cache'[r] : startVer <= w.ver
  <2>1. CASE cache' = cache
    BY <2>1
  <2>2. ASSUME NEW f \in seen[PollTask], cache' = Stored(f)
        PROVE  \A r \in SpanRegs(span) : cache'[r] # {} /\ \A w \in cache'[r] : startVer <= w.ver
    <3>1. f \in Frame /\ startVer <= f.ver
      BY DEF RecentInv, PollTypeOK, BusTypeOK
    <3> QED BY <1>0, <2>2, <3>1, StoredFacts DEF PollTypeOK
  <2>3. ASSUME NEW f \in seen[PollTask], cache' = Stored(f)
        PROVE  \A r \in PollRegs \ SpanRegs(span) : cache'[r] = cache[r]
    BY <1>0, <2>3, StoredFacts DEF PollTypeOK, BusTypeOK
  <2> QED BY <1>1, <2>1, <2>2, <2>3
<1>6. ProgressInv'
  <2> SUFFICES ASSUME allOk', NEW i \in Loop, i < span', NEW r \in SpanRegs(i)
               PROVE  cache'[r] # {} /\ \A w \in cache'[r] : startVer' <= w.ver
    BY DEF ProgressInv
  <2>1. r \in PollRegs
    BY SpanFacts
  <2>2. CASE i < span
    <3>1. cache[r] # {} /\ \A w \in cache[r] : startVer <= w.ver
      BY <1>0, <2>2 DEF ProgressInv, Loop
    <3> QED BY <1>0, <1>5, <2>1, <3>1
  <2>3. CASE i = span
    <3>1. PICK f \in seen[PollTask] : cache' = Stored(f)
      BY <1>0, <1>1
    <3>2. f \in Frame /\ startVer <= f.ver
      BY DEF RecentInv, PollTypeOK, BusTypeOK
    <3> QED BY <1>0, <2>3, <3>1, <3>2, StoredFacts DEF PollTypeOK
  <2> QED BY <1>0, <2>2, <2>3 DEF Loop
<1>7. DrainInv'
  BY <1>0, SpanFacts DEF DrainInv, Unsent, BeforeSend, PollTypeOK, BusTypeOK, Loop
<1>8. AgeWithinOneLoop'
  <2> SUFFICES ASSUME stats.ever_succeeded, NEW r \in PollRegs
               PROVE  cache'[r] # {} /\ \A w \in cache'[r] : w.ver >= okStart
    BY <1>0 DEF AgeWithinOneLoop
  <2>1. CASE cache'[r] = cache[r]
    BY <2>1 DEF AgeWithinOneLoop
  <2>2. CASE cache'[r] # {} /\ \A w \in cache'[r] : startVer <= w.ver
    <3>1. \A w \in cache'[r] : w.ver \in Nat
      BY SMTT(20), <1>2 DEF PollTypeOK, Word
    <3> QED BY <2>2, <3>1 DEF RecentInv, PollTypeOK
  <2> QED BY <1>5, <2>1, <2>2
<1> QED BY <1>2, <1>3, <1>4, <1>6, <1>7, <1>8 DEF TaskInv
LEMMA PollPublishStep ==
  ASSUME PollInv, PollPublish, BusTypeOK'
  PROVE  TaskInv'
<1> USE DEF PollInv
<1>0. /\ UNCHANGED <<busVars, enabled, allOk, cache, startVer, offTx>>
      /\ span = NumSpans + 1 /\ span' = 0
      /\ pc[PollTask] = "idle"
  BY SpanFacts DEF PollPublish, LoopInv, Loop
<1>1. PollTypeOK'
  <2>1. Incr(stats.polls_ok) \in Nat /\ Incr(stats.polls_failed) \in Nat
    BY DEF Incr, PollTypeOK
  <2>2. stats' \in [polls_ok: Nat, polls_failed: Nat, ever_succeeded: BOOLEAN]
    BY <2>1 DEF PollPublish, PollTypeOK
  <2>3. okStart' \in 0..MaxVer /\ okVer' \in 0..MaxVer
    BY DEF PollPublish, PollTypeOK, BusTypeOK
  <2>4. span' \in 0..NumSpans + 1
    BY <1>0, SpanFacts
  <2> QED BY <1>0, <2>2, <2>3, <2>4 DEF PollTypeOK
<1>2. LoopInv' /\ ProgressInv' /\ DrainInv'
  BY <1>0, SpanFacts DEF LoopInv, ProgressInv, DrainInv, Unsent, BeforeSend, busVars
<1>3. RecentInv'
  <2>1. /\ UNCHANGED <<ver, pc, seen, asked, startVer>> /\ span' = 0
        /\ \/ UNCHANGED <<okStart, okVer>>
           \/ okStart' = startVer /\ okVer' = ver
    BY <1>0 DEF PollPublish, busVars
  <2>2. ver <= ver /\ startVer <= startVer
    BY DEF PollTypeOK, BusTypeOK
  <2> QED BY <2>1, <2>2 DEF RecentInv
<1>4. AgeWithinOneLoop'
  <2>1. CASE allOk
    <3>1. okStart' = startVer
      BY <2>1 DEF PollPublish
    <3>2. \A r \in PollRegs : \E i \in Loop : r \in SpanRegs(i)
      BY DEF PollRegs, Loop
    <3>3. \A r \in PollRegs : cache[r] # {} /\ \A w \in cache[r] : startVer <= w.ver
      BY <1>0, <2>1, <3>2, SpanFacts DEF ProgressInv, Loop
    <3>4. \A r \in PollRegs : \A w \in cache[r] : w.ver \in Nat
      BY DEF PollTypeOK, Word
    <3>5. startVer \in Nat
      BY DEF PollTypeOK
    <3> QED BY <1>0, <3>1, <3>3, <3>4, <3>5 DEF AgeWithinOneLoop
  <2>2. CASE ~allOk
    <3>1. okStart' = okStart /\ stats'.ever_succeeded = stats.ever_succeeded
      BY <2>2 DEF PollPublish, PollTypeOK
    <3> QED BY <1>0, <3>1 DEF AgeWithinOneLoop
  <2> QED BY <2>1, <2>2
<1> QED BY <1>1, <1>2, <1>3, <1>4 DEF TaskInv

LEMMA SetEnabledStep ==
  ASSUME PollInv, NEW b \in BOOLEAN, SetEnabled(b), BusTypeOK'
  PROVE  TaskInv'
<1> USE DEF PollInv
<1>1. UNCHANGED <<busVars, span, allOk, cache, stats, startVer, okStart, okVer>>
  BY DEF SetEnabled
<1>2. PollTypeOK'
  BY <1>1 DEF SetEnabled, PollTypeOK
<1>3. LoopInv' /\ RecentInv' /\ ProgressInv' /\ AgeWithinOneLoop'
  BY <1>1 DEF busVars, LoopInv, RecentInv, ProgressInv, AgeWithinOneLoop
<1>4. DrainInv'
  <2>1. span \in 0..NumSpans + 1 /\ (span = NumSpans + 1 => pc[PollTask] = "idle")
    BY SpanFacts DEF PollTypeOK, LoopInv, Loop
  <2>2. Unsent <= NumSpans /\ Unsent \in Int
    BY <2>1, SpanFacts DEF Unsent, BeforeSend
  <2>3. Unsent' = Unsent
    BY <1>1 DEF Unsent, BeforeSend, busVars
  <2>4. CASE enabled /\ ~b
    BY <2>2, <2>3, <2>4, SpanFacts DEF SetEnabled, DrainInv
  <2>5. CASE ~(enabled /\ ~b)
    BY <2>3, <2>5 DEF SetEnabled, DrainInv
  <2> QED BY <2>4, <2>5
<1> QED BY <1>2, <1>3, <1>4 DEF TaskInv

LEMMA SumMonotone ==
  ASSUME NEW a \in Int, NEW b \in Int, NEW c \in Int, NEW d \in Int, c <= b, a + b <= d
  PROVE  a + c <= d
OBVIOUS

(* A step of the driver: the poll task's own transaction, or another's. *)
LEMMA DriverStep ==
  ASSUME PollInv, NEW t \in Tasks, Locks(t) \/ Transact(t), BusTypeOK', BusInv'
  PROVE  TaskInv'
<1> USE SpanAssumption DEF PollInv
<1>1. UNCHANGED <<enabled, span, allOk, cache, stats, startVer, okStart, okVer>>
  BY DEF Locks, Transact, CountSends, pollVars
<1>2. /\ ver' = ver /\ req' = req
      /\ t # PollTask => pc'[PollTask] = pc[PollTask] /\ seen'[PollTask] = seen[PollTask]
                         /\ asked'[PollTask] = asked[PollTask]
  BY DriverView
<1>3. PollTypeOK'
  BY <1>1 DEF PollTypeOK, Locks, Transact, CountSends, pollVars
<1>4. pc'[PollTask] # "idle" => pc[PollTask] # "idle"
  BY DEF Locks, Transact, Transaction, TakeLock, LockFree, ClearException, IdleWait,
         Drain, Transmit, TxFail, Receive, Timeout, GiveLock, Release, PollTypeOK, BusTypeOK
<1>5. LoopInv'
  BY <1>1, <1>2, <1>4 DEF LoopInv
<1>6. RecentInv'
  <2>1. \A f \in seen'[PollTask] : startVer <= f.ver
    <3>1. CASE Receive(t) /\ t = PollTask
      <4>1. pc[t] = "await" /\ (\E f \in rx : seen'[t] = {f})
        BY <3>1 DEF Receive, PollTypeOK, BusTypeOK
      <4>2. \A f \in rx : f.ver >= asked[t] /\ f.ver \in Nat
        BY <4>1 DEF BusInv, AgeInv, BusTypeOK, Frame
      <4>3. startVer <= asked[t] /\ startVer \in Nat /\ asked[t] \in Nat
        BY <3>1, <4>1 DEF RecentInv, PollTypeOK, BusTypeOK
      <4> QED BY <3>1, <4>1, <4>2, <4>3
    <3>2. CASE ~(Receive(t) /\ t = PollTask)
      <4>1. seen'[PollTask] = seen[PollTask]
        BY <1>2, <3>2 DEF Locks, Transact, Transaction, TakeLock, LockFree,
                          ClearException, IdleWait, Drain, Transmit, TxFail, Timeout,
                          GiveLock, Release
      <4> QED BY <4>1 DEF RecentInv
    <3> QED BY <3>1, <3>2
  <2>2. pc'[PollTask] \in {"send", "await"} => startVer <= asked'[PollTask]
    <3>1. CASE asked'[PollTask] = asked[PollTask] /\ pc[PollTask] \in {"send", "await"}
      BY <3>1 DEF RecentInv
    <3>2. CASE asked'[PollTask] = ver
      BY <3>2 DEF RecentInv
    <3>3. CASE pc'[PollTask] \in {"send", "await"}
      <4>1. CASE t # PollTask
        BY <1>2, <3>1, <3>3, <4>1
      <4>2. CASE t = PollTask /\ IdleWait(t)
        BY <3>2, <3>3, <4>2 DEF IdleWait, PollTypeOK, BusTypeOK
      <4>3. CASE t = PollTask /\ ~IdleWait(t)
        <5>1. asked'[PollTask] = asked[PollTask] /\ pc[PollTask] \in {"send", "await"}
          BY <3>3, <4>3
             DEF Locks, Transact, Transaction, TakeLock, LockFree, ClearException, Transmit,
                 TxFail, Receive, Timeout, GiveLock, Release, PollTypeOK, BusTypeOK
        <5> QED BY <3>1, <5>1
      <4> QED BY <4>1, <4>2, <4>3
    <3> QED BY <3>3
  <2> QED BY <1>1, <1>2, <2>1, <2>2 DEF RecentInv
<1>7. ProgressInv' /\ AgeWithinOneLoop'
  BY <1>1 DEF ProgressInv, AgeWithinOneLoop, SpanRegs, PollRegs
<1>8. DrainInv'
  <2>1. CASE (Transmit(t) \/ TxFail(t)) /\ t = PollTask
    <3>1. pc[PollTask] = "send" /\ pc'[PollTask] \in {"await", "delay"}
      BY <2>1 DEF Transmit, TxFail, PollTypeOK, BusTypeOK
    <3>2. span \in Loop
      BY <3>1 DEF LoopInv
    <3>3. Unsent = NumSpans - span + 1 /\ Unsent' = NumSpans - span
      BY <1>1, <3>1, <3>2, SpanFacts DEF Unsent, BeforeSend, Loop
    <3>4. ~enabled => offTx' = offTx + 1
      BY <2>1, <3>1 DEF Locks, Transact, TakeLock, LockFree, ClearException,
                        CountSends, PollerSends, Transmit, TxFail
    <3> QED BY <1>1, <3>2, <3>3, <3>4, SpanFacts DEF DrainInv, Loop, PollTypeOK
  <2>2. CASE ~((Transmit(t) \/ TxFail(t)) /\ t = PollTask)
    <3>1. ~(pc[PollTask] = "send" /\ pc'[PollTask] # "send")
      BY <1>2, <2>2 DEF Locks, Transact, Transaction, TakeLock, LockFree,
                        ClearException, IdleWait, Receive, Timeout, GiveLock,
                        Release, PollTypeOK, BusTypeOK
    <3>2. offTx' = offTx
      BY <3>1 DEF Locks, Transact, CountSends, PollerSends, pollVars
    <3>3. pc'[PollTask] \in BeforeSend => pc[PollTask] \in BeforeSend
      <4>1. CASE t # PollTask
        BY <1>2, <4>1
      <4>2. CASE t = PollTask
        BY <4>2 DEF BeforeSend, Locks, Transact, Transaction, TakeLock, LockFree,
                    ClearException, IdleWait, Transmit, TxFail, Receive, Timeout, GiveLock,
                    Release, PollTypeOK, BusTypeOK
      <4> QED BY <4>1, <4>2
    <3>4. span \in Int /\ NumSpans \in Int /\ offTx \in Int
      BY SpanFacts DEF PollTypeOK
    <3>5. Unsent' <= Unsent /\ Unsent' \in Int /\ Unsent \in Int
      BY <1>1, <3>3, <3>4 DEF Unsent, BeforeSend
    <3>6. offTx + Unsent <= NumSpans => offTx' + Unsent' <= NumSpans
      BY <3>2, <3>4, <3>5, SumMonotone
    <3> QED BY <1>1, <3>6 DEF DrainInv
  <2> QED BY <2>1, <2>2
<1> QED BY <1>3, <1>5, <1>6, <1>7, <1>8 DEF TaskInv

(* Calls of the other tasks and steps of the outside leave the task alone. *)
LEMMA OthersStep ==
  ASSUME PollInv, OtherCalls \/ BusOutside, BusTypeOK', BusInv'
  PROVE  TaskInv'
<1> USE SpanAssumption DEF PollInv
<1>1. UNCHANGED pollVars
  BY DEF OtherCalls, BusOutside
<1>2. /\ pc'[PollTask] = pc[PollTask] /\ req'[PollTask] = req[PollTask]
      /\ seen'[PollTask] = seen[PollTask] /\ asked'[PollTask] = asked[PollTask]
  <2>1. CASE OtherCalls
    BY <2>1 DEF OtherCalls, Call, Return, PollTypeOK, BusTypeOK
  <2>2. CASE BusOutside
    BY <2>2, OutsideFrame DEF BusOutside
  <2> QED BY <2>1, <2>2
<1>3. ver <= ver' /\ ver \in Nat /\ ver' \in Nat
  <2>1. ver \in Nat /\ ver' \in Nat
    BY DEF PollTypeOK, BusTypeOK
  <2>2. CASE OtherCalls
    <3>1. ver' = ver
      BY <2>2 DEF OtherCalls, Call, Return
    <3> QED BY <2>1, <3>1
  <2>3. CASE BusOutside
    <3>1. ver <= ver'
      BY <2>3, OutsideHears DEF BusOutside, PollTypeOK
    <3> QED BY <2>1, <3>1
  <2> QED BY <2>2, <2>3
<1>4. PollTypeOK' /\ ProgressInv' /\ AgeWithinOneLoop'
  BY <1>1 DEF pollVars, PollTypeOK, ProgressInv, AgeWithinOneLoop, SpanRegs, PollRegs
<1>5. LoopInv' /\ DrainInv'
  BY <1>1, <1>2 DEF pollVars, LoopInv, DrainInv, Unsent, BeforeSend
<1>6. RecentInv'
  BY <1>1, <1>2, <1>3 DEF pollVars, RecentInv, PollTypeOK
<1> QED BY <1>4, <1>5, <1>6 DEF TaskInv
---------------------------------------------------------------------------
LEMMA PollInvInit ==
  ASSUME PollInit
  PROVE  PollInv
<1>1. BusInv /\ BusTypeOK
  BY BusInvInit DEF PollInit, BusInv
<1>2. PollTypeOK
  BY <1>1, SpanFacts, BoundAssumption DEF PollInit, PollTypeOK
<1>3. pc[PollTask] = "idle" /\ asked[PollTask] = 0 /\ seen[PollTask] = {} /\ ver = 0
  BY SpanAssumption DEF PollInit, BusInit
<1>4. LoopInv /\ RecentInv /\ ProgressInv /\ DrainInv /\ AgeWithinOneLoop
  BY <1>3, SpanFacts
     DEF PollInit, LoopInv, RecentInv, ProgressInv, DrainInv, Unsent, BeforeSend, AgeWithinOneLoop
<1> QED BY <1>1, <1>2, <1>4 DEF PollInv

LEMMA PollInvNext ==
  ASSUME PollInv, [PollNext]_allVars
  PROVE  PollInv'
<1>1. CASE PollNext
  <2>1. BusInv' /\ BusTypeOK'
    BY <1>1, PollBusStep
  <2>2. CASE PollTaskStep
    BY <2>1, <2>2, PollTopStep, PollSpanStep, PollStoreStep, PollPublishStep
       DEF PollTaskStep, TaskInv, PollInv
  <2>3. CASE \E b \in BOOLEAN : SetEnabled(b)
    BY <2>1, <2>3, SetEnabledStep DEF TaskInv, PollInv
  <2>4. CASE \E t \in Tasks : Locks(t) \/ Transact(t)
    BY <2>1, <2>4, DriverStep DEF TaskInv, PollInv
  <2>5. CASE OtherCalls \/ BusOutside
    BY <2>1, <2>5, OthersStep DEF TaskInv, PollInv
  <2> QED BY <1>1, <2>2, <2>3, <2>4, <2>5 DEF PollNext
<1>2. CASE UNCHANGED allVars
  <2>1. UNCHANGED busVars /\ UNCHANGED pollVars
    BY <1>2 DEF allVars
  <2>2. BusInv' /\ BusTypeOK'
    BY <2>1, BusInvNext DEF PollInv, BusInv
  <2>3. PollTypeOK' /\ LoopInv' /\ RecentInv'
    BY <2>1, <2>2 DEF busVars, pollVars, PollInv, PollTypeOK, LoopInv, RecentInv
  <2>4. ProgressInv' /\ DrainInv' /\ AgeWithinOneLoop'
    BY <2>1 DEF busVars, pollVars, PollInv, ProgressInv, DrainInv, Unsent, BeforeSend, AgeWithinOneLoop
  <2> QED BY <2>2, <2>3, <2>4 DEF PollInv
<1> QED BY <1>1, <1>2

(* The poll task's state is well typed. *)
THEOREM PollTypeCorrect == PollSpec => []PollTypeOK
<1>1. PollInit => PollInv
  BY PollInvInit
<1>2. PollInv /\ [PollNext]_allVars => PollInv'
  BY PollInvNext
<1>3. PollInv => PollTypeOK
  BY DEF PollInv
<1> QED BY <1>1, <1>2, <1>3, PTL DEF PollSpec

(* Once a loop has succeeded every slot is valid and no older than the         *)
(* beginning of the last good loop, whose end age_s counts from: age_s is      *)
(* short by at most that loop, for any spans, any other tasks, and any traffic *)
(* on the bus.                                                                 *)
THEOREM AgeIsWithinOneLoop == PollSpec => []AgeWithinOneLoop
<1>1. PollInit => PollInv
  BY PollInvInit
<1>2. PollInv /\ [PollNext]_allVars => PollInv'
  BY PollInvNext
<1>3. PollInv => AgeWithinOneLoop
  BY DEF PollInv
<1> QED BY <1>1, <1>2, <1>3, PTL DEF PollSpec

LEMMA Drained ==
  ASSUME PollInv
  PROVE  SuspendDrains
<1> SUFFICES ASSUME ~enabled
             PROVE  offTx <= NumSpans
  BY DEF SuspendDrains
<1>1. span \in 0..NumSpans + 1 /\ (span = NumSpans + 1 => pc[PollTask] = "idle")
  BY SpanFacts DEF PollInv, PollTypeOK, LoopInv, Loop
<1>2. Unsent \in Nat
  BY <1>1, SpanFacts DEF Unsent, BeforeSend
<1>3. offTx + Unsent <= NumSpans /\ offTx \in Nat
  BY DEF PollInv, DrainInv, PollTypeOK
<1> QED BY <1>2, <1>3, SpanFacts

(* A suspended poll task sends at most one request per span before it stops. *)
THEOREM SuspensionDrains == PollSpec => []SuspendDrains
<1>1. PollInit => PollInv
  BY PollInvInit
<1>2. PollInv /\ [PollNext]_allVars => PollInv'
  BY PollInvNext
<1>3. PollInv => SuspendDrains
  BY Drained
<1> QED BY <1>1, <1>2, <1>3, PTL DEF PollSpec

(* The poll task and its rivals are clients the driver's proofs cover. *)
THEOREM PollImplementsBus == PollSpec => BusInit /\ [][BusNext]_busVars
<1>1. PollInit => BusInit
  BY DEF PollInit
<1>2. [PollNext]_allVars => [BusNext]_busVars
  BY PollUsesBus DEF allVars
<1> QED BY <1>1, <1>2, PTL DEF PollSpec

---------------------------------------------------------------------------
(* The quiet bus: a span's words come from the span's registers. *)
LEMMA OwnSlotNext ==
  ASSUME PollInv, QuietBus, QuietInv, OwnSlotInv, [PollNext]_allVars
  PROVE  OwnSlotInv'
<1>1. CASE PollStore
  <2>1. span \in Loop /\ cache \in [PollRegs -> SUBSET Word]
    BY <1>1 DEF PollStore, LoopFailed, NextSpan, Loop, PollInv, PollTypeOK
  <2>2. pc[PollTask] = "done" /\ req[PollTask] = Spans[span] /\ PollTask \in Tasks
    BY <1>1, SpanAssumption DEF PollStore, LoopFailed, NextSpan, Return, PollInv,
                                LoopInv
  <2>3. CASE err[PollTask] = "ESP_OK"
    <3>1. PICK f \in seen[PollTask] : cache' = Stored(f)
      BY <1>1, <2>3 DEF PollStore, LoopFailed, NextSpan
    <3>2. f \in Frame
      BY <2>2 DEF PollInv, PollTypeOK, BusTypeOK
    <3>3. f.fc = "read" /\ f.reg = Spans[span].reg
      BY <2>1, <2>2, <2>3, SpanFacts DEF QuietInv, OwnInv, Replied
    <3>4. ASSUME NEW r \in SpanRegs(span), NEW w \in cache'[r]
          PROVE  w.fc = "read" /\ w.reg = r
      <4>1. w.fc = "read" /\ w.reg = Spans[span].reg + (r - Spans[span].reg)
        BY <2>1, <3>1, <3>2, <3>3, <3>4, StoredFacts
      <4> QED BY <2>1, <4>1, SpanFacts DEF SpanRegs
    <3>5. \A r \in PollRegs \ SpanRegs(span) : cache'[r] = cache[r]
      BY <2>1, <3>1, <3>2, StoredFacts
    <3> QED BY <3>4, <3>5 DEF OwnSlotInv
  <2>4. CASE err[PollTask] # "ESP_OK"
    BY <1>1, <2>4 DEF PollStore, LoopFailed, NextSpan, OwnSlotInv
  <2> QED BY <2>3, <2>4
<1>2. CASE ~PollStore
  <2>1. cache' = cache
    BY <1>2 DEF PollNext, PollTaskStep, PollTop, MayPoll, PollSpan, PollPublish,
                SetEnabled, Locks, Transact, CountSends, OtherCalls, BusOutside,
                allVars, pollVars
  <2> QED BY <2>1 DEF OwnSlotInv
<1> QED BY <1>1, <1>2

(* On a bus without late or foreign frames a cached value was read from the  *)
(* register it is served as.                                                 *)
THEOREM SlotsHoldTheirOwn == PollSpec => []OwnRegister
<1> DEFINE Inv == PollInv /\ (QuietBus => QuietInv /\ OwnSlotInv)
<1>1. PollInit => Inv
  BY PollInvInit, QuietInvInit DEF PollInit, OwnSlotInv
<1>2. Inv /\ [PollNext]_allVars => Inv'
  <2> SUFFICES ASSUME Inv, [PollNext]_allVars
               PROVE  Inv'
    OBVIOUS
  <2>1. [BusNext]_busVars
    BY PollUsesBus DEF allVars
  <2>2. PollInv'
    BY PollInvNext
  <2>3. ASSUME QuietBus
        PROVE  QuietInv' /\ OwnSlotInv'
    BY <2>1, <2>3, QuietInvNext, OwnSlotNext DEF PollInv
  <2>4. QuietBus' = QuietBus
    BY DEF QuietBus
  <2> QED BY <2>2, <2>3, <2>4
<1>3. Inv => OwnRegister
  BY DEF OwnSlotInv, OwnRegister
<1> QED BY <1>1, <1>2, <1>3, PTL DEF PollSpec

---------------------------------------------------------------------------
(* No slot ever goes back in time, on any bus. *)

\* Everything in the cache is at most as recent as moment v.
CacheBy(v) == \A r \in PollRegs : \A w \in cache[r] : w.ver <= v

\* A slot is one word.
OneWord == \A r \in PollRegs : \A w \in cache[r], u \in cache[r] : w.ver = u.ver

\* The words that are about to be stored are the most recent there are.
TimeInv ==
  /\ PastInv
  /\ \A t \in Tasks : \A f \in seen[t] : f.ver <= ver
  /\ CacheBy(ver) /\ OneWord
  /\ pc[PollTask] \in {"send", "await"} => CacheBy(asked[PollTask])
  /\ \A f \in seen[PollTask] : CacheBy(f.ver)

\* A slot that has been read is never lost, and never goes back in time.
Forward == \A r \in PollRegs : /\ cache[r] # {} => cache'[r] # {}
                               /\ \A w \in cache[r], u \in cache'[r] : w.ver <= u.ver

\* Only PollStore touches the cache.
LEMMA CacheStays ==
  ASSUME [PollNext]_allVars, ~PollStore
  PROVE  cache' = cache
BY DEF PollNext, PollTaskStep, PollTop, MayPoll, PollSpan, PollPublish, SetEnabled, Locks,
       Transact, CountSends, OtherCalls, BusOutside, allVars, pollVars

LEMMA PollNumbers ==
  ASSUME PollInv
  PROVE  /\ ver \in Nat /\ PollTask \in Tasks /\ asked[PollTask] \in Nat
         /\ \A t \in Tasks : \A f \in seen[t] : f \in Frame /\ f.ver \in Nat
         /\ \A f \in rx : f \in Frame /\ f.ver \in Nat
         /\ \A r \in PollRegs : \A w \in cache[r] : w.ver \in Nat
<1>1. PollTypeOK /\ BusTypeOK /\ PollTask \in Tasks
  BY SpanAssumption DEF PollInv, PollTypeOK
<1>2. \A v \in 0..MaxVer : v \in Nat
  OBVIOUS
<1>3. \A f \in Frame : f.ver \in Nat
  BY <1>2 DEF Frame
<1>4. \A w \in Word : w.ver \in Nat
  BY <1>2 DEF Word
<1>5. ver \in Nat /\ asked[PollTask] \in Nat
  BY <1>1, <1>2 DEF BusTypeOK
<1>6. \A t \in Tasks : \A f \in seen[t] : f \in Frame
  BY <1>1 DEF BusTypeOK
<1>7. rx \subseteq Frame
  BY <1>1 DEF BusTypeOK
<1>8. \A r \in PollRegs : \A w \in cache[r] : w \in Word
  BY <1>1 DEF PollTypeOK
<1> QED BY <1>1, <1>3, <1>4, <1>5, <1>6, <1>7, <1>8

LEMMA VersionsGrow ==
  ASSUME PollInv, [PollNext]_allVars
  PROVE  ver \in Nat /\ ver' \in Nat /\ ver <= ver'
<1>1. BusTypeOK /\ ver \in Nat
  BY PollNumbers DEF PollInv, PollTypeOK
<1>2. CASE Outside
  BY <1>1, <1>2, OutsideHears
<1>3. CASE ~Outside
  <2>1. [BusNext]_busVars
    BY PollUsesBus DEF allVars
  <2>2. ver' = ver
    BY <1>3, <2>1 DEF BusNext, Call, TakeLock, Transaction, IdleWait, Transmit, TxFail, Receive,
                      Timeout, GiveLock, Return, busVars
  <2> QED BY <1>1, <2>2
<1> QED BY <1>2, <1>3

\* What a task has read was in the UART when it read it.
LEMMA SeenComes ==
  ASSUME PollInv, [PollNext]_allVars, NEW t \in Tasks, NEW f \in seen'[t]
  PROVE  \/ f \in seen[t]
         \/ f \in rx /\ pc[t] = "await" /\ f.ver >= asked[t]
<1>0. BusTypeOK /\ [BusNext]_busVars
  BY PollUsesBus DEF PollInv, PollTypeOK, allVars
<1>1. ASSUME NEW u \in Tasks, Receive(u)
      PROVE  f \in seen[t] \/ (f \in rx /\ pc[t] = "await" /\ f.ver >= asked[t])
  <2>1. pc[u] = "await" /\ \E g \in rx : seen' = [seen EXCEPT ![u] = {g}]
    BY <1>1 DEF Receive
  <2> QED BY <1>0, <2>1 DEF BusTypeOK, PollInv, BusInv, AgeInv
<1>2. CASE ~\E u \in Tasks : Receive(u)
  <2>1. \/ UNCHANGED seen
        \/ \E u \in Tasks : seen' = [seen EXCEPT ![u] = {}]
    BY <1>0, <1>2, OutsideFrame
       DEF BusNext, Call, TakeLock, Transaction, IdleWait, Transmit, TxFail, Timeout,
           GiveLock, Return, busVars
  <2> QED BY <1>0, <2>1 DEF BusTypeOK
<1> QED BY <1>1, <1>2

\* The request's turn comes when the idle wait is over.
LEMMA TurnComes ==
  ASSUME PollInv, [PollNext]_allVars, pc'[PollTask] \in {"send", "await"}
  PROVE  \/ pc[PollTask] \in {"send", "await"} /\ asked'[PollTask] = asked[PollTask]
         \/ asked'[PollTask] = ver
<1>0. BusTypeOK /\ [BusNext]_busVars /\ PollTask \in Tasks
  BY PollUsesBus, SpanAssumption DEF PollInv, PollTypeOK, allVars
<1>1. CASE \E t \in Tasks : IdleWait(t)
  <2>1. PICK t \in Tasks : IdleWait(t)
    BY <1>1
  <2>2. CASE t = PollTask
    BY <1>0, <2>1, <2>2 DEF IdleWait, BusTypeOK
  <2>3. CASE t # PollTask
    BY <1>0, <2>1, <2>3 DEF IdleWait, BusTypeOK
  <2> QED BY <2>2, <2>3
<1>2. CASE ~\E t \in Tasks : IdleWait(t)
  BY <1>0, <1>2, OutsideFrame
     DEF BusNext, Call, TakeLock, Transaction, Transmit, TxFail, Receive, Timeout, GiveLock,
         Return, busVars, BusTypeOK
<1> QED BY <1>1, <1>2

LEMMA CacheByLater ==
  ASSUME PollInv, NEW a \in Nat, NEW b \in Nat, CacheBy(a), a <= b
  PROVE  CacheBy(b)
<1> SUFFICES ASSUME NEW r \in PollRegs, NEW w \in cache[r]
             PROVE  w.ver <= b
  BY DEF CacheBy
<1>1. w.ver <= a /\ w.ver \in Nat
  BY PollNumbers DEF CacheBy
<1> QED BY <1>1

\* A loop's reply replaces the words of its span by more recent ones.
LEMMA StoreForward ==
  ASSUME PollInv, TimeInv, PollStore
  PROVE  /\ Forward /\ OneWord'
         /\ CacheBy(ver)'
         /\ pc'[PollTask] = "idle" /\ seen'[PollTask] = {}
<1>0. /\ span \in Loop /\ cache \in [PollRegs -> SUBSET Word]
      /\ pc'[PollTask] = "idle" /\ seen'[PollTask] = {} /\ ver' = ver
  <2>1. span \in Loop /\ Return(PollTask)
    BY DEF PollStore, Loop
  <2>2. PollTypeOK /\ BusTypeOK /\ PollTask \in Tasks
    BY SpanAssumption DEF PollInv, PollTypeOK
  <2> QED BY <2>1, <2>2 DEF Return, PollTypeOK, BusTypeOK
<1>1. CASE cache' = cache
  <2>1. Forward
    BY <1>1, PollNumbers DEF Forward, TimeInv, OneWord
  <2> QED BY <1>0, <1>1, <2>1 DEF TimeInv, OneWord, CacheBy
<1>2. ASSUME NEW f \in seen[PollTask], cache' = Stored(f)
      PROVE  Forward /\ OneWord' /\ CacheBy(ver)'
  <2>1. f \in Frame /\ f.ver \in Nat /\ f.ver <= ver /\ CacheBy(f.ver)
    BY PollNumbers DEF TimeInv
  <2>2. \A r \in SpanRegs(span) : cache'[r] # {} /\ \A w \in cache'[r] : w.ver = f.ver
    BY <1>0, <1>2, <2>1, StoredFacts
  <2>3. \A r \in PollRegs \ SpanRegs(span) : cache'[r] = cache[r]
    BY <1>0, <1>2, <2>1, StoredFacts
  <2>4. ASSUME NEW r \in PollRegs
        PROVE  /\ cache[r] # {} => cache'[r] # {}
               /\ \A w \in cache[r], u \in cache'[r] : w.ver <= u.ver
               /\ \A w \in cache'[r], u \in cache'[r] : w.ver = u.ver
               /\ \A w \in cache'[r] : w.ver <= ver
    <3>1. CASE r \in SpanRegs(span)
      <4>1. \A w \in cache[r] : w.ver <= f.ver
        BY <2>1 DEF CacheBy
      <4> QED BY <2>1, <2>2, <3>1, <4>1
    <3>2. CASE r \notin SpanRegs(span)
      <4>1. cache'[r] = cache[r]
        BY <2>3, <3>2
      <4>2. \A w \in cache[r], u \in cache[r] : w.ver = u.ver
        BY DEF TimeInv, OneWord
      <4>3. \A w \in cache[r] : w.ver <= ver /\ w.ver \in Nat
        BY PollNumbers DEF TimeInv, CacheBy
      <4> QED BY <4>1, <4>2, <4>3
    <3> QED BY <3>1, <3>2
  <2> QED BY <1>0, <2>4 DEF Forward, OneWord, CacheBy
<1>3. cache' = cache \/ \E f \in seen[PollTask] : cache' = Stored(f)
  BY DEF PollStore, LoopFailed
<1> QED BY <1>0, <1>1, <1>2, <1>3

LEMMA TimeInvNext ==
  ASSUME PollInv, TimeInv, [PollNext]_allVars
  PROVE  TimeInv' /\ Forward
<1>1. ver \in Nat /\ ver' \in Nat /\ ver <= ver'
  BY VersionsGrow
<1>2. PastInv'
  BY PollUsesBus, PastInvNext DEF PollInv, TimeInv, allVars
<1>3. PollInv'
  BY PollInvNext
<1>4. \A t \in Tasks : \A f \in seen'[t] : f.ver <= ver'
  <2> SUFFICES ASSUME NEW t \in Tasks, NEW f \in seen'[t]
               PROVE  f.ver <= ver'
    OBVIOUS
  <2>1. f.ver <= ver
    BY SeenComes DEF TimeInv, PastInv
  <2>2. f.ver \in Nat
    <3>1. f \in seen[t] \/ f \in rx
      BY SeenComes
    <3> QED BY <3>1, PollNumbers
  <2> QED BY <1>1, <2>1, <2>2
<1>5. CASE PollStore
  BY <1>2, <1>4, <1>5, StoreForward DEF TimeInv
<1>6. CASE ~PollStore
  <2>1. cache' = cache
    BY <1>6, CacheStays
  <2>2. \A v : CacheBy(v) => \A r \in PollRegs : \A w \in cache'[r] : w.ver <= v
    BY <2>1 DEF CacheBy
  <2>3. Forward /\ OneWord'
    BY <2>1, PollNumbers DEF Forward, TimeInv, OneWord
  <2>4. CacheBy(ver)'
    <3>1. CacheBy(ver')
      BY <1>1, CacheByLater DEF TimeInv
    <3> QED BY <2>1, <3>1 DEF CacheBy
  <2>5. ASSUME pc'[PollTask] \in {"send", "await"}
        PROVE  \A r \in PollRegs : \A w \in cache'[r] : w.ver <= asked'[PollTask]
    <3>1. CASE pc[PollTask] \in {"send", "await"} /\ asked'[PollTask] = asked[PollTask]
      BY <2>1, <3>1 DEF TimeInv, CacheBy
    <3>2. CASE asked'[PollTask] = ver
      BY <2>1, <3>2 DEF TimeInv, CacheBy
    <3> QED BY <2>5, <3>1, <3>2, TurnComes
  <2>6. ASSUME NEW f \in seen'[PollTask]
        PROVE  CacheBy(f.ver)
    <3>1. CASE f \in seen[PollTask]
      BY <3>1 DEF TimeInv
    <3>2. CASE f \in rx /\ pc[PollTask] = "await" /\ f.ver >= asked[PollTask]
      <4>1. CacheBy(asked[PollTask]) /\ asked[PollTask] \in Nat /\ f.ver \in Nat
        BY <3>2, PollNumbers DEF TimeInv
      <4> QED BY <3>2, <4>1, CacheByLater
    <3> QED BY <3>1, <3>2, SeenComes, SpanAssumption
  <2>7. (pc[PollTask] \in {"send", "await"} => CacheBy(asked[PollTask]))'
    BY <2>5 DEF CacheBy
  <2>8. (\A f \in seen[PollTask] : CacheBy(f.ver))'
    BY <2>1, <2>6 DEF CacheBy
  <2> QED BY <1>2, <1>4, <2>3, <2>4, <2>7, <2>8 DEF TimeInv
<1> QED BY <1>5, <1>6

LEMMA TimeInvInit ==
  ASSUME PollInit
  PROVE  TimeInv
BY SpanAssumption DEF PollInit, BusInit, TimeInv, PastInv, CacheBy, OneWord

(* For any spans, any other tasks and any traffic on the bus, a slot of the   *)
(* cache that has been read once stays valid and never goes back in time:     *)
(* the flush before a request is what a late reply would have to get past.    *)
THEOREM SlotsNeverGoBack == PollSpec => [][Forward]_allVars
<1>1. PollInit => PollInv /\ TimeInv
  BY PollInvInit, TimeInvInit
<1>2. PollInv /\ TimeInv /\ [PollNext]_allVars => PollInv' /\ TimeInv' /\ Forward
  BY PollInvNext, TimeInvNext
<1> QED BY <1>1, <1>2, PTL DEF PollSpec

---------------------------------------------------------------------------
(* The quiet bus again: the task and the driver implement the cache of poller.h. *)

KnownSeen == [r \in PollRegs |-> Known(r)]

LEMMA CacheRegs == Cache!Regs = PollRegs
BY DEF Cache!Regs, PollRegs

\* Where every word is its register's own, all of a slot counts.
LEMMA AllKnown ==
  ASSUME OwnSlotInv, NEW r \in PollRegs
  PROVE  KnownSeen[r] = {w.ver : w \in cache[r]}
BY DEF OwnSlotInv, KnownSeen, Known

LEMMA KnownStays ==
  ASSUME cache' = cache
  PROVE  KnownSeen' = KnownSeen
BY DEF KnownSeen, Known

LEMMA CacheStart ==
  ASSUME PollInit
  PROVE  Cache!Init
<1>1. \A r \in PollRegs : Known(r) = {}
  BY DEF PollInit, Known
<1>2. KnownSeen = [r \in PollRegs |-> {}]
  BY <1>1 DEF KnownSeen
<1> QED
  BY <1>2, CacheRegs DEF PollInit, BusInit, Cache!Init, Cache!Empty, KnownSeen

LEMMA CachePublish ==
  ASSUME PollInv, OwnSlotInv, PollPublish
  PROVE  Cache!Publish \/ UNCHANGED Cache!vars
<1>1. UNCHANGED <<ver, cache>>
  BY DEF PollPublish, busVars
<1>2. KnownSeen' = KnownSeen
  BY <1>1, KnownStays
<1>3. CASE ~allOk
  <2>1. /\ UNCHANGED <<okStart, okVer>>
        /\ stats'.ever_succeeded = stats.ever_succeeded
    BY <1>3 DEF PollPublish, PollInv, PollTypeOK
  <2> QED BY <1>1, <1>2, <2>1 DEF Cache!vars, KnownSeen
<1>4. CASE allOk
  <2>1. okStart' = startVer /\ okVer' = ver /\ stats'.ever_succeeded = TRUE
    BY <1>4 DEF PollPublish, PollInv, PollTypeOK
  <2>2. startVer \in okVer..ver
    BY PollNumbers, SpanFacts DEF PollPublish, PollInv, RecentInv, PollTypeOK
  <2>3. \A r \in PollRegs : cache'[r] # {} /\ \A w \in cache'[r] : w.ver >= startVer
    <3>1. AgeWithinOneLoop'
      BY PollInvNext DEF PollNext, PollTaskStep, PollInv
    <3> QED BY <2>1, <3>1 DEF AgeWithinOneLoop
  <2>4. \A r \in PollRegs : KnownSeen[r] # {} /\ \A w \in KnownSeen[r] : w >= startVer
    BY <1>1, <2>3, AllKnown
  <2> QED
    BY <1>1, <1>2, <2>1, <2>2, <2>4, CacheRegs DEF Cache!Publish, KnownSeen
<1> QED BY <1>3, <1>4

\* The words of a good reply are the span's registers, all of one moment.
LEMMA CacheRefresh ==
  ASSUME PollInv, QuietBus, QuietInv, OwnSlotInv, TimeInv, PollStore
  PROVE  (\E i \in Loop : Cache!Refresh(SpanRegs(i))) \/ UNCHANGED Cache!vars
<1>0. span \in Loop /\ cache \in [PollRegs -> SUBSET Word]
      /\ UNCHANGED <<ver, okStart, okVer, stats>>
  BY DEF PollStore, Return, Loop, PollInv, PollTypeOK
<1>1. CASE cache' = cache
  BY <1>0, <1>1, KnownStays DEF Cache!vars, KnownSeen
<1>2. ASSUME NEW f \in seen[PollTask], cache' = Stored(f)
      PROVE  Cache!Refresh(SpanRegs(span))
  <2>1. f \in Frame /\ f.ver \in 0..ver /\ CacheBy(f.ver)
    BY PollNumbers DEF TimeInv
  <2>2. OwnSlotInv'
    BY OwnSlotNext DEF PollNext, PollTaskStep
  <2>3. \A r \in PollRegs : \A v \in KnownSeen[r] : v <= f.ver
    BY <2>1, AllKnown DEF CacheBy
  <2>4. ASSUME NEW r \in PollRegs
        PROVE  Known(r)' = IF r \in SpanRegs(span) THEN {f.ver} ELSE Known(r)
    <3>1. CASE r \in SpanRegs(span)
      <4>1. cache'[r] # {} /\ \A w \in cache'[r] : w.ver = f.ver
        BY <1>0, <1>2, <2>1, <3>1, StoredFacts
      <4>2. {u \in cache'[r] : u.fc = "read" /\ u.reg = r} = cache'[r]
        BY <2>2 DEF OwnSlotInv
      <4> QED BY <3>1, <4>1, <4>2 DEF Known
    <3>2. CASE r \notin SpanRegs(span)
      <4>1. cache'[r] = cache[r]
        BY <1>0, <1>2, <2>1, <3>2, StoredFacts
      <4> QED BY <3>2, <4>1 DEF Known
    <3> QED BY <3>1, <3>2
  <2>5. KnownSeen' = [r \in PollRegs |-> IF r \in SpanRegs(span) THEN {f.ver} ELSE KnownSeen[r]]
    BY <2>4 DEF KnownSeen
  <2> QED
    BY <1>0, <2>1, <2>3, <2>5, CacheRegs DEF Cache!Refresh, KnownSeen
<1>3. cache' = cache \/ \E f \in seen[PollTask] : cache' = Stored(f)
  BY DEF PollStore, LoopFailed
<1> QED BY <1>0, <1>1, <1>2, <1>3

\* A step of the bus is a change of the registers or nothing to the cache.
LEMMA CacheUntouched ==
  ASSUME PollInv, [PollNext]_allVars, ~PollStore, ~PollPublish
  PROVE  Cache!Change \/ UNCHANGED Cache!vars
<1>1. KnownSeen' = KnownSeen
  BY CacheStays, KnownStays
<1>2. UNCHANGED <<okStart, okVer, stats>>
  BY DEF PollNext, PollTaskStep, PollTop, MayPoll, PollSpan, SetEnabled, Locks, Transact,
         CountSends, OtherCalls, BusOutside, allVars, pollVars
<1>3. \/ UNCHANGED ver
      \/ ver < MaxVer /\ ver' = ver + 1
  <2>1. [BusNext]_busVars
    BY PollUsesBus DEF allVars
  <2> QED BY <2>1 DEF BusNext, Call, TakeLock, Transaction, IdleWait, Transmit, TxFail, Receive,
                      Timeout, GiveLock, Return, Outside, AbcReply, AbcRefuse, AbcChange,
                      Overhear, busVars
<1> QED BY <1>1, <1>2, <1>3 DEF Cache!Change, Cache!vars, KnownSeen

LEMMA CacheStep ==
  ASSUME PollInv, QuietBus, QuietInv, OwnSlotInv, TimeInv, [PollNext]_allVars
  PROVE  [Cache!Next]_Cache!vars
<1>1. CASE PollStore
  BY <1>1, CacheRefresh DEF Cache!Next, Loop
<1>2. CASE PollPublish
  BY <1>2, CachePublish DEF Cache!Next
<1>3. CASE ~PollStore /\ ~PollPublish
  BY <1>3, CacheUntouched DEF Cache!Next
<1> QED BY <1>1, <1>2, <1>3

(* On a bus without late and foreign frames the poll task implements the cache *)
(* poller.h promises, for any spans, any other tasks and any order of loops,   *)
(* failures and switchings of the flag: the registers of a span hold their own *)
(* values of one moment, nothing goes back or becomes invalid, and when the    *)
(* age is dated no word is older than the date before.                         *)
THEOREM PollerImplementsCache == QuietBus => (PollSpec => ImplementsCache)
<1>1. QuietBus /\ PollInit
      => PollInv /\ QuietInv /\ OwnSlotInv /\ TimeInv /\ Cache!Init
  BY PollInvInit, QuietInvInit, TimeInvInit, CacheStart DEF PollInit, OwnSlotInv
<1>2. QuietBus /\ PollInv /\ QuietInv /\ OwnSlotInv /\ TimeInv /\ [PollNext]_allVars
      => /\ QuietBus' /\ PollInv' /\ QuietInv' /\ OwnSlotInv' /\ TimeInv'
         /\ [Cache!Next]_Cache!vars
  <2>1. QuietBus' = QuietBus
    BY DEF QuietBus
  <2>2. PollInv /\ [PollNext]_allVars => [BusNext]_busVars /\ BusInv
    BY PollUsesBus DEF allVars, PollInv
  <2> QED
    BY <2>1, <2>2, PollInvNext, QuietInvNext, OwnSlotNext, TimeInvNext, CacheStep
<1> QED BY <1>1, <1>2, PTL DEF PollSpec, ImplementsCache, Cache!Spec
=============================================================================
