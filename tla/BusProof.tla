-------------------------------- MODULE BusProof --------------------------------
(***************************************************************************)
(* Proofs about the RS-485 driver: its type invariant, that replies are    *)
(* fresh and exceptions its own on any bus, and, on a quiet bus, that a    *)
(* call is answered with its own data.                                     *)
(***************************************************************************)
EXTENDS AuroraModbus, TLAPS

\* s_lock is held exactly by the task that is inside a transaction.
LockInv == \A t \in Tasks : pc[t] \in Held <=> lock = t

\* A call in progress has a request, and has read no frame before it replies.
CallInv ==
  \A t \in Tasks : /\ pc[t] # "idle" => req[t] \in Requests
                   /\ pc[t] \notin Replied => seen[t] = {}

\* Whatever waits in the UART came after the idle wait of the task that sends.
AgeInv ==
  \A t \in Tasks : /\ asked[t] <= ver
                   /\ pc[t] \in {"send", "await"} => \A f \in rx : f.ver >= asked[t]

\* No exception is on record while a transaction has not read its reply.
ClearInv == \A t \in Tasks : pc[t] \in {"quiet", "send", "await"} => lastExc = 0

BusInv == /\ BusTypeOK /\ LockInv /\ CallInv /\ AgeInv /\ ClearInv
          /\ FreshReply /\ ExceptionScoped

(* What the quiet bus adds: the only request the ABC may still answer is the *)
(* one being awaited, and a sound frame in the UART is its answer.           *)
AirInv == \A q \in air : rx = {} /\ \E t \in Tasks : pc[t] = "await" /\ req[t] = q

Owns(f, t) == /\ f.fc = req[t].fc /\ f.reg = req[t].reg /\ f.arg = req[t].arg
              /\ req[t].fc = "write" => t \in applied

RxInv == \A f \in rx : \E t \in Tasks : /\ pc[t] = "await"
                                        /\ f.crc => f.fc = "exception" \/ Owns(f, t)

OwnInv == \A t \in Tasks : pc[t] \in Replied /\ err[t] = "ESP_OK" =>
            /\ \A f \in seen[t] : f.fc = req[t].fc /\ f.reg = req[t].reg /\ f.arg = req[t].arg
            /\ req[t].fc = "write" => t \in applied

QuietInv == AirInv /\ RxInv /\ OwnInv

---------------------------------------------------------------------------
(* Frames the ABC can put on the wire have the type of a frame. *)
LEMMA ReplyType ==
  ASSUME NEW q \in Requests, ver \in 0..MaxVer
  PROVE  ReplyTo(q) \in Frame
<1>1. ByteTwo(q) \in Nat
  BY RequestAssumption DEF ByteTwo, Request
<1>2. q.fc \in {"read", "write"} /\ q.reg \in Nat /\ q.arg \in Nat
  BY RequestAssumption DEF Request
<1>3. q.fc \in Functions /\ "self" \in Addrs /\ TRUE \in BOOLEAN
  BY <1>2 DEF Functions, Addrs
<1> HIDE DEF Functions, Addrs
<1> QED
  BY <1>1, <1>2, <1>3 DEF ReplyTo, Frame

LEMMA RefusalType ==
  ASSUME NEW q \in Requests, NEW c \in ExcCodes, ver \in 0..MaxVer
  PROVE  Refusal(q, c) \in Frame
BY ReplyType, FrameAssumption DEF Refusal, Frame, Functions

LEMMA DamagedType ==
  ASSUME NEW f \in Frame, NEW a \in Addrs, NEW c \in Functions
  PROVE  /\ Damaged(f, a, c) \in Frame
         /\ Damaged(f, a, c).ver = f.ver /\ Damaged(f, a, c).crc = FALSE
BY DEF Frame, Damaged

LEMMA OverheardType ==
  ASSUME NEW f \in ForeignFrames, ver \in 0..MaxVer
  PROVE  [f EXCEPT !.ver = ver] \in Frame /\ [f EXCEPT !.ver = ver].ver = ver
BY FrameAssumption DEF Frame

LEMMA VerdictType ==
  ASSUME NEW f, NEW q
  PROVE  Verdict(f, q) \in Errors \ {"none", "ESP_FAIL", "ESP_ERR_TIMEOUT"}
BY DEF Verdict, CrcOk, Errors

LEMMA BumpType ==
  ASSUME faults \in [Counters -> Nat], NEW c \in Counters, Bump(c)
  PROVE  faults' \in [Counters -> Nat]
<1>1. Incr(faults[c]) \in Nat
  BY DEF Incr
<1> QED BY <1>1 DEF Bump

(* Everything the outside puts in the UART is a frame sampled now. *)
LEMMA OutsideHears ==
  ASSUME BusTypeOK, Outside
  PROVE  /\ \A f \in rx' \ rx : f \in Frame /\ f.ver = ver
         /\ rx' # rx => rx = {}
         /\ ver' \in 0..MaxVer /\ ver <= ver' /\ (rx' # rx => ver' = ver)
         /\ air' \subseteq air
<1>0. ver \in 0..MaxVer /\ air \subseteq Requests
  BY DEF BusTypeOK
<1>1. ASSUME NEW q \in air, AbcReply(q)
      PROVE  /\ \A f \in rx' \ rx : f \in Frame /\ f.ver = ver
             /\ rx' # rx => rx = {}
             /\ ver' = ver /\ air' \subseteq air
  <2>1. ReplyTo(q) \in Frame /\ ReplyTo(q).ver = ver
    BY <1>0, ReplyType DEF ReplyTo
  <2>2. ASSUME NEW a \in Addrs, NEW c \in {q.fc, "exception"}
        PROVE  /\ Damaged(ReplyTo(q), a, c) \in Frame
               /\ Damaged(ReplyTo(q), a, c).ver = ver
    <3>1. c \in Functions
      BY <1>0, RequestAssumption DEF Functions, Request
    <3> QED BY <2>1, <3>1, DamagedType
  <2> QED BY <2>1, <2>2, <1>1 DEF AbcReply, Hear
<1>2. ASSUME NEW q \in air, AbcRefuse(q)
      PROVE  /\ \A f \in rx' \ rx : f \in Frame /\ f.ver = ver
             /\ rx' # rx => rx = {}
             /\ ver' = ver /\ air' \subseteq air
  <2>1. \A c \in ExcCodes : Refusal(q, c) \in Frame /\ Refusal(q, c).ver = ver
    BY <1>0, RefusalType DEF Refusal, ReplyTo
  <2> QED BY <2>1, <1>2 DEF AbcRefuse, Hear
<1>3. ASSUME AbcChange
      PROVE  rx' = rx /\ ver' \in 0..MaxVer /\ ver <= ver' /\ air' = air
  BY <1>0, <1>3, BoundAssumption DEF AbcChange
<1>4. ASSUME Overhear
      PROVE  /\ \A f \in rx' \ rx : f \in Frame /\ f.ver = ver
             /\ rx' # rx => rx = {}
             /\ ver' = ver /\ air' = air
  BY <1>0, <1>4, OverheardType DEF Overhear, Hear
<1> QED BY <1>0, <1>1, <1>2, <1>3, <1>4, BoundAssumption DEF Outside

(* The outside touches no variable of the driver. *)
LEMMA OutsideFrame ==
  ASSUME Outside
  PROVE  /\ UNCHANGED <<lock, lastExc, faults, pc, req, err, seen, drains, asked>>
         /\ applied \subseteq applied'
         /\ (BusTypeOK => applied' \subseteq Tasks)
BY DEF Outside, AbcReply, AbcRefuse, AbcChange, Overhear, Carry, BusTypeOK
---------------------------------------------------------------------------
(* Every step of a task, and every step of the outside, preserves BusInv. *)

LEMMA CallStep ==
  ASSUME BusInv, NEW t \in Tasks, NEW q \in Requests, Call(t, q)
  PROVE  BusInv'
<1> USE DEF BusInv
<1>1. BusTypeOK'
  BY BoundAssumption DEF BusTypeOK, Call, CallInv, PcStates, Held, Replied, Errors
<1>2. LockInv'
  BY TaskAssumption DEF LockInv, BusTypeOK, Call, Held
<1>3. CallInv'
  BY DEF CallInv, BusTypeOK, Call, Replied
<1>4. AgeInv'
  BY DEF AgeInv, BusTypeOK, Call
<1>5. ClearInv'
  BY DEF ClearInv, LockInv, BusTypeOK, Call, Held
<1>6. FreshReply'
  BY DEF FreshReply, AgeInv, CallInv, BusTypeOK, Call, Replied
<1>7. ExceptionScoped'
  BY DEF ExceptionScoped, ClearInv, LockInv, CallInv, BusTypeOK, Call, Held, Replied
<1> QED BY <1>1, <1>2, <1>3, <1>4, <1>5, <1>6, <1>7

LEMMA TakeLockStep ==
  ASSUME BusInv, NEW t \in Tasks, TakeLock(t)
  PROVE  BusInv'
<1> USE DEF BusInv
<1>1. BusTypeOK'
  BY BoundAssumption DEF BusTypeOK, TakeLock, LockFree, ClearException, CallInv,
                         PcStates, Held, Replied, Errors
<1>2. LockInv'
  BY TaskAssumption DEF LockInv, BusTypeOK, TakeLock, LockFree, ClearException, Held
<1>3. CallInv'
  BY DEF CallInv, BusTypeOK, TakeLock, LockFree, ClearException, Replied
<1>4. AgeInv'
  BY DEF AgeInv, BusTypeOK, TakeLock, LockFree, ClearException
<1>5. ClearInv'
  BY DEF ClearInv, LockInv, BusTypeOK, TakeLock, LockFree, ClearException, Held
<1>6. FreshReply'
  BY DEF FreshReply, AgeInv, CallInv, BusTypeOK, TakeLock, LockFree, ClearException,
         Replied
<1>7. ExceptionScoped'
  BY DEF ExceptionScoped, ClearInv, LockInv, CallInv, BusTypeOK, TakeLock, LockFree,
         ClearException, Held, Replied
<1> QED BY <1>1, <1>2, <1>3, <1>4, <1>5, <1>6, <1>7

LEMMA IdleWaitStep ==
  ASSUME BusInv, NEW t \in Tasks, IdleWait(t)
  PROVE  BusInv'
<1> USE DEF BusInv
<1>1. BusTypeOK'
  BY BumpType, BoundAssumption DEF BusTypeOK, IdleWait, Drain, GivesUp, Counters, CallInv, PcStates, Held,
                  Replied
<1>2. LockInv'
  BY TaskAssumption DEF LockInv, BusTypeOK, IdleWait, Drain, GivesUp, Held
<1>3. CallInv'
  BY DEF CallInv, BusTypeOK, IdleWait, Drain, GivesUp, Replied
<1>4. AgeInv'
  BY DEF AgeInv, BusTypeOK, IdleWait, Drain, GivesUp
<1>5. ClearInv'
  BY DEF ClearInv, LockInv, BusTypeOK, IdleWait, Drain, GivesUp, Held
<1>6. FreshReply'
  BY DEF FreshReply, AgeInv, CallInv, BusTypeOK, IdleWait, Drain, GivesUp, Replied
<1>7. ExceptionScoped'
  BY DEF ExceptionScoped, ClearInv, LockInv, CallInv, BusTypeOK, IdleWait, Drain, GivesUp, Held,
         Replied
<1> QED BY <1>1, <1>2, <1>3, <1>4, <1>5, <1>6, <1>7

LEMMA TransmitStep ==
  ASSUME BusInv, NEW t \in Tasks, Transmit(t)
  PROVE  BusInv'
<1> USE DEF BusInv
<1>1. BusTypeOK'
  BY DEF BusTypeOK, Transmit, CallInv, PcStates, Held,
                  Replied
<1>2. LockInv'
  BY TaskAssumption DEF LockInv, BusTypeOK, Transmit, Held
<1>3. CallInv'
  BY DEF CallInv, BusTypeOK, Transmit, Replied
<1>4. AgeInv'
  BY DEF AgeInv, BusTypeOK, Transmit
<1>5. ClearInv'
  BY DEF ClearInv, LockInv, BusTypeOK, Transmit, Held
<1>6. FreshReply'
  BY DEF FreshReply, AgeInv, CallInv, BusTypeOK, Transmit, Replied
<1>7. ExceptionScoped'
  BY DEF ExceptionScoped, ClearInv, LockInv, CallInv, BusTypeOK, Transmit, Held,
         Replied
<1> QED BY <1>1, <1>2, <1>3, <1>4, <1>5, <1>6, <1>7

LEMMA TxFailStep ==
  ASSUME BusInv, NEW t \in Tasks, TxFail(t)
  PROVE  BusInv'
<1> USE DEF BusInv
<1>1. BusTypeOK'
  BY BoundAssumption DEF BusTypeOK, TxFail, CallInv, PcStates, Held, Replied,
                         Errors
<1>2. LockInv'
  BY TaskAssumption DEF LockInv, BusTypeOK, TxFail, Held
<1>3. CallInv'
  BY DEF CallInv, BusTypeOK, TxFail, Replied
<1>4. AgeInv'
  BY DEF AgeInv, BusTypeOK, TxFail
<1>5. ClearInv'
  BY DEF ClearInv, LockInv, BusTypeOK, TxFail, Held
<1>6. FreshReply'
  BY DEF FreshReply, AgeInv, CallInv, BusTypeOK, TxFail, Replied
<1>7. ExceptionScoped'
  BY DEF ExceptionScoped, ClearInv, LockInv, CallInv, BusTypeOK, TxFail, Held,
         Replied
<1> QED BY <1>1, <1>2, <1>3, <1>4, <1>5, <1>6, <1>7

LEMMA ReceiveStep ==
  ASSUME BusInv, NEW t \in Tasks, Receive(t)
  PROVE  BusInv'
<1> USE DEF BusInv
<1>1. BusTypeOK'
  <2>1. faults' \in [Counters -> Nat]
    BY BumpType DEF BusTypeOK, Receive, Counters
  <2>2. PICK f \in rx : /\ err' = [err EXCEPT ![t] = Verdict(f, req[t])]
                        /\ seen' = [seen EXCEPT ![t] = {f}]
                        /\ lastExc' = IF IsException(f) THEN f.b2 ELSE lastExc
    BY DEF Receive
  <2>3. f \in Frame /\ f.b2 \in Nat /\ lastExc' \in Nat
    BY <2>2 DEF BusTypeOK, Frame
  <2>4. err' \in [Tasks -> Errors] /\ seen' \in [Tasks -> SUBSET Frame]
    BY <2>2, <2>3, VerdictType DEF BusTypeOK
  <2> QED BY <2>1, <2>3, <2>4 DEF BusTypeOK, Receive, PcStates, Held, Replied
<1>2. LockInv'
  BY TaskAssumption DEF LockInv, BusTypeOK, Receive, Held
<1>3. CallInv'
  BY DEF CallInv, BusTypeOK, Receive, Replied
<1>4. AgeInv'
  BY DEF AgeInv, BusTypeOK, Receive
<1>5. ClearInv'
  BY DEF ClearInv, LockInv, BusTypeOK, Receive, Held
<1>6. FreshReply'
  BY DEF FreshReply, AgeInv, CallInv, BusTypeOK, Receive, Replied
<1>7. ExceptionScoped'
  BY DEF ExceptionScoped, ClearInv, LockInv, CallInv, BusTypeOK, Receive, Held, Replied
<1> QED BY <1>1, <1>2, <1>3, <1>4, <1>5, <1>6, <1>7

LEMMA TimeoutStep ==
  ASSUME BusInv, NEW t \in Tasks, Timeout(t)
  PROVE  BusInv'
<1> USE DEF BusInv
<1>1. BusTypeOK'
  BY BoundAssumption DEF BusTypeOK, Timeout, CallInv, PcStates, Held, Replied, Errors
<1>2. LockInv'
  BY TaskAssumption DEF LockInv, BusTypeOK, Timeout, Held
<1>3. CallInv'
  BY DEF CallInv, BusTypeOK, Timeout, Replied
<1>4. AgeInv'
  BY DEF AgeInv, BusTypeOK, Timeout
<1>5. ClearInv'
  BY DEF ClearInv, LockInv, BusTypeOK, Timeout, Held
<1>6. FreshReply'
  BY DEF FreshReply, AgeInv, CallInv, BusTypeOK, Timeout, Replied
<1>7. ExceptionScoped'
  BY DEF ExceptionScoped, ClearInv, LockInv, CallInv, BusTypeOK, Timeout, Held, Replied
<1> QED BY <1>1, <1>2, <1>3, <1>4, <1>5, <1>6, <1>7

LEMMA GiveLockStep ==
  ASSUME BusInv, NEW t \in Tasks, GiveLock(t)
  PROVE  BusInv'
<1> USE DEF BusInv
<1>1. BusTypeOK'
  BY BoundAssumption DEF BusTypeOK, GiveLock, Release, CallInv, PcStates, Held,
                         Replied, Errors
<1>2. LockInv'
  BY TaskAssumption DEF LockInv, BusTypeOK, GiveLock, Release, Held
<1>3. CallInv'
  BY DEF CallInv, BusTypeOK, GiveLock, Release, Replied
<1>4. AgeInv'
  BY DEF AgeInv, BusTypeOK, GiveLock, Release
<1>5. ClearInv'
  BY DEF ClearInv, LockInv, BusTypeOK, GiveLock, Release, Held
<1>6. FreshReply'
  BY DEF FreshReply, AgeInv, CallInv, BusTypeOK, GiveLock, Release, Replied
<1>7. ExceptionScoped'
  BY DEF ExceptionScoped, ClearInv, LockInv, CallInv, BusTypeOK, GiveLock, Release,
         Held, Replied
<1> QED BY <1>1, <1>2, <1>3, <1>4, <1>5, <1>6, <1>7

LEMMA ReturnStep ==
  ASSUME BusInv, NEW t \in Tasks, Return(t)
  PROVE  BusInv'
<1> USE DEF BusInv
<1>1. BusTypeOK'
  BY BoundAssumption DEF BusTypeOK, Return, CallInv, PcStates, Held, Replied, Errors
<1>2. LockInv'
  BY TaskAssumption DEF LockInv, BusTypeOK, Return, Held
<1>3. CallInv'
  BY DEF CallInv, BusTypeOK, Return, Replied
<1>4. AgeInv'
  BY DEF AgeInv, BusTypeOK, Return
<1>5. ClearInv'
  BY DEF ClearInv, LockInv, BusTypeOK, Return, Held
<1>6. FreshReply'
  BY DEF FreshReply, AgeInv, CallInv, BusTypeOK, Return, Replied
<1>7. ExceptionScoped'
  BY DEF ExceptionScoped, ClearInv, LockInv, CallInv, BusTypeOK, Return, Held, Replied
<1> QED BY <1>1, <1>2, <1>3, <1>4, <1>5, <1>6, <1>7

LEMMA OutsideStep ==
  ASSUME BusInv, Outside
  PROVE  BusInv'
<1> USE DEF BusInv
<1> USE OutsideHears, OutsideFrame
<1>1. BusTypeOK'
  BY DEF BusTypeOK
<1>2. LockInv' /\ CallInv' /\ ClearInv'
  BY DEF LockInv, CallInv, ClearInv
<1>3. AgeInv'
  BY BoundAssumption DEF AgeInv, BusTypeOK
<1>4. FreshReply' /\ ExceptionScoped'
  BY DEF FreshReply, ExceptionScoped
<1> QED BY <1>1, <1>2, <1>3, <1>4
---------------------------------------------------------------------------
LEMMA BusInvInit ==
  ASSUME BusInit
  PROVE  BusInv
<1>1. BusTypeOK
  BY BoundAssumption DEF BusTypeOK, BusInit, PcStates, Held, Errors
<1>2. LockInv /\ CallInv /\ AgeInv /\ ClearInv /\ FreshReply /\ ExceptionScoped
  BY TaskAssumption
     DEF BusInit, LockInv, CallInv, AgeInv, ClearInv, FreshReply, ExceptionScoped, Held, Replied
<1> QED BY <1>1, <1>2 DEF BusInv

LEMMA BusInvNext ==
  ASSUME BusInv, [BusNext]_busVars
  PROVE  BusInv'
<1>1. CASE \E t \in Tasks : \/ \E q \in Requests : Call(t, q)
                           \/ TakeLock(t) \/ Transaction(t) \/ Return(t)
  BY <1>1, CallStep, TakeLockStep, IdleWaitStep, TransmitStep, TxFailStep, ReceiveStep, TimeoutStep,
     GiveLockStep, ReturnStep DEF Transaction
<1>2. CASE Outside
  BY <1>2, OutsideStep
<1>3. CASE UNCHANGED busVars
  BY <1>3 DEF busVars, BusInv, BusTypeOK, LockInv, CallInv, AgeInv, ClearInv, FreshReply,
              ExceptionScoped
<1> QED BY <1>1, <1>2, <1>3 DEF BusNext

(* On any bus, and for any tasks, requests and exception codes: the driver's *)
(* state is well typed.                                                       *)
THEOREM BusTypeCorrect == BusSpec => []BusTypeOK
<1>1. BusInit => BusInv
  BY BusInvInit
<1>2. BusInv /\ [BusNext]_busVars => BusInv'
  BY BusInvNext
<1>3. BusInv => BusTypeOK
  BY DEF BusInv
<1> QED BY <1>1, <1>2, <1>3, PTL DEF BusSpec

(* The frame a transaction reads was heard after the idle wait before its     *)
(* request, however late or foreign the traffic: transact()'s flush and       *)
(* wait_bus_idle()'s drain.                                                   *)
THEOREM RepliesAreFresh == BusSpec => []FreshReply
<1>1. BusInit => BusInv
  BY BusInvInit
<1>2. BusInv /\ [BusNext]_busVars => BusInv'
  BY BusInvNext
<1>3. BusInv => FreshReply
  BY DEF BusInv
<1> QED BY <1>1, <1>2, <1>3, PTL DEF BusSpec

(* Under the lock, s_last_exception is the exception of this transaction. *)
THEOREM ExceptionsAreScoped == BusSpec => []ExceptionScoped
<1>1. BusInit => BusInv
  BY BusInvInit
<1>2. BusInv /\ [BusNext]_busVars => BusInv'
  BY BusInvNext
<1>3. BusInv => ExceptionScoped
  BY DEF BusInv
<1> QED BY <1>1, <1>2, <1>3, PTL DEF BusSpec

---------------------------------------------------------------------------
(* The quiet bus. *)

(* A frame whose verdict is ESP_OK is sound and no exception. *)
LEMMA VerdictOk ==
  ASSUME NEW f, NEW q, Verdict(f, q) = "ESP_OK"
  PROVE  f.crc /\ f.fc # "exception"
BY DEF Verdict, CrcOk, IsException


LEMMA QuietCall ==
  ASSUME BusInv, QuietBus, QuietInv, NEW t \in Tasks, NEW q \in Requests, Call(t, q)
  PROVE  QuietInv'
<1> USE DEF BusInv, QuietInv
<1>1. AirInv'
  BY DEF QuietBus, AirInv, RxInv, LockInv, CallInv, BusTypeOK, Call, Held
<1>2. RxInv'
  BY DEF RxInv, Owns, LockInv, BusTypeOK, Call, Held
<1>3. OwnInv'
  BY DEF OwnInv, BusTypeOK, Call, Replied
<1> QED BY <1>1, <1>2, <1>3

LEMMA QuietTakeLock ==
  ASSUME BusInv, QuietBus, QuietInv, NEW t \in Tasks, TakeLock(t)
  PROVE  QuietInv'
<1> USE DEF BusInv, QuietInv
<1>1. AirInv'
  BY DEF QuietBus, AirInv, RxInv, LockInv, CallInv, BusTypeOK, TakeLock, LockFree,
         ClearException, Held
<1>2. RxInv'
  BY DEF RxInv, Owns, LockInv, BusTypeOK, TakeLock, LockFree, ClearException, Held
<1>3. OwnInv'
  BY DEF OwnInv, BusTypeOK, TakeLock, LockFree, ClearException, Replied
<1> QED BY <1>1, <1>2, <1>3

LEMMA QuietIdleWait ==
  ASSUME BusInv, QuietBus, QuietInv, NEW t \in Tasks, IdleWait(t)
  PROVE  QuietInv'
<1> USE DEF BusInv, QuietInv
<1>1. AirInv'
  BY DEF QuietBus, AirInv, RxInv, LockInv, CallInv, BusTypeOK, IdleWait, Drain, Held
<1>2. RxInv'
  BY DEF RxInv, Owns, LockInv, BusTypeOK, IdleWait, Drain, Held
<1>3. OwnInv'
  BY DEF OwnInv, BusTypeOK, IdleWait, Drain, Replied
<1> QED BY <1>1, <1>2, <1>3

LEMMA QuietTransmit ==
  ASSUME BusInv, QuietBus, QuietInv, NEW t \in Tasks, Transmit(t)
  PROVE  QuietInv'
<1> USE DEF BusInv, QuietInv
<1>1. AirInv'
  BY DEF QuietBus, AirInv, RxInv, LockInv, CallInv, BusTypeOK, Transmit, Held
<1>2. RxInv'
  BY DEF RxInv, Owns, LockInv, BusTypeOK, Transmit, Held
<1>3. OwnInv'
  BY DEF OwnInv, BusTypeOK, Transmit, Replied
<1> QED BY <1>1, <1>2, <1>3

LEMMA QuietTxFail ==
  ASSUME BusInv, QuietBus, QuietInv, NEW t \in Tasks, TxFail(t)
  PROVE  QuietInv'
<1> USE DEF BusInv, QuietInv
<1>1. AirInv'
  BY DEF QuietBus, AirInv, RxInv, LockInv, CallInv, BusTypeOK, TxFail, Held
<1>2. RxInv'
  BY DEF RxInv, Owns, LockInv, BusTypeOK, TxFail, Held
<1>3. OwnInv'
  BY DEF OwnInv, BusTypeOK, TxFail, Replied
<1> QED BY <1>1, <1>2, <1>3

LEMMA QuietReceive ==
  ASSUME BusInv, QuietBus, QuietInv, NEW t \in Tasks, Receive(t)
  PROVE  QuietInv'
<1> USE DEF BusInv, QuietInv
<1>1. AirInv'
  BY DEF QuietBus, AirInv, RxInv, LockInv, CallInv, BusTypeOK, Receive, Held
<1>2. RxInv'
  BY DEF RxInv, Owns, LockInv, BusTypeOK, Receive, Held
<1>3. OwnInv'
  <2>1. PICK f \in rx : err' = [err EXCEPT ![t] = Verdict(f, req[t])]
                        /\ seen' = [seen EXCEPT ![t] = {f}]
    BY DEF Receive
  <2>2. f.crc => f.fc = "exception" \/ Owns(f, t)
    BY DEF RxInv, LockInv, Receive, Held
  <2>3. Verdict(f, req[t]) = "ESP_OK" => Owns(f, t)
    BY <2>2, VerdictOk
  <2>4. UNCHANGED <<req, applied>> /\ pc' = [pc EXCEPT ![t] = "delay"]
    BY DEF Receive
  <2> QED BY <2>1, <2>3, <2>4 DEF OwnInv, Owns, BusTypeOK, Replied
<1> QED BY <1>1, <1>2, <1>3

LEMMA QuietTimeout ==
  ASSUME BusInv, QuietBus, QuietInv, NEW t \in Tasks, Timeout(t)
  PROVE  QuietInv'
<1> USE DEF BusInv, QuietInv
<1>1. AirInv'
  BY DEF QuietBus, AirInv, RxInv, LockInv, CallInv, BusTypeOK, Timeout, Held
<1>2. RxInv'
  BY DEF RxInv, Owns, LockInv, BusTypeOK, Timeout, Held
<1>3. OwnInv'
  BY DEF OwnInv, BusTypeOK, Timeout, Replied
<1> QED BY <1>1, <1>2, <1>3

LEMMA QuietGiveLock ==
  ASSUME BusInv, QuietBus, QuietInv, NEW t \in Tasks, GiveLock(t)
  PROVE  QuietInv'
<1> USE DEF BusInv, QuietInv
<1>1. AirInv'
  BY DEF QuietBus, AirInv, RxInv, LockInv, CallInv, BusTypeOK, GiveLock, Release, Held
<1>2. RxInv'
  BY DEF RxInv, Owns, LockInv, BusTypeOK, GiveLock, Release, Held
<1>3. OwnInv'
  BY DEF OwnInv, BusTypeOK, GiveLock, Release, Replied
<1> QED BY <1>1, <1>2, <1>3

LEMMA QuietReturn ==
  ASSUME BusInv, QuietBus, QuietInv, NEW t \in Tasks, Return(t)
  PROVE  QuietInv'
<1> USE DEF BusInv, QuietInv
<1>1. AirInv'
  BY DEF QuietBus, AirInv, RxInv, LockInv, CallInv, BusTypeOK, Return, Held
<1>2. RxInv'
  BY DEF RxInv, Owns, LockInv, BusTypeOK, Return, Held
<1>3. OwnInv'
  BY DEF OwnInv, BusTypeOK, Return, Replied
<1> QED BY <1>1, <1>2, <1>3

(* The one request in the air is the one being awaited. *)
LEMMA AirAwaited ==
  ASSUME BusInv, QuietInv, NEW q \in air
  PROVE  /\ air = {q} /\ rx = {} /\ q \in Requests
         /\ \E t \in Tasks : pc[t] = "await" /\ req[t] = q
BY DEF BusInv, QuietInv, AirInv, LockInv, Held, BusTypeOK

LEMMA QuietOutside ==
  ASSUME BusInv, QuietBus, QuietInv, Outside
  PROVE  QuietInv'
<1> USE OutsideFrame
<1>1. OwnInv'
  BY DEF OwnInv, QuietInv
<1>2. ASSUME NEW q \in air, AbcReply(q) \/ AbcRefuse(q)
      PROVE  AirInv' /\ RxInv'
  <2>1. air' = {} /\ rx = {}
    BY <1>2, AirAwaited DEF AbcReply, AbcRefuse
  <2>2. PICK t \in Tasks : pc[t] = "await" /\ req[t] = q
    BY AirAwaited
  <2>3. t \in Tasks /\ pc'[t] = "await" /\ req'[t] = q
    BY <2>2
  <2>4. \A f \in rx' : f.crc => f.fc = "exception" \/ Owns(f, t)'
    <3>1. CASE AbcReply(q)
      <4>1. q.fc = "write" => t \in applied'
        BY <2>2, <3>1 DEF AbcReply, Carry
      <4>2. ReplyTo(q).fc = q.fc /\ ReplyTo(q).reg = q.reg /\ ReplyTo(q).arg = q.arg
        BY DEF ReplyTo
      <4>3. CASE rx' = {ReplyTo(q)}
        BY <2>3, <4>1, <4>2, <4>3 DEF Owns
      <4>4. CASE \E a \in Addrs, c \in {q.fc, "exception"} : rx' = {Damaged(ReplyTo(q), a, c)}
        <5>1. PICK a \in Addrs, c \in {q.fc, "exception"} : rx' = {Damaged(ReplyTo(q), a, c)}
          BY <4>4
        <5>2. q \in Requests /\ c \in Functions /\ ver \in 0..MaxVer
          BY AirAwaited, RequestAssumption DEF Functions, Request, BusInv, BusTypeOK
        <5>3. Damaged(ReplyTo(q), a, c).crc = FALSE
          BY <5>2, ReplyType, DamagedType
        <5> QED BY <5>1, <5>3
      <4>5. CASE rx' = rx
        BY <2>1, <4>5
      <4> QED BY <2>1, <3>1, <4>3, <4>4, <4>5 DEF AbcReply, Hear
    <3>2. CASE AbcRefuse(q)
      <4>1. \A c \in ExcCodes : Refusal(q, c).fc = "exception"
        BY DEF Refusal, ReplyTo
      <4> QED BY <2>1, <3>2, <4>1 DEF AbcRefuse, Hear
    <3> QED BY <1>2, <3>1, <3>2
  <2> QED BY <2>1, <2>3, <2>4 DEF AirInv, RxInv
<1>3. CASE AbcChange
  <2>1. UNCHANGED <<pc, req, rx, air, applied>>
    BY <1>3 DEF AbcChange
  <2>2. AirInv' /\ RxInv'
    BY <2>1 DEF QuietInv, AirInv, RxInv, Owns
  <2> QED BY <1>1, <2>2 DEF QuietInv
<1>4. CASE Overhear
  BY <1>4 DEF Overhear, QuietBus
<1> QED BY <1>1, <1>2, <1>3, <1>4 DEF Outside, QuietInv

LEMMA QuietInvNext ==
  ASSUME BusInv, QuietBus, QuietInv, [BusNext]_busVars
  PROVE  QuietInv'
<1>1. CASE \E t \in Tasks : \/ \E q \in Requests : Call(t, q)
                           \/ TakeLock(t) \/ Transaction(t) \/ Return(t)
  BY <1>1, QuietCall, QuietTakeLock, QuietIdleWait, QuietTransmit, QuietTxFail, QuietReceive,
     QuietTimeout, QuietGiveLock, QuietReturn DEF Transaction
<1>2. CASE Outside
  BY <1>2, QuietOutside
<1>3. CASE UNCHANGED busVars
  BY <1>3 DEF busVars, QuietInv, AirInv, RxInv, OwnInv, Owns
<1> QED BY <1>1, <1>2, <1>3 DEF BusNext

LEMMA QuietInvInit ==
  ASSUME BusInit
  PROVE  QuietInv
BY DEF BusInit, QuietInv, AirInv, RxInv, OwnInv, Replied

(* A successful call got the answer to its own request and an acknowledged   *)
(* write was carried out, for any number of tasks: with no late and no       *)
(* foreign frame, mutual exclusion alone tells the answers apart.            *)
THEOREM AnswersAreOwn == BusSpec => []OwnReply
<1>1. BusInit => BusInv /\ (QuietBus => QuietInv)
  BY BusInvInit, QuietInvInit
<1>2. BusInv /\ (QuietBus => QuietInv) /\ [BusNext]_busVars
      => BusInv' /\ (QuietBus => QuietInv)'
  <2>1. QuietBus' = QuietBus
    BY DEF QuietBus
  <2> QED BY <2>1, BusInvNext, QuietInvNext
<1>3. BusInv /\ (QuietBus => QuietInv) => OwnReply
  BY DEF QuietInv, OwnInv, OwnReply
<1> QED BY <1>1, <1>2, <1>3, PTL DEF BusSpec

---------------------------------------------------------------------------
(* The driver implements the register service of its header. *)

\* What the callers see of the driver: the refinement mapping.
PhaseSeen  == [t \in Tasks |-> PhaseOf(pc[t])]
DataSeen(t) == IF err[t] = "ESP_OK" THEN {DataOf(f) : f \in seen[t]} ELSE {}
AnswerSeen == [t \in Tasks |-> DataSeen(t)]

\* No frame comes from the future.
PastInv == \A f \in rx : f.ver <= ver

LEMMA PastInvNext ==
  ASSUME BusInv, PastInv, [BusNext]_busVars
  PROVE  PastInv'
<1>0. BusTypeOK
  BY DEF BusInv
<1>1. CASE Outside
  <2>1. /\ \A f \in rx' \ rx : f \in Frame /\ f.ver = ver
        /\ ver' \in 0..MaxVer /\ ver <= ver'
    BY <1>0, <1>1, OutsideHears
  <2>2. rx \subseteq Frame /\ ver \in Int
    BY <1>0 DEF BusTypeOK
  <2>3. \A f \in Frame : f.ver \in Int
    BY DEF Frame
  <2> QED BY <2>1, <2>2, <2>3 DEF PastInv
<1>2. CASE ~Outside
  <2>1. rx' \subseteq rx /\ ver' = ver
    BY <1>2 DEF BusNext, Call, TakeLock, Transaction, IdleWait, Drain, Transmit, TxFail, Receive,
                Timeout, GiveLock, Return, busVars
  <2> QED BY <2>1 DEF PastInv
<1> QED BY <1>1, <1>2

LEMMA PhaseFacts ==
  /\ PhaseOf("idle") = "idle" /\ PhaseOf("want") = "waiting" /\ PhaseOf("quiet") = "waiting"
  /\ PhaseOf("send") = "sent" /\ PhaseOf("await") = "sent"
  /\ PhaseOf("delay") = "answered" /\ PhaseOf("done") = "answered"
  /\ \A p \in PcStates : PhaseOf(p) = "sent" => p \in {"send", "await"}
BY DEF PhaseOf, Replied, PcStates, Held

\* A task that moves is seen to move to the phase of its new place.
LEMMA PhaseMoves ==
  ASSUME BusTypeOK, NEW t \in Tasks, NEW p \in PcStates, pc' = [pc EXCEPT ![t] = p]
  PROVE  /\ PhaseSeen' = [PhaseSeen EXCEPT ![t] = PhaseOf(p)]
         /\ PhaseOf(p) = PhaseOf(pc[t]) => PhaseSeen' = PhaseSeen
BY DEF BusTypeOK, PhaseSeen

\* While there is no reply there is no answer.
LEMMA AnswerStays ==
  ASSUME BusTypeOK, NEW t \in Tasks, DataSeen(t)' = DataSeen(t),
         \A u \in Tasks \ {t} : err'[u] = err[u] /\ seen'[u] = seen[u]
  PROVE  AnswerSeen' = AnswerSeen
BY DEF AnswerSeen, DataSeen

LEMMA AnswerComes ==
  ASSUME BusTypeOK, NEW t \in Tasks,
         \A u \in Tasks \ {t} : err'[u] = err[u] /\ seen'[u] = seen[u]
  PROVE  AnswerSeen' = [AnswerSeen EXCEPT ![t] = DataSeen(t)']
BY DEF AnswerSeen, DataSeen

LEMMA ServiceAsk ==
  ASSUME BusInv, NEW t \in Tasks, NEW q \in Requests, Call(t, q)
  PROVE  Service!Ask(t, q)
<1>0. "want" \in PcStates /\ BusTypeOK /\ pc' = [pc EXCEPT ![t] = "want"]
  BY DEF Call, BusInv, PcStates, Held
<1>1. PhaseSeen' = [PhaseSeen EXCEPT ![t] = PhaseOf("want")]
  BY <1>0, PhaseMoves
<1>2. PhaseSeen[t] = PhaseOf("idle")
  BY DEF PhaseSeen, Call
<1>3. AnswerSeen' = AnswerSeen
  BY DEF Call, AnswerSeen, DataSeen
<1>4. req' = [req EXCEPT ![t] = q] /\ UNCHANGED <<ver, asked, applied>>
  BY DEF Call
<1> QED
  BY <1>1, <1>2, <1>3, <1>4, PhaseFacts DEF Service!Ask, PhaseSeen, AnswerSeen, DataSeen

\* Waiting for the lock or for a quiet bus is the same to the caller, so is the
\* request before and after it is written, and the result before and after the
\* lock is given back.
LEMMA ServiceStutters ==
  ASSUME BusInv, NEW t \in Tasks, TakeLock(t) \/ Transmit(t) \/ GiveLock(t)
  PROVE  UNCHANGED Service!vars
<1>1. PhaseSeen' = PhaseSeen
  <2>0. {"quiet", "await", "done"} \subseteq PcStates /\ BusTypeOK
    BY DEF BusInv, PcStates, Held
  <2>1. CASE TakeLock(t)
    <3>1. pc[t] = "want" /\ pc' = [pc EXCEPT ![t] = "quiet"]
      BY <2>1 DEF TakeLock
    <3> QED BY <2>0, <3>1, PhaseMoves, PhaseFacts
  <2>2. CASE GiveLock(t)
    <3>1. pc[t] = "delay" /\ pc' = [pc EXCEPT ![t] = "done"]
      BY <2>2 DEF GiveLock
    <3> QED BY <2>0, <3>1, PhaseMoves, PhaseFacts
  <2>3. CASE Transmit(t)
    <3>1. pc[t] = "send" /\ pc' = [pc EXCEPT ![t] = "await"]
      BY <2>3 DEF Transmit
    <3> QED BY <2>0, <3>1, PhaseMoves, PhaseFacts
  <2> QED BY <2>1, <2>2, <2>3
<1>2. UNCHANGED <<req, ver, asked, err, seen, applied>>
  BY DEF TakeLock, Transmit, GiveLock
<1>3. AnswerSeen' = AnswerSeen
  BY <1>2 DEF AnswerSeen, DataSeen
<1> QED BY <1>1, <1>2, <1>3 DEF Service!vars, PhaseSeen, AnswerSeen, DataSeen

\* The lock is what keeps a second request from being sent: the idle wait goes
\* on, or ends in the turn of this request.
LEMMA ServiceSend ==
  ASSUME BusInv, NEW t \in Tasks, IdleWait(t)
  PROVE  Service!Send(t) \/ UNCHANGED Service!vars
<1>0. BusTypeOK /\ pc[t] = "quiet" /\ UNCHANGED <<req, ver, err, seen>>
  BY DEF IdleWait, BusInv
<1>1. AnswerSeen' = AnswerSeen
  BY <1>0 DEF AnswerSeen, DataSeen
<1>2. CASE UNCHANGED <<pc, applied, asked>>
  BY <1>0, <1>1, <1>2 DEF Service!vars, PhaseSeen, AnswerSeen, DataSeen
<1>3. CASE /\ pc' = [pc EXCEPT ![t] = "send"]
           /\ asked' = [asked EXCEPT ![t] = ver] /\ applied' = applied \ {t}
  <2>0. "send" \in PcStates
    BY DEF PcStates, Held
  <2>1. PhaseSeen' = [PhaseSeen EXCEPT ![t] = PhaseOf("send")] /\ PhaseSeen[t] = PhaseOf("quiet")
    BY <1>0, <1>3, <2>0, PhaseMoves DEF PhaseSeen
  <2>2. \A u \in Tasks : PhaseSeen[u] # "sent"
    <3>1. \A u \in Tasks : pc[u] \notin {"send", "await"}
      BY <1>0 DEF BusInv, LockInv, Held
    <3>2. \A u \in Tasks : pc[u] \in PcStates
      BY <1>0 DEF BusTypeOK
    <3> QED BY <3>1, <3>2, PhaseFacts DEF PhaseSeen
  <2>3. Service!Send(t)
    BY <1>0, <1>1, <1>3, <2>1, <2>2, PhaseFacts DEF Service!Send, PhaseSeen, AnswerSeen, DataSeen
  <2> QED BY <2>3
<1> QED BY <1>2, <1>3 DEF IdleWait

\* A transaction that ends in an error, while its request is written or after.
LEMMA ServiceFail ==
  ASSUME BusInv, NEW t \in Tasks, pc[t] \in {"send", "await"},
         pc' = [pc EXCEPT ![t] = "delay"],
         \A u \in Tasks \ {t} : err'[u] = err[u] /\ seen'[u] = seen[u],
         err'[t] # "ESP_OK",
         UNCHANGED <<req, ver, asked, applied>>
  PROVE  Service!Fail(t)
<1>0. "delay" \in PcStates /\ BusTypeOK
  BY DEF BusInv, PcStates, Held
<1>1. PhaseSeen' = [PhaseSeen EXCEPT ![t] = PhaseOf("delay")] /\ PhaseSeen[t] = PhaseOf(pc[t])
  BY <1>0, PhaseMoves DEF PhaseSeen
<1>2. DataSeen(t) = {} /\ DataSeen(t)' = {}
  BY DEF DataSeen, BusInv, CallInv, Replied
<1>3. AnswerSeen' = AnswerSeen
  BY <1>0, <1>2, AnswerStays
<1> QED BY <1>1, <1>3, PhaseFacts DEF Service!Fail, PhaseSeen, AnswerSeen, DataSeen

\* On a quiet bus the frame a transaction accepts is the ABC's answer to it.
LEMMA ServiceReceive ==
  ASSUME BusInv, QuietInv, PastInv, NEW t \in Tasks, Receive(t)
  PROVE  Service!Succeed(t) \/ Service!Fail(t)
<1>0. "delay" \in PcStates /\ BusTypeOK /\ pc[t] = "await" /\ pc' = [pc EXCEPT ![t] = "delay"]
  BY DEF Receive, BusInv, PcStates, Held
<1>1. PICK f \in rx : /\ err' = [err EXCEPT ![t] = Verdict(f, req[t])]
                      /\ seen' = [seen EXCEPT ![t] = {f}]
  BY DEF Receive
<1>2. UNCHANGED <<req, ver, asked, applied>>
  BY DEF Receive
<1>3. /\ \A u \in Tasks \ {t} : err'[u] = err[u] /\ seen'[u] = seen[u]
      /\ err'[t] = Verdict(f, req[t]) /\ seen'[t] = {f}
  BY <1>0, <1>1 DEF BusTypeOK
<1>4. CASE Verdict(f, req[t]) # "ESP_OK"
  BY <1>0, <1>2, <1>3, <1>4, ServiceFail
<1>5. CASE Verdict(f, req[t]) = "ESP_OK"
  <2>1. Owns(f, t)
    BY <1>0, <1>5, VerdictOk DEF BusInv, QuietInv, RxInv, LockInv, Held
  <2>2. f \in Frame /\ asked[t] \in 0..MaxVer /\ ver \in 0..MaxVer
    BY <1>0 DEF BusTypeOK
  <2>3. f.ver \in asked[t]..ver
    <3>1. f.ver >= asked[t] /\ f.ver <= ver
      BY <1>0 DEF BusInv, AgeInv, PastInv
    <3>2. f.ver \in Int /\ asked[t] \in Int /\ ver \in Int
      BY <2>2 DEF Frame
    <3> QED BY <3>1, <3>2
  <2>4. DataOf(f) = Service!Answer(req[t], f.ver)
    BY <2>1 DEF Owns, DataOf, Service!Answer
  <2>5. DataSeen(t)' = {Service!Answer(req[t], f.ver)}
    BY <1>3, <1>5, <2>4 DEF DataSeen
  <2>6. AnswerSeen' = [AnswerSeen EXCEPT ![t] = {Service!Answer(req[t], f.ver)}]
    BY <1>0, <1>3, <2>5, AnswerComes
  <2>7. PhaseSeen' = [PhaseSeen EXCEPT ![t] = "answered"] /\ PhaseSeen[t] = "sent"
    <3>1. PhaseSeen' = [PhaseSeen EXCEPT ![t] = PhaseOf("delay")]
      BY <1>0, PhaseMoves
    <3>2. PhaseSeen[t] = PhaseOf("await")
      BY <1>0 DEF PhaseSeen
    <3> QED BY <3>1, <3>2, PhaseFacts
  <2>8. req[t].fc = "write" => t \in applied
    BY <2>1 DEF Owns
  <2> HIDE DEF Service!Answer
  <2> QED
    BY <1>2, <2>3, <2>6, <2>7, <2>8
       DEF Service!Succeed, PhaseSeen, AnswerSeen, DataSeen
<1> QED BY <1>4, <1>5

LEMMA ServiceTake ==
  ASSUME BusInv, NEW t \in Tasks, Return(t)
  PROVE  Service!Take(t)
<1>0. "idle" \in PcStates /\ BusTypeOK /\ pc[t] = "done" /\ pc' = [pc EXCEPT ![t] = "idle"]
  BY DEF Return, BusInv, PcStates, Held
<1>1. PhaseSeen' = [PhaseSeen EXCEPT ![t] = PhaseOf("idle")] /\ PhaseSeen[t] = PhaseOf("done")
  BY <1>0, PhaseMoves DEF PhaseSeen
<1>2. /\ \A u \in Tasks \ {t} : err'[u] = err[u] /\ seen'[u] = seen[u]
      /\ err'[t] = "none"
  BY <1>0 DEF Return, BusTypeOK
<1>3. DataSeen(t)' = {}
  BY <1>2 DEF DataSeen
<1>4. AnswerSeen' = [AnswerSeen EXCEPT ![t] = {}]
  BY <1>0, <1>2, <1>3, AnswerComes
<1>5. /\ req' = [req EXCEPT ![t] = NoReq] /\ asked' = [asked EXCEPT ![t] = 0]
      /\ applied' = applied \ {t} /\ UNCHANGED ver
  BY DEF Return
<1> QED
  BY <1>1, <1>4, <1>5, PhaseFacts DEF Service!Take, PhaseSeen, AnswerSeen, DataSeen

\* What the ABC does with the request in the air it does for the task that
\* awaits the answer: nobody else waits for the same one.
LEMMA ServiceOutside ==
  ASSUME BusInv, QuietBus, QuietInv, Outside
  PROVE  [Service!Next]_Service!vars
<1>1. PhaseSeen' = PhaseSeen /\ AnswerSeen' = AnswerSeen /\ UNCHANGED <<req, asked>>
  BY OutsideFrame DEF PhaseSeen, AnswerSeen, DataSeen
<1>2. ASSUME NEW q \in air, AbcReply(q)
      PROVE  [Service!Next]_Service!vars
  <2>1. PICK t \in Tasks : pc[t] = "await" /\ req[t] = q
    BY AirAwaited
  <2>2. {u \in Tasks : pc[u] = "await" /\ req[u] = q /\ q.fc = "write"}
          = IF q.fc = "write" THEN {t} ELSE {}
    BY <2>1 DEF BusInv, LockInv, Held
  <2>3. applied' = (IF q.fc = "write" THEN applied \cup {t} ELSE applied) /\ UNCHANGED ver
    BY <1>2, <2>2 DEF AbcReply, Carry
  <2>4. CASE q.fc = "write"
    <3>1. PhaseSeen[t] = "sent"
      BY <2>1, PhaseFacts DEF PhaseSeen
    <3>2. Service!Perform(t)
      BY <1>1, <2>1, <2>3, <2>4, <3>1 DEF Service!Perform, PhaseSeen, AnswerSeen, DataSeen
    <3> QED BY <3>2 DEF Service!Next
  <2>5. CASE q.fc # "write"
    BY <1>1, <2>3, <2>5 DEF Service!vars, PhaseSeen, AnswerSeen, DataSeen
  <2> QED BY <2>4, <2>5
<1>3. ASSUME NEW q \in air, AbcRefuse(q)
      PROVE  UNCHANGED Service!vars
  <2>1. UNCHANGED <<ver, applied>>
    BY <1>3 DEF AbcRefuse
  <2> QED BY <1>1, <2>1 DEF Service!vars, PhaseSeen, AnswerSeen, DataSeen
<1>4. CASE AbcChange
  <2>1. ver < MaxVer /\ ver' = ver + 1 /\ UNCHANGED applied
    BY <1>4 DEF AbcChange
  <2>2. Service!Change
    BY <1>1, <2>1 DEF Service!Change, PhaseSeen, AnswerSeen, DataSeen
  <2> QED BY <2>2 DEF Service!Next
<1>5. CASE Overhear
  BY <1>5 DEF Overhear, QuietBus
<1> QED BY <1>2, <1>3, <1>4, <1>5 DEF Outside

LEMMA ServiceStep ==
  ASSUME BusInv, QuietBus, QuietInv, PastInv, [BusNext]_busVars
  PROVE  [Service!Next]_Service!vars
<1>1. ASSUME NEW t \in Tasks, TxFail(t)
      PROVE  Service!Fail(t)
  <2>1. /\ pc[t] = "send" /\ pc' = [pc EXCEPT ![t] = "delay"]
        /\ \E e \in {"ESP_FAIL", "ESP_ERR_TIMEOUT"} : err' = [err EXCEPT ![t] = e]
        /\ UNCHANGED <<req, seen, ver, asked, applied>>
    BY <1>1 DEF TxFail
  <2>2. /\ \A u \in Tasks \ {t} : err'[u] = err[u] /\ seen'[u] = seen[u]
        /\ err'[t] # "ESP_OK"
    BY <2>1 DEF BusInv, BusTypeOK
  <2> QED BY <2>1, <2>2, ServiceFail
<1>2. ASSUME NEW t \in Tasks, Timeout(t)
      PROVE  Service!Fail(t)
  <2>1. /\ pc[t] = "await" /\ pc' = [pc EXCEPT ![t] = "delay"]
        /\ err' = [err EXCEPT ![t] = "ESP_ERR_TIMEOUT"]
        /\ UNCHANGED <<req, seen, ver, asked, applied>>
    BY <1>2 DEF Timeout
  <2>2. /\ \A u \in Tasks \ {t} : err'[u] = err[u] /\ seen'[u] = seen[u]
        /\ err'[t] # "ESP_OK"
    BY <2>1 DEF BusInv, BusTypeOK
  <2> QED BY <2>1, <2>2, ServiceFail
<1>3. ASSUME NEW t \in Tasks, TakeLock(t) \/ Transmit(t) \/ GiveLock(t)
      PROVE  UNCHANGED Service!vars
  BY <1>3, ServiceStutters
<1>4. ASSUME NEW t \in Tasks,
             (\E q \in Requests : Call(t, q)) \/ IdleWait(t) \/ Receive(t) \/ Return(t)
      PROVE  \/ \E q \in Requests : Service!Ask(t, q)
             \/ Service!Send(t) \/ Service!Succeed(t) \/ Service!Fail(t) \/ Service!Take(t)
             \/ UNCHANGED Service!vars
  BY <1>4, ServiceAsk, ServiceSend, ServiceReceive, ServiceTake
<1>5. CASE Outside
  BY <1>5, ServiceOutside
<1>6. CASE UNCHANGED busVars
  BY <1>6 DEF busVars, Service!vars
<1> QED
  BY <1>1, <1>2, <1>3, <1>4, <1>5, <1>6 DEF BusNext, Transaction, Service!Next

LEMMA ServiceStart ==
  ASSUME BusInit
  PROVE  Service!Init
<1>1. PhaseSeen = [t \in Tasks |-> "idle"]
  BY PhaseFacts DEF BusInit, PhaseSeen
<1>2. AnswerSeen = [t \in Tasks |-> {}]
  BY DEF BusInit, AnswerSeen, DataSeen
<1> QED BY <1>1, <1>2 DEF BusInit, Service!Init, PhaseSeen, AnswerSeen, DataSeen

(* On a bus without late and foreign frames the driver implements the register *)
(* service its header promises, for any tasks, requests and exception codes:   *)
(* one request in flight, and every call answered with an error or with its    *)
(* own data as they were after it was sent.  transact() alone does not do it:  *)
(* s_lock, the flush and the deadline do.                                      *)
THEOREM DriverImplementsService == QuietBus => (BusSpec => ImplementsService)
<1>1. QuietBus /\ BusInit => BusInv /\ QuietInv /\ PastInv /\ Service!Init
  BY BusInvInit, QuietInvInit, ServiceStart DEF BusInit, PastInv
<1>2. QuietBus /\ BusInv /\ QuietInv /\ PastInv /\ [BusNext]_busVars
      => /\ QuietBus' /\ BusInv' /\ QuietInv' /\ PastInv'
         /\ [Service!Next]_Service!vars
  <2>1. QuietBus' = QuietBus
    BY DEF QuietBus
  <2> QED BY <2>1, BusInvNext, QuietInvNext, PastInvNext, ServiceStep
<1> QED BY <1>1, <1>2, PTL DEF BusSpec, ImplementsService, Service!Spec
=============================================================================
