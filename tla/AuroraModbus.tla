------------------------------ MODULE AuroraModbus ------------------------------
(***************************************************************************)
(* The RS-485 driver of src/main/aurora_modbus.c: FC03 reads and FC06      *)
(* writes of the Aurora control board (the ABC), issued by several         *)
(* FreeRTOS tasks and serialised by s_lock, on a bus the board shares with *)
(* the AWL.                                                                *)
(*                                                                         *)
(* A frame is a record of the few bytes transact() decides on.  Its reg,   *)
(* arg and ver say where the data came from; the driver sees reg and arg   *)
(* only in the echo of a write, and never sees ver.  crc is TRUE when the  *)
(* checksum matches.                                                       *)
(*                                                                         *)
(* rx holds the first frame received since the last flush: transact()      *)
(* reads one frame and the next transaction flushes whatever follows it.   *)
(*                                                                         *)
(* The ABC and the other master are external; Env says what they and the   *)
(* wire may do:                                                            *)
(*   "late"     the ABC may answer a request whose transaction timed out   *)
(*   "corrupt"  a reply may arrive damaged                                 *)
(*   "foreign"  frames of the AWL's conversation may arrive                *)
(*   "txfail"   the UART driver may fail to send a request; one it gives   *)
(*              up waiting for may be on the wire all the same             *)
(***************************************************************************)
EXTENDS Integers

CONSTANTS
  Tasks,          \* the FreeRTOS tasks that call the driver
  NoTask,         \* s_lock is free
  Requests,       \* the reads and writes the tasks may issue
  NoReq,          \* a task that is not inside the driver
  ExcCodes,       \* exception codes the ABC answers with
  ForeignFrames,  \* frames of the AWL's conversation that may be overheard
  Env,            \* what the environment may do, see above
  MaxVer,         \* bound: how often the ABC's registers change
  MaxDrains,      \* bound: drains that fit in BUS_IDLE_MAX_WAIT_US
  CounterMax      \* the largest value of a uint32_t counter (2^32 - 1)

Addrs     == {"self", "other"}
Functions == {"read", "write", "exception"}
Counters  == {"crc", "addr", "busy"}
Errors    == {"none", "ESP_OK", "ESP_FAIL", "ESP_ERR_TIMEOUT",
              "ESP_ERR_INVALID_SIZE", "ESP_ERR_INVALID_CRC",
              "ESP_ERR_INVALID_RESPONSE"}

Request == [fc: {"read", "write"}, reg: Nat, arg: Nat]
Frame   == [addr: Addrs, fc: Functions, b2: Nat, reg: Nat, arg: Nat,
            ver: 0..MaxVer, crc: BOOLEAN]

ASSUME TaskAssumption    == NoTask \notin Tasks
ASSUME RequestAssumption ==
  /\ Requests \subseteq Request
  /\ NoReq \notin Requests
  /\ \A q \in Requests : q.fc = "read" => q.arg > 0 /\ q.arg <= 125
ASSUME FrameAssumption   == ExcCodes \subseteq Nat \ {0} /\ ForeignFrames \subseteq Frame
ASSUME BoundAssumption   == MaxVer \in Nat /\ CounterMax \in Nat /\ MaxDrains \in Nat \ {0}
ASSUME EnvAssumption     == Env \subseteq {"late", "corrupt", "foreign", "txfail"}

VARIABLES
  lock,     \* s_lock: the task holding it
  lastExc,  \* s_last_exception
  faults,   \* s_crc_errors, s_addr_mismatch, s_bus_busy
  pc,       \* where each task is inside aurora_read_holding/aurora_write_single
  req,      \* the request each task is carrying out
  err,      \* the esp_err_t its transaction ended with
  seen,     \* the frame its transaction read, if any
  drains,   \* drains of wait_bus_idle() that found something
  rx,       \* the first frame in the UART receive buffer
  air,      \* requests the ABC has received and not answered
  ver,      \* how often the ABC's registers have changed
  applied,  \* history: the tasks whose write the ABC carried out after it was sent
  asked     \* history: ver when the line was found clear for each task's request

busVars == <<lock, lastExc, faults, pc, req, err, seen, drains, rx, air, ver, applied, asked>>

\* The states in which a task holds s_lock.
Held     == {"quiet", "send", "await", "delay"}
Replied  == {"delay", "done"}
PcStates == Held \cup {"idle", "want", "done"}

\* An unsigned counter wraps.  (Incr_Signed, like every other definition with
\* a suffix in these modules, is a faulty variant that tests the properties.)
Incr_Signed(n) == IF n = CounterMax THEN 0 - CounterMax - 1 ELSE n + 1
Incr(n) == IF n = CounterMax THEN 0 ELSE n + 1
Bump(counter) == faults' = [faults EXCEPT ![counter] = Incr(@)]

---------------------------------------------------------------------------
(* What transact() makes of the frame it reads. *)

\* Byte 2 of a reply: FC03's byte count, or the high byte of FC06's register.
ByteTwo(q) == IF q.fc = "read" THEN 2 * q.arg ELSE q.reg \div 256

ReplyTo(q) == [addr |-> "self", fc |-> q.fc, b2 |-> ByteTwo(q), reg |-> q.reg,
               arg |-> q.arg, ver |-> ver, crc |-> TRUE]

Refusal(q, code) == [ReplyTo(q) EXCEPT !.fc = "exception", !.b2 = code]

\* The length transact() expects from the header, and the caller's buffer.
FrameLen(f) == IF f.fc = "read" THEN f.b2 + 5 ELSE 8
Capacity(q) == IF q.fc = "read" THEN 255 ELSE 8

\* The caller's check after s_lock is given back: the byte count of a read,
\* the verbatim echo of a write.  It looks at the caller's own buffers only.
Matches(f, q) ==
  IF q.fc = "read" THEN f.b2 = 2 * q.arg
                   ELSE f.fc = "write" /\ f.reg = q.reg /\ f.arg = q.arg

CrcOk_Skipped(f) == TRUE
CrcOk(f) == f.crc

IsException(f) == f.fc = "exception" /\ CrcOk(f)
TooLong(f, q)  == f.fc # "exception" /\ FrameLen(f) > Capacity(q)
Stranger(f, q) == f.fc # "exception" /\ ~TooLong(f, q) /\ f.addr # "self"

\* The error code of a transaction that reads f: the exception frame is looked
\* at first and from any address, then size, address, checksum and contents.
Verdict(f, q) ==
  IF IsException(f) \/ Stranger(f, q)  THEN "ESP_ERR_INVALID_RESPONSE"
  ELSE IF TooLong(f, q)                THEN "ESP_ERR_INVALID_SIZE"
  ELSE IF ~CrcOk(f)                    THEN "ESP_ERR_INVALID_CRC"
  ELSE IF ~Matches(f, q)               THEN "ESP_ERR_INVALID_RESPONSE"
  ELSE "ESP_OK"

---------------------------------------------------------------------------
(* The tasks. *)

BusInit ==
  /\ lock = NoTask
  /\ lastExc = 0
  /\ faults = [c \in Counters |-> 0]
  /\ pc = [t \in Tasks |-> "idle"]
  /\ req = [t \in Tasks |-> NoReq]
  /\ err = [t \in Tasks |-> "none"]
  /\ seen = [t \in Tasks |-> {}]
  /\ drains = 0 /\ rx = {} /\ air = {} /\ ver = 0
  /\ applied = {}
  /\ asked = [t \in Tasks |-> 0]

\* The request is built before the lock is asked for.
Call(t, q) ==
  /\ pc[t] = "idle"
  /\ pc' = [pc EXCEPT ![t] = "want"]
  /\ req' = [req EXCEPT ![t] = q]
  /\ UNCHANGED <<lock, lastExc, faults, err, seen, drains, rx, air, ver, applied, asked>>

LockFree_Ignored == TRUE
LockFree == lock = NoTask

ClearException_Missing == UNCHANGED lastExc
ClearException == lastExc' = 0

\* xSemaphoreTake, then transact() clears the exception and flushes the UART.
TakeLock(t) ==
  /\ pc[t] = "want" /\ LockFree
  /\ lock' = t
  /\ pc' = [pc EXCEPT ![t] = "quiet"]
  /\ ClearException
  /\ rx' = {}
  /\ UNCHANGED <<faults, req, err, seen, drains, air, ver, applied, asked>>

Drain_Missing == UNCHANGED rx
Drain == rx' = {}

GivesUp_Never == FALSE
GivesUp == drains = MaxDrains

\* wait_bus_idle() drains the UART again and again, until it has heard nothing
\* for t3.5, or there is no time left: that is counted, and the request is sent
\* all the same.  What arrives from here on is not drained any more.
IdleWait(t) ==
  /\ pc[t] = "quiet"
  /\ Drain
  /\ \/ /\ rx # {} /\ ~GivesUp
        /\ drains' = IF drains < MaxDrains THEN drains + 1 ELSE drains
        /\ UNCHANGED <<pc, faults, applied, asked>>
     \/ /\ (rx = {} /\ UNCHANGED faults) \/ (GivesUp /\ Bump("busy"))
        /\ drains' = 0
        /\ pc' = [pc EXCEPT ![t] = "send"]
        /\ applied' = applied \ {t}
        /\ asked' = [asked EXCEPT ![t] = ver]
  /\ UNCHANGED <<lock, lastExc, req, err, seen, air, ver>>

\* uart_write_bytes() and uart_wait_tx_done(): the last stop bit is out.
Transmit(t) ==
  /\ pc[t] = "send"
  /\ air' = air \cup {req[t]}
  /\ pc' = [pc EXCEPT ![t] = "await"]
  /\ UNCHANGED <<lock, lastExc, faults, req, err, seen, drains, rx, ver, applied, asked>>

\* One of them fails: the write is cut short and no whole request went out, or
\* the wait for its end times out, when it may be on its way all the same.
TxFail(t) ==
  /\ "txfail" \in Env
  /\ pc[t] = "send"
  /\ pc' = [pc EXCEPT ![t] = "delay"]
  /\ \/ err' = [err EXCEPT ![t] = "ESP_FAIL"] /\ UNCHANGED air
     \/ /\ err' = [err EXCEPT ![t] = "ESP_ERR_TIMEOUT"]
        /\ UNCHANGED air \/ ("late" \in Env /\ air' = air \cup {req[t]})
  /\ UNCHANGED <<lock, lastExc, faults, req, seen, drains, rx, ver, applied, asked>>

\* A whole frame arrives before the deadline.
Receive(t) ==
  /\ pc[t] = "await"
  /\ \E f \in rx :
       /\ err' = [err EXCEPT ![t] = Verdict(f, req[t])]
       /\ seen' = [seen EXCEPT ![t] = {f}]
       /\ lastExc' = IF IsException(f) THEN f.b2 ELSE lastExc
       /\ IF Stranger(f, req[t]) THEN Bump("addr")
          ELSE IF Verdict(f, req[t]) = "ESP_ERR_INVALID_CRC" THEN Bump("crc")
          ELSE UNCHANGED faults
  /\ rx' = {}
  /\ pc' = [pc EXCEPT ![t] = "delay"]
  /\ UNCHANGED <<lock, req, drains, air, ver, applied, asked>>

\* The deadline passes; only a late ABC still answers the request.
Timeout(t) ==
  /\ pc[t] = "await" /\ rx = {}
  /\ err' = [err EXCEPT ![t] = "ESP_ERR_TIMEOUT"]
  /\ pc' = [pc EXCEPT ![t] = "delay"]
  /\ air' = IF "late" \in Env THEN air ELSE air \ {req[t]}
  /\ UNCHANGED <<lock, lastExc, faults, req, seen, drains, rx, ver, applied, asked>>

Release_OnSuccess(t) == lock' = IF err[t] = "ESP_OK" THEN NoTask ELSE lock
Release(t) == lock' = NoTask

\* The inter-frame delay is over: xSemaphoreGive, whatever the result.
GiveLock(t) ==
  /\ pc[t] = "delay"
  /\ Release(t)
  /\ pc' = [pc EXCEPT ![t] = "done"]
  /\ UNCHANGED <<lastExc, faults, req, err, seen, drains, rx, air, ver, applied, asked>>

\* The caller has used the result.
Return(t) ==
  /\ pc[t] = "done"
  /\ pc' = [pc EXCEPT ![t] = "idle"]
  /\ req' = [req EXCEPT ![t] = NoReq]
  /\ err' = [err EXCEPT ![t] = "none"]
  /\ seen' = [seen EXCEPT ![t] = {}]
  /\ asked' = [asked EXCEPT ![t] = 0]
  /\ applied' = applied \ {t}
  /\ UNCHANGED <<lock, lastExc, faults, drains, rx, air, ver>>

---------------------------------------------------------------------------
(* The bus and the ABC. *)

\* Only the first frame after a flush is ever parsed.
Hear(f) == rx' = IF rx = {} THEN {f} ELSE rx

\* What noise can make of a frame: its data is nobody's any more, and the
\* header may be hit too.
Damaged(f, a, c) == [f EXCEPT !.crc = FALSE, !.addr = a, !.fc = c, !.reg = 0]

Carry(q) ==
  applied' = applied \cup {t \in Tasks : pc[t] = "await" /\ req[t] = q /\ q.fc = "write"}

AbcReply(q) ==
  /\ air' = air \ {q}
  /\ Carry(q)
  /\ \/ Hear(ReplyTo(q))
     \/ "corrupt" \in Env /\ \E a \in Addrs, c \in {q.fc, "exception"} :
                              Hear(Damaged(ReplyTo(q), a, c))
     \/ UNCHANGED rx    \* the reply is lost
  /\ UNCHANGED <<lock, lastExc, faults, pc, req, err, seen, drains, ver, asked>>

AbcRefuse(q) ==
  /\ air' = air \ {q}
  /\ \E c \in ExcCodes : Hear(Refusal(q, c))
  /\ UNCHANGED <<lock, lastExc, faults, pc, req, err, seen, drains, ver, applied, asked>>

AbcChange ==
  /\ ver < MaxVer
  /\ ver' = ver + 1
  /\ UNCHANGED <<lock, lastExc, faults, pc, req, err, seen, drains, rx, air, applied, asked>>

Overhear ==
  /\ "foreign" \in Env
  /\ \E f \in ForeignFrames : Hear([f EXCEPT !.ver = ver])
  /\ UNCHANGED <<lock, lastExc, faults, pc, req, err, seen, drains, air, ver, applied, asked>>

---------------------------------------------------------------------------
Transaction(t) ==
  IdleWait(t) \/ Transmit(t) \/ TxFail(t) \/ Receive(t) \/ Timeout(t) \/ GiveLock(t)

Outside == (\E q \in air : AbcReply(q) \/ AbcRefuse(q)) \/ AbcChange \/ Overhear

BusNext ==
  \/ \E t \in Tasks :
       \/ \E q \in Requests : Call(t, q)
       \/ TakeLock(t) \/ Transaction(t) \/ Return(t)
  \/ Outside

(* Fairness.  A task inside a transaction is bounded by the idle wait and   *)
(* the two timeouts of transact().  A task waiting for s_lock gets it       *)
(* eventually because every other holder sleeps without it: the poller two  *)
(* seconds a loop, the HTTP server until the next request.                  *)
BusFairness == \A t \in Tasks : WF_busVars(Transaction(t)) /\ SF_busVars(TakeLock(t))

BusSpec == BusInit /\ [][BusNext]_busVars /\ BusFairness

---------------------------------------------------------------------------
BusTypeOK ==
  /\ lock \in Tasks \cup {NoTask}
  /\ lastExc \in Nat
  /\ faults \in [Counters -> Nat]
  /\ pc \in [Tasks -> PcStates]
  /\ req \in [Tasks -> Requests \cup {NoReq}]
  /\ err \in [Tasks -> Errors]
  /\ seen \in [Tasks -> SUBSET Frame]
  /\ drains \in 0..MaxDrains
  /\ rx \in SUBSET Frame
  /\ air \in SUBSET Requests
  /\ ver \in 0..MaxVer
  /\ applied \in SUBSET Tasks
  /\ asked \in [Tasks -> 0..MaxVer]

\* No reply outlives its transaction and no other master is heard.
QuietBus == Env \cap {"late", "foreign"} = {}

\* On a quiet bus a call that succeeds got the answer to its own request, and
\* a write it reports as done was carried out by the ABC: the driver checks
\* neither the function code nor the register of a read's reply, so only the
\* lock, the flush and the deadline keep the answers apart.
OwnReply ==
  QuietBus =>
    \A t \in Tasks : pc[t] \in Replied /\ err[t] = "ESP_OK" =>
      /\ \A f \in seen[t] : f.fc = req[t].fc /\ f.reg = req[t].reg /\ f.arg = req[t].arg
      /\ req[t].fc = "write" => t \in applied

\* Whatever is on the bus, nothing received before the end of the idle wait that
\* precedes a request is ever taken as its answer.  A frame that arrives between
\* that last drain and the end of the transmission may be.
FreshReply ==
  \A t \in Tasks : pc[t] \in Replied =>
    \A f \in seen[t] : f.ver >= asked[t]

\* While the lock is held, s_last_exception is the exception of this very
\* transaction or 0: a timeout never shows an earlier refusal.
ExceptionScoped ==
  \A t \in Tasks : pc[t] \in Held /\ lastExc # 0 =>
    \E f \in seen[t] : IsException(f) /\ f.b2 = lastExc

(* What the driver implements on a quiet bus. *)
PhaseOf(p) == CASE p = "idle"              -> "idle"
                [] p \in {"want", "quiet"} -> "waiting"
                [] p \in {"send", "await"} -> "sent"
                [] p \in Replied           -> "answered"

DataOf(f) == [fc |-> f.fc, reg |-> f.reg, arg |-> f.arg, ver |-> f.ver]

Service == INSTANCE RegisterService WITH
  phase  <- [t \in Tasks |-> PhaseOf(pc[t])],
  ask    <- req,
  since  <- asked,
  answer <- [t \in Tasks |-> IF err[t] = "ESP_OK" THEN {DataOf(f) : f \in seen[t]} ELSE {}]

\* On a quiet bus the driver implements the register service of its header:
\* one request in flight, and each call answered with its own data or an error.
ImplementsService == Service!Spec

\* Every call to the driver returns, even on a dead or saturated bus and with
\* every other task contending for the lock.
CallReturns == \A t \in Tasks : pc[t] = "want" ~> pc[t] = "done"
=============================================================================
