--------------------------------- MODULE Poller ---------------------------------
(***************************************************************************)
(* The poll task of src/main/poller.c on top of the driver: a loop that    *)
(* reads every span, stores the words of each successful read in a cache   *)
(* with one slot per register, and publishes whether the whole loop went   *)
(* well.  Polling is switched on and off by the HTTP server while the loop *)
(* runs, and the flag is looked at only where a loop begins.               *)
(***************************************************************************)
EXTENDS AuroraModbus, Sequences

CONSTANTS
  PollTask,   \* the task running poll_task()
  Spans       \* SPANS: the reads of one loop, in order

ASSUME SpanAssumption ==
  /\ PollTask \in Tasks
  /\ Spans \in Seq({q \in Requests : q.fc = "read"})
  /\ Len(Spans) > 0

NumSpans == Len(Spans)
SpanRegs(i) == Spans[i].reg .. Spans[i].reg + Spans[i].arg - 1
PollRegs == UNION {SpanRegs(i) : i \in 1..NumSpans}

\* A cached word: what it was the answer to, which register, how old.
Word == [fc: Functions, reg: Nat, ver: 0..MaxVer]

VARIABLES
  enabled,   \* s_enabled
  span,      \* the span of the loop the task is at; 0 where the loop begins
  allOk,     \* all_ok
  cache,     \* s_cache: {} is an invalid slot
  stats,     \* s_stats
  startVer,  \* history: ver when the present loop began
  okStart,   \* history: ver when the loop that set last_success_us began
  okVer,     \* ver at last_success_us, where that loop ended
  offTx      \* history: requests the task has sent since polling was suspended

pollVars == <<enabled, span, allOk, cache, stats, startVer, okStart, okVer, offTx>>
allVars  == <<busVars, pollVars>>

\* poller_start(): the cache is emptied and the persisted flag is applied.
PollInit ==
  /\ BusInit
  /\ enabled \in BOOLEAN
  /\ span = 0
  /\ allOk = TRUE
  /\ cache = [r \in PollRegs |-> {}]
  /\ stats = [polls_ok |-> 0, polls_failed |-> 0, ever_succeeded |-> FALSE]
  /\ startVer = 0 /\ okStart = 0 /\ okVer = 0 /\ offTx = 0

MayPoll_Always == TRUE
MayPoll == enabled

\* The loop begins; while polling is off the task only sleeps here.
PollTop ==
  /\ span = 0 /\ MayPoll
  /\ span' = 1
  /\ allOk' = TRUE
  /\ startVer' = ver
  /\ UNCHANGED <<busVars, enabled, cache, stats, okStart, okVer, offTx>>

PollSpan ==
  /\ span \in 1..NumSpans
  /\ Call(PollTask, Spans[span])
  /\ UNCHANGED pollVars

WordIndex_OffByOne(r) == r - Spans[span].reg + 1
WordIndex(r) == r - Spans[span].reg

Stored_ButLast(f) ==
  [r \in PollRegs |->
     IF r \in SpanRegs(span) /\ r + 1 \in SpanRegs(span)
       THEN {[fc |-> f.fc, reg |-> f.reg + WordIndex(r), ver |-> f.ver]}
       ELSE cache[r]]

\* cache_put() of every register of the span, under s_cache_lock.
Stored(f) ==
  [r \in PollRegs |->
     IF r \in SpanRegs(span)
       THEN {[fc |-> f.fc, reg |-> f.reg + WordIndex(r), ver |-> f.ver]}
       ELSE cache[r]]

LoopFailed_Forgotten == UNCHANGED allOk
LoopFailed == allOk' = FALSE

NextSpan_Retry == IF err[PollTask] = "ESP_OK" THEN span + 1 ELSE span
NextSpan == span + 1

PollStore ==
  /\ span \in 1..NumSpans
  /\ Return(PollTask)
  /\ IF err[PollTask] = "ESP_OK"
       THEN (\E f \in seen[PollTask] : cache' = Stored(f)) /\ UNCHANGED allOk
       ELSE LoopFailed /\ UNCHANGED cache
  /\ span' = NextSpan
  /\ UNCHANGED <<enabled, stats, startVer, okStart, okVer, offTx>>

\* last_success_us is taken here, after the last word of the loop.
PollPublish ==
  /\ span = NumSpans + 1
  /\ span' = 0
  /\ IF allOk
       THEN /\ stats' = [stats EXCEPT !.polls_ok = Incr(@), !.ever_succeeded = TRUE]
            /\ okStart' = startVer /\ okVer' = ver
       ELSE /\ stats' = [stats EXCEPT !.polls_failed = Incr(@)]
            /\ UNCHANGED <<okStart, okVer>>
  /\ UNCHANGED <<busVars, enabled, allOk, cache, startVer, offTx>>

\* poller_set_enabled(), by the HTTP server at any moment.
SetEnabled(b) ==
  /\ enabled' = b
  /\ offTx' = IF enabled /\ ~b THEN 0 ELSE offTx
  /\ UNCHANGED <<busVars, span, allOk, cache, stats, startVer, okStart, okVer>>

---------------------------------------------------------------------------
(* The driver's own steps, and the calls of the other tasks. *)

\* Whatever comes of it, uart_write_bytes() has been called.
PollerSends == pc[PollTask] = "send" /\ pc'[PollTask] # "send"

CountSends ==
  /\ offTx' = IF PollerSends /\ ~enabled THEN offTx + 1 ELSE offTx
  /\ UNCHANGED <<enabled, span, allOk, cache, stats, startVer, okStart, okVer>>

Locks(t)    == TakeLock(t) /\ UNCHANGED pollVars
Transact(t) == Transaction(t) /\ CountSends

OtherCalls ==
  /\ \E t \in Tasks \ {PollTask} : Return(t) \/ \E q \in Requests : Call(t, q)
  /\ UNCHANGED pollVars

BusOutside == Outside /\ UNCHANGED pollVars

PollTaskStep == PollTop \/ PollSpan \/ PollStore \/ PollPublish

PollNext ==
  \/ PollTaskStep
  \/ \E b \in BOOLEAN : SetEnabled(b)
  \/ \E t \in Tasks : Locks(t) \/ Transact(t)
  \/ OtherCalls
  \/ BusOutside

(* Fairness: the poll task runs, and the driver's as in AuroraModbus. *)
PollFairness ==
  /\ WF_allVars(PollTaskStep)
  /\ \A t \in Tasks : WF_allVars(Transact(t)) /\ SF_allVars(Locks(t))

PollSpec == PollInit /\ [][PollNext]_allVars /\ PollFairness

---------------------------------------------------------------------------
PollTypeOK ==
  /\ BusTypeOK
  /\ enabled \in BOOLEAN
  /\ span \in 0..NumSpans + 1
  /\ allOk \in BOOLEAN
  /\ cache \in [PollRegs -> SUBSET Word]
  /\ stats \in [polls_ok: Nat, polls_failed: Nat, ever_succeeded: BOOLEAN]
  /\ startVer \in 0..MaxVer /\ okStart \in 0..MaxVer /\ okVer \in 0..MaxVer
  /\ offTx \in Nat

\* Once a poll has fully succeeded (the gate of /api/status), every slot of the
\* cache is valid, and holds data at least as recent as the BEGINNING of the
\* loop whose END age_s counts from, whatever is on the bus and however many
\* later loops fail halfway.  age_s can be less than the age of a word, but only
\* by the length of that one loop.
AgeWithinOneLoop ==
  stats.ever_succeeded =>
    \A r \in PollRegs : cache[r] # {} /\ \A w \in cache[r] : w.ver >= okStart

\* On a quiet bus a slot only ever holds a value read from its own register.
OwnRegister ==
  QuietBus => \A r \in PollRegs : \A w \in cache[r] : w.fc = "read" /\ w.reg = r

\* After polling is suspended the poll task sends at most the rest of the loop
\* it is in: one request per span, never a second loop.
SuspendDrains == ~enabled => offTx <= NumSpans

\* What a reader of poller.h makes of the cache: a slot counts only if it holds
\* what its own register was.
Known(r) == {w.ver : w \in {u \in cache[r] : u.fc = "read" /\ u.reg = r}}

Cache == INSTANCE RegisterCache WITH
  Blocks    <- {SpanRegs(i) : i \in 1..NumSpans},
  known     <- [r \in PollRegs |-> Known(r)],
  date      <- okVer,
  since     <- okStart,
  succeeded <- stats.ever_succeeded

\* On a quiet bus the poll task and the driver implement the cache of poller.h:
\* the words of a span are its own registers, all of one moment, no slot ever
\* goes back in time or becomes invalid, and when the age is dated no word is
\* older than the date before.
ImplementsCache == Cache!Spec

\* The poll task comes back to the top of its loop, where it reports that it
\* is alive, again and again: no error, no contention and no switching of the
\* flag leaves it stuck in a loop; and if polling stays on it keeps polling.
PollerCycles == []<>(span = 0) /\ (<>[]enabled => []<>(span # 0))

\* poller.h:35-36, of poller_get(): "Returns false if it isn't in the poll set
\* or hasn't been read successfully yet": a valid slot was read from the ABC as
\* the register it stands for.
ReadBeforeValid == \A r \in PollRegs : \A w \in cache[r] : w.fc = "read" /\ w.reg = r

\* FIRMWARE.md:175-176, of polling_enabled: "set to false and the board is
\* electrically silent: it never asserts DE and never transmits".
SilentWhenSuspended ==
  [][\A t \in Tasks : pc[t] = "send" /\ pc'[t] # "send" => enabled]_allVars
=============================================================================
