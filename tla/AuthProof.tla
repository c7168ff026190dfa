--------------------------------- MODULE AuthProof ---------------------------------
(***************************************************************************)
(* Proofs about the bearer check and the throttle of its log: only the key *)
(* gets through, every refusal is accounted for, and refusals cannot push  *)
(* the log of the other tasks out of the ring but slowly.                  *)
(***************************************************************************)
EXTENDS Auth, LogRingProof

\* The characters of the token are compared over the length of the key, after
\* the lengths: nothing but the key passes, and the key does.
THEOREM OnlyTheKey ==
  ASSUME NEW h \in Headers
  PROVE  AuthOk(h) <=> h.len # 0 /\ h.len < MaxHeader /\ h.scheme = "Bearer" /\ h.token = Key
<1>1. h.token \in Seq(Chars) /\ Key \in Seq(Chars)
  BY AuthAssumption
<1>2. TokenOk(h.token) <=> h.token = Key
  BY <1>1 DEF TokenOk, SameChars
<1> QED BY <1>2 DEF AuthOk

---------------------------------------------------------------------------
(* What happens to the ring happens in LogRing. *)

\* No step does anything to the log but append a line or dump it.
LEMMA StepsOfTheLog == [AuthNext]_allVars => [LogNext]_logVars
<1> SUFFICES ASSUME [AuthNext]_allVars PROVE [LogNext]_logVars
  OBVIOUS
<1>1. ASSUME NEW h \in Headers, Refuse(h) PROVE [LogNext]_logVars
  BY <1>1 DEF Refuse, RefuseSilently, RefuseAndLog, LogNext
<1>2. ASSUME NEW h \in Headers, NEW cap \in Caps, LogsGet(h, cap) PROVE [LogNext]_logVars
  BY <1>2 DEF LogsGet, LogNext
<1>3. CASE DumpStep
  BY <1>3 DEF DumpStep, LogNext
<1>4. ASSUME NEW n \in 1..MaxMessage, OtherLine(n) PROVE [LogNext]_logVars
  BY <1>4 DEF OtherLine, LogNext
<1>5. CASE Tick \/ UNCHANGED allVars
  BY <1>5 DEF Tick, allVars
<1> QED BY <1>1, <1>2, <1>3, <1>4, <1>5 DEF AuthNext

\* Whoever probes the API, the log is still the ring of logbuf.c: what is proved
\* of it holds here.
THEOREM AuthKeepsTheLog == AuthSpec => LogSpec
<1>1. AuthInit => LogInit
  BY DEF AuthInit
<1> QED BY <1>1, StepsOfTheLog, PTL DEF AuthSpec, LogSpec

---------------------------------------------------------------------------
(* The counters. *)

CountInv ==
  /\ rejects \in 0..RejectMax /\ logged \in 0..RejectMax
  /\ unreported \in Nat /\ unreported < RejectMax
  /\ RejectsAccounted

\* Lines about refusals come a window apart, and each has bounded length.
PaceInv ==
  /\ now \in Nat /\ lastLog \in Int /\ lastLog >= Never /\ lastLog <= now
  /\ mark \in [at: Nat, time: Nat] /\ mark.time <= now
  /\ probes \in Nat
  /\ probes > 0 => lastLog # Never /\ (probes - 1) * LogWindow <= lastLog - mark.time
  /\ written - mark.at <= probes * (LineMax - 1)

\* A counter does not differ from itself.
LEMMA NoDifference == ASSUME NEW m \in Int PROVE Minus(m, m) = 0
BY AuthAssumption DEF Minus

\* A difference of two counters does not see them wrap.
LEMMA OneMore ==
  ASSUME CountInv
  PROVE  /\ Incr(rejects) \in 0..RejectMax
         /\ Minus(Incr(rejects), logged) = unreported + 1
         /\ Minus(Incr(rejects), Incr(rejects)) = 0
BY AuthAssumption DEF CountInv, RejectsAccounted, Minus, Incr

LEMMA CountStep ==
  ASSUME CountInv, [AuthNext]_allVars
  PROVE  CountInv'
<1>1. CASE UNCHANGED <<rejects, logged, unreported>>
  BY <1>1 DEF CountInv, RejectsAccounted, Minus
<1>2. CASE RefuseSilently
  BY <1>2, OneMore DEF RefuseSilently, CountInv, RejectsAccounted, Minus
<1>3. ASSUME NEW n \in 1..MaxMessage, RefuseAndLog(n)
      PROVE  CountInv'
  <2>1. unreported' = 0 /\ rejects' \in 0..RejectMax /\ logged' = rejects'
    BY <1>3, OneMore DEF RefuseAndLog, Since, CountInv
  <2>2. rejects' \in Int /\ RejectMax \in Nat /\ 0 < RejectMax
    BY <2>1, AuthAssumption
  <2>3. \A m \in Int : Minus(m, m) = 0
    BY NoDifference
  <2>4. RejectsAccounted'
    BY <2>1, <2>2, <2>3 DEF RejectsAccounted, Minus
  <2> QED BY <2>1, <2>2, <2>4 DEF CountInv
<1> QED
  BY <1>1, <1>2, <1>3
  DEF AuthNext, Refuse, LogsGet, DumpStep, OtherLine, Tick, allVars, authVars

---------------------------------------------------------------------------
(* The pace. *)

\* A line of n characters, from wherever it comes.
LEMMA LineGrows ==
  ASSUME NEW n \in 1..MaxMessage, Log(n), written \in Nat
  PROVE  written' \in Nat /\ written' - written <= LineMax - 1
BY LogAssumption DEF Log, Store, Line

\* What two stretches of the log come to.
LEMMA TwoStretches ==
  ASSUME NEW a \in Int, NEW b \in Int, NEW c \in Int, NEW g \in Int, NEW l \in Int,
         b - a <= l, a - c <= g
  PROVE  b - c <= g + l
OBVIOUS

LEMMA PaceStep ==
  ASSUME PaceInv, written \in Nat, [AuthNext]_allVars
  PROVE  PaceInv'
<1> USE AuthAssumption, LogAssumption
<1>1. CASE UNCHANGED <<now, lastLog, mark, probes, written>>
  BY <1>1 DEF PaceInv, Never
<1>2. ASSUME NEW n \in 1..MaxMessage, RefuseAndLog(n)
      PROVE  PaceInv'
  <2> DEFINE W == LogWindow
             L == LineMax - 1
  <2>1. /\ lastLog' = now /\ probes' = probes + 1 /\ UNCHANGED <<now, mark>>
        /\ written' \in Nat /\ written' - written <= L
    BY <1>2, LineGrows DEF RefuseAndLog
  <2>2. probes > 0 => now - lastLog >= W
    BY <1>2 DEF RefuseAndLog, Throttled, PaceInv, Never
  <2>3. probes' * L = probes * L + L /\ probes * W = (probes - 1) * W + W
    BY <2>1 DEF PaceInv
  <2>4. (probes' - 1) * W <= lastLog' - mark'.time
    <3>1. CASE probes = 0
      BY <2>1, <3>1 DEF PaceInv
    <3>2. CASE probes > 0
      <4>1. probes' - 1 = probes
        BY <2>1 DEF PaceInv
      <4>2. (probes - 1) * W \in Int
        BY DEF PaceInv
      <4> QED BY <2>1, <2>2, <2>3, <3>2, <4>1, <4>2 DEF PaceInv
    <3> QED BY <3>1, <3>2 DEF PaceInv
  <2>5. written' - mark'.at <= probes' * L
    <3>1. PICK grown \in Int : grown = probes * L
      BY DEF PaceInv
    <3>2. PICK line \in Int : line = L
      OBVIOUS
    <3>3. probes' * L = grown + line
      BY <2>3, <3>1, <3>2
    <3>4. written' - written <= line /\ written - mark.at <= grown
      BY <2>1, <3>1, <3>2 DEF PaceInv
    <3>5. written' \in Int /\ written \in Int /\ mark.at \in Int /\ mark' = mark
      BY <2>1 DEF PaceInv
    <3>6. written' - mark.at <= grown + line
      BY <3>4, <3>5, TwoStretches
    <3> QED BY <3>3, <3>5, <3>6
  <2> QED BY <2>1, <2>4, <2>5 DEF PaceInv, Never
<1>3. ASSUME NEW n \in 1..MaxMessage, OtherLine(n)
      PROVE  PaceInv'
  BY <1>3, LineGrows DEF OtherLine, PaceInv, Never
<1>4. CASE Tick
  BY <1>4 DEF Tick, logVars, ring, PaceInv, Never
<1> QED
  BY <1>1, <1>2, <1>3, <1>4
  DEF AuthNext, Refuse, RefuseSilently, LogsGet, DumpBegin, DumpStep, DumpByte, DumpEnd,
      allVars, authVars, logVars, ring

---------------------------------------------------------------------------
AuthInv == LogInv /\ CountInv /\ PaceInv

LEMMA InitAuth == AuthInit => AuthInv
<1> SUFFICES ASSUME AuthInit PROVE AuthInv
  OBVIOUS
<1>1. LogInv
  BY InitLog DEF AuthInit
<1>2. CountInv
  BY AuthAssumption DEF AuthInit, CountInv, RejectsAccounted, Minus
<1>3. PaceInv
  BY LogAssumption, AuthAssumption DEF AuthInit, LogInit, PaceInv, Never
<1> QED BY <1>1, <1>2, <1>3 DEF AuthInv

LEMMA NextAuth == AuthInv /\ [AuthNext]_allVars => AuthInv'
<1> SUFFICES ASSUME AuthInv, [AuthNext]_allVars PROVE AuthInv'
  OBVIOUS
<1>1. LogInv'
  BY StepsOfTheLog, NextLog DEF AuthInv
<1>2. written \in Nat
  BY DEF AuthInv, LogInv, IndexInv, LogTypeOK
<1> QED BY <1>1, <1>2, CountStep, PaceStep DEF AuthInv

LEMMA AuthInvariant == AuthSpec => []AuthInv
<1>1. AuthInit => AuthInv
  BY InitAuth
<1>2. AuthInv /\ [AuthNext]_allVars => AuthInv'
  BY NextAuth
<1> QED BY <1>1, <1>2, PTL DEF AuthSpec

\* log_rejection(): the variables keep their types for every key, window and
\* width of the counters.
THEOREM AuthTypeCorrect == AuthSpec => []AuthTypeOK
<1>1. AuthInv => AuthTypeOK
  <2> SUFFICES ASSUME AuthInv PROVE AuthTypeOK
    OBVIOUS
  <2>1. LogTypeOK
    BY DEF AuthInv, LogInv, IndexInv
  <2>2. lastLog \in Nat \cup {Never}
    BY DEF AuthInv, PaceInv, Never
  <2>3. unreported \in 0..RejectMax
    BY AuthAssumption DEF AuthInv, CountInv
  <2> QED BY <2>1, <2>2, <2>3 DEF AuthInv, CountInv, PaceInv, AuthTypeOK
<1> QED BY <1>1, AuthInvariant, PTL

\* Every refusal is in a line of the log or still to be reported, across the
\* wrapping of s_rejects.
THEOREM EveryRefusalCounts == AuthSpec => []RejectsAccounted
<1>1. AuthInv => RejectsAccounted
  BY DEF AuthInv, CountInv
<1> QED BY <1>1, AuthInvariant, PTL

\* Refusals write one line, and then one per AUTH_LOG_WINDOW_US at most: the log
\* of the other tasks leaves the ring no faster, whoever probes and how often.
THEOREM ProbesAreThrottled == AuthSpec => []ProbingCannotScrub
<1>1. PaceInv => ProbingCannotScrub
  <2> SUFFICES ASSUME PaceInv PROVE ProbingCannotScrub
    OBVIOUS
  <2> DEFINE spent == (probes - 1) * LogWindow
  <2>1. spent \in Int
    BY AuthAssumption DEF PaceInv
  <2>2. probes > 0 => spent <= lastLog - mark.time
    BY DEF PaceInv
  <2> HIDE DEF spent
  <2>3. probes > 0 => spent <= now - mark.time
    BY <2>1, <2>2 DEF PaceInv
  <2> QED BY <2>3 DEF spent, PaceInv, ProbingCannotScrub
<1>2. AuthInv => ProbingCannotScrub
  BY <1>1 DEF AuthInv
<1> QED BY <1>2, AuthInvariant, PTL
=============================================================================
