----------------------------------- MODULE Auth -----------------------------------
(***************************************************************************)
(* The bearer check of src/main/auth.c and the throttle of what it logs,   *)
(* over the log ring.  The one task of the HTTP server checks a request    *)
(* before it serves it, so that it never refuses one while it is dumping   *)
(* the log for another; every other task may log between any two steps.    *)
(***************************************************************************)
EXTENDS LogRing

CONSTANTS
  Key,         \* API_KEY
  MaxHeader,   \* MAX_HEADER
  Headers,     \* Authorization headers of requests; one that is absent has length 0
  LogWindow,   \* AUTH_LOG_WINDOW_US, in ticks
  RejectMax,   \* the largest value of s_rejects (2^32 - 1)
  MaxNow       \* bound: ticks in a run

Chars == Nat

ASSUME AuthAssumption ==
  /\ Key \in Seq(Chars)
  /\ Headers \subseteq [len: Nat, scheme: {"Bearer", "other"}, token: Seq(Chars)]
  /\ LogWindow \in Nat \ {0} /\ RejectMax \in Nat \ {0}
  /\ MaxNow \in Nat /\ MaxHeader \in Nat

Never == -1

VARIABLES
  rejects,     \* s_rejects
  logged,      \* s_rejects_logged
  lastLog,     \* s_last_log_us, Never while it is 0
  now,         \* esp_timer_get_time()
  unreported,  \* history: refusals that no line of the log has counted
  mark,        \* history: where the log stood, and when, after another task's line
  probes       \* history: lines about refusals since then

authVars == <<rejects, logged, lastLog, now, unreported, mark, probes>>
allVars  == <<logVars, authVars>>

AuthInit ==
  /\ LogInit
  /\ rejects = 0 /\ logged = 0 /\ lastLog = Never /\ now = 0
  /\ unreported = 0 /\ mark = [at |-> 0, time |-> 0] /\ probes = 0

---------------------------------------------------------------------------
(* auth_ok() *)

\* constant_time_equal() of the first n characters.
SameChars(a, b, n) == \A i \in 1..n : a[i] = b[i]

TokenOk(token) == Len(token) = Len(Key) /\ SameChars(token, Key, Len(Key))

AuthOk(h) ==
  /\ h.len # 0 /\ h.len < MaxHeader
  /\ h.scheme = "Bearer"
  /\ TokenOk(h.token)

---------------------------------------------------------------------------
(* log_rejection() *)

Incr(n) == IF n = RejectMax THEN 0 ELSE n + 1

\* The difference of two uint32_t.
Minus(m, n) == IF m >= n THEN m - n ELSE m - n + RejectMax + 1

Throttled_FromRefusal == lastLog # Never /\ now - lastLog < LogWindow - 1
Throttled == lastLog # Never /\ now - lastLog < LogWindow

\* The count a line reports, and what is remembered of it.
Since_Total == Incr(rejects)
Since == Minus(Incr(rejects), logged)

\* Counted, deliberately not logged.  Nobody is refused 2^32 times in a window.
RefuseSilently ==
  /\ Throttled /\ unreported + 1 < RejectMax
  /\ rejects' = Incr(rejects)
  /\ unreported' = unreported + 1
  /\ UNCHANGED <<logVars, logged, lastLog, now, mark, probes>>

\* A line of n characters with the count of the last window.
RefuseAndLog(n) ==
  /\ ~Throttled
  /\ Log(n)
  /\ rejects' = Incr(rejects) /\ logged' = Incr(rejects) /\ lastLog' = now
  /\ unreported' = unreported + 1 - Since
  /\ probes' = probes + 1
  /\ UNCHANGED <<now, mark>>

\* A request without the key, to any endpoint that needs it.
Refuse(h) ==
  /\ ~dump /\ ~AuthOk(h)
  /\ RefuseSilently \/ \E n \in 1..MaxMessage : RefuseAndLog(n)

---------------------------------------------------------------------------
\* GET /api/logs, with the key.
LogsGet(h, cap) ==
  /\ AuthOk(h)
  /\ DumpBegin(cap)
  /\ UNCHANGED authVars

DumpStep == (DumpByte \/ DumpEnd) /\ UNCHANGED authVars

\* Any other line, from any task.
OtherLine(n) ==
  /\ Log(n)
  /\ mark' = [at |-> written', time |-> now] /\ probes' = 0
  /\ UNCHANGED <<rejects, logged, lastLog, now, unreported>>

Tick ==
  /\ now < MaxNow /\ now' = now + 1
  /\ UNCHANGED <<logVars, rejects, logged, lastLog, unreported, mark, probes>>

AuthNext ==
  \/ \E h \in Headers : Refuse(h) \/ \E cap \in Caps : LogsGet(h, cap)
  \/ DumpStep
  \/ \E n \in 1..MaxMessage : OtherLine(n)
  \/ Tick

AuthSpec == AuthInit /\ [][AuthNext]_allVars

---------------------------------------------------------------------------
AuthTypeOK ==
  /\ LogTypeOK
  /\ rejects \in 0..RejectMax /\ logged \in 0..RejectMax
  /\ lastLog \in Nat \cup {Never} /\ now \in Nat
  /\ unreported \in 0..RejectMax
  /\ mark \in [at: Nat, time: Nat] /\ probes \in Nat

\* auth.h:32-34, "every one is counted": the counts in the lines of the log add
\* up to all refusals but those since the last line, across the wrapping of the
\* counter and however the refusals fall into the windows.
RejectsAccounted == unreported = Minus(rejects, logged)

\* auth.c:38-44: whatever anybody sends, the lines of the other tasks are pushed
\* out of the ring by at most one line of refusals at once and one per window.
ProbingCannotScrub ==
  /\ probes > 0 => (probes - 1) * LogWindow <= now - mark.time
  /\ written - mark.at <= probes * (LineMax - 1)
=============================================================================
