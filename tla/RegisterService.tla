---------------------------- MODULE RegisterService ----------------------------
(***************************************************************************)
(* What src/main/aurora_modbus.h promises its callers: a call reads or     *)
(* writes registers of the ABC and returns its answer or an error, and     *)
(* "only one transaction is ever in flight".  No frames, no timeouts, no   *)
(* mutex: an answer is the data of the register asked for, as it was at    *)
(* some moment after its turn to be sent came.                             *)
(***************************************************************************)
EXTENDS Integers

CONSTANTS Tasks, Requests, NoReq, MaxVer

VARIABLES
  phase,    \* of each task's call
  ask,      \* the request of each task's call
  ver,      \* how often the ABC's registers have changed
  since,    \* ver when its turn to be sent came
  answer,   \* the data a call returns, {} for an error
  applied   \* the tasks whose write the ABC has carried out

vars == <<phase, ask, ver, since, answer, applied>>

Phases == {"idle", "waiting", "sent", "answered"}

Answer(q, v) == [fc |-> q.fc, reg |-> q.reg, arg |-> q.arg, ver |-> v]

Init ==
  /\ phase = [t \in Tasks |-> "idle"]
  /\ ask = [t \in Tasks |-> NoReq]
  /\ ver = 0
  /\ since = [t \in Tasks |-> 0]
  /\ answer = [t \in Tasks |-> {}]
  /\ applied = {}

Ask(t, q) ==
  /\ phase[t] = "idle"
  /\ phase' = [phase EXCEPT ![t] = "waiting"]
  /\ ask' = [ask EXCEPT ![t] = q]
  /\ UNCHANGED <<ver, since, answer, applied>>

\* One transaction in flight.
Send(t) ==
  /\ phase[t] = "waiting"
  /\ \A u \in Tasks : phase[u] # "sent"
  /\ phase' = [phase EXCEPT ![t] = "sent"]
  /\ since' = [since EXCEPT ![t] = ver]
  /\ applied' = applied \ {t}
  /\ UNCHANGED <<ask, ver, answer>>

\* The ABC carries out a write, whether or not its reply arrives.
Perform(t) ==
  /\ phase[t] = "sent" /\ ask[t].fc = "write"
  /\ applied' = applied \cup {t}
  /\ UNCHANGED <<phase, ask, ver, since, answer>>

Succeed(t) ==
  /\ phase[t] = "sent"
  /\ ask[t].fc = "write" => t \in applied
  /\ phase' = [phase EXCEPT ![t] = "answered"]
  /\ \E v \in since[t]..ver : answer' = [answer EXCEPT ![t] = {Answer(ask[t], v)}]
  /\ UNCHANGED <<ask, ver, since, applied>>

Fail(t) ==
  /\ phase[t] \in {"waiting", "sent"}
  /\ phase' = [phase EXCEPT ![t] = "answered"]
  /\ UNCHANGED <<ask, ver, since, answer, applied>>

Take(t) ==
  /\ phase[t] = "answered"
  /\ phase' = [phase EXCEPT ![t] = "idle"]
  /\ ask' = [ask EXCEPT ![t] = NoReq]
  /\ since' = [since EXCEPT ![t] = 0]
  /\ answer' = [answer EXCEPT ![t] = {}]
  /\ applied' = applied \ {t}
  /\ UNCHANGED ver

Change ==
  /\ ver < MaxVer
  /\ ver' = ver + 1
  /\ UNCHANGED <<phase, ask, since, answer, applied>>

Next ==
  \/ \E t \in Tasks :
       \/ \E q \in Requests : Ask(t, q)
       \/ Send(t) \/ Perform(t) \/ Succeed(t) \/ Fail(t) \/ Take(t)
  \/ Change

Spec == Init /\ [][Next]_vars
=============================================================================
