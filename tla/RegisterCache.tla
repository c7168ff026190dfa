----------------------------- MODULE RegisterCache -----------------------------
(***************************************************************************)
(* What src/main/poller.h promises its readers: a cache of registers that  *)
(* somebody else keeps up to date, and an age.  No task, no bus, no loop:  *)
(* a slot is invalid or holds what its own register was at some moment,    *)
(* registers polled together change together, and nothing ever goes back   *)
(* in time.  The age is counted from the end of a poll of everything; no   *)
(* slot is older than the beginning of that poll, which comes after the    *)
(* moment the age was counted from before.                                 *)
(***************************************************************************)
EXTENDS Integers

CONSTANTS
  Blocks,   \* the sets of registers that are polled together
  MaxVer    \* bound: how often the registers change

VARIABLES
  known,      \* for each register when its cached value was current, {} if invalid
  ver,        \* how often the registers have changed
  date,       \* the moment the age is counted from
  since,      \* a moment that no slot is older than
  succeeded   \* there is an age

vars == <<known, ver, date, since, succeeded>>

Regs == UNION Blocks

Empty == [r \in Regs |-> {}]

Init == known = Empty /\ ver = 0 /\ date = 0 /\ since = 0 /\ succeeded = FALSE

Change ==
  /\ ver < MaxVer /\ ver' = ver + 1
  /\ UNCHANGED <<known, date, since, succeeded>>

Refresh(B) ==
  /\ \E v \in 0..ver :
       /\ \A r \in Regs : \A w \in known[r] : w <= v
       /\ known' = [r \in Regs |-> IF r \in B THEN {v} ELSE known[r]]
  /\ UNCHANGED <<ver, date, since, succeeded>>

\* A poll of everything has succeeded.
Publish ==
  /\ \E began \in date..ver :
       /\ \A r \in Regs : known[r] # {} /\ \A w \in known[r] : w >= began
       /\ since' = began
  /\ date' = ver
  /\ succeeded' = TRUE
  /\ UNCHANGED <<known, ver>>

Next == Change \/ Publish \/ \E B \in Blocks : Refresh(B)

Spec == Init /\ [][Next]_vars
=============================================================================
