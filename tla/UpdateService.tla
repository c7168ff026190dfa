------------------------------ MODULE UpdateService ------------------------------
(***************************************************************************)
(* What src/main/ota.h promises of an update over the air, without the     *)
(* upload, the flash, the boot loader or the two tasks: the board runs one *)
(* slot and keeps a spare; an update replaces the spare, all of it, before *)
(* it is run; it is run on trial; and a trial ends by keeping the image,   *)
(* once it is demonstrably healthy, or by going back to the slot that was  *)
(* running before.                                                         *)
(***************************************************************************)
Other(s) == IF s = "ota_0" THEN "ota_1" ELSE "ota_0"

VARIABLES
  current,    \* the slot the board runs
  phase,      \* "settled", "staged" to be run next, or on "trial"
  spare,      \* the other slot: "empty", a "fresh" image, or an image "kept"
  healthy     \* WiFi and the API are actually working

updateVars == <<current, phase, spare, healthy>>

\* The board is flashed over USB once.
Init == current = "ota_0" /\ phase = "settled" /\ spare = "empty" /\ healthy = FALSE

\* Only a board that is reachable, and not on trial, lets go of its spare.
Erase ==
  /\ phase = "settled" /\ healthy
  /\ spare' = "empty"
  /\ UNCHANGED <<current, phase, healthy>>

\* A complete and valid image.
Fill ==
  /\ phase = "settled" /\ healthy /\ spare = "empty"
  /\ spare' = "fresh"
  /\ UNCHANGED <<current, phase, healthy>>

\* It is the next to run, or it is not.
Select ==
  /\ phase = "settled" /\ healthy /\ spare = "fresh"
  /\ \/ phase' = "staged" /\ UNCHANGED spare
     \/ spare' = "kept" /\ UNCHANGED phase
  /\ UNCHANGED <<current, healthy>>

\* ota_mark_valid(): call once the system is demonstrably healthy.
Confirm ==
  /\ phase = "trial" /\ healthy
  /\ phase' = "settled"
  /\ UNCHANGED <<current, spare, healthy>>

\* The image comes up.
Reach ==
  /\ ~healthy /\ healthy' = TRUE
  /\ UNCHANGED <<current, phase, spare>>

\* A reset: it starts the trial of an image that is staged, ends one that is
\* running, and otherwise changes nothing but that a fresh image is not run.
Reset ==
  /\ healthy' = FALSE
  /\ \/ /\ phase = "staged" /\ phase' = "trial"
        /\ current' = Other(current) /\ spare' = "kept"
     \/ /\ phase = "trial" /\ phase' = "settled"
        /\ current' = Other(current) /\ UNCHANGED spare
     \/ /\ phase = "settled"
        /\ spare' = IF spare = "fresh" THEN "kept" ELSE spare
        /\ UNCHANGED <<current, phase>>

Next == Erase \/ Fill \/ Select \/ Confirm \/ Reach \/ Reset

Spec == Init /\ [][Next]_updateVars
=============================================================================
