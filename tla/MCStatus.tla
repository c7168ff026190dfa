-------------------------------- MODULE MCStatus --------------------------------
(* The poll task with one zone and the zone configuration in its poll set, an   *)
(* ABC that has two zones, and the HTTP server rendering the status and reading *)
(* the zone's registers itself.                                                 *)
EXTENDS Status

CONSTANTS poller, httpd

MCTasks == {poller, httpd}

ReadZone == [fc |-> "read", reg |-> 31007, arg |-> 3]
ReadCfg  == [fc |-> "read", reg |-> 31101, arg |-> 1]

MCRequests == {ReadZone, ReadCfg}
MCSpans    == <<ReadZone, ReadCfg>>
\* The second register is not polled.
MCLoopRegs == <<31101, 740>>

Zone(t, h, c) == [temp |-> t, heat |-> h, cool |-> c]

\* 67 and 68 differ in every bit of the heating setpoint; the temperature
\* sensor fails.
MCZones ==
  [z \in 1..MaxZones |->
     [v \in 0..MaxVer |-> IF v = 0 THEN Zone(-15, 67, 75) ELSE Zone(-9999, 68, 76)]]
MCCfgWords == [v \in 0..MaxVer |-> 512]
=============================================================================
