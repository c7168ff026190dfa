---------------------------------- MODULE MCApi ----------------------------------
(* The gateway with one zone, one raw register and one setpoint either side of *)
(* every check.                                                                *)
EXTENDS Api

CONSTANTS poller, httpd

MCTasks == {poller, httpd}

ReadZone == [fc |-> "read", reg |-> 31007, arg |-> 3]
ReadRaw  == [fc |-> "read", reg |-> 740,   arg |-> 1]

Setpoint(z, m, v) == [zone |-> z, mode |-> m, value |-> v]
Mode(w, p) == [f \in Flags |-> IF f = "writes" THEN w ELSE p]

MCSpans   == <<ReadZone>>
MCLoopRegs == <<>>
MCZones == [z \in 1..MaxZones |-> [v \in 0..MaxVer |-> [temp |-> 740, heat |-> 70, cool |-> 76]]]
MCCfgWords == [v \in 0..MaxVer |-> 512]

MCQueries == {ReadRaw}
\* 99.00 and 40.04 are just inside the limits of their mode, 53.99 is outside.
MCSetpoints ==
  {Setpoint(1, "cool", 9900), Setpoint(6, "heat", 4004), Setpoint(1, "cool", 5399),
   Setpoint(7, "heat", 7000), Setpoint(1, "other", 7000)}
MCModes == {Mode("on", "keep"), Mode("off", "on"), Mode("keep", "off")}

MCRequests ==
  {ReadZone, ReadRaw} \cup {SetpointWrite(s) : s \in {x \in MCSetpoints :
     x.mode # "other" /\ x.zone \in 1..MaxZones /\ x.value \in Low(x.mode)..High(x.mode)}}

NoSetpoints == {}
NoModes     == {}
=============================================================================
