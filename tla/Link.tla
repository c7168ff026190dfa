----------------------------------- MODULE Link -----------------------------------
(***************************************************************************)
(* The WiFi link of src/main/wifi.c and the supervisor of                  *)
(* src/main/supervisor.c that reboots the board when the link stays down   *)
(* or the poll task falls silent.                                          *)
(*                                                                         *)
(* Four tasks touch the link: the event loop, which reacts to the WiFi     *)
(* driver's events some time after they happened, the timer task of the    *)
(* slow retry, the HTTP server's forced disconnect, and app_main(), which  *)
(* waits for an address.  The supervisor only looks at s_connected now and *)
(* then.                                                                   *)
(*                                                                         *)
(* A tick is CHECK_INTERVAL_MS, which is SLOW_RETRY_US too: what falls due *)
(* at a tick is done before the next.  The WiFi driver and the access      *)
(* point are external.                                                     *)
(***************************************************************************)
EXTENDS Integers, Sequences

CONSTANTS
  MaxFastRetries,   \* MAX_FAST_RETRIES
  Grace,            \* ticks before the supervisor's first check
  StallLimit,       \* POLLER_STALL_S, in ticks
  DownLimit,        \* WIFI_DOWN_REBOOT_S, in ticks
  MaxGap,           \* ticks the poll task may take to come round
  QueueLen          \* bound: events waiting for the event loop

ASSUME LinkAssumption ==
  /\ MaxFastRetries \in Nat /\ Grace \in Nat \ {0}
  /\ DownLimit \in Nat /\ StallLimit \in Nat /\ QueueLen \in Nat \ {0}
  /\ MaxGap \in Nat \ {0} /\ MaxGap <= StallLimit

VARIABLES
  sta,        \* the WiFi driver: "idle", "connecting", "associated", "online"
  ap,         \* external: an access point that answers
  wedged,     \* external: the driver has stopped working
  events,     \* for on_wifi_event(), in order
  retries,    \* s_retries
  connected,  \* s_connected
  bits,       \* GOT_IP_BIT and FAILED_BIT, if set
  timer,      \* s_retry_timer is running
  drop,       \* where the API is with wifi_force_disconnect()
  main,       \* app_main: in wifi_connect(), its loop, api_start(), or past it
  stuck,      \* external: the poll task makes no progress
  beatAge,    \* age of the poll task's heartbeat, -1 if there was none
  downAge,    \* age of s_wifi_down_since_us, -1 if it is 0
  sup,        \* the supervisor: "watch", or about to reboot for "task" (for
              \* "torn", if what it read was no heartbeat), or "wifi"
  grace,      \* ticks until its first check
  due,        \* what is to be done in this tick
  offline,    \* history: the driver has reported no connection: from booting or
              \* its last report of a disconnection to its next of an address
  upFor,      \* history: ticks since its report of an address, up to 2
  downFor,    \* history: ticks for which it has been offline
  steady      \* history: ticks since it was up for a whole tick

radio   == <<sta, ap, wedged>>
wifi    == <<retries, connected, bits, timer>>
watch   == <<stuck, beatAge, downAge, sup, grace>>
history == <<offline, upFor, downFor, steady>>
linkVars == <<radio, events, wifi, drop, main, watch, due, history>>

---------------------------------------------------------------------------
(* The WiFi driver. *)

\* esp_wifi_connect(); it does nothing while there is a connection or an attempt.
Connect == sta' = IF sta = "idle" THEN "connecting" ELSE sta

\* An event for the handler, with what the driver says by it.
Post(e) ==
  /\ Len(events) < QueueLen /\ events' = Append(events, e)
  /\ offline' = (e = "disconnected")
  /\ upFor' = IF e = "disconnected" THEN 0 ELSE upFor
  /\ downFor' = IF e = "disconnected" THEN downFor ELSE 0
  /\ UNCHANGED steady

Associate ==
  /\ sta = "connecting" /\ ap /\ ~wedged
  /\ sta' = "associated"
  /\ UNCHANGED <<ap, wedged, events, wifi, drop, main, watch, due, history>>

GetAddress ==
  /\ sta = "associated" /\ ap /\ ~wedged
  /\ sta' = "online" /\ Post("got_ip")
  /\ UNCHANGED <<ap, wedged, wifi, drop, main, watch, due>>

\* An attempt fails, or the connection is lost.
Disconnect ==
  /\ sta # "idle" /\ ~wedged
  /\ sta' = "idle" /\ Post("disconnected")
  /\ UNCHANGED <<ap, wedged, wifi, drop, main, watch, due>>

\* The lease expires: IP_EVENT_STA_LOST_IP is not subscribed to.
LoseAddress ==
  /\ sta = "online" /\ ~wedged
  /\ sta' = "associated"
  /\ UNCHANGED <<ap, wedged, events, wifi, drop, main, watch, due, history>>

AccessPoint ==
  /\ ap' = ~ap
  /\ UNCHANGED <<sta, wedged, events, wifi, drop, main, watch, due, history>>

Wedge ==
  /\ ~wedged /\ wedged' = TRUE
  /\ UNCHANGED <<sta, ap, events, wifi, drop, main, watch, due, history>>

---------------------------------------------------------------------------
(* wifi.c *)

OnStart ==
  /\ events # <<>> /\ Head(events) = "start"
  /\ events' = Tail(events)
  /\ Connect
  /\ UNCHANGED <<ap, wedged, wifi, drop, main, watch, due, history>>

MayRetry_Beyond == retries <= MaxFastRetries
MayRetry == retries < MaxFastRetries

\* esp_timer_start_once(); it changes nothing if the timer is running.
StartTimer_OnFirst == timer' = (timer \/ "failed" \notin bits)
StartTimer == timer' = TRUE

\* At once while fast retries are left, then every SLOW_RETRY_US.
OnDisconnected ==
  /\ events # <<>> /\ Head(events) = "disconnected"
  /\ events' = Tail(events)
  /\ connected' = FALSE
  /\ IF MayRetry
       THEN /\ retries' = retries + 1
            /\ Connect
            /\ UNCHANGED <<bits, timer>>
       ELSE /\ bits' = bits \cup {"failed"}
            /\ StartTimer
            /\ UNCHANGED <<sta, retries>>
  /\ UNCHANGED <<ap, wedged, drop, main, watch, due, history>>

OnGotIp ==
  /\ events # <<>> /\ Head(events) = "got_ip"
  /\ events' = Tail(events)
  /\ retries' = 0 /\ connected' = TRUE
  /\ bits' = bits \cup {"got_ip"}
  /\ UNCHANGED <<radio, timer, drop, main, watch, due, history>>

\* retry_timer_cb()
RetryTimer ==
  /\ "timer" \in due
  /\ due' = due \ {"timer"}
  /\ timer' = FALSE
  /\ Connect
  /\ UNCHANGED <<ap, wedged, events, retries, connected, bits, drop, main, watch, history>>

\* POST /api/debug/wifi-drop comes in over the link, which may be lost before
\* the handler gets to wifi_force_disconnect().
AskDrop ==
  /\ main = "up" /\ sta = "online" /\ drop = "no"
  /\ drop' = "asked"
  /\ UNCHANGED <<radio, events, wifi, main, watch, due, history>>

\* The reset of s_retries is lost if the event loop is just incrementing it.
ForceDisconnect ==
  /\ drop = "asked" /\ drop' = "forced"
  /\ retries' \in {0, retries}
  /\ UNCHANGED <<radio, events, connected, bits, timer, main, watch, due, history>>

\* esp_wifi_disconnect()
Dropped ==
  /\ drop = "forced" /\ drop' = "no"
  /\ \/ sta' = "idle" /\ Post("disconnected") /\ ~wedged
     \/ (sta = "idle" \/ wedged) /\ UNCHANGED <<sta, events, history>>
  /\ UNCHANGED <<ap, wedged, wifi, main, watch, due>>

---------------------------------------------------------------------------
(* app_main() *)

\* wifi_connect() returns with an address, or without one after a failure or
\* its timeout.
ConnectReturns ==
  /\ main = "connect"
  /\ main' = IF "got_ip" \in bits THEN "start" ELSE "loop"
  /\ UNCHANGED <<radio, events, wifi, drop, watch, due, history>>

LinkUp_ByBits == bits = {"got_ip"}
LinkUp == connected

LoopEnds ==
  /\ main = "loop" /\ LinkUp
  /\ main' = "start"
  /\ UNCHANGED <<radio, events, wifi, drop, watch, due, history>>

\* api_start() succeeds; a failure is tried again 30 s later.
ApiStarts ==
  /\ main = "start"
  /\ main' = "up"
  /\ UNCHANGED <<radio, events, wifi, drop, watch, due, history>>

---------------------------------------------------------------------------
(* supervisor.c *)

Heartbeat ==
  /\ ~stuck
  /\ beatAge' = 0
  /\ UNCHANGED <<radio, events, wifi, drop, main, stuck, downAge, sup, grace, due, history>>

\* The first thing the poll task does is to report.
GetStuck ==
  /\ ~stuck /\ beatAge >= 0
  /\ stuck' = TRUE
  /\ UNCHANGED <<radio, events, wifi, drop, main, beatAge, downAge, sup, grace, due, history>>

\* supervisor_wifi_down_s() now; an outage begins with the check that sees it.
Down_Anew == 0
Down == IF downAge < 0 THEN 0 ELSE downAge

ClearDown_Missing == downAge
ClearDown == -1

Check ==
  /\ "supervisor" \in due /\ sup = "watch"
  /\ due' = due \ {"supervisor"}
  /\ IF beatAge > StallLimit THEN sup' = "task" /\ UNCHANGED downAge
     ELSE IF connected       THEN downAge' = ClearDown /\ UNCHANGED sup
     ELSE /\ downAge' = Down
          /\ sup' = IF Down > DownLimit THEN "wifi" ELSE sup
  /\ UNCHANGED <<radio, events, wifi, drop, main, stuck, beatAge, grace, history>>

\* The heartbeat is a 64-bit number on a 32-bit machine with two cores.  Read
\* while the poll task stores it, and its low half has just wrapped, it is
\* 2^32 us off: an age of 71 minutes is more than any limit.
CheckTorn ==
  /\ "supervisor" \in due /\ sup = "watch"
  /\ ~stuck /\ beatAge >= 0
  /\ due' = due \ {"supervisor"} /\ sup' = "torn"
  /\ UNCHANGED <<radio, events, wifi, drop, main, stuck, beatAge, downAge, grace, history>>

---------------------------------------------------------------------------
(* Time, and starting again. *)

Older(age) == IF age < 0 THEN age ELSE age + 1

Tick ==
  /\ due = {} /\ events = <<>> /\ sup = "watch"
  /\ stuck \/ beatAge \in 0..MaxGap - 1
  /\ beatAge' = Older(beatAge)
  /\ downAge' = Older(downAge)
  /\ grace' = IF grace > 0 THEN grace - 1 ELSE 0
  /\ due' = (IF timer THEN {"timer"} ELSE {}) \cup (IF grace' = 0 THEN {"supervisor"} ELSE {})
  /\ upFor' = IF ~offline /\ upFor < 2 THEN upFor + 1 ELSE upFor
  /\ downFor' = IF offline THEN downFor + 1 ELSE 0
  /\ steady' = IF upFor' = 2 THEN 0
               ELSE IF steady <= DownLimit THEN steady + 1 ELSE steady
  /\ UNCHANGED <<radio, events, wifi, drop, main, stuck, sup, offline>>

LinkInit ==
  /\ sta = "idle" /\ ap \in BOOLEAN /\ wedged = FALSE
  /\ events = <<"start">>
  /\ retries = 0 /\ connected = FALSE /\ bits = {} /\ timer = FALSE
  /\ drop = "no" /\ main = "connect"
  /\ stuck = FALSE /\ beatAge = -1 /\ downAge = -1 /\ sup = "watch" /\ grace = Grace
  /\ due = {}
  /\ offline = TRUE /\ upFor = 0 /\ downFor = 0 /\ steady = 0

\* esp_restart().  Nothing here outlives it, so that a power loss or a panic is
\* just another beginning.
Reboot ==
  /\ sup # "watch"
  /\ sta' = "idle" /\ wedged' = FALSE
  /\ events' = <<"start">>
  /\ retries' = 0 /\ connected' = FALSE /\ bits' = {} /\ timer' = FALSE
  /\ drop' = "no" /\ main' = "connect"
  /\ stuck' = FALSE /\ beatAge' = -1 /\ downAge' = -1 /\ sup' = "watch" /\ grace' = Grace
  /\ due' = {}
  /\ offline' = TRUE /\ upFor' = 0 /\ downFor' = 0 /\ steady' = 0
  /\ UNCHANGED ap

OnEvent == OnStart \/ OnDisconnected \/ OnGotIp

LinkNext ==
  \/ Associate \/ GetAddress \/ Disconnect \/ LoseAddress \/ AccessPoint \/ Wedge
  \/ OnEvent \/ RetryTimer \/ AskDrop \/ ForceDisconnect \/ Dropped
  \/ ConnectReturns \/ LoopEnds \/ ApiStarts
  \/ Heartbeat \/ GetStuck \/ Check \/ CheckTorn
  \/ Tick \/ Reboot

(* Fairness.  Time passes and every task runs when it has something to do.  *)
(* An attempt to connect ends; an access point that stays up lets one       *)
(* through sooner or later and gives it an address, and a reboot does not   *)
(* always come between that event and its handler.  api_start() finds the   *)
(* memory it needs sooner or later.                                         *)
LinkFairness ==
  /\ SF_linkVars(Tick) /\ WF_linkVars(OnEvent) /\ WF_linkVars(RetryTimer)
  /\ WF_linkVars(ConnectReturns) /\ WF_linkVars(LoopEnds) /\ WF_linkVars(ApiStarts)
  /\ WF_linkVars(Heartbeat) /\ WF_linkVars(Check) /\ WF_linkVars(Reboot)
  /\ WF_linkVars(Disconnect /\ sta = "connecting")
  /\ SF_linkVars(Associate) /\ SF_linkVars(GetAddress) /\ SF_linkVars(OnGotIp)

LinkSpec == LinkInit /\ [][LinkNext]_linkVars /\ LinkFairness

---------------------------------------------------------------------------
Queues == Seq({"start", "disconnected", "got_ip"})

LinkTypeOK ==
  /\ sta \in {"idle", "connecting", "associated", "online"}
  /\ ap \in BOOLEAN /\ wedged \in BOOLEAN
  /\ events \in Queues
  /\ retries \in 0..MaxFastRetries /\ connected \in BOOLEAN
  /\ bits \subseteq {"got_ip", "failed"} /\ timer \in BOOLEAN
  /\ drop \in {"no", "asked", "forced"} /\ main \in {"connect", "loop", "start", "up"}
  /\ stuck \in BOOLEAN /\ beatAge \in Nat \cup {-1} /\ downAge \in Nat \cup {-1}
  /\ sup \in {"watch", "task", "torn", "wifi"} /\ grace \in 0..Grace
  /\ due \subseteq {"timer", "supervisor"}
  /\ offline \in BOOLEAN /\ upFor \in 0..2 /\ downFor \in Nat /\ steady \in 0..DownLimit + 1

\* An idle station is never forgotten: an event is on its way to the handler
\* that tries again, or the retry timer is running.  Forced disconnects, a
\* slow event loop and a timer started twice do not break the chain.
RetryPending ==
  sta = "idle" => timer \/ \E i \in 1..Len(events) : events[i] \in {"start", "disconnected"}

\* The supervisor reboots for WiFi only if the link has not been up for a whole
\* interval between two checks in all the time an outage may last, and for a
\* heartbeat it has read whole only if the poll task is stuck.  A heartbeat
\* read torn (CheckTorn) reboots a board whose poll task is healthy.
NoHastyReboot ==
  /\ sup = "task" => stuck
  /\ sup = "wifi" => steady > DownLimit

\* An outage the WiFi driver has reported, or a stuck poll task, ends in a
\* reboot at the latest one check after its limit, the first check of a board
\* that has just booted included: no order of reports, handler and samples
\* makes the supervisor miss or restart one.  A driver that hangs while online
\* and an address that expires are reported to nobody and never end in one.
CaughtInTime ==
  /\ downFor <= DownLimit + Grace + 1
  /\ stuck => beatAge <= StallLimit + Grace

\* With an access point that stays up and a driver and a poll task that work,
\* the board comes back from any outage, and app_main() goes on to start the API.
Reachable ==
  /\ <>[](ap /\ ~wedged /\ ~stuck) => []<>connected
  /\ <>[]connected => <>[](main = "up")
=============================================================================
