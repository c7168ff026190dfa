-------------------------------- MODULE LinkProof --------------------------------
(***************************************************************************)
(* Proofs about the link and its supervisor: a retry is always under way,  *)
(* and the supervisor is neither hasty nor late, whatever the limits.      *)
(***************************************************************************)
EXTENDS Link, TLAPS

\* The limits are counted from the first check.
GraceInv ==
  grace > 0 => /\ downAge = -1 /\ "supervisor" \notin due
               /\ downFor <= Grace - grace /\ beatAge <= Grace - grace

\* s_connected is what the driver said last, when the handler has caught up.
SaidInv ==
  /\ events = <<>> => (connected <=> ~offline)
  /\ events # <<>> => (offline <=> events[Len(events)] # "got_ip")
  /\ \A i \in 1..Len(events) : events[i] = "start" => i = 1 /\ ~connected

Queued(e) == \E i \in 1..Len(events) : events[i] = e

\* A link that was up when the tick began is up when it is checked.
UpInv ==
  /\ connected \/ Queued("got_ip") => downFor = 0
  /\ upFor > 0 => connected /\ ~offline /\ ~Queued("disconnected")
  /\ upFor > 0 /\ sup = "watch" /\ "supervisor" \notin due => downAge = -1

\* The outage the supervisor counts has no whole tick of connection in it.
SteadyInv == downAge >= 0 => steady >= downAge \/ steady > DownLimit

\* The real outage is longer than the one counted by the first check at most.
DownInv ==
  /\ downAge <= DownLimit + 1
  /\ downAge >= 0 => downFor <= downAge + Grace
  /\ downAge < 0 => downFor <= Grace
  /\ sup = "watch" /\ "supervisor" \notin due =>
       downAge <= DownLimit /\ (grace = 0 /\ downAge < 0 => downFor = 0)

BeatInv ==
  /\ ~stuck => beatAge <= MaxGap
  /\ beatAge <= StallLimit + Grace
  /\ grace = 0 /\ sup = "watch" /\ "supervisor" \notin due => beatAge <= StallLimit

SupInv == GraceInv /\ SaidInv /\ UpInv /\ SteadyInv /\ DownInv /\ BeatInv /\ NoHastyReboot

---------------------------------------------------------------------------
(* The types, in two parts: the prover takes names and numbers apart. *)

NamesOK ==
  /\ sta \in {"idle", "connecting", "associated", "online"}
  /\ ap \in BOOLEAN /\ wedged \in BOOLEAN /\ offline \in BOOLEAN
  /\ connected \in BOOLEAN /\ timer \in BOOLEAN /\ stuck \in BOOLEAN
  /\ bits \subseteq {"got_ip", "failed"}
  /\ drop \in {"no", "asked", "forced"} /\ main \in {"connect", "loop", "start", "up"}
  /\ sup \in {"watch", "task", "torn", "wifi"}
  /\ due \subseteq {"timer", "supervisor"}

NumbersOK ==
  /\ retries \in Nat /\ retries <= MaxFastRetries
  /\ beatAge \in Int /\ beatAge >= -1 /\ downAge \in Int /\ downAge >= -1
  /\ grace \in Nat /\ grace <= Grace
  /\ upFor \in Nat /\ upFor <= 2 /\ downFor \in Nat
  /\ steady \in Nat /\ steady <= DownLimit + 1

LEMMA TypeParts == LinkTypeOK <=> NamesOK /\ NumbersOK /\ events \in Queues
<1>1. LinkTypeOK => NamesOK
  BY DEF LinkTypeOK, NamesOK
<1>2. LinkTypeOK => NumbersOK
  BY LinkAssumption DEF LinkTypeOK, NumbersOK
<1>3. NumbersOK => /\ retries \in 0..MaxFastRetries /\ grace \in 0..Grace /\ upFor \in 0..2
                   /\ downFor \in Nat /\ steady \in 0..DownLimit + 1
                   /\ beatAge \in Nat \cup {-1} /\ downAge \in Nat \cup {-1}
  BY LinkAssumption DEF NumbersOK
<1> QED BY <1>1, <1>2, <1>3 DEF LinkTypeOK, NamesOK

---------------------------------------------------------------------------
\* What the actions of the radio, of app_main() and of the API have in common.
Quiet == UNCHANGED <<watch, due, history, connected, events>>

LEMMA QuietSteps ==
  ASSUME Associate \/ LoseAddress \/ AccessPoint \/ Wedge \/ AskDrop \/ ForceDisconnect
         \/ ConnectReturns \/ LoopEnds \/ ApiStarts
  PROVE  Quiet
BY DEF Quiet, Associate, LoseAddress, AccessPoint, Wedge, AskDrop, ForceDisconnect,
       ConnectReturns, LoopEnds, ApiStarts, wifi

\* What the driver's reports have in common, and what takes them off the queue.
Report(e) == Post(e) /\ UNCHANGED <<watch, due, connected>>

LEMMA ReportSteps ==
  ASSUME GetAddress \/ Disconnect \/ Dropped
  PROVE  Quiet \/ \E e \in {"disconnected", "got_ip"} : Report(e)
BY DEF Quiet, Report, GetAddress, Disconnect, Dropped, wifi

LEMMA InitLink == LinkInit => LinkTypeOK /\ RetryPending /\ SupInv
<1> SUFFICES ASSUME LinkInit PROVE LinkTypeOK /\ RetryPending /\ SupInv
  OBVIOUS
<1> USE LinkAssumption DEF LinkInit
<1>1. LinkTypeOK
  <2>1. events \in Queues
    BY DEF Queues
  <2>2. NamesOK
    BY DEF NamesOK
  <2>3. NumbersOK
    BY DEF NumbersOK
  <2> QED BY <2>1, <2>2, <2>3, TypeParts
<1>2. RetryPending
  <2>1. Len(events) = 1 /\ events[1] = "start"
    OBVIOUS
  <2> QED BY <2>1 DEF RetryPending
<1>3. SupInv
  BY DEF SupInv, GraceInv, SaidInv, UpInv, Queued, SteadyInv, DownInv, BeatInv, NoHastyReboot
<1> QED BY <1>1, <1>2, <1>3

---------------------------------------------------------------------------
(* Types. *)

LEMMA QueueStep ==
  ASSUME LinkTypeOK, [LinkNext]_linkVars
  PROVE  events' \in Queues
<1>1. CASE UNCHANGED events
  BY <1>1 DEF LinkTypeOK
<1>2. CASE \E e \in {"disconnected", "got_ip"} : Post(e)
  BY <1>2 DEF Post, Queues, LinkTypeOK
<1>3. CASE events # <<>> /\ events' = Tail(events)
  BY <1>3 DEF Queues, LinkTypeOK
<1>4. CASE events' = <<"start">>
  BY <1>4 DEF Queues
<1>5. CASE GetAddress \/ Disconnect \/ Dropped
  BY <1>1, <1>2, <1>5 DEF GetAddress, Disconnect, Dropped
<1>6. CASE OnEvent
  BY <1>3, <1>6 DEF OnEvent, OnStart, OnDisconnected, OnGotIp
<1>7. CASE Reboot
  BY <1>4, <1>7 DEF Reboot
<1>8. CASE Associate \/ LoseAddress \/ AccessPoint \/ Wedge \/ RetryTimer \/ AskDrop
           \/ ForceDisconnect \/ ConnectReturns \/ LoopEnds \/ ApiStarts \/ Heartbeat \/ GetStuck
           \/ Check \/ CheckTorn \/ Tick \/ UNCHANGED linkVars
  BY <1>1, <1>8 DEF Associate, LoseAddress, AccessPoint, Wedge, RetryTimer, AskDrop,
       ForceDisconnect, ConnectReturns, LoopEnds, ApiStarts, Heartbeat, GetStuck, Check, CheckTorn, Tick, linkVars
<1> QED BY <1>5, <1>6, <1>7, <1>8 DEF LinkNext

LEMMA NamesStep ==
  ASSUME NamesOK, NumbersOK, [LinkNext]_linkVars
  PROVE  NamesOK'
<1> USE DEF NamesOK
<1>1. CASE Associate \/ LoseAddress
  <2>1. sta' \in {"idle", "connecting", "associated", "online"}
    BY <1>1 DEF Associate, LoseAddress
  <2>2. UNCHANGED <<ap, wedged, offline, wifi, drop, main, watch, due>>
    BY <1>1 DEF Associate, LoseAddress, history
  <2> QED BY <2>1, <2>2 DEF wifi, watch
<1>2. CASE GetAddress \/ Disconnect
  <2>1. sta' \in {"idle", "connecting", "associated", "online"} /\ offline' \in BOOLEAN
    BY <1>2 DEF GetAddress, Disconnect, Post
  <2>2. UNCHANGED <<ap, wedged, wifi, drop, main, watch, due>>
    BY <1>2 DEF GetAddress, Disconnect
  <2> QED BY <2>1, <2>2 DEF wifi, watch
<1>3. CASE AccessPoint \/ Wedge
  <2>1. ap' \in BOOLEAN /\ wedged' \in BOOLEAN
    BY <1>3 DEF AccessPoint, Wedge
  <2>2. UNCHANGED <<sta, wifi, drop, main, watch, due, offline>>
    BY <1>3 DEF AccessPoint, Wedge, history
  <2> QED BY <2>1, <2>2 DEF wifi, watch
<1>4. CASE OnStart
  BY <1>4 DEF OnStart, Connect, wifi, watch, history
<1>5. CASE OnDisconnected
  <2>1. sta' \in {"idle", "connecting", "associated", "online"} /\ connected' = FALSE
    BY <1>5 DEF OnDisconnected, Connect
  <2>2. timer' \in BOOLEAN /\ bits' \subseteq {"got_ip", "failed"}
    BY <1>5 DEF OnDisconnected, StartTimer
  <2>3. UNCHANGED <<ap, wedged, offline, drop, main, watch, due>>
    BY <1>5 DEF OnDisconnected, history
  <2> QED BY <2>1, <2>2, <2>3 DEF watch
<1>6. CASE OnGotIp
  BY <1>6 DEF OnGotIp, radio, watch, history
<1>7. CASE RetryTimer
  <2>1. sta' \in {"idle", "connecting", "associated", "online"} /\ timer' = FALSE
    BY <1>7 DEF RetryTimer, Connect
  <2>2. UNCHANGED <<ap, wedged, offline, connected, bits, drop, main, watch>> /\ due' \subseteq due
    BY <1>7 DEF RetryTimer, history
  <2> QED BY <2>1, <2>2 DEF watch
<1>8. CASE AskDrop
  BY <1>8 DEF AskDrop, radio, wifi, watch, history
<1>17. CASE ForceDisconnect
  BY <1>17 DEF ForceDisconnect, radio, wifi, watch, history
<1>9. CASE Dropped
  <2>1. sta' \in {"idle", "connecting", "associated", "online"} /\ offline' \in BOOLEAN
    BY <1>9 DEF Dropped, Post, history
  <2>2. UNCHANGED <<ap, wedged, wifi, main, watch, due>> /\ drop' = "no"
    BY <1>9 DEF Dropped
  <2> QED BY <2>1, <2>2 DEF wifi, watch
<1>10. CASE ConnectReturns
  BY <1>10 DEF ConnectReturns, radio, wifi, watch, history
<1>18. CASE LoopEnds
  BY <1>18 DEF LoopEnds, radio, wifi, watch, history
<1>20. CASE ApiStarts
  BY <1>20 DEF ApiStarts, radio, wifi, watch, history
<1>11. CASE Heartbeat
  BY <1>11 DEF Heartbeat, radio, wifi, history
<1>12. CASE GetStuck
  BY <1>12 DEF GetStuck, radio, wifi, history
<1>13. CASE Check
  BY <1>13 DEF Check, Down, ClearDown, radio, wifi, history
<1>19. CASE CheckTorn
  BY <1>19 DEF CheckTorn, radio, wifi, history
<1>14. CASE Tick
  BY <1>14 DEF Tick, Older, radio, wifi
<1>15. CASE Reboot
  BY <1>15 DEF Reboot
<1>16. CASE UNCHANGED linkVars
  BY <1>16 DEF linkVars, radio, wifi, watch, history
<1> QED
  BY <1>1, <1>2, <1>3, <1>4, <1>5, <1>6, <1>7, <1>8, <1>9, <1>10, <1>11, <1>12, <1>13, <1>14, <1>15, <1>16, <1>17, <1>18, <1>19, <1>20
     DEF LinkNext, OnEvent

LEMMA NumbersStep ==
  ASSUME NamesOK, NumbersOK, [LinkNext]_linkVars
  PROVE  NumbersOK'
<1> USE LinkAssumption DEF NumbersOK
<1>1. CASE Associate \/ LoseAddress
  BY <1>1 DEF Associate, LoseAddress, wifi, watch, history
<1>2. CASE GetAddress \/ Disconnect
  <2>1. UNCHANGED <<wifi, watch, steady>> /\ upFor' \in {0, upFor} /\ downFor' \in {0, downFor}
    BY <1>2 DEF GetAddress, Disconnect, Post
  <2> QED BY <2>1 DEF wifi, watch
<1>3. CASE AccessPoint \/ Wedge
  BY <1>3 DEF AccessPoint, Wedge, wifi, watch, history
<1>4. CASE OnStart
  BY <1>4 DEF OnStart, Connect, wifi, watch, history
<1>5. CASE OnDisconnected
  BY <1>5 DEF OnDisconnected, Connect, MayRetry, StartTimer, watch, history
<1>6. CASE OnGotIp
  BY <1>6 DEF OnGotIp, radio, watch, history
<1>7. CASE RetryTimer
  BY <1>7 DEF RetryTimer, Connect, watch, history
<1>8. CASE AskDrop \/ ForceDisconnect
  BY <1>8 DEF AskDrop, ForceDisconnect, radio, wifi, watch, history
<1>9. CASE Dropped
  BY <1>9 DEF Dropped, Post, radio, wifi, watch, history
<1>10. CASE ConnectReturns \/ LoopEnds \/ ApiStarts
  BY <1>10 DEF ConnectReturns, LoopEnds, ApiStarts, radio, wifi, watch, history
<1>11. CASE Heartbeat
  BY <1>11 DEF Heartbeat, radio, wifi, history
<1>12. CASE GetStuck
  BY <1>12 DEF GetStuck, radio, wifi, history
<1>13. CASE Check \/ CheckTorn
  BY <1>13 DEF Check, CheckTorn, Down, ClearDown, radio, wifi, history
<1>14. CASE Tick
  BY <1>14 DEF Tick, Older, radio, wifi
<1>15. CASE Reboot
  BY <1>15 DEF Reboot
<1>16. CASE UNCHANGED linkVars
  BY <1>16 DEF linkVars, radio, wifi, watch, history
<1> QED
  BY <1>1, <1>2, <1>3, <1>4, <1>5, <1>6, <1>7, <1>8, <1>9, <1>10, <1>11, <1>12, <1>13, <1>14, <1>15, <1>16
     DEF LinkNext, OnEvent

LEMMA TypeStep ==
  ASSUME LinkTypeOK, [LinkNext]_linkVars
  PROVE  LinkTypeOK'
<1>1. NamesOK' /\ NumbersOK' /\ events' \in Queues
  BY QueueStep, NamesStep, NumbersStep, TypeParts
<1>2. (NamesOK /\ NumbersOK /\ events \in Queues)' <=> LinkTypeOK'
  BY TypeParts, PTL
<1> QED BY <1>1, <1>2

---------------------------------------------------------------------------
(* The retries. *)

Waiting(q) == \E i \in 1..Len(q) : q[i] \in {"start", "disconnected"}

LEMMA WaitingAppend ==
  ASSUME LinkTypeOK, NEW e \in {"disconnected", "got_ip"},
         Waiting(events) \/ e = "disconnected"
  PROVE  Waiting(Append(events, e))
BY DEF Waiting, LinkTypeOK, Queues

LEMMA WaitingTail ==
  ASSUME LinkTypeOK, Waiting(events), Head(events) = "got_ip"
  PROVE  Waiting(Tail(events))
<1>1. PICK i \in 1..Len(events) : events[i] \in {"start", "disconnected"}
  BY DEF Waiting
<1>2. i # 1
  BY <1>1 DEF LinkTypeOK, Queues
<1>3. i - 1 \in 1..Len(Tail(events)) /\ Tail(events)[i - 1] = events[i]
  BY <1>2 DEF LinkTypeOK, Queues
<1> QED BY <1>1, <1>3 DEF Waiting

LEMMA RetryStep ==
  ASSUME LinkTypeOK, RetryPending, [LinkNext]_linkVars
  PROVE  RetryPending'
<1>0. RetryPending = (sta = "idle" => timer \/ Waiting(events))
  BY DEF RetryPending, Waiting
<1>1. CASE UNCHANGED <<sta, timer, events>>
  BY <1>1 DEF RetryPending
<1>2. CASE Associate \/ GetAddress \/ LoseAddress
  BY <1>2 DEF Associate, GetAddress, LoseAddress, RetryPending
<1>3. CASE Disconnect \/ (Dropped /\ sta' = "idle" /\ Post("disconnected"))
  BY <1>3, WaitingAppend DEF Disconnect, Post, RetryPending, Waiting
<1>4. CASE OnStart \/ RetryTimer
  BY <1>4 DEF OnStart, RetryTimer, Connect, RetryPending
<1>5. CASE OnDisconnected
  BY <1>5 DEF OnDisconnected, Connect, StartTimer, RetryPending
<1>6. CASE OnGotIp
  BY <1>0, <1>6, WaitingTail DEF OnGotIp, radio, RetryPending, Waiting
<1>7. CASE Reboot
  <2>1. events' = <<"start">>
    BY <1>7 DEF Reboot
  <2>2. Len(events') = 1 /\ events'[1] = "start"
    BY <2>1
  <2> QED BY <2>2 DEF RetryPending
<1>8. CASE Dropped /\ UNCHANGED <<sta, events>>
  BY <1>1, <1>8 DEF Dropped, wifi
<1>9. CASE AccessPoint \/ Wedge \/ AskDrop \/ ForceDisconnect \/ ConnectReturns \/ LoopEnds \/ ApiStarts
           \/ Heartbeat \/ GetStuck \/ Check \/ CheckTorn \/ Tick \/ UNCHANGED linkVars
  BY <1>1, <1>9 DEF AccessPoint, Wedge, AskDrop, ForceDisconnect, ConnectReturns, LoopEnds, ApiStarts,
                    Heartbeat, GetStuck, Check, CheckTorn, Tick, radio, wifi, linkVars
<1> QED
  BY <1>2, <1>3, <1>4, <1>5, <1>6, <1>7, <1>8, <1>9 DEF LinkNext, OnEvent, Dropped

---------------------------------------------------------------------------
(* The supervisor. *)

LEMMA CheckStep ==
  ASSUME NamesOK, NumbersOK, SupInv, Check
  PROVE  SupInv'
<1> USE LinkAssumption DEF NamesOK, NumbersOK, Check, Down, ClearDown, wifi, history
<1>0. grace = 0
  BY DEF SupInv, GraceInv
<1>1. GraceInv'
  BY <1>0 DEF GraceInv
<1>2. UpInv'
  BY DEF SupInv, UpInv, Queued
<1>7. SaidInv'
  BY DEF SupInv, SaidInv
<1>3. SteadyInv'
  BY DEF SupInv, SteadyInv
<1>4. DownInv'
  BY DEF SupInv, DownInv, UpInv
<1>5. BeatInv'
  BY DEF SupInv, BeatInv
<1>6. NoHastyReboot'
  BY DEF SupInv, NoHastyReboot, BeatInv, SteadyInv
<1> QED BY <1>1, <1>2, <1>3, <1>4, <1>5, <1>6, <1>7 DEF SupInv

LEMMA TickStep ==
  ASSUME NamesOK, NumbersOK, SupInv, Tick
  PROVE  SupInv'
<1> USE LinkAssumption DEF NamesOK, NumbersOK, Tick, Older, wifi
<1>1. GraceInv'
  BY DEF SupInv, GraceInv, UpInv
<1>2. UpInv'
  <2>0. (connected <=> ~offline) /\ events = <<>> /\ \A e : ~Queued(e) /\ ~Queued(e)'
    BY DEF SupInv, SaidInv, Queued
  <2>1. connected' \/ Queued("got_ip")' => downFor' = 0
    BY <2>0
  <2>2. upFor' > 0 => connected' /\ ~offline' /\ ~Queued("disconnected")'
    BY <2>0 DEF SupInv, UpInv
  <2>3. "supervisor" \notin due' => grace' > 0
    OBVIOUS
  <2>4. grace' > 0 => downAge' = -1
    BY DEF SupInv, GraceInv
  <2> QED BY <2>1, <2>2, <2>3, <2>4 DEF UpInv
<1>7. SaidInv'
  BY DEF SupInv, SaidInv
<1>3. SteadyInv'
  BY DEF SupInv, SteadyInv, UpInv
<1>4. DownInv'
  BY DEF SupInv, DownInv, GraceInv, UpInv
<1>5. BeatInv'
  BY DEF SupInv, BeatInv, GraceInv
<1>6. NoHastyReboot'
  BY DEF SupInv, NoHastyReboot
<1> QED BY <1>1, <1>2, <1>3, <1>4, <1>5, <1>6, <1>7 DEF SupInv

\* The driver reports: the counts begin or end with the report.
LEMMA ReportStep ==
  ASSUME LinkTypeOK, SupInv, NEW e \in {"disconnected", "got_ip"}, Report(e)
  PROVE  SupInv'
<1> USE DEF Report, Post, watch
<1>1. events' # <<>> /\ Len(events') = Len(events) + 1 /\ events'[Len(events')] = e
  BY DEF LinkTypeOK, Queues
<1>2. \A i \in 1..Len(events) : events'[i] = events[i]
  BY DEF LinkTypeOK, Queues
<1>3. Len(events) \in Nat /\ 1..Len(events') = 1..Len(events) \cup {Len(events')}
  BY <1>1 DEF LinkTypeOK, Queues
<1>4. \A x : Queued(x)' <=> Queued(x) \/ x = e
  BY <1>1, <1>2, <1>3 DEF Queued
<1>5. SaidInv'
  <2>1. offline' <=> e # "got_ip"
    OBVIOUS
  <2>2. \A i \in 1..Len(events') : events'[i] = "start" => i \in 1..Len(events) /\ events[i] = "start"
    BY <1>1, <1>2, <1>3
  <2>3. \A i \in 1..Len(events') : events'[i] = "start" => i = 1 /\ ~connected'
    BY <2>2 DEF SupInv, SaidInv
  <2>4. events' # <<>> => (offline' <=> events'[Len(events')] # "got_ip")
    BY <2>1, <1>1
  <2> QED BY <1>1, <2>3, <2>4 DEF SaidInv
<1>6. UpInv'
  <2>1. UNCHANGED <<connected, sup, due, downAge>>
    OBVIOUS
  <2>2. CASE e = "disconnected"
    <3>1. offline' /\ upFor' = 0 /\ downFor' = downFor /\ (Queued("got_ip")' <=> Queued("got_ip"))
      BY <1>4, <2>2
    <3> QED BY <2>1, <3>1 DEF SupInv, UpInv
  <2>3. CASE e = "got_ip"
    <3>1. ~offline' /\ upFor' = upFor /\ downFor' = 0
      BY <2>3
    <3>2. Queued("disconnected")' <=> Queued("disconnected")
      BY <1>4, <2>3
    <3> QED BY <2>1, <3>1, <3>2 DEF SupInv, UpInv
  <2> QED BY <2>2, <2>3
<1>7. downFor' \in {0, downFor} /\ downFor \in Nat /\ Grace \in Nat /\ grace \in 0..Grace
  BY LinkAssumption DEF LinkTypeOK
<1>8. GraceInv' /\ SteadyInv' /\ DownInv' /\ BeatInv' /\ NoHastyReboot'
  BY <1>7, LinkAssumption DEF SupInv, GraceInv, SteadyInv, DownInv, BeatInv, NoHastyReboot, LinkTypeOK
<1> QED BY <1>5, <1>6, <1>8 DEF SupInv

\* The handler catches up with a report.
LEMMA HandlerStep ==
  ASSUME LinkTypeOK, SupInv, OnEvent
  PROVE  SupInv'
<1> USE DEF watch, history
<1>1. events # <<>> /\ events' = Tail(events) /\ UNCHANGED <<watch, due, history>>
  BY DEF OnEvent, OnStart, OnDisconnected, OnGotIp
<1>2. /\ Head(events) = "start" => UNCHANGED connected
      /\ Head(events) = "disconnected" => connected' = FALSE
      /\ Head(events) = "got_ip" => connected' = TRUE
      /\ Head(events) \in {"start", "disconnected", "got_ip"}
  BY DEF OnEvent, OnStart, OnDisconnected, OnGotIp, wifi
<1>3. /\ Len(events) \in Nat \ {0} /\ Len(events') = Len(events) - 1
      /\ Head(events) = events[1]
      /\ \A i \in 1..Len(events') : i + 1 \in 1..Len(events) /\ events'[i] = events[i + 1]
  BY <1>1 DEF LinkTypeOK, Queues
<1>4. Queued(Head(events)) /\ \A x : Queued(x)' => Queued(x)
  BY <1>3 DEF Queued
<1>5. SaidInv'
  <2>1. CASE events' = <<>>
    <3>1. Len(events) = 1
      BY <1>3, <2>1
    <3>2. (connected <=> ~offline)'
      BY <1>1, <1>2, <1>3, <3>1 DEF SupInv, SaidInv
    <3> QED BY <3>2, <2>1 DEF SaidInv
  <2>2. CASE events' # <<>>
    <3>1. Len(events') > 0
      BY <1>1, <2>2 DEF LinkTypeOK, Queues
    <3>2. events'[Len(events')] = events[Len(events)]
      BY <1>3, <3>1
    <3>3. \A i \in 1..Len(events') : events'[i] # "start"
      BY <1>3 DEF SupInv, SaidInv
    <3> QED BY <1>1, <2>2, <3>2, <3>3 DEF SupInv, SaidInv
  <2> QED BY <2>1, <2>2
<1>6. UpInv'
  BY <1>1, <1>2, <1>4 DEF SupInv, UpInv
<1>7. GraceInv' /\ SteadyInv' /\ DownInv' /\ BeatInv' /\ NoHastyReboot'
  BY <1>1 DEF SupInv, GraceInv, SteadyInv, DownInv, BeatInv, NoHastyReboot
<1> QED BY <1>5, <1>6, <1>7 DEF SupInv

LEMMA SupStep ==
  ASSUME LinkTypeOK, SupInv, [LinkNext]_linkVars
  PROVE  SupInv'
<1> USE DEF SupInv, GraceInv, SaidInv, UpInv, Queued, SteadyInv, DownInv, BeatInv, NoHastyReboot
<1>1. CASE Quiet
  BY <1>1 DEF Quiet, watch, history
<1>2. CASE OnEvent
  BY <1>2, HandlerStep
<1>3. CASE \E e \in {"disconnected", "got_ip"} : Report(e)
  BY <1>3, ReportStep
<1>4. CASE RetryTimer
  BY <1>4 DEF RetryTimer, watch, history
<1>5. CASE Heartbeat
  BY <1>5, LinkAssumption DEF Heartbeat, wifi, history, LinkTypeOK
<1>6. CASE GetStuck
  BY <1>6 DEF GetStuck, wifi, history
<1>7. CASE Check
  BY <1>7, CheckStep, TypeParts
<1>11. CASE CheckTorn
  BY <1>11 DEF CheckTorn, wifi, history
<1>8. CASE Tick
  BY <1>8, TickStep, TypeParts
<1>9. CASE Reboot
  BY <1>9, LinkAssumption DEF Reboot
<1>10. CASE UNCHANGED linkVars
  BY <1>1, <1>10 DEF linkVars, Quiet, wifi
<1> QED
  BY <1>1, <1>2, <1>3, <1>4, <1>5, <1>6, <1>7, <1>8, <1>9, <1>10, <1>11, QuietSteps, ReportSteps
     DEF LinkNext

---------------------------------------------------------------------------
LinkInv == LinkTypeOK /\ RetryPending /\ SupInv

LEMMA LinkInvariant == LinkSpec => []LinkInv
<1>1. LinkInit => LinkInv
  BY InitLink DEF LinkInv
<1>2. LinkInv /\ [LinkNext]_linkVars => LinkInv'
  BY TypeStep, RetryStep, SupStep DEF LinkInv
<1> QED BY <1>1, <1>2, PTL DEF LinkSpec

\* The variables of wifi.c and supervisor.c keep their types; s_retries in
\* particular never exceeds MAX_FAST_RETRIES.
THEOREM LinkTypeCorrect == LinkSpec => []LinkTypeOK
BY LinkInvariant, PTL DEF LinkInv

\* The WiFi station is never idle with nothing under way that makes it try
\* again, whatever order events, timer and forced disconnects come in.
THEOREM ARetryIsPending == LinkSpec => []RetryPending
BY LinkInvariant, PTL DEF LinkInv

\* The supervisor never reboots the board for a link that has been up for a
\* whole check interval recently, nor for a healthy poll task whose heartbeat it
\* has read whole; a heartbeat read torn is left out, and may reboot the board.
THEOREM RebootsAreJustified == LinkSpec => []NoHastyReboot
BY LinkInvariant, PTL DEF LinkInv, SupInv

\* No outage that the WiFi driver has reported, and no stuck poll task, outlasts
\* its limit by more than the time to the next check, or to the first after
\* booting.
THEOREM FaultsAreCaught == LinkSpec => []CaughtInTime
<1>1. LinkInv => CaughtInTime
  BY LinkAssumption DEF LinkInv, SupInv, LinkTypeOK, DownInv, BeatInv, CaughtInTime
<1> QED BY <1>1, LinkInvariant, PTL
=============================================================================
