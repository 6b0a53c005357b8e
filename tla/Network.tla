------------------------------ MODULE Network ------------------------------
(***************************************************************************)
(* Joining, rejoining and the poll rate: the commissioning task of the SDK *)
(* (src/tl_zigbee_sdk/zigbee/bdb/bdb.c), the callbacks of the application  *)
(* (src/zb_appCb.c), its give-up timer (src/app_pm.c) and its poll timer   *)
(* (src/app_utility.c).                                                    *)
(*                                                                         *)
(* The stack below bdb.c is in libraries: it scans, rejoins and loses its  *)
(* parent, and tells bdb_zdoStartDevCnf.  That posts an event for bdb_task *)
(* and leaves the outcome in a variable which the task reads later.  The   *)
(* build forms no networks and does no finding and binding; touchlink is   *)
(* left out.                                                               *)
(***************************************************************************)
EXTENDS Integers, Sequences

CONSTANTS
  Attempts,    \* tcLinkKeyExchangeAttemptsMax (3)
  MaxTasks,    \* bound on the events waiting for bdb_task
  Disturbances \* what may go wrong while a link key is exchanged: "loss",
               \* "late answer"

ASSUME NetworkAssumption ==
  /\ Attempts \in Nat /\ MaxTasks \in Nat \ {0}
  /\ Disturbances \subseteq {"loss", "late answer"}

VARIABLES
  power,  \* "on", "off", or "asleep" after no_joinedCb
  bdb,    \* g_bdbCtx and g_bdbAttrs
  tasks,  \* the events posted to bdb_task
  key,    \* the exchange of the trust center's link key
  lib,    \* the stack in the libraries
  app     \* the timers and the poll rate of the application

vars == <<power, bdb, tasks, key, lib, app>>

(***************************************************************************)
(* State.                                                                  *)
(***************************************************************************)
Results == {"success", "no network", "no link key", "parent lost", "rejoin failure"}
\* result is the status that the next confirmation will carry.
Bdb == [state : {"init", "idle", "steer"},
        doing : BOOLEAN,   \* commissioningStatus is BDB_COMMISSION_STA_IN_PROGRESS
        result : Results,
        initOK : BOOLEAN,  \* initResult
        onNet : BOOLEAN]   \* nodeIsOnANetwork

Events == {"init done", "start", "retrieve key", "permit join", "permitted",
           "steer finish", "rejoin done"}

\* timers: those that lead to an event, to the start of the exchange, and the
\* one of the exchange; asks: the answers that are still out.
Key == [timers : SUBSET {"retrieve key", "permit join", "begin", "exchange"},
        attempts : 0 .. Attempts + 1,
        asks : SUBSET {"node descriptor", "link key"}]
NoKey == [timers |-> {}, attempts |-> 0, asks |-> {}]

\* new: zb_isDeviceFactoryNew; removed: the network told the device to leave,
\* or a leave of its own came too late.
Lib == [act : {"none", "start", "scan", "rejoin"}, joined : BOOLEAN, new : BOOLEAN,
        leaving : BOOLEAN, removed : BOOLEAN]

Rates == {"default", "short", "long", "queue"}
\* steer counts the timers of app_bdbNetworkSteerStart, which nobody keeps.
App == [steer : 0 .. 2, backoff : BOOLEAN, noJoined : BOOLEAN,
        poll : BOOLEAN, rate : Rates, loading : BOOLEAN]
FreshApp == [steer |-> 0, backoff |-> FALSE, noJoined |-> FALSE,
             poll |-> FALSE, rate |-> "default", loading |-> FALSE]

(***************************************************************************)
(* The callbacks of the application.                                       *)
(***************************************************************************)
ShortPoll(a) == [a EXCEPT !.rate = "short", !.poll = TRUE]

\* Mutant: the back-off goes on.
SucceededInBackoff(a) == [ShortPoll(a) EXCEPT !.noJoined = FALSE]
Succeeded(a) == [ShortPoll(a) EXCEPT !.noJoined = FALSE, !.backoff = FALSE]
\* Mutant: no new search is planned.
UnjoinedWaits(a) == [a EXCEPT !.noJoined = TRUE]
Unjoined(a)  == [a EXCEPT !.steer = @ + 1, !.noJoined = TRUE]
\* Mutant: the device never gives up rejoining.
RejoinFailedForever(a) == [a EXCEPT !.backoff = TRUE]
\* Mutant: a search is planned besides the back-off.
RejoinFailedSearches(a) == [a EXCEPT !.backoff = TRUE, !.noJoined = TRUE, !.steer = @ + 1]
RejoinFailed(a) == [a EXCEPT !.backoff = TRUE, !.noJoined = TRUE]

\* zb_bdbCommissioningCb, the rejoin of a lost parent apart.
Told(a, result) ==
  CASE result = "success" -> Succeeded(a)
    [] result \in {"no network", "no link key"} -> Unjoined(a)
    [] result = "rejoin failure" -> RejoinFailed(a)
    [] result = "parent lost" -> a

RejoinReq(l) == IF l.act = "none" /\ ~l.new THEN [l EXCEPT !.act = "rejoin"] ELSE l

\* zb_bdbInitCb.
InitCb(a) ==
  CASE bdb.initOK /\ bdb.onNet  -> ShortPoll(a)
    [] bdb.initOK /\ ~bdb.onNet -> [a EXCEPT !.steer = @ + 1]
    [] ~bdb.initOK /\ bdb.onNet -> [a EXCEPT !.backoff = TRUE]
    [] OTHER                    -> a

(***************************************************************************)
(* bdb_task: one event, which the state it finds may not know.             *)
(***************************************************************************)
\* bdb_topLevelCommissiongConfirm.
Confirm ==
  /\ bdb' = [bdb EXCEPT !.state = "idle", !.doing = FALSE]
  /\ app' = Told(app, bdb.result)
  /\ lib' = IF bdb.result = "parent lost" THEN RejoinReq(lib) ELSE lib

Ignore == UNCHANGED <<bdb, lib, app>>
Nothing == UNCHANGED key /\ tasks' = Tail(tasks)
ThenPost(event) == UNCHANGED key /\ tasks' = Append(Tail(tasks), event)

TaskInInit(event) ==
  /\ bdb' = [bdb EXCEPT !.state = "idle"]
  /\ app' = IF event = "init done" THEN InitCb(app) ELSE app
  /\ Nothing /\ UNCHANGED lib

\* bdb_commissioningNetworkSteer: a device that believes to be on a network
\* only opens it.
TaskInIdle(event) ==
  CASE event = "start" /\ bdb.onNet ->
         /\ bdb' = [bdb EXCEPT !.state = "steer"]
         /\ ThenPost("permitted") /\ UNCHANGED <<lib, app>>
    [] event = "start" /\ ~bdb.onNet ->
         /\ bdb' = [bdb EXCEPT !.state = "steer"]
         /\ lib' = [lib EXCEPT !.act = "scan"]
         /\ Nothing /\ UNCHANGED app
    [] event = "rejoin done" -> Confirm /\ Nothing
    [] OTHER -> Ignore /\ Nothing

TaskInSteer(event) ==
  CASE event = "retrieve key" ->
         /\ key' = [key EXCEPT !.timers = @ \cup {"begin"}]
         /\ tasks' = Tail(tasks) /\ Ignore
    [] event = "permit join" -> ThenPost("permitted") /\ Ignore
    [] event = "steer finish" -> Confirm /\ Nothing
    [] OTHER -> Ignore /\ Nothing

\* bdb_mgmtPermitJoiningConfirm, a task of its own.
Permitted ==
  /\ bdb' = [bdb EXCEPT !.result = "success"]
  /\ lib' = [lib EXCEPT !.new = @ /\ ~bdb.onNet]
  /\ IF bdb.state = "steer" THEN ThenPost("steer finish") ELSE Nothing
  /\ UNCHANGED app

Task ==
  /\ power = "on" /\ tasks # <<>>
  /\ LET event == Head(tasks)
     IN  \/ event = "permitted" /\ Permitted
         \/ event # "permitted" /\ bdb.state = "init"  /\ TaskInInit(event)
         \/ event # "permitted" /\ bdb.state = "idle"  /\ TaskInIdle(event)
         \/ event # "permitted" /\ bdb.state = "steer" /\ TaskInSteer(event)
  /\ UNCHANGED power

(***************************************************************************)
(* The stack in the libraries.                                             *)
(***************************************************************************)
Post(event) == tasks' = Append(tasks, event)

Outcome(status) ==
  CASE status = "joined" -> "success"
    [] status = "lost"   -> "parent lost"
    [] status = "failed" -> "rejoin failure"

\* bdb_zdoStartDevCnf: the status joined, lost or failed.
DevCnf(status) ==
  \/ /\ bdb.state = "idle"
     /\ bdb' = [bdb EXCEPT !.onNet = @ \/ status = "joined", !.result = Outcome(status)]
     /\ Post("rejoin done") /\ UNCHANGED key
  \/ /\ bdb.state = "init"
     /\ bdb' = [bdb EXCEPT !.initOK = (status = "joined")]
     /\ Post("init done") /\ UNCHANGED key
  \/ /\ bdb.state = "steer" /\ status = "joined"
     /\ bdb' = [bdb EXCEPT !.onNet = TRUE, !.result = "success"]
     /\ \E security \in {"retrieve key", "permit join"} :
          key' = [key EXCEPT !.timers = @ \cup {security}]
     /\ UNCHANGED tasks
  \/ /\ bdb.state = "steer" /\ status # "joined"
     /\ bdb' = [bdb EXCEPT !.result = "no network"]
     /\ Post("steer finish") /\ UNCHANGED key

Answer(found) ==
  /\ power = "on" /\ lib.act # "none"
  /\ Len(tasks) < MaxTasks
  /\ lib' = [lib EXCEPT !.act = "none", !.joined = found]
  /\ DevCnf(IF found THEN "joined" ELSE "failed")
  /\ UNCHANGED <<power, app>>

ParentLost ==
  /\ power = "on" /\ lib.joined /\ lib.act = "none"
  /\ bdb.state = "steer" => "loss" \in Disturbances
  /\ Len(tasks) < MaxTasks
  /\ lib' = [lib EXCEPT !.joined = FALSE]
  /\ DevCnf("lost")
  /\ UNCHANGED <<power, app>>

\* The network removes the device (app_leaveCnfHandler), or the device leaves
\* because it got no link key.
Leaves ==
  /\ power = "on" /\ lib.joined /\ lib.act = "none"
  /\ lib.leaving \/ bdb.state = "idle"
  /\ lib' = [lib EXCEPT !.joined = FALSE, !.new = TRUE, !.leaving = FALSE,
                        !.removed = "exchange" \notin key.timers]
  /\ app' = [app EXCEPT !.backoff = FALSE]
  /\ UNCHANGED <<power, bdb, tasks, key>>

(***************************************************************************)
(* The exchange of the link key.                                           *)
(***************************************************************************)
\* bdb_task_delay.
KeyDelay ==
  /\ power = "on"
  /\ \E event \in key.timers \cap {"retrieve key", "permit join"} :
       /\ key' = [key EXCEPT !.timers = @ \ {event}]
       /\ Post(event)
  /\ UNCHANGED <<power, bdb, lib, app>>

\* bdb_retrieveTcLinkKeyStart.
KeyBegin ==
  /\ power = "on" /\ "begin" \in key.timers
  /\ key' = [timers   |-> (key.timers \ {"begin"}) \cup {"exchange"},
             attempts |-> 0,
             asks     |-> key.asks \cup {"node descriptor"}]
  /\ UNCHANGED <<power, bdb, tasks, lib, app>>

\* bdb_retrieveTcLinkKeyDone, with the answers that are left out there.
KeyDone(ok, attempts, asks) ==
  /\ key' = [timers |-> key.timers \ {"exchange"}, attempts |-> attempts, asks |-> asks]
  /\ bdb' = [bdb EXCEPT !.onNet = ok, !.result = IF ok THEN "success" ELSE "no link key"]
  /\ Post(IF ok THEN "permit join" ELSE "steer finish")

\* An answer comes before the device gives up asking and leaves.
InTime == "late answer" \in Disturbances
            \/ (bdb.state = "steer" /\ "exchange" \in key.timers /\ key.attempts <= Attempts)

\* bdb_nodeDescRespHandler: an error, a new trust center, which is asked for
\* the key, or an old one, which has none.
NodeDescriptor ==
  /\ power = "on" /\ "node descriptor" \in key.asks /\ InTime
  /\ LET left == key.asks \ {"node descriptor"}
     IN  \/ key' = [key EXCEPT !.asks = left] /\ UNCHANGED <<bdb, tasks>>
         \/ /\ key' = [key EXCEPT !.asks = left \cup {"link key"}]
            /\ bdb' = [bdb EXCEPT !.onNet = FALSE]
            /\ UNCHANGED tasks
         \/ KeyDone(TRUE, key.attempts, left)
  /\ UNCHANGED <<power, lib, app>>

LinkKey(ok) ==
  /\ power = "on" /\ "link key" \in key.asks /\ InTime
  /\ KeyDone(ok, key.attempts, key.asks \ {"link key"})
  /\ UNCHANGED <<power, lib, app>>

\* Mutant: the attempts are not limited.
KeyTimeoutForever ==
  /\ power = "on" /\ "exchange" \in key.timers
  /\ key' = [key EXCEPT !.attempts = @ + 1, !.asks = @ \cup {"node descriptor"}]
  /\ UNCHANGED <<power, bdb, tasks, lib, app>>
\* bdb_retrieveTcLinkKeyTimeout.
KeyTimeout ==
  /\ power = "on" /\ "exchange" \in key.timers
  /\ \/ /\ key.attempts < Attempts
        /\ key' = [key EXCEPT !.attempts = @ + 1, !.asks = @ \cup {"node descriptor"}]
        /\ UNCHANGED <<bdb, tasks, lib>>
     \/ /\ key.attempts >= Attempts /\ ~lib.joined
        /\ KeyDone(FALSE, 0, key.asks) /\ UNCHANGED lib
     \/ /\ key.attempts >= Attempts /\ lib.joined
        /\ key' = [key EXCEPT !.attempts = Attempts + 1]
        /\ lib' = [lib EXCEPT !.leaving = TRUE]
        /\ UNCHANGED <<bdb, tasks>>
  /\ UNCHANGED <<power, app>>

(***************************************************************************)
(* The timers of the application.                                          *)
(***************************************************************************)
\* app_bdbNetworkSteerStart: a request that finds bdb busy is lost.
SteerTimer ==
  /\ power = "on" /\ app.steer > 0
  /\ app' = [app EXCEPT !.steer = @ - 1]
  /\ IF bdb.state = "idle" /\ lib.act = "none" /\ ~bdb.doing
     THEN bdb' = [bdb EXCEPT !.doing = TRUE] /\ Post("start")
     ELSE UNCHANGED <<bdb, tasks>>
  /\ UNCHANGED <<power, key, lib>>

\* app_rejoinBacckoff.
BackoffTimer ==
  /\ power = "on" /\ app.backoff
  /\ app' = [app EXCEPT !.backoff = ~lib.new]
  /\ lib' = RejoinReq(lib)
  /\ UNCHANGED <<power, bdb, tasks, key>>

Busy == lib.act # "none" \/ lib.leaving \/ tasks # <<>>

\* no_joinedCb: it comes back in a minute if the stack is busy.
NoJoinedTimer ==
  /\ power = "on" /\ app.noJoined
  /\ \/ lib.joined /\ app' = [app EXCEPT !.noJoined = FALSE] /\ UNCHANGED power
     \/ ~lib.joined /\ ~Busy /\ power' = "asleep" /\ UNCHANGED app
  /\ UNCHANGED <<bdb, tasks, key, lib>>

\* poll_rateAppCb, which always runs again.
PollTimer ==
  /\ power = "on" /\ app.poll
  /\ app' = [app EXCEPT !.rate = IF @ = "long" THEN "short" ELSE "long"]
  /\ UNCHANGED <<power, bdb, tasks, key, lib>>

(***************************************************************************)
(* What else touches the poll rate.                                        *)
(***************************************************************************)
\* counters_handler, when it saves.
Pulse ==
  /\ power = "on"
  /\ app' = ShortPoll(app)
  /\ UNCHANGED <<power, bdb, tasks, key, lib>>

\* button_handler after a short press.
ShortPress ==
  /\ power = "on"
  /\ app' = IF app.loading THEN [app EXCEPT !.poll = FALSE] ELSE ShortPoll(app)
  /\ UNCHANGED <<power, bdb, tasks, key, lib>>

\* app_otaProcessMsgHandler: refused for the battery, or begun.
OtaStart(charged) ==
  /\ power = "on" /\ lib.joined /\ ~app.loading
  /\ app' = IF charged
            THEN [app EXCEPT !.loading = TRUE, !.poll = FALSE, !.rate = "queue"]
            ELSE ShortPoll(app)
  /\ UNCHANGED <<power, bdb, tasks, key, lib>>

\* Mutant: the poll timer is not started again.
OtaFailsUnpolled ==
  /\ power = "on" /\ app.loading
  /\ app' = [app EXCEPT !.loading = FALSE, !.rate = "short"]
  /\ UNCHANGED <<power, bdb, tasks, key, lib>>
OtaFails ==
  /\ power = "on" /\ app.loading
  /\ app' = [ShortPoll(app) EXCEPT !.loading = FALSE]
  /\ UNCHANGED <<power, bdb, tasks, key, lib>>

(***************************************************************************)
(* Stops and starts.                                                       *)
(***************************************************************************)
\* The end of an update, the button, or a change of batteries.
Stop(factory) ==
  /\ power' = "off"
  /\ bdb' = [state |-> "init", doing |-> FALSE, result |-> "success",
             initOK |-> TRUE, onNet |-> FALSE]
  /\ tasks' = <<>> /\ key' = NoKey
  /\ lib' = [act |-> "none", joined |-> FALSE, new |-> lib.new \/ factory,
             leaving |-> FALSE, removed |-> FALSE]
  /\ app' = FreshApp

\* bdb_init, on batteries or on a pin that ends the deep sleep.
Boot ==
  /\ power # "on"
  /\ power' = "on"
  /\ bdb' = [state |-> "init", doing |-> FALSE, result |-> "success",
             initOK |-> TRUE, onNet |-> ~lib.new]
  /\ tasks' = IF lib.new THEN <<"init done">> ELSE <<>>
  /\ lib' = [lib EXCEPT !.act = IF lib.new THEN "none" ELSE "start",
                        !.leaving = FALSE, !.removed = FALSE]
  /\ key' = NoKey /\ app' = FreshApp

Init ==
  /\ power = "off"
  /\ bdb = [state |-> "init", doing |-> FALSE, result |-> "success",
            initOK |-> TRUE, onNet |-> FALSE]
  /\ tasks = <<>> /\ key = NoKey
  /\ lib = [act |-> "none", joined |-> FALSE, new |-> TRUE, leaving |-> FALSE,
            removed |-> FALSE]
  /\ app = FreshApp

Answers == \E found \in BOOLEAN : Answer(found)
KeySteps == KeyDelay \/ KeyBegin \/ KeyTimeout

Next ==
  \/ Task \/ Answers \/ ParentLost \/ Leaves
  \/ KeySteps \/ NodeDescriptor \/ \E ok \in BOOLEAN : LinkKey(ok)
  \/ SteerTimer \/ BackoffTimer \/ NoJoinedTimer \/ PollTimer
  \/ Pulse \/ ShortPress \/ OtaFails
  \/ \E charged \in BOOLEAN : OtaStart(charged)
  \/ \E factory \in BOOLEAN : Stop(factory)
  \/ Boot

\* Posted tasks run, timers run out, and the stack answers what it was asked
\* and leaves when it was told to.
Fairness ==
  /\ WF_vars(Task) /\ WF_vars(Answers) /\ WF_vars(KeySteps)
  /\ WF_vars(lib.leaving /\ Leaves)
  /\ WF_vars(SteerTimer) /\ WF_vars(BackoffTimer) /\ WF_vars(NoJoinedTimer)

Spec     == Init /\ [][Next]_vars
FairSpec == Spec /\ Fairness

(***************************************************************************)
(* Properties.                                                             *)
(***************************************************************************)
TypeOK ==
  /\ power \in {"on", "off", "asleep"}
  /\ bdb \in Bdb
  /\ tasks \in Seq(Events) /\ Len(tasks) <= MaxTasks + 2
  /\ key \in Key /\ lib \in Lib /\ app \in App

Pending(event) == \E i \in DOMAIN tasks : tasks[i] = event

\* A device that is awake and has no network is never left with nothing that
\* will run: an attempt, a confirmation on its way, or a timer that starts
\* one.  (What happens after the network removed it is up to the libraries.)
SomethingWillRun ==
  (power = "on" /\ ~lib.joined /\ ~lib.removed) =>
    \/ lib.act # "none" \/ tasks # <<>>
    \/ app.steer > 0 \/ app.backoff
    \/ "exchange" \in key.timers

\* However the confirmations of the stack, which share one status, are
\* delayed and overtaken: the back-off that keeps rejoining does not outlast
\* the return of the network.
BackoffEndsWithNetwork ==
  (power = "on" /\ app.backoff /\ lib.joined /\ lib.act = "none") =>
    Pending("rejoin done") \/ Pending("init done")

\* No mix of pulses, clicks, updates and confirmations stops the poll timer
\* of a device that is on a network: it always goes back to polling slowly
\* (the 3 seconds and 5 minutes of README.md:132), which its battery needs.
PollTimerRuns ==
  (power = "on" /\ bdb.state = "idle" /\ bdb.onNet /\ lib.joined /\ tasks = <<>> /\ ~app.loading)
    => app.poll

\* At most one attempt to join is under way or planned, although nobody
\* keeps the timer that plans it: the pool of timer events never fills up.
OneAttemptAtATime ==
  power = "on" => app.steer + (IF bdb.doing THEN 1 ELSE 0) <= 1

\* A device that stays awake without a network for good is never left idle,
\* whatever became of its attempts, their confirmations and the exchange of
\* the key: it tries again for ever, and no_joinedCb is there to send it to
\* sleep when it finds the stack at rest.  (Of one that was removed, see
\* SomethingWillRun.)
GivesUpOrTriesOn ==
  <>[](power = "on" /\ ~lib.joined /\ ~lib.removed)
    => /\ []<>(lib.act # "none")
       /\ <>[]app.noJoined

(***************************************************************************)
(* What the code does not promise.                                         *)
(***************************************************************************)
\* A download is polled fast: refuted because a pulse starts the poll timer
\* without looking at new_ota (app_counter.c:144).
DownloadPollsFast == app.loading => app.rate # "long"

\* A device without a network ends up on one or, after half an hour of
\* attempts, in deep sleep (README.md:154), unless it is removed or stopped:
\* not guaranteed, because no_joinedCb looks once a minute and the back-off
\* rejoins once a minute (app_pm.c:56, zb_appCb.c:287), on one list of timers:
\* if it finds the stack busy once, it may do so every minute.
JoinsOrSleeps ==
  (power = "on" /\ ~lib.joined) ~> (lib.joined \/ lib.removed \/ power # "on")
=============================================================================
