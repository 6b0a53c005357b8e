----------------------------- MODULE Reporting -----------------------------
(***************************************************************************)
(* Attribute reports (src/app_reporting.c) and their configuration         *)
(* (app_zclCfgReportCmd of src/zcl_appCb.c).                               *)
(*                                                                         *)
(* Every entry of the reporting table has a timer of its minimum interval, *)
(* which reports the attribute if it changed, and one of its maximum       *)
(* interval, which reports it anyway unless a report was posted less than  *)
(* the minimum interval ago.  An entry without a minimum is reported by    *)
(* the main loop as soon as it changes.  How long ago a report was posted  *)
(* is read off a 32-bit clock of 16 ticks per microsecond, which repeats   *)
(* after some 268 seconds.                                                 *)
(***************************************************************************)
EXTENDS Integers, Functions

CONSTANTS
  Entries,   \* entries of the reporting table that are in use
  Initial,   \* Initial[e]: the intervals user_init gives entry e
  Configs,   \* the intervals a Zigbee client configures
  MaxAttrs,  \* bound on the attributes of one configuration command
  UnitMs,    \* milliseconds in a unit of the model's time
  WrapMs,    \* milliseconds after which the clock repeats (268435)
  MaxPosted, \* bound on the time since a report was posted
  MaxSince,  \* bound on the time since the client heard of an entry
  Unstable   \* what goes away and comes back: "network", "binding"

ASSUME ReportingAssumption ==
  /\ Configs \subseteq [min : Nat, max : Nat]
  /\ Initial \in [Entries -> [min : Nat, max : Nat]]
  /\ MaxAttrs \in Nat /\ MaxPosted \in Nat /\ MaxSince \in Nat
  /\ UnitMs \in Nat \ {0} /\ WrapMs \in Nat \ {0}
  /\ Unstable \subseteq {"network", "binding"}

VARIABLES
  app,     \* app_reporting and reportingTab: a record per entry
  joined,  \* zb_isDeviceJoinedNwk
  bound,   \* zb_bindingTblSearched finds a destination
  stopped  \* timerStopReportEvt is running

vars == <<app, joined, bound, stopped>>

\* Interval that switches the reports of an entry off.
Disabled == 65535

\* A timer event: its period and what is left of it.
Null == [left |-> 0, period |-> 0]
Schedule(i) == [left |-> i, period |-> i]
Restarted(t) == Schedule(t.period)
Runs(t) == t # Null
Due(t) == Runs(t) /\ t.left = 0

\* Fields: the intervals min and max; changed, whether the attribute differs
\* from prevData by more than reportableChange; the two timers; posted, the
\* time since time_posted.  For the properties: stale, whether the attribute
\* differs from the last report, lost ones included; since, the time since
\* the client got a report, configured the entry, or could not be reached;
\* and got, which tells the reports it got after that apart (0 for none).
Timer == [left : Nat, period : Nat]
Entry == [min : Nat, max : Nat, changed : BOOLEAN, stale : BOOLEAN,
          timerReportMinEvt : Timer, timerReportMaxEvt : Timer,
          posted : 0 .. MaxPosted, since : 0 .. MaxSince, got : 0 .. 2]

(***************************************************************************)
(* Sending.                                                                *)
(***************************************************************************)
\* reportAttr: prevData follows the attribute whether or not the report
\* arrives.
ReportAttr(r) ==
  [r EXCEPT !.changed = @ /\ ~bound, !.stale = @ /\ ~bound,
            !.since = 0,
            !.got = IF ~(joined /\ bound) THEN 0 ELSE IF @ = 1 THEN 2 ELSE 1]

\* app_reportMinAttrTimerCb, its rescheduling apart.
MinReport(r) ==
  IF r.min = r.max \/ r.changed
  THEN [ReportAttr(r) EXCEPT !.posted = 0]
  ELSE r

\* Mutant: only entries without any limit are reported at once.
NoMinLimitOnly(r) ==
  IF r.max = 0 /\ r.min = 0 /\ r.changed /\ bound
  THEN [ReportAttr(r) EXCEPT !.posted = 0]
  ELSE r
\* app_reportNoMinLimit for one entry.
NoMinLimit(r) ==
  IF (r.max = 0 \/ (r.max # Disabled /\ r.min = 0)) /\ r.changed /\ bound
  THEN [ReportAttr(r) EXCEPT
          !.posted = 0,
          !.timerReportMaxEvt = IF r.max = 0 THEN @ ELSE Schedule(r.max)]
  ELSE r

\* app_reportAttrTimerStart for one entry.
StartMin(r) ==
  IF ~Runs(r.timerReportMinEvt) /\ r.min # 0 /\ r.min <= r.max
  THEN [r EXCEPT !.timerReportMinEvt = Schedule(r.min)]
  ELSE r
\* Mutant: the maximum counts from the end of the minimum.
StartMaxAfterMin(r) ==
  IF Runs(r.timerReportMaxEvt) \/ r.max = 0 THEN r
  ELSE [r EXCEPT !.timerReportMaxEvt = Schedule(r.max - r.min)]
StartMax(r) ==
  IF Runs(r.timerReportMaxEvt) THEN r
  ELSE IF r.max = 0 THEN MinReport(r)
  ELSE IF r.min < r.max THEN [r EXCEPT !.timerReportMaxEvt = Schedule(r.max)]
  ELSE r
TimerStart(r) ==
  IF bound /\ r.max # Disabled /\ (r.min # 0 \/ r.max # 0)
  THEN StartMax(StartMin(r))
  ELSE r

\* app_report_handler.
Handled(r) == IF joined /\ ~stopped THEN TimerStart(NoMinLimit(r)) ELSE r

ReportHandler ==
  /\ \E e \in Entries : Handled(app[e]) # app[e]
  /\ app' = [e \in Entries |-> Handled(app[e])]
  /\ UNCHANGED <<joined, bound, stopped>>

(***************************************************************************)
(* The timers.                                                             *)
(***************************************************************************)
\* What clock_time_exceed may answer n units after the report: at equality
\* it depends on the latencies of the timers.
Exceeds(n, m) ==
  LET elapsed == (n * UnitMs) % WrapMs
      limit   == (m * UnitMs) % WrapMs
  IN  IF elapsed = limit THEN BOOLEAN ELSE {elapsed > limit}

Put(e, r) == app' = [app EXCEPT ![e] = r] /\ UNCHANGED <<joined, bound, stopped>>

MinTimer(e) ==
  /\ Due(app[e].timerReportMinEvt)
  /\ Put(e, [MinReport(app[e]) EXCEPT !.timerReportMinEvt = Restarted(@)])

\* Mutant: the maximum interval reports changes only.
MaxReportIfChanged(r, exceeded) ==
  IF exceeded /\ r.changed
  THEN [ReportAttr(r) EXCEPT !.timerReportMinEvt = Null]
  ELSE r
\* Mutant: the minimum interval is not looked at.
MaxReportAnyway(r, exceeded) == [ReportAttr(r) EXCEPT !.timerReportMinEvt = Null]
\* app_reportMaxAttrTimerCb, its rescheduling apart.
MaxReport(r, exceeded) ==
  IF exceeded THEN [ReportAttr(r) EXCEPT !.timerReportMinEvt = Null] ELSE r

MaxTimer(e) ==
  /\ Due(app[e].timerReportMaxEvt)
  /\ \E exceeded \in Exceeds(app[e].posted, app[e].min) :
       Put(e, [MaxReport(app[e], exceeded) EXCEPT !.timerReportMaxEvt = Restarted(@)])

Down(t) == IF Runs(t) THEN [t EXCEPT !.left = @ - 1] ELSE t

\* A unit passes for an entry.
Passed(r) ==
  [r EXCEPT !.timerReportMinEvt = Down(@), !.timerReportMaxEvt = Down(@),
            !.posted = @ + 1,
            !.since = IF joined /\ bound THEN @ + 1 ELSE 0,
            !.got = IF joined /\ bound THEN @ ELSE 0]

\* Time passes when every timer that is due has run and the main loop finds
\* nothing to do.
Tick ==
  /\ ~stopped
  /\ \A e \in Entries :
       /\ ~Due(app[e].timerReportMinEvt) /\ ~Due(app[e].timerReportMaxEvt)
       /\ Handled(app[e]) = app[e]
       /\ app[e].posted < MaxPosted /\ app[e].since < MaxSince
  /\ app' = [e \in Entries |-> Passed(app[e])]
  /\ UNCHANGED <<joined, bound, stopped>>

\* stopReportCb, seconds after joining.
StopReport ==
  /\ stopped /\ stopped' = FALSE
  /\ UNCHANGED <<app, joined, bound>>

\* forcedReportCb: not a report of the table, prevData stays.
ForcedReport ==
  /\ joined
  /\ app' = [e \in Entries |-> [app[e] EXCEPT !.stale = FALSE]]
  /\ UNCHANGED <<joined, bound, stopped>>

(***************************************************************************)
(* The configuration.                                                      *)
(***************************************************************************)
Cancelled(r) == [r EXCEPT !.timerReportMinEvt = Null, !.timerReportMaxEvt = Null]

\* The stack has put the intervals into the table.
InTable(es, c) ==
  [e \in Entries |->
     IF e \in Range(es)
     THEN [app[e] EXCEPT !.min = c.min, !.max = c.max, !.since = 0, !.got = 0]
     ELSE app[e]]

\* Mutant: the timers go on.
ConfiguredOnly(es, c) == InTable(es, c)
\* The handler cancels the timers of the first attribute it finds and returns.
Configured(es, c) == [InTable(es, c) EXCEPT ![es[1]] = Cancelled(@)]

CfgReportCmd ==
  /\ joined
  /\ \E n \in 1 .. MaxAttrs : \E es \in [1 .. n -> Entries], c \in Configs :
       app' = Configured(es, c)
  /\ UNCHANGED <<joined, bound, stopped>>

(***************************************************************************)
(* The environment.                                                        *)
(***************************************************************************)
Change(e) == Put(e, [app[e] EXCEPT !.changed = TRUE, !.stale = TRUE])
\* It comes back to prevData: nothing to report, whatever a forced report sent
\* in between.
ChangeBack(e) ==
  /\ app[e].changed
  /\ Put(e, [app[e] EXCEPT !.changed = FALSE, !.stale = FALSE])

Leave ==
  /\ "network" \in Unstable
  /\ joined /\ joined' = FALSE
  /\ UNCHANGED <<app, bound, stopped>>

\* zb_bdbCommissioningCb and zb_bdbInitCb start timerStopReportEvt.
Join ==
  /\ ~joined /\ joined' = TRUE
  /\ stopped' = TRUE
  /\ UNCHANGED <<app, bound>>

Binding ==
  /\ "binding" \in Unstable
  /\ bound' = ~bound
  /\ UNCHANGED <<app, joined, stopped>>

Init ==
  /\ app = [e \in Entries |->
              [min |-> Initial[e].min, max |-> Initial[e].max,
               changed |-> FALSE, stale |-> FALSE,
               timerReportMinEvt |-> Null, timerReportMaxEvt |-> Null,
               posted |-> 0, since |-> 0, got |-> 0]]
  /\ joined = FALSE /\ bound = TRUE /\ stopped = FALSE

Next ==
  \/ ReportHandler \/ Tick \/ StopReport \/ ForcedReport
  \/ \E e \in Entries : MinTimer(e) \/ MaxTimer(e) \/ Change(e) \/ ChangeBack(e)
  \/ CfgReportCmd
  \/ Leave \/ Join \/ Binding

Spec == Init /\ [][Next]_vars

(***************************************************************************)
(* Properties.                                                             *)
(***************************************************************************)
\* Type correctness.
TypeOK ==
  /\ app \in [Entries -> Entry]
  /\ joined \in BOOLEAN /\ bound \in BOOLEAN /\ stopped \in BOOLEAN

Connected == joined /\ bound

\* A reading that has no minimum interval is sent as soon as it changes and
\* at the latest when the maximum interval is over: no time passes otherwise.
ReadingsReported ==
  [][(Tick /\ Connected) =>
       \A e \in Entries :
         app[e].min = 0 /\ app[e].max \notin {0, Disabled}
           => ~app[e].stale /\ app'[e].since <= app[e].max]_vars

\* Two reports of an entry that the client did not reconfigure in between
\* are never closer than its minimum interval, unless it has a minimum but no
\* maximum, or a minimum longer than the period of the clock, on which the
\* report of the maximum interval may come too early (MinimumKept).
NotTooOften ==
  [][\A e \in Entries :
       (/\ app[e].max # 0 /\ (MaxTimer(e) => app[e].min * UnitMs < WrapMs)
        /\ app[e].got # 0 /\ app'[e].got \notin {0, app[e].got})
          => app[e].since >= app[e].min]_vars

\* The maximum interval takes the clock from every value at which the minimum
\* suppresses a report to one at which it does not: so do the intervals of
\* user_init.
ClockTells(r) ==
  LET least == (r.min * UnitMs) % WrapMs
      most  == (r.max * UnitMs) % WrapMs
  IN  least < most /\ least + most < WrapMs

\* Whatever the minimum interval and the clock suppress, no entry with such
\* intervals is silent for more than two maximum intervals.
OncePerTwoMaxima ==
  \A e \in Entries :
    app[e].min < app[e].max /\ app[e].max # Disabled /\ ClockTells(app[e])
      => app[e].since <= 2 * app[e].max

\* A configuration takes effect: no timer runs on intervals of the past.
IntervalsInEffect ==
  \A e \in Entries :
    /\ Runs(app[e].timerReportMinEvt) => app[e].timerReportMinEvt.period = app[e].min
    /\ Runs(app[e].timerReportMaxEvt) => app[e].timerReportMaxEvt.period = app[e].max

(***************************************************************************)
(* What the documentation promises and the code does not do.               *)
(***************************************************************************)
\* An entry is reported at least once in its maximum interval, the battery
\* once an hour (README.md:138): violated when the clock has repeated since.
OncePerMaximum ==
  \A e \in Entries : app[e].since <= app[e].max

\* A report that changed is not repeated before the minimum interval is over,
\* the battery's not before 5 minutes (README.md:138): violated because the
\* clock repeats before that, so that the report of the maximum interval may
\* follow another one closely once the network was away and the two timers
\* are out of step.  In a stable network they stay in step.
MinimumKept ==
  [][\A e \in Entries :
       (app[e].max # 0 /\ app[e].got # 0 /\ app'[e].got \notin {0, app[e].got})
          => app[e].since >= app[e].min]_vars

\* The minimum interval holds whatever the maximum (README.md:138 and
\* zigbee2mqtt/convertor/watermeter_wleak.js:20, which configures a minimum
\* and no maximum): violated because the main loop then reports every change
\* at once.
MinimumWithoutMaximum ==
  [][\A e \in Entries :
       (app[e].got # 0 /\ app'[e].got \notin {0, app[e].got})
          => app[e].since >= app[e].min]_vars
=============================================================================
