------------------------------ MODULE Watchdog ------------------------------
(***************************************************************************)
(* checkServiceHealth and checkWatchdog of lib/node/workload-supervisor.ts.*)
(* Every cluster of a pool node looks at every service the node reports,   *)
(* the clusters at the same time, and checkWatchdog is not awaited: the    *)
(* reads and writes of the keys of one service interleave.                 *)
(***************************************************************************)
EXTENDS ServiceRecords

CONSTANT Pro   (* the clusters on the pro plan with notifications enabled   *)

FAIL_THRESHOLD == 3

VARIABLES
  degraded,     (* SERVICE.HEALTH: the services last seen degraded          *)
  failures,     (* SERVICE.CONSECUTIVE_FAILURES, up to the threshold        *)
  armed,        (* SERVICE.WATCHDOG_COOLDOWN                                *)
  alerts,       (* history: alerts since the cooldown was last over         *)
  tally         (* the count a request is about to write                    *)

watchdogVars == <<degraded, failures, armed, alerts, tally>>

Bounded(k) == IF k > FAIL_THRESHOLD THEN FAIL_THRESHOLD ELSE k

\* A service of the workloads, and what the probe of the node said of it
\* (payload: TRUE when it was degraded).
WatchService(r, c, n) ==
  /\ Begin(r, "watch", c, n, "getHealth")
  /\ UNCHANGED <<recordVars, watchdogVars>>
GetHealth(r) ==
  /\ At(r, "getHealth")
  /\ \E now \in BOOLEAN :
       Set(r, [req[r] EXCEPT !.seen = req[r].name \in degraded, !.payload = now], "putHealth")
  /\ UNCHANGED <<recordVars, watchdogVars>>
PutHealth(r) ==
  LET q == req[r] IN
  /\ At(r, "putHealth")
  /\ degraded' = IF q.payload THEN degraded \cup {q.name} ELSE degraded \ {q.name}
  /\ IF q.payload THEN Goto(r, "watchdog")
     ELSE IF q.seen THEN Goto(r, "clearFailures") ELSE Return(r)
  /\ UNCHANGED <<recordVars, failures, armed, alerts, tally>>
ClearFailures(r) ==
  /\ At(r, "clearFailures")
  /\ failures' = [failures EXCEPT ![req[r].name] = 0]
  /\ Return(r)
  /\ UNCHANGED <<recordVars, degraded, armed, alerts, tally>>

\* checkWatchdog: a feature of the pro plan.
GetFailures(r) ==
  /\ At(r, "watchdog")
  /\ IF req[r].cluster \in Pro
       THEN Goto(r, "putFailures") /\ tally' = [tally EXCEPT ![r] = Bounded(failures[req[r].name] + 1)]
       ELSE Return(r) /\ UNCHANGED tally
  /\ UNCHANGED <<recordVars, degraded, failures, armed, alerts>>
PutFailures(r) ==
  /\ At(r, "putFailures")
  /\ failures' = [failures EXCEPT ![req[r].name] = tally[r]]
  /\ tally' = [tally EXCEPT ![r] = 0]
  /\ IF tally[r] < FAIL_THRESHOLD THEN Return(r) ELSE Goto(r, "inCooldown")
  /\ UNCHANGED <<recordVars, degraded, armed, alerts>>
\* The cooldown is read, ...
InCooldown(r) ==
  /\ At(r, "inCooldown")
  /\ IF req[r].name \in armed THEN Return(r) ELSE Goto(r, "armCooldown")
  /\ UNCHANGED <<recordVars, watchdogVars>>
\* ... armed, and the alert goes out.
ArmCooldown(r) ==
  /\ At(r, "armCooldown")
  /\ armed' = armed \cup {req[r].name}
  /\ Goto(r, "alert")
  /\ UNCHANGED <<recordVars, degraded, failures, alerts, tally>>
DispatchAlert(r) ==
  /\ At(r, "alert")
  /\ alerts' = [alerts EXCEPT ![req[r].name] = Bounded(@ + 1)]
  /\ Return(r)
  /\ UNCHANGED <<recordVars, degraded, failures, armed, tally>>
\* DELETE /services/:id drops the health that was last seen, and nothing else.
CleanHealth(r) ==
  degraded' = degraded \ {req[r].name} /\ UNCHANGED <<failures, armed, alerts, tally>>
ArmedExpires(n) ==
  /\ n \in armed
  /\ armed' = armed \ {n} /\ alerts' = [alerts EXCEPT ![n] = 0]
  /\ UNCHANGED <<recordVars, req, degraded, failures, tally>>

WatchdogInit ==
  /\ degraded = {} /\ armed = {}
  /\ failures = [n \in Names |-> 0] /\ alerts = [n \in Names |-> 0]
  /\ tally = [r \in Requests |-> 0]

WatchdogStep(r) ==
  \/ \E c \in Clusters, n \in Names : WatchService(r, c, n)
  \/ GetHealth(r) \/ PutHealth(r) \/ ClearFailures(r) \/ GetFailures(r) \/ PutFailures(r)
  \/ InCooldown(r) \/ ArmCooldown(r) \/ DispatchAlert(r)
=============================================================================
