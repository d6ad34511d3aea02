---------------------------- MODULE ServicesProofs ---------------------------
(***************************************************************************)
(* What every reachable state of Services has, and the properties of the   *)
(* module that follow from it, for any sets of clusters, names, rows,      *)
(* domains and requests, and for behaviours that run any operations beside *)
(* each other.                                                             *)
(***************************************************************************)
EXTENDS Services, TLAPS

(* --- What a request holds ---------------------------------------------- *)

\* The steps of a run of the supervisor, of a verification, of the other
\* requests about a domain, and of the rest.
Supervising == {"aggregate", "workloads", "listServices", "sleepingFlag", "settleFlag",
                "stubRoute", "deletedFlag", "findDeployment", "createService",
                "registerRoute", "compareRoute", "awake", "putRoute", "cooldown",
                "mayReprovision", "findBlueprint", "sendDeploy", "enqueueDeploy",
                "recordBuild", "arm", "loadingMode"}
Verifying   == {"checkTxtRecord", "activate", "routeDomain"}
Removing    == {"deleteDomain", "unrouteDomain"}
Inserting   == {"findDomain", "insertDomain"}
Recording   == {"nameTaken", "limit", "reserve", "savePayload", "enqueue", "dispatch",
                "notifyPending", "patchConfig", "insertPending", "getDeployment",
                "getPayload", "deletePayload", "upsertDeployment", "upsertService",
                "findService", "saveSettings", "getLinked", "replaceSettings",
                "deleteDeployment", "deleteService"}
Switching   == {"sendSleep", "sendWake", "skipAsleep", "markSleeping", "sendIce",
                "markIced", "isWaking", "isSleeping", "unsetSleeping", "setWaking",
                "unregisterRoute", "cleanFlags"}
Watching    == {"getHealth", "putHealth", "clearFailures", "watchdog", "putFailures",
                "inCooldown", "armCooldown", "alert"}
Finishing   == {"getDeployment", "getPayload", "deletePayload", "upsertDeployment"}
Plain       == (Recording \ Finishing) \cup Switching \cup Watching
Labels == {"idle"} \cup Supervising \cup Verifying \cup Removing \cup Inserting
            \cup Recording \cup Switching \cup Watching

Request == [op : Rows(Operations), pc : Labels, cluster : Rows(Clusters), name : Rows(Names),
            service : Rows(ServiceIds), dep : Rows(DepIds), asked : Rows(Names),
            payload : BOOLEAN, seen : BOOLEAN]

\* A request under way names its cluster and, but for those about a domain, its
\* service; the step says whether it is a run of the supervisor; a finish or a
\* report holds an id for its deployment, and no service before it wrote that row.
Labelled(q) ==
  /\ q.pc = "idle" \/ q.cluster \in Clusters
  /\ q.pc \in {"idle"} \cup Verifying \cup Removing \/ q.name \in Names
  /\ q.op = "supervise" <=> q.pc \in Supervising
  /\ q.op \in {"verifyDomain", "verifyJob"} <=> q.pc \in Verifying
  /\ q.pc \in Finishing => q.dep \in DepIds /\ q.service = None

Fit(q) == q \in Request /\ Labelled(q)
Fits == req \in [Requests -> Request] /\ \A r \in Requests : Labelled(req[r])

(* --- Rows -------------------------------------------------------------- *)

RowsTyped ==
  /\ mix \in Mixes
  /\ services \in [Names -> Rows(ServiceRow)] /\ deployments \in [Names -> Rows(DepRow)]
  /\ settings \subseteq Setting /\ lapsed \subseteq Names

\* No two services have one id.
IdsUnique ==
  \A m, n \in Names : services[m] # None /\ services[n] # None
                        /\ services[m].id = services[n].id => m = n

SettingsHang == \A x \in settings : exists(x.at)

\* Whatever became of the service a request holds, no other cluster's has its id.
HeldIsOwn ==
  \A r \in Requests, n \in Names :
    services[n] # None /\ services[n].id = req[r].service
      => services[n].cluster = req[r].cluster

(* --- Flags, routes and counters ---------------------------------------- *)

TrafficTyped ==
  /\ sleeping \subseteq Names /\ waking \subseteq Names /\ tombstone \subseteq Names
  /\ reported \subseteq Names
  /\ route \in [Names -> Routes] /\ cooling \subseteq Clusters \X Names
WatchdogTyped ==
  /\ degraded \subseteq Names /\ armed \subseteq Names
  /\ failures \in [Names -> 0..FAIL_THRESHOLD] /\ tally \in [Requests -> 0..FAIL_THRESHOLD]
FlagsTyped == lobby \in [Clusters -> SUBSET Names] /\ TrafficTyped /\ WatchdogTyped

(* --- The supervisor ---------------------------------------------------- *)

\* Past the look at the cooldown and before its start.
Unarmed == {"mayReprovision", "findBlueprint", "sendDeploy", "enqueueDeploy", "recordBuild",
            "arm"}
\* A task was sent, and the cooldown has still to start.
Arming == {"recordBuild", "arm"}
USE DEF Arming

\* One run at a time works on a name of a cluster; between the look at the
\* cooldown and its start, nothing else starts it; and a deploy task that is
\* counted has started the cooldown or is about to.
RunsAlone ==
  \A r, x \in Requests :
    req[r].op = "supervise" /\ req[x].op = "supervise" /\ pair(r) = pair(x) => r = x
UnarmedIsCold == \A r \in Requests : req[r].pc \in Unarmed => pair(r) \notin cooling
CountedIsArmed ==
  \A p \in Clusters \X Names :
    \/ reprovisions[p] = 0
    \/ /\ reprovisions[p] = 1
       /\ p \in cooling \/ \E r \in Requests : req[r].pc \in Arming /\ pair(r) = p
Supervised ==
  /\ reprovisions \in [Clusters \X Names -> Nat]
  /\ RunsAlone /\ UnarmedIsCold /\ CountedIsArmed

(* --- Domains ----------------------------------------------------------- *)

\* What a request about a domain read of it.
VisitFits(r) ==
  /\ req[r].pc \in Verifying \cup Removing \cup Inserting => visit[r].domain \in Domains
  /\ req[r].pc \in Verifying \cup Removing => visit[r].row \in DomainRow
\* A verification is about the row it read, unless that row was deleted; and
\* past the look at the TXT record its token was found in it.
VisitIsCurrent(r) ==
  req[r].pc \in Verifying =>
    \/ visit[r].domain \in outlived
    \/ /\ domains[visit[r].domain] # None
       /\ domains[visit[r].domain].token = visit[r].row.token
TokenFound(r) == req[r].pc \in {"activate", "routeDomain"} => visit[r].row.token \in proved
DomainsTyped ==
  /\ domains \in [Domains -> Rows(DomainRow)] /\ domainRoute \in [Domains -> Rows(Names)]
  /\ visit \in [Requests -> [domain : Rows(Domains), row : Rows(DomainRow)]]
DomainsServed ==
  \A d \in Domains : domains[d] # None /\ domains[d].service # None
                       => services[domains[d].service] # None
Verified ==
  /\ \A r \in Requests : VisitFits(r) /\ VisitIsCurrent(r) /\ TokenFound(r)
  /\ ActiveWasProved

RowsInv == RowsTyped /\ IdsUnique /\ SettingsHang /\ HeldIsOwn /\ LinkIsOwn /\ ServiceSettingsAreOwn
DomainsInv == DomainsTyped /\ DomainsServed /\ Verified
Inv == Fits /\ FlagsTyped /\ RowsInv /\ Supervised /\ DomainsInv

(* --- The moves of a request -------------------------------------------- *)

\* Only request r takes a step, and it ends in g.
Moves(r, g) == req' = [req EXCEPT ![r] = g] /\ g \in Request /\ req'[r] = g
Goes(r) == req' = [req EXCEPT ![r] = req'[r]] /\ Fit(req'[r])

\* A request other than a run of the supervisor, or a run that stays as far
\* from the start of the cooldown as it was.
Steady(r) ==
  /\ req[r].pc \notin Arming
  /\ \/ req'[r].op # "supervise"
     \/ /\ req[r].op = "supervise" /\ req'[r].cluster = req[r].cluster
        /\ req'[r].name = req[r].name /\ req'[r].pc \notin Arming
        /\ req'[r].pc \in Unarmed => req[r].pc \in Unarmed

\* The service a request holds is the one it held, or that of a row.
Refers(r) ==
  \/ req'[r].service = None
  \/ req'[r].service = req[r].service /\ req'[r].cluster = req[r].cluster
  \/ \E n \in Names : /\ services[n] # None /\ req'[r].service = services[n].id
                      /\ req'[r].cluster = services[n].cluster

\* A request that works on no domain.
Elsewhere(r) == req'[r].pc \notin Verifying \cup Removing \cup Inserting

Calm(r) == Goes(r) /\ Steady(r) /\ Refers(r) /\ Elsewhere(r)

\* None and the members of a set are what a column of it holds.
LEMMA InRows == ASSUME NEW S PROVE None \in Rows(S) /\ S \subseteq Rows(S)
BY DEF Rows

\* A request of fields of the right types is one.
LEMMA MakesRequest ==
  ASSUME NEW op \in Rows(Operations), NEW pc \in Labels, NEW c \in Rows(Clusters),
         NEW n \in Rows(Names), NEW s \in Rows(ServiceIds), NEW d \in Rows(DepIds),
         NEW asked \in Rows(Names), NEW payload \in BOOLEAN, NEW seen \in BOOLEAN
  PROVE  [op |-> op, pc |-> pc, cluster |-> c, name |-> n, service |-> s, dep |-> d,
          asked |-> asked, payload |-> payload, seen |-> seen] \in Request
BY DEF Request

\* A request that is over is in order.
LEMMA IdleFits == Fit(Idle) /\ Idle.pc = "idle" /\ Idle.op = None /\ Idle.service = None
<1>1. Idle \in Request
  BY MakesRequest, InRows DEF Idle, Labels
<1>2. Idle.pc = "idle" /\ Idle.op = None /\ Idle.service = None
  BY DEF Idle
<1>3. None # "supervise" /\ None # "verifyDomain" /\ None # "verifyJob"
  BY ServiceRecordsAssumption DEF Operations
<1>4. QED
  BY <1>1, <1>2, <1>3 DEF Fit, Labelled, Supervising, Verifying, Removing, Finishing

\* Which label is of which kind.
LEMMA Known ==
  /\ "nameTaken" \in Plain /\ "limit" \in Plain /\ "reserve" \in Plain
  /\ "savePayload" \in Plain /\ "enqueue" \in Plain /\ "dispatch" \in Plain
  /\ "notifyPending" \in Plain /\ "patchConfig" \in Plain /\ "insertPending" \in Plain
  /\ "upsertService" \in Plain /\ "findService" \in Plain /\ "saveSettings" \in Plain
  /\ "getLinked" \in Plain /\ "replaceSettings" \in Plain
  /\ "deleteDeployment" \in Plain /\ "deleteService" \in Plain /\ "sendSleep" \in Plain
  /\ "sendWake" \in Plain /\ "skipAsleep" \in Plain /\ "markSleeping" \in Plain
  /\ "sendIce" \in Plain /\ "markIced" \in Plain /\ "isWaking" \in Plain
  /\ "isSleeping" \in Plain /\ "unsetSleeping" \in Plain /\ "setWaking" \in Plain
  /\ "unregisterRoute" \in Plain /\ "cleanFlags" \in Plain /\ "getHealth" \in Plain
  /\ "putHealth" \in Plain /\ "clearFailures" \in Plain /\ "watchdog" \in Plain
  /\ "putFailures" \in Plain /\ "inCooldown" \in Plain /\ "armCooldown" \in Plain
  /\ "alert" \in Plain
  /\ "aggregate" \in Supervising /\ "workloads" \in Supervising
  /\ "listServices" \in Supervising /\ "sleepingFlag" \in Supervising
  /\ "settleFlag" \in Supervising /\ "stubRoute" \in Supervising
  /\ "deletedFlag" \in Supervising /\ "findDeployment" \in Supervising
  /\ "createService" \in Supervising /\ "registerRoute" \in Supervising
  /\ "compareRoute" \in Supervising /\ "awake" \in Supervising
  /\ "putRoute" \in Supervising /\ "cooldown" \in Supervising
  /\ "mayReprovision" \in Supervising /\ "findBlueprint" \in Supervising
  /\ "sendDeploy" \in Supervising /\ "enqueueDeploy" \in Supervising
  /\ "recordBuild" \in Supervising /\ "arm" \in Supervising
  /\ "loadingMode" \in Supervising
  /\ "getDeployment" \in Finishing /\ "getPayload" \in Finishing
  /\ "deletePayload" \in Finishing /\ "upsertDeployment" \in Finishing
  /\ "checkTxtRecord" \in Verifying /\ "activate" \in Verifying
  /\ "routeDomain" \in Verifying
  /\ "deleteDomain" \in Removing /\ "unrouteDomain" \in Removing
  /\ "findDomain" \in Inserting /\ "insertDomain" \in Inserting
BY DEF Plain, Supervising, Finishing, Verifying, Removing, Inserting, Recording, Switching,
   Watching

\* The kinds are disjoint, and no one of them is an idle request's.
LEMMA Kinds ==
  /\ Plain \cup Supervising \cup Finishing \cup Verifying \cup Removing \cup Inserting \subseteq Labels
  /\ \A p \in Plain : p \notin Supervising \cup Finishing \cup Verifying \cup Removing \cup Inserting
  /\ \A p \in Supervising : p \notin Finishing \cup Verifying \cup Removing \cup Inserting
  /\ \A p \in Finishing : p \notin Verifying \cup Removing \cup Inserting
  /\ \A p \in Verifying : p \notin Removing \cup Inserting
  /\ \A p \in Removing : p \notin Inserting
  /\ "idle" \notin Plain \cup Supervising \cup Finishing \cup Verifying \cup Removing \cup Inserting
  /\ Arming \subseteq Unarmed /\ Unarmed \subseteq Supervising /\ "idle" \in Labels
BY DEF Labels, Plain, Supervising, Finishing, Verifying, Removing, Inserting, Recording,
       Switching, Watching, Unarmed

\* A request goes on at another step, ...
LEMMA GotoMoves ==
  ASSUME req \in [Requests -> Request], NEW r \in Requests, NEW p \in Labels, Goto(r, p)
  PROVE  /\ Moves(r, [req[r] EXCEPT !.pc = p])
         /\ req'[r].pc = p /\ req'[r].op = req[r].op /\ req'[r].cluster = req[r].cluster
         /\ req'[r].name = req[r].name /\ req'[r].service = req[r].service
         /\ req'[r].dep = req[r].dep
<1>1. [req[r] EXCEPT !.pc = p] \in Request
  BY DEF Request
<1>2. req' = [req EXCEPT ![r] = [req[r] EXCEPT !.pc = p]]
  BY DEF Goto
<1>3. req'[r] = [req[r] EXCEPT !.pc = p]
  BY <1>2
<1>4. QED
  BY <1>1, <1>2, <1>3 DEF Moves, Request

\* ... ends, ...
LEMMA ReturnMoves ==
  ASSUME req \in [Requests -> Request], NEW r \in Requests, Return(r)
  PROVE  Moves(r, Idle)
BY IdleFits DEF Return, Moves, Fit

\* ... or goes on with other locals.
LEMMA SetMoves ==
  ASSUME req \in [Requests -> Request], NEW r \in Requests, NEW g \in Request,
         NEW p \in Labels, Set(r, g, p)
  PROVE  /\ Moves(r, [g EXCEPT !.pc = p])
         /\ req'[r].pc = p /\ req'[r].op = g.op /\ req'[r].cluster = g.cluster
         /\ req'[r].name = g.name /\ req'[r].service = g.service /\ req'[r].dep = g.dep
<1>1. [g EXCEPT !.pc = p] \in Request
  BY DEF Request
<1>2. req' = [req EXCEPT ![r] = [g EXCEPT !.pc = p]]
  BY DEF Set
<1>3. req'[r] = [g EXCEPT !.pc = p]
  BY <1>2
<1>4. QED
  BY <1>1, <1>2, <1>3 DEF Moves, Request

\* A request may end at any step; ...
LEMMA ReturnGoes ==
  ASSUME Fits, NEW r \in Requests, Return(r)
  PROVE  /\ Goes(r) /\ Refers(r) /\ Elsewhere(r)
         /\ req'[r].op # "supervise" /\ req'[r].pc = "idle"
<1>1. Moves(r, Idle)
  BY ReturnMoves DEF Fits
<1>2. Idle.op # "supervise"
  BY IdleFits, ServiceRecordsAssumption DEF Operations
<1>3. QED
  BY <1>1, <1>2, IdleFits
     DEF Goes, Refers, Elsewhere, Moves, Verifying, Removing, Inserting

\* ... that disturbs no other unless it was about to start a cooldown.
LEMMA ReturnCalm ==
  ASSUME Fits, NEW r \in Requests, Return(r), req[r].pc \notin Arming
  PROVE  Calm(r)
BY ReturnGoes DEF Calm, Steady

\* What a move to a label of each kind needs.
LEMMA MovesPlain ==
  ASSUME NEW r \in Requests, NEW g \in Request, Moves(r, g), g.pc \in Plain,
         g.cluster \in Clusters, g.name \in Names, req[r].pc \notin Arming,
         g.op \notin {"supervise", "verifyDomain", "verifyJob"}
  PROVE  Goes(r) /\ Steady(r) /\ Elsewhere(r)
<1>1. Labelled(g)
  BY Kinds DEF Labelled
<1>2. QED
  BY <1>1, Kinds DEF Goes, Fit, Steady, Elsewhere, Moves

\* A finish or a report keeps the id of its deployment, and no service.
LEMMA MovesFinishing ==
  ASSUME NEW r \in Requests, NEW g \in Request, Moves(r, g), g.pc \in Finishing,
         g.cluster \in Clusters, g.name \in Names, g.dep \in DepIds, g.service = None,
         req[r].pc \notin Arming, g.op \notin {"supervise", "verifyDomain", "verifyJob"}
  PROVE  Calm(r)
<1>1. Labelled(g)
  BY Kinds DEF Labelled
<1>2. QED
  BY <1>1, Kinds DEF Calm, Goes, Fit, Steady, Elsewhere, Moves, Refers

\* A run of the supervisor stays one.
LEMMA MovesSupervising ==
  ASSUME NEW r \in Requests, NEW g \in Request, Moves(r, g), g.pc \in Supervising,
         g.cluster \in Clusters, g.name \in Names, g.op = "supervise"
  PROVE  /\ Goes(r) /\ Elsewhere(r)
         /\ /\ req[r].op = "supervise" /\ g.cluster = req[r].cluster /\ g.name = req[r].name
            /\ req[r].pc \notin Arming /\ g.pc \notin Arming /\ (g.pc \in Unarmed => req[r].pc \in Unarmed)
            => Steady(r)
<1>1. Labelled(g)
  BY Kinds DEF Labelled
<1>2. QED
  BY <1>1, Kinds DEF Goes, Fit, Steady, Elsewhere, Moves

\* A request that goes on, ...
LEMMA Underway ==
  ASSUME Fits, NEW r \in Requests
  PROVE  /\ req \in [Requests -> Request] /\ req[r] \in Request /\ Labelled(req[r])
         /\ req[r].pc \in Plain \cup Finishing =>
              /\ req[r].op \notin {"supervise", "verifyDomain", "verifyJob"}
              /\ req[r].cluster \in Clusters /\ req[r].name \in Names /\ req[r].pc \notin Arming
         /\ req[r].pc \in Supervising =>
              /\ req[r].op = "supervise"
              /\ req[r].cluster \in Clusters /\ req[r].name \in Names
<1>1. req \in [Requests -> Request] /\ req[r] \in Request /\ Labelled(req[r])
  BY DEF Fits
<1>2. QED
  BY <1>1, Kinds DEF Labelled

\* ... at the same row, ...
LEMMA GotoPlain ==
  ASSUME Fits, NEW r \in Requests, NEW p \in Plain, Goto(r, p),
         req[r].pc \in Plain \cup Finishing
  PROVE  Calm(r)
<1> DEFINE g == [req[r] EXCEPT !.pc = p]
<1>1. /\ Moves(r, g)
      /\ req'[r].pc = p /\ req'[r].op = req[r].op /\ req'[r].cluster = req[r].cluster
      /\ req'[r].name = req[r].name /\ req'[r].service = req[r].service
  BY Underway, GotoMoves, Kinds
<1> HIDE DEF g
<1>2. Goes(r) /\ Steady(r) /\ Elsewhere(r)
  BY <1>1, Underway, MovesPlain DEF Moves
<1>3. QED
  BY <1>1, <1>2 DEF Calm, Refers

\* ... at the deployment of a finish, ...
LEMMA GotoFinishing ==
  ASSUME Fits, NEW r \in Requests, NEW p \in Finishing, Goto(r, p), req[r].pc \in Finishing
  PROVE  Calm(r)
<1> DEFINE g == [req[r] EXCEPT !.pc = p]
<1>1. /\ Moves(r, g)
      /\ req'[r].pc = p /\ req'[r].op = req[r].op /\ req'[r].cluster = req[r].cluster
      /\ req'[r].name = req[r].name /\ req'[r].service = req[r].service
      /\ req'[r].dep = req[r].dep
  BY Underway, GotoMoves, Kinds
<1> HIDE DEF g
<1>2. g \in Request /\ g = req'[r]
  BY <1>1 DEF Moves
<1>3. req[r].dep \in DepIds /\ req[r].service = None
  BY Underway DEF Labelled
<1>4. QED
  BY <1>1, <1>2, <1>3, Underway, MovesFinishing

\* ... in a run of the supervisor, ...
LEMMA GotoSupervising ==
  ASSUME Fits, NEW r \in Requests, NEW p \in Supervising, Goto(r, p), req[r].pc \in Supervising
  PROVE  /\ Goes(r) /\ Elsewhere(r) /\ Refers(r)
         /\ req'[r].pc = p /\ req'[r].op = "supervise" /\ req'[r].cluster = req[r].cluster
         /\ req'[r].name = req[r].name
         /\ req[r].pc \notin Arming /\ p \notin Arming /\ (p \in Unarmed => req[r].pc \in Unarmed) => Calm(r)
<1> DEFINE g == [req[r] EXCEPT !.pc = p]
<1>1. /\ Moves(r, g)
      /\ req'[r].pc = p /\ req'[r].op = req[r].op /\ req'[r].cluster = req[r].cluster
      /\ req'[r].name = req[r].name /\ req'[r].service = req[r].service
  BY Underway, GotoMoves, Kinds
<1> HIDE DEF g
<1>2. g \in Request /\ g = req'[r]
  BY <1>1 DEF Moves
<1>3. QED
  BY <1>1, <1>2, Underway, MovesSupervising DEF Calm, Refers

\* ... or with other locals.
LEMMA SetPlain ==
  ASSUME Fits, NEW r \in Requests, NEW g \in Request, NEW p \in Plain, Set(r, g, p),
         g.cluster \in Clusters, g.name \in Names, req[r].pc \notin Arming,
         g.op \notin {"supervise", "verifyDomain", "verifyJob"}
  PROVE  /\ Goes(r) /\ Steady(r) /\ Elsewhere(r)
         /\ req'[r].service = g.service /\ req'[r].cluster = g.cluster
<1> DEFINE h == [g EXCEPT !.pc = p]
<1>1. /\ Moves(r, h)
      /\ req'[r].pc = p /\ req'[r].op = g.op /\ req'[r].cluster = g.cluster
      /\ req'[r].name = g.name /\ req'[r].service = g.service
  BY Underway, SetMoves, Kinds
<1> HIDE DEF h
<1>2. h \in Request /\ h = req'[r]
  BY <1>1 DEF Moves
<1>3. QED
  BY <1>1, <1>2, MovesPlain

\* The same of a finish or a report.
LEMMA SetFinishing ==
  ASSUME Fits, NEW r \in Requests, NEW g \in Request, NEW p \in Finishing, Set(r, g, p),
         g.cluster \in Clusters, g.name \in Names, g.dep \in DepIds, g.service = None,
         req[r].pc \notin Arming, g.op \notin {"supervise", "verifyDomain", "verifyJob"}
  PROVE  Calm(r)
<1> DEFINE h == [g EXCEPT !.pc = p]
<1>1. /\ Moves(r, h)
      /\ req'[r].pc = p /\ req'[r].op = g.op /\ req'[r].cluster = g.cluster
      /\ req'[r].name = g.name /\ req'[r].service = g.service /\ req'[r].dep = g.dep
  BY Underway, SetMoves, Kinds
<1> HIDE DEF h
<1>2. h \in Request /\ h = req'[r]
  BY <1>1 DEF Moves
<1>3. QED
  BY <1>1, <1>2, MovesFinishing

\* The same of a run of the supervisor.
LEMMA SetSupervising ==
  ASSUME Fits, NEW r \in Requests, NEW g \in Request, NEW p \in Supervising, Set(r, g, p),
         req[r].pc \in Supervising, g.op = "supervise", g.cluster = req[r].cluster,
         g.name = req[r].name, req[r].pc \notin Arming, p \notin Unarmed, p \notin Arming
  PROVE  /\ Goes(r) /\ Steady(r) /\ Elsewhere(r)
         /\ req'[r].service = g.service /\ req'[r].cluster = g.cluster
<1> DEFINE h == [g EXCEPT !.pc = p]
<1>1. /\ Moves(r, h)
      /\ req'[r].pc = p /\ req'[r].op = g.op /\ req'[r].cluster = g.cluster
      /\ req'[r].name = g.name /\ req'[r].service = g.service
  BY Underway, SetMoves, Kinds
<1> HIDE DEF h
<1>2. h \in Request /\ h = req'[r]
  BY <1>1 DEF Moves
<1>3. QED
  BY <1>1, <1>2, Underway, MovesSupervising

\* A request begins, ...
LEMMA BeginMoves ==
  ASSUME req \in [Requests -> Request], NEW r \in Requests, NEW op \in Operations,
         NEW c \in Clusters, NEW n \in Rows(Names), NEW p \in Labels, Begin(r, op, c, n, p)
  PROVE  /\ Moves(r, req'[r]) /\ req[r].pc = "idle"
         /\ req'[r].pc = p /\ req'[r].op = op /\ req'[r].cluster = c
         /\ req'[r].name = n /\ req'[r].service = None /\ req'[r].dep = None
<1> DEFINE g == [Idle EXCEPT !.op = op, !.cluster = c, !.name = n]
<1>1. Set(r, g, p) /\ req[r].pc = "idle"
  BY DEF Begin, At
<1>2. /\ g \in Request /\ g.op = op /\ g.cluster = c /\ g.name = n
      /\ g.service = None /\ g.dep = None
  <2> DEFINE O == Rows(Operations)  L == Labels  C == Rows(Clusters)
             N == Rows(Names)  S == Rows(ServiceIds)  D == Rows(DepIds)  B == BOOLEAN
  <2>1. /\ Request = [op : O, pc : L, cluster : C, name : N, service : S, dep : D, asked : N,
                      payload : B, seen : B]
        /\ op \in O /\ c \in C /\ n \in N
    BY DEF Request, Rows
  <2>2. Idle \in Request /\ Idle.service = None /\ Idle.dep = None
    BY IdleFits DEF Fit, Idle
  <2> HIDE DEF O, L, C, N, S, D, B
  <2>3. QED
    BY <2>1, <2>2
<1> HIDE DEF g
<1>3. /\ Moves(r, [g EXCEPT !.pc = p])
      /\ req'[r].pc = p /\ req'[r].op = g.op /\ req'[r].cluster = g.cluster
      /\ req'[r].name = g.name /\ req'[r].service = g.service /\ req'[r].dep = g.dep
  BY <1>1, <1>2, SetMoves
<1>4. Moves(r, req'[r])
  BY <1>3 DEF Moves
<1>5. QED
  BY <1>1, <1>2, <1>3, <1>4

\* ... on the row of a service, ...
LEMMA BeginOnMoves ==
  ASSUME req \in [Requests -> Request], services \in [Names -> Rows(ServiceRow)],
         NEW r \in Requests, NEW op \in Operations, NEW n \in Names, NEW p \in Labels,
         BeginOn(r, op, n, p)
  PROVE  /\ Moves(r, req'[r]) /\ req[r].pc = "idle"
         /\ req'[r].pc = p /\ req'[r].op = op /\ req'[r].name = n
         /\ services[n] \in ServiceRow /\ services[n] # None
         /\ req'[r].cluster = services[n].cluster /\ req'[r].cluster \in Clusters
         /\ req'[r].service = services[n].id /\ req'[r].dep = services[n].dep
<1> DEFINE g == [Idle EXCEPT !.op = op, !.cluster = services[n].cluster, !.name = n,
                             !.service = services[n].id, !.dep = services[n].dep]
<1>1. Set(r, g, p) /\ req[r].pc = "idle" /\ services[n] # None
  BY DEF BeginOn, At
<1>2. services[n] \in ServiceRow
  BY <1>1 DEF Rows
<1>3. /\ services[n].id \in ServiceIds /\ services[n].cluster \in Clusters
      /\ services[n].dep \in Rows(DepIds)
  BY <1>2 DEF ServiceRow
<1>4. /\ g \in Request /\ g.op = op /\ g.cluster = services[n].cluster /\ g.name = n
      /\ g.service = services[n].id /\ g.dep = services[n].dep
  <2> DEFINE O == Rows(Operations)  L == Labels  C == Rows(Clusters)
             N == Rows(Names)  S == Rows(ServiceIds)  D == Rows(DepIds)  B == BOOLEAN
  <2>1. /\ Request = [op : O, pc : L, cluster : C, name : N, service : S, dep : D, asked : N,
                      payload : B, seen : B]
        /\ op \in O /\ services[n].cluster \in C /\ n \in N
        /\ services[n].id \in S /\ services[n].dep \in D
    BY <1>3 DEF Request, Rows
  <2>2. Idle \in Request
    BY IdleFits DEF Fit
  <2> HIDE DEF O, L, C, N, S, D, B
  <2>3. QED
    BY <2>1, <2>2
<1> HIDE DEF g
<1>5. /\ Moves(r, [g EXCEPT !.pc = p])
      /\ req'[r].pc = p /\ req'[r].op = g.op /\ req'[r].cluster = g.cluster
      /\ req'[r].name = g.name /\ req'[r].service = g.service /\ req'[r].dep = g.dep
  BY <1>1, <1>4, SetMoves
<1>6. Moves(r, req'[r])
  BY <1>5 DEF Moves
<1>7. QED
  BY <1>1, <1>2, <1>3, <1>4, <1>5, <1>6

\* A request that begins.
LEMMA BeginPlain ==
  ASSUME Fits, NEW r \in Requests, NEW op \in Operations \ {"supervise", "verifyDomain", "verifyJob"},
         NEW c \in Clusters, NEW n \in Names, NEW p \in Plain, Begin(r, op, c, n, p)
  PROVE  Calm(r)
<1>1. n \in Rows(Names) /\ p \in Labels
  BY InRows, Kinds
<1>2. /\ Moves(r, req'[r]) /\ req[r].pc = "idle"
      /\ req'[r].pc = p /\ req'[r].op = op /\ req'[r].cluster = c
      /\ req'[r].name = n /\ req'[r].service = None
  BY <1>1, Underway, BeginMoves
<1>3. req'[r] \in Request
  BY <1>2 DEF Moves
<1>4. QED
  BY <1>2, <1>3, MovesPlain DEF Calm, Refers

\* ... which names the cluster and the service it holds.
LEMMA BeginOnPlain ==
  ASSUME Fits, RowsTyped, NEW r \in Requests,
         NEW op \in Operations \ {"supervise", "verifyDomain", "verifyJob"},
         NEW n \in Names, NEW p \in Plain, BeginOn(r, op, n, p)
  PROVE  Calm(r)
<1>1. p \in Labels
  BY Kinds
<1>2. /\ Moves(r, req'[r]) /\ req[r].pc = "idle"
      /\ req'[r].pc = p /\ req'[r].op = op /\ req'[r].name = n
      /\ services[n] # None
      /\ req'[r].cluster = services[n].cluster /\ req'[r].cluster \in Clusters
      /\ req'[r].service = services[n].id
  BY <1>1, Underway, BeginOnMoves DEF RowsTyped
<1>3. req'[r] \in Request
  BY <1>2 DEF Moves
<1>4. QED
  BY <1>2, <1>3, MovesPlain DEF Calm, Refers

(* What a request reads into its locals. *)

\* A request with one of its locals replaced is a request: what it has seen, ...
LEMMA WithSeen ==
  ASSUME NEW g \in Request, NEW b \in BOOLEAN
  PROVE  /\ [g EXCEPT !.seen = b] \in Request
         /\ [g EXCEPT !.seen = b].seen = b
         /\ [g EXCEPT !.seen = b].op = g.op
         /\ [g EXCEPT !.seen = b].cluster = g.cluster
         /\ [g EXCEPT !.seen = b].name = g.name
         /\ [g EXCEPT !.seen = b].service = g.service
         /\ [g EXCEPT !.seen = b].dep = g.dep
<1> DEFINE O == Rows(Operations)  L == Labels  C == Rows(Clusters)
           N == Rows(Names)  S == Rows(ServiceIds)  D == Rows(DepIds)  B == BOOLEAN
<1>1. /\ Request = [op : O, pc : L, cluster : C, name : N, service : S, dep : D, asked : N,
                    payload : B, seen : B]
      /\ b \in B
  BY DEF Request, Rows
<1> HIDE DEF O, L, C, N, S, D, B
<1>2. QED
  BY <1>1

\* ... what it took from the lobby, ...
LEMMA WithPayload ==
  ASSUME NEW g \in Request, NEW b \in BOOLEAN
  PROVE  /\ [g EXCEPT !.payload = b] \in Request
         /\ [g EXCEPT !.payload = b].payload = b
         /\ [g EXCEPT !.payload = b].op = g.op
         /\ [g EXCEPT !.payload = b].cluster = g.cluster
         /\ [g EXCEPT !.payload = b].name = g.name
         /\ [g EXCEPT !.payload = b].service = g.service
         /\ [g EXCEPT !.payload = b].dep = g.dep
<1> DEFINE O == Rows(Operations)  L == Labels  C == Rows(Clusters)
           N == Rows(Names)  S == Rows(ServiceIds)  D == Rows(DepIds)  B == BOOLEAN
<1>1. /\ Request = [op : O, pc : L, cluster : C, name : N, service : S, dep : D, asked : N,
                    payload : B, seen : B]
      /\ b \in B
  BY DEF Request, Rows
<1> HIDE DEF O, L, C, N, S, D, B
<1>2. QED
  BY <1>1

\* ... what it asked for there, ...
LEMMA WithoutAsked ==
  ASSUME NEW g \in Request
  PROVE  /\ [g EXCEPT !.asked = None] \in Request
         /\ [g EXCEPT !.asked = None].op = g.op
         /\ [g EXCEPT !.asked = None].cluster = g.cluster
         /\ [g EXCEPT !.asked = None].name = g.name
         /\ [g EXCEPT !.asked = None].service = g.service
         /\ [g EXCEPT !.asked = None].dep = g.dep
<1> DEFINE O == Rows(Operations)  L == Labels  C == Rows(Clusters)
           N == Rows(Names)  S == Rows(ServiceIds)  D == Rows(DepIds)  B == BOOLEAN
<1>1. /\ Request = [op : O, pc : L, cluster : C, name : N, service : S, dep : D, asked : N,
                    payload : B, seen : B]
      /\ None \in N
  BY DEF Request, Rows
<1> HIDE DEF O, L, C, N, S, D, B
<1>2. QED
  BY <1>1

\* ... the deployment ...
LEMMA WithDep ==
  ASSUME NEW g \in Request, NEW d \in Rows(DepIds)
  PROVE  /\ [g EXCEPT !.dep = d] \in Request
         /\ [g EXCEPT !.dep = d].dep = d
         /\ [g EXCEPT !.dep = d].op = g.op
         /\ [g EXCEPT !.dep = d].cluster = g.cluster
         /\ [g EXCEPT !.dep = d].name = g.name
         /\ [g EXCEPT !.dep = d].service = g.service
<1> DEFINE O == Rows(Operations)  L == Labels  C == Rows(Clusters)
           N == Rows(Names)  S == Rows(ServiceIds)  D == Rows(DepIds)  B == BOOLEAN
<1>1. /\ Request = [op : O, pc : L, cluster : C, name : N, service : S, dep : D, asked : N,
                    payload : B, seen : B]
      /\ d \in D
  BY DEF Request, Rows
<1> HIDE DEF O, L, C, N, S, D, B
<1>2. QED
  BY <1>1

\* ... or the service it holds.
LEMMA WithService ==
  ASSUME NEW g \in Request, NEW s \in Rows(ServiceIds)
  PROVE  /\ [g EXCEPT !.service = s] \in Request
         /\ [g EXCEPT !.service = s].service = s
         /\ [g EXCEPT !.service = s].op = g.op
         /\ [g EXCEPT !.service = s].cluster = g.cluster
         /\ [g EXCEPT !.service = s].name = g.name
         /\ [g EXCEPT !.service = s].dep = g.dep
<1> DEFINE O == Rows(Operations)  L == Labels  C == Rows(Clusters)
           N == Rows(Names)  S == Rows(ServiceIds)  D == Rows(DepIds)  B == BOOLEAN
<1>1. /\ Request = [op : O, pc : L, cluster : C, name : N, service : S, dep : D, asked : N,
                    payload : B, seen : B]
      /\ s \in S
  BY DEF Request, Rows
<1> HIDE DEF O, L, C, N, S, D, B
<1>2. QED
  BY <1>1

\* Rows that are there.
LEMMA RowsThere ==
  ASSUME RowsTyped
  PROVE  /\ \A n \in Names : services[n] # None =>
              /\ services[n] \in ServiceRow /\ services[n].id \in ServiceIds
              /\ services[n].cluster \in Clusters /\ services[n].dep \in Rows(DepIds)
         /\ \A n \in Names : deployments[n] # None =>
              /\ deployments[n] \in DepRow /\ deployments[n].id \in DepIds
              /\ deployments[n].cluster \in Clusters
BY DEF RowsTyped, Rows, ServiceRow, DepRow

(* --- Rows of services and deployments, step by step -------------------- *)

\* POST /deployments/finish begins.
LEMMA FinishCalm ==
  ASSUME Fits, NEW r \in Requests, NEW c \in Clusters, NEW n \in Names, NEW id \in DepIds,
         Finish(r, c, n, id)
  PROVE  Calm(r)
<1> DEFINE g == [Idle EXCEPT !.op = "finish", !.cluster = c, !.name = n, !.dep = id, !.asked = n]
<1>1. Set(r, g, "getDeployment") /\ req[r].pc = "idle"
  BY DEF Finish, Submit, At
<1>2. "finish" \in Operations
  BY DEF Operations
<1>3. /\ g \in Request /\ g.op = "finish" /\ g.cluster = c /\ g.name = n /\ g.dep = id
      /\ g.service = None
  <2> DEFINE O == Rows(Operations)  L == Labels  C == Rows(Clusters)
             N == Rows(Names)  S == Rows(ServiceIds)  D == Rows(DepIds)  B == BOOLEAN
  <2>1. /\ Request = [op : O, pc : L, cluster : C, name : N, service : S, dep : D, asked : N,
                      payload : B, seen : B]
        /\ "finish" \in O /\ c \in C /\ n \in N /\ id \in D
    BY <1>2 DEF Request, Rows
  <2>2. Idle \in Request /\ Idle.service = None
    BY IdleFits DEF Fit
  <2> HIDE DEF O, L, C, N, S, D, B
  <2>3. QED
    BY <2>1, <2>2
<1> HIDE DEF g
<1>4. QED
  BY <1>1, <1>3, SetFinishing, Known

\* The report of a node begins.
LEMMA ReportCalm ==
  ASSUME Fits, NEW r \in Requests, NEW c \in Clusters, NEW n \in Names, NEW id \in DepIds,
         Report(r, c, n, id)
  PROVE  Calm(r)
<1> DEFINE g == [Idle EXCEPT !.op = "report", !.cluster = c, !.name = n, !.dep = id, !.asked = n]
<1>1. Set(r, g, "getPayload") /\ req[r].pc = "idle"
  BY DEF Report, Submit, At
<1>2. "report" \in Operations
  BY DEF Operations
<1>3. /\ g \in Request /\ g.op = "report" /\ g.cluster = c /\ g.name = n /\ g.dep = id
      /\ g.service = None
  <2> DEFINE O == Rows(Operations)  L == Labels  C == Rows(Clusters)
             N == Rows(Names)  S == Rows(ServiceIds)  D == Rows(DepIds)  B == BOOLEAN
  <2>1. /\ Request = [op : O, pc : L, cluster : C, name : N, service : S, dep : D, asked : N,
                      payload : B, seen : B]
        /\ "report" \in O /\ c \in C /\ n \in N /\ id \in D
    BY <1>2 DEF Request, Rows
  <2>2. Idle \in Request /\ Idle.service = None
    BY IdleFits DEF Fit
  <2> HIDE DEF O, L, C, N, S, D, B
  <2>3. QED
    BY <2>1, <2>2
<1> HIDE DEF g
<1>4. QED
  BY <1>1, <1>3, SetFinishing, Known

\* DELETE /deployments/:id begins.
LEMMA RemoveDeploymentCalm ==
  ASSUME Fits, RowsTyped, NEW r \in Requests, NEW c \in Clusters, NEW n \in Names,
         RemoveDeployment(r, c, n)
  PROVE  Calm(r)
<1> DEFINE id == deployments[n].id
           g == [Idle EXCEPT !.op = "removeDeployment", !.cluster = c, !.name = n, !.dep = id]
<1>1. Set(r, g, "deleteDeployment") /\ req[r].pc = "idle" /\ "removeDeployment" \in Operations
  BY DEF RemoveDeployment, At, Operations
<1>2. id \in DepIds
  BY RowsThere DEF RemoveDeployment
<1> HIDE DEF id
<1>3. /\ g \in Request /\ g.op = "removeDeployment" /\ g.cluster = c /\ g.name = n
      /\ g.service = None
  <2> DEFINE O == Rows(Operations)  L == Labels  C == Rows(Clusters)
             N == Rows(Names)  S == Rows(ServiceIds)  D == Rows(DepIds)  B == BOOLEAN
  <2>1. /\ Request = [op : O, pc : L, cluster : C, name : N, service : S, dep : D, asked : N,
                      payload : B, seen : B]
        /\ "removeDeployment" \in O /\ c \in C /\ n \in N /\ id \in D
    BY <1>1, <1>2 DEF Request, Rows
  <2>2. Idle \in Request /\ Idle.service = None
    BY IdleFits DEF Fit
  <2> HIDE DEF O, L, C, N, S, D, B
  <2>3. QED
    BY <2>1, <2>2
<1> HIDE DEF g
<1>4. QED
  BY <1>1, <1>3, SetPlain, Known DEF Calm, Refers

\* The row of the deployment tells the name and the cluster.
LEMMA GetDeploymentCalm ==
  ASSUME Fits, RowsTyped, NEW r \in Requests, GetDeployment(r)
  PROVE  Calm(r)
<1>1. /\ req[r].pc = "getDeployment" /\ req[r].pc \in Finishing
      /\ req[r].dep \in DepIds /\ req[r].service = None
  BY Underway, Known DEF GetDeployment, At, Labelled
<1>2. CASE Goto(r, "getPayload")
  BY <1>1, <1>2, Known, GotoFinishing
<1>3. CASE ~Goto(r, "getPayload")
  <2>1. PICK m \in nameOfDep(req[r].dep) :
          Set(r, [req[r] EXCEPT !.name = m, !.cluster = deployments[m].cluster, !.seen = TRUE],
              "getPayload")
    BY <1>3 DEF GetDeployment
  <2>2. m \in Names /\ deployments[m].cluster \in Clusters
    BY RowsThere DEF nameOfDep
  <2> DEFINE c == deployments[m].cluster
             b == TRUE
             g == [req[r] EXCEPT !.name = m, !.cluster = c, !.seen = b]
  <2>3. Set(r, g, "getPayload") /\ c \in Clusters /\ b \in BOOLEAN
    BY <2>1, <2>2
  <2> HIDE DEF c, b
  <2>4. /\ g \in Request /\ g.op = req[r].op /\ g.cluster = c /\ g.name = m
        /\ g.dep = req[r].dep /\ g.service = req[r].service
    <3> DEFINE O == Rows(Operations)  L == Labels  C == Rows(Clusters)
               N == Rows(Names)  S == Rows(ServiceIds)  D == Rows(DepIds)  B == BOOLEAN
    <3>1. /\ Request = [op : O, pc : L, cluster : C, name : N, service : S, dep : D, asked : N,
                        payload : B, seen : B]
          /\ c \in C /\ m \in N /\ b \in B
      BY <2>2, <2>3 DEF Request, Rows
    <3>2. req[r] \in Request
      BY Underway
    <3> HIDE DEF O, L, C, N, S, D, B
    <3>3. QED
      BY <3>1, <3>2
  <2> HIDE DEF g
  <2>5. QED
    BY <1>1, <2>2, <2>3, <2>4, Underway, Known, SetFinishing
<1>4. QED
  BY <1>2, <1>3

\* The payload is read, ...
LEMMA GetPayloadCalm ==
  ASSUME Fits, NEW r \in Requests, GetPayload(r)
  PROVE  Calm(r)
<1> DEFINE b == req[r].asked \in lobby[req[r].cluster]
           g == [req[r] EXCEPT !.payload = b]
<1>1. /\ req[r].pc = "getPayload" /\ req[r].pc \in Finishing /\ Set(r, g, "deletePayload")
      /\ req[r].dep \in DepIds /\ req[r].service = None
  BY Underway, Known DEF GetPayload, At, Labelled
<1>2. b \in BOOLEAN
  OBVIOUS
<1> HIDE DEF b
<1>3. /\ g \in Request /\ g.op = req[r].op /\ g.cluster = req[r].cluster /\ g.name = req[r].name
      /\ g.dep = req[r].dep /\ g.service = req[r].service
  BY <1>2, Underway, WithPayload
<1> HIDE DEF g
<1>4. QED
  BY <1>1, <1>3, Underway, SetFinishing, Known

\* ... and deleted.
LEMMA DeletePayloadCalm ==
  ASSUME Fits, NEW r \in Requests, DeletePayload(r)
  PROVE  Calm(r)
<1> DEFINE g == [req[r] EXCEPT !.asked = None]
<1>1. /\ req[r].pc = "deletePayload" /\ req[r].pc \in Finishing
      /\ Set(r, g, "upsertService") \/ Set(r, g, "upsertDeployment")
      /\ req[r].dep \in DepIds /\ req[r].service = None
  BY Underway, Known DEF DeletePayload, At, Labelled
<1>2. /\ g \in Request /\ g.op = req[r].op /\ g.cluster = req[r].cluster /\ g.name = req[r].name
      /\ g.dep = req[r].dep /\ g.service = req[r].service
  BY Underway, WithoutAsked
<1> HIDE DEF g
<1>3. CASE Set(r, g, "upsertService")
  BY <1>1, <1>2, <1>3, Underway, SetPlain, Known DEF Calm, Refers
<1>4. CASE Set(r, g, "upsertDeployment")
  BY <1>1, <1>2, <1>4, Underway, SetFinishing, Known
<1>5. QED
  BY <1>1, <1>3, <1>4

\* The row keeps its id, if there is one.
LEMMA UpsertDeploymentCalm ==
  ASSUME Fits, RowsTyped, NEW r \in Requests, UpsertDeployment(r)
  PROVE  Calm(r)
<1>1. req[r].pc = "upsertDeployment" /\ req[r].pc \in Finishing /\ req[r].pc \notin Arming
  BY Known DEF UpsertDeployment, At
<1>2. CASE Return(r)
  BY <1>1, <1>2, ReturnCalm
<1>3. CASE ~Return(r)
  <2>1. PICK finished \in BOOLEAN :
          Set(r, [req[r] EXCEPT !.dep = upserted(req[r].cluster, req[r].name, req[r].dep, finished).id],
              IF req[r].op = "report" THEN "findService" ELSE "upsertService")
    BY <1>3 DEF UpsertDeployment
  <2> DEFINE id == upserted(req[r].cluster, req[r].name, req[r].dep, finished).id
             g == [req[r] EXCEPT !.dep = id]
  <2>2. id \in Rows(DepIds)
    BY <1>1, Underway, RowsThere, InRows DEF upserted, Labelled, DepRow
  <2>3. \E p \in Plain : Set(r, g, p)
    BY <2>1, Known
  <2> HIDE DEF id
  <2>4. /\ g \in Request /\ g.op = req[r].op /\ g.cluster = req[r].cluster
        /\ g.name = req[r].name /\ g.service = req[r].service
    BY <2>2, Underway, WithDep
  <2> HIDE DEF g
  <2>5. QED
    BY <1>1, <2>3, <2>4, Underway, SetPlain DEF Calm, Refers, Labelled
<1>4. QED
  BY <1>2, <1>3

\* finish: the service it hangs the settings on is the row it has just written.
LEMMA UpsertFinishedMoves ==
  ASSUME Fits, RowsTyped, NEW r \in Requests, UpsertFinished(r)
  PROVE  /\ Goes(r) /\ Steady(r) /\ Elsewhere(r) /\ req'[r].cluster = req[r].cluster
         /\ \/ Refers(r) /\ UNCHANGED <<services, lapsed>>
            \/ /\ mayWrite(req[r].cluster, req[r].name, req[r].dep)
               /\ UpsertService(req[r].cluster, req[r].name, req[r].dep)
               /\ req'[r].service = services'[req[r].name].id
         /\ UNCHANGED <<mix, deployments, settings, lobby>>
<1>1. /\ req[r].pc = "upsertService" /\ req[r].pc \in Plain /\ req[r].pc \notin Arming
      /\ "saveSettings" \in Plain
      /\ UNCHANGED <<mix, deployments, settings, lobby>>
  BY Known DEF UpsertFinished, At
<1>2. CASE Goto(r, "saveSettings") /\ UNCHANGED <<services, lapsed>>
  BY <1>1, <1>2, GotoPlain, GotoMoves, Underway, Kinds DEF Calm
<1>3. CASE ~(Goto(r, "saveSettings") /\ UNCHANGED <<services, lapsed>>)
  <2>1. /\ mayWrite(req[r].cluster, req[r].name, req[r].dep)
        /\ UpsertService(req[r].cluster, req[r].name, req[r].dep)
        /\ Set(r, [req[r] EXCEPT !.service = services'[req[r].name].id], "saveSettings")
    BY <1>3 DEF UpsertFinished
  <2> DEFINE id == services'[req[r].name].id
             g == [req[r] EXCEPT !.service = id]
  <2>2. id \in Rows(ServiceIds)
    <3>1. PICK s \in IF services[req[r].name] = None THEN FreshService ELSE {services[req[r].name].id} :
            services' = [services EXCEPT ![req[r].name] =
              [id |-> s, cluster |-> req[r].cluster, dep |-> link(req[r].name, req[r].dep),
               iced |-> services[req[r].name] # None /\ services[req[r].name].iced]]
      BY <2>1 DEF UpsertService, WriteService
    <3>2. s \in ServiceIds
      BY <1>1, <3>1, Underway, RowsThere DEF FreshService
    <3>3. id = s
      BY <1>1, <3>1, Underway DEF RowsTyped
    <3>4. QED
      BY <3>2, <3>3, InRows
  <2>3. Set(r, g, "saveSettings")
    BY <2>1
  <2> HIDE DEF id
  <2>4. /\ g \in Request /\ g.op = req[r].op /\ g.cluster = req[r].cluster
        /\ g.name = req[r].name /\ g.service = id
    BY <2>2, Underway, WithService
  <2> HIDE DEF g
  <2>5. Goes(r) /\ Steady(r) /\ Elsewhere(r) /\ req'[r].service = id /\ req'[r].cluster = req[r].cluster
    BY <1>1, <2>3, <2>4, Underway, SetPlain
  <2>6. QED
    BY <1>1, <2>1, <2>5 DEF id
<1>4. QED
  BY <1>2, <1>3

\* The service a report settles on is of its cluster.
LEMMA FindServiceCalm ==
  ASSUME Fits, RowsTyped, NEW r \in Requests, FindService(r)
  PROVE  Calm(r)
<1> DEFINE found == foundIn(req[r].cluster, req[r].name)
           id == IF found THEN services[req[r].name].id ELSE None
           g == [req[r] EXCEPT !.service = id]
<1>1. /\ req[r].pc = "findService" /\ req[r].pc \in Plain /\ req[r].pc \notin Arming
      /\ "saveSettings" \in Plain /\ Set(r, g, "saveSettings")
  BY Known DEF FindService, At
<1>2. /\ id \in Rows(ServiceIds)
      /\ id = None \/ \E n \in Names : /\ services[n] # None /\ id = services[n].id
                                       /\ services[n].cluster = req[r].cluster
  BY <1>1, Underway, RowsThere, InRows DEF foundIn
<1> HIDE DEF id
<1>3. /\ g \in Request /\ g.op = req[r].op /\ g.cluster = req[r].cluster
      /\ g.name = req[r].name /\ g.service = id
  BY <1>2, Underway, WithService
<1> HIDE DEF g
<1>4. QED
  BY <1>1, <1>2, <1>3, Underway, SetPlain DEF Calm, Refers

\* PATCH /services/:id looks for the deployment of its service.
LEMMA GetLinkedCalm ==
  ASSUME Fits, NEW r \in Requests, GetLinked(r)
  PROVE  Calm(r)
<1> DEFINE g == [req[r] EXCEPT !.seen = nameOfDep(req[r].dep) # {}]
<1>1. /\ req[r].pc = "getLinked" /\ req[r].pc \in Plain /\ req[r].pc \notin Arming
      /\ "replaceSettings" \in Plain
      /\ Return(r) \/ Set(r, g, "replaceSettings")
  BY Known DEF GetLinked, At
<1>2. /\ g \in Request /\ g.op = req[r].op /\ g.cluster = req[r].cluster
      /\ g.name = req[r].name /\ g.service = req[r].service
  BY ZenonT(40), Underway, WithSeen
<1> HIDE DEF g
<1>3. QED
  BY <1>1, <1>2, Underway, SetPlain, ReturnCalm DEF Calm, Refers

\* The steps of requests that write rows.
LEMMA RecordsCalm ==
  ASSUME Fits, RowsTyped, NEW r \in Requests
  PROVE  /\ \A c \in Clusters, n \in Names : Create(r, c, n) => Calm(r)
         /\ NameTaken(r) => Calm(r)
         /\ CheckLimit(r) => Calm(r)
         /\ Reserve(r) => Calm(r)
         /\ SavePayload(r) => Calm(r)
         /\ Dispatch(r) => Calm(r)
         /\ Enqueue(r) => Calm(r)
         /\ NotifyPending(r) => Calm(r)
         /\ PatchConfig(r) => Calm(r)
         /\ InsertPending(r) => Calm(r)
         /\ \A n \in Names : PatchService(r, n) => Calm(r)
         /\ SaveSettings(r) => Calm(r)
         /\ ReplaceSettings(r) => Calm(r)
         /\ DeleteDeployment(r) => Calm(r)
         /\ DeleteService(r) => Calm(r)
<1>0. req \in [Requests -> Request] /\ req[r] \in Request /\ Labelled(req[r])
  BY DEF Fits
<1>1. \A c \in Clusters, n \in Names : Create(r, c, n) => Calm(r)
  BY <1>0, Known, BeginPlain
     DEF Create, Operations, At
<1>2. NameTaken(r) => Calm(r)
  BY <1>0, Known, GotoPlain, ReturnCalm
     DEF NameTaken, At
<1>3. CheckLimit(r) => Calm(r)
  BY <1>0, Known, GotoPlain, ReturnCalm
     DEF CheckLimit, Ways, At
<1>4. Reserve(r) => Calm(r)
  BY <1>0, Known, GotoPlain, ReturnCalm
     DEF Reserve, At
<1>5. SavePayload(r) => Calm(r)
  BY <1>0, Known, GotoPlain, ReturnCalm
     DEF SavePayload, At
<1>6. Dispatch(r) => Calm(r)
  BY <1>0, Known, GotoPlain, ReturnCalm
     DEF Dispatch, At
<1>7. Enqueue(r) => Calm(r)
  BY <1>0, Known, GotoPlain, ReturnCalm
     DEF Enqueue, At
<1>8. NotifyPending(r) => Calm(r)
  BY <1>0, Known, GotoPlain, ReturnCalm
     DEF NotifyPending, At
<1>9. PatchConfig(r) => Calm(r)
  BY <1>0, Known, GotoPlain, ReturnCalm
     DEF PatchConfig, At
<1>10. InsertPending(r) => Calm(r)
  BY <1>0, Known, GotoPlain, ReturnCalm
     DEF InsertPending, At
<1>11. \A n \in Names : PatchService(r, n) => Calm(r)
  BY <1>0, Known, BeginOnPlain
     DEF PatchService, Operations, At
<1>12. SaveSettings(r) => Calm(r)
  BY <1>0, Known, ReturnCalm
     DEF SaveSettings, At
<1>13. ReplaceSettings(r) => Calm(r)
  BY <1>0, Known, GotoPlain, ReturnCalm
     DEF ReplaceSettings, At
<1>14. DeleteDeployment(r) => Calm(r)
  BY <1>0, Known, ReturnCalm
     DEF DeleteDeployment, At
<1>15. DeleteService(r) => Calm(r)
  BY <1>0, Known, GotoPlain, ReturnCalm
     DEF DeleteService, At
<1>16. QED
  BY <1>1, <1>2, <1>3, <1>4, <1>5, <1>6, <1>7, <1>8, <1>9, <1>10, <1>11, <1>12, <1>13, <1>14,
     <1>15

(* --- Flags, routes and the supervisor, step by step -------------------- *)

\* Which steps of the supervisor are before the start of the cooldown.
LEMMA Cold ==
  /\ "aggregate" \notin Unarmed /\ "workloads" \notin Unarmed
  /\ "listServices" \notin Unarmed /\ "sleepingFlag" \notin Unarmed
  /\ "settleFlag" \notin Unarmed /\ "stubRoute" \notin Unarmed
  /\ "deletedFlag" \notin Unarmed /\ "findDeployment" \notin Unarmed
  /\ "createService" \notin Unarmed /\ "registerRoute" \notin Unarmed
  /\ "compareRoute" \notin Unarmed /\ "awake" \notin Unarmed
  /\ "putRoute" \notin Unarmed /\ "cooldown" \notin Unarmed
  /\ "loadingMode" \notin Unarmed
  /\ "mayReprovision" \in Unarmed /\ "findBlueprint" \in Unarmed
  /\ "sendDeploy" \in Unarmed /\ "enqueueDeploy" \in Unarmed
  /\ "recordBuild" \in Unarmed /\ "arm" \in Unarmed
BY DEF Unarmed

\* None of those a name goes on to once its flag is settled.
LEMMA AfterFlags ==
  ASSUME NEW q
  PROVE  afterFlags(q) \in Supervising /\ afterFlags(q) \notin Unarmed
BY Known, Cold DEF afterFlags

\* superviseCluster collects the workloads of the cluster, ...
LEMMA AggregateCalm ==
  ASSUME Fits, NEW r \in Requests, Aggregate(r)
  PROVE  Calm(r)
<1> DEFINE b == ownsDeployment(req[r].cluster, req[r].name)
           g == [req[r] EXCEPT !.seen = b]
<1>1. /\ req[r].pc = "aggregate" /\ req[r].pc \in Supervising /\ req[r].pc \notin Arming
      /\ "workloads" \in Supervising /\ "workloads" \notin Unarmed
      /\ Return(r) \/ Set(r, g, "workloads")
  BY Known, Cold DEF Aggregate, At
<1>2. b \in BOOLEAN
  BY DEF ownsDeployment
<1> HIDE DEF b
<1>3. /\ g \in Request /\ g.op = req[r].op /\ g.cluster = req[r].cluster
      /\ g.name = req[r].name /\ g.service = req[r].service
  BY <1>2, Underway, WithSeen
<1> HIDE DEF g
<1>4. QED
  BY <1>1, <1>3, Underway, SetSupervising, ReturnCalm DEF Calm, Refers

\* ... reads what the node reports, ...
LEMMA WorkloadsCalm ==
  ASSUME Fits, NEW r \in Requests, Workloads(r)
  PROVE  Calm(r)
<1> DEFINE b == req[r].seen /\ req[r].name \in reported
           g == [req[r] EXCEPT !.seen = b]
<1>1. /\ req[r].pc = "workloads" /\ req[r].pc \in Supervising /\ req[r].pc \notin Arming
      /\ "listServices" \in Supervising /\ "listServices" \notin Unarmed
      /\ Set(r, g, "listServices")
  BY Known, Cold DEF Workloads, At
<1>2. b \in BOOLEAN
  OBVIOUS
<1> HIDE DEF b
<1>3. /\ g \in Request /\ g.op = req[r].op /\ g.cluster = req[r].cluster
      /\ g.name = req[r].name /\ g.service = req[r].service
  BY <1>2, Underway, WithSeen
<1> HIDE DEF g
<1>4. QED
  BY <1>1, <1>3, Underway, SetSupervising DEF Calm, Refers

\* ... lists the rows ...
LEMMA ListServicesCalm ==
  ASSUME Fits, RowsTyped, NEW r \in Requests, ListServices(r)
  PROVE  Calm(r)
<1> DEFINE s == services[req[r].name].id
           d == services[req[r].name].dep
           g == [req[r] EXCEPT !.service = s, !.dep = d]
<1>1. /\ req[r].pc = "listServices" /\ req[r].pc \in Supervising /\ req[r].pc \notin Arming
      /\ "sleepingFlag" \in Supervising /\ "sleepingFlag" \notin Unarmed
      /\ "deletedFlag" \in Supervising /\ "deletedFlag" \notin Unarmed /\ "deletedFlag" \notin Arming
  BY Known, Cold DEF ListServices, At
<1>2. CASE foundIn(req[r].cluster, req[r].name)
  <2>1. Set(r, g, "sleepingFlag")
    BY <1>2 DEF ListServices
  <2>2. /\ s \in Rows(ServiceIds) /\ d \in Rows(DepIds) /\ req[r].name \in Names
        /\ services[req[r].name] # None /\ services[req[r].name].cluster = req[r].cluster
    BY <1>1, <1>2, Underway, RowsThere, InRows DEF foundIn
  <2>3. s = services[req[r].name].id
    OBVIOUS
  <2> HIDE DEF s, d
  <2>4. /\ g \in Request /\ g.op = req[r].op /\ g.cluster = req[r].cluster
        /\ g.name = req[r].name /\ g.service = s
    <3> DEFINE O == Rows(Operations)  L == Labels  C == Rows(Clusters)
               N == Rows(Names)  S == Rows(ServiceIds)  D == Rows(DepIds)  B == BOOLEAN
    <3>1. /\ Request = [op : O, pc : L, cluster : C, name : N, service : S, dep : D, asked : N,
                        payload : B, seen : B]
          /\ s \in S /\ d \in D
      BY <2>2 DEF Request, Rows
    <3>2. req[r] \in Request
      BY Underway
    <3> HIDE DEF O, L, C, N, S, D, B
    <3>3. QED
      BY <3>1, <3>2
  <2> HIDE DEF g
  <2>5. QED
    BY <1>1, <2>1, <2>2, <2>3, <2>4, Underway, SetSupervising DEF Calm, Refers
<1>3. CASE ~foundIn(req[r].cluster, req[r].name)
  <2>1. Goto(r, "deletedFlag") \/ Return(r)
    BY <1>3 DEF ListServices
  <2>2. QED
    BY <1>1, <2>1, GotoSupervising, ReturnCalm
<1>4. QED
  BY <1>2, <1>3

\* ... and finds the deployment of a name.
LEMMA FindDeploymentCalm ==
  ASSUME Fits, RowsTyped, NEW r \in Requests, FindDeployment(r)
  PROVE  Calm(r)
<1> DEFINE d == IF ownsDeployment(req[r].cluster, req[r].name) THEN deployments[req[r].name].id ELSE None
           g == [req[r] EXCEPT !.dep = d]
<1>1. /\ req[r].pc = "findDeployment" /\ req[r].pc \in Supervising /\ req[r].pc \notin Arming
      /\ "compareRoute" \in Supervising /\ "compareRoute" \notin Unarmed /\ "compareRoute" \notin Arming
      /\ "createService" \in Supervising /\ "createService" \notin Unarmed
      /\ Goto(r, "compareRoute") \/ Set(r, g, "createService")
  BY Known, Cold DEF FindDeployment, At
<1>2. d \in Rows(DepIds)
  BY <1>1, Underway, RowsThere, InRows DEF ownsDeployment
<1> HIDE DEF d
<1>3. /\ g \in Request /\ g.op = req[r].op /\ g.cluster = req[r].cluster
      /\ g.name = req[r].name /\ g.service = req[r].service
  BY <1>2, Underway, WithDep
<1> HIDE DEF g
<1>4. QED
  BY <1>1, <1>3, Underway, SetSupervising, GotoSupervising DEF Calm, Refers

\* A run of the supervisor begins; it leads to no step past the look at the
\* cooldown.
LEMMA SuperviseMoves ==
  ASSUME Fits, NEW r \in Requests, NEW c \in Clusters, NEW n \in Names, Supervise(r, c, n)
  PROVE  /\ Goes(r) /\ Refers(r) /\ Elsewhere(r) /\ req[r].pc = "idle"
         /\ req'[r].op = "supervise" /\ req'[r].cluster = c /\ req'[r].name = n
         /\ req'[r].pc = "aggregate"
<1>1. n \in Rows(Names) /\ "aggregate" \in Labels /\ "supervise" \in Operations
  BY InRows, Kinds, Known DEF Operations
<1>2. /\ Moves(r, req'[r]) /\ req[r].pc = "idle"
      /\ req'[r].pc = "aggregate" /\ req'[r].op = "supervise" /\ req'[r].cluster = c
      /\ req'[r].name = n /\ req'[r].service = None
  BY <1>1, Underway, BeginMoves DEF Supervise
<1>3. req'[r] \in Request
  BY <1>2 DEF Moves
<1>4. QED
  BY <1>2, <1>3, MovesSupervising, Known DEF Refers

\* Its steps around the start of the cooldown.
LEMMA CooldownMoves ==
  ASSUME Fits, NEW r \in Requests
  PROVE  /\ Cooldown(r) => Calm(r) \/ /\ Goes(r) /\ Refers(r) /\ Elsewhere(r)
                                      /\ req'[r].op = "supervise" /\ req'[r].pc = "mayReprovision"
                                      /\ req'[r].cluster = req[r].cluster
                                      /\ req'[r].name = req[r].name /\ pair(r) \notin cooling
         /\ SendDeploy(r) => \/ Calm(r) /\ UNCHANGED <<cooling, reprovisions>>
                             \/ /\ Goes(r) /\ Refers(r) /\ Elsewhere(r) /\ count(r) /\ arm(r)
                                /\ req'[r].op = "supervise" /\ req'[r].pc = "loadingMode"
                                /\ req'[r].cluster = req[r].cluster
                                /\ req'[r].name = req[r].name
         /\ EnqueueDeploy(r) => \/ Calm(r) /\ UNCHANGED <<cooling, reprovisions>>
                                \/ /\ Goes(r) /\ Refers(r) /\ Elsewhere(r) /\ count(r)
                                   /\ UNCHANGED cooling
                                   /\ req'[r].op = "supervise" /\ req'[r].pc \in Arming
                                   /\ req'[r].cluster = req[r].cluster
                                   /\ req'[r].name = req[r].name
         /\ Arm(r) => /\ Goes(r) /\ Refers(r) /\ Elsewhere(r) /\ arm(r)
                      /\ req'[r].op = "supervise" /\ req'[r].pc = "loadingMode"
                      /\ req'[r].cluster = req[r].cluster
                      /\ req'[r].name = req[r].name
<1>1. ASSUME Cooldown(r)
      PROVE  Calm(r) \/ /\ Goes(r) /\ Refers(r) /\ Elsewhere(r)
                        /\ req'[r].op = "supervise" /\ req'[r].pc = "mayReprovision"
                        /\ req'[r].cluster = req[r].cluster
                        /\ req'[r].name = req[r].name /\ pair(r) \notin cooling
  <2>1. /\ req[r].pc = "cooldown" /\ req[r].pc \in Supervising
        /\ "mayReprovision" \in Supervising
    BY <1>1, Known DEF Cooldown, At
  <2>2. Return(r) \/ (Goto(r, "mayReprovision") /\ pair(r) \notin cooling)
    BY <1>1 DEF Cooldown
  <2>3. QED
    BY <2>1, <2>2, GotoSupervising, ReturnCalm
<1>2. ASSUME SendDeploy(r)
      PROVE  \/ Calm(r) /\ UNCHANGED <<cooling, reprovisions>>
             \/ /\ Goes(r) /\ Refers(r) /\ Elsewhere(r) /\ count(r) /\ arm(r)
                /\ req'[r].op = "supervise" /\ req'[r].pc = "loadingMode"
                /\ req'[r].cluster = req[r].cluster
                /\ req'[r].name = req[r].name
  <2>1. /\ req[r].pc = "sendDeploy" /\ req[r].pc \in Supervising /\ "loadingMode" \in Supervising
        /\ \/ Return(r) /\ UNCHANGED <<cooling, reprovisions>>
           \/ Goto(r, "loadingMode") /\ count(r) /\ arm(r)
    BY <1>2, Known DEF SendDeploy, At
  <2>2. QED
    BY <2>1, GotoSupervising, ReturnCalm
<1>3. ASSUME EnqueueDeploy(r)
      PROVE  \/ Calm(r) /\ UNCHANGED <<cooling, reprovisions>>
             \/ /\ Goes(r) /\ Refers(r) /\ Elsewhere(r) /\ count(r)
                /\ UNCHANGED cooling
                /\ req'[r].op = "supervise" /\ req'[r].pc \in Arming
                /\ req'[r].cluster = req[r].cluster
                /\ req'[r].name = req[r].name
  <2>1. /\ req[r].pc = "enqueueDeploy" /\ req[r].pc \in Supervising
        /\ "recordBuild" \in Supervising /\ "arm" \in Supervising /\ UNCHANGED cooling
        /\ \/ Return(r) /\ UNCHANGED reprovisions
           \/ (Goto(r, "recordBuild") \/ Goto(r, "arm")) /\ count(r)
    BY <1>3, Known DEF EnqueueDeploy, At
  <2>2. QED
    BY <2>1, GotoSupervising, ReturnCalm
<1>4. ASSUME Arm(r)
      PROVE  /\ Goes(r) /\ Refers(r) /\ Elsewhere(r) /\ arm(r)
             /\ req'[r].op = "supervise" /\ req'[r].pc = "loadingMode"
             /\ req'[r].cluster = req[r].cluster
             /\ req'[r].name = req[r].name
  <2>1. /\ req[r].pc = "arm" /\ req[r].pc \in Supervising /\ "loadingMode" \in Supervising
        /\ Goto(r, "loadingMode") /\ arm(r)
    BY <1>4, Known DEF Arm, At
  <2>2. QED
    BY <2>1, GotoSupervising
<1>5. QED
  BY <1>1, <1>2, <1>3, <1>4

\* The steps of requests that stop, start and delete a service.
LEMMA TrafficCalm ==
  ASSUME Fits, RowsTyped, NEW r \in Requests
  PROVE  /\ \A n \in Names : StopService(r, n) => Calm(r)
         /\ \A n \in Names : StartService(r, n) => Calm(r)
         /\ \A n \in Names : SleepJob(r, n) => Calm(r)
         /\ \A n \in Names : NodeLost(r, n) => Calm(r)
         /\ \A n \in Names : IceJob(r, n) => Calm(r)
         /\ \A n \in Names : Status(r, n) => Calm(r)
         /\ \A n \in Names : RemoveService(r, n) => Calm(r)
         /\ SkipAsleep(r) => Calm(r)
         /\ SendSleep(r) => Calm(r)
         /\ MarkSleeping(r) => Calm(r)
         /\ SendIce(r) => Calm(r)
         /\ MarkIced(r) => Calm(r)
         /\ IsWaking(r) => Calm(r)
         /\ IsSleeping(r) => Calm(r)
         /\ SendWake(r) => Calm(r)
         /\ UnsetSleeping(r) => Calm(r)
         /\ SetWaking(r) => Calm(r)
         /\ UnregisterRoute(r) => Calm(r)
         /\ CleanFlags(r) => Calm(r)
<1>0. req \in [Requests -> Request] /\ req[r] \in Request /\ Labelled(req[r])
  BY DEF Fits
<1>1. \A n \in Names : StopService(r, n) => Calm(r)
  BY <1>0, Known, BeginOnPlain
     DEF StopService, Operations, At
<1>2. \A n \in Names : StartService(r, n) => Calm(r)
  BY <1>0, Known, BeginOnPlain
     DEF StartService, Operations, At
<1>3. \A n \in Names : SleepJob(r, n) => Calm(r)
  BY <1>0, Known, BeginOnPlain
     DEF SleepJob, Operations, At
<1>4. \A n \in Names : NodeLost(r, n) => Calm(r)
  BY <1>0, Known, BeginOnPlain
     DEF NodeLost, Operations, At
<1>5. \A n \in Names : IceJob(r, n) => Calm(r)
  BY <1>0, Known, BeginOnPlain
     DEF IceJob, Operations, At
<1>6. \A n \in Names : Status(r, n) => Calm(r)
  BY <1>0, Known, BeginOnPlain
     DEF Status, Operations, At
<1>7. \A n \in Names : RemoveService(r, n) => Calm(r)
  BY <1>0, Known, BeginOnPlain
     DEF RemoveService, Operations, At
<1>8. SkipAsleep(r) => Calm(r)
  BY <1>0, Known, GotoPlain, ReturnCalm
     DEF SkipAsleep, At
<1>9. SendSleep(r) => Calm(r)
  BY <1>0, Known, GotoPlain, ReturnCalm
     DEF SendSleep, Sends, At
<1>10. MarkSleeping(r) => Calm(r)
  BY <1>0, Known, GotoPlain, ReturnCalm
     DEF MarkSleeping, At
<1>11. SendIce(r) => Calm(r)
  BY <1>0, Known, GotoPlain, ReturnCalm
     DEF SendIce, Sends, At
<1>12. MarkIced(r) => Calm(r)
  BY <1>0, Known, GotoPlain, ReturnCalm
     DEF MarkIced, At
<1>13. IsWaking(r) => Calm(r)
  BY <1>0, Known, GotoPlain, ReturnCalm
     DEF IsWaking, At
<1>14. IsSleeping(r) => Calm(r)
  BY <1>0, Known, GotoPlain, ReturnCalm
     DEF IsSleeping, At
<1>15. SendWake(r) => Calm(r)
  BY <1>0, Known, GotoPlain, ReturnCalm
     DEF SendWake, Sends, At
<1>16. UnsetSleeping(r) => Calm(r)
  BY <1>0, Known, GotoPlain, ReturnCalm
     DEF UnsetSleeping, At
<1>17. SetWaking(r) => Calm(r)
  BY <1>0, Known, GotoPlain, ReturnCalm
     DEF SetWaking, At
<1>18. UnregisterRoute(r) => Calm(r)
  BY <1>0, Known, GotoPlain, ReturnCalm
     DEF UnregisterRoute, At
<1>19. CleanFlags(r) => Calm(r)
  BY <1>0, Known, GotoPlain, ReturnCalm
     DEF CleanFlags, At
<1>20. QED
  BY <1>1, <1>2, <1>3, <1>4, <1>5, <1>6, <1>7, <1>8, <1>9, <1>10, <1>11, <1>12, <1>13, <1>14,
     <1>15, <1>16, <1>17, <1>18, <1>19

\* The other steps of the supervisor.
LEMMA SupervisorCalm ==
  ASSUME Fits, RowsTyped, NEW r \in Requests
  PROVE  /\ SleepingFlag(r) => Calm(r)
         /\ SettleFlag(r) => Calm(r)
         /\ StubRoute(r) => Calm(r)
         /\ DeletedFlag(r) => Calm(r)
         /\ CreateService(r) => Calm(r)
         /\ RegisterRoute(r) => Calm(r)
         /\ CompareRoute(r) => Calm(r)
         /\ Awake(r) => Calm(r)
         /\ PutRoute(r) => Calm(r)
         /\ MayReprovision(r) => Calm(r)
         /\ FindBlueprint(r) => Calm(r)
         /\ LoadingMode(r) => Calm(r)
<1>0. req \in [Requests -> Request] /\ req[r] \in Request /\ Labelled(req[r])
  BY DEF Fits
<1>1. SleepingFlag(r) => Calm(r)
  BY <1>0, Known, Cold, AfterFlags, GotoSupervising, ReturnCalm
     DEF SleepingFlag, At
<1>2. SettleFlag(r) => Calm(r)
  BY <1>0, Known, Cold, AfterFlags, GotoSupervising, ReturnCalm
     DEF SettleFlag, At
<1>3. StubRoute(r) => Calm(r)
  BY <1>0, Known, Cold, AfterFlags, GotoSupervising, ReturnCalm
     DEF StubRoute, At
<1>4. DeletedFlag(r) => Calm(r)
  BY <1>0, Known, Cold, AfterFlags, GotoSupervising, ReturnCalm
     DEF DeletedFlag, At
<1>5. CreateService(r) => Calm(r)
  BY <1>0, Known, Cold, AfterFlags, GotoSupervising, ReturnCalm
     DEF CreateService, At
<1>6. RegisterRoute(r) => Calm(r)
  BY <1>0, Known, Cold, AfterFlags, GotoSupervising, ReturnCalm
     DEF RegisterRoute, At
<1>7. CompareRoute(r) => Calm(r)
  BY <1>0, Known, Cold, AfterFlags, GotoSupervising, ReturnCalm
     DEF CompareRoute, At
<1>8. Awake(r) => Calm(r)
  BY <1>0, Known, Cold, AfterFlags, GotoSupervising, ReturnCalm
     DEF Awake, At
<1>9. PutRoute(r) => Calm(r)
  BY <1>0, Known, Cold, AfterFlags, GotoSupervising, ReturnCalm
     DEF PutRoute, At
<1>10. MayReprovision(r) => Calm(r)
  BY <1>0, Known, Cold, AfterFlags, GotoSupervising, ReturnCalm
     DEF MayReprovision, At
<1>11. FindBlueprint(r) => Calm(r)
  BY <1>0, Known, Cold, AfterFlags, GotoSupervising, ReturnCalm
     DEF FindBlueprint, At
<1>12. LoadingMode(r) => Calm(r)
  BY <1>0, Known, Cold, AfterFlags, GotoSupervising, ReturnCalm
     DEF LoadingMode, At
<1>13. QED
  BY <1>1, <1>2, <1>3, <1>4, <1>5, <1>6, <1>7, <1>8, <1>9, <1>10, <1>11, <1>12

(* --- The watchdog, step by step ---------------------------------------- *)

\* The watchdog reads the health it saw last.
LEMMA GetHealthCalm ==
  ASSUME Fits, NEW r \in Requests, GetHealth(r)
  PROVE  Calm(r)
<1>1. /\ req[r].pc = "getHealth" /\ req[r].pc \in Plain /\ req[r].pc \notin Arming /\ "putHealth" \in Plain
  BY Known DEF GetHealth, At
<1>2. PICK now \in BOOLEAN :
        Set(r, [req[r] EXCEPT !.seen = req[r].name \in degraded, !.payload = now], "putHealth")
  BY DEF GetHealth
<1> DEFINE b == req[r].name \in degraded
           g == [req[r] EXCEPT !.seen = b, !.payload = now]
<1>3. Set(r, g, "putHealth") /\ b \in BOOLEAN
  BY <1>2
<1> HIDE DEF b
<1>4. /\ g \in Request /\ g.op = req[r].op /\ g.cluster = req[r].cluster
      /\ g.name = req[r].name /\ g.service = req[r].service
  <2> DEFINE O == Rows(Operations)  L == Labels  C == Rows(Clusters)
             N == Rows(Names)  S == Rows(ServiceIds)  D == Rows(DepIds)  B == BOOLEAN
  <2>1. /\ Request = [op : O, pc : L, cluster : C, name : N, service : S, dep : D, asked : N,
                      payload : B, seen : B]
        /\ b \in B /\ now \in B
    BY <1>3 DEF Request, Rows
  <2>2. req[r] \in Request
    BY Underway
  <2> HIDE DEF O, L, C, N, S, D, B
  <2>3. QED
    BY <2>1, <2>2
<1> HIDE DEF g
<1>5. QED
  BY <1>1, <1>3, <1>4, Underway, SetPlain DEF Calm, Refers

\* The other steps of the watchdog.
LEMMA WatchdogCalm ==
  ASSUME Fits, RowsTyped, NEW r \in Requests
  PROVE  /\ \A c \in Clusters, n \in Names : WatchService(r, c, n) => Calm(r)
         /\ PutHealth(r) => Calm(r)
         /\ ClearFailures(r) => Calm(r)
         /\ GetFailures(r) => Calm(r)
         /\ PutFailures(r) => Calm(r)
         /\ InCooldown(r) => Calm(r)
         /\ ArmCooldown(r) => Calm(r)
         /\ DispatchAlert(r) => Calm(r)
<1>0. req \in [Requests -> Request] /\ req[r] \in Request /\ Labelled(req[r])
  BY DEF Fits
<1>1. \A c \in Clusters, n \in Names : WatchService(r, c, n) => Calm(r)
  BY <1>0, Known, BeginPlain
     DEF WatchService, Operations, At
<1>2. PutHealth(r) => Calm(r)
  BY <1>0, Known, GotoPlain, ReturnCalm
     DEF PutHealth, At
<1>3. ClearFailures(r) => Calm(r)
  BY <1>0, Known, GotoPlain, ReturnCalm
     DEF ClearFailures, At
<1>4. GetFailures(r) => Calm(r)
  BY <1>0, Known, GotoPlain, ReturnCalm
     DEF GetFailures, At
<1>5. PutFailures(r) => Calm(r)
  BY <1>0, Known, GotoPlain, ReturnCalm
     DEF PutFailures, At
<1>6. InCooldown(r) => Calm(r)
  BY <1>0, Known, GotoPlain, ReturnCalm
     DEF InCooldown, At
<1>7. ArmCooldown(r) => Calm(r)
  BY <1>0, Known, GotoPlain, ReturnCalm
     DEF ArmCooldown, At
<1>8. DispatchAlert(r) => Calm(r)
  BY <1>0, Known, GotoPlain, ReturnCalm
     DEF DispatchAlert, At
<1>9. QED
  BY <1>1, <1>2, <1>3, <1>4, <1>5, <1>6, <1>7, <1>8

(* --- Domains, step by step --------------------------------------------- *)

Sure(r) == Goes(r) /\ Steady(r) /\ Refers(r)

\* What is said of the steps about domains holds of the others too.
LEMMA CalmSure == ASSUME NEW r \in Requests, Calm(r) PROVE Sure(r)
BY DEF Calm, Sure

\* A request about a domain begins, ...
LEMMA BeginDomain ==
  ASSUME Fits, NEW r \in Requests, NEW op \in Operations \ {"supervise"}, NEW c \in Clusters,
         NEW n \in Rows(Names), NEW p \in Verifying \cup Removing \cup Inserting,
         op \in {"verifyDomain", "verifyJob"} <=> p \in Verifying,
         p \in Inserting => n \in Names, Begin(r, op, c, n, p)
  PROVE  Sure(r) /\ req'[r].pc = p /\ req'[r].cluster = c
<1>1. p \in Labels
  BY Kinds
<1>2. /\ Moves(r, req'[r]) /\ req[r].pc = "idle"
      /\ req'[r].pc = p /\ req'[r].op = op /\ req'[r].cluster = c
      /\ req'[r].name = n /\ req'[r].service = None
  BY <1>1, Underway, BeginMoves
<1>3. req'[r] \in Request /\ req' = [req EXCEPT ![r] = req'[r]]
  BY <1>2 DEF Moves
<1>4. Labelled(req'[r])
  BY <1>2, Kinds DEF Labelled
<1>5. QED
  BY <1>2, <1>3, <1>4 DEF Sure, Goes, Fit, Steady, Refers

\* ... and goes on.
LEMMA GotoDomain ==
  ASSUME Fits, NEW r \in Requests, NEW p \in Verifying \cup Removing \cup Inserting,
         p \in Verifying <=> req[r].pc \in Verifying,
         p \in Inserting <=> req[r].pc \in Inserting,
         req[r].pc \in Verifying \cup Removing \cup Inserting, Goto(r, p)
  PROVE  Sure(r) /\ req'[r].pc = p
<1> DEFINE g == [req[r] EXCEPT !.pc = p]
<1>1. /\ Moves(r, g)
      /\ req'[r].pc = p /\ req'[r].op = req[r].op /\ req'[r].cluster = req[r].cluster
      /\ req'[r].name = req[r].name /\ req'[r].service = req[r].service
  BY Underway, GotoMoves, Kinds
<1> HIDE DEF g
<1>2. g \in Request /\ g = req'[r] /\ req' = [req EXCEPT ![r] = req'[r]]
  BY <1>1 DEF Moves
<1>3. Labelled(req'[r]) /\ req'[r].op # "supervise" /\ req[r].pc \notin Arming
  <2>1. Labelled(req[r])
    BY Underway
  <2>2. req'[r].op # "supervise" /\ req[r].pc \notin Arming /\ req[r].pc # "idle"
    BY <1>1, <2>1, Kinds DEF Labelled
  <2>3. req'[r].cluster \in Clusters /\ (p \in Inserting => req'[r].name \in Names)
    BY <1>1, <2>1, <2>2, Kinds DEF Labelled
  <2>4. req'[r].op \in {"verifyDomain", "verifyJob"} <=> p \in Verifying
    BY <1>1, <2>1 DEF Labelled
  <2>5. QED
    BY <1>1, <2>2, <2>3, <2>4, Kinds DEF Labelled
<1>4. QED
  BY <1>1, <1>2, <1>3 DEF Sure, Goes, Fit, Steady, Refers

VisitRecord == [domain : Rows(Domains), row : Rows(DomainRow)]

\* A request enters a domain ...
LEMMA EnterVisit ==
  ASSUME visit \in [Requests -> VisitRecord], NEW r \in Requests, NEW d \in Domains,
         NEW row \in Rows(DomainRow), Enter(r, d, row)
  PROVE  /\ visit' \in [Requests -> VisitRecord] /\ visit'[r].domain = d /\ visit'[r].row = row
         /\ \A x \in Requests \ {r} : visit'[x] = visit[x]
BY InRows DEF Enter, VisitRecord

\* ... and leaves it.
LEMMA LeaveVisit ==
  ASSUME Fits, visit \in [Requests -> VisitRecord], NEW r \in Requests, Leave(r),
         req[r].pc \notin Arming
  PROVE  /\ Calm(r) /\ visit' \in [Requests -> VisitRecord]
         /\ req'[r].pc \notin Verifying \cup Removing \cup Inserting
         /\ \A x \in Requests \ {r} : visit'[x] = visit[x]
<1>1. Calm(r)
  BY ReturnCalm DEF Leave
<1>2. NoVisit \in VisitRecord
  BY InRows DEF NoVisit, VisitRecord
<1>3. visit' = [visit EXCEPT ![r] = NoVisit]
  BY DEF Leave
<1>4. QED
  BY <1>1, <1>2, <1>3 DEF Calm, Elsewhere

\* A row of domains, and what is written into it.
LEMMA DomainRowThere ==
  ASSUME DomainsTyped
  PROVE  \A d \in Domains : domains[d] # None =>
           /\ domains[d] \in DomainRow /\ domains[d].cluster \in Clusters
           /\ domains[d].service \in Rows(Names)
           /\ [domains[d] EXCEPT !.active = TRUE] \in DomainRow
           /\ [domains[d] EXCEPT !.active = TRUE].token = domains[d].token
           /\ [domains[d] EXCEPT !.active = TRUE].service = domains[d].service
           /\ [domains[d] EXCEPT !.service = None] \in DomainRow
           /\ [domains[d] EXCEPT !.service = None].token = domains[d].token
           /\ [domains[d] EXCEPT !.service = None].active = domains[d].active
           /\ [domains[d] EXCEPT !.service = None].service = None
<1> SUFFICES ASSUME NEW d \in Domains, domains[d] # None
             PROVE  /\ domains[d] \in DomainRow /\ domains[d].cluster \in Clusters
                    /\ domains[d].service \in Rows(Names)
                    /\ [domains[d] EXCEPT !.active = TRUE] \in DomainRow
                    /\ [domains[d] EXCEPT !.active = TRUE].token = domains[d].token
                    /\ [domains[d] EXCEPT !.active = TRUE].service = domains[d].service
                    /\ [domains[d] EXCEPT !.service = None] \in DomainRow
                    /\ [domains[d] EXCEPT !.service = None].token = domains[d].token
                    /\ [domains[d] EXCEPT !.service = None].active = domains[d].active
                    /\ [domains[d] EXCEPT !.service = None].service = None
  OBVIOUS
<1>1. domains[d] \in DomainRow
  BY DEF DomainsTyped, Rows
<1>2. None \in Rows(Names)
  BY InRows
<1>3. QED
  BY <1>1, <1>2 DEF DomainRow

\* A row is never exchanged under a verification: it keeps its token, or it is
\* deleted and the domain counts as outlived.
KeepsToken(d) ==
  \/ d \in outlived'
  \/ domains[d] # None => domains'[d] # None /\ domains'[d].token = domains[d].token

\* What the step of one request leaves of the visits of the others.
LEMMA OthersVisit ==
  ASSUME Fits, DomainsInv, NEW r \in Requests, Goes(r),
         \A x \in Requests \ {r} : visit'[x] = visit[x],
         outlived \subseteq outlived', proved \subseteq proved',
         \A x \in Requests \ {r} : req[x].pc \in Verifying => KeepsToken(visit[x].domain),
         NEW x \in Requests \ {r}
  PROVE  VisitFits(x)' /\ VisitIsCurrent(x)' /\ TokenFound(x)'
<1>1. req'[x] = req[x] /\ visit'[x] = visit[x]
  BY DEF Goes, Fits
<1>2. VisitFits(x) /\ VisitIsCurrent(x) /\ TokenFound(x)
  BY DEF DomainsInv, Verified
<1>3. QED
  BY <1>1, <1>2 DEF VisitFits, VisitIsCurrent, TokenFound, KeepsToken

\* A step that leaves the rows of domains alone.
LEMMA DomainsKept ==
  ASSUME Fits, DomainsInv, NEW r \in Requests, Goes(r),
         UNCHANGED <<domains, services, outlived>>, proved \subseteq proved',
         domainRoute' \in [Domains -> Rows(Names)],
         visit' \in [Requests -> VisitRecord],
         \A x \in Requests \ {r} : visit'[x] = visit[x],
         VisitFits(r)' /\ VisitIsCurrent(r)' /\ TokenFound(r)'
  PROVE  DomainsInv'
<1>1. DomainsTyped'
  BY DEF DomainsInv, DomainsTyped, VisitRecord
<1>2. DomainsServed'
  BY DEF DomainsInv, DomainsServed
<1>3. ActiveWasProved'
  BY DEF DomainsInv, Verified, ActiveWasProved
<1>4. \A x \in Requests : VisitFits(x)' /\ VisitIsCurrent(x)' /\ TokenFound(x)'
  <2>1. \A x \in Requests \ {r} : VisitFits(x)' /\ VisitIsCurrent(x)' /\ TokenFound(x)'
    BY OthersVisit DEF KeepsToken
  <2>2. QED
    BY <2>1
<1>5. QED
  BY <1>1, <1>2, <1>3, <1>4 DEF DomainsInv, Verified

\* A request that has left its domain.
LEMMA LeftVisit ==
  ASSUME NEW r \in Requests, req'[r].pc \notin Verifying \cup Removing \cup Inserting
  PROVE  VisitFits(r)' /\ VisitIsCurrent(r)' /\ TokenFound(r)'
<1>1. "activate" \in Verifying /\ "routeDomain" \in Verifying
  BY Known
<1>2. QED
  BY <1>1 DEF VisitFits, VisitIsCurrent, TokenFound

\* POST /domains begins, ...
LEMMA AddDomainKeeps ==
  ASSUME Fits, RowsTyped, DomainsInv, NEW r \in Requests, NEW c \in Clusters, NEW n \in Names,
         NEW d \in Domains, AddDomain(r, c, n, d)
  PROVE  Sure(r) /\ DomainsInv'
<1>1. /\ "findDomain" \in Inserting /\ "findDomain" \notin Verifying
      /\ "findDomain" \notin Removing
      /\ "addDomain" \in Operations \ {"supervise", "verifyDomain", "verifyJob"}
      /\ n \in Rows(Names) /\ None \in Rows(DomainRow)
  BY InRows, Known, Kinds DEF Operations, Inserting, Verifying, Removing
<1>2. Sure(r) /\ req'[r].pc = "findDomain"
  BY <1>1, BeginDomain DEF AddDomain
<1>3. visit \in [Requests -> VisitRecord]
  BY DEF DomainsInv, DomainsTyped, VisitRecord
<1>4. /\ visit' \in [Requests -> VisitRecord] /\ visit'[r].domain = d
      /\ \A x \in Requests \ {r} : visit'[x] = visit[x]
  BY <1>1, <1>3, EnterVisit DEF AddDomain
<1>5. VisitFits(r)' /\ VisitIsCurrent(r)' /\ TokenFound(r)'
  BY <1>1, <1>2, <1>4 DEF VisitFits, VisitIsCurrent, TokenFound
<1>6. UNCHANGED <<domains, services, outlived, proved, domainRoute>>
  BY DEF AddDomain, KeepRows, recordVars
<1>7. domainRoute' \in [Domains -> Rows(Names)]
  BY <1>6 DEF DomainsInv, DomainsTyped
<1>8. DomainsInv'
  BY <1>2, <1>4, <1>5, <1>6, <1>7, DomainsKept DEF Sure
<1>9. QED
  BY <1>2, <1>8

\* ... looks the domain up and counts those of the service, ...
LEMMA FindDomainKeeps ==
  ASSUME Fits, RowsTyped, DomainsInv, NEW r \in Requests, FindDomain(r)
  PROVE  Sure(r) /\ DomainsInv'
<1>1. /\ req[r].pc = "findDomain" /\ req[r].pc \in Inserting /\ req[r].pc \notin Arming
      /\ "insertDomain" \in Inserting
      /\ UNCHANGED <<domains, services, outlived, proved, domainRoute>>
  BY Known DEF FindDomain, At, KeepRows, recordVars
<1>2. /\ visit \in [Requests -> VisitRecord] /\ domainRoute' \in [Domains -> Rows(Names)]
      /\ VisitFits(r)
  BY <1>1 DEF DomainsInv, DomainsTyped, VisitRecord, Verified
<1>3. CASE Leave(r)
  BY <1>1, <1>2, <1>3, LeaveVisit, LeftVisit, DomainsKept, CalmSure DEF Sure
<1>4. CASE Goto(r, "insertDomain") /\ UNCHANGED visit
  <2>1. Sure(r) /\ req'[r].pc = "insertDomain"
    BY <1>1, <1>4, GotoDomain, Kinds
  <2>2. VisitFits(r)' /\ VisitIsCurrent(r)' /\ TokenFound(r)'
    BY <1>1, <1>2, <1>4, <2>1, Kinds DEF VisitFits, VisitIsCurrent, TokenFound
  <2>3. QED
    BY <1>1, <1>2, <1>4, <2>1, <2>2, DomainsKept DEF Sure
<1>5. QED
  BY <1>3, <1>4 DEF FindDomain

\* ... and inserts a row with a new token.
LEMMA InsertDomainKeeps ==
  ASSUME Fits, RowsTyped, DomainsInv, NEW r \in Requests, InsertDomain(r)
  PROVE  Sure(r) /\ DomainsInv'
<1> DEFINE n == req[r].name
           d == visit[r].domain
<1>1. /\ req[r].pc = "insertDomain" /\ req[r].pc \in Inserting /\ req[r].pc \notin Arming /\ Leave(r)
      /\ UNCHANGED <<services, outlived, proved, domainRoute>>
  BY Known DEF InsertDomain, At, recordVars
<1>2. /\ visit \in [Requests -> VisitRecord] /\ domainRoute' \in [Domains -> Rows(Names)]
      /\ VisitFits(r) /\ domains \in [Domains -> Rows(DomainRow)]
  BY <1>1 DEF DomainsInv, DomainsTyped, VisitRecord, Verified
<1>3. /\ Calm(r) /\ visit' \in [Requests -> VisitRecord]
      /\ req'[r].pc \notin Verifying \cup Removing \cup Inserting
      /\ \A x \in Requests \ {r} : visit'[x] = visit[x]
  BY <1>1, <1>2, LeaveVisit
<1>4. Sure(r) /\ Goes(r)
  BY <1>3, CalmSure DEF Sure
<1>5. CASE UNCHANGED domains
  BY <1>1, <1>2, <1>3, <1>4, <1>5, LeftVisit, DomainsKept
<1>6. CASE ~UNCHANGED domains
  <2>1. d \in Domains /\ n \in Names /\ req[r].cluster \in Clusters
    <3>1. Labelled(req[r]) /\ req[r].pc \notin {"idle"} \cup Verifying \cup Removing
      BY <1>1, Underway, Kinds
    <3>2. QED
      BY <1>1, <1>2, <3>1 DEF VisitFits, Labelled
  <2>2. domains[d] = None /\ services[n] # None
    BY <1>6 DEF InsertDomain
  <2>3. PICK t \in DomainTokens :
          domains' = [domains EXCEPT ![d] =
            [cluster |-> req[r].cluster, token |-> t, service |-> n, active |-> FALSE]]
    BY <1>6 DEF InsertDomain
  <2> DEFINE f == FALSE
             row == [cluster |-> req[r].cluster, token |-> t, service |-> n, active |-> f]
  <2>4. domains' = [domains EXCEPT ![d] = row] /\ f \in BOOLEAN /\ ~f
    BY <2>3
  <2> HIDE DEF f
  <2>5. /\ row \in DomainRow /\ row.active = f /\ row.service = n
    BY <2>1, <2>4, InRows DEF DomainRow
  <2> HIDE DEF row, d, n
  <2>6. domains'[d] = row /\ \A e \in Domains \ {d} : domains'[e] = domains[e]
    BY <1>2, <2>1, <2>4
  <2>7. DomainsTyped'
    BY <1>2, <1>3, <2>4, <2>5, InRows DEF DomainsTyped, VisitRecord
  <2>8. DomainsServed'
    BY <1>1, <2>1, <2>2, <2>5, <2>6 DEF DomainsInv, DomainsServed
  <2>9. ActiveWasProved'
    BY <1>1, <2>4, <2>5, <2>6 DEF DomainsInv, Verified, ActiveWasProved
  <2>10. \A x \in Requests \ {r} : req[x].pc \in Verifying => KeepsToken(visit[x].domain)
    <3> SUFFICES ASSUME NEW x \in Requests \ {r}, req[x].pc \in Verifying
                 PROVE  KeepsToken(visit[x].domain)
      OBVIOUS
    <3>1. VisitFits(x)
      BY DEF DomainsInv, Verified
    <3>2. visit[x].domain \in Domains
      BY <3>1 DEF VisitFits
    <3>3. QED
      BY <2>2, <2>6, <3>2 DEF KeepsToken
  <2>11. \A x \in Requests \ {r} : VisitFits(x)' /\ VisitIsCurrent(x)' /\ TokenFound(x)'
    BY <1>1, <1>3, <1>4, <2>10, OthersVisit
  <2>12. QED
    BY <1>3, <1>4, <2>7, <2>8, <2>9, <2>11, LeftVisit DEF DomainsInv, Verified
<1>7. QED
  BY <1>5, <1>6

\* A verification begins with the row it reads, ...
LEMMA VerifyDomainKeeps ==
  ASSUME Fits, RowsTyped, DomainsInv, NEW r \in Requests, NEW d \in Domains, VerifyDomain(r, d)
  PROVE  Sure(r) /\ DomainsInv'
<1>1. /\ "checkTxtRecord" \in Verifying /\ "checkTxtRecord" \notin Inserting
      /\ "verifyDomain" \in Operations \ {"supervise"} /\ "verifyJob" \in Operations \ {"supervise"}
      /\ None \in Rows(Names)
      /\ domains[d] # None /\ Enter(r, d, domains[d])
      /\ UNCHANGED <<domains, services, outlived, proved, domainRoute>>
  BY InRows, Known, Kinds DEF Operations, VerifyDomain, KeepRows, recordVars
<1>2. domains[d] \in DomainRow /\ domains[d].cluster \in Clusters
  BY <1>1, DomainRowThere DEF DomainsInv
<1>3. Sure(r) /\ req'[r].pc = "checkTxtRecord"
  BY <1>1, <1>2, BeginDomain DEF VerifyDomain
<1>4. visit \in [Requests -> VisitRecord] /\ domainRoute' \in [Domains -> Rows(Names)]
  BY <1>1 DEF DomainsInv, DomainsTyped, VisitRecord
<1>5. /\ visit' \in [Requests -> VisitRecord] /\ visit'[r].domain = d /\ visit'[r].row = domains[d]
      /\ \A x \in Requests \ {r} : visit'[x] = visit[x]
  BY <1>1, <1>2, <1>4, EnterVisit, InRows
<1>6. VisitFits(r)' /\ VisitIsCurrent(r)' /\ TokenFound(r)'
  BY <1>1, <1>2, <1>3, <1>5 DEF VisitFits, VisitIsCurrent, TokenFound
<1>7. QED
  BY <1>1, <1>3, <1>4, <1>5, <1>6, DomainsKept DEF Sure

\* ... proves the token of that row, ...
LEMMA CheckTxtRecordKeeps ==
  ASSUME Fits, RowsTyped, DomainsInv, NEW r \in Requests, CheckTxtRecord(r)
  PROVE  Sure(r) /\ DomainsInv'
<1>1. /\ req[r].pc = "checkTxtRecord" /\ req[r].pc \in Verifying /\ req[r].pc \notin Arming
      /\ "activate" \in Verifying
      /\ UNCHANGED <<domains, services, outlived, domainRoute>>
  BY Known DEF CheckTxtRecord, At, recordVars
<1>2. /\ visit \in [Requests -> VisitRecord] /\ domainRoute' \in [Domains -> Rows(Names)]
      /\ VisitFits(r) /\ VisitIsCurrent(r)
  BY <1>1 DEF DomainsInv, DomainsTyped, VisitRecord, Verified
<1>3. PICK found \in BOOLEAN :
        /\ check(r, found)
        /\ proved' = IF found THEN proved \cup {visit[r].row.token} ELSE proved
  BY DEF CheckTxtRecord
<1>4. CASE ~found
  BY <1>1, <1>2, <1>3, <1>4, LeaveVisit, LeftVisit, DomainsKept, CalmSure DEF Sure, check
<1>5. CASE found
  <2>1. Goto(r, "activate") /\ UNCHANGED visit /\ visit[r].row.token \in proved'
        /\ proved \subseteq proved'
    BY <1>3, <1>5 DEF check
  <2>2. Sure(r) /\ req'[r].pc = "activate"
    BY <1>1, <2>1, GotoDomain, Kinds
  <2>3. VisitFits(r)' /\ VisitIsCurrent(r)' /\ TokenFound(r)'
    BY <1>1, <1>2, <2>1, <2>2, Kinds DEF VisitFits, VisitIsCurrent, TokenFound
  <2>4. QED
    BY <1>1, <1>2, <2>1, <2>2, <2>3, DomainsKept DEF Sure
<1>6. QED
  BY <1>4, <1>5

\* ... and routes the domain after the row is active.
LEMMA RouteDomainKeeps ==
  ASSUME Fits, RowsTyped, DomainsInv, NEW r \in Requests, RouteDomain(r)
  PROVE  Sure(r) /\ DomainsInv'
<1>1. /\ req[r].pc = "routeDomain" /\ req[r].pc \in Verifying /\ req[r].pc \notin Arming /\ Leave(r)
      /\ domainRoute' = [domainRoute EXCEPT ![visit[r].domain] = visit[r].row.service]
      /\ UNCHANGED <<domains, services, outlived, proved>>
  BY Known DEF RouteDomain, At, recordVars
<1>2. visit \in [Requests -> VisitRecord] /\ domainRoute \in [Domains -> Rows(Names)] /\ VisitFits(r)
  BY DEF DomainsInv, DomainsTyped, VisitRecord, Verified
<1>3. visit[r].row.service \in Rows(Names)
  BY <1>1, <1>2 DEF VisitFits, DomainRow
<1>4. domainRoute' \in [Domains -> Rows(Names)]
  BY <1>1, <1>2, <1>3
<1>5. QED
  BY <1>1, <1>2, <1>4, LeaveVisit, LeftVisit, DomainsKept, CalmSure DEF Sure

\* DELETE /domains/:domain begins, ...
LEMMA RemoveDomainKeeps ==
  ASSUME Fits, RowsTyped, DomainsInv, NEW r \in Requests, NEW d \in Domains, RemoveDomain(r, d)
  PROVE  Sure(r) /\ DomainsInv'
<1>1. /\ "deleteDomain" \in Removing /\ "deleteDomain" \notin Inserting
      /\ "deleteDomain" \notin Verifying
      /\ "removeDomain" \in Operations \ {"supervise", "verifyDomain", "verifyJob"}
      /\ None \in Rows(Names)
      /\ domains[d] # None /\ Enter(r, d, domains[d])
      /\ UNCHANGED <<domains, services, outlived, proved, domainRoute>>
  BY InRows, Known, Kinds DEF Operations, RemoveDomain, KeepRows, recordVars
<1>2. domains[d] \in DomainRow /\ domains[d].cluster \in Clusters
  BY <1>1, DomainRowThere DEF DomainsInv
<1>3. Sure(r) /\ req'[r].pc = "deleteDomain"
  BY <1>1, <1>2, BeginDomain DEF RemoveDomain
<1>4. visit \in [Requests -> VisitRecord] /\ domainRoute' \in [Domains -> Rows(Names)]
  BY <1>1 DEF DomainsInv, DomainsTyped, VisitRecord
<1>5. /\ visit' \in [Requests -> VisitRecord] /\ visit'[r].domain = d /\ visit'[r].row = domains[d]
      /\ \A x \in Requests \ {r} : visit'[x] = visit[x]
  BY <1>1, <1>2, <1>4, EnterVisit, InRows
<1>6. VisitFits(r)' /\ VisitIsCurrent(r)' /\ TokenFound(r)'
  BY <1>1, <1>2, <1>3, <1>5 DEF VisitFits, VisitIsCurrent, TokenFound
<1>7. QED
  BY <1>1, <1>3, <1>4, <1>5, <1>6, DomainsKept DEF Sure

\* ... and takes the route away after the row.
LEMMA UnrouteDomainKeeps ==
  ASSUME Fits, RowsTyped, DomainsInv, NEW r \in Requests, UnrouteDomain(r)
  PROVE  Sure(r) /\ DomainsInv'
<1>1. /\ req[r].pc = "unrouteDomain" /\ req[r].pc \in Removing /\ req[r].pc \notin Arming /\ Leave(r)
      /\ domainRoute' = [domainRoute EXCEPT ![visit[r].domain] = None]
      /\ UNCHANGED <<domains, services, outlived, proved>>
  BY Known DEF UnrouteDomain, At, recordVars
<1>2. visit \in [Requests -> VisitRecord] /\ domainRoute \in [Domains -> Rows(Names)]
  BY DEF DomainsInv, DomainsTyped, VisitRecord, Verified
<1>3. domainRoute' \in [Domains -> Rows(Names)]
  BY <1>1, <1>2, InRows
<1>4. QED
  BY <1>1, <1>2, <1>3, LeaveVisit, LeftVisit, DomainsKept, CalmSure DEF Sure

\* The token of the row that is activated was found, for the row is the one
\* whose token was looked for unless the domain is outlived.
LEMMA ActivateKeeps ==
  ASSUME Fits, RowsTyped, DomainsInv, NEW r \in Requests, Activate(r)
  PROVE  Sure(r) /\ DomainsInv'
<1> DEFINE d == visit[r].domain
<1>1. /\ req[r].pc = "activate" /\ req[r].pc \in Verifying /\ req[r].pc \notin Arming
      /\ "routeDomain" \in Verifying
      /\ UNCHANGED <<services, outlived, proved, domainRoute>>
  BY Known DEF Activate, At, recordVars
<1>2. /\ visit \in [Requests -> VisitRecord] /\ domainRoute' \in [Domains -> Rows(Names)]
      /\ domains \in [Domains -> Rows(DomainRow)]
      /\ VisitFits(r) /\ VisitIsCurrent(r) /\ TokenFound(r)
  BY <1>1 DEF DomainsInv, DomainsTyped, VisitRecord, Verified
<1>3. d \in Domains /\ visit[r].row.token \in proved /\ visit[r].row \in DomainRow
  BY <1>1, <1>2 DEF VisitFits, TokenFound
<1>4. /\ Sure(r) /\ visit' \in [Requests -> VisitRecord]
      /\ \A x \in Requests \ {r} : visit'[x] = visit[x]
      /\ VisitFits(r)'
      /\ req'[r].pc \in Verifying => visit'[r] = visit[r]
  <2>1. CASE Leave(r)
    BY <1>1, <1>2, <2>1, LeaveVisit, LeftVisit, CalmSure
  <2>2. CASE Goto(r, "routeDomain") /\ UNCHANGED visit
    <3>1. Sure(r) /\ req'[r].pc = "routeDomain"
      BY <1>1, <2>2, GotoDomain, Kinds
    <3>2. QED
      BY <1>1, <1>2, <2>2, <3>1, Kinds DEF VisitFits
  <2>3. QED
    BY <2>1, <2>2 DEF Activate
<1>5. /\ domains' \in [Domains -> Rows(DomainRow)]
      /\ \A e \in Domains :
           domains[e] # None <=> domains'[e] # None
      /\ \A e \in Domains : domains[e] # None =>
           /\ domains'[e].token = domains[e].token
           /\ domains'[e].service = domains[e].service
           /\ e # d => domains'[e] = domains[e]
  <2>1. CASE domains[d] = None
    BY <1>2, <2>1 DEF Activate
  <2>2. CASE domains[d] # None
    <3> DEFINE row == [domains[d] EXCEPT !.active = TRUE]
    <3>1. domains' = [domains EXCEPT ![d] = row]
      BY <1>3, <2>2 DEF Activate
    <3>2. /\ row \in DomainRow /\ row.token = domains[d].token
          /\ row.service = domains[d].service
      BY <1>3, <2>2, DomainRowThere DEF DomainsInv
    <3> HIDE DEF row, d
    <3>3. row # None
      BY <3>2, ServicesAssumption
    <3>4. QED
      BY <1>2, <1>3, <2>2, <3>1, <3>2, <3>3, InRows
  <2>3. QED
    BY <2>1, <2>2
<1>6. DomainsTyped'
  BY <1>2, <1>4, <1>5 DEF DomainsTyped, VisitRecord
<1>7. DomainsServed'
  BY <1>1, <1>5 DEF DomainsInv, DomainsServed
<1>8. d \in outlived \/ domains[d].token \in proved
  BY <1>1, <1>2, <1>3 DEF VisitIsCurrent
<1>9. ActiveWasProved'
  <2>1. ActiveWasProved
    BY DEF DomainsInv, Verified
  <2>2. QED
    BY <1>1, <1>5, <1>8, <2>1 DEF ActiveWasProved
<1>10. \A x \in Requests : req[x].pc \in Verifying => KeepsToken(visit[x].domain)
  <2> SUFFICES ASSUME NEW x \in Requests, req[x].pc \in Verifying
               PROVE  KeepsToken(visit[x].domain)
    OBVIOUS
  <2>1. VisitFits(x)
    BY DEF DomainsInv, Verified
  <2>2. visit[x].domain \in Domains
    BY <2>1 DEF VisitFits
  <2>3. QED
    BY <1>5, <2>2 DEF KeepsToken
<1>11. \A x \in Requests \ {r} : VisitFits(x)' /\ VisitIsCurrent(x)' /\ TokenFound(x)'
  BY <1>1, <1>4, <1>10, OthersVisit DEF Sure
<1>12. VisitIsCurrent(r)' /\ TokenFound(r)'
  <2>1. "activate" \in Verifying
    BY Known
  <2>2. QED
    BY <1>1, <1>2, <1>3, <1>4, <1>5, <2>1 DEF VisitIsCurrent, TokenFound
<1>13. QED
  BY <1>4, <1>6, <1>7, <1>9, <1>11, <1>12 DEF DomainsInv, Verified

\* A verification of the row that is deleted makes the domain outlived.
LEMMA DeleteDomainKeeps ==
  ASSUME Fits, RowsTyped, DomainsInv, NEW r \in Requests, DeleteDomain(r)
  PROVE  Sure(r) /\ DomainsInv'
<1> DEFINE d == visit[r].domain
<1>1. /\ req[r].pc = "deleteDomain" /\ req[r].pc \in Removing /\ req[r].pc \notin Arming
      /\ "unrouteDomain" \in Removing
      /\ UNCHANGED <<services, proved, domainRoute>>
      /\ domains' = [domains EXCEPT ![d] = None] /\ outlived \subseteq outlived'
  BY Known DEF DeleteDomain, At, recordVars
<1>2. /\ visit \in [Requests -> VisitRecord] /\ domainRoute' \in [Domains -> Rows(Names)]
      /\ domains \in [Domains -> Rows(DomainRow)] /\ VisitFits(r)
  BY <1>1 DEF DomainsInv, DomainsTyped, VisitRecord, Verified
<1>3. d \in Domains
  BY <1>1, <1>2 DEF VisitFits
<1>4. /\ Sure(r) /\ visit' \in [Requests -> VisitRecord]
      /\ \A x \in Requests \ {r} : visit'[x] = visit[x]
      /\ VisitFits(r)' /\ VisitIsCurrent(r)' /\ TokenFound(r)'
  <2>1. CASE Leave(r)
    BY <1>1, <1>2, <2>1, LeaveVisit, LeftVisit, CalmSure
  <2>2. CASE Goto(r, "unrouteDomain") /\ UNCHANGED visit
    <3>1. Sure(r) /\ req'[r].pc = "unrouteDomain"
      BY <1>1, <2>2, GotoDomain, Kinds
    <3>2. "unrouteDomain" \notin Verifying /\ "activate" \in Verifying /\ "routeDomain" \in Verifying
      BY Known, Kinds
    <3>3. QED
      BY <1>1, <1>2, <2>2, <3>1, <3>2 DEF VisitFits, VisitIsCurrent, TokenFound
  <2>3. QED
    BY <2>1, <2>2 DEF DeleteDomain
<1>5. domains'[d] = None /\ \A e \in Domains \ {d} : domains'[e] = domains[e]
  BY <1>1, <1>2, <1>3
<1>6. DomainsTyped'
  BY <1>1, <1>2, <1>4, InRows DEF DomainsTyped, VisitRecord
<1>7. DomainsServed'
  BY <1>1, <1>5 DEF DomainsInv, DomainsServed
<1>8. ActiveWasProved'
  BY <1>1, <1>5 DEF DomainsInv, Verified, ActiveWasProved
<1>9. \A x \in Requests : req[x].pc \in Verifying => KeepsToken(visit[x].domain)
  <2> SUFFICES ASSUME NEW x \in Requests, req[x].pc \in Verifying
               PROVE  KeepsToken(visit[x].domain)
    OBVIOUS
  <2>1. visit[x].domain \in Domains
    <3>1. VisitFits(x)
      BY DEF DomainsInv, Verified
    <3>2. QED
      BY <3>1 DEF VisitFits
  <2>2. CASE visit[x].domain = d
    <3>1. req[x].op \in {"verifyDomain", "verifyJob"}
      BY Underway DEF Labelled
    <3>2. outlived' = outlived \cup {d}
      BY <2>2, <3>1 DEF DeleteDomain
    <3>3. QED
      BY <2>2, <3>2 DEF KeepsToken
  <2>3. CASE visit[x].domain # d
    BY <1>5, <2>1, <2>3 DEF KeepsToken
  <2>4. QED
    BY <2>2, <2>3
<1>10. \A x \in Requests \ {r} : VisitFits(x)' /\ VisitIsCurrent(x)' /\ TokenFound(x)'
  BY <1>1, <1>4, <1>9, OthersVisit DEF Sure
<1>11. QED
  BY <1>4, <1>6, <1>7, <1>8, <1>10 DEF DomainsInv, Verified

\* Every step about a domain.
LEMMA DomainStepKeeps ==
  ASSUME Fits, RowsTyped, DomainsInv, NEW r \in Requests, DomainStep(r)
  PROVE  Sure(r) /\ DomainsInv' /\ UNCHANGED recordVars
<1>1. Sure(r) /\ DomainsInv'
  BY AddDomainKeeps, FindDomainKeeps, InsertDomainKeeps, VerifyDomainKeeps, CheckTxtRecordKeeps,
     ActivateKeeps, RouteDomainKeeps, RemoveDomainKeeps, DeleteDomainKeeps, UnrouteDomainKeeps
     DEF DomainStep
<1>2. UNCHANGED recordVars
  BY DEF DomainStep, AddDomain, FindDomain, InsertDomain, VerifyDomain, CheckTxtRecord,
     Activate,
         RouteDomain, RemoveDomain, DeleteDomain, UnrouteDomain, KeepRows
<1>3. QED
  BY <1>1, <1>2

\* A step of another request, that deletes no service.
LEMMA DomainsElsewhere ==
  ASSUME Fits, DomainsInv, NEW r \in Requests, Goes(r), Elsewhere(r), UNCHANGED domainVars,
         \A n \in Names : services[n] # None => services'[n] # None
  PROVE  DomainsInv'
<1>1. /\ DomainsTyped' /\ ActiveWasProved'
      /\ UNCHANGED <<domains, visit, proved, outlived>>
  BY DEF DomainsInv, DomainsTyped, Verified, ActiveWasProved, domainVars
<1>2. DomainsServed'
  <2>1. DomainsServed /\ DomainsTyped
    BY DEF DomainsInv
  <2>2. \A d \in Domains : domains[d] # None /\ domains[d].service # None => domains[d].service \in Names
    BY <2>1, DomainRowThere DEF Rows
  <2>3. QED
    BY <1>1, <2>1, <2>2 DEF DomainsServed
<1>3. \A x \in Requests \ {r} : VisitFits(x)' /\ VisitIsCurrent(x)' /\ TokenFound(x)'
  BY <1>1, OthersVisit DEF KeepsToken
<1>4. QED
  BY <1>1, <1>2, <1>3, LeftVisit DEF DomainsInv, Verified, Elsewhere

\* The domains of a deleted service name none.
LEMMA DetachKeeps ==
  ASSUME Fits, DomainsInv, NEW r \in Requests, Goes(r), Elsewhere(r), Detach,
         UNCHANGED <<domainRoute, visit, proved, outlived>>,
         \A n \in Names : services'[n] \in {services[n], None}
  PROVE  DomainsInv'
<1>1. domains \in [Domains -> Rows(DomainRow)] /\ DomainsTyped
  BY DEF DomainsInv, DomainsTyped
<1>2. domains' = [d \in Domains |->
        IF domains[d] # None /\ domains[d].service # None /\ services'[domains[d].service] = None
          THEN [domains[d] EXCEPT !.service = None] ELSE domains[d]]
  BY DEF Detach
<1>3. \A d \in Domains :
        \/ domains'[d] = domains[d]
           /\ (domains[d] # None /\ domains[d].service # None => services'[domains[d].service] # None)
        \/ /\ domains[d] # None /\ domains'[d] \in DomainRow /\ domains'[d] # None
           /\ domains'[d].token = domains[d].token /\ domains'[d].active = domains[d].active
           /\ domains'[d].service = None
  <2> SUFFICES ASSUME NEW d \in Domains
               PROVE  \/ domains'[d] = domains[d]
                         /\ (domains[d] # None /\ domains[d].service # None
                               => services'[domains[d].service] # None)
                      \/ /\ domains[d] # None /\ domains'[d] \in DomainRow /\ domains'[d] # None
                         /\ domains'[d].token = domains[d].token
                         /\ domains'[d].active = domains[d].active
                         /\ domains'[d].service = None
    OBVIOUS
  <2> DEFINE gone == /\ domains[d] # None /\ domains[d].service # None
                     /\ services'[domains[d].service] = None
  <2>1. CASE gone
    <3> DEFINE row == [domains[d] EXCEPT !.service = None]
    <3>1. domains'[d] = row
      BY <1>2, <2>1
    <3>2. /\ row \in DomainRow /\ row.token = domains[d].token /\ row.active = domains[d].active
          /\ row.service = None
      BY <1>1, <2>1, DomainRowThere
    <3> HIDE DEF row
    <3>3. row # None
      BY <3>2, ServicesAssumption
    <3>4. QED
      BY <2>1, <3>1, <3>2, <3>3
  <2>2. CASE ~gone
    BY <1>2, <2>2
  <2>3. QED
    BY <2>1, <2>2
<1>4. DomainsTyped'
  <2>1. \A d \in Domains : domains'[d] \in Rows(DomainRow)
    BY <1>1, <1>3, InRows
  <2>2. domains' \in [Domains -> Rows(DomainRow)]
    BY <1>2, <2>1
  <2>3. QED
    BY <1>1, <2>2 DEF DomainsTyped
<1>5. DomainsServed'
  BY <1>3 DEF DomainsServed
<1>6. ActiveWasProved'
  <2>1. ActiveWasProved
    BY DEF DomainsInv, Verified
  <2>2. QED
    BY <1>3, <2>1 DEF ActiveWasProved
<1>7. \A x \in Requests \ {r} : req[x].pc \in Verifying => KeepsToken(visit[x].domain)
  <2> SUFFICES ASSUME NEW x \in Requests, req[x].pc \in Verifying
               PROVE  KeepsToken(visit[x].domain)
    OBVIOUS
  <2>1. VisitFits(x)
    BY DEF DomainsInv, Verified
  <2>2. visit[x].domain \in Domains
    BY <2>1 DEF VisitFits
  <2>3. QED
    BY <1>3, <2>2 DEF KeepsToken
<1>8. \A x \in Requests \ {r} : VisitFits(x)' /\ VisitIsCurrent(x)' /\ TokenFound(x)'
  BY <1>7, OthersVisit
<1>9. QED
  BY <1>4, <1>5, <1>6, <1>8, LeftVisit DEF DomainsInv, Verified, Elsewhere

(* --- Rows and settings, step by step ----------------------------------- *)

\* The ids of services and those of deployments are apart, and None is neither.
LEMMA IdsApart ==
  /\ \A s \in ServiceIds : s \notin DepIds /\ s # None
  /\ \A d \in DepIds : d \notin ServiceIds /\ d # None
BY ServiceRecordsAssumption

\* A step that writes no service keeps what requests hold, ...
LEMMA HeldKept ==
  ASSUME Fits, RowsTyped, IdsUnique, HeldIsOwn, NEW r \in Requests, Goes(r), Refers(r),
         UNCHANGED services
  PROVE  HeldIsOwn'
<1> SUFFICES ASSUME NEW x \in Requests, NEW n \in Names,
                    services[n] # None, services[n].id = req'[x].service
             PROVE  services[n].cluster = req'[x].cluster
  BY DEF HeldIsOwn
<1>1. CASE x # r
  BY <1>1 DEF Fits, Goes, HeldIsOwn
<1>2. CASE x = r
  <2>1. req'[r].service # None
    BY <1>2, RowsThere, IdsApart
  <2>2. QED
    BY <1>2, <2>1 DEF Refers, HeldIsOwn, IdsUnique
<1>3. QED
  BY <1>1, <1>2

\* ... and one that writes no row at all keeps everything.
LEMMA RowsStill ==
  ASSUME Fits, RowsInv, NEW r \in Requests, Goes(r), Refers(r),
         UNCHANGED <<mix, services, deployments, settings, lapsed>>
  PROVE  RowsInv'
<1>1. HeldIsOwn'
  BY HeldKept DEF RowsInv
<1>2. QED
  BY <1>1 DEF RowsInv, RowsTyped, IdsUnique, SettingsHang, LinkIsOwn, ownsLink,
              ServiceSettingsAreOwn, exists, liveServices, liveDeps

\* services.upsert: a new row has an id nothing refers to, an old one keeps its
\* id and its cluster, and the link leads to a row of the cluster.
LEMMA Upserted ==
  ASSUME RowsTyped, NEW c \in Clusters, NEW n \in Names, NEW dep \in Rows(DepIds),
         mayWrite(c, n, dep), UpsertService(c, n, dep)
  PROVE  /\ services' \in [Names -> Rows(ServiceRow)]
         /\ services'[n] \in ServiceRow /\ services'[n] # None /\ services'[n].cluster = c
         /\ \A m \in Names \ {n} : services'[m] = services[m]
         /\ \/ services[n] = None /\ services'[n].id \in FreshService
            \/ /\ services[n] # None /\ services'[n].id = services[n].id
               /\ services[n].cluster = c
         /\ lapsed' = lapsed \ {n} /\ ownsLink(c, services'[n].dep)
<1>1. PICK id \in IF services[n] = None THEN FreshService ELSE {services[n].id} :
        /\ services' = [services EXCEPT ![n] =
          [id |-> id, cluster |-> c, dep |-> link(n, dep),
           iced |-> services[n] # None /\ services[n].iced]]
        /\ lapsed' = lapsed \ {n}
  BY DEF UpsertService, WriteService
<1> DEFINE d == link(n, dep)
           b == services[n] # None /\ services[n].iced
           row == [id |-> id, cluster |-> c, dep |-> d, iced |-> b]
<1>2. services' = [services EXCEPT ![n] = row]
  BY <1>1
<1>3. id \in ServiceIds /\ d \in Rows(DepIds) /\ b \in BOOLEAN
  <2>1. id \in ServiceIds
    BY RowsThere DEF FreshService
  <2>2. d \in Rows(DepIds)
    BY RowsThere DEF link
  <2>3. b \in BOOLEAN
    OBVIOUS
  <2>4. QED
    BY <2>1, <2>2, <2>3
<1>4. ownsLink(c, d) /\ lapsed' = lapsed \ {n}
  BY <1>1 DEF mayWrite
<1> HIDE DEF d, b
<1>5. row \in ServiceRow /\ row.cluster = c /\ row.id = id /\ row.dep = d
  BY <1>3 DEF ServiceRow
<1> HIDE DEF row
<1>6. row # None
  BY <1>5, ServicesAssumption
<1>7. services \in [Names -> Rows(ServiceRow)]
  BY DEF RowsTyped
<1>8. services'[n] = row /\ \A m \in Names \ {n} : services'[m] = services[m]
  BY <1>2, <1>7
<1>9. services' \in [Names -> Rows(ServiceRow)]
  BY <1>2, <1>5, <1>7, InRows
<1>10. \/ services[n] = None /\ id \in FreshService
       \/ services[n] # None /\ id = services[n].id /\ services[n].cluster = c
  BY DEF mayWrite
<1>11. QED
  BY <1>4, <1>5, <1>6, <1>8, <1>9, <1>10

\* A service that is written leaves settings, links and the ids requests hold in order.
LEMMA UpsertServiceKeeps ==
  ASSUME Fits, RowsInv, NEW r \in Requests, Goes(r),
         NEW c \in Clusters, NEW n \in Names, NEW dep \in Rows(DepIds),
         mayWrite(c, n, dep), UpsertService(c, n, dep),
         UNCHANGED <<mix, deployments, settings>>,
         Refers(r) \/ (req'[r].service = services'[n].id /\ req'[r].cluster = c)
  PROVE  RowsInv' /\ \A m \in Names : services[m] # None => services'[m] # None
<1>0. RowsTyped /\ IdsUnique /\ SettingsHang /\ HeldIsOwn /\ LinkIsOwn /\ ServiceSettingsAreOwn
  BY DEF RowsInv
<1>1. /\ services' \in [Names -> Rows(ServiceRow)]
      /\ services'[n] \in ServiceRow /\ services'[n] # None /\ services'[n].cluster = c
      /\ \A m \in Names \ {n} : services'[m] = services[m]
      /\ \/ services[n] = None /\ services'[n].id \in FreshService
         \/ /\ services[n] # None /\ services'[n].id = services[n].id
            /\ services[n].cluster = c
      /\ lapsed' = lapsed \ {n} /\ ownsLink(c, services'[n].dep)
  BY <1>0, Upserted
<1>2. services'[n].id \in FreshService =>
        /\ \A m \in Names : services[m] # None => services[m].id # services'[n].id
        /\ \A x \in Requests : req[x].service # services'[n].id
        /\ \A x \in settings : x.at # services'[n].id
  BY DEF FreshService, liveServices, heldServices
<1>3. RowsTyped'
  BY <1>0, <1>1 DEF RowsTyped
<1>4. IdsUnique'
  BY <1>0, <1>1, <1>2 DEF IdsUnique
<1>5. \A m \in Names : services[m] # None => services'[m] # None /\ services'[m].id = services[m].id
                                             /\ services'[m].cluster = services[m].cluster
  BY <1>1
<1>6. SettingsHang'
  <2>1. liveServices \subseteq liveServices'
    BY <1>5 DEF liveServices
  <2>2. QED
    BY <1>0, <2>1 DEF SettingsHang, exists, liveDeps
<1>7. HeldIsOwn'
  <2> SUFFICES ASSUME NEW x \in Requests, NEW m \in Names,
                      services'[m] # None, services'[m].id = req'[x].service
               PROVE  services'[m].cluster = req'[x].cluster
    BY DEF HeldIsOwn
  <2>1. \A y \in Requests : services'[m].id = req[y].service => services'[m].cluster = req[y].cluster
    BY <1>0, <1>1, <1>2 DEF HeldIsOwn
  <2>2. CASE x # r
    BY <2>1, <2>2 DEF Goes, Fits
  <2>3. CASE x = r
    <3>1. req'[r].service # None
      BY <1>3, <2>3, IdsApart DEF RowsTyped, Rows, ServiceRow
    <3>2. CASE req'[r].service = services'[n].id /\ req'[r].cluster = c
      BY <1>1, <1>4, <2>3, <3>2 DEF IdsUnique
    <3>3. CASE Refers(r)
      <4>1. CASE req'[r].service = req[r].service /\ req'[r].cluster = req[r].cluster
        BY <2>1, <2>3, <4>1
      <4>2. CASE \E k \in Names : /\ services[k] # None /\ req'[r].service = services[k].id
                                  /\ req'[r].cluster = services[k].cluster
        BY <1>4, <1>5, <2>3, <4>2 DEF IdsUnique
      <4>3. QED
        BY <3>1, <3>3, <4>1, <4>2 DEF Refers
    <3>4. QED
      BY <3>2, <3>3
  <2>4. QED
    BY <2>2, <2>3
<1>8. LinkIsOwn'
  <2> SUFFICES ASSUME NEW m \in Names, services'[m] # None, m \notin lapsed'
               PROVE  ownsLink(services'[m].cluster, services'[m].dep)
    BY DEF LinkIsOwn, ownsLink
  <2>1. CASE m = n
    BY <1>1, <2>1
  <2>2. CASE m # n
    BY <1>0, <1>1, <2>2 DEF LinkIsOwn
  <2>3. QED
    BY <2>1, <2>2
<1>9. ServiceSettingsAreOwn'
  BY <1>0, <1>1, <1>2 DEF ServiceSettingsAreOwn
<1>10. QED
  BY <1>3, <1>4, <1>5, <1>6, <1>7, <1>8, <1>9 DEF RowsInv

\* deployments.upsert and patchConfig: a row keeps its id and its cluster.
LEMMA DeploymentKeeps ==
  ASSUME Fits, RowsInv, NEW r \in Requests, Goes(r), Refers(r), NEW n \in Names,
         NEW row \in DepRow, deployments' = [deployments EXCEPT ![n] = row],
         deployments[n] # None => row.id = deployments[n].id /\ row.cluster = deployments[n].cluster,
         UNCHANGED <<mix, services, settings, lapsed>>
  PROVE  RowsInv'
<1>0. RowsTyped /\ IdsUnique /\ SettingsHang /\ HeldIsOwn /\ LinkIsOwn /\ ServiceSettingsAreOwn
  BY DEF RowsInv
<1>1. row # None
  BY ServicesAssumption
<1>2. deployments'[n] = row /\ \A m \in Names \ {n} : deployments'[m] = deployments[m]
  BY <1>0 DEF RowsTyped
<1>3. RowsTyped'
  BY <1>0, InRows DEF RowsTyped
<1>4. \A m \in Names : deployments[m] # None =>
        /\ deployments'[m] # None /\ deployments'[m].id = deployments[m].id
        /\ deployments'[m].cluster = deployments[m].cluster
  BY <1>1, <1>2
<1>5. SettingsHang'
  <2>1. liveDeps \subseteq liveDeps'
    BY <1>4 DEF liveDeps
  <2>2. QED
    BY <1>0, <2>1 DEF SettingsHang, exists, liveServices
<1>6. LinkIsOwn'
  <2> SUFFICES ASSUME NEW m \in Names, services[m] # None, m \notin lapsed
               PROVE  ownsLink(services[m].cluster, services[m].dep)'
    BY DEF LinkIsOwn
  <2>1. ownsLink(services[m].cluster, services[m].dep)
    BY <1>0 DEF LinkIsOwn
  <2>2. QED
    BY <1>4, <2>1 DEF ownsLink
<1>7. IdsUnique' /\ ServiceSettingsAreOwn'
  BY <1>0 DEF IdsUnique, ServiceSettingsAreOwn
<1>8. HeldIsOwn'
  BY <1>0, HeldKept
<1>9. QED
  BY <1>3, <1>5, <1>6, <1>7, <1>8 DEF RowsInv

\* Settings written on a row that is there, for the cluster of a service if it is one.
LEMMA SettingsKeep ==
  ASSUME Fits, RowsInv, NEW r \in Requests, Goes(r), Refers(r),
         NEW at \in ServiceIds \cup DepIds, NEW c \in Clusters, exists(at),
         settings' \subseteq settings \cup {[at |-> at, of |-> c]},
         \A n \in Names : services[n] # None /\ services[n].id = at => services[n].cluster = c,
         UNCHANGED <<mix, services, deployments, lapsed>>
  PROVE  RowsInv'
<1>0. RowsTyped /\ IdsUnique /\ SettingsHang /\ HeldIsOwn /\ LinkIsOwn /\ ServiceSettingsAreOwn
  BY DEF RowsInv
<1>1. [at |-> at, of |-> c] \in Setting
  BY DEF Setting
<1>2. RowsTyped'
  BY <1>0, <1>1 DEF RowsTyped
<1>3. SettingsHang'
  BY <1>0 DEF SettingsHang, exists, liveServices, liveDeps
<1>4. ServiceSettingsAreOwn'
  BY <1>0 DEF ServiceSettingsAreOwn
<1>5. IdsUnique' /\ LinkIsOwn'
  BY <1>0 DEF IdsUnique, LinkIsOwn, ownsLink
<1>6. HeldIsOwn'
  BY <1>0, HeldKept
<1>7. QED
  BY <1>2, <1>3, <1>4, <1>5, <1>6 DEF RowsInv

\* DELETE /deployments/:id.  A link to the row may stay: it has lapsed.
LEMMA DeleteDeploymentKeeps ==
  ASSUME Fits, RowsInv, NEW r \in Requests, DeleteDeployment(r), Goes(r), Refers(r)
  PROVE  RowsInv'
<1> DEFINE id == req[r].dep
<1>0. /\ RowsTyped /\ IdsUnique /\ SettingsHang /\ HeldIsOwn /\ LinkIsOwn /\ ServiceSettingsAreOwn
      /\ UNCHANGED <<mix, services>>
  BY DEF RowsInv, DeleteDeployment
<1>1. /\ deployments' = [n \in Names |-> IF n \in nameOfDep(id) THEN None ELSE deployments[n]]
      /\ settings' = without(id)
      /\ lapsed' = lapsed \cup {n \in Names : services[n] # None /\ services[n].dep = id}
  BY DEF DeleteDeployment
<1>2. \A n \in Names :
        \/ deployments'[n] = None /\ (deployments[n] = None \/ deployments[n].id = id)
        \/ deployments[n] # None /\ deployments[n].id # id /\ deployments'[n] = deployments[n]
  BY <1>1 DEF nameOfDep
<1>4. RowsTyped'
  <2>1. deployments' \in [Names -> Rows(DepRow)]
    BY <1>0, <1>1, InRows DEF RowsTyped
  <2>2. settings' \subseteq Setting /\ lapsed' \subseteq Names
    BY <1>0, <1>1 DEF RowsTyped, without
  <2>3. QED
    BY <1>0, <2>1, <2>2 DEF RowsTyped
<1>5. SettingsHang'
  <2> SUFFICES ASSUME NEW x \in settings'
               PROVE  x.at \in liveServices' \/ x.at \in liveDeps'
    BY DEF SettingsHang, exists
  <2>1. x \in settings /\ x.at # id
    BY <1>1 DEF without
  <2>2. CASE x.at \in liveServices
    BY <1>0, <2>2 DEF liveServices
  <2>3. CASE x.at \in liveDeps
    <3>1. PICK n \in Names : deployments[n] # None /\ deployments[n].id = x.at
      BY <2>3 DEF liveDeps
    <3>2. deployments'[n] # None /\ deployments'[n].id = x.at
      BY <1>2, <2>1, <3>1
    <3>3. QED
      BY <3>2 DEF liveDeps
  <2>4. QED
    BY <1>0, <2>1, <2>2, <2>3 DEF SettingsHang, exists
<1>6. LinkIsOwn'
  <2> SUFFICES ASSUME NEW m \in Names, services[m] # None, m \notin lapsed'
               PROVE  ownsLink(services[m].cluster, services[m].dep)'
    BY <1>0 DEF LinkIsOwn
  <2>1. m \notin lapsed /\ services[m].dep # id
    BY <1>1
  <2>2. ownsLink(services[m].cluster, services[m].dep)
    BY <1>0, <2>1 DEF LinkIsOwn
  <2>3. QED
    BY <1>0, <1>2, <2>1, <2>2 DEF ownsLink
<1>7. IdsUnique' /\ ServiceSettingsAreOwn'
  BY <1>0, <1>1 DEF IdsUnique, ServiceSettingsAreOwn, without
<1>8. HeldIsOwn'
  BY <1>0, HeldKept
<1>9. QED
  BY <1>4, <1>5, <1>6, <1>7, <1>8 DEF RowsInv

\* services.delete, and the settings that hang on the row.
LEMMA DeleteServiceKeeps ==
  ASSUME Fits, RowsInv, NEW r \in Requests, DeleteService(r), Goes(r), Refers(r)
  PROVE  RowsInv' /\ \A n \in Names : services'[n] \in {services[n], None}
<1> DEFINE id == req[r].service
<1>0. /\ RowsTyped /\ IdsUnique /\ SettingsHang /\ HeldIsOwn /\ LinkIsOwn /\ ServiceSettingsAreOwn
      /\ UNCHANGED <<mix, deployments>>
  BY DEF RowsInv, DeleteService
<1>1. /\ services' = [n \in Names |-> IF services[n] # None /\ services[n].id = id
                                        THEN None ELSE services[n]]
      /\ settings' = without(id) /\ lapsed' = {n \in lapsed : services'[n] # None}
  BY DEF DeleteService
<1>2. \A n \in Names :
        \/ services'[n] = None /\ (services[n] = None \/ services[n].id = id)
        \/ services[n] # None /\ services[n].id # id /\ services'[n] = services[n]
  BY <1>1
<1>3. RowsTyped'
  <2>1. services' \in [Names -> Rows(ServiceRow)]
    BY <1>0, <1>1, InRows DEF RowsTyped
  <2>2. QED
    BY <1>0, <1>1, <2>1 DEF RowsTyped, without
<1>4. SettingsHang'
  <2> SUFFICES ASSUME NEW x \in settings'
               PROVE  x.at \in liveServices' \/ x.at \in liveDeps'
    BY DEF SettingsHang, exists
  <2>1. x \in settings /\ x.at # id
    BY <1>1 DEF without
  <2>2. CASE x.at \in liveDeps
    BY <1>0, <2>2 DEF liveDeps
  <2>3. CASE x.at \in liveServices
    <3>1. PICK n \in Names : services[n] # None /\ services[n].id = x.at
      BY <2>3 DEF liveServices
    <3>2. services'[n] # None /\ services'[n].id = x.at
      BY <1>2, <2>1, <3>1
    <3>3. QED
      BY <3>2 DEF liveServices
  <2>4. QED
    BY <1>0, <2>1, <2>2, <2>3 DEF SettingsHang, exists
<1>5. IdsUnique' /\ ServiceSettingsAreOwn' /\ LinkIsOwn'
  BY <1>0, <1>1, <1>2 DEF IdsUnique, ServiceSettingsAreOwn, without, LinkIsOwn, ownsLink
<1>6. HeldIsOwn'
  <2> SUFFICES ASSUME NEW x \in Requests, NEW n \in Names,
                      services'[n] # None, services'[n].id = req'[x].service
               PROVE  services'[n].cluster = req'[x].cluster
    BY DEF HeldIsOwn
  <2>1. services[n] # None /\ services'[n] = services[n]
    BY <1>2
  <2>2. CASE x # r
    BY <1>0, <2>1, <2>2 DEF Goes, Fits, HeldIsOwn
  <2>3. CASE x = r
    <3>1. req'[r].service # None
      BY <1>0, <2>1, <2>3, RowsThere, IdsApart
    <3>2. QED
      BY <1>0, <2>1, <2>3, <3>1 DEF Refers, HeldIsOwn, IdsUnique
  <2>4. QED
    BY <2>2, <2>3
<1>7. QED
  BY <1>2, <1>3, <1>4, <1>5, <1>6 DEF RowsInv

\* services.markIced changes nothing else of a row, whose link the trigger looks at.
LEMMA IcedKeeps ==
  ASSUME Fits, RowsInv, NEW r \in Requests, Goes(r), Refers(r), NEW o \in Names,
         services[o] # None, mayWrite(services[o].cluster, o, None),
         WriteService(o, [services[o] EXCEPT !.iced = TRUE]),
         UNCHANGED <<mix, deployments, settings>>
  PROVE  RowsInv' /\ \A n \in Names : services[n] # None => services'[n] # None
<1>0. RowsTyped /\ IdsUnique /\ SettingsHang /\ HeldIsOwn /\ LinkIsOwn /\ ServiceSettingsAreOwn
  BY DEF RowsInv
<1>1. /\ services' = [n \in Names |-> IF n = o THEN [services[n] EXCEPT !.iced = TRUE]
                                               ELSE services[n]]
      /\ lapsed' = lapsed \ {o} /\ ownsLink(services[o].cluster, services[o].dep)
  BY <1>0 DEF WriteService, RowsTyped, mayWrite, link
<1>2. \A n \in Names : services[n] # None =>
        /\ services'[n] \in ServiceRow /\ services'[n] # None
        /\ services'[n].id = services[n].id /\ services'[n].cluster = services[n].cluster
        /\ services'[n].dep = services[n].dep
  <2> SUFFICES ASSUME NEW n \in Names, services[n] # None
               PROVE  /\ services'[n] \in ServiceRow /\ services'[n] # None
                      /\ services'[n].id = services[n].id
                      /\ services'[n].cluster = services[n].cluster
                      /\ services'[n].dep = services[n].dep
    OBVIOUS
  <2> DEFINE row == [services[n] EXCEPT !.iced = TRUE]
  <2>1. services[n] \in ServiceRow
    BY <1>0, RowsThere
  <2>2. /\ row \in ServiceRow /\ row.id = services[n].id /\ row.cluster = services[n].cluster
        /\ row.dep = services[n].dep
    BY <2>1 DEF ServiceRow
  <2>3. services'[n] = row \/ services'[n] = services[n]
    BY <1>1
  <2> HIDE DEF row
  <2>4. row # None
    BY <2>2, ServicesAssumption
  <2>5. QED
    BY <2>1, <2>2, <2>3, <2>4
<1>3. \A n \in Names : services[n] = None => services'[n] = None
  BY <1>1
<1>4. RowsTyped'
  <2>1. \A n \in Names : services'[n] \in Rows(ServiceRow)
    BY <1>2, <1>3, InRows
  <2>2. services' \in [Names -> Rows(ServiceRow)]
    BY <1>1, <2>1
  <2>3. QED
    BY <1>0, <1>1, <2>2 DEF RowsTyped
<1>5. liveServices' = liveServices
  BY <1>2, <1>3 DEF liveServices
<1>6. SettingsHang'
  BY <1>0, <1>5 DEF SettingsHang, exists, liveDeps
<1>7. IdsUnique' /\ ServiceSettingsAreOwn'
  BY <1>0, <1>2, <1>3 DEF IdsUnique, ServiceSettingsAreOwn
<1>8. LinkIsOwn'
  <2> SUFFICES ASSUME NEW m \in Names, services'[m] # None, m \notin lapsed'
               PROVE  ownsLink(services'[m].cluster, services'[m].dep)
    BY DEF LinkIsOwn, ownsLink
  <2>1. /\ services[m] # None /\ services'[m].cluster = services[m].cluster
        /\ services'[m].dep = services[m].dep
    BY <1>2, <1>3
  <2>2. ownsLink(services[m].cluster, services[m].dep)
    BY <1>0, <1>1, <2>1 DEF LinkIsOwn
  <2>3. QED
    BY <2>1, <2>2
<1>9. HeldIsOwn'
  <2> SUFFICES ASSUME NEW x \in Requests, NEW n \in Names,
                      services'[n] # None, services'[n].id = req'[x].service
               PROVE  services'[n].cluster = req'[x].cluster
    BY DEF HeldIsOwn
  <2>1. /\ services[n] # None /\ services'[n].id = services[n].id
        /\ services'[n].cluster = services[n].cluster
    BY <1>2, <1>3
  <2>2. CASE x # r
    BY <1>0, <2>1, <2>2 DEF Goes, Fits, HeldIsOwn
  <2>3. CASE x = r
    <3>1. req'[r].service # None
      BY <1>0, <2>1, <2>3, RowsThere, IdsApart
    <3>2. QED
      BY <1>0, <2>1, <2>3, <3>1 DEF Refers, HeldIsOwn, IdsUnique
  <2>4. QED
    BY <2>2, <2>3
<1>10. QED
  BY <1>2, <1>4, <1>6, <1>7, <1>8, <1>9 DEF RowsInv

\* hobbyIceSupervisor.
LEMMA MarkIcedKeeps ==
  ASSUME Fits, RowsInv, NEW r \in Requests, MarkIced(r), Goes(r), Refers(r)
  PROVE  RowsInv' /\ \A n \in Names : services[n] # None => services'[n] # None
<1> DEFINE o == req[r].name
<1>1. UNCHANGED <<mix, deployments, settings>> /\ o \in Names
  BY Known, Underway DEF MarkIced, At
<1>2. CASE UNCHANGED <<services, lapsed>>
  BY <1>1, <1>2, RowsStill
<1>3. CASE ~UNCHANGED <<services, lapsed>>
  <2>1. /\ services[o] # None /\ mayWrite(services[o].cluster, o, None)
        /\ WriteService(o, [services[o] EXCEPT !.iced = TRUE])
    BY <1>3 DEF MarkIced
  <2> HIDE DEF o
  <2>2. QED
    BY <1>1, <2>1, IcedKeeps
<1>4. QED
  BY <1>2, <1>3

\* The writers among the steps on rows.
Grown == \A n \in Names : services[n] # None => services'[n] # None

\* create, without an instance.
LEMMA ReserveKeeps ==
  ASSUME Fits, RowsInv, NEW r \in Requests, Reserve(r), Calm(r)
  PROVE  RowsInv' /\ Grown
<1>1. /\ req[r].pc \in Plain /\ req[r].cluster \in Clusters /\ req[r].name \in Names
      /\ UNCHANGED <<mix, deployments, settings>> /\ Goes(r) /\ Refers(r)
      /\ None \in Rows(DepIds)
  BY Known, Underway, InRows DEF Reserve, At, Calm
<1>2. CASE UNCHANGED <<services, lapsed>>
  BY <1>1, <1>2, RowsStill DEF Grown
<1>3. CASE ~UNCHANGED <<services, lapsed>>
  <2>1. mayWrite(req[r].cluster, req[r].name, None) /\ UpsertService(req[r].cluster, req[r].name, None)
    BY <1>3 DEF Reserve
  <2>2. QED
    BY <1>1, <2>1, UpsertServiceKeeps DEF Grown
<1>4. QED
  BY <1>2, <1>3

\* createMissingServices and backfillDeploymentLinks.
LEMMA CreateServiceKeeps ==
  ASSUME Fits, RowsInv, NEW r \in Requests, CreateService(r), Calm(r)
  PROVE  RowsInv' /\ Grown
<1>1. /\ req[r].pc \in Supervising /\ req[r].cluster \in Clusters /\ req[r].name \in Names
      /\ UNCHANGED <<mix, deployments, settings>> /\ Goes(r) /\ Refers(r)
  BY Known, Underway DEF CreateService, At, Calm
<1>2. req[r].dep \in Rows(DepIds)
  BY Underway DEF Request
<1>3. CASE UNCHANGED <<services, lapsed>>
  BY <1>1, <1>3, RowsStill DEF Grown
<1>4. CASE ~UNCHANGED <<services, lapsed>>
  <2>1. /\ mayWrite(req[r].cluster, req[r].name, req[r].dep)
        /\ UpsertService(req[r].cluster, req[r].name, req[r].dep)
    BY <1>4 DEF CreateService
  <2>2. QED
    BY <1>1, <1>2, <2>1, UpsertServiceKeeps DEF Grown
<1>5. QED
  BY <1>3, <1>4

\* finish, once the deployment is written.
LEMMA UpsertFinishedKeeps ==
  ASSUME Fits, RowsInv, NEW r \in Requests, UpsertFinished(r)
  PROVE  RowsInv' /\ Grown /\ Goes(r) /\ Steady(r) /\ Elsewhere(r)
<1>0. RowsTyped
  BY DEF RowsInv
<1>1. /\ req[r].pc \in Plain /\ req[r].cluster \in Clusters /\ req[r].name \in Names
  BY Known, Underway DEF UpsertFinished, At
<1>2. req[r].dep \in Rows(DepIds)
  BY Underway DEF Request
<1>3. /\ Goes(r) /\ Steady(r) /\ Elsewhere(r) /\ req'[r].cluster = req[r].cluster
      /\ \/ Refers(r) /\ UNCHANGED <<services, lapsed>>
         \/ /\ mayWrite(req[r].cluster, req[r].name, req[r].dep)
            /\ UpsertService(req[r].cluster, req[r].name, req[r].dep)
            /\ req'[r].service = services'[req[r].name].id
      /\ UNCHANGED <<mix, deployments, settings, lobby>>
  BY <1>0, UpsertFinishedMoves
<1>4. CASE Refers(r) /\ UNCHANGED <<services, lapsed>>
  BY <1>3, <1>4, RowsStill DEF Grown
<1>5. CASE ~(Refers(r) /\ UNCHANGED <<services, lapsed>>)
  BY <1>1, <1>2, <1>3, <1>5, UpsertServiceKeeps DEF Grown
<1>6. QED
  BY <1>4, <1>5

\* patchConfig.
LEMMA PatchConfigKeeps ==
  ASSUME Fits, RowsInv, NEW r \in Requests, PatchConfig(r), Calm(r)
  PROVE  RowsInv'
<1> DEFINE n == req[r].name
           row == [deployments[n] EXCEPT !.finished = FALSE]
<1>1. Goes(r) /\ Refers(r) /\ UNCHANGED <<mix, services, settings, lapsed>> /\ RowsTyped
      /\ n \in Names
  BY Known, Underway DEF PatchConfig, At, Calm, RowsInv
<1>2. CASE deployments[n] = None
  BY <1>1, <1>2, RowsStill DEF PatchConfig
<1>3. CASE deployments[n] # None
  <2>1. deployments' = [deployments EXCEPT ![n] = row]
    BY <1>3 DEF PatchConfig
  <2>2. deployments[n] \in DepRow
    BY <1>1, <1>3, RowsThere
  <2>3. row \in DepRow /\ row.id = deployments[n].id /\ row.cluster = deployments[n].cluster
    BY <2>2 DEF DepRow
  <2> HIDE DEF row, n
  <2>4. QED
    BY <1>1, <2>1, <2>3, DeploymentKeeps
<1>4. QED
  BY <1>2, <1>3

\* deployments.upsert, of a request that knows the id its row would have.
LEMMA UpsertedRow ==
  ASSUME RowsTyped, NEW c \in Clusters, NEW n \in Names, NEW id \in DepIds, NEW f \in BOOLEAN
  PROVE  /\ upserted(c, n, id, f) \in DepRow
         /\ deployments[n] # None => /\ upserted(c, n, id, f).id = deployments[n].id
                                     /\ upserted(c, n, id, f).cluster = deployments[n].cluster
<1>1. CASE deployments[n] = None
  BY <1>1 DEF upserted, DepRow
<1>2. CASE deployments[n] # None
  <2> DEFINE b == deployments[n].finished \/ f
             row == [deployments[n] EXCEPT !.finished = b]
  <2>1. upserted(c, n, id, f) = row
    BY <1>2 DEF upserted
  <2>2. deployments[n] \in DepRow /\ b \in BOOLEAN
    BY <1>2, RowsThere
  <2> HIDE DEF b
  <2>3. row \in DepRow /\ row.id = deployments[n].id /\ row.cluster = deployments[n].cluster
    BY <2>2 DEF DepRow
  <2>4. QED
    BY <1>2, <2>1, <2>3
<1>3. QED
  BY <1>1, <1>2

\* notifyPending, for a name without a deployment.
LEMMA InsertPendingKeeps ==
  ASSUME Fits, RowsInv, NEW r \in Requests, InsertPending(r), Calm(r)
  PROVE  RowsInv'
<1> DEFINE n == req[r].name
           c == req[r].cluster
<1>1. Goes(r) /\ Refers(r) /\ UNCHANGED <<mix, services, settings, lapsed>> /\ RowsTyped
      /\ n \in Names /\ c \in Clusters
  BY Known, Underway DEF InsertPending, At, Calm, RowsInv
<1>2. PICK id \in FreshDep :
        deployments' = [deployments EXCEPT ![n] = upserted(c, n, id, FALSE)]
  BY DEF InsertPending
<1>3. id \in DepIds
  BY DEF FreshDep
<1> DEFINE f == FALSE
           row == upserted(c, n, id, f)
<1>4. deployments' = [deployments EXCEPT ![n] = row] /\ f \in BOOLEAN
  BY <1>2
<1> HIDE DEF f, n, c
<1>5. /\ row \in DepRow
      /\ deployments[n] # None => row.id = deployments[n].id /\ row.cluster = deployments[n].cluster
  BY <1>1, <1>3, <1>4, UpsertedRow
<1> HIDE DEF row
<1>6. QED
  BY <1>1, <1>2, <1>4, <1>5, DeploymentKeeps

\* A report, or a finish, of a deployment.
LEMMA UpsertDeploymentKeeps ==
  ASSUME Fits, RowsInv, NEW r \in Requests, UpsertDeployment(r), Calm(r)
  PROVE  RowsInv'
<1> DEFINE n == req[r].name
           c == req[r].cluster
           id == req[r].dep
<1>1. Goes(r) /\ Refers(r) /\ UNCHANGED <<mix, services, settings, lapsed>> /\ RowsTyped
      /\ n \in Names /\ c \in Clusters /\ id \in DepIds
  BY Known, Underway DEF UpsertDeployment, At, Calm, RowsInv, Labelled
<1>2. CASE UNCHANGED deployments
  BY <1>1, <1>2, RowsStill
<1>3. CASE ~UNCHANGED deployments
  <2>1. PICK f \in BOOLEAN :
          deployments' = [deployments EXCEPT ![n] = upserted(c, n, id, f)]
    BY <1>3 DEF UpsertDeployment
  <2> DEFINE row == upserted(c, n, id, f)
  <2>2. deployments' = [deployments EXCEPT ![n] = row]
    BY <2>1
  <2> HIDE DEF n, c, id
  <2>3. /\ row \in DepRow
        /\ deployments[n] # None => row.id = deployments[n].id /\ row.cluster = deployments[n].cluster
    BY <1>1, UpsertedRow
  <2> HIDE DEF row
  <2>4. QED
    BY <1>1, <2>2, <2>3, DeploymentKeeps
<1>4. QED
  BY <1>2, <1>3

\* The payload of a finish or a report becomes settings of the service of its cluster.
LEMMA SaveSettingsKeeps ==
  ASSUME Fits, RowsInv, NEW r \in Requests, SaveSettings(r), Calm(r)
  PROVE  RowsInv'
<1> DEFINE at == IF req[r].service # None THEN req[r].service ELSE req[r].dep
           c == req[r].cluster
<1>1. /\ Goes(r) /\ Refers(r) /\ UNCHANGED <<mix, services, deployments, lapsed>>
      /\ RowsTyped /\ HeldIsOwn /\ c \in Clusters
  BY Known, Underway DEF SaveSettings, At, Calm, RowsInv
<1>2. CASE UNCHANGED settings
  BY <1>1, <1>2, RowsStill
<1>3. CASE ~UNCHANGED settings
  <2>1. exists(at) /\ settings' = settings \cup {[at |-> at, of |-> c]}
    BY <1>3 DEF SaveSettings, saved
  <2>2. req[r].service \in Rows(ServiceIds) /\ req[r].dep \in Rows(DepIds)
    BY Underway DEF Request
  <2>3. at \in ServiceIds \cup DepIds
    BY <1>1, <2>1, RowsThere DEF exists, liveServices, liveDeps
  <2>4. \A n \in Names : services[n] # None /\ services[n].id = at => services[n].cluster = c
    BY <1>1, <2>2, RowsThere, IdsApart DEF HeldIsOwn, Rows
  <2> HIDE DEF at, c
  <2>5. QED
    BY <1>1, <2>1, <2>3, <2>4, SettingsKeep
<1>4. QED
  BY <1>2, <1>3

\* PATCH /services/:id writes the settings of the service it was resolved to.
LEMMA ReplaceSettingsKeeps ==
  ASSUME Fits, RowsInv, NEW r \in Requests, ReplaceSettings(r), Calm(r)
  PROVE  RowsInv'
<1> DEFINE at == req[r].service
           c == req[r].cluster
<1>1. /\ Goes(r) /\ Refers(r) /\ UNCHANGED <<mix, services, deployments, lapsed>>
      /\ RowsTyped /\ HeldIsOwn /\ c \in Clusters
  BY Known, Underway DEF ReplaceSettings, At, Calm, RowsInv
<1>2. CASE UNCHANGED settings
  BY <1>1, <1>2, RowsStill
<1>3. CASE ~UNCHANGED settings
  <2>1. at \in liveServices /\ settings' \subseteq settings \cup {[at |-> at, of |-> c]}
    BY <1>3 DEF ReplaceSettings, replaced
  <2>2. at \in ServiceIds /\ exists(at)
    BY <1>1, <2>1, RowsThere DEF exists, liveServices
  <2>3. \A n \in Names : services[n] # None /\ services[n].id = at => services[n].cluster = c
    BY <1>1 DEF HeldIsOwn
  <2> HIDE DEF at, c
  <2>4. QED
    BY <1>1, <2>1, <2>2, <2>3, SettingsKeep
<1>4. QED
  BY <1>2, <1>3

(* --- One step of a request --------------------------------------------- *)

rowVars == <<mix, services, deployments, settings, lapsed>>

\* A calm step that writes no row.
LEMMA RestKeeps ==
  ASSUME Fits, RowsInv, NEW r \in Requests, Calm(r), UNCHANGED rowVars
  PROVE  RowsInv' /\ Grown
BY RowsStill DEF Calm, Grown, rowVars

\* The steps of ServiceRecords, and what they leave in the lobby.
LEMMA RecordsStepKeeps ==
  ASSUME Fits, RowsInv, NEW r \in Requests, RecordsStep(r)
  PROVE  Goes(r) /\ Steady(r) /\ Elsewhere(r) /\ RowsInv' /\ Grown
<1>0. /\ RowsTyped
      /\ Calm(r) => Goes(r) /\ Steady(r) /\ Elsewhere(r)
  BY Underway DEF RowsInv, Calm
<1>1. CASE \E c \in Clusters, n \in Names : Create(r, c, n)
  BY <1>0, <1>1, RecordsCalm, RestKeeps DEF Create, recordVars, rowVars
<1>2. CASE \E c \in Clusters, n \in Names, id \in DepIds : Report(r, c, n, id)
  BY <1>0, <1>2, ReportCalm, RestKeeps DEF Report, Submit, recordVars, rowVars
<1>3. CASE \E c \in Clusters, n \in Names : RemoveDeployment(r, c, n)
  BY <1>0, <1>3, RemoveDeploymentCalm, RestKeeps DEF RemoveDeployment, recordVars, rowVars
<1>4. CASE \E c \in Clusters, n \in Names, id \in DepIds : Finish(r, c, n, id)
  BY <1>0, <1>4, FinishCalm, RestKeeps DEF Finish, Submit, recordVars, rowVars
<1>5. CASE \E n \in Names : PatchService(r, n)
  BY <1>0, <1>5, RecordsCalm, RestKeeps DEF PatchService, recordVars, rowVars
<1>6. CASE NameTaken(r)
  BY <1>0, <1>6, RecordsCalm, RestKeeps DEF NameTaken, recordVars, rowVars
<1>7. CASE CheckLimit(r)
  BY <1>0, <1>7, RecordsCalm, RestKeeps DEF CheckLimit, recordVars, rowVars
<1>8. CASE Dispatch(r)
  BY <1>0, <1>8, RecordsCalm, RestKeeps DEF Dispatch, recordVars, rowVars
<1>9. CASE NotifyPending(r)
  BY <1>0, <1>9, RecordsCalm, RestKeeps DEF NotifyPending, recordVars, rowVars
<1>10. CASE GetDeployment(r)
  BY <1>0, <1>10, GetDeploymentCalm, RestKeeps DEF GetDeployment, recordVars, rowVars
<1>11. CASE GetPayload(r)
  BY <1>0, <1>11, GetPayloadCalm, RestKeeps DEF GetPayload, recordVars, rowVars
<1>12. CASE FindService(r)
  BY <1>0, <1>12, FindServiceCalm, RestKeeps DEF FindService, recordVars, rowVars
<1>13. CASE GetLinked(r)
  BY <1>0, <1>13, GetLinkedCalm, RestKeeps DEF GetLinked, recordVars, rowVars
<1>14. CASE SavePayload(r)
  BY <1>0, <1>14, RecordsCalm, RestKeeps DEF SavePayload, recordVars, rowVars
<1>15. CASE Enqueue(r)
  BY <1>0, <1>15, RecordsCalm, RestKeeps DEF Enqueue, recordVars, rowVars
<1>16. CASE DeletePayload(r)
  BY <1>0, <1>16, DeletePayloadCalm, RestKeeps DEF DeletePayload, recordVars, rowVars
<1>17. CASE Reserve(r)
  BY <1>0, <1>17, RecordsCalm, ReserveKeeps DEF Grown
<1>18. CASE PatchConfig(r)
  BY <1>0, <1>18, RecordsCalm, PatchConfigKeeps DEF PatchConfig, Grown
<1>19. CASE InsertPending(r)
  BY <1>0, <1>19, RecordsCalm, InsertPendingKeeps DEF InsertPending, Grown
<1>20. CASE UpsertDeployment(r)
  BY <1>0, <1>20, UpsertDeploymentCalm, UpsertDeploymentKeeps DEF UpsertDeployment, Grown
<1>21. CASE UpsertFinished(r)
  BY <1>0, <1>21, UpsertFinishedKeeps DEF Grown
<1>22. CASE SaveSettings(r)
  BY <1>0, <1>22, RecordsCalm, SaveSettingsKeeps DEF SaveSettings, Grown
<1>23. CASE ReplaceSettings(r)
  BY <1>0, <1>23, RecordsCalm, ReplaceSettingsKeeps DEF ReplaceSettings, Grown
<1>24. CASE DeleteDeployment(r)
  BY <1>0, <1>24, RecordsCalm, DeleteDeploymentKeeps DEF DeleteDeployment, Calm, Grown
<1>25. QED
  BY <1>1, <1>2, <1>3, <1>4, <1>5, <1>6, <1>7, <1>8, <1>9, <1>10, <1>11, <1>12, <1>13, <1>14,
     <1>15, <1>16, <1>17, <1>18, <1>19, <1>20, <1>21, <1>22, <1>23, <1>24 DEF RecordsStep

\* The lobby holds names of services.
LEMMA LobbyTyped ==
  ASSUME Fits, NEW r \in Requests, lobby \in [Clusters -> SUBSET Names],
         RecordsStep(r) \/ UNCHANGED lobby \/ (req[r].name \in Names /\ Waits(req[r]))
  PROVE  lobby' \in [Clusters -> SUBSET Names]
<1>1. CASE SavePayload(r) \/ Enqueue(r)
  BY <1>1, Underway, Known DEF SavePayload, Enqueue, Waits, At
<1>2. CASE DeletePayload(r)
  BY <1>2 DEF DeletePayload
<1>3. CASE UNCHANGED lobby
  BY <1>3
<1>4. CASE req[r].name \in Names /\ Waits(req[r])
  BY <1>4 DEF Waits
<1>5. CASE RecordsStep(r) /\ ~(SavePayload(r) \/ Enqueue(r) \/ DeletePayload(r))
  BY <1>3, <1>5
     DEF RecordsStep, Create, Report, RemoveDeployment, Finish, Submit, PatchService, NameTaken,
         CheckLimit, Reserve, Dispatch, NotifyPending, PatchConfig, InsertPending,
         GetDeployment, GetPayload, UpsertDeployment, UpsertFinished, FindService,
         SaveSettings, GetLinked, ReplaceSettings, DeleteDeployment, recordVars
<1>6. QED
  BY <1>1, <1>2, <1>3, <1>4, <1>5

\* A steady request disturbs neither the cooldowns nor the runs of the supervisor.
LEMMA SteadyKeeps ==
  ASSUME Fits, Supervised, NEW r \in Requests, Goes(r), Steady(r), UNCHANGED <<cooling, reprovisions>>
  PROVE  Supervised'
<1>1. /\ \A x \in Requests \ {r} : req'[x] = req[x]
      /\ req'[r].op = "supervise" <=> req'[r].pc \in Supervising
  BY DEF Fits, Goes, Fit, Labelled
<1>2. RunsAlone'
  BY <1>1 DEF Supervised, RunsAlone, Steady, pair
<1>3. UnarmedIsCold'
  BY <1>1, Kinds DEF Supervised, UnarmedIsCold, Steady, pair
<1>4. CountedIsArmed'
  <2> SUFFICES ASSUME NEW p \in Clusters \X Names, reprovisions[p] # 0
               PROVE  /\ reprovisions[p] = 1
                      /\ p \in cooling \/ \E x \in Requests : req'[x].pc \in Arming /\ pair(x)' = p
    BY DEF CountedIsArmed
  <2>1. /\ reprovisions[p] = 1
        /\ p \in cooling \/ \E x \in Requests : req[x].pc \in Arming /\ pair(x) = p
    BY DEF Supervised, CountedIsArmed
  <2>2. CASE p \in cooling
    BY <2>1, <2>2
  <2>3. ASSUME NEW x \in Requests, req[x].pc \in Arming, pair(x) = p
        PROVE  req'[x].pc \in Arming /\ pair(x)' = p
    <3>1. x # r
      BY <2>3 DEF Steady
    <3>2. QED
      BY <1>1, <2>3, <3>1 DEF pair
  <2>4. QED
    BY <2>1, <2>2, <2>3
<1>5. QED
  BY <1>2, <1>3, <1>4 DEF Supervised

(* --- The supervisor's cooldown ----------------------------------------- *)

\* A run goes on with its name; the other requests stay where they are.
Advances(r) ==
  /\ Goes(r) /\ req[r].op = "supervise" /\ req'[r].op = "supervise"
  /\ req'[r].cluster = req[r].cluster /\ req'[r].name = req[r].name

\* The run is still alone.
LEMMA AdvanceAlone ==
  ASSUME Fits, RunsAlone, NEW r \in Requests, Advances(r)
  PROVE  /\ RunsAlone' /\ pair(r)' = pair(r)
         /\ \A x \in Requests \ {r} : req'[x] = req[x] /\ pair(x)' = pair(x)
<1>1. \A x \in Requests \ {r} : req'[x] = req[x] /\ pair(x)' = pair(x)
  BY DEF Fits, Advances, Goes, pair
<1>2. pair(r)' = pair(r)
  BY DEF Advances, pair
<1>3. QED
  BY <1>1, <1>2 DEF RunsAlone, Advances

\* While a run is between the look at the cooldown and its start, nothing of its
\* name is counted before the run itself sends the task.
LEMMA UncountedBefore ==
  ASSUME Fits, Supervised, NEW r \in Requests, req[r].pc \in Unarmed
  PROVE  /\ pair(r) \in Clusters \X Names
         /\ req[r].pc \notin Arming => reprovisions[pair(r)] = 0
         /\ \A x \in Requests \ {r} : req[x].pc \in Unarmed => pair(x) # pair(r)
<1>1. req[r].op = "supervise" /\ pair(r) \in Clusters \X Names
  BY Underway, Kinds DEF pair
<1>2. \A x \in Requests : req[x].pc \in Unarmed => req[x].op = "supervise"
  BY Underway, Kinds
<1>3. \A x \in Requests \ {r} : req[x].pc \in Unarmed => pair(x) # pair(r)
  BY <1>1, <1>2 DEF Supervised, RunsAlone
<1>4. pair(r) \notin cooling
  BY DEF Supervised, UnarmedIsCold
<1>5. Arming \subseteq Unarmed
  BY DEF Unarmed
<1>6. QED
  BY <1>1, <1>3, <1>4, <1>5 DEF Supervised, CountedIsArmed

\* The tick skips a name that is still worked on.
LEMMA SuperviseKeeps ==
  ASSUME Fits, Supervised, NEW r \in Requests, NEW c \in Clusters, NEW n \in Names,
         Supervise(r, c, n)
  PROVE  Supervised'
<1>1. /\ Goes(r) /\ req[r].pc = "idle"
      /\ req'[r].op = "supervise" /\ req'[r].cluster = c /\ req'[r].name = n
      /\ req'[r].pc = "aggregate"
  BY SuperviseMoves
<1>2. notRunning(c, n) /\ UNCHANGED <<cooling, reprovisions>>
  BY DEF Supervise, Keep, trafficVars
<1>3. \A x \in Requests \ {r} : req'[x] = req[x]
  BY <1>1 DEF Fits, Goes
<1>4. RunsAlone'
  BY <1>1, <1>2, <1>3 DEF Supervised, RunsAlone, notRunning, pair
<1>5. UnarmedIsCold'
  BY <1>1, <1>2, <1>3, Cold DEF Supervised, UnarmedIsCold, pair
<1>6. CountedIsArmed'
  <2> SUFFICES ASSUME NEW p \in Clusters \X Names, reprovisions[p] # 0
               PROVE  /\ reprovisions[p] = 1
                      /\ p \in cooling \/ \E x \in Requests : req'[x].pc \in Arming /\ pair(x)' = p
    BY <1>2 DEF CountedIsArmed
  <2>1. /\ reprovisions[p] = 1
        /\ p \in cooling \/ \E x \in Requests : req[x].pc \in Arming /\ pair(x) = p
    BY DEF Supervised, CountedIsArmed
  <2>2. \A x \in Requests : req[x].pc \in Arming => req'[x].pc \in Arming /\ pair(x)' = pair(x)
    BY <1>1, <1>3 DEF pair
  <2>3. QED
    BY <2>1, <2>2
<1>7. QED
  BY <1>2, <1>4, <1>5, <1>6 DEF Supervised

\* A run that goes on into the stretch before the start of the cooldown.
LEMMA UnarmedKeeps ==
  ASSUME Fits, Supervised, NEW r \in Requests, Advances(r),
         req[r].pc \notin Arming \/ req'[r].pc \in Arming,
         pair(r) \notin cooling, UNCHANGED <<cooling, reprovisions>>
  PROVE  Supervised'
<1>1. /\ RunsAlone' /\ pair(r)' = pair(r)
      /\ \A x \in Requests \ {r} : req'[x] = req[x] /\ pair(x)' = pair(x)
  BY AdvanceAlone DEF Supervised
<1>2. UnarmedIsCold'
  BY <1>1 DEF Supervised, UnarmedIsCold
<1>3. CountedIsArmed'
  <2> SUFFICES ASSUME NEW p \in Clusters \X Names, reprovisions[p] # 0
               PROVE  /\ reprovisions[p] = 1
                      /\ p \in cooling \/ \E x \in Requests : req'[x].pc \in Arming /\ pair(x)' = p
    BY DEF CountedIsArmed
  <2>1. /\ reprovisions[p] = 1
        /\ p \in cooling \/ \E x \in Requests : req[x].pc \in Arming /\ pair(x) = p
    BY DEF Supervised, CountedIsArmed
  <2>2. \A x \in Requests : req[x].pc \in Arming => req'[x].pc \in Arming /\ pair(x)' = pair(x)
    BY <1>1
  <2>3. QED
    BY <2>1, <2>2
<1>4. QED
  BY <1>1, <1>2, <1>3 DEF Supervised

\* A task counted before the cooldown starts leaves the run about to start it.
LEMMA CountKeeps ==
  ASSUME Fits, Supervised, NEW r \in Requests, Advances(r), req[r].pc \in Unarmed \ Arming,
         count(r), \/ arm(r) /\ req'[r].pc \notin Unarmed
                   \/ UNCHANGED cooling /\ req'[r].pc \in Arming
  PROVE  Supervised'
<1> DEFINE p == pair(r)
<1>1. /\ RunsAlone' /\ pair(r)' = p
      /\ \A x \in Requests \ {r} : req'[x] = req[x] /\ pair(x)' = pair(x)
  BY AdvanceAlone DEF Supervised
<1>2. /\ p \in Clusters \X Names /\ reprovisions[p] = 0
      /\ \A x \in Requests \ {r} : req[x].pc \in Unarmed => pair(x) # p
      /\ p \notin cooling
  BY UncountedBefore DEF Supervised, UnarmedIsCold
<1>3. /\ reprovisions \in [Clusters \X Names -> Nat]
      /\ reprovisions' = [reprovisions EXCEPT ![p] = @ + 1]
      /\ \/ cooling' = cooling \cup {p} /\ req'[r].pc \notin Unarmed
         \/ cooling' = cooling /\ req'[r].pc \in Arming
  BY DEF Supervised, count, arm
<1>4. /\ \A x \in Clusters \X Names : x # p => reprovisions'[x] = reprovisions[x]
      /\ reprovisions'[p] = 1 /\ reprovisions' \in [Clusters \X Names -> Nat]
  BY <1>2, <1>3
<1> HIDE DEF p
<1>5. UnarmedIsCold'
  BY <1>1, <1>2, <1>3 DEF Supervised, UnarmedIsCold
<1>6. CountedIsArmed'
  <2> SUFFICES ASSUME NEW o \in Clusters \X Names, reprovisions'[o] # 0
               PROVE  /\ reprovisions'[o] = 1
                      /\ o \in cooling' \/ \E x \in Requests : req'[x].pc \in Arming /\ pair(x)' = o
    BY DEF CountedIsArmed
  <2>1. CASE o = p
    BY <1>1, <1>3, <1>4, <2>1
  <2>2. CASE o # p
    <3>1. /\ reprovisions[o] = 1
          /\ o \in cooling \/ \E x \in Requests : req[x].pc \in Arming /\ pair(x) = o
      BY <1>4, <2>2 DEF Supervised, CountedIsArmed
    <3>2. \A x \in Requests : req[x].pc \in Arming => req'[x].pc \in Arming /\ pair(x)' = pair(x)
      BY <1>1
    <3>3. QED
      BY <1>3, <1>4, <2>2, <3>1, <3>2
  <2>3. QED
    BY <2>1, <2>2
<1>7. QED
  BY <1>1, <1>4, <1>5, <1>6 DEF Supervised

\* The cooldown starts.
LEMMA ArmKeeps ==
  ASSUME Fits, Supervised, NEW r \in Requests, Advances(r), req[r].pc \in Arming,
         req'[r].pc \notin Unarmed, arm(r), UNCHANGED reprovisions
  PROVE  Supervised'
<1> DEFINE p == pair(r)
<1>0. Arming \subseteq Unarmed
  BY DEF Unarmed
<1>1. /\ RunsAlone' /\ pair(r)' = p
      /\ \A x \in Requests \ {r} : req'[x] = req[x] /\ pair(x)' = pair(x)
  BY AdvanceAlone DEF Supervised
<1>2. /\ \A x \in Requests \ {r} : req[x].pc \in Unarmed => pair(x) # p
      /\ cooling' = cooling \cup {p}
  BY <1>0, UncountedBefore DEF arm
<1> HIDE DEF p
<1>3. UnarmedIsCold'
  BY <1>1, <1>2 DEF Supervised, UnarmedIsCold
<1>4. CountedIsArmed'
  <2> SUFFICES ASSUME NEW o \in Clusters \X Names, reprovisions[o] # 0
               PROVE  /\ reprovisions[o] = 1
                      /\ o \in cooling' \/ \E x \in Requests : req'[x].pc \in Arming /\ pair(x)' = o
    BY DEF CountedIsArmed
  <2>1. /\ reprovisions[o] = 1
        /\ o \in cooling \/ \E x \in Requests : req[x].pc \in Arming /\ pair(x) = o
    BY DEF Supervised, CountedIsArmed
  <2>2. \A x \in Requests \ {r} : req[x].pc \in Arming => req'[x].pc \in Arming /\ pair(x)' = pair(x)
    BY <1>1
  <2>3. QED
    BY <1>2, <2>1, <2>2 DEF p
<1>5. QED
  BY <1>1, <1>3, <1>4 DEF Supervised

\* A task that could not be recorded does not count.
LEMMA DiscountKeeps ==
  ASSUME Fits, Supervised, NEW r \in Requests, req[r].pc \in Arming, Return(r),
         reprovisions' = [reprovisions EXCEPT ![pair(r)] = 0], UNCHANGED cooling
  PROVE  Supervised'
<1> DEFINE p == pair(r)
<1>1. /\ \A x \in Requests \ {r} : req'[x] = req[x] /\ pair(x)' = pair(x)
      /\ req'[r].op # "supervise" /\ req'[r].pc = "idle"
  BY ReturnGoes DEF Fits, Goes, pair
<1>2. p \in Clusters \X Names
  BY UncountedBefore, Kinds
<1>3. /\ reprovisions' \in [Clusters \X Names -> Nat] /\ reprovisions'[p] = 0
      /\ \A o \in Clusters \X Names : o # p => reprovisions'[o] = reprovisions[o]
  BY <1>2 DEF Supervised
<1>4. RunsAlone' /\ UnarmedIsCold'
  BY <1>1, Kinds DEF Supervised, RunsAlone, UnarmedIsCold
<1>5. CountedIsArmed'
  <2> SUFFICES ASSUME NEW o \in Clusters \X Names, reprovisions'[o] # 0
               PROVE  /\ reprovisions'[o] = 1
                      /\ o \in cooling \/ \E x \in Requests : req'[x].pc \in Arming /\ pair(x)' = o
    BY DEF CountedIsArmed
  <2>1. o # p /\ reprovisions'[o] = reprovisions[o]
    BY <1>3
  <2>2. /\ reprovisions[o] = 1
        /\ o \in cooling \/ \E x \in Requests : req[x].pc \in Arming /\ pair(x) = o
    BY <2>1 DEF Supervised, CountedIsArmed
  <2>3. \A x \in Requests : pair(x) = o => x # r
    BY <2>1
  <2>4. QED
    BY <1>1, <2>1, <2>2, <2>3
<1>6. QED
  BY <1>3, <1>4, <1>5 DEF Supervised

(* --- The steps of the traffic, of the supervisor and of the watchdog --- *)

Kept(r) == Goes(r) /\ Elsewhere(r) /\ RowsInv' /\ Grown /\ Supervised'

\* A calm step that writes no row and touches no cooldown.
LEMMA CalmKeeps ==
  ASSUME Fits, RowsInv, Supervised, NEW r \in Requests, Calm(r),
         UNCHANGED rowVars, UNCHANGED <<cooling, reprovisions>>
  PROVE  Kept(r)
BY RestKeeps, SteadyKeeps DEF Kept, Calm

\* The steps of a run of the supervisor at its cooldown.
LEMMA CooldownKeeps ==
  ASSUME Fits, RowsInv, Supervised, NEW r \in Requests,
         Cooldown(r) \/ SendDeploy(r) \/ EnqueueDeploy(r) \/ Arm(r)
  PROVE  Kept(r)
<1>0. /\ UNCHANGED rowVars
      /\ Cooldown(r) => UNCHANGED <<cooling, reprovisions>> /\ req[r].pc = "cooldown"
      /\ SendDeploy(r) => req[r].pc = "sendDeploy"
      /\ EnqueueDeploy(r) => req[r].pc = "enqueueDeploy"
      /\ Arm(r) => UNCHANGED reprovisions /\ req[r].pc = "arm"
  BY DEF Cooldown, SendDeploy, EnqueueDeploy, Arm, Keep, recordVars, trafficVars, rowVars, At
<1>1. Goes(r) /\ Refers(r) => RowsInv' /\ Grown
  BY <1>0, RowsStill DEF Grown, rowVars
<1>2. CASE Calm(r) /\ UNCHANGED <<cooling, reprovisions>>
  BY <1>0, <1>2, CalmKeeps
<1>3. CASE ~(Calm(r) /\ UNCHANGED <<cooling, reprovisions>>)
  <2>1. /\ req[r].pc \in Supervising /\ req[r].op = "supervise"
        /\ req[r].pc \in {"cooldown", "sendDeploy", "enqueueDeploy", "arm"}
    BY <1>0, Known, Underway
  <2>2. Goes(r) /\ Refers(r) /\ Elsewhere(r) /\ Advances(r)
    BY <1>0, <1>3, <2>1, CooldownMoves DEF Advances
  <2>3. CASE Cooldown(r)
    <3>1. pair(r) \notin cooling
      BY <1>0, <1>3, <2>3, CooldownMoves
    <3>2. QED
      BY <1>0, <1>1, <2>2, <2>3, <3>1, UnarmedKeeps DEF Kept
  <2>4. CASE SendDeploy(r)
    <3>1. count(r) /\ arm(r) /\ req'[r].pc = "loadingMode"
      BY <1>0, <1>3, <2>4, CooldownMoves
    <3>2. req[r].pc \in Unarmed \ Arming /\ req'[r].pc \notin Unarmed
      BY <1>0, <2>4, <3>1, Cold
    <3>3. QED
      BY <1>1, <2>2, <3>1, <3>2, CountKeeps DEF Kept
  <2>5. CASE EnqueueDeploy(r)
    <3>1. count(r) /\ UNCHANGED cooling /\ req'[r].pc \in Arming
      BY <1>0, <1>3, <2>5, CooldownMoves
    <3>2. req[r].pc \in Unarmed \ Arming
      BY <1>0, <2>5, Cold
    <3>3. QED
      BY <1>1, <2>2, <3>1, <3>2, CountKeeps DEF Kept
  <2>6. CASE Arm(r)
    <3>1. arm(r) /\ req'[r].pc = "loadingMode" /\ UNCHANGED reprovisions
      BY <1>0, <1>3, <2>6, CooldownMoves
    <3>2. req'[r].pc \notin Unarmed
      BY <3>1, Cold
    <3>3. QED
      BY <1>0, <1>1, <2>2, <2>6, <3>1, <3>2, ArmKeeps DEF Kept
  <2>7. QED
    BY <2>3, <2>4, <2>5, <2>6
<1>4. QED
  BY <1>2, <1>3

\* What was sent is recorded, or the run ends without a cooldown.
LEMMA RecordBuildKeeps ==
  ASSUME Fits, RowsInv, Supervised, NEW r \in Requests, RecordBuild(r)
  PROVE  Kept(r)
<1>1. /\ req[r].pc = "recordBuild" /\ req[r].pc \in Supervising /\ req[r].pc \in Unarmed
      /\ req[r].op = "supervise" /\ "arm" \in Supervising
      /\ UNCHANGED <<mix, services, deployments, settings, lapsed>> /\ UNCHANGED cooling
  BY Known, Cold, Underway DEF RecordBuild, At
<1>2. pair(r) \notin cooling
  BY <1>1 DEF Supervised, UnarmedIsCold
<1>3. CASE Goto(r, "arm") /\ UNCHANGED reprovisions
  <2>1. /\ Goes(r) /\ Elsewhere(r) /\ Refers(r) /\ Advances(r) /\ req'[r].pc = "arm"
    BY <1>1, <1>3, GotoSupervising DEF Advances
  <2>2. RowsInv' /\ Grown
    BY <1>1, <2>1, RowsStill DEF Grown
  <2>3. Supervised'
    BY <1>1, <1>2, <1>3, <2>1, UnarmedKeeps
  <2>4. QED
    BY <2>1, <2>2, <2>3 DEF Kept
<1>4. CASE Return(r) /\ reprovisions' = [reprovisions EXCEPT ![pair(r)] = 0]
  <2>1. Goes(r) /\ Elsewhere(r) /\ Refers(r)
    BY <1>4, ReturnGoes
  <2>2. RowsInv' /\ Grown
    BY <1>1, <2>1, RowsStill DEF Grown
  <2>3. Supervised'
    BY <1>1, <1>4, DiscountKeeps
  <2>4. QED
    BY <2>1, <2>2, <2>3 DEF Kept
<1>5. QED
  BY <1>3, <1>4 DEF RecordBuild

\* Every step of ServiceTraffic.
LEMMA TrafficStepKeeps ==
  ASSUME Fits, RowsInv, Supervised, NEW r \in Requests, TrafficStep(r)
  PROVE  Kept(r)
<1>0. RowsTyped
  BY DEF RowsInv
<1>1. CASE \E n \in Names : StopService(r, n)
  BY <1>0, <1>1, TrafficCalm, CalmKeeps DEF StopService, Keep, recordVars, trafficVars, rowVars
<1>2. CASE \E n \in Names : StartService(r, n)
  BY <1>0, <1>2, TrafficCalm, CalmKeeps DEF StartService, Keep, recordVars, trafficVars, rowVars
<1>3. CASE \E n \in Names : SleepJob(r, n)
  BY <1>0, <1>3, TrafficCalm, CalmKeeps DEF SleepJob, Keep, recordVars, trafficVars, rowVars
<1>4. CASE \E n \in Names : IceJob(r, n)
  BY <1>0, <1>4, TrafficCalm, CalmKeeps DEF IceJob, Keep, recordVars, trafficVars, rowVars
<1>5. CASE \E n \in Names : NodeLost(r, n)
  BY <1>0, <1>5, TrafficCalm, CalmKeeps DEF NodeLost, Keep, recordVars, trafficVars, rowVars
<1>6. CASE \E n \in Names : Status(r, n)
  BY <1>0, <1>6, TrafficCalm, CalmKeeps DEF Status, Keep, recordVars, trafficVars, rowVars
<1>7. CASE \E n \in Names : RemoveService(r, n)
  BY <1>0, <1>7, TrafficCalm, CalmKeeps DEF RemoveService, Keep, recordVars, trafficVars,
     rowVars
<1>8. CASE SkipAsleep(r)
  BY <1>0, <1>8, TrafficCalm, CalmKeeps DEF SkipAsleep, Keep, recordVars, trafficVars, rowVars
<1>9. CASE SendSleep(r)
  BY <1>0, <1>9, TrafficCalm, CalmKeeps DEF SendSleep, Keep, recordVars, trafficVars, rowVars
<1>10. CASE MarkSleeping(r)
  BY <1>0, <1>10, TrafficCalm, CalmKeeps DEF MarkSleeping, Keep, recordVars, trafficVars,
     rowVars
<1>11. CASE SendIce(r)
  BY <1>0, <1>11, TrafficCalm, CalmKeeps DEF SendIce, Keep, recordVars, trafficVars, rowVars
<1>12. CASE IsWaking(r)
  BY <1>0, <1>12, TrafficCalm, CalmKeeps DEF IsWaking, Keep, recordVars, trafficVars, rowVars
<1>13. CASE IsSleeping(r)
  BY <1>0, <1>13, TrafficCalm, CalmKeeps DEF IsSleeping, Keep, recordVars, trafficVars, rowVars
<1>14. CASE SendWake(r)
  BY <1>0, <1>14, TrafficCalm, CalmKeeps DEF SendWake, Keep, recordVars, trafficVars, rowVars
<1>15. CASE UnsetSleeping(r)
  BY <1>0, <1>15, TrafficCalm, CalmKeeps DEF UnsetSleeping, Keep, recordVars, trafficVars,
     rowVars
<1>16. CASE SetWaking(r)
  BY <1>0, <1>16, TrafficCalm, CalmKeeps DEF SetWaking, Keep, recordVars, trafficVars, rowVars
<1>17. CASE UnregisterRoute(r)
  BY <1>0, <1>17, TrafficCalm, CalmKeeps DEF UnregisterRoute, Keep, recordVars, trafficVars,
     rowVars
<1>18. CASE RecordBuild(r)
  BY <1>18, RecordBuildKeeps
<1>19. CASE MarkIced(r)
  BY <1>0, <1>19, TrafficCalm, MarkIcedKeeps, SteadyKeeps DEF MarkIced, Keep, recordVars,
     trafficVars, rowVars, Calm, Kept, Grown
<1>20. CASE Aggregate(r)
  BY <1>0, <1>20, AggregateCalm, CalmKeeps DEF Aggregate, Keep, recordVars, trafficVars, rowVars
<1>21. CASE Workloads(r)
  BY <1>0, <1>21, WorkloadsCalm, CalmKeeps DEF Workloads, Keep, recordVars, trafficVars, rowVars
<1>22. CASE ListServices(r)
  BY <1>0, <1>22, ListServicesCalm, CalmKeeps DEF ListServices, Keep, recordVars, trafficVars,
     rowVars
<1>23. CASE FindDeployment(r)
  BY <1>0, <1>23, FindDeploymentCalm, CalmKeeps DEF FindDeployment, Keep, recordVars,
     trafficVars, rowVars
<1>24. CASE SleepingFlag(r)
  BY <1>0, <1>24, SupervisorCalm, CalmKeeps DEF SleepingFlag, Keep, recordVars, trafficVars,
     rowVars
<1>25. CASE SettleFlag(r)
  BY <1>0, <1>25, SupervisorCalm, CalmKeeps DEF SettleFlag, Keep, recordVars, trafficVars,
     rowVars
<1>26. CASE StubRoute(r)
  BY <1>0, <1>26, SupervisorCalm, CalmKeeps DEF StubRoute, Keep, recordVars, trafficVars,
     rowVars
<1>27. CASE DeletedFlag(r)
  BY <1>0, <1>27, SupervisorCalm, CalmKeeps DEF DeletedFlag, Keep, recordVars, trafficVars,
     rowVars
<1>28. CASE RegisterRoute(r)
  BY <1>0, <1>28, SupervisorCalm, CalmKeeps DEF RegisterRoute, Keep, recordVars, trafficVars,
     rowVars
<1>29. CASE CompareRoute(r)
  BY <1>0, <1>29, SupervisorCalm, CalmKeeps DEF CompareRoute, Keep, recordVars, trafficVars,
     rowVars
<1>30. CASE Awake(r)
  BY <1>0, <1>30, SupervisorCalm, CalmKeeps DEF Awake, Keep, recordVars, trafficVars, rowVars
<1>31. CASE PutRoute(r)
  BY <1>0, <1>31, SupervisorCalm, CalmKeeps DEF PutRoute, Keep, recordVars, trafficVars, rowVars
<1>32. CASE MayReprovision(r)
  BY <1>0, <1>32, SupervisorCalm, CalmKeeps DEF MayReprovision, Keep, recordVars, trafficVars,
     rowVars
<1>33. CASE FindBlueprint(r)
  BY <1>0, <1>33, SupervisorCalm, CalmKeeps DEF FindBlueprint, Keep, recordVars, trafficVars,
     rowVars
<1>34. CASE LoadingMode(r)
  BY <1>0, <1>34, SupervisorCalm, CalmKeeps DEF LoadingMode, Keep, recordVars, trafficVars,
     rowVars
<1>35. CASE CreateService(r)
  BY <1>0, <1>35, SupervisorCalm, CreateServiceKeeps, SteadyKeeps DEF CreateService, Keep,
     recordVars, trafficVars, rowVars, Calm, Kept
<1>36. CASE Cooldown(r) \/ SendDeploy(r) \/ EnqueueDeploy(r) \/ Arm(r)
  BY <1>0, <1>36, CooldownKeeps DEF Keep, recordVars, trafficVars, rowVars
<1>37. CASE \E c \in Clusters, n \in Names : Supervise(r, c, n)
  BY <1>0, <1>37, SuperviseMoves, SuperviseKeeps, RowsStill DEF Supervise, Keep, recordVars,
     trafficVars, rowVars, Kept, Grown
<1>38. QED
  BY <1>1, <1>2, <1>3, <1>4, <1>5, <1>6, <1>7, <1>8, <1>9, <1>10, <1>11, <1>12, <1>13, <1>14,
     <1>15, <1>16, <1>17, <1>18, <1>19, <1>20, <1>21, <1>22, <1>23, <1>24, <1>25, <1>26, <1>27,
     <1>28, <1>29, <1>30, <1>31, <1>32, <1>33, <1>34, <1>35, <1>36, <1>37 DEF TrafficStep

\* What a step leaves of flags, routes, cooldowns and the lobby.
LEMMA TrafficStepTyped ==
  ASSUME Fits, TrafficTyped, lobby \in [Clusters -> SUBSET Names], NEW r \in Requests, TrafficStep(r)
  PROVE  TrafficTyped' /\ lobby' \in [Clusters -> SUBSET Names]
<1>0. /\ "none" \in Routes /\ "stub" \in Routes /\ "node" \in Routes
      /\ req[r].pc \in Plain \cup Supervising =>
           /\ req[r].name \in Names /\ pair(r) \in Clusters \X Names
  BY Underway DEF Routes, pair
<1>1. CASE \E n \in Names : \/ StopService(r, n) \/ StartService(r, n) \/ SleepJob(r, n) \/ IceJob(r, n) \/ NodeLost(r, n) \/ Status(r, n) \/ RemoveService(r, n) \/ \E c \in Clusters : Supervise(r, c, n)
  BY <1>1 DEF StopService, StartService, SleepJob, IceJob, NodeLost, Status, RemoveService,
     Supervise, TrafficTyped, Keep, recordVars, trafficVars, flagVars
<1>2. CASE SkipAsleep(r) \/ SendSleep(r) \/ SendIce(r) \/ MarkIced(r) \/ IsWaking(r) \/ IsSleeping(r) \/ SendWake(r)
  BY <1>2 DEF SkipAsleep, SendSleep, SendIce, MarkIced, IsWaking, IsSleeping, SendWake,
     TrafficTyped, Keep, recordVars, trafficVars, flagVars
<1>3. CASE Aggregate(r) \/ Workloads(r) \/ ListServices(r) \/ SleepingFlag(r) \/ DeletedFlag(r) \/ FindDeployment(r) \/ CreateService(r)
  BY <1>3 DEF Aggregate, Workloads, ListServices, SleepingFlag, DeletedFlag, FindDeployment,
     CreateService, TrafficTyped, Keep, recordVars, trafficVars, flagVars
<1>4. CASE CompareRoute(r) \/ Awake(r) \/ Cooldown(r) \/ MayReprovision(r) \/ FindBlueprint(r)
  BY <1>4 DEF CompareRoute, Awake, Cooldown, MayReprovision, FindBlueprint, TrafficTyped, Keep,
     recordVars, trafficVars, flagVars
<1>5. CASE MarkSleeping(r)
  BY <1>0, <1>5, Known
     DEF MarkSleeping, At, arm, TrafficTyped, Keep, recordVars, trafficVars, flagVars
<1>6. CASE UnsetSleeping(r)
  BY <1>0, <1>6, Known
     DEF UnsetSleeping, At, arm, TrafficTyped, Keep, recordVars, trafficVars, flagVars
<1>7. CASE SetWaking(r)
  BY <1>0, <1>7, Known
     DEF SetWaking, At, arm, TrafficTyped, Keep, recordVars, trafficVars, flagVars
<1>8. CASE UnregisterRoute(r)
  BY <1>0, <1>8, Known
     DEF UnregisterRoute, At, arm, TrafficTyped, Keep, recordVars, trafficVars, flagVars
<1>9. CASE RecordBuild(r)
  BY <1>0, <1>9, Known, LobbyTyped DEF RecordBuild, At, TrafficTyped, flagVars
<1>10. CASE SettleFlag(r)
  BY <1>0, <1>10, Known
     DEF SettleFlag, At, arm, TrafficTyped, Keep, recordVars, trafficVars, flagVars
<1>11. CASE StubRoute(r)
  BY <1>0, <1>11, Known
     DEF StubRoute, At, arm, TrafficTyped, Keep, recordVars, trafficVars, flagVars
<1>12. CASE RegisterRoute(r)
  BY <1>0, <1>12, Known
     DEF RegisterRoute, At, arm, TrafficTyped, Keep, recordVars, trafficVars, flagVars
<1>13. CASE PutRoute(r)
  BY <1>0, <1>13, Known
     DEF PutRoute, At, arm, TrafficTyped, Keep, recordVars, trafficVars, flagVars
<1>14. CASE SendDeploy(r)
  BY <1>0, <1>14, Known
     DEF SendDeploy, At, arm, TrafficTyped, Keep, recordVars, trafficVars, flagVars
<1>15. CASE Arm(r)
  BY <1>0, <1>15, Known
     DEF Arm, At, arm, TrafficTyped, Keep, recordVars, trafficVars, flagVars
<1>16. CASE LoadingMode(r)
  BY <1>0, <1>16, Known
     DEF LoadingMode, At, arm, TrafficTyped, Keep, recordVars, trafficVars, flagVars
<1>17. CASE EnqueueDeploy(r)
  BY <1>0, <1>17, Known, LobbyTyped
     DEF EnqueueDeploy, At, TrafficTyped, Keep, recordVars, trafficVars, flagVars
<1>18. QED
  BY <1>1, <1>2, <1>3, <1>4, <1>5, <1>6, <1>7, <1>8, <1>9, <1>10, <1>11, <1>12, <1>13, <1>14,
     <1>15, <1>16, <1>17 DEF TrafficStep

\* The watchdog counts up to its threshold.
LEMMA WatchdogStepKeeps ==
  ASSUME Fits, RowsInv, Supervised, WatchdogTyped, NEW r \in Requests, WatchdogStep(r),
         UNCHANGED trafficVars
  PROVE  Kept(r) /\ WatchdogTyped' /\ UNCHANGED lobby
<1>0. /\ RowsTyped /\ UNCHANGED <<cooling, reprovisions>>
      /\ UNCHANGED recordVars
  BY DEF RowsInv, trafficVars, WatchdogStep, WatchService, GetHealth, PutHealth, ClearFailures,
         GetFailures, PutFailures, InCooldown, ArmCooldown, DispatchAlert
<1>1. Calm(r)
  BY <1>0, WatchdogCalm, GetHealthCalm DEF WatchdogStep
<1>2. Kept(r) /\ UNCHANGED lobby
  BY <1>0, <1>1, CalmKeeps DEF recordVars, rowVars
<1>3. /\ 0 \in 0..FAIL_THRESHOLD /\ \A k \in 0..FAIL_THRESHOLD : Bounded(k + 1) \in 0..FAIL_THRESHOLD
      /\ req[r].pc \in Plain => req[r].name \in Names
  BY Underway DEF Bounded, FAIL_THRESHOLD
<1>4. WatchdogTyped'
  <2>1. CASE (\E c \in Clusters, n \in Names : WatchService(r, c, n))
               \/ GetHealth(r) \/ InCooldown(r) \/ DispatchAlert(r)
    BY <2>1 DEF WatchService, GetHealth, InCooldown, DispatchAlert, WatchdogTyped, watchdogVars
  <2>2. CASE PutHealth(r)
    BY <1>3, <2>2, Known DEF PutHealth, WatchdogTyped, At
  <2>3. CASE ClearFailures(r)
    BY <1>3, <2>3 DEF ClearFailures, WatchdogTyped
  <2>4. CASE GetFailures(r)
    <3> DEFINE k == Bounded(failures[req[r].name] + 1)
    <3>1. req[r].name \in Names
      BY <1>3, <2>4, Known DEF GetFailures, At
    <3>2. k \in 0..FAIL_THRESHOLD
      BY <1>3, <3>1 DEF WatchdogTyped
    <3>3. tally' = [tally EXCEPT ![r] = k] \/ UNCHANGED tally
      BY <2>4 DEF GetFailures
    <3>4. UNCHANGED <<degraded, failures, armed>>
      BY <2>4 DEF GetFailures
    <3> HIDE DEF k
    <3>5. QED
      BY <3>2, <3>3, <3>4 DEF WatchdogTyped
  <2>5. CASE PutFailures(r)
    BY <1>3, <2>5 DEF PutFailures, WatchdogTyped
  <2>6. CASE ArmCooldown(r)
    BY <1>3, <2>6, Known DEF ArmCooldown, WatchdogTyped, At
  <2>7. QED
    BY <2>1, <2>2, <2>3, <2>4, <2>5, <2>6 DEF WatchdogStep
<1>5. QED
  BY <1>2, <1>4

(* --- The invariant ----------------------------------------------------- *)

\* A request whose step is Kept leaves everybody's request in order.
LEMMA GoesFits ==
  ASSUME Fits, NEW r \in Requests, Goes(r)
  PROVE  Fits'
<1>1. req'[r] \in Request /\ Labelled(req'[r])
  BY DEF Goes, Fit
<1>2. /\ req' \in [Requests -> Request]
      /\ \A x \in Requests : x # r => req'[x] = req[x]
  BY <1>1 DEF Fits, Goes
<1>3. \A x \in Requests : Labelled(req'[x])
  BY <1>1, <1>2 DEF Fits
<1>4. QED
  BY <1>2, <1>3 DEF Fits, Labelled

\* Every step of a request.
LEMMA StepKeeps ==
  ASSUME Inv, NEW r \in Requests, Step(r)
  PROVE  Inv'
<1>0. Fits /\ FlagsTyped /\ RowsInv /\ Supervised /\ DomainsInv /\ RowsTyped
      /\ lobby \in [Clusters -> SUBSET Names] /\ TrafficTyped /\ WatchdogTyped
  BY DEF Inv, RowsInv, FlagsTyped
<1>1. ASSUME Goes(r), Elsewhere(r), RowsInv', Grown, Supervised', FlagsTyped', UNCHANGED domainVars
      PROVE  Inv'
  BY <1>0, <1>1, GoesFits, DomainsElsewhere DEF Inv, Grown
<1>2. UNCHANGED trafficVars => TrafficTyped' /\ UNCHANGED <<cooling, reprovisions>>
  BY <1>0 DEF TrafficTyped, trafficVars, flagVars
<1>3. UNCHANGED watchdogVars => WatchdogTyped'
  BY <1>0 DEF WatchdogTyped, watchdogVars
<1>4. CASE RecordsStep(r) /\ UNCHANGED <<trafficVars, domainVars, watchdogVars>>
  <2>1. Goes(r) /\ Steady(r) /\ Elsewhere(r) /\ RowsInv' /\ Grown
    BY <1>0, <1>4, RecordsStepKeeps
  <2>2. lobby' \in [Clusters -> SUBSET Names]
    BY <1>0, <1>4, LobbyTyped
  <2>3. Supervised'
    BY <1>0, <1>2, <1>4, <2>1, SteadyKeeps
  <2>4. QED
    BY <1>1, <1>2, <1>3, <1>4, <2>1, <2>2, <2>3 DEF FlagsTyped
<1>5. CASE TrafficStep(r) /\ UNCHANGED <<domainVars, watchdogVars>>
  <2>1. Kept(r) /\ TrafficTyped' /\ lobby' \in [Clusters -> SUBSET Names]
    BY <1>0, <1>5, TrafficStepKeeps, TrafficStepTyped
  <2>2. QED
    BY <1>1, <1>3, <1>5, <2>1 DEF FlagsTyped, Kept
<1>6. CASE DomainStep(r) /\ UNCHANGED <<trafficVars, watchdogVars>>
  <2>1. Sure(r) /\ DomainsInv' /\ UNCHANGED recordVars
    BY <1>0, <1>6, DomainStepKeeps
  <2>2. Goes(r) /\ Steady(r) /\ Refers(r)
    BY <2>1 DEF Sure
  <2>3. RowsInv'
    BY <1>0, <2>1, <2>2, RowsStill DEF recordVars
  <2>4. Supervised'
    BY <1>0, <1>2, <1>6, <2>2, SteadyKeeps
  <2>5. FlagsTyped'
    BY <1>0, <1>2, <1>3, <1>6, <2>1 DEF FlagsTyped, recordVars
  <2>6. QED
    BY <1>0, <2>1, <2>2, <2>3, <2>4, <2>5, GoesFits DEF Inv
<1>7. CASE WatchdogStep(r) /\ UNCHANGED <<trafficVars, domainVars>>
  <2>1. Kept(r) /\ WatchdogTyped' /\ UNCHANGED lobby
    BY <1>0, <1>7, WatchdogStepKeeps
  <2>2. QED
    BY <1>0, <1>1, <1>2, <1>7, <2>1 DEF FlagsTyped, Kept
<1>8. CASE /\ DeleteService(r) /\ Detach
           /\ UNCHANGED <<trafficVars, domainRoute, visit, proved, outlived, watchdogVars>>
  <2>1. Calm(r)
    BY <1>0, <1>8, RecordsCalm
  <2>2. Goes(r) /\ Steady(r) /\ Refers(r) /\ Elsewhere(r)
    BY <2>1 DEF Calm
  <2>3. RowsInv' /\ \A n \in Names : services'[n] \in {services[n], None}
    BY <1>0, <1>8, <2>2, DeleteServiceKeeps
  <2>4. DomainsInv'
    BY <1>0, <1>8, <2>2, <2>3, DetachKeeps
  <2>5. Supervised'
    BY <1>0, <1>2, <1>8, <2>2, SteadyKeeps
  <2>6. FlagsTyped'
    BY <1>0, <1>2, <1>3, <1>8 DEF FlagsTyped, DeleteService
  <2>7. QED
    BY <1>0, <2>2, <2>3, <2>4, <2>5, <2>6, GoesFits DEF Inv
<1>9. CASE CleanFlags(r) /\ CleanHealth(r) /\ UNCHANGED domainVars
  <2>1. Calm(r)
    BY <1>0, <1>9, TrafficCalm
  <2>2. Kept(r)
    BY <1>0, <1>9, <2>1, CalmKeeps DEF CleanFlags, recordVars, rowVars
  <2>3. req[r].name \in Names
    BY <1>0, <1>9, Underway, Known DEF CleanFlags, At
  <2>4. FlagsTyped'
    BY <1>0, <1>9, <2>3
       DEF CleanFlags, CleanHealth, FlagsTyped, TrafficTyped, WatchdogTyped, recordVars
  <2>5. QED
    BY <1>1, <1>9, <2>2, <2>4 DEF Kept
<1>10. QED
  BY <1>4, <1>5, <1>6, <1>7, <1>8, <1>9 DEF Step

\* What happens to the flags, to the rows it leaves alone.
LEMMA EventKeeps ==
  ASSUME Inv, UNCHANGED <<recordVars, req, domainVars>>, FlagsTyped', Supervised'
  PROVE  Inv'
<1>1. Fits /\ RowsInv /\ DomainsInv
  BY DEF Inv
<1>2. Fits'
  BY <1>1 DEF Fits, Labelled
<1>3. RowsInv'
  BY <1>1
     DEF RowsInv, RowsTyped, IdsUnique, SettingsHang, HeldIsOwn, LinkIsOwn, ownsLink,
         ServiceSettingsAreOwn, exists, liveServices, liveDeps, recordVars
<1>4. DomainsTyped' /\ DomainsServed'
  BY <1>1 DEF DomainsInv, DomainsTyped, DomainsServed, domainVars, recordVars
<1>5. Verified'
  BY <1>1
     DEF DomainsInv, Verified, VisitFits, VisitIsCurrent, TokenFound, ActiveWasProved, domainVars
<1>6. QED
  BY <1>2, <1>3, <1>4, <1>5 DEF Inv, DomainsInv

\* Reports of nodes, and flags that expire.
LEMMA Lapses ==
  ASSUME Inv
  PROVE  /\ NodeReports /\ UNCHANGED <<domainVars, watchdogVars>> => Inv'
         /\ \A p \in Clusters \X Names :
              CooldownOver(p) /\ UNCHANGED <<domainVars, watchdogVars>> => Inv'
         /\ \A n \in Names : (WakingExpires(n) \/ TombstoneExpires(n))
                               /\ UNCHANGED <<domainVars, watchdogVars>> => Inv'
         /\ \A n \in Names : ArmedExpires(n) /\ UNCHANGED <<trafficVars, domainVars>> => Inv'
<1>0. /\ lobby \in [Clusters -> SUBSET Names] /\ TrafficTyped /\ WatchdogTyped /\ Supervised
      /\ mix.names \subseteq Names
  BY ServiceRecordsAssumption DEF Inv, FlagsTyped, RowsInv, RowsTyped
<1>1. UNCHANGED watchdogVars => WatchdogTyped'
  BY <1>0 DEF WatchdogTyped, watchdogVars
<1>2. UNCHANGED <<req, cooling, reprovisions>> => Supervised'
  BY <1>0 DEF Supervised, RunsAlone, UnarmedIsCold, CountedIsArmed, pair
<1>3. ASSUME NodeReports, UNCHANGED <<domainVars, watchdogVars>>
      PROVE  Inv'
  BY <1>0, <1>1, <1>2, <1>3, EventKeeps DEF NodeReports, FlagsTyped, TrafficTyped, flagVars,
     recordVars
<1>4. ASSUME NEW p \in Clusters \X Names, CooldownOver(p), UNCHANGED <<domainVars, watchdogVars>>
      PROVE  Inv'
  <2>1. FlagsTyped'
    BY <1>0, <1>1, <1>4 DEF CooldownOver, FlagsTyped, TrafficTyped, flagVars, recordVars
  <2>2. /\ reprovisions' = [reprovisions EXCEPT ![p] = 0] /\ cooling' = cooling \ {p}
        /\ UNCHANGED req
    BY <1>4 DEF CooldownOver
  <2>3. Supervised'
    <3>1. RunsAlone' /\ UnarmedIsCold'
      BY <1>0, <2>2 DEF Supervised, RunsAlone, UnarmedIsCold, pair
    <3>2. reprovisions' \in [Clusters \X Names -> Nat]
      BY <1>0, <2>2 DEF Supervised
    <3>3. CountedIsArmed'
      BY <1>0, <2>2 DEF Supervised, CountedIsArmed, pair
    <3>4. QED
      BY <3>1, <3>2, <3>3 DEF Supervised
  <2>4. QED
    BY <1>4, <2>1, <2>3, EventKeeps DEF CooldownOver
<1>5. ASSUME NEW n \in Names, WakingExpires(n) \/ TombstoneExpires(n),
             UNCHANGED <<domainVars, watchdogVars>>
      PROVE  Inv'
  BY <1>0, <1>1, <1>2, <1>5, EventKeeps
     DEF WakingExpires, TombstoneExpires, FlagsTyped, TrafficTyped, recordVars
<1>6. ASSUME NEW n \in Names, ArmedExpires(n), UNCHANGED <<trafficVars, domainVars>>
      PROVE  Inv'
  BY <1>0, <1>2, <1>6, EventKeeps
     DEF ArmedExpires, FlagsTyped, TrafficTyped, WatchdogTyped, recordVars, trafficVars, flagVars
<1>7. QED
  BY <1>3, <1>4, <1>5, <1>6

\* With every request over, nothing is held and no run is under way.
LEMMA AllIdle ==
  ASSUME \A r \in Requests : req[r] = Idle, req \in [Requests -> Request], RowsTyped
  PROVE  /\ Fits /\ HeldIsOwn /\ RunsAlone /\ UnarmedIsCold
         /\ \A r \in Requests : VisitFits(r) /\ VisitIsCurrent(r) /\ TokenFound(r)
<1>1. \A r \in Requests : /\ Labelled(req[r]) /\ req[r].pc = "idle" /\ req[r].op # "supervise"
                          /\ req[r].service = None
  BY IdleFits, ServiceRecordsAssumption DEF Fit, Operations
<1>2. Fits
  BY <1>1 DEF Fits
<1>3. HeldIsOwn
  BY <1>1, RowsThere, IdsApart DEF HeldIsOwn
<1>4. RunsAlone /\ UnarmedIsCold
  BY <1>1, Kinds DEF RunsAlone, UnarmedIsCold
<1>5. \A r \in Requests : VisitFits(r) /\ VisitIsCurrent(r) /\ TokenFound(r)
  BY <1>1, Kinds DEF VisitFits, VisitIsCurrent, TokenFound, Verifying
<1>6. QED
  BY <1>2, <1>3, <1>4, <1>5

\* A restart ends every request.
LEMMA CrashKeeps ==
  ASSUME Inv, Crash, visit' = [r \in Requests |-> NoVisit], tally' = [r \in Requests |-> 0],
         UNCHANGED <<domains, domainRoute, proved, outlived, degraded, failures, armed, alerts>>
  PROVE  Inv'
<1>0. /\ RowsInv /\ DomainsInv /\ FlagsTyped /\ Idle \in Request
      /\ req' = [r \in Requests |-> Idle]
      /\ cooling' = {} /\ reprovisions' = [p \in Clusters \X Names |-> 0]
      /\ UNCHANGED <<recordVars, flagVars, route, reported>>
  BY IdleFits DEF Inv, Crash, Fit
<1>1. RowsTyped'
  BY <1>0 DEF RowsInv, RowsTyped, recordVars
<1>2. \A r \in Requests : /\ Labelled(req[r])' /\ req'[r].pc = "idle" /\ req'[r].service = None
                          /\ req'[r].op # "supervise"
  BY <1>0, IdleFits, ServiceRecordsAssumption DEF Fit, Labelled, Operations
<1>3. /\ Fits' /\ HeldIsOwn' /\ RunsAlone' /\ UnarmedIsCold'
      /\ (\A r \in Requests : VisitFits(r) /\ VisitIsCurrent(r) /\ TokenFound(r))'
  <2>1. Fits'
    BY <1>0, <1>2 DEF Fits
  <2>2. \A n \in Names : services'[n] # None => services'[n].id # None
    BY <1>0, RowsThere, IdsApart DEF RowsInv, recordVars
  <2>3. HeldIsOwn' /\ RunsAlone'
    BY <1>2, <2>2 DEF HeldIsOwn, RunsAlone
  <2>4. UnarmedIsCold' /\ (\A r \in Requests : VisitFits(r) /\ VisitIsCurrent(r) /\ TokenFound(r))'
    BY <1>2, Kinds DEF UnarmedIsCold, VisitFits, VisitIsCurrent, TokenFound, Verifying
  <2>5. QED
    BY <2>1, <2>3, <2>4
<1>4. RowsInv'
  BY <1>0, <1>1, <1>3
     DEF RowsInv, IdsUnique, SettingsHang, LinkIsOwn, ownsLink, ServiceSettingsAreOwn,
         exists, liveServices, liveDeps, recordVars
<1>5. FlagsTyped'
  BY <1>0 DEF FlagsTyped, TrafficTyped, WatchdogTyped, recordVars, flagVars, FAIL_THRESHOLD
<1>6. Supervised'
  BY <1>0, <1>3 DEF Supervised, CountedIsArmed
<1>7. DomainsTyped'
  <2>1. NoVisit \in [domain : Rows(Domains), row : Rows(DomainRow)]
    BY InRows DEF NoVisit
  <2>2. QED
    BY <1>0, <2>1 DEF DomainsInv, DomainsTyped
<1>8. DomainsServed' /\ ActiveWasProved'
  BY <1>0 DEF DomainsInv, DomainsServed, Verified, ActiveWasProved, recordVars
<1>9. QED
  BY <1>3, <1>4, <1>5, <1>6, <1>7, <1>8 DEF Inv, DomainsInv, Verified

\* The initial states have the invariant.
LEMMA InitInv == Init => Inv
<1> SUFFICES ASSUME Init
             PROVE  Inv
  OBVIOUS
<1>0. RecordsInit /\ TrafficInit /\ DomainsInit /\ WatchdogInit
  BY DEF Init
<1>1. /\ mix \in Mixes /\ mix.names \subseteq Names /\ settings = {} /\ lapsed = {}
      /\ lobby = [c \in Clusters |-> {}] /\ req = [r \in Requests |-> Idle]
  BY <1>0, ServiceRecordsAssumption DEF RecordsInit
<1>2. /\ services \in [Names -> Rows(ServiceRow)] /\ deployments \in [Names -> Rows(DepRow)]
      /\ IdsUnique /\ LinkIsOwn
  <2>1. CASE services = [n \in Names |-> None] /\ deployments = [n \in Names |-> None]
    BY <2>1, InRows DEF IdsUnique, LinkIsOwn, ownsLink
  <2>2. ASSUME NEW c \in Clusters, NEW n \in mix.names, NEW s \in ServiceIds, NEW d \in DepIds,
               services = [m \in Names |->
                 IF m = n THEN [id |-> s, cluster |-> c, iced |-> FALSE, dep |-> d] ELSE None],
               deployments = [m \in Names |->
                 IF m = n THEN [id |-> d, cluster |-> c, finished |-> TRUE] ELSE None]
        PROVE  /\ services \in [Names -> Rows(ServiceRow)] /\ deployments \in [Names -> Rows(DepRow)]
               /\ IdsUnique /\ LinkIsOwn
    <3> DEFINE row == [id |-> s, cluster |-> c, iced |-> FALSE, dep |-> d]
               dep == [id |-> d, cluster |-> c, finished |-> TRUE]
    <3>1. row \in ServiceRow /\ row.dep = d /\ row.cluster = c
      BY InRows DEF ServiceRow
    <3>2. dep \in DepRow /\ dep.id = d /\ dep.cluster = c
      BY DEF DepRow
    <3>3. /\ n \in Names /\ services = [m \in Names |-> IF m = n THEN row ELSE None]
          /\ deployments = [m \in Names |-> IF m = n THEN dep ELSE None]
      BY <1>1, <2>2
    <3>4. row # None /\ dep # None
      BY <3>1, <3>2, ServicesAssumption
    <3> HIDE DEF row, dep
    <3>5. services \in [Names -> Rows(ServiceRow)] /\ deployments \in [Names -> Rows(DepRow)]
      BY <3>1, <3>2, <3>3, InRows
    <3>6. QED
      BY <3>1, <3>2, <3>3, <3>4, <3>5 DEF IdsUnique, LinkIsOwn, ownsLink
  <2>3. QED
    BY <1>0, <2>1, <2>2 DEF RecordsInit
<1>3. RowsTyped /\ SettingsHang /\ ServiceSettingsAreOwn
  BY <1>1, <1>2 DEF RowsTyped, SettingsHang, ServiceSettingsAreOwn
<1>4. /\ Fits /\ HeldIsOwn /\ RunsAlone /\ UnarmedIsCold
      /\ \A r \in Requests : VisitFits(r) /\ VisitIsCurrent(r) /\ TokenFound(r)
  BY <1>1, <1>3, AllIdle, IdleFits DEF Fit
<1>5. FlagsTyped
  BY <1>0, <1>1
     DEF FlagsTyped, TrafficTyped, WatchdogTyped, TrafficInit, WatchdogInit, Routes, FAIL_THRESHOLD
<1>6. Supervised
  BY <1>0, <1>4 DEF Supervised, CountedIsArmed, TrafficInit
<1>7. DomainsTyped /\ DomainsServed /\ ActiveWasProved
  <2>1. NoVisit \in [domain : Rows(Domains), row : Rows(DomainRow)]
    BY InRows DEF NoVisit
  <2>2. QED
    BY <1>0, <2>1, InRows DEF DomainsInit, DomainsTyped, DomainsServed, ActiveWasProved
<1>8. QED
  BY <1>2, <1>3, <1>4, <1>5, <1>6, <1>7 DEF Inv, RowsInv, DomainsInv, Verified

\* Every reachable state has the invariant, through all interleavings of the
\* requests, the expiries, and restarts of the process.
THEOREM Invariant == Spec => []Inv
<1>1. Init => Inv
  BY InitInv
<1>2. Inv /\ [Next]_vars => Inv'
  <2> SUFFICES ASSUME Inv, [Next]_vars
               PROVE  Inv'
    OBVIOUS
  <2>1. ASSUME NEW r \in Requests, Step(r)
        PROVE  Inv'
    BY <2>1, StepKeeps
  <2>2. CASE Event /\ UNCHANGED <<domainVars, watchdogVars>>
    BY <2>2, Lapses DEF Event
  <2>3. ASSUME NEW n \in Names, ArmedExpires(n), UNCHANGED <<trafficVars, domainVars>>
        PROVE  Inv'
    BY <2>3, Lapses
  <2>4. CASE /\ Crash
             /\ visit' = [r \in Requests |-> NoVisit] /\ tally' = [r \in Requests |-> 0]
             /\ UNCHANGED <<domains, domainRoute, proved, outlived, degraded, failures, armed, alerts>>
    BY <2>4, CrashKeeps
  <2>5. CASE UNCHANGED vars
    <3>1. UNCHANGED <<recordVars, req, domainVars, trafficVars, watchdogVars>>
      BY <2>5 DEF vars
    <3>2. FlagsTyped' /\ Supervised'
      BY <3>1
         DEF Inv, FlagsTyped, TrafficTyped, WatchdogTyped, Supervised, RunsAlone, UnarmedIsCold,
             CountedIsArmed, pair, recordVars, trafficVars, flagVars, watchdogVars
    <3>3. QED
      BY <3>1, <3>2, EventKeeps
  <2>6. QED
    BY <2>1, <2>2, <2>3, <2>4, <2>5 DEF Next
<1>3. QED
  BY <1>1, <1>2, PTL DEF Spec

(* --- What follows ------------------------------------------------------ *)

\* TypeOK: what is stored is of its type, and the references the schema declares
\* lead to rows through every deletion.
THEOREM TypeCorrect == Spec => []TypeOK
<1>1. Inv => TypeOK
  <2> SUFFICES ASSUME Inv
               PROVE  TypeOK
    OBVIOUS
  <2>1. Fits /\ FlagsTyped /\ RowsInv /\ DomainsTyped /\ DomainsServed
    BY DEF Inv, DomainsInv
  <2>2. ASSUME NEW r \in Requests
        PROVE  /\ DOMAIN req[r] = DOMAIN Idle /\ req[r].op \in Rows(Operations)
               /\ req[r].cluster \in Rows(Clusters) /\ req[r].name \in Rows(Names)
               /\ req[r].service \in Rows(ServiceIds) /\ req[r].dep \in Rows(DepIds)
               /\ req[r].asked \in Rows(Names)
    <3>1. req[r] \in Request
      BY <2>1 DEF Fits
    <3>2. DOMAIN req[r] = DOMAIN Idle
      BY <3>1 DEF Request, Idle
    <3>3. QED
      BY <3>1, <3>2 DEF Request
  <2>3. /\ mix \in Mixes
        /\ services \in [Names -> Rows(ServiceRow)] /\ deployments \in [Names -> Rows(DepRow)]
        /\ settings \subseteq Setting /\ lapsed \subseteq Names
        /\ \A x \in settings : exists(x.at)
    BY <2>1 DEF RowsInv, RowsTyped, SettingsHang
  <2>4. /\ lobby \in [Clusters -> SUBSET Names]
        /\ sleeping \cup waking \cup tombstone \cup reported \subseteq Names
        /\ route \in [Names -> Routes] /\ cooling \subseteq Clusters \X Names
        /\ degraded \cup armed \subseteq Names /\ failures \in [Names -> 0..FAIL_THRESHOLD]
    BY <2>1 DEF FlagsTyped, TrafficTyped, WatchdogTyped
  <2>5. QED
    BY <2>1, <2>2, <2>3, <2>4 DEF TypeOK, DomainsTyped, DomainsServed
<1>2. QED
  BY <1>1, Invariant, PTL

\* LinkIsOwn: the deployment a service links to is its cluster's, or was deleted
\* since the service was last written.
THEOREM LinksOwn == Spec => []LinkIsOwn
<1>1. Inv => LinkIsOwn
  BY DEF Inv, RowsInv
<1>2. QED
  BY <1>1, Invariant, PTL

\* ServiceSettingsAreOwn: no service gets the environment or the secrets of
\* another cluster.
THEOREM SettingsOwn == Spec => []ServiceSettingsAreOwn
<1>1. Inv => ServiceSettingsAreOwn
  BY DEF Inv, RowsInv
<1>2. QED
  BY <1>1, Invariant, PTL

\* ReprovisionedOncePerWindow: one deploy task per cooldown, for the run that
\* counted the task is the only one of its name until the cooldown starts, or ends
\* without one because the task could not be recorded; such a task is not counted.
THEOREM ReprovisionedOnce == Spec => []ReprovisionedOncePerWindow
<1>1. Inv => ReprovisionedOncePerWindow
  <2> SUFFICES ASSUME Inv, NEW p \in Clusters \X Names
               PROVE  reprovisions[p] <= 1
    BY DEF ReprovisionedOncePerWindow
  <2>1. reprovisions[p] = 0 \/ reprovisions[p] = 1
    BY DEF Inv, Supervised, CountedIsArmed
  <2>2. QED
    BY <2>1
<1>2. QED
  BY <1>1, Invariant, PTL

\* ActiveWasProved: an active domain had its own token found, unless it outlived
\* a row whose verification was under way.
THEOREM ActiveProved == Spec => []ActiveWasProved
<1>1. Inv => ActiveWasProved
  BY DEF Inv, DomainsInv, Verified
<1>2. QED
  BY <1>1, Invariant, PTL
=============================================================================
