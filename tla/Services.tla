------------------------------ MODULE Services ------------------------------
(***************************************************************************)
(* The life of a service: its rows (ServiceRecords), what visitors and the *)
(* supervisor see of it (ServiceTraffic), its custom domains               *)
(* (CustomDomains) and its watchdog, composed over the requests they share.*)
(***************************************************************************)
EXTENDS ServiceTraffic, CustomDomains, Watchdog

vars == <<recordVars, req, trafficVars, domainVars, watchdogVars>>

Init == RecordsInit /\ TrafficInit /\ DomainsInit /\ WatchdogInit

Step(r) ==
  \/ RecordsStep(r) /\ UNCHANGED <<trafficVars, domainVars, watchdogVars>>
  \/ TrafficStep(r) /\ UNCHANGED <<domainVars, watchdogVars>>
  \/ DomainStep(r) /\ UNCHANGED <<trafficVars, watchdogVars>>
  \/ WatchdogStep(r) /\ UNCHANGED <<trafficVars, domainVars>>
  \/ CleanFlags(r) /\ CleanHealth(r) /\ UNCHANGED domainVars
  \/ DeleteService(r) /\ Detach
       /\ UNCHANGED <<trafficVars, domainRoute, visit, proved, outlived, watchdogVars>>
Event ==
  \/ NodeReports \/ \E p \in Clusters \X Names : CooldownOver(p)
  \/ \E n \in Names : WakingExpires(n) \/ TombstoneExpires(n)
Next ==
  \/ \E r \in Requests : Step(r)
  \/ Event /\ UNCHANGED <<domainVars, watchdogVars>>
  \/ \E n \in Names : ArmedExpires(n) /\ UNCHANGED <<trafficVars, domainVars>>
  \/ /\ Crash
     /\ visit' = [r \in Requests |-> NoVisit] /\ tally' = [r \in Requests |-> 0]
     /\ UNCHANGED <<domains, domainRoute, proved, outlived, degraded, failures, armed, alerts>>

Spec == Init /\ [][Next]_vars

(* --- Properties ------------------------------------------------------------ *)

Rows(set) == set \cup {None}
ServiceRow == [id : ServiceIds, cluster : Clusters, dep : Rows(DepIds), iced : BOOLEAN]
DepRow     == [id : DepIds, cluster : Clusters, finished : BOOLEAN]
DomainRow  == [cluster : Clusters, token : DomainTokens, service : Rows(Names), active : BOOLEAN]
Setting    == [at : ServiceIds \cup DepIds, of : Clusters]

\* None stands for the absence of a row.
ASSUME ServicesAssumption == None \notin ServiceRow \cup DepRow \cup DomainRow

\* Each variable holds what the code can store in it, and the references the
\* schema declares lead to rows: from settings to a service or a deployment and
\* from a domain to its service, through every deletion.
TypeOK ==
  /\ mix \in Mixes
  /\ services \in [Names -> Rows(ServiceRow)] /\ deployments \in [Names -> Rows(DepRow)]
  /\ lobby \in [Clusters -> SUBSET Names] /\ settings \subseteq Setting
  /\ lapsed \subseteq Names
  /\ \A r \in Requests : /\ DOMAIN req[r] = DOMAIN Idle /\ req[r].op \in Rows(Operations)
                         /\ req[r].cluster \in Rows(Clusters) /\ req[r].name \in Rows(Names)
                         /\ req[r].service \in Rows(ServiceIds) /\ req[r].dep \in Rows(DepIds)
                         /\ req[r].asked \in Rows(Names)
  /\ sleeping \cup waking \cup tombstone \cup reported \subseteq Names
  /\ route \in [Names -> Routes] /\ cooling \subseteq Clusters \X Names
  /\ degraded \cup armed \subseteq Names /\ failures \in [Names -> 0..FAIL_THRESHOLD]
  /\ domains \in [Domains -> Rows(DomainRow)] /\ domainRoute \in [Domains -> Rows(Names)]
  /\ \A x \in settings : exists(x.at)
  /\ \A d \in Domains : domains[d] # None /\ domains[d].service # None
                           => services[domains[d].service] # None

\* The deployment a service links to belongs to the service's cluster, whatever
\* two clusters deploy, finish and report under one name and whichever ids they
\* give, unless it was deleted since the service was last written: no foreign key
\* keeps that link, and a late report may insert its id for another cluster.
LinkIsOwn ==
  \A n \in Names : services[n] # None /\ n \notin lapsed => ownsLink(services[n].cluster, services[n].dep)

\* Environment and secrets that hang on a service came with a request of the
\* cluster that owns it, although the lobby, the row of the deployment and the
\* row of the service are found by name at different times.
ServiceSettingsAreOwn ==
  \A n \in Names, x \in settings :
    services[n] # None /\ x.at = services[n].id => x.of = services[n].cluster

\* The same of the deployments: what consumeDeploymentPayload took from the
\* lobby of a cluster ends up with a deployment of that cluster.
DeploymentSettingsAreOwn ==
  \A n \in Names, x \in settings :
    deployments[n] # None /\ x.at = deployments[n].id => x.of = deployments[n].cluster

\* Within one cooldown the supervisor provisions a service again at most once,
\* although it looks at the cooldown many awaits before it starts it, and the
\* ticks go on meanwhile; but for a task whose enqueueBuild fails after it was
\* sent, which starts no cooldown.
ReprovisionedOncePerWindow == \A p \in Clusters \X Names : reprovisions[p] <= 1

\* An active domain had its own token found in the DNS, unless it was removed
\* and registered anew while a verification of the row before was under way.
ActiveWasProved ==
  \A d \in Domains : domains[d] # None /\ domains[d].active =>
    domains[d].token \in proved \/ d \in outlived

\* The watchdog alerts once within its cooldown.
AlertedOncePerCooldown == \A n \in Names : alerts[n] <= 1
=============================================================================
