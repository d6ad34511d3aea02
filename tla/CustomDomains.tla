---------------------------- MODULE CustomDomains ----------------------------
(***************************************************************************)
(* Custom domains (routes/domains.ts and the domain-verification job): a   *)
(* domain is registered for a service with a token, becomes active once    *)
(* the token is found in a TXT record, and is then routed to the service.  *)
(* The DNS is read between two statements on the row.                      *)
(***************************************************************************)
EXTENDS ServiceRecords

CONSTANTS
  Domains,
  DomainTokens, (* random tokens; none is drawn twice                       *)
  DomainLimit   (* DOMAIN_LIMIT_BY_TIER                                     *)

ASSUME CustomDomainsAssumption ==
  DomainLimit \in Nat /\ None \notin Domains \cup DomainTokens

VARIABLES
  domains,      (* the domains row of a domain                              *)
  domainRoute,  (* TRAEFIK.ROUTER_SERVICE of a domain                       *)
  visit,        (* the domain and the row a request works on                *)
  proved,       (* history: tokens that were found in a TXT record          *)
  outlived      (* history: domains whose row was deleted while a           *)
                (* verification of it was under way                         *)

domainVars == <<domains, domainRoute, visit, proved, outlived>>

NoVisit == [domain |-> None, row |-> None]
drawnTokens == {domains[d].token : d \in {e \in Domains : domains[e] # None}}
                 \cup proved \cup {visit[r].row.token : r \in {x \in Requests : visit[x].row # None}}

Enter(r, d, row) == visit' = [visit EXCEPT ![r] = [domain |-> d, row |-> row]]
Leave(r) == Return(r) /\ visit' = [visit EXCEPT ![r] = NoVisit]
KeepRows == UNCHANGED <<recordVars, domains, domainRoute, proved, outlived>>

(* --- Registering ----------------------------------------------------------- *)

\* The service must be one of the cluster.
AddDomain(r, c, n, d) ==
  /\ foundIn(c, n)
  /\ Begin(r, "addDomain", c, n, "findDomain") /\ Enter(r, d, None)
  /\ KeepRows
\* A domain that is registered already keeps its row, whoever asks.
FindDomain(r) ==
  /\ At(r, "findDomain")
  /\ IF domains[visit[r].domain] # None THEN Leave(r)
     ELSE IF Cardinality({d \in Domains : domains[d] # None /\ domains[d].service = req[r].name})
               < DomainLimit
       THEN Goto(r, "insertDomain") /\ UNCHANGED visit ELSE Leave(r)
  /\ KeepRows
\* The domain is unique and the service must still exist.
InsertDomain(r) ==
  LET q == req[r]
      d == visit[r].domain IN
  /\ At(r, "insertDomain")
  /\ IF domains[d] = None /\ services[q.name] # None
       THEN \E t \in DomainTokens \ drawnTokens :
              domains' = [domains EXCEPT ![d] =
                [cluster |-> q.cluster, token |-> t, service |-> q.name, active |-> FALSE]]
       ELSE UNCHANGED domains
  /\ Leave(r)
  /\ UNCHANGED <<recordVars, domainRoute, proved, outlived>>

(* --- Verifying ------------------------------------------------------------- *)

\* POST /domains/:domain/verify, and the job for each pending domain.
VerifyDomain(r, d) ==
  /\ domains[d] # None
  /\ \/ Begin(r, "verifyDomain", domains[d].cluster, None, "checkTxtRecord")
     \/ ~domains[d].active /\ Begin(r, "verifyJob", domains[d].cluster, None, "checkTxtRecord")
  /\ Enter(r, d, domains[d])
  /\ KeepRows

\* Variant with a bug: the domain is activated whatever the TXT record says.
checkUnread(r, found) == Goto(r, "activate") /\ UNCHANGED visit
check(r, found) == IF found THEN Goto(r, "activate") /\ UNCHANGED visit ELSE Leave(r)

\* checkTxtRecord, with the token of the row that was read.
CheckTxtRecord(r) ==
  /\ At(r, "checkTxtRecord")
  /\ \E found \in BOOLEAN :
       /\ check(r, found)
       /\ proved' = IF found THEN proved \cup {visit[r].row.token} ELSE proved
  /\ UNCHANGED <<recordVars, domains, domainRoute, outlived>>
\* activate: UPDATE ... WHERE domain, whichever row has it by now.
Activate(r) ==
  LET d == visit[r].domain IN
  /\ At(r, "activate")
  /\ domains' = IF domains[d] = None THEN domains ELSE [domains EXCEPT ![d].active = TRUE]
  /\ IF visit[r].row.service # None THEN Goto(r, "routeDomain") /\ UNCHANGED visit ELSE Leave(r)
  /\ UNCHANGED <<recordVars, domainRoute, proved, outlived>>
RouteDomain(r) ==
  /\ At(r, "routeDomain")
  /\ domainRoute' = [domainRoute EXCEPT ![visit[r].domain] = visit[r].row.service]
  /\ Leave(r)
  /\ UNCHANGED <<recordVars, domains, proved, outlived>>

(* --- Removing -------------------------------------------------------------- *)

RemoveDomain(r, d) ==
  /\ domains[d] # None
  /\ Begin(r, "removeDomain", domains[d].cluster, None, "deleteDomain") /\ Enter(r, d, domains[d])
  /\ KeepRows
DeleteDomain(r) ==
  LET d == visit[r].domain IN
  /\ At(r, "deleteDomain")
  /\ domains' = [domains EXCEPT ![d] = None]
  /\ outlived' = IF \E x \in Requests : /\ req[x].op \in {"verifyDomain", "verifyJob"}
                                        /\ visit[x].domain = d
                   THEN outlived \cup {d} ELSE outlived
  /\ IF visit[r].row.active THEN Goto(r, "unrouteDomain") /\ UNCHANGED visit ELSE Leave(r)
  /\ UNCHANGED <<recordVars, domainRoute, proved>>
UnrouteDomain(r) ==
  /\ At(r, "unrouteDomain")
  /\ domainRoute' = [domainRoute EXCEPT ![visit[r].domain] = None]
  /\ Leave(r)
  /\ UNCHANGED <<recordVars, domains, proved, outlived>>

\* Variant with a bug: the domains of a deleted service keep naming it.
DetachNothing == UNCHANGED domains

\* domains.service_name REFERENCES services(name) ON DELETE SET NULL.
Detach == domains' = [d \in Domains |->
  IF domains[d] # None /\ domains[d].service # None /\ services'[domains[d].service] = None
    THEN [domains[d] EXCEPT !.service = None] ELSE domains[d]]

DomainsInit ==
  /\ domains = [d \in Domains |-> None] /\ domainRoute = [d \in Domains |-> None]
  /\ visit = [r \in Requests |-> NoVisit]
  /\ proved = {} /\ outlived = {}

DomainStep(r) ==
  \/ \E d \in Domains :
       \/ VerifyDomain(r, d) \/ RemoveDomain(r, d)
       \/ \E c \in Clusters, n \in Names : AddDomain(r, c, n, d)
  \/ FindDomain(r) \/ InsertDomain(r) \/ CheckTxtRecord(r) \/ Activate(r) \/ RouteDomain(r)
  \/ DeleteDomain(r) \/ UnrouteDomain(r)
=============================================================================
