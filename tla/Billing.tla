------------------------------ MODULE Billing -------------------------------
(***************************************************************************)
(* Subscriptions of clusters: the events the payment provider delivers,    *)
(* the row of table billing they leave, and the instances a cluster moves  *)
(* between when its plan changes.                                          *)
(*                                                                         *)
(* The provider (Polar) is external: it keeps the subscriptions and calls  *)
(* /billing/webhook with their events, each at least once, and nothing     *)
(* makes it wait for one call before the next.  A handler of an event      *)
(* (BillingService.handleWebhook) awaits the database at every step; so    *)
(* does the part of NodeDoctor.nodesSync that places clusters that have no *)
(* instance, whose allocation module InstancePool has in detail.           *)
(***************************************************************************)
EXTENDS Integers, FiniteSets, Sequences

CONSTANTS
  Clusters,
  Subs,        (* subscriptions the provider may open ...                   *)
  Buyer,       (* ... and the cluster each is bought for                    *)
  Hooks,       (* the webhook calls that may be under way at once           *)
  Doctors,     (* the runs of nodesSync that may be                         *)
  Capacity,    (* the clusters the pool instances of each tier have room for*)
  Mixes,       (* bounds of the model: of each behaviour, the most events   *)
               (* of each cluster, the most deliveries out of order, the    *)
               (* most webhook calls at once, and whether the doctor runs   *)
  None

Plans == {"hobby", "indie", "pro"}
Paid == {"indie", "pro"}
Tiers == {"hobby", "indie"}
Types == {"created", "updated", "canceled", "uncanceled", "revoked", "past_due"}
Procs == Hooks \cup Doctors

ASSUME BillingAssumption ==
  /\ IsFiniteSet(Clusters) /\ Buyer \in [Subs -> Clusters]
  /\ Capacity \in [Tiers -> Nat]
  /\ \A m \in Mixes : /\ m.events \in [Clusters -> Nat] /\ m.repeats \in Nat
                      /\ m.hooks \in Nat /\ m.doctor \in BOOLEAN
  /\ Hooks \cap Doctors = {}
  /\ None \notin Clusters \cup Subs \cup Plans

VARIABLES
  mix,        (* the bounds of this behaviour                               *)
  (* The provider. *)
  sold,       (* the subscriptions: their plan and state                    *)
  elapsed,    (* those whose paid period has ended                          *)
  log,        (* the events of each cluster, in the order they happened     *)
  repeats,    (* bounds the deliveries out of order                         *)
  (* Database. *)
  bill,       (* rows of billing, by cluster                                *)
  pool,       (* clusters.pool_instance_id, by its metadata.tier            *)
  dedicated,  (* clusters with a dedicated instance: instances.cluster_id   *)
  (* Calls. *)
  req,
  (* History. *)
  handled,    (* the events of a cluster delivered in order so far          *)
  orderly     (* the clusters all of whose events came in order and one at  *)
              (* a time, and whose paid period did not end unannounced      *)

provider == <<mix, sold, elapsed, log, repeats>>
placement == <<pool, dedicated>>
vars == <<provider, bill, placement, req, handled, orderly>>

NoSub == [plan |-> None, state |-> "none"]
NoRow == [plan |-> None, status |-> None, sub |-> None, end |-> None]
Event(s, type, plan, status, named) ==
  [sub |-> s, type |-> type, plan |-> plan, status |-> status, named |-> named]
NoEvent == Event(None, "none", None, None, FALSE)
Idle == [pc |-> "idle", event |-> NoEvent, cluster |-> None, row |-> NoRow,
         from |-> None, to |-> None, todo |-> {}]

At(p, pc) == req[p].pc = pc
Goto(p, pc) == req' = [req EXCEPT ![p].pc = pc]
Return(p) == req' = [req EXCEPT ![p] = Idle]
Read == UNCHANGED <<provider, bill, placement, handled, orderly>>

Init ==
  /\ mix \in Mixes
  /\ sold = [s \in Subs |-> NoSub] /\ elapsed = {} /\ repeats = 0
  /\ log = [c \in Clusters |-> <<>>]
  /\ bill = [c \in Clusters |-> NoRow]
  /\ pool = [c \in Clusters |-> None] /\ dedicated = {}
  /\ req = [p \in Procs |-> Idle]
  /\ handled = [c \in Clusters |-> 0] /\ orderly = Clusters

(* --- The provider ---------------------------------------------------------- *)

\* The subscription changes and its event is due. An event but the first of a
\* cluster may leave out the external id of the customer.
Emit(s, type, plan, state, status) ==
  LET c == Buyer[s] IN
  /\ Len(log[c]) < mix.events[c]
  /\ sold' = [sold EXCEPT ![s] = [plan |-> plan, state |-> state]]
  /\ \E named \in BOOLEAN :
       log' = [log EXCEPT ![c] = Append(@, Event(s, type, plan, status, named \/ log[c] = <<>>))]
  /\ UNCHANGED <<mix, elapsed, repeats, bill, placement, req, handled, orderly>>

\* createCheckoutSession with the cluster as external_customer_id; a customer
\* has one subscription at a time.
Subscribe(s, plan) ==
  /\ sold[s] = NoSub
  /\ \A t \in Subs : Buyer[t] = Buyer[s] => sold[t].state \in {"none", "revoked"}
  /\ Emit(s, "created", plan, "active", "active")
ChangePlan(s, plan) == /\ sold[s].state = "active" /\ plan # sold[s].plan
                       /\ Emit(s, "updated", plan, "active", "active")
\* The customer portal.
Cancel(s)    == sold[s].state = "active" /\ Emit(s, "canceled", sold[s].plan, "canceled", "active")
Uncancel(s)  == /\ sold[s].state = "canceled" /\ s \notin elapsed
                /\ Emit(s, "uncanceled", sold[s].plan, "active", "active")
FailPayment(s) == /\ sold[s].state = "active"
                  /\ \E type \in {"past_due", "updated"} :
                       Emit(s, type, sold[s].plan, "past_due", "past_due")
RetryPayment(s) == sold[s].state = "past_due" /\ Emit(s, "updated", sold[s].plan, "active", "active")
\* At once, after failed payments, or when the period it was canceled for ends.
Revoke(s) == /\ sold[s].state \in {"active", "past_due"} \/ (sold[s].state = "canceled" /\ s \in elapsed)
             /\ Emit(s, "revoked", sold[s].plan, "revoked", "canceled")
PeriodEnds(s) ==
  /\ sold[s].state = "canceled" /\ s \notin elapsed
  /\ elapsed' = elapsed \cup {s} /\ orderly' = orderly \ {Buyer[s]}
  /\ UNCHANGED <<mix, sold, log, repeats, bill, placement, req, handled>>

Provider(s) ==
  \/ \E plan \in Paid : Subscribe(s, plan) \/ ChangePlan(s, plan)
  \/ Cancel(s) \/ Uncancel(s) \/ FailPayment(s) \/ RetryPayment(s)
  \/ Revoke(s) \/ PeriodEnds(s)

(* --- Rows -------------------------------------------------------------------- *)

\* Variant with a bug: any row with a subscription matches.
rowsOfAny(s) == {c \in Clusters : bill[c].sub # None}
rowsOf(s) == {c \in Clusters : bill[c].sub = s}

\* getEffectivePlan: a canceled plan lasts to the end of its period.
effectivePlan(row, ended) ==
  IF row = NoRow \/ (row.status = "canceled" /\ row.end \in ended \cup {None})
    THEN "hobby" ELSE row.plan

\* upsert: COALESCE keeps the subscription and the period's end unless the
\* event has new ones.
merged(old, new) ==
  [new EXCEPT !.sub = IF @ = None THEN old.sub ELSE @,
              !.end = IF @ = None THEN old.end ELSE @]

Upsert(c, plan, status, sub, end) ==
  bill' = [bill EXCEPT ![c] =
    merged(@, [plan |-> plan, status |-> status, sub |-> sub, end |-> end])]

(* --- The handler of an event ------------------------------------------------- *)

busyWith(c) == \E p \in Procs : req[p].cluster = c \/ (\E s \in Subs : req[p].event.sub = s /\ Buyer[s] = c)

firstStep(type) == CASE type \in {"created", "updated"} -> "resolve"
                     [] type = "past_due" -> "resolve"
                     [] OTHER -> "find"

\* handleWebhook; the next event in order, or any other again or too early.
Deliver(h, c, i) ==
  LET e == log[c][i] IN
  /\ Cardinality({g \in Hooks : ~At(g, "idle")}) < mix.hooks
  /\ At(h, "idle") /\ i \in DOMAIN log[c]
  /\ IF i = handled[c] + 1
       THEN /\ handled' = [handled EXCEPT ![c] = i] /\ UNCHANGED repeats
            /\ orderly' = IF busyWith(c) THEN orderly \ {c} ELSE orderly
       ELSE /\ repeats < mix.repeats /\ repeats' = repeats + 1
            /\ orderly' = orderly \ {c} /\ UNCHANGED handled
  /\ req' = [req EXCEPT ![h] = [Idle EXCEPT !.event = e, !.pc = firstStep(e.type)]]
  /\ UNCHANGED <<mix, sold, elapsed, log, bill, placement>>

After(type) == IF type = "past_due" THEN "get" ELSE "previousPlan"

\* The cluster: the one the event names, else the row of its subscription, ...
Resolve(h) ==
  LET e == req[h].event  found == IF e.named THEN {Buyer[e.sub]} ELSE rowsOf(e.sub) IN
  /\ At(h, "resolve")
  /\ \/ \E c \in found : req' = [req EXCEPT ![h].cluster = c, ![h].pc = After(e.type)]
     \/ /\ found = {}
        /\ IF e.type = "past_due" THEN Return(h) ELSE Goto(h, "customer")
  /\ Read
\* ... else, for created and updated, the row of its customer.
ResolveByCustomer(h) ==
  LET c == Buyer[req[h].event.sub] IN
  /\ At(h, "customer")
  /\ IF bill[c] = NoRow THEN Return(h)
       ELSE req' = [req EXCEPT ![h].cluster = c, ![h].pc = "previousPlan"]
  /\ Read

\* onSubscriptionCanceled, -Revoked and -Uncanceled look for the row alone.
FindRow(h) ==
  LET e == req[h].event IN
  /\ At(h, "find")
  /\ \/ \E c \in rowsOf(e.sub) :
          req' = [req EXCEPT ![h].cluster = c, ![h].row = bill[c],
                             ![h].pc = IF e.type = "canceled" THEN "upsert" ELSE "previousPlan"]
     \/ rowsOf(e.sub) = {} /\ Return(h)
  /\ Read

GetRow(h) ==
  LET row == bill[req[h].cluster] IN
  /\ At(h, "get")
  /\ IF row = NoRow THEN Return(h) ELSE req' = [req EXCEPT ![h].row = row, ![h].pc = "upsert"]
  /\ Read

ReadPreviousPlan(h) ==
  /\ At(h, "previousPlan")
  /\ req' = [req EXCEPT ![h].from = effectivePlan(bill[req[h].cluster], elapsed), ![h].pc = "upsert"]
  /\ Read

\* Variant with a bug: the revoked plan stays.
recordedPlanKept(h) ==
  LET e == req[h].event IN
  IF e.type \in {"created", "updated"} THEN e.plan ELSE req[h].row.plan
\* The plan a handler records: the event's, or the row's it has read.
recordedPlan(h) ==
  LET e == req[h].event IN
  CASE e.type \in {"created", "updated"} -> e.plan
    [] e.type = "revoked" -> "hobby"
    [] OTHER -> req[h].row.plan

recordedStatus(e) == CASE e.type = "canceled" -> "canceled"
                       [] e.type = "past_due" \/ (e.type \in {"created", "updated"} /\ e.status = "past_due") -> "past_due"
                       [] OTHER -> "active"

WriteRow(h) ==
  LET e == req[h].event  c == req[h].cluster  plan == recordedPlan(h)
      moves == e.type \notin {"canceled", "past_due"} /\ req[h].from # plan IN
  /\ At(h, "upsert")
  /\ Upsert(c, plan, recordedStatus(e),
            IF e.type = "past_due" THEN req[h].row.sub ELSE e.sub,
            IF e.type \in {"created", "updated", "canceled"} THEN e.sub ELSE None)
  /\ req' = [req EXCEPT ![h].to = plan, ![h].pc = IF moves THEN "transition" ELSE "notify"]
  /\ UNCHANGED <<provider, placement, handled, orderly>>

\* sendBillingNotification: it looks the owner of the cluster up by an email
\* that is his id, finds no account, and neither mails nor sets the sentinel.
Notify(h) == At(h, "notify") /\ Return(h) /\ Read

(* --- Moving a cluster between plans -------------------------------------------- *)

hasRoom(tier) == Cardinality({c \in Clusters : pool[c] = tier}) < Capacity[tier]
\* CHECK instances_kind_cluster_check: a dedicated instance has a cluster, so
\* that the statement that takes it away raises and leaves all as it was.
mayRelease(c) == c \notin dedicated

\* Variant with a bug: the place in the pool is kept.
ReleasePoolKept(h) ==
  LET r == req[h] IN
  /\ At(h, "transition") /\ (r.to = "pro" \/ r.from # "pro")
  /\ Goto(h, IF r.to = "pro" THEN "releaseDedicated" ELSE "assignPool")
  /\ UNCHANGED <<provider, bill, placement, handled, orderly>>
\* transitionPlan; an error is logged and the event goes on.
ReleasePool(h) ==
  LET r == req[h] IN
  /\ At(h, "transition") /\ (r.to = "pro" \/ r.from # "pro")
  /\ pool' = [pool EXCEPT ![r.cluster] = None]
  /\ Goto(h, IF r.to = "pro" THEN "releaseDedicated" ELSE "assignPool")
  /\ UNCHANGED <<provider, bill, dedicated, handled, orderly>>
ReleaseDedicated(h) ==
  LET c == req[h].cluster IN
  /\ At(h, "releaseDedicated")
  /\ dedicated' = IF mayRelease(c) THEN dedicated \ {c} ELSE dedicated
  /\ Goto(h, "notify")
  /\ UNCHANGED <<provider, bill, pool, handled, orderly>>
AssignPool(h) ==
  LET r == req[h] IN
  /\ At(h, "assignPool") /\ Goto(h, "notify")
  /\ pool' = IF hasRoom(r.to) THEN [pool EXCEPT ![r.cluster] = r.to] ELSE pool
  /\ UNCHANGED <<provider, bill, dedicated, handled, orderly>>
\* transitionToSharedPool is one transaction.
TransitionToSharedPool(h) ==
  LET r == req[h] IN
  /\ At(h, "transition") /\ r.to # "pro" /\ r.from = "pro" /\ Goto(h, "notify")
  /\ IF mayRelease(r.cluster) /\ hasRoom(r.to)
       THEN /\ pool' = [pool EXCEPT ![r.cluster] = r.to] /\ dedicated' = dedicated \ {r.cluster}
       ELSE UNCHANGED placement
  /\ UNCHANGED <<provider, bill, handled, orderly>>

(* --- The doctor ------------------------------------------------------------------ *)

\* listUnassignedClusters.
unassigned == {c \in Clusters \ dedicated :
                 pool[c] = None \/ (bill[c].plan = "pro" /\ bill[c].status = "active")}

\* allocateUnassignedCapacity.
DoctorLists(d) ==
  /\ At(d, "idle") /\ mix.doctor /\ unassigned # {}
  /\ req' = [req EXCEPT ![d] = [Idle EXCEPT !.todo = unassigned, !.pc = "next"]]
  /\ Read
DoctorReadsPlan(d) ==
  /\ At(d, "next")
  /\ IF req[d].todo = {} THEN Return(d) /\ UNCHANGED orderly
     ELSE \E c \in req[d].todo :
            /\ req' = [req EXCEPT ![d].todo = @ \ {c}, ![d].cluster = c, ![d].pc = "allocate",
                                  ![d].to = effectivePlan(bill[c], elapsed)]
            /\ orderly' = IF pool[c] # None \/ busyWith(c) THEN orderly \ {c} ELSE orderly
  /\ UNCHANGED <<provider, bill, placement, handled>>
\* allocateForPlan; an instance is provisioned when the tier is full, which
\* leaves the cluster to the next run.
DoctorAllocates(d) ==
  LET r == req[d]  c == r.cluster IN
  /\ At(d, "allocate")
  /\ IF r.to = "pro"
       THEN pool' = [pool EXCEPT ![c] = None] /\ Goto(d, "spawn")
       ELSE /\ pool' = IF hasRoom(r.to) THEN [pool EXCEPT ![c] = r.to] ELSE pool
            /\ req' = [req EXCEPT ![d].cluster = None, ![d].pc = "next"]
  /\ UNCHANGED <<provider, bill, dedicated, handled, orderly>>
DoctorSpawns(d) ==
  /\ At(d, "spawn") /\ dedicated' = dedicated \cup {req[d].cluster}
  /\ req' = [req EXCEPT ![d].cluster = None, ![d].pc = "next"]
  /\ UNCHANGED <<provider, bill, pool, handled, orderly>>

(* --- Specification ---------------------------------------------------------------- *)

Hook(h) ==
  \/ \E c \in Clusters : \E i \in 1..mix.events[c] : Deliver(h, c, i)
  \/ Resolve(h) \/ ResolveByCustomer(h) \/ FindRow(h) \/ GetRow(h) \/ ReadPreviousPlan(h)
  \/ WriteRow(h) \/ Notify(h)
  \/ ReleasePool(h) \/ ReleaseDedicated(h) \/ AssignPool(h) \/ TransitionToSharedPool(h)
Doctor(d) == DoctorLists(d) \/ DoctorReadsPlan(d) \/ DoctorAllocates(d) \/ DoctorSpawns(d)

Next == \/ \E s \in Subs : Provider(s)
        \/ \E h \in Hooks : Hook(h)
        \/ \E d \in Doctors : Doctor(d)
Spec == Init /\ [][Next]_vars

(* --- Properties --------------------------------------------------------------------- *)

RowOK(row) ==
  \/ row = NoRow
  \/ /\ row.plan \in Plans /\ row.status \in {"active", "canceled", "past_due"}
     /\ row.sub \in Subs /\ row.end \in Subs

\* Every row has a subscription and the end of a period, also the rows that
\* handlers copied from what they had read; a subscription is in one row
\* (billing.polar_subscription_id is UNIQUE).
TypeOK ==
  /\ sold \in [Subs -> [plan : Paid \cup {None},
                        state : {"none", "active", "canceled", "past_due", "revoked"}]]
  /\ \A c \in Clusters : RowOK(bill[c])
  /\ \A s \in Subs : Cardinality(rowsOf(s)) <= 1
  /\ pool \in [Clusters -> Tiers \cup {None}] /\ dedicated \subseteq Clusters
  /\ \A t \in Tiers : Cardinality({c \in Clusters : pool[c] = t}) <= Capacity[t]
  /\ handled \in [Clusters -> Nat] /\ orderly \subseteq Clusters
  /\ repeats \in 0..mix.repeats

quiet(c) == c \in orderly /\ ~busyWith(c)

\* What the row should say after an event, whatever was in the row before.
shouldSay(e) ==
  CASE e.type = "revoked"  -> [plan |-> "hobby", status |-> "active"]
    [] e.type = "canceled" -> [plan |-> e.plan, status |-> "canceled"]
    [] OTHER               -> [plan |-> e.plan, status |-> e.status]

\* When the events of a cluster come in order and one at a time, its row says
\* what the last one did, although most handlers take the plan from the row and
\* the cluster from the subscription the row names.
RecordedInOrder ==
  \A c \in Clusters : quiet(c) /\ handled[c] > 0 =>
    LET e == log[c][handled[c]] IN
    bill[c] # NoRow /\ [plan |-> bill[c].plan, status |-> bill[c].status] = shouldSay(e)

\* However the events come - late, twice, over each other - the subscription in
\* the row of a cluster is one that was bought for it, and a paid plan is one
\* that an event of its own subscriptions announced.
BilledToItsBuyer ==
  \A c \in Clusters : bill[c] # NoRow =>
    /\ Buyer[bill[c].sub] = c
    /\ bill[c].plan \in Paid => \E i \in DOMAIN log[c] : log[c][i].plan = bill[c].plan

\* When its events come in order and one at a time, a cluster that is on a pool
\* instance is on one of the tier it is entitled to: transitionPlan moved it.
PlacedByPlan ==
  \A c \in Clusters : quiet(c) /\ pool[c] # None =>
    pool[c] = effectivePlan(bill[c], elapsed)

\* "pro -> any: assign target pool" (services/billing/index.ts, transitionPlan):
\* a cluster whose downgrade was handled in order is no longer on a dedicated
\* instance.  The CHECK on instances makes every such downgrade fail.
DowngradeLeavesDedicated ==
  \A c \in Clusters :
    quiet(c) /\ handled[c] > 0 /\ log[c][handled[c]].type = "revoked" => c \notin dedicated
=============================================================================
