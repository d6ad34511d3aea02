--------------------------- MODULE BillingProofs ----------------------------
(***************************************************************************)
(* Theorems about Billing, for any clusters, subscriptions, webhook calls, *)
(* doctors, capacities and bounds.                                         *)
(***************************************************************************)
EXTENDS Billing, FiniteSetTheorems, TLAPS

Statuses == {"active", "canceled", "past_due"}
Events == [sub : Subs, type : Types, plan : Paid, status : Statuses, named : BOOLEAN]
Row == [plan : Plans, status : Statuses, sub : Subs, end : Subs]
Rows == Row \cup {NoRow}

HookLabels == {"idle", "resolve", "customer", "find", "get", "previousPlan", "upsert",
               "transition", "releaseDedicated", "assignPool", "notify"}
DoctorLabels == {"idle", "next", "allocate", "spawn"}
Requests == [pc : HookLabels \cup DoctorLabels, event : Events \cup {NoEvent},
             cluster : Clusters \cup {None}, row : Rows,
             from : Plans \cup {None}, to : Plans \cup {None}, todo : SUBSET Clusters]

TypesOK ==
  /\ mix \in Mixes
  /\ sold \in [Subs -> [plan : Paid \cup {None},
                        state : {"none", "active", "canceled", "past_due", "revoked"}]]
  /\ elapsed \subseteq Subs /\ repeats \in 0..mix.repeats
  /\ log \in [Clusters -> Seq(Events)]
  /\ bill \in [Clusters -> Rows]
  /\ pool \in [Clusters -> Tiers \cup {None}] /\ dedicated \subseteq Clusters
  /\ req \in [Procs -> Requests]
  /\ handled \in [Clusters -> Nat] /\ orderly \subseteq Clusters

\* A subscription has a plan from when it is bought.
SoldOK == \A s \in Subs : sold[s].state # "none" => sold[s].plan \in Paid

\* The events of a cluster are of its subscriptions.
LogOK == \A c \in Clusters : \A i \in DOMAIN log[c] : Buyer[log[c][i].sub] = c

\* Which step takes which event, and what it has found by then.
HookOK(r, b) ==
  /\ r.pc \in HookLabels
  /\ r.pc = "idle" => r = Idle
  /\ r.pc # "idle" => r.event \in Events
  /\ r.pc \in {"resolve", "customer"} => r.event.type \in {"created", "updated", "past_due"}
  /\ r.pc = "customer" => r.event.type # "past_due"
  /\ r.pc = "get" => r.event.type = "past_due"
  /\ r.pc = "find" => r.event.type \in {"canceled", "uncanceled", "revoked"}
  /\ r.pc = "previousPlan" => r.event.type \notin {"past_due", "canceled"}
  /\ r.pc \in {"resolve", "customer", "find"} => r.cluster = None
  /\ r.pc \notin {"idle", "resolve", "customer", "find"} => r.cluster \in Clusters
  /\ r.pc \in {"previousPlan", "upsert"} /\ r.event.type \notin {"created", "updated"} =>
       r.row \in Row /\ b[r.cluster] \in Row
  /\ r.pc \in {"transition", "releaseDedicated", "assignPool"} => r.to \in Plans
  /\ r.pc = "assignPool" => r.to \in Tiers

DoctorOK(r) ==
  /\ r.pc \in DoctorLabels /\ r.event = NoEvent
  /\ r.pc \in {"idle", "next"} => r.cluster = None
  /\ r.pc \in {"allocate", "spawn"} => r.cluster \in Clusters /\ r.to \in Plans

LocalsOK == (\A h \in Hooks : HookOK(req[h], bill)) /\ (\A d \in Doctors : DoctorOK(req[d]))

Typed == TypesOK /\ SoldOK /\ LogOK /\ LocalsOK

(***************************************************************************)
(* A step of one call that leaves it with a record fit for its label, and  *)
(* leaves every row a row, leaves all calls fit.                           *)
(***************************************************************************)
LEMMA HookMoves ==
  ASSUME Typed, NEW h \in Hooks, NEW r \in Requests, req' = [req EXCEPT ![h] = r],
         HookOK(r, bill'), \A c \in Clusters : bill[c] \in Row => bill'[c] \in Row
  PROVE  req' \in [Procs -> Requests] /\ LocalsOK'
<1> USE BillingAssumption DEF Procs
<1>1. req' \in [Procs -> Requests]
  BY DEF Typed, TypesOK
<1>2. ASSUME NEW g \in Hooks
      PROVE  HookOK(req'[g], bill')
  <2>1. CASE g = h
    BY <2>1 DEF Typed, TypesOK
  <2>2. CASE g # h
    <3>1. req'[g] = req[g] /\ HookOK(req[g], bill)
      BY <2>2 DEF Typed, TypesOK, LocalsOK
    <3>2. QED
      BY <3>1 DEF HookOK
  <2>3. QED
    BY <2>1, <2>2
<1>3. ASSUME NEW d \in Doctors
      PROVE  DoctorOK(req'[d])
  BY DEF Typed, TypesOK, LocalsOK
<1>4. QED
  BY <1>1, <1>2, <1>3 DEF LocalsOK

\* The same for a step of a doctor.
LEMMA DoctorMoves ==
  ASSUME Typed, NEW d \in Doctors, NEW r \in Requests, req' = [req EXCEPT ![d] = r],
         DoctorOK(r), UNCHANGED bill
  PROVE  req' \in [Procs -> Requests] /\ LocalsOK'
<1> USE BillingAssumption DEF Procs
<1>1. req' \in [Procs -> Requests]
  BY DEF Typed, TypesOK
<1>2. ASSUME NEW g \in Hooks
      PROVE  HookOK(req'[g], bill')
  BY DEF Typed, TypesOK, LocalsOK
<1>3. ASSUME NEW g \in Doctors
      PROVE  DoctorOK(req'[g])
  BY DEF Typed, TypesOK, LocalsOK
<1>4. QED
  BY <1>1, <1>2, <1>3 DEF LocalsOK

\* A call that returns is fit.
LEMMA IdleFits == Idle \in Requests /\ (\A b : HookOK(Idle, b)) /\ DoctorOK(Idle)
  BY BillingAssumption DEF Idle, Requests, HookOK, DoctorOK, HookLabels, DoctorLabels, Rows

\* getEffectivePlan returns a plan.
LEMMA PlanOf ==
  ASSUME NEW row \in Rows, NEW ended
  PROVE  effectivePlan(row, ended) \in Plans
  BY DEF effectivePlan, Rows, Row, Plans

(***************************************************************************)
(* What the handler's upsert leaves: the plan and the status it records,   *)
(* the subscription it names, and the end of the period of the event or of *)
(* the row there was (COALESCE).                                           *)
(***************************************************************************)
WroteRow(h) ==
  LET e == req[h].event  c == req[h].cluster IN
  /\ e \in Events /\ c \in Clusters /\ recordedPlan(h) \in Plans
  /\ \E row \in Row :
       /\ bill' = [bill EXCEPT ![c] = row]
       /\ row.plan = recordedPlan(h) /\ row.status = recordedStatus(e)
       /\ row.sub = IF e.type = "past_due" THEN req[h].row.sub ELSE e.sub
       /\ row.end = IF e.type \in {"created", "updated", "canceled"} THEN e.sub ELSE bill[c].end
  /\ e.type \notin {"created", "updated"} => req[h].row \in Row /\ bill[c] \in Row

LEMMA RowWritten ==
  ASSUME Typed, NEW h \in Hooks, WriteRow(h)
  PROVE  WroteRow(h)
<1> USE BillingAssumption
<1> DEFINE e == req[h].event
           c == req[h].cluster
           old == bill[c]
           sub == IF e.type = "past_due" THEN req[h].row.sub ELSE e.sub
           end == IF e.type \in {"created", "updated", "canceled"} THEN e.sub ELSE None
           new == [plan |-> recordedPlan(h), status |-> recordedStatus(e), sub |-> sub, end |-> end]
<1>1. /\ e \in Events /\ c \in Clusters /\ old \in Rows
      /\ e.type \notin {"created", "updated"} => req[h].row \in Row /\ old \in Row
  BY DEF WriteRow, At, Typed, TypesOK, LocalsOK, HookOK
<1>2. recordedPlan(h) \in Plans /\ recordedStatus(e) \in Statuses
  BY <1>1 DEF recordedPlan, recordedStatus, Events, Row, Plans, Paid, Statuses
<1>3. sub \in Subs /\ end \in Subs \cup {None} /\ (end = None => old.end \in Subs)
  BY <1>1 DEF Events, Row
<1> DEFINE row == merged(old, new)
<1>4. /\ row.plan = recordedPlan(h) /\ row.status = recordedStatus(e) /\ row.sub = sub
      /\ row.end = IF end = None THEN old.end ELSE end
      /\ row = [plan |-> row.plan, status |-> row.status, sub |-> row.sub, end |-> row.end]
  <2>1. sub # None
    BY <1>3
  <2>2. row = [new EXCEPT !.sub = IF new.sub = None THEN old.sub ELSE new.sub,
                          !.end = IF new.end = None THEN old.end ELSE new.end]
    BY Zenon DEF merged
  <2>3. row = [plan |-> new.plan, status |-> new.status, sub |-> sub,
               end |-> IF end = None THEN old.end ELSE end]
    BY <2>1, <2>2
  <2>4. QED
    BY <2>3
<1>5. row \in Row
  BY <1>2, <1>3, <1>4 DEF Row
<1>6. bill' = [bill EXCEPT ![c] = row]
  BY DEF WriteRow, Upsert
<1>7. end = None <=> e.type \notin {"created", "updated", "canceled"}
  BY <1>1, <1>3 DEF Events
<1>8. QED
  <2>1. row.end = IF e.type \in {"created", "updated", "canceled"} THEN e.sub ELSE bill[c].end
    BY <1>4, <1>7
  <2>2. \E w \in Row : /\ bill' = [bill EXCEPT ![c] = w]
                       /\ w.plan = recordedPlan(h) /\ w.status = recordedStatus(e)
                       /\ w.sub = IF e.type = "past_due" THEN req[h].row.sub ELSE e.sub
                       /\ w.end = IF e.type \in {"created", "updated", "canceled"} THEN e.sub ELSE bill[c].end
    BY <1>4, <1>5, <1>6, <2>1
  <2>3. QED
    BY <1>1, <1>2, <2>2 DEF WroteRow

(***************************************************************************)
(* An event of the provider keeps the types.                               *)
(***************************************************************************)
SoldStates == {"active", "canceled", "past_due", "revoked"}
LEMMA EmitTyped ==
  ASSUME Typed, NEW s \in Subs, NEW type \in Types, NEW plan \in Paid, NEW state \in SoldStates,
         NEW status \in Statuses, Emit(s, type, plan, state, status)
  PROVE  Typed'
<1> USE BillingAssumption
<1> DEFINE c == Buyer[s]
<1>1. PICK named \in BOOLEAN :
        log' = [log EXCEPT ![c] = Append(@, Event(s, type, plan, status, named \/ log[c] = <<>>))]
  BY DEF Emit
<1> DEFINE e == Event(s, type, plan, status, named \/ log[c] = <<>>)
<1>2. e \in Events /\ e.sub = s
  BY DEF Event, Events
<1>3. c \in Clusters /\ log[c] \in Seq(Events)
  BY DEF Typed, TypesOK
<1>4. log' \in [Clusters -> Seq(Events)]
  <2>1. Append(log[c], e) \in Seq(Events)
    BY <1>2, <1>3
  <2>2. QED
    BY <1>1, <1>3, <2>1 DEF Typed, TypesOK
<1>5. TypesOK'
  BY <1>4 DEF Typed, TypesOK, Emit, placement, SoldStates
<1>6. SoldOK'
  BY DEF Typed, TypesOK, SoldOK, Emit
<1>7. LogOK'
  BY <1>1, <1>2, <1>3 DEF Typed, TypesOK, LogOK
<1>8. LocalsOK'
  BY DEF Typed, LocalsOK, HookOK, DoctorOK, Emit
<1>9. QED
  BY <1>5, <1>6, <1>7, <1>8 DEF Typed

(***************************************************************************)
(* The variables keep their types, and a call under way holds what its     *)
(* next step works on.                                                     *)
(***************************************************************************)
THEOREM Typing == Spec => []Typed
<1> USE BillingAssumption
<1>1. Init => Typed
  <2> SUFFICES ASSUME Init
               PROVE  Typed
    OBVIOUS
  <2>1. TypesOK
    BY IdleFits DEF Init, TypesOK, Rows, NoSub, Procs
  <2>2. LocalsOK
    BY IdleFits DEF Init, LocalsOK, Procs
  <2>3. QED
    BY <2>1, <2>2 DEF Init, Typed, SoldOK, LogOK, NoSub
<1>2. Typed /\ [Next]_vars => Typed'
  <2> SUFFICES ASSUME Typed, [Next]_vars
               PROVE  Typed'
    OBVIOUS
  <2> USE DEF Procs, At, Goto, Return, Read, provider, placement
  <2>0. /\ req \in [Procs -> Requests] /\ bill \in [Clusters -> Rows]
        /\ \A h \in Hooks : req[h] \in Requests /\ HookOK(req[h], bill)
        /\ \A d \in Doctors : req[d] \in Requests /\ DoctorOK(req[d])
    BY DEF Typed, TypesOK, LocalsOK
  <2>1. ASSUME NEW h \in Hooks, NEW c \in Clusters, NEW i \in 1..mix.events[c], Deliver(h, c, i)
        PROVE  Typed'
    <3> DEFINE r == [Idle EXCEPT !.event = log[c][i], !.pc = firstStep(log[c][i].type)]
    <3>1. log[c][i] \in Events /\ req' = [req EXCEPT ![h] = r]
      BY <2>1 DEF Deliver, Typed, TypesOK
    <3>2. r \in Requests /\ HookOK(r, bill')
      BY <3>1, IdleFits DEF Idle, Requests, HookOK, HookLabels, firstStep, Events, Types, Rows
    <3>3. req' \in [Procs -> Requests] /\ LocalsOK'
      BY <2>1, <3>1, <3>2, HookMoves DEF Deliver
    <3>4. QED
      BY <2>1, <3>3, <2>0 DEF Deliver, Typed, TypesOK, SoldOK, LogOK
  <2>2. ASSUME NEW h \in Hooks, Resolve(h)
        PROVE  Typed'
    <3> DEFINE e == req[h].event
               found == IF e.named THEN {Buyer[e.sub]} ELSE rowsOf(e.sub)
    <3>0. /\ req[h].pc = "resolve"
          /\ \/ \E c \in found : req' = [req EXCEPT ![h].cluster = c, ![h].pc = After(e.type)]
             \/ IF e.type = "past_due" THEN Return(h) ELSE Goto(h, "customer")
          /\ Read
      BY <2>2 DEF Resolve
    <3>1. e \in Events /\ found \subseteq Clusters
      BY <3>0, <2>0 DEF HookOK, Events, rowsOf
    <3>2. ASSUME \E c \in Clusters : req' = [req EXCEPT ![h].cluster = c, ![h].pc = After(e.type)]
          PROVE  req' \in [Procs -> Requests] /\ LocalsOK'
      <4>1. PICK c \in Clusters : req' = [req EXCEPT ![h] = [@ EXCEPT !.cluster = c, !.pc = After(e.type)]]
        BY <3>2, <2>0 DEF Requests
      <4>2. [req[h] EXCEPT !.cluster = c, !.pc = After(e.type)] \in Requests
        BY ZenonT(40), <2>0 DEF Requests, After, HookLabels
      <4>3. HookOK([req[h] EXCEPT !.cluster = c, !.pc = After(e.type)], bill')
        BY <3>0, <2>0 DEF Requests, HookOK, After, HookLabels
      <4>4. QED
        BY <3>0, <4>1, <4>2, <4>3, HookMoves
    <3>3. ASSUME Return(h)
          PROVE  req' \in [Procs -> Requests] /\ LocalsOK'
      BY <3>0, <3>3, IdleFits, HookMoves
    <3>4. ASSUME e.type # "past_due", Goto(h, "customer")
          PROVE  req' \in [Procs -> Requests] /\ LocalsOK'
      <4>1. req' = [req EXCEPT ![h] = [@ EXCEPT !.pc = "customer"]]
        BY <3>4, <2>0 DEF Requests
      <4>2. [req[h] EXCEPT !.pc = "customer"] \in Requests /\ HookOK([req[h] EXCEPT !.pc = "customer"], bill')
        BY <3>0, <2>0, <3>4 DEF Requests, HookOK, HookLabels
      <4>3. QED
        BY <3>0, <4>1, <4>2, HookMoves
    <3>5. req' \in [Procs -> Requests] /\ LocalsOK'
      BY <3>0, <3>1, <3>2, <3>3, <3>4
    <3>6. QED
      BY <3>0, <3>5 DEF Typed, TypesOK, SoldOK, LogOK
  <2>3. ASSUME NEW h \in Hooks, ResolveByCustomer(h)
        PROVE  Typed'
    <3> DEFINE c == Buyer[req[h].event.sub]
               r == [req[h] EXCEPT !.cluster = c, !.pc = "previousPlan"]
    <3>1. c \in Clusters
      BY <2>3, <2>0 DEF ResolveByCustomer, HookOK, Events
    <3>2. CASE bill[c] = NoRow
      BY <2>3, <3>2, IdleFits, HookMoves DEF ResolveByCustomer, Typed, TypesOK, SoldOK, LogOK
    <3>3. CASE bill[c] # NoRow
      <4>1. req' = [req EXCEPT ![h] = r]
        BY <2>3, <3>3, <2>0 DEF ResolveByCustomer, Requests
      <4>2. r \in Requests
        BY ZenonT(40), <3>1, <2>0 DEF Requests, HookLabels
      <4>3. HookOK(r, bill')
        BY <2>3, <3>1, <2>0 DEF ResolveByCustomer, Requests, HookOK, HookLabels
      <4>4. req' \in [Procs -> Requests] /\ LocalsOK'
        BY <2>3, <4>1, <4>2, <4>3, HookMoves DEF ResolveByCustomer
      <4>5. QED
        BY <2>3, <4>4 DEF ResolveByCustomer, Typed, TypesOK, SoldOK, LogOK
    <3>4. QED
      BY <3>2, <3>3
  <2>4. ASSUME NEW h \in Hooks, FindRow(h)
        PROVE  Typed'
    <3> DEFINE e == req[h].event
               next == IF e.type = "canceled" THEN "upsert" ELSE "previousPlan"
    <3>1. e \in Events
      BY <2>4, <2>0 DEF FindRow, HookOK
    <3>2. ASSUME NEW c \in rowsOf(e.sub), req' = [req EXCEPT ![h].cluster = c, ![h].row = bill[c], ![h].pc = next]
          PROVE  Typed'
      <4> DEFINE r == [req[h] EXCEPT !.cluster = c, !.row = bill[c], !.pc = next]
      <4>1. c \in Clusters /\ bill[c] \in Row
        BY <2>0, <3>1 DEF rowsOf, Rows, NoRow, Events
      <4>2. req' = [req EXCEPT ![h] = r]
        BY <3>2, <2>0 DEF Requests
      <4>3. r \in Requests
        BY ZenonT(40), <4>1, <2>0 DEF Requests, HookLabels, Rows
      <4>4. /\ r.pc = next /\ r.event = e /\ r.cluster = c /\ r.row = bill[c]
            /\ e.type \in {"canceled", "uncanceled", "revoked"} /\ bill' = bill
        BY ZenonT(40), <2>4, <2>0 DEF FindRow, Requests, HookOK
      <4>4a. HookOK(r, bill')
        BY <3>1, <4>1, <4>4 DEF HookOK, HookLabels
      <4>5. req' \in [Procs -> Requests] /\ LocalsOK'
        BY <2>4, <4>2, <4>3, <4>4a, HookMoves DEF FindRow
      <4>6. QED
        BY <2>4, <4>5 DEF FindRow, Typed, TypesOK, SoldOK, LogOK
    <3>3. CASE req' = [req EXCEPT ![h] = Idle]
      BY <2>4, <3>3, IdleFits, HookMoves DEF FindRow, Typed, TypesOK, SoldOK, LogOK
    <3>4. QED
      BY <2>4, <3>2, <3>3 DEF FindRow
  <2>5. ASSUME NEW h \in Hooks, GetRow(h)
        PROVE  Typed'
    <3> DEFINE c == req[h].cluster
               r == [req[h] EXCEPT !.row = bill[c], !.pc = "upsert"]
    <3>1. c \in Clusters
      BY <2>5, <2>0 DEF GetRow, HookOK
    <3>2. CASE bill[c] = NoRow
      BY <2>5, <3>2, IdleFits, HookMoves DEF GetRow, Typed, TypesOK, SoldOK, LogOK
    <3>3. CASE bill[c] # NoRow
      <4>1. req' = [req EXCEPT ![h] = r]
        BY <2>5, <3>3, <2>0 DEF GetRow, Requests
      <4>2. r \in Requests /\ bill[c] \in Row
        BY ZenonT(40), <3>1, <3>3, <2>0 DEF Requests, HookLabels, Rows
      <4>3. HookOK(r, bill')
        BY <2>5, <3>1, <4>2, <2>0 DEF GetRow, Requests, HookOK, HookLabels
      <4>4. req' \in [Procs -> Requests] /\ LocalsOK'
        BY <2>5, <4>1, <4>2, <4>3, HookMoves DEF GetRow
      <4>5. QED
        BY <2>5, <4>4 DEF GetRow, Typed, TypesOK, SoldOK, LogOK
    <3>4. QED
      BY <3>2, <3>3
  <2>6. ASSUME NEW h \in Hooks, ReadPreviousPlan(h)
        PROVE  Typed'
    <3> DEFINE plan == effectivePlan(bill[req[h].cluster], elapsed)
               r == [req[h] EXCEPT !.from = plan, !.pc = "upsert"]
    <3>1. plan \in Plans
      BY <2>6, <2>0, PlanOf DEF ReadPreviousPlan, HookOK
    <3>2. req' = [req EXCEPT ![h] = r]
      BY <2>6, <2>0 DEF ReadPreviousPlan, Requests
    <3>3. r \in Requests
      BY ZenonT(40), <3>1, <2>0 DEF Requests, HookLabels
    <3>4. HookOK(r, bill')
      BY <2>6, <2>0 DEF ReadPreviousPlan, Requests, HookOK, HookLabels
    <3>5. req' \in [Procs -> Requests] /\ LocalsOK'
      BY <2>6, <3>2, <3>3, <3>4, HookMoves DEF ReadPreviousPlan
    <3>6. QED
      BY <2>6, <3>5 DEF ReadPreviousPlan, Typed, TypesOK, SoldOK, LogOK
  <2>7. ASSUME NEW h \in Hooks, WriteRow(h)
        PROVE  Typed'
    <3> DEFINE e == req[h].event
               c == req[h].cluster
               plan == recordedPlan(h)
               moves == e.type \notin {"canceled", "past_due"} /\ req[h].from # plan
               r == [req[h] EXCEPT !.to = plan, !.pc = IF moves THEN "transition" ELSE "notify"]
    <3>1. WroteRow(h)
      BY <2>7, <2>0, RowWritten
    <3>2. /\ e \in Events /\ c \in Clusters /\ plan \in Plans
          /\ bill' \in [Clusters -> Rows]
          /\ \A d \in Clusters : bill[d] \in Row => bill'[d] \in Row
      BY <3>1, <2>0 DEF WroteRow, Rows
    <3>3. req' = [req EXCEPT ![h] = r]
      BY <2>7, <2>0 DEF WriteRow, Requests
    <3>4. r \in Requests
      BY ZenonT(40), <3>2, <2>0 DEF Requests, HookLabels
    <3>5. HookOK(r, bill')
      BY <2>7, <3>2, <2>0 DEF WriteRow, Requests, HookOK, HookLabels
    <3>6. req' \in [Procs -> Requests] /\ LocalsOK'
      BY <3>2, <3>3, <3>4, <3>5, HookMoves
    <3>7. QED
      BY <2>7, <3>2, <3>6 DEF WriteRow, Typed, TypesOK, SoldOK, LogOK
  <2>8. ASSUME NEW h \in Hooks, Notify(h)
        PROVE  Typed'
    BY <2>8, IdleFits, HookMoves DEF Notify, Typed, TypesOK, SoldOK, LogOK
  <2>9. ASSUME NEW h \in Hooks, ReleasePool(h)
        PROVE  Typed'
    <3> DEFINE r == [req[h] EXCEPT !.pc = IF req[h].to = "pro" THEN "releaseDedicated" ELSE "assignPool"]
    <3>1. req' = [req EXCEPT ![h] = r]
      BY <2>9, <2>0 DEF ReleasePool, Requests
    <3>2. r \in Requests
      BY <2>0 DEF Requests, HookLabels
    <3>3. HookOK(r, bill')
      BY <2>9, <2>0 DEF ReleasePool, Requests, HookOK, HookLabels, Plans, Tiers
    <3>4. req' \in [Procs -> Requests] /\ LocalsOK'
      BY <2>9, <3>1, <3>2, <3>3, HookMoves DEF ReleasePool
    <3>5. QED
      BY <2>9, <3>4 DEF ReleasePool, Typed, TypesOK, SoldOK, LogOK
  <2>10. ASSUME NEW h \in Hooks, ReleaseDedicated(h)
         PROVE  Typed'
    <3> DEFINE r == [req[h] EXCEPT !.pc = "notify"]
    <3>1. req' = [req EXCEPT ![h] = r]
      BY <2>10, <2>0 DEF ReleaseDedicated, Requests
    <3>2. r \in Requests /\ HookOK(r, bill')
      BY <2>10, <2>0 DEF ReleaseDedicated, Requests, HookOK, HookLabels
    <3>3. req' \in [Procs -> Requests] /\ LocalsOK'
      BY <2>10, <3>1, <3>2, HookMoves DEF ReleaseDedicated
    <3>4. QED
      BY <2>10, <3>3 DEF ReleaseDedicated, Typed, TypesOK, SoldOK, LogOK
  <2>11. ASSUME NEW h \in Hooks, AssignPool(h)
         PROVE  Typed'
    <3> DEFINE r == [req[h] EXCEPT !.pc = "notify"]
    <3>1. req' = [req EXCEPT ![h] = r]
      BY <2>11, <2>0 DEF AssignPool, Requests
    <3>2. r \in Requests /\ HookOK(r, bill')
      BY <2>11, <2>0 DEF AssignPool, Requests, HookOK, HookLabels
    <3>3. req' \in [Procs -> Requests] /\ LocalsOK'
      BY <2>11, <3>1, <3>2, HookMoves DEF AssignPool
    <3>4. req[h].to \in Tiers
      BY <2>11, <2>0 DEF AssignPool, HookOK
    <3>5. QED
      BY <2>11, <3>3, <3>4 DEF AssignPool, Typed, TypesOK, SoldOK, LogOK
  <2>12. ASSUME NEW h \in Hooks, TransitionToSharedPool(h)
         PROVE  Typed'
    <3> DEFINE r == [req[h] EXCEPT !.pc = "notify"]
    <3>1. req' = [req EXCEPT ![h] = r]
      BY <2>12, <2>0 DEF TransitionToSharedPool, Requests
    <3>2. r \in Requests /\ HookOK(r, bill')
      BY <2>12, <2>0 DEF TransitionToSharedPool, Requests, HookOK, HookLabels
    <3>3. req' \in [Procs -> Requests] /\ LocalsOK'
      BY <2>12, <3>1, <3>2, HookMoves DEF TransitionToSharedPool
    <3>4. req[h].to \in Tiers
      BY <2>12, <2>0 DEF TransitionToSharedPool, HookOK, Plans, Tiers
    <3>5. QED
      BY <2>12, <3>3, <3>4 DEF TransitionToSharedPool, Typed, TypesOK, SoldOK, LogOK
  <2>13. ASSUME NEW d \in Doctors, DoctorLists(d)
         PROVE  Typed'
    <3> DEFINE r == [Idle EXCEPT !.todo = unassigned, !.pc = "next"]
    <3>1. r \in Requests /\ DoctorOK(r)
      BY IdleFits DEF Idle, Requests, DoctorOK, DoctorLabels, unassigned
    <3>2. req' \in [Procs -> Requests] /\ LocalsOK'
      BY <2>13, <3>1, DoctorMoves DEF DoctorLists
    <3>3. QED
      BY <2>13, <3>2 DEF DoctorLists, Typed, TypesOK, SoldOK, LogOK
  <2>14. ASSUME NEW d \in Doctors, DoctorReadsPlan(d)
         PROVE  Typed'
    <3>1. CASE req[d].todo = {}
      BY <2>14, <3>1, IdleFits, DoctorMoves DEF DoctorReadsPlan, Typed, TypesOK, SoldOK, LogOK
    <3>2. CASE req[d].todo # {}
      <4> DEFINE R(c) == [req[d] EXCEPT !.todo = @ \ {c}, !.cluster = c, !.pc = "allocate",
                                        !.to = effectivePlan(bill[c], elapsed)]
      <4>1. PICK c \in req[d].todo : req' = [req EXCEPT ![d] = R(c)]
        BY ZenonT(40), <2>14, <3>2, <2>0 DEF DoctorReadsPlan, Requests
      <4>2. c \in Clusters /\ effectivePlan(bill[c], elapsed) \in Plans
        BY <2>0, PlanOf DEF Requests
      <4>3. R(c) \in Requests
        BY <4>2, <2>0 DEF Requests, DoctorLabels
      <4>4. DoctorOK(R(c))
        BY <4>2, <2>0 DEF Requests, DoctorOK, DoctorLabels
      <4>5. req' \in [Procs -> Requests] /\ LocalsOK'
        BY <2>14, <4>1, <4>3, <4>4, DoctorMoves DEF DoctorReadsPlan
      <4>6. orderly' \subseteq Clusters
        BY <2>14, <3>2 DEF DoctorReadsPlan, Typed, TypesOK
      <4>7. QED
        BY <2>14, <4>5, <4>6 DEF DoctorReadsPlan, Typed, TypesOK, SoldOK, LogOK
    <3>3. QED
      BY <3>1, <3>2
  <2>15. ASSUME NEW d \in Doctors, DoctorAllocates(d)
         PROVE  Typed'
    <3> DEFINE c == req[d].cluster
    <3>1. c \in Clusters /\ req[d].to \in Plans
      BY <2>15, <2>0 DEF DoctorAllocates, DoctorOK
    <3>2. PICK r \in {[req[d] EXCEPT !.pc = "spawn"], [req[d] EXCEPT !.cluster = None, !.pc = "next"]} :
            req' = [req EXCEPT ![d] = r]
      BY <2>15, <2>0 DEF DoctorAllocates, Requests
    <3>3. r \in Requests /\ DoctorOK(r)
      BY <2>15, <2>0, <3>1, <3>2 DEF DoctorAllocates, Requests, DoctorOK, DoctorLabels
    <3>4. req' \in [Procs -> Requests] /\ LocalsOK'
      BY <2>15, <3>2, <3>3, DoctorMoves DEF DoctorAllocates
    <3>5. pool' \in [Clusters -> Tiers \cup {None}]
      BY <2>15, <3>1 DEF DoctorAllocates, Typed, TypesOK, Plans, Tiers
    <3>6. QED
      BY <2>15, <3>4, <3>5 DEF DoctorAllocates, Typed, TypesOK, SoldOK, LogOK
  <2>16. ASSUME NEW d \in Doctors, DoctorSpawns(d)
         PROVE  Typed'
    <3> DEFINE r == [req[d] EXCEPT !.cluster = None, !.pc = "next"]
    <3>1. req[d].cluster \in Clusters
      BY <2>16, <2>0 DEF DoctorSpawns, DoctorOK
    <3>2. req' = [req EXCEPT ![d] = r]
      BY <2>16, <2>0 DEF DoctorSpawns, Requests
    <3>3. r \in Requests /\ DoctorOK(r)
      BY <2>16, <2>0 DEF DoctorSpawns, Requests, DoctorOK, DoctorLabels
    <3>4. req' \in [Procs -> Requests] /\ LocalsOK'
      BY <2>16, <3>2, <3>3, DoctorMoves DEF DoctorSpawns
    <3>5. QED
      BY <2>16, <3>1, <3>4 DEF DoctorSpawns, Typed, TypesOK, SoldOK, LogOK
  <2>17. ASSUME NEW s \in Subs, Provider(s)
         PROVE  Typed'
    <3>1. ASSUME NEW plan \in Paid, Subscribe(s, plan) \/ ChangePlan(s, plan)
          PROVE  Typed'
      BY <3>1, EmitTyped DEF Subscribe, ChangePlan, Types, Statuses, SoldStates
    <3>2. ASSUME Cancel(s) \/ Uncancel(s) \/ FailPayment(s) \/ RetryPayment(s) \/ Revoke(s)
          PROVE  Typed'
      <4>1. sold[s].plan \in Paid
        BY <3>2 DEF Typed, SoldOK, Cancel, Uncancel, FailPayment, RetryPayment, Revoke
      <4>2. QED
        BY <3>2, <4>1, EmitTyped
        DEF Cancel, Uncancel, FailPayment, RetryPayment, Revoke, Types, Statuses, SoldStates
    <3>3. CASE PeriodEnds(s)
      BY <3>3 DEF PeriodEnds, Typed, TypesOK, SoldOK, LogOK, LocalsOK, HookOK, DoctorOK
    <3>4. QED
      BY <2>17, <3>1, <3>2, <3>3 DEF Provider
  <2>18. CASE UNCHANGED vars
    BY <2>18 DEF vars, Typed, TypesOK, SoldOK, LogOK, LocalsOK, HookOK, DoctorOK
  <2>19. QED
    BY <2>1, <2>2, <2>3, <2>4, <2>5, <2>6, <2>7, <2>8, <2>9, <2>10, <2>11, <2>12,
       <2>13, <2>14, <2>15, <2>16, <2>17, <2>18
    DEF Next, Hook, Doctor
<1>3. QED
  BY <1>1, <1>2, PTL DEF Spec


-----------------------------------------------------------------------------
\* A row is of a subscription of its cluster, and a paid plan in it was
\* announced; so is what a call in flight has read.
OwnRow(c, row, events) ==
  row # NoRow =>
    /\ Buyer[row.sub] = c /\ Buyer[row.end] = c
    /\ row.plan \in Paid => \E i \in DOMAIN events[c] : events[c][i].plan = row.plan
OwnCall(r, events) ==
  r.pc # "idle" =>
    LET c == Buyer[r.event.sub] IN
    /\ \E i \in DOMAIN events[c] : events[c][i] = r.event
    /\ r.cluster \in {c, None}
    /\ OwnRow(c, r.row, events)

\* The rows, and what a call in flight works on.
Own == /\ \A c \in Clusters : OwnRow(c, bill[c], log)
       /\ \A h \in Hooks : OwnCall(req[h], log)


(***************************************************************************)
(* A call that keeps its event, resolves it to the cluster it was bought   *)
(* for, and reads that cluster's row, keeps what is its own.               *)
(***************************************************************************)
LEMMA OwnKept ==
  ASSUME Typed, Own, NEW h \in Hooks, UNCHANGED <<bill, log>>,
         \A g \in Hooks \ {h} : req'[g] = req[g],
         \/ req'[h].pc = "idle"
         \/ LET c == Buyer[req[h].event.sub] IN
            /\ ~At(h, "idle") /\ req'[h].event = req[h].event
            /\ req'[h].cluster \in {req[h].cluster, c, None}
            /\ req'[h].row \in {req[h].row, bill[c]}
  PROVE  Own'
<1> USE BillingAssumption
<1>1. OwnCall(req'[h], log)
  <2>1. CASE req'[h].pc = "idle"
    BY <2>1 DEF OwnCall
  <2>2. CASE req'[h].pc # "idle"
    <3>1. ~At(h, "idle") /\ req'[h].event = req[h].event /\ Buyer[req[h].event.sub] \in Clusters
      BY <2>2 DEF Typed, LocalsOK, HookOK, Events, At
    <3>2. OwnCall(req[h], log) /\ OwnRow(Buyer[req[h].event.sub], bill[Buyer[req[h].event.sub]], log)
      BY <3>1 DEF Own
    <3>3. QED
      BY <2>2, <3>1, <3>2 DEF OwnCall, At
  <2>3. QED
    BY <2>1, <2>2
<1>2. QED
  BY <1>1 DEF Own

\* A call of a subscription is resolved to the cluster it was bought for, and
\* its row is that cluster's.
LEMMA OwnCluster ==
  ASSUME Typed, Own, NEW h \in Hooks, ~At(h, "idle")
  PROVE  LET e == req[h].event  c == Buyer[req[h].event.sub] IN
         /\ e \in Events /\ c \in Clusters /\ rowsOf(e.sub) \subseteq {c}
         /\ req[h].cluster \in Clusters => req[h].cluster = c
<1> USE BillingAssumption
<1>1. req[h].event \in Events /\ OwnCall(req[h], log) /\ bill \in [Clusters -> Rows]
  BY DEF Typed, TypesOK, LocalsOK, HookOK, At, Own
<1>2. req[h].event.sub \in Subs /\ Buyer[req[h].event.sub] \in Clusters
  BY <1>1 DEF Events
<1>3. ASSUME NEW d \in rowsOf(req[h].event.sub)
      PROVE  d = Buyer[req[h].event.sub]
  BY <1>1, <1>2, <1>3 DEF rowsOf, Rows, NoRow, Own, OwnRow
<1>4. QED
  BY <1>1, <1>2, <1>3 DEF OwnCall, At

\* The log of a cluster only grows.
LEMMA LogGrows ==
  ASSUME Typed, NEW s \in Subs, Provider(s)
  PROVE  /\ UNCHANGED <<bill, req>>
         /\ \A c \in Clusters : \A i \in DOMAIN log[c] : i \in DOMAIN log'[c] /\ log'[c][i] = log[c][i]
<1> USE BillingAssumption
<1>1. CASE log' = log /\ UNCHANGED <<bill, req>>
  BY <1>1
<1>2. CASE (\E e : log' = [log EXCEPT ![Buyer[s]] = Append(@, e)]) /\ UNCHANGED <<bill, req>>
  BY <1>2 DEF Typed, TypesOK
<1>3. QED
  BY <1>1, <1>2 DEF Provider, Subscribe, ChangePlan, Cancel, Uncancel, FailPayment,
     RetryPayment,
                    Revoke, PeriodEnds, Emit

(***************************************************************************)
(* What the rows and the calls in flight hold is their own cluster's.      *)
(***************************************************************************)
THEOREM OwnInvariant == Spec => []Own
<1> USE BillingAssumption
<1>1. Init => Own
  BY DEF Init, Own, OwnRow, OwnCall, Procs, Idle
<1>2. Typed /\ Own /\ [Next]_vars => Own'
  <2> SUFFICES ASSUME Typed, Own, [Next]_vars
               PROVE  Own'
    OBVIOUS
  <2> USE DEF Procs, At, Goto, Return, Read, provider, placement
  <2>0. /\ req \in [Procs -> Requests] /\ bill \in [Clusters -> Rows]
        /\ \A h \in Hooks : req[h] \in Requests /\ HookOK(req[h], bill)
    BY DEF Typed, TypesOK, LocalsOK
  <2>1. ASSUME NEW h \in Hooks, NEW c \in Clusters, NEW i \in 1..mix.events[c], Deliver(h, c, i)
        PROVE  Own'
    <3>1. /\ i \in DOMAIN log[c] /\ log[c][i] \in Events /\ Buyer[log[c][i].sub] = c
          /\ req'[h] = [Idle EXCEPT !.event = log[c][i], !.pc = firstStep(log[c][i].type)]
          /\ UNCHANGED <<bill, log>> /\ \A g \in Hooks \ {h} : req'[g] = req[g]
      BY <2>1, <2>0 DEF Deliver, Typed, TypesOK, LogOK
    <3>2. req'[h].event = log[c][i] /\ req'[h].cluster = None /\ req'[h].row = NoRow
      BY <3>1 DEF Idle
    <3>3. OwnCall(req'[h], log)
      BY <3>1, <3>2 DEF OwnCall, OwnRow
    <3>4. QED
      BY <3>1, <3>3 DEF Own
  <2>2. ASSUME NEW h \in Hooks, Resolve(h)
        PROVE  Own'
    <3>1. \A c \in IF req[h].event.named THEN {Buyer[req[h].event.sub]} ELSE rowsOf(req[h].event.sub) :
             c = Buyer[req[h].event.sub]
      BY <2>2, OwnCluster DEF Resolve
    <3> DEFINE c == Buyer[req[h].event.sub]
    <3>a. \/ req' = [req EXCEPT ![h].cluster = c, ![h].pc = After(req[h].event.type)]
          \/ Return(h) \/ Goto(h, "customer")
      BY <2>2, <3>1 DEF Resolve
    <3>2. \/ req'[h].pc = "idle"
          \/ /\ req'[h].event = req[h].event /\ req'[h].row = req[h].row
             /\ req'[h].cluster \in {req[h].cluster, c}
      BY <3>a, <2>0 DEF Requests, Idle
    <3>3. ~At(h, "idle") /\ UNCHANGED <<bill, log>> /\ \A g \in Hooks \ {h} : req'[g] = req[g]
      BY <2>2, <2>0 DEF Resolve
    <3>4. QED
      BY <3>2, <3>3, OwnKept
  <2>3. ASSUME NEW h \in Hooks, ResolveByCustomer(h)
        PROVE  Own'
    <3>1. \/ req'[h].pc = "idle"
          \/ /\ req'[h].event = req[h].event /\ req'[h].row = req[h].row
             /\ req'[h].cluster = Buyer[req[h].event.sub]
      BY <2>3, <2>0 DEF ResolveByCustomer, Requests, Idle
    <3>2. ~At(h, "idle") /\ UNCHANGED <<bill, log>> /\ \A g \in Hooks \ {h} : req'[g] = req[g]
      BY <2>3, <2>0 DEF ResolveByCustomer
    <3>3. QED
      BY <3>1, <3>2, OwnKept
  <2>4. ASSUME NEW h \in Hooks, FindRow(h)
        PROVE  Own'
    <3>1. \A c \in rowsOf(req[h].event.sub) : c = Buyer[req[h].event.sub]
      BY <2>4, OwnCluster DEF FindRow
    <3> DEFINE c == Buyer[req[h].event.sub]
    <3>a. \/ \E pc \in HookLabels : req' = [req EXCEPT ![h].cluster = c, ![h].row = bill[c], ![h].pc = pc]
          \/ Return(h)
      BY <2>4, <3>1 DEF FindRow, HookLabels
    <3>2. \/ req'[h].pc = "idle"
          \/ /\ req'[h].event = req[h].event /\ req'[h].row = bill[c]
             /\ req'[h].cluster = c
      BY <3>a, <2>0 DEF Requests, Idle
    <3>3. ~At(h, "idle") /\ UNCHANGED <<bill, log>> /\ \A g \in Hooks \ {h} : req'[g] = req[g]
      BY <2>4, <2>0 DEF FindRow
    <3>4. QED
      BY <3>2, <3>3, OwnKept
  <2>5. ASSUME NEW h \in Hooks, GetRow(h)
        PROVE  Own'
    <3>1. req[h].cluster = Buyer[req[h].event.sub]
      BY <2>5, <2>0, OwnCluster DEF GetRow, HookOK
    <3>2. \/ req'[h].pc = "idle"
          \/ /\ req'[h].event = req[h].event /\ req'[h].row = bill[req[h].cluster]
             /\ req'[h].cluster = req[h].cluster
      BY <2>5, <2>0 DEF GetRow, Requests, Idle
    <3>3. ~At(h, "idle") /\ UNCHANGED <<bill, log>> /\ \A g \in Hooks \ {h} : req'[g] = req[g]
      BY <2>5, <2>0 DEF GetRow
    <3>4. QED
      BY <3>1, <3>2, <3>3, OwnKept
  <2>6. ASSUME NEW h \in Hooks, ReadPreviousPlan(h)
        PROVE  Own'
    <3>1. /\ ~At(h, "idle") /\ req'[h].event = req[h].event /\ req'[h].row = req[h].row
          /\ req'[h].cluster = req[h].cluster /\ UNCHANGED <<bill, log>>
          /\ \A g \in Hooks \ {h} : req'[g] = req[g]
      BY <2>6, <2>0 DEF ReadPreviousPlan, Requests
    <3>2. QED
      BY <3>1, OwnKept
  <2>7. ASSUME NEW h \in Hooks, WriteRow(h)
        PROVE  Own'
    <3> DEFINE e == req[h].event
               c == req[h].cluster
    <3>1. WroteRow(h) /\ ~At(h, "idle") /\ log' = log
      BY <2>7, RowWritten DEF WriteRow
    <3>2. PICK row \in Row :
            /\ bill' = [bill EXCEPT ![c] = row]
            /\ row.plan = recordedPlan(h)
            /\ row.sub = IF e.type = "past_due" THEN req[h].row.sub ELSE e.sub
            /\ row.end = IF e.type \in {"created", "updated", "canceled"} THEN e.sub ELSE bill[c].end
      BY <3>1 DEF WroteRow
    <3>3. /\ c \in Clusters /\ c = Buyer[e.sub] /\ e \in Events
          /\ e.type \notin {"created", "updated"} => req[h].row \in Row /\ bill[c] \in Row
      BY <3>1, OwnCluster DEF WroteRow
    <3>4. OwnCall(req[h], log) /\ OwnRow(c, bill[c], log) /\ NoRow \notin Row
      BY <3>3 DEF Own, Row, NoRow
    <3>5. OwnRow(c, req[h].row, log) /\ \E i \in DOMAIN log[c] : log[c][i] = e
      BY <3>1, <3>3, <3>4 DEF OwnCall
    <3>6. Buyer[row.sub] = c /\ Buyer[row.end] = c
      BY <3>2, <3>3, <3>4, <3>5 DEF OwnRow
    <3>7. row.plan \in Paid => \E i \in DOMAIN log[c] : log[c][i].plan = row.plan
      BY <3>2, <3>3, <3>4, <3>5 DEF OwnRow, recordedPlan, Paid
    <3>8. OwnRow(c, row, log)
      BY <3>6, <3>7 DEF OwnRow
    <3>9. \A d \in Clusters : OwnRow(d, bill'[d], log')
      BY <3>1, <3>2, <3>3, <3>8, <2>0 DEF Own
    <3>10. /\ req'[h].pc # "idle" /\ req'[h].event = req[h].event /\ req'[h].row = req[h].row
           /\ req'[h].cluster = req[h].cluster /\ \A g \in Hooks \ {h} : req'[g] = req[g]
      BY <2>7, <2>0 DEF WriteRow, Requests
    <3>11. OwnCall(req'[h], log')
      BY <3>1, <3>4, <3>10 DEF OwnCall
    <3>12. QED
      BY <3>1, <3>9, <3>10, <3>11 DEF Own
  <2>8. ASSUME NEW h \in Hooks, Notify(h)
        PROVE  Own'
    BY <2>8, <2>0, OwnKept DEF Notify, Idle
  <2>9. ASSUME NEW h \in Hooks, ReleasePool(h) \/ ReleaseDedicated(h) \/ AssignPool(h) \/ TransitionToSharedPool(h)
        PROVE  Own'
    <3>1. PICK pc \in HookLabels : /\ req' = [req EXCEPT ![h].pc = pc] /\ ~At(h, "idle")
                                   /\ UNCHANGED <<bill, log>>
      BY <2>9 DEF ReleasePool, ReleaseDedicated, AssignPool, TransitionToSharedPool, HookLabels
    <3>2. /\ req'[h].event = req[h].event /\ req'[h].row = req[h].row /\ req'[h].cluster = req[h].cluster
          /\ \A g \in Hooks \ {h} : req'[g] = req[g]
      BY <3>1, <2>0 DEF Requests
    <3>3. QED
      BY <3>1, <3>2, OwnKept
  <2>10. ASSUME NEW d \in Doctors, Doctor(d)
         PROVE  Own'
    <3>1. UNCHANGED <<bill, log>> /\ \A h \in Hooks : req'[h] = req[h]
      BY <2>10, <2>0 DEF Doctor, DoctorLists, DoctorReadsPlan, DoctorAllocates, DoctorSpawns
    <3>2. QED
      BY <3>1 DEF Own
  <2>11. ASSUME NEW s \in Subs, Provider(s)
         PROVE  Own'
    <3>1. UNCHANGED <<bill, req>> /\ \A c \in Clusters : \A i \in DOMAIN log[c] : i \in DOMAIN log'[c] /\ log'[c][i] = log[c][i]
      BY <2>11, LogGrows
    <3>2. ASSUME NEW c \in Clusters, NEW row, OwnRow(c, row, log)
          PROVE  OwnRow(c, row, log')
      BY <3>1, <3>2 DEF OwnRow
    <3>3. ASSUME NEW h \in Hooks
          PROVE  OwnCall(req'[h], log')
      <4>1. CASE At(h, "idle")
        BY <3>1, <4>1 DEF OwnCall
      <4>2. CASE ~At(h, "idle")
        <5>1. Buyer[req[h].event.sub] \in Clusters /\ OwnCall(req[h], log)
          BY <4>2, OwnCluster DEF Own
        <5>2. QED
          BY <3>1, <3>2, <4>2, <5>1 DEF OwnCall
      <4>3. QED
        BY <4>1, <4>2
    <3>4. QED
      BY <3>1, <3>2, <3>3 DEF Own
  <2>12. CASE UNCHANGED vars
    BY <2>12 DEF vars, Own
  <2>13. QED
    BY <2>1, <2>2, <2>3, <2>4, <2>5, <2>6, <2>7, <2>8, <2>9, <2>10, <2>11, <2>12 DEF Next, Hook
<1>3. QED
  BY <1>1, <1>2, Typing, PTL DEF Spec

(***************************************************************************)
(* However the events come - late, twice, over each other - a cluster's    *)
(* row names a subscription that was bought for it, and a paid plan in it  *)
(* is one that an event of the cluster's subscriptions announced.          *)
(***************************************************************************)
THEOREM OwnSubscription == Spec => []BilledToItsBuyer
<1>1. Own => BilledToItsBuyer
  BY DEF Own, OwnRow, BilledToItsBuyer
<1>2. QED
  BY <1>1, OwnInvariant, PTL

\* Pools are not overfull.
RoomOK == \A t \in Tiers : Cardinality({c \in Clusters : pool[c] = t}) <= Capacity[t]


(***************************************************************************)
(* A cluster placed where there is room, or taken out, overfills no pool.  *)
(***************************************************************************)
LEMMA RoomKept ==
  ASSUME TypesOK, RoomOK, NEW c \in Clusters, NEW t \in Tiers \cup {None},
         pool' = [pool EXCEPT ![c] = t], t = None \/ hasRoom(t)
  PROVE  RoomOK'
<1> USE BillingAssumption
<1> DEFINE In(u) == {d \in Clusters : pool[d] = u}
           After2(u) == {d \in Clusters : pool'[d] = u}
<1>1. ASSUME NEW u \in Tiers
      PROVE  Cardinality(After2(u)) <= Capacity[u]
  <2>1. IsFiniteSet(In(u)) /\ Cardinality(In(u)) \in Nat /\ Capacity[u] \in Nat
    BY FS_Subset, FS_CardinalityType
  <2>2. CASE u # t
    <3>1. After2(u) \subseteq In(u)
      BY <2>2 DEF TypesOK
    <3>2. Cardinality(After2(u)) <= Cardinality(In(u)) /\ Cardinality(After2(u)) \in Nat
      BY <3>1, <2>1, FS_Subset, FS_CardinalityType
    <3>3. QED
      BY <2>1, <3>2 DEF RoomOK
  <2>3. CASE u = t
    <3>1. After2(u) = In(u) \cup {c}
      BY <2>3 DEF TypesOK
    <3>2. Cardinality(In(u)) < Capacity[u]
      BY <2>3 DEF hasRoom, Tiers, Plans
    <3>3. Cardinality(In(u) \cup {c}) <= Cardinality(In(u)) + 1
      <4>1. Cardinality(In(u) \cup {c}) = IF c \in In(u) THEN Cardinality(In(u)) ELSE Cardinality(In(u)) + 1
        BY <2>1, FS_AddElement
      <4>2. QED
        BY <2>1, <4>1
    <3>4. Cardinality(In(u) \cup {c}) \in Nat
      BY <2>1, FS_AddElement, FS_CardinalityType
    <3> HIDE DEF In, After2
    <3>5. QED
      BY <2>1, <3>1, <3>2, <3>3, <3>4
  <2>4. QED
    BY <2>2, <2>3
<1>2. QED
  BY <1>1 DEF RoomOK

(***************************************************************************)
(* Type correctness: also the rows that handlers copied from what they had *)
(* read are whole, a subscription is in one row, and no pool instance has  *)
(* more clusters than it has room for.                                     *)
(***************************************************************************)
THEOREM TypeCorrect == Spec => []TypeOK
<1> USE BillingAssumption
<1>1. Init => RoomOK
  <2>1. ASSUME Init, NEW t \in Tiers
        PROVE  Cardinality({c \in Clusters : pool[c] = t}) <= Capacity[t]
    <3> DEFINE In == {c \in Clusters : pool[c] = t}
    <3>1. In = {}
      BY <2>1 DEF Init, Tiers, Plans
    <3>2. Cardinality({}) = 0 /\ Capacity[t] \in Nat
      BY FS_EmptySet
    <3> HIDE DEF In
    <3>3. Cardinality(In) <= Capacity[t]
      BY <3>1, <3>2
    <3>4. QED
      BY <3>3 DEF In
  <2>2. QED
    BY <2>1 DEF RoomOK
<1>2. Typed /\ RoomOK /\ [Next]_vars => RoomOK'
  <2> SUFFICES ASSUME Typed, RoomOK, [Next]_vars
               PROVE  RoomOK'
    OBVIOUS
  <2>1. CASE pool' = pool
    BY <2>1 DEF RoomOK
  <2>2. CASE \E c \in Clusters, t \in Tiers \cup {None} :
                pool' = [pool EXCEPT ![c] = t] /\ (t = None \/ hasRoom(t))
    BY <2>2, RoomKept DEF Typed
  <2>3. ASSUME NEW h \in Hooks, Hook(h)
        PROVE  RoomOK'
    <3>1. HookOK(req[h], bill)
      BY DEF Typed, LocalsOK
    <3>2. CASE ReleasePool(h)
      <4>1. req[h].cluster \in Clusters
        BY <3>1, <3>2 DEF ReleasePool, At, HookOK
      <4>2. QED
        BY <3>2, <4>1, <2>2 DEF ReleasePool
    <3>3. CASE AssignPool(h)
      <4>1. req[h].cluster \in Clusters /\ req[h].to \in Tiers
        BY <3>1, <3>3 DEF AssignPool, At, HookOK
      <4>2. QED
        BY <3>3, <4>1, <2>1, <2>2 DEF AssignPool
    <3>4. CASE TransitionToSharedPool(h)
      <4>1. req[h].cluster \in Clusters /\ req[h].to \in Tiers
        BY <3>1, <3>4 DEF TransitionToSharedPool, At, HookOK, Plans, Tiers
      <4>2. QED
        BY <3>4, <4>1, <2>1, <2>2 DEF TransitionToSharedPool, placement
    <3>5. QED
      BY <2>1, <2>3, <3>2, <3>3, <3>4
      DEF Hook, Deliver, Resolve, ResolveByCustomer, FindRow, GetRow, ReadPreviousPlan, WriteRow,
          Notify, ReleaseDedicated, Read, placement
  <2>4. ASSUME NEW d \in Doctors, Doctor(d)
        PROVE  RoomOK'
    <3>1. CASE DoctorAllocates(d)
      <4>1. req[d].cluster \in Clusters /\ req[d].to \in Plans
        BY <3>1 DEF DoctorAllocates, At, Typed, LocalsOK, DoctorOK
      <4>2. QED
        BY <3>1, <4>1, <2>1, <2>2 DEF DoctorAllocates, Plans, Tiers
    <3>2. QED
      BY <2>1, <2>4, <3>1 DEF Doctor, DoctorLists, DoctorReadsPlan, DoctorSpawns, Read,
         placement
  <2>5. ASSUME NEW s \in Subs, Provider(s)
        PROVE  pool' = pool
    BY <2>5 DEF Provider, Subscribe, ChangePlan, Cancel, Uncancel, FailPayment, RetryPayment,
       Revoke,
                PeriodEnds, Emit, placement
  <2>6. QED
    BY <2>1, <2>3, <2>4, <2>5 DEF Next, vars, placement
<1>3. Typed /\ BilledToItsBuyer /\ RoomOK => TypeOK
  <2> SUFFICES ASSUME Typed, BilledToItsBuyer, RoomOK
               PROVE  TypeOK
    OBVIOUS
  <2>1. \A c \in Clusters : RowOK(bill[c])
    BY DEF Typed, TypesOK, Rows, Row, RowOK, Statuses
  <2>2. ASSUME NEW s \in Subs
        PROVE  Cardinality(rowsOf(s)) <= 1
    <3>1. rowsOf(s) \subseteq {Buyer[s]}
      BY DEF rowsOf, BilledToItsBuyer, NoRow
    <3>2. Cardinality(rowsOf(s)) <= Cardinality({Buyer[s]}) /\ Cardinality({Buyer[s]}) = 1
      BY <3>1, FS_Singleton, FS_Subset
    <3>3. QED
      BY <3>2
  <2>3. QED
    BY <2>1, <2>2 DEF Typed, TypesOK, RoomOK, TypeOK
<1>4. QED
  BY <1>1, <1>2, <1>3, Typing, OwnSubscription, PTL DEF Spec


-----------------------------------------------------------------------------
\* An event that is not a purchase goes on with the subscription of the one
\* before, which was not its end, and only an update changes the plan.
Continues(e, f) ==
  f.type # "created" =>
     /\ f.sub = e.sub /\ e.type # "revoked"
     /\ f.type # "updated" => f.plan = e.plan
StatusFits(e) ==
  /\ e.type \in {"created", "uncanceled"} => e.status = "active"
  /\ e.type = "updated" => e.status \in {"active", "past_due"}
  /\ e.type = "past_due" => e.status = "past_due"

\* The last event of a cluster says what its subscription is now; the others
\* are over.
LastSays(c) ==
  LET e == log[c][Len(log[c])] IN
  /\ sold[e.sub].plan = e.plan
  /\ sold[e.sub].state = "revoked" <=> e.type = "revoked"
  /\ \A s \in Subs : Buyer[s] = c /\ s # e.sub => sold[s].state \in {"none", "revoked"}
ChainedAt(c) ==
  /\ log[c] = <<>> => \A s \in Subs : Buyer[s] = c => sold[s].state = "none"
  /\ log[c] # <<>> => log[c][1].type = "created" /\ log[c][1].named /\ LastSays(c)
  /\ \A i \in DOMAIN log[c] : StatusFits(log[c][i])
  /\ \A i \in 2..Len(log[c]) : Continues(log[c][i - 1], log[c][i])
Chained == (\A c \in Clusters : ChainedAt(c)) /\ (\A c \in Clusters : handled[c] <= Len(log[c]))

LEMMA EmitChained ==
  ASSUME Typed, Chained, NEW s \in Subs, NEW type \in Types, NEW plan \in Paid,
         NEW state \in SoldStates, NEW status \in Statuses, Emit(s, type, plan, state, status),
         \/ type = "created" /\ \A t \in Subs : Buyer[t] = Buyer[s] => sold[t].state \in {"none", "revoked"}
         \/ /\ type # "created" /\ sold[s].state \notin {"none", "revoked"}
            /\ type # "updated" => plan = sold[s].plan,
         state = "revoked" <=> type = "revoked",
         type \in {"created", "uncanceled"} => status = "active",
         type = "updated" => status \in {"active", "past_due"},
         type = "past_due" => status = "past_due"
  PROVE  Chained'
<1> USE BillingAssumption
<1>1. PICK c \in Clusters : c = Buyer[s]
  OBVIOUS
<1>2. PICK e : /\ log' = [log EXCEPT ![c] = Append(@, e)]
               /\ e \in Events /\ e.sub = s /\ e.type = type /\ e.plan = plan /\ e.status = status
               /\ log[c] = <<>> => e.named
  <2>1. PICK named \in BOOLEAN :
          log' = [log EXCEPT ![c] = Append(@, Event(s, type, plan, status, named \/ log[c] = <<>>))]
    BY <1>1 DEF Emit
  <2> DEFINE e == Event(s, type, plan, status, named \/ log[c] = <<>>)
  <2>2. /\ e \in Events /\ e.sub = s /\ e.type = type /\ e.plan = plan /\ e.status = status
        /\ log[c] = <<>> => e.named
    BY DEF Event, Events
  <2>3. QED
    BY <2>1, <2>2
<1>3. /\ log[c] \in Seq(Events) /\ Len(log[c]) \in Nat /\ log \in [Clusters -> Seq(Events)]
      /\ sold' = [sold EXCEPT ![s] = [plan |-> plan, state |-> state]]
      /\ \A t \in Subs \ {s} : sold'[t] = sold[t]
      /\ sold'[s].plan = plan /\ sold'[s].state = state /\ handled' = handled
  BY DEF Typed, TypesOK, Emit
<1> DEFINE n == Len(log[c])
<1>4. /\ log'[c] = Append(log[c], e) /\ Len(log'[c]) = n + 1 /\ log'[c][n + 1] = e
      /\ DOMAIN log'[c] = 1..(n + 1) /\ DOMAIN log[c] = 1..n
      /\ \A i \in 1..n : log'[c][i] = log[c][i]
      /\ log'[c] # <<>>
  <2>1. log'[c] = Append(log[c], e)
    BY <1>2, <1>3
  <2>2. QED
    BY <2>1, <1>2, <1>3
<1>5. type # "created" =>
        log[c] # <<>> /\ log[c][n].sub = s /\ log[c][n].type # "revoked" /\ log[c][n].plan = sold[s].plan
  BY <1>1 DEF Chained, ChainedAt, LastSays
<1>6. ChainedAt(c)'
  <2>1. log'[c][1].type = "created" /\ log'[c][1].named
    <3>1. CASE log[c] = <<>>
      BY <1>1, <1>2, <1>4, <1>5, <3>1
    <3>2. CASE log[c] # <<>>
      <4>1. 1 \in 1..n
        BY <1>3, <3>2
      <4>2. QED
        BY <1>4, <3>2, <4>1 DEF Chained, ChainedAt
    <3>3. QED
      BY <3>1, <3>2
  <2>2. LastSays(c)'
    <3>1. \A t \in Subs : Buyer[t] = c /\ t # s => sold[t].state \in {"none", "revoked"}
      BY <1>1, <1>5 DEF Chained, ChainedAt, LastSays
    <3>2. QED
      BY <1>2, <1>3, <1>4, <3>1 DEF LastSays
  <2>3. \A i \in DOMAIN log'[c] : StatusFits(log'[c][i])
    <3>1. StatusFits(e)
      BY <1>2 DEF StatusFits
    <3>2. QED
      BY <1>3, <1>4, <3>1 DEF Chained, ChainedAt
  <2>4. ASSUME NEW i \in 2..Len(log'[c])
        PROVE  Continues(log'[c][i - 1], log'[c][i])
    <3>1. CASE i = n + 1
      <4>1. i - 1 = n /\ n \in 1..n
        BY <1>3, <1>4, <2>4, <3>1
      <4>2. log'[c][i - 1] = log[c][n] /\ log'[c][i] = e
        BY <1>4, <3>1, <4>1
      <4>3. QED
        BY <1>2, <1>5, <4>2 DEF Continues
    <3>2. CASE i # n + 1
      <4>1. i \in 2..n /\ i \in 1..n /\ i - 1 \in 1..n
        BY <1>3, <1>4, <2>4, <3>2
      <4>2. QED
        BY <1>4, <4>1 DEF Chained, ChainedAt
    <3>3. QED
      BY <3>1, <3>2
  <2>5. QED
    BY <1>4, <2>1, <2>2, <2>3, <2>4 DEF ChainedAt
<1>7. ASSUME NEW d \in Clusters \ {c}
      PROVE  ChainedAt(d)'
  <2>1. log'[d] = log[d] /\ \A t \in Subs : Buyer[t] = d => sold'[t] = sold[t]
    BY <1>1, <1>2, <1>3
  <2>2. /\ ChainedAt(d) /\ log[d] \in Seq(Events)
        /\ \A i \in DOMAIN log[d] : Buyer[log[d][i].sub] = d /\ log[d][i].sub \in Subs
    <3>1. ChainedAt(d) /\ log[d] \in Seq(Events)
      BY <1>3 DEF Chained
    <3>2. \A i \in DOMAIN log[d] : log[d][i] \in Events /\ Buyer[log[d][i].sub] = d
      BY <3>1 DEF Typed, LogOK
    <3>3. QED
      BY <3>1, <3>2 DEF Events
  <2>3. log[d] # <<>> => Len(log[d]) \in DOMAIN log[d]
    BY <2>2
  <2>4. LastSays(d) /\ log[d] # <<>> => LastSays(d)'
    BY <2>1, <2>2, <2>3 DEF LastSays
  <2>5. QED
    BY <2>1, <2>2, <2>4 DEF ChainedAt
<1>8. \A d \in Clusters : handled'[d] <= Len(log'[d])
  <2>1. \A d \in Clusters \ {c} : log'[d] = log[d]
    BY <1>2, <1>3
  <2>2. handled[c] \in Nat
    BY DEF Typed, TypesOK
  <2>3. handled[c] <= n + 1
    BY <1>3, <2>2 DEF Chained
  <2>4. QED
    BY <1>3, <1>4, <2>1, <2>3 DEF Chained
<1>9. QED
  BY <1>6, <1>7, <1>8 DEF Chained

LEMMA ChainStep ==
  ASSUME Typed, Chained, [Next]_vars
  PROVE  Chained'
<1> USE BillingAssumption
<1>1. ASSUME NEW s \in Subs, Provider(s)
      PROVE  Chained'
  <2>1. ASSUME NEW plan \in Paid, Subscribe(s, plan)
        PROVE  Chained'
    BY <2>1, EmitChained DEF Subscribe, Types, Statuses, SoldStates
  <2>2. ASSUME NEW plan \in Paid, ChangePlan(s, plan)
        PROVE  Chained'
    BY <2>2, EmitChained DEF ChangePlan, Types, Statuses, SoldStates
  <2>3. CASE Cancel(s) \/ Uncancel(s) \/ FailPayment(s) \/ RetryPayment(s) \/ Revoke(s)
    <3>1. sold[s].plan \in Paid /\ sold[s].state \notin {"none", "revoked"}
      BY <2>3 DEF Typed, SoldOK, Cancel, Uncancel, FailPayment, RetryPayment, Revoke
    <3>2. QED
      BY <2>3, <3>1, EmitChained
      DEF Cancel, Uncancel, FailPayment, RetryPayment, Revoke, Types, Statuses, SoldStates
  <2>4. CASE PeriodEnds(s)
    BY <2>4 DEF PeriodEnds, Chained, ChainedAt, LastSays
  <2>5. QED
    BY <1>1, <2>1, <2>2, <2>3, <2>4 DEF Provider
<1>2. ASSUME NEW h \in Hooks, NEW c \in Clusters, NEW i \in 1..mix.events[c], Deliver(h, c, i)
      PROVE  Chained'
  <2>1. /\ UNCHANGED <<sold, log>> /\ i \in DOMAIN log[c] /\ handled \in [Clusters -> Nat]
        /\ handled' \in {handled, [handled EXCEPT ![c] = i]} /\ log[c] \in Seq(Events)
    BY <1>2 DEF Deliver, Typed, TypesOK
  <2>2. \A d \in Clusters : ChainedAt(d)'
    BY <2>1 DEF Chained, ChainedAt, LastSays
  <2>3. \A d \in Clusters : handled'[d] <= Len(log'[d])
    BY <2>1 DEF Chained
  <2>4. QED
    BY <2>2, <2>3 DEF Chained
<1>3. CASE UNCHANGED <<sold, log, handled>>
  BY <1>3 DEF Chained, ChainedAt, LastSays
<1>4. QED
  BY <1>1, <1>2, <1>3
  DEF Next, Hook, Doctor, Resolve, ResolveByCustomer, FindRow, GetRow, ReadPreviousPlan, WriteRow,
      Notify, ReleasePool, ReleaseDedicated, AssignPool, TransitionToSharedPool, DoctorLists,
      DoctorReadsPlan, DoctorAllocates, DoctorSpawns, Read, provider, vars

-----------------------------------------------------------------------------
Busy(p, c) == req[p].cluster = c \/ (req[p].event.sub \in Subs /\ Buyer[req[p].event.sub] = c)

\* The row says what event i of the cluster did; before the first there is none.
Says(c, i) ==
  IF i = 0 THEN bill[c] = NoRow
  ELSE LET e == log[c][i] IN
       /\ bill[c] \in Row /\ bill[c].sub = e.sub
       /\ [plan |-> bill[c].plan, status |-> bill[c].status] = shouldSay(e)

Unwritten == {"resolve", "customer", "find", "get", "previousPlan", "upsert"}

\* The call of an orderly cluster is of its latest event, and until it writes
\* the row says what the event before did.
CallSays(h, c) ==
  /\ handled[c] > 0 /\ req[h].event = log[c][handled[c]]
  /\ At(h, "customer") => handled[c] > 1
  /\ req[h].pc \in {"previousPlan", "upsert"} /\ req[h].event.type \notin {"created", "updated"} =>
       req[h].row = bill[c]
  /\ Says(c, IF req[h].pc \in Unwritten THEN handled[c] - 1 ELSE handled[c])

OrderlyAt(c) ==
  /\ \A p, q \in Procs : Busy(p, c) /\ Busy(q, c) => p = q
  /\ \A s \in elapsed : Buyer[s] # c
  /\ \A h \in Hooks : Busy(h, c) => CallSays(h, c)
  /\ (\A h \in Hooks : ~Busy(h, c)) => Says(c, handled[c])
InOrder == \A c \in orderly : OrderlyAt(c)

(***************************************************************************)
(* A step that leaves the calls of an orderly cluster, its row, its events *)
(* and its period alone leaves it in order.                                *)
(***************************************************************************)
LEMMA OrderlyElsewhere ==
  ASSUME NEW c \in Clusters, OrderlyAt(c),
         \A p \in Procs : Busy(p, c)' => Busy(p, c) /\ req'[p] = req[p],
         \A h \in Hooks : Busy(h, c) => Busy(h, c)',
         bill'[c] = bill[c], handled'[c] = handled[c],
         handled[c] > 0 => log'[c][handled[c]] = log[c][handled[c]],
         handled[c] > 1 => log'[c][handled[c] - 1] = log[c][handled[c] - 1],
         handled[c] \in Nat, \A s \in elapsed' : Buyer[s] # c
  PROVE  OrderlyAt(c)'
<1>1. \A i \in {handled[c], handled[c] - 1} : i \in Nat /\ Says(c, i) => Says(c, i)'
  BY DEF Says
<1>2. ASSUME NEW h \in Hooks, Busy(h, c)'
      PROVE  CallSays(h, c)'
  <2>1. CallSays(h, c) /\ req'[h] = req[h]
    BY <1>2 DEF OrderlyAt, Procs
  <2>2. handled[c] - 1 \in Nat
    BY <2>1 DEF CallSays
  <2>3. QED
    BY <1>1, <2>1, <2>2 DEF CallSays, At
<1>3. QED
  BY <1>1, <1>2 DEF OrderlyAt

(***************************************************************************)
(* A step of a call of an event: it returns with the row written, or goes  *)
(* on in order.                                                            *)
(***************************************************************************)
LEMMA HookOrderly ==
  ASSUME Typed, Own, Chained, InOrder, NEW h \in Hooks, NEW c \in Clusters,
         ~At(h, "idle"), c = Buyer[req[h].event.sub],
         \A p \in Procs \ {h} : req'[p] = req[p],
         UNCHANGED <<elapsed, log, handled, orderly>>,
         \A d \in Clusters \ {c} : bill'[d] = bill[d],
         \/ req'[h] = Idle /\ (c \in orderly => Says(c, handled[c])')
         \/ /\ req'[h].event = req[h].event /\ req'[h].cluster \in {req[h].cluster, c, None}
            /\ c \in orderly => CallSays(h, c)'
  PROVE  InOrder'
<1> USE BillingAssumption
<1>1. req[h].event.sub \in Subs /\ req[h].cluster \in {c, None} /\ handled \in [Clusters -> Nat] /\ orderly \subseteq Clusters
  BY OwnCluster DEF Typed, TypesOK, Own, OwnCall, At, Events
<1>2. Busy(h, c) /\ \A d \in Clusters \ {c} : ~Busy(h, d)
  BY <1>1 DEF Busy
<1>3. \A d \in Clusters \ {c} : ~Busy(h, d)'
  BY <1>1 DEF Busy, Idle, NoEvent, Event
<1>4. \A p \in Procs \ {h}, d \in Clusters : Busy(p, d)' <=> Busy(p, d)
  BY DEF Busy
<1>5. ASSUME NEW d \in orderly \ {c}
      PROVE  OrderlyAt(d)'
  BY <1>1, <1>2, <1>3, <1>4, <1>5, OrderlyElsewhere DEF InOrder, OrderlyAt, Procs
<1>6. ASSUME c \in orderly
      PROVE  OrderlyAt(c)'
  <2>1. \A p \in Procs \ {h} : ~Busy(p, c)
    BY <1>2, <1>6 DEF InOrder, OrderlyAt, Procs
  <2>2. \A p \in Procs \ {h} : ~Busy(p, c)'
    BY <2>1, <1>4
  <2>3. CASE req'[h] = Idle
    <3>1. ~Busy(h, c)'
      BY <2>3 DEF Busy, Idle, NoEvent, Event
    <3>2. Says(c, handled[c])' \/ CallSays(h, c)'
      BY <1>6
    <3>3. Says(c, handled[c])'
      BY <3>2, <2>3 DEF CallSays, Idle, Unwritten
    <3>4. QED
      BY <1>6, <2>2, <3>1, <3>3 DEF InOrder, OrderlyAt, Procs
  <2>4. CASE req'[h] # Idle
    <3>1. Busy(h, c)' /\ CallSays(h, c)'
      BY <1>1, <1>6, <2>4 DEF Busy
    <3>2. QED
      BY <1>6, <2>2, <3>1 DEF InOrder, OrderlyAt, Procs
  <2>5. QED
    BY <2>3, <2>4
<1>7. QED
  BY <1>5, <1>6 DEF InOrder

\* What an orderly call that is not a first purchase finds.
LEMMA OrderlyFinds ==
  ASSUME Typed, Own, Chained, InOrder, NEW h \in Hooks, NEW c \in orderly,
         ~At(h, "idle"), c = Buyer[req[h].event.sub]
  PROVE  LET e == req[h].event  n == handled[c] IN
         /\ CallSays(h, c) /\ n \in Nat /\ n > 0 /\ n <= Len(log[c])
         /\ e = log[c][n] /\ e \in Events /\ StatusFits(e)
         /\ n = 1 => e.type = "created" /\ e.named
         /\ n > 1 => Continues(log[c][n - 1], e)
         /\ n > 1 /\ req[h].pc \in Unwritten => bill[c] \in Row
         /\ n > 1 /\ req[h].pc \in Unwritten /\ e.type # "created" =>
              /\ bill[c].sub = e.sub
              /\ e.type # "updated" => bill[c].plan = e.plan
<1> USE BillingAssumption
<1> DEFINE e == req[h].event
           n == handled[c]
<1>1. /\ c \in Clusters /\ e \in Events /\ Busy(h, c)
  BY OwnCluster DEF Typed, TypesOK, Busy, Events
<1>2. CallSays(h, c)
  BY <1>1 DEF InOrder, OrderlyAt
<1>3. n \in Nat /\ n > 0 /\ n <= Len(log[c]) /\ e = log[c][n] /\ log[c] \in Seq(Events)
  BY <1>1, <1>2 DEF CallSays, Chained, Typed, TypesOK
<1>a. n \in Nat /\ n > 0 /\ (n > 1 => n - 1 # 0)
  <2>1. n \in Nat
    BY <1>1 DEF Typed, TypesOK
  <2>2. n > 0
    BY <1>2 DEF CallSays
  <2>3. QED
    BY <2>1, <2>2
<1>4. /\ n \in DOMAIN log[c] /\ log[c] # <<>> /\ (n > 1 => n \in 2..Len(log[c]))
      /\ n > 1 => log[c][n - 1] \in Events
  <2>a. log[c] \in Seq(Events)
    BY <1>3
  <2>1. PICK len \in Nat : len = Len(log[c]) /\ DOMAIN log[c] = 1..len /\ \A i \in 1..len : log[c][i] \in Events
    BY <2>a
  <2>b. n <= len
    BY <1>3, <2>1
  <2>2. n \in 1..len /\ (n > 1 => n \in 2..len /\ n - 1 \in 1..len)
    BY <1>a, <2>b, <2>1
  <2>3. QED
    BY <2>1, <2>2
<1>5. /\ StatusFits(e) /\ (n = 1 => e.type = "created" /\ e.named)
      /\ n > 1 => Continues(log[c][n - 1], e)
  BY <1>1, <1>3, <1>4 DEF Chained, ChainedAt
<1>6. ASSUME n > 1, req[h].pc \in Unwritten
      PROVE  /\ bill[c] \in Row
             /\ e.type # "created" => /\ bill[c].sub = e.sub
                                      /\ e.type # "updated" => bill[c].plan = e.plan
  <2>1. Says(c, n - 1) /\ n - 1 # 0
    <3>1. Says(c, IF req[h].pc \in Unwritten THEN n - 1 ELSE n)
      BY <1>2 DEF CallSays
    <3>2. n - 1 # 0
      BY <1>a, <1>6
    <3>3. QED
      BY <1>6, <3>1, <3>2, Zenon
  <2> DEFINE f == log[c][n - 1]
  <2>2. /\ bill[c] \in Row /\ bill[c].sub = f.sub
        /\ [plan |-> bill[c].plan, status |-> bill[c].status] = shouldSay(f)
    BY <2>1 DEF Says
  <2>3. f.type # "revoked" => bill[c].plan = f.plan
    BY <2>2 DEF shouldSay
  <2>4. QED
    BY <1>5, <1>6, <2>2, <2>3 DEF Continues
<1>7. QED
  BY <1>1, <1>2, <1>3, <1>5, <1>6


(***************************************************************************)
(* The invariant of RecordedInOrder: an orderly cluster has at most one    *)
(* call under way, its row says what the event before that call's did      *)
(* until the call writes it, and then what the call's event did.           *)
(***************************************************************************)
THEOREM OrderInvariant == Spec => [](Chained /\ InOrder)
<1> USE BillingAssumption
<1>1. Init => Chained /\ InOrder
  BY DEF Init, Chained, ChainedAt, InOrder, OrderlyAt, Says, Busy, Procs, Idle, NoEvent, Event,
     NoSub
<1>2. Typed /\ Own /\ Chained /\ InOrder /\ [Next]_vars => Chained' /\ InOrder'
  <2> SUFFICES ASSUME Typed, Own, Chained, InOrder, [Next]_vars
               PROVE  InOrder'
    BY ChainStep
  <2> USE DEF At, Goto, Return, Read, provider, placement
  <2>0. /\ req \in [Procs -> Requests] /\ bill \in [Clusters -> Rows] /\ orderly \subseteq Clusters
        /\ \A h \in Hooks : req[h] \in Requests /\ HookOK(req[h], bill) /\ h \in Procs
        /\ \A d \in Doctors : req[d] \in Requests /\ DoctorOK(req[d]) /\ d \in Procs \ Hooks
        /\ handled \in [Clusters -> Nat]
    BY DEF Typed, TypesOK, LocalsOK, Procs
  <2>1. ASSUME NEW h \in Hooks, NEW c \in Clusters, NEW i \in 1..mix.events[c], Deliver(h, c, i)
        PROVE  InOrder'
    <3>1. /\ i \in DOMAIN log[c] /\ log[c][i] \in Events /\ Buyer[log[c][i].sub] = c /\ log[c] \in Seq(Events)
          /\ req' = [req EXCEPT ![h] = [Idle EXCEPT !.event = log[c][i], !.pc = firstStep(log[c][i].type)]]
          /\ UNCHANGED <<bill, log, elapsed>> /\ At(h, "idle")
      BY <2>1 DEF Deliver, Typed, TypesOK, LogOK
    <3>2. /\ req'[h].event = log[c][i] /\ req'[h].cluster = None /\ req'[h].pc \in {"resolve", "find"}
          /\ req[h] = Idle /\ \A p \in Procs \ {h} : req'[p] = req[p]
      BY <2>0, <3>1 DEF Idle, firstStep, HookOK
    <3>3. /\ \A d \in Clusters : ~Busy(h, d) /\ (Busy(h, d)' <=> d = c)
          /\ \A p \in Procs \ {h}, d \in Clusters : Busy(p, d)' <=> Busy(p, d)
      BY <3>1, <3>2 DEF Busy, Idle, NoEvent, Event, Events
    <3>4. orderly' \subseteq orderly /\ \A d \in Clusters \ {c} : handled'[d] = handled[d]
      BY <2>0, <2>1 DEF Deliver
    <3>5. ASSUME NEW d \in orderly' \ {c}
          PROVE  OrderlyAt(d)'
      <4>1. d \in Clusters /\ d # c /\ OrderlyAt(d)
        BY <2>0, <3>4, <3>5 DEF InOrder
      <4>2. \A p \in Procs : Busy(p, d)' => p # h /\ Busy(p, d) /\ req'[p] = req[p]
        BY <3>2, <3>3, <4>1
      <4>3. \A g \in Hooks : Busy(g, d) => Busy(g, d)'
        BY <2>0, <3>3, <4>1
      <4>4. \A s \in elapsed' : Buyer[s] # d
        BY <3>1, <4>1 DEF OrderlyAt
      <4>5. QED
        BY <2>0, <3>1, <3>4, <4>1, <4>2, <4>3, <4>4, OrderlyElsewhere
    <3>6. ASSUME c \in orderly'
          PROVE  OrderlyAt(c)'
      <4>1. i = handled[c] + 1 /\ handled'[c] = i /\ ~busyWith(c) /\ c \in orderly
        BY <2>0, <2>1, <3>6 DEF Deliver
      <4>2. \A p \in Procs : ~Busy(p, c)
        BY <4>1 DEF busyWith, Busy
      <4>3. Says(c, handled[c])
        BY <2>0, <4>1, <4>2 DEF InOrder, OrderlyAt
      <4>4. /\ handled'[c] > 0 /\ handled'[c] - 1 = handled[c] /\ req'[h].event = log'[c][handled'[c]]
        <5>1. handled[c] \in Nat
          BY <2>0
        <5>2. QED
          BY <3>1, <3>2, <4>1, <5>1
      <4>5. \A j : Says(c, j)' <=> Says(c, j)
        BY <3>1 DEF Says
      <4>6. CallSays(h, c)'
        BY <3>1, <3>2, <4>3, <4>4, <4>5 DEF CallSays, Unwritten
      <4>7. QED
        BY <2>0, <3>1, <3>3, <4>1, <4>2, <4>6 DEF InOrder, OrderlyAt
    <3>7. QED
      BY <3>5, <3>6 DEF InOrder
  <2>2. ASSUME NEW h \in Hooks, Hook(h), ~At(h, "idle")
        PROVE  InOrder'
    <3>1. PICK c \in Clusters : c = Buyer[req[h].event.sub]
      BY <2>2, OwnCluster
    <3> DEFINE e == req[h].event
               n == handled[c]
    <3>2. /\ e \in Events /\ rowsOf(e.sub) \subseteq {c} /\ e.sub \in Subs
          /\ req[h].cluster \in Clusters => req[h].cluster = c
          /\ req[h].cluster \in {c, None}
      BY <2>2, <3>1, OwnCluster DEF Own, OwnCall, Events
    <3>3. ASSUME c \in orderly
          PROVE  /\ CallSays(h, c) /\ n \in Nat /\ n > 0 /\ n <= Len(log[c])
                 /\ e = log[c][n] /\ StatusFits(e)
                 /\ n = 1 => e.type = "created" /\ e.named
                 /\ n > 1 => Continues(log[c][n - 1], e)
                 /\ n > 1 /\ req[h].pc \in Unwritten => bill[c] \in Row
                 /\ n > 1 /\ req[h].pc \in Unwritten /\ e.type # "created" =>
                      /\ bill[c].sub = e.sub
                      /\ e.type # "updated" => bill[c].plan = e.plan
      BY <2>2, <3>1, <3>3, OrderlyFinds
    \* A call that does not write goes on or returns with the row as it is.
    <3>4. ASSUME UNCHANGED <<elapsed, log, handled, orderly, bill>>,
                 \A p \in Procs \ {h} : req'[p] = req[p],
                 \/ req'[h] = Idle /\ (c \in orderly => Says(c, n))
                 \/ /\ req'[h].event = e /\ req'[h].cluster \in {req[h].cluster, c}
                    /\ req'[h].pc \in Unwritten <=> req[h].pc \in Unwritten
                    /\ c \in orderly /\ req'[h].pc = "customer" => n > 1
                    /\ c \in orderly /\ req'[h].pc \in {"previousPlan", "upsert"}
                         /\ e.type \notin {"created", "updated"} => req'[h].row = bill[c]
          PROVE  InOrder'
      <4>1. \A i : Says(c, i)' <=> Says(c, i)
        BY <3>4 DEF Says
      <4>2. CASE req'[h] = Idle /\ (c \in orderly => Says(c, n))
        <5>1. c \in orderly => Says(c, handled[c])'
          BY <3>4, <4>1, <4>2
        <5>2. QED
          BY <2>2, <3>1, <3>4, <4>2, <5>1, HookOrderly
      <4>3. CASE ~(req'[h] = Idle /\ (c \in orderly => Says(c, n)))
        <5>1. c \in orderly => CallSays(h, c)'
          BY <3>3, <3>4, <4>1, <4>3 DEF CallSays
        <5>2. QED
          BY <2>2, <3>1, <3>4, <4>3, <5>1, HookOrderly
      <4>4. QED
        BY <4>2, <4>3
    <3>5. CASE Resolve(h)
      <4>1. /\ UNCHANGED <<elapsed, log, handled, orderly, bill>> /\ \A p \in Procs \ {h} : req'[p] = req[p]
            /\ At(h, "resolve") /\ e.type \in {"created", "updated", "past_due"}
        BY <2>0, <3>5 DEF Resolve, HookOK
      <4>2. \/ req' = [req EXCEPT ![h].cluster = c, ![h].pc = After(e.type)]
            \/ /\ ~e.named /\ rowsOf(e.sub) = {}
               /\ IF e.type = "past_due" THEN Return(h) ELSE Goto(h, "customer")
        BY <3>1, <3>2, <3>5 DEF Resolve
      <4>3. c \in orderly /\ ~e.named => n > 1 /\ (e.type = "past_due" => c \in rowsOf(e.sub))
        BY <3>3, <4>1 DEF rowsOf, Unwritten
      <4>4. CASE req' = [req EXCEPT ![h].cluster = c, ![h].pc = After(e.type)]
        <5>1. req'[h].event = e /\ req'[h].cluster = c /\ req'[h].pc = After(e.type)
          BY <2>0, <4>4 DEF Requests
        <5>2. QED
          BY <3>4, <4>1, <5>1 DEF After, Unwritten
      <4>5. CASE ~e.named /\ rowsOf(e.sub) = {} /\ Return(h) /\ e.type = "past_due"
        BY <2>0, <3>4, <4>1, <4>3, <4>5
      <4>6. CASE ~e.named /\ Goto(h, "customer") /\ e.type # "past_due"
        <5>1. req'[h].event = e /\ req'[h].cluster = req[h].cluster /\ req'[h].pc = "customer"
          BY <2>0, <4>6 DEF Requests
        <5>2. QED
          BY <3>4, <4>1, <4>3, <4>6, <5>1 DEF Unwritten
      <4>7. QED
        BY <4>2, <4>4, <4>5, <4>6
    <3>6. CASE ResolveByCustomer(h)
      <4>1. /\ UNCHANGED <<elapsed, log, handled, orderly, bill>> /\ \A p \in Procs \ {h} : req'[p] = req[p]
            /\ At(h, "customer") /\ e.type \in {"created", "updated"}
        BY <2>0, <3>6 DEF ResolveByCustomer, HookOK
      <4>2. c \in orderly => bill[c] # NoRow
        BY <3>3, <4>1 DEF CallSays, Unwritten, Row, NoRow
      <4>3. CASE bill[c] = NoRow
        BY <2>0, <3>1, <3>4, <3>6, <4>1, <4>2, <4>3 DEF ResolveByCustomer
      <4>4. CASE bill[c] # NoRow
        <5>1. req'[h].event = e /\ req'[h].cluster = c /\ req'[h].pc = "previousPlan"
          BY <2>0, <3>1, <3>6, <4>4 DEF ResolveByCustomer, Requests
        <5>2. QED
          BY <3>4, <4>1, <5>1 DEF Unwritten
      <4>5. QED
        BY <4>3, <4>4
    <3>7. CASE FindRow(h)
      <4>1. /\ UNCHANGED <<elapsed, log, handled, orderly, bill>> /\ \A p \in Procs \ {h} : req'[p] = req[p]
            /\ At(h, "find") /\ e.type \in {"canceled", "uncanceled", "revoked"}
        BY <2>0, <3>7 DEF FindRow, HookOK
      <4>2. c \in orderly => c \in rowsOf(e.sub)
        BY <3>3, <4>1 DEF rowsOf, Unwritten
      <4>3. CASE rowsOf(e.sub) = {} /\ Return(h)
        BY <2>0, <3>4, <4>1, <4>2, <4>3
      <4>4. CASE \E pc \in {"upsert", "previousPlan"} :
                   req' = [req EXCEPT ![h].cluster = c, ![h].row = bill[c], ![h].pc = pc]
        <5>1. /\ req'[h].event = e /\ req'[h].cluster = c /\ req'[h].row = bill[c]
              /\ req'[h].pc \in {"upsert", "previousPlan"}
          BY <2>0, <4>4 DEF Requests
        <5>2. QED
          BY <3>4, <4>1, <5>1 DEF Unwritten
      <4>5. QED
        BY <3>2, <3>7, <4>3, <4>4 DEF FindRow
    <3>8. CASE GetRow(h)
      <4>1. /\ UNCHANGED <<elapsed, log, handled, orderly, bill>> /\ \A p \in Procs \ {h} : req'[p] = req[p]
            /\ At(h, "get") /\ e.type = "past_due" /\ req[h].cluster = c
        BY <2>0, <3>2, <3>8 DEF GetRow, HookOK
      <4>2. c \in orderly => bill[c] # NoRow
        BY <3>3, <4>1 DEF Unwritten, Row, NoRow
      <4>3. CASE bill[c] = NoRow
        BY <2>0, <3>4, <3>8, <4>1, <4>2, <4>3 DEF GetRow
      <4>4. CASE bill[c] # NoRow
        <5>1. req'[h].event = e /\ req'[h].cluster = c /\ req'[h].row = bill[c] /\ req'[h].pc = "upsert"
          BY <2>0, <3>8, <4>1, <4>4 DEF GetRow, Requests
        <5>2. QED
          BY <3>4, <4>1, <5>1 DEF Unwritten
      <4>5. QED
        BY <4>3, <4>4
    <3>9. CASE ReadPreviousPlan(h)
      <4>1. /\ UNCHANGED <<elapsed, log, handled, orderly, bill>> /\ \A p \in Procs \ {h} : req'[p] = req[p]
            /\ At(h, "previousPlan") /\ req'[h].event = e /\ req'[h].cluster = req[h].cluster
            /\ req'[h].row = req[h].row /\ req'[h].pc = "upsert"
        BY <2>0, <3>9 DEF ReadPreviousPlan, Requests
      <4>2. QED
        BY <3>3, <3>4, <4>1 DEF Unwritten, CallSays
    <3>10. CASE WriteRow(h)
      <4>1. WroteRow(h) /\ At(h, "upsert") /\ UNCHANGED <<elapsed, log, handled, orderly>>
        BY <3>10, RowWritten DEF WriteRow
      <4>2. /\ req'[h].event = e /\ req'[h].cluster = req[h].cluster /\ req'[h].pc \in {"transition", "notify"}
            /\ \A p \in Procs \ {h} : req'[p] = req[p]
        BY <2>0, <3>10 DEF WriteRow, Requests
      <4>3. req[h].cluster = c
        BY <3>2, <4>1 DEF WroteRow
      <4>4. PICK row \in Row :
              /\ bill' = [bill EXCEPT ![c] = row]
              /\ row.plan = recordedPlan(h) /\ row.status = recordedStatus(e)
              /\ row.sub = IF e.type = "past_due" THEN req[h].row.sub ELSE e.sub
        BY <4>1, <4>3 DEF WroteRow
      <4>5. ASSUME c \in orderly
            PROVE  /\ row.sub = e.sub
                   /\ [plan |-> row.plan, status |-> row.status] = shouldSay(e)
        <5>1. /\ StatusFits(e) /\ (e.type \notin {"created", "updated"} => req[h].row = bill[c])
              /\ e.type \notin {"created", "updated"} => bill[c].sub = e.sub /\ bill[c].plan = e.plan
          BY <3>3, <4>1, <4>5 DEF CallSays, Unwritten
        <5>2. row.sub = e.sub
          BY <4>4, <5>1
        <5>3. e.type \in Types
          BY <3>2 DEF Events
        <5>4. row.plan = shouldSay(e).plan
          BY <4>4, <5>1, <5>3 DEF recordedPlan, shouldSay, Types
        <5>5. row.status = shouldSay(e).status
          BY <4>4, <5>1, <5>3 DEF recordedStatus, shouldSay, Types, StatusFits
        <5>6. shouldSay(e) = [plan |-> shouldSay(e).plan, status |-> shouldSay(e).status]
          BY <5>3 DEF shouldSay, Types
        <5>7. QED
          BY <5>2, <5>4, <5>5, <5>6
      <4>6. bill'[c] = row /\ \A d \in Clusters \ {c} : bill'[d] = bill[d]
        BY <2>0, <4>4
      <4>7. ASSUME c \in orderly
            PROVE  CallSays(h, c)'
        <5>1. n > 0 /\ e = log[c][n] /\ n \in Nat
          BY <3>3, <4>7
        <5>2. Says(c, handled[c])'
          BY <4>1, <4>5, <4>6, <4>7, <5>1 DEF Says
        <5>3. QED
          BY <4>1, <4>2, <5>1, <5>2 DEF CallSays, Unwritten
      <4>8. QED
        BY <2>2, <3>1, <4>1, <4>2, <4>3, <4>6, <4>7, HookOrderly
    <3>11. CASE Notify(h)
      <4>1. /\ UNCHANGED <<elapsed, log, handled, orderly, bill>> /\ \A p \in Procs \ {h} : req'[p] = req[p]
            /\ At(h, "notify") /\ req'[h] = Idle
        BY <2>0, <3>11 DEF Notify
      <4>2. QED
        BY <3>3, <3>4, <4>1 DEF CallSays, Unwritten
    <3>12. CASE ReleasePool(h) \/ ReleaseDedicated(h) \/ AssignPool(h) \/ TransitionToSharedPool(h)
      <4>1. PICK pc \in {"releaseDedicated", "assignPool", "notify"} :
              /\ req' = [req EXCEPT ![h].pc = pc] /\ req[h].pc \in {"transition", "releaseDedicated", "assignPool"}
              /\ UNCHANGED <<elapsed, log, handled, orderly, bill>>
        BY <3>12 DEF ReleasePool, ReleaseDedicated, AssignPool, TransitionToSharedPool
      <4>2. /\ req'[h].event = e /\ req'[h].cluster = req[h].cluster /\ req'[h].pc = pc
            /\ \A p \in Procs \ {h} : req'[p] = req[p]
        BY <2>0, <4>1 DEF Requests
      <4>3. QED
        BY <3>4, <4>1, <4>2 DEF Unwritten
    <3>13. QED
      BY <2>2, <3>5, <3>6, <3>7, <3>8, <3>9, <3>10, <3>11, <3>12 DEF Hook, Deliver
  <2>3. ASSUME NEW d \in Doctors, Doctor(d)
        PROVE  InOrder'
    <3>1. /\ UNCHANGED <<bill, log, handled, elapsed>> /\ orderly' \subseteq orderly
          /\ \A p \in Procs \ {d} : req'[p] = req[p]
      BY <2>3, <2>0 DEF Doctor, DoctorLists, DoctorReadsPlan, DoctorAllocates, DoctorSpawns
    <3>2. req[d].event = NoEvent /\ req'[d].event = NoEvent
      <4>1. req[d].event = NoEvent
        BY <2>0 DEF DoctorOK
      <4>2. req'[d].event \in {req[d].event, Idle.event}
        <5>1. CASE DoctorLists(d)
          BY <5>1, <2>0 DEF DoctorLists, Idle
        <5>2. CASE DoctorReadsPlan(d)
          <6>1. CASE req[d].todo = {}
            BY <5>2, <6>1, <2>0 DEF DoctorReadsPlan
          <6>2. CASE req[d].todo # {}
            <7>1. PICK b \in req[d].todo :
                    req' = [req EXCEPT ![d].todo = @ \ {b}, ![d].cluster = b, ![d].pc = "allocate",
                                       ![d].to = effectivePlan(bill[b], elapsed)]
              BY <5>2, <6>2 DEF DoctorReadsPlan
            <7>2. QED
              BY <2>0, <7>1 DEF Requests
          <6>3. QED
            BY <6>1, <6>2
        <5>3. CASE DoctorAllocates(d) \/ DoctorSpawns(d)
          BY <5>3, <2>0 DEF DoctorAllocates, DoctorSpawns, Requests
        <5>4. QED
          BY <2>3, <5>1, <5>2, <5>3 DEF Doctor
      <4>3. QED
        BY <4>1, <4>2 DEF Idle
    <3>3. ASSUME NEW c \in orderly'
          PROVE  /\ Busy(d, c)' => Busy(d, c) \/ \A p \in Procs : ~Busy(p, c)
      <4>1. CASE DoctorReadsPlan(d)
        <5>1. CASE req[d].todo = {}
          BY <2>0, <3>1, <3>3, <4>1, <5>1 DEF DoctorReadsPlan, Busy, Idle, NoEvent, Event
        <5>2. CASE req[d].todo # {}
          <6>1. PICK b \in req[d].todo :
                  /\ req' = [req EXCEPT ![d].todo = @ \ {b}, ![d].cluster = b, ![d].pc = "allocate",
                                        ![d].to = effectivePlan(bill[b], elapsed)]
                  /\ orderly' = IF pool[b] # None \/ busyWith(b) THEN orderly \ {b} ELSE orderly
            BY <4>1, <5>2 DEF DoctorReadsPlan
          <6>a. req'[d].cluster = b
            BY <2>0, <6>1 DEF Requests
          <6>2. Busy(d, c)' => c = b
            BY <3>2, <6>a DEF Busy, NoEvent, Event
          <6>3. QED
            BY <3>3, <6>1, <6>2 DEF busyWith, Busy
        <5>3. QED
          BY <5>1, <5>2
      <4>2. CASE ~DoctorReadsPlan(d)
        <5>1. req'[d].cluster \in {None, req[d].cluster}
          <6>1. CASE DoctorLists(d)
            BY <6>1, <2>0 DEF DoctorLists, Idle
          <6>2. CASE DoctorAllocates(d) \/ DoctorSpawns(d)
            BY <6>2, <2>0 DEF DoctorAllocates, DoctorSpawns, Requests
          <6>3. QED
            BY <2>3, <4>2, <6>1, <6>2 DEF Doctor
        <5>2. QED
          BY <2>0, <3>1, <3>2, <3>3, <5>1 DEF Busy
      <4>3. QED
        BY <4>1, <4>2
    <3>4. ASSUME NEW c \in orderly'
          PROVE  OrderlyAt(c)'
      <4>1. c \in Clusters /\ OrderlyAt(c)
        BY <2>0, <3>1, <3>4 DEF InOrder
      <4>2. \A p \in Procs \ {d} : Busy(p, c)' <=> Busy(p, c)
        BY <3>1 DEF Busy
      <4>3. \A p, q \in Procs : Busy(p, c)' /\ Busy(q, c)' => p = q
        BY <2>0, <3>3, <3>4, <4>1, <4>2 DEF OrderlyAt
      <4>4. \A h \in Hooks : Busy(h, c)' => CallSays(h, c)'
        BY <2>0, <3>1, <4>1, <4>2 DEF OrderlyAt, CallSays, Says
      <4>5. (\A h \in Hooks : ~Busy(h, c)') => Says(c, handled[c])'
        BY <2>0, <3>1, <4>1, <4>2 DEF OrderlyAt, Says
      <4>6. QED
        BY <3>1, <4>1, <4>3, <4>4, <4>5 DEF OrderlyAt
    <3>5. QED
      BY <3>4 DEF InOrder
  <2>4. ASSUME NEW s \in Subs, Provider(s)
        PROVE  InOrder'
    <3>1. /\ UNCHANGED <<bill, req, handled>> /\ orderly' \subseteq orderly
          /\ \A c \in Clusters : \A i \in DOMAIN log[c] : log'[c][i] = log[c][i]
          /\ \A c \in orderly' : \A t \in elapsed' : Buyer[t] # c
      <4>1. UNCHANGED handled /\ \/ UNCHANGED <<elapsed, orderly>>
                                 \/ elapsed' = elapsed \cup {s} /\ orderly' = orderly \ {Buyer[s]}
        BY <2>4 DEF Provider, Subscribe, ChangePlan, Cancel, Uncancel, FailPayment,
           RetryPayment,
                    Revoke, PeriodEnds, Emit
      <4>2. QED
        BY <2>4, <4>1, LogGrows DEF InOrder, OrderlyAt
    <3>2. ASSUME NEW c \in orderly'
          PROVE  OrderlyAt(c)'
      <4>1. c \in Clusters /\ OrderlyAt(c) /\ handled[c] \in Nat /\ handled[c] <= Len(log[c]) /\ log[c] \in Seq(Events)
        BY <2>0, <3>1, <3>2 DEF InOrder, Chained, Typed, TypesOK
      <4>2. /\ handled[c] > 0 => handled[c] \in DOMAIN log[c]
            /\ handled[c] > 1 => handled[c] - 1 \in DOMAIN log[c]
        BY <4>1
      <4>3. \A p \in Procs : Busy(p, c)' <=> Busy(p, c)
        BY <3>1 DEF Busy
      <4>4. QED
        BY <2>0, <3>1, <3>2, <4>1, <4>2, <4>3, OrderlyElsewhere
    <3>3. QED
      BY <3>2 DEF InOrder
  <2>5. CASE UNCHANGED vars
    BY <2>5 DEF vars, InOrder, OrderlyAt, CallSays, Says, Busy
  <2>6. \A h \in Hooks : Hook(h) => ~At(h, "idle") \/ \E c \in Clusters : \E i \in 1..mix.events[c] : Deliver(h, c, i)
    BY DEF Hook, Resolve, ResolveByCustomer, FindRow, GetRow, ReadPreviousPlan, WriteRow,
           Notify, ReleasePool, ReleaseDedicated, AssignPool, TransitionToSharedPool
  <2>7. QED
    BY <2>1, <2>2, <2>3, <2>4, <2>5, <2>6 DEF Next
<1>3. QED
  BY <1>1, <1>2, Typing, OwnInvariant, PTL DEF Spec

(***************************************************************************)
(* When the events of a cluster come in order and one at a time, its row   *)
(* says what the last one did, although most handlers take the plan from   *)
(* the row and the cluster from the subscription the row names.            *)
(***************************************************************************)
THEOREM RecordedOrderly == Spec => []RecordedInOrder
<1> USE BillingAssumption
<1>1. Typed /\ InOrder => RecordedInOrder
  <2> SUFFICES ASSUME Typed, InOrder, NEW c \in Clusters, quiet(c), handled[c] > 0
               PROVE  LET e == log[c][handled[c]] IN
                      bill[c] # NoRow /\ [plan |-> bill[c].plan, status |-> bill[c].status] = shouldSay(e)
    BY DEF RecordedInOrder
  <2>1. c \in orderly /\ \A h \in Hooks : ~Busy(h, c)
    BY DEF quiet, busyWith, Busy, Procs
  <2>2. Says(c, handled[c]) /\ handled[c] # 0
    <3>1. c \in Clusters /\ handled[c] \in Nat
      BY <2>1 DEF Typed, TypesOK
    <3>2. QED
      BY <2>1, <3>1 DEF InOrder, OrderlyAt
  <2>3. QED
    BY <2>2 DEF Says, Row, NoRow
<1>2. QED
  BY <1>1, Typing, OrderInvariant, PTL

-----------------------------------------------------------------------------
\* The cluster is on no pool instance, or on one of the tier it is entitled to.
Fits(c) == pool[c] # None => pool[c] = effectivePlan(bill[c], elapsed)

\* What transitionPlan has yet to do for the plan its call has written.
CallPlaces(h, c) ==
  /\ req[h].pc \in Unwritten \cup {"notify", "releaseDedicated"} => Fits(c)
  /\ At(h, "upsert") /\ req[h].event.type \notin {"canceled", "past_due"} =>
       req[h].from = effectivePlan(bill[c], elapsed)
  /\ At(h, "transition") =>
       /\ req[h].from # req[h].to /\ effectivePlan(bill[c], elapsed) = req[h].to
       /\ pool[c] # None => pool[c] = req[h].from
  /\ At(h, "assignPool") => pool[c] = None /\ effectivePlan(bill[c], elapsed) = req[h].to

PlacedAt(c) ==
  /\ (\A h \in Hooks : ~Busy(h, c)) => Fits(c)
  /\ \A h \in Hooks : Busy(h, c) => CallPlaces(h, c)
  /\ \A d \in Doctors : req[d].cluster = c =>
       pool[c] = None /\ req[d].to = effectivePlan(bill[c], elapsed)
Placed == \A c \in orderly : PlacedAt(c)

\* The period of an orderly cluster has not ended, so that its plan is its row's.
LEMMA OrderlyPlan ==
  ASSUME Typed, Own, InOrder, NEW c \in orderly
  PROVE  effectivePlan(bill[c], elapsed) = IF bill[c] = NoRow THEN "hobby" ELSE bill[c].plan
<1> USE BillingAssumption
<1>1. /\ bill[c] \in Rows /\ OwnRow(c, bill[c], log) /\ \A s \in elapsed : Buyer[s] # c
  BY DEF Typed, TypesOK, Own, InOrder, OrderlyAt
<1>2. CASE bill[c] = NoRow
  BY <1>2 DEF effectivePlan
<1>3. CASE bill[c] # NoRow
  <2>1. bill[c].end \notin elapsed \cup {None}
    BY <1>1, <1>3 DEF OwnRow, Rows, Row
  <2>2. QED
    BY <1>3, <2>1 DEF effectivePlan
<1>4. QED
  BY <1>2, <1>3

LEMMA OrderlyPlanNext ==
  ASSUME Typed', Own', InOrder', NEW c \in orderly'
  PROVE  effectivePlan(bill[c], elapsed)' = IF bill'[c] = NoRow THEN "hobby" ELSE bill'[c].plan
<1> USE BillingAssumption
<1>1. /\ bill'[c] \in Rows /\ OwnRow(c, bill'[c], log') /\ \A s \in elapsed' : Buyer[s] # c
  BY DEF Typed, TypesOK, Own, InOrder, OrderlyAt
<1>2. CASE bill'[c] = NoRow
  BY <1>2 DEF effectivePlan
<1>3. CASE bill'[c] # NoRow
  <2>1. bill'[c].end \notin elapsed' \cup {None}
    BY <1>1, <1>3 DEF OwnRow, Rows, Row
  <2>2. QED
    BY <1>3, <2>1 DEF effectivePlan
<1>4. QED
  BY <1>2, <1>3

\* A step that touches neither the calls, the row nor the place of an orderly
\* cluster.
LEMMA PlacedElsewhere ==
  ASSUME NEW c \in Clusters, PlacedAt(c),
         \A p \in Procs : Busy(p, c)' => Busy(p, c) /\ req'[p] = req[p],
         \A h \in Hooks : Busy(h, c) => Busy(h, c)',
         effectivePlan(bill[c], elapsed)' = effectivePlan(bill[c], elapsed), pool'[c] = pool[c]
  PROVE  PlacedAt(c)'
<1>1. Fits(c) => Fits(c)'
  BY DEF Fits
<1>2. ASSUME NEW h \in Hooks, Busy(h, c)'
      PROVE  CallPlaces(h, c)'
  <2>1. CallPlaces(h, c) /\ req'[h] = req[h]
    BY <1>2 DEF PlacedAt, Procs
  <2>2. QED
    BY <1>1, <2>1 DEF CallPlaces, At
<1>3. ASSUME NEW d \in Doctors, req'[d].cluster = c
      PROVE  pool'[c] = None /\ req'[d].to = effectivePlan(bill[c], elapsed)'
  <2>1. req'[d] = req[d]
    BY <1>3 DEF Busy, Procs
  <2>2. QED
    BY <1>3, <2>1 DEF PlacedAt
<1>4. QED
  BY <1>1, <1>2, <1>3 DEF PlacedAt

\* A step of a call of an event.
LEMMA HookPlaces ==
  ASSUME Typed, Own, InOrder, Placed, NEW h \in Hooks, NEW c \in Clusters,
         ~At(h, "idle"), c = Buyer[req[h].event.sub],
         \A p \in Procs \ {h} : req'[p] = req[p],
         UNCHANGED <<elapsed, orderly>>,
         \A d \in Clusters \ {c} : bill'[d] = bill[d] /\ pool'[d] = pool[d],
         \/ req'[h] = Idle /\ (c \in orderly => Fits(c)')
         \/ /\ req'[h].event = req[h].event /\ req'[h].cluster \in {req[h].cluster, c, None}
            /\ c \in orderly => CallPlaces(h, c)'
  PROVE  Placed'
<1> USE BillingAssumption
<1>1. req[h].event.sub \in Subs /\ req[h].cluster \in {c, None} /\ orderly \subseteq Clusters
  BY OwnCluster DEF Typed, TypesOK, Own, OwnCall, At, Events
<1>2. Busy(h, c) /\ \A d \in Clusters \ {c} : ~Busy(h, d)
  BY <1>1 DEF Busy
<1>3. \A d \in Clusters \ {c} : ~Busy(h, d)'
  BY <1>1 DEF Busy, Idle, NoEvent, Event
<1>4. \A p \in Procs \ {h}, d \in Clusters : Busy(p, d)' <=> Busy(p, d)
  BY DEF Busy
<1>5. ASSUME NEW d \in orderly \ {c}
      PROVE  PlacedAt(d)'
  <2>1. effectivePlan(bill[d], elapsed)' = effectivePlan(bill[d], elapsed)
    BY <1>1, <1>5
  <2>2. PlacedAt(d) /\ d \in Clusters /\ pool'[d] = pool[d]
    BY <1>1, <1>5 DEF Placed
  <2>3. /\ \A p \in Procs : Busy(p, d)' => Busy(p, d) /\ req'[p] = req[p]
        /\ \A g \in Hooks : Busy(g, d) => Busy(g, d)'
    BY <1>2, <1>3, <1>4, <2>2, <1>5 DEF Procs
  <2>4. QED
    BY <2>1, <2>2, <2>3, PlacedElsewhere
<1>6. ASSUME c \in orderly
      PROVE  PlacedAt(c)'
  <2>1. \A p \in Procs \ {h} : ~Busy(p, c)
    BY <1>2, <1>6 DEF InOrder, OrderlyAt, Procs
  <2>2. \A p \in Procs \ {h} : ~Busy(p, c)'
    BY <2>1, <1>4
  <2>3. \A d \in Doctors : req'[d].cluster # c
    BY <2>2 DEF Busy, Procs
  <2>4. CASE req'[h] = Idle
    <3>1. ~Busy(h, c)'
      BY <2>4 DEF Busy, Idle, NoEvent, Event
    <3>2. Fits(c)' \/ CallPlaces(h, c)'
      BY <1>6
    <3>3. CASE Fits(c)'
      BY <2>2, <2>3, <3>1, <3>3 DEF PlacedAt, Procs
    <3>4. CASE ~Fits(c)'
      <4>1. req'[h].event = req[h].event
        BY <1>6, <3>4
      <4>2. QED
        BY <1>1, <3>1, <4>1 DEF Busy
    <3>5. QED
      BY <3>3, <3>4
  <2>5. CASE req'[h] # Idle
    <3>1. Busy(h, c)' /\ CallPlaces(h, c)'
      BY <1>1, <1>6, <2>5 DEF Busy
    <3>2. QED
      BY <2>2, <2>3, <3>1 DEF PlacedAt, Procs
  <2>6. QED
    BY <2>4, <2>5
<1>7. QED
  BY <1>5, <1>6 DEF Placed

(***************************************************************************)
(* The invariant of PlacedByPlan: until a call has moved an orderly        *)
(* cluster, it is on an instance of the plan the row said before.          *)
(***************************************************************************)
THEOREM PlaceInvariant == Spec => []Placed
<1> USE BillingAssumption
<1>1. Init => Placed
  BY DEF Init, Placed, PlacedAt, Fits, Busy, Procs, Idle, NoEvent, Event
<1>2. Typed /\ Typed' /\ Own /\ Own' /\ Chained /\ InOrder /\ InOrder' /\ Placed /\ [Next]_vars
      => Placed'
  <2> SUFFICES ASSUME Typed, Own, Chained, InOrder, Placed, Typed', Own', InOrder', [Next]_vars
               PROVE  Placed'
    OBVIOUS
  <2> USE DEF At, Goto, Return, Read, provider, placement
  <2>0. /\ req \in [Procs -> Requests] /\ bill \in [Clusters -> Rows] /\ orderly \subseteq Clusters
        /\ \A h \in Hooks : req[h] \in Requests /\ HookOK(req[h], bill) /\ h \in Procs
        /\ \A d \in Doctors : req[d] \in Requests /\ DoctorOK(req[d]) /\ d \in Procs \ Hooks
        /\ pool \in [Clusters -> Tiers \cup {None}]
    BY DEF Typed, TypesOK, LocalsOK, Procs
  <2>1. ASSUME NEW h \in Hooks, NEW c \in Clusters, NEW i \in 1..mix.events[c], Deliver(h, c, i)
        PROVE  Placed'
    <3>1. /\ log[c][i] \in Events /\ Buyer[log[c][i].sub] = c
          /\ req' = [req EXCEPT ![h] = [Idle EXCEPT !.event = log[c][i], !.pc = firstStep(log[c][i].type)]]
          /\ UNCHANGED <<bill, elapsed, pool>> /\ At(h, "idle")
      BY <2>1 DEF Deliver, Typed, TypesOK, LogOK
    <3>2. /\ req'[h].event = log[c][i] /\ req'[h].cluster = None /\ req'[h].pc \in {"resolve", "find"}
          /\ req[h] = Idle /\ \A p \in Procs \ {h} : req'[p] = req[p]
      BY <2>0, <3>1 DEF Idle, firstStep, HookOK
    <3>3. /\ \A d \in Clusters : ~Busy(h, d) /\ (Busy(h, d)' <=> d = c)
          /\ \A p \in Procs \ {h}, d \in Clusters : Busy(p, d)' <=> Busy(p, d)
      BY <3>1, <3>2 DEF Busy, Idle, NoEvent, Event, Events
    <3>4. orderly' \subseteq orderly
      BY <2>0, <2>1 DEF Deliver
    <3>5. ASSUME NEW d \in orderly' \ {c}
          PROVE  PlacedAt(d)'
      <4>1. d \in Clusters /\ d # c /\ PlacedAt(d)
        BY <2>0, <3>4, <3>5 DEF Placed
      <4>2. \A p \in Procs : Busy(p, d)' => p # h /\ Busy(p, d) /\ req'[p] = req[p]
        BY <3>2, <3>3, <4>1
      <4>3. \A g \in Hooks : Busy(g, d) => Busy(g, d)'
        BY <2>0, <3>3, <4>1
      <4>4. QED
        BY <3>1, <4>1, <4>2, <4>3, PlacedElsewhere
    <3>6. ASSUME c \in orderly'
          PROVE  PlacedAt(c)'
      <4>1. ~busyWith(c) /\ c \in orderly
        BY <2>0, <2>1, <3>6 DEF Deliver
      <4>2. \A p \in Procs : ~Busy(p, c)
        BY <4>1 DEF busyWith, Busy
      <4>3. Fits(c)'
        BY <2>0, <3>1, <4>1, <4>2 DEF Placed, PlacedAt, Fits
      <4>4. CallPlaces(h, c)'
        BY <3>2, <4>3 DEF CallPlaces
      <4>5. \A p \in Procs \ {h} : ~Busy(p, c)'
        BY <3>3, <4>2
      <4>6. \A d \in Doctors : req'[d].cluster # c
        BY <2>0, <4>5 DEF Busy
      <4>7. QED
        BY <2>0, <4>3, <4>4, <4>5, <4>6 DEF PlacedAt
    <3>7. QED
      BY <3>5, <3>6 DEF Placed
  <2>2. ASSUME NEW h \in Hooks, Hook(h), ~At(h, "idle")
        PROVE  Placed'
    <3>1. PICK c \in Clusters : c = Buyer[req[h].event.sub]
      BY <2>2, OwnCluster
    <3> DEFINE e == req[h].event
               eff == effectivePlan(bill[c], elapsed)
    <3>2. /\ e \in Events /\ (req[h].cluster \in Clusters => req[h].cluster = c) /\ req[h].cluster \in {c, None}
          /\ rowsOf(e.sub) \subseteq {c} /\ Busy(h, c)
      BY <2>2, <3>1, OwnCluster DEF Own, OwnCall, Events, Busy
    <3>3. c \in orderly => CallPlaces(h, c) /\ CallSays(h, c)
      BY <3>2 DEF Placed, PlacedAt, InOrder, OrderlyAt
    \* A call that moves nothing, and has written the row or not, still fits.
    <3>4. ASSUME UNCHANGED <<elapsed, orderly, bill, pool>>,
                 \A p \in Procs \ {h} : req'[p] = req[p],
                 req[h].pc \in Unwritten \cup {"notify", "releaseDedicated"},
                 \/ req'[h] = Idle
                 \/ /\ req'[h].event = e /\ req'[h].cluster \in {req[h].cluster, c}
                    /\ req'[h].pc \in Unwritten \cup {"notify"}
                    /\ req'[h].pc = "upsert" /\ e.type \notin {"canceled", "past_due"} => req'[h].from = eff
          PROVE  Placed'
      <4>1. c \in orderly => Fits(c) /\ Fits(c)'
        BY <3>3, <3>4 DEF CallPlaces, Fits
      <4>2. CASE req'[h] = Idle
        BY <2>2, <3>1, <3>4, <4>1, <4>2, HookPlaces
      <4>3. CASE req'[h] # Idle
        <5>1. c \in orderly => CallPlaces(h, c)'
          BY <3>4, <4>1, <4>3 DEF CallPlaces, Unwritten
        <5>2. QED
          BY <2>2, <3>1, <3>4, <4>3, <5>1, HookPlaces
      <4>4. QED
        BY <4>2, <4>3
    <3>5. CASE Resolve(h) \/ ResolveByCustomer(h)
      <4>1. /\ UNCHANGED <<elapsed, orderly, bill, pool>> /\ \A p \in Procs \ {h} : req'[p] = req[p]
            /\ req[h].pc \in {"resolve", "customer"}
        BY <2>0, <3>5 DEF Resolve, ResolveByCustomer
      <4>2. \/ \E pc \in {"get", "previousPlan"} : req' = [req EXCEPT ![h].cluster = c, ![h].pc = pc]
            \/ Return(h) \/ Goto(h, "customer")
        BY <3>1, <3>2, <3>5 DEF Resolve, ResolveByCustomer, After
      <4>3. \/ req'[h] = Idle
            \/ /\ req'[h].event = e /\ req'[h].cluster \in {req[h].cluster, c}
               /\ req'[h].pc \in {"get", "previousPlan", "customer"}
        BY <2>0, <4>2 DEF Requests
      <4>4. QED
        BY <3>4, <4>1, <4>3 DEF Unwritten
    <3>6. CASE FindRow(h)
      <4>1. /\ UNCHANGED <<elapsed, orderly, bill, pool>> /\ \A p \in Procs \ {h} : req'[p] = req[p]
            /\ At(h, "find")
        BY <2>0, <3>6 DEF FindRow
      <4>2. \/ \E pc \in {"upsert", "previousPlan"} :
                 /\ req' = [req EXCEPT ![h].cluster = c, ![h].row = bill[c], ![h].pc = pc]
                 /\ pc = "upsert" => e.type = "canceled"
            \/ Return(h)
        BY <3>2, <3>6 DEF FindRow
      <4>3. \/ req'[h] = Idle
            \/ /\ req'[h].event = e /\ req'[h].cluster = c /\ req'[h].pc \in {"upsert", "previousPlan"}
               /\ req'[h].pc = "upsert" => e.type = "canceled"
        BY <2>0, <4>2 DEF Requests
      <4>4. QED
        BY <3>4, <4>1, <4>3 DEF Unwritten
    <3>7. CASE GetRow(h)
      <4>1. /\ UNCHANGED <<elapsed, orderly, bill, pool>> /\ \A p \in Procs \ {h} : req'[p] = req[p]
            /\ At(h, "get") /\ e.type = "past_due"
        BY <2>0, <3>7 DEF GetRow, HookOK
      <4>2. req' = [req EXCEPT ![h].row = bill[req[h].cluster], ![h].pc = "upsert"] \/ Return(h)
        BY <3>7 DEF GetRow
      <4>3. \/ req'[h] = Idle
            \/ req'[h].event = e /\ req'[h].cluster = req[h].cluster /\ req'[h].pc = "upsert"
        BY <2>0, <4>2 DEF Requests
      <4>4. QED
        BY <3>4, <4>1, <4>3 DEF Unwritten
    <3>8. CASE ReadPreviousPlan(h)
      <4>1. /\ UNCHANGED <<elapsed, orderly, bill, pool>> /\ \A p \in Procs \ {h} : req'[p] = req[p]
            /\ At(h, "previousPlan") /\ req[h].cluster = c
            /\ req' = [req EXCEPT ![h].from = effectivePlan(bill[req[h].cluster], elapsed), ![h].pc = "upsert"]
        BY <2>0, <3>2, <3>8 DEF ReadPreviousPlan, HookOK
      <4>2. /\ req'[h].event = e /\ req'[h].cluster = req[h].cluster /\ req'[h].pc = "upsert"
            /\ req'[h].from = eff
        BY <2>0, <4>1 DEF Requests
      <4>3. QED
        BY <3>4, <4>1, <4>2 DEF Unwritten
    <3>9. CASE WriteRow(h)
      <4> DEFINE plan == recordedPlan(h)
                 moves == e.type \notin {"canceled", "past_due"} /\ req[h].from # plan
      <4>1. WroteRow(h) /\ At(h, "upsert") /\ UNCHANGED <<elapsed, orderly, pool>>
        BY <3>9, RowWritten DEF WriteRow
      <4>2. /\ req'[h].event = e /\ req'[h].cluster = req[h].cluster
            /\ req'[h].pc = (IF moves THEN "transition" ELSE "notify")
            /\ req'[h].from = req[h].from /\ req'[h].to = plan
            /\ \A p \in Procs \ {h} : req'[p] = req[p]
        BY <2>0, <3>9 DEF WriteRow, Requests
      <4>3. PICK row \in Row : bill' = [bill EXCEPT ![c] = row] /\ row.plan = plan
        BY <3>2, <4>1 DEF WroteRow
      <4>4. bill'[c] = row /\ \A d \in Clusters \ {c} : bill'[d] = bill[d]
        BY <2>0, <4>3
      <4>5. c \in orderly => effectivePlan(bill[c], elapsed)' = plan
        BY <4>1, <4>3, <4>4, OrderlyPlanNext DEF Row, NoRow
      <4>6. c \in orderly /\ e.type \in {"canceled", "past_due"} => eff = plan
        BY <3>3, <4>1, OrderlyPlan DEF CallSays, recordedPlan, WroteRow, Row, NoRow
      <4>7. c \in orderly => Fits(c) /\ (e.type \notin {"canceled", "past_due"} => req[h].from = eff)
        BY <3>3, <4>1 DEF CallPlaces, Unwritten
      <4>8. ASSUME c \in orderly
            PROVE  CallPlaces(h, c)'
        <5>1. pool[c] # None => pool[c] = eff
          BY <4>7, <4>8 DEF Fits
        <5>2. CASE moves
          BY <4>1, <4>2, <4>5, <4>7, <4>8, <5>1, <5>2 DEF CallPlaces, Unwritten
        <5>3. CASE ~moves
          <6>1. eff = plan
            BY <4>6, <4>7, <4>8, <5>3
          <6>2. QED
            BY <4>1, <4>2, <4>5, <4>8, <5>1, <5>3, <6>1 DEF CallPlaces, Unwritten, Fits
        <5>4. QED
          BY <5>2, <5>3
      <4>9. QED
        BY <2>2, <3>1, <4>1, <4>2, <4>4, <4>8, HookPlaces
    <3>10. CASE Notify(h)
      BY <2>0, <3>4, <3>10 DEF Notify
    <3>11. CASE ReleaseDedicated(h)
      <4>1. /\ UNCHANGED <<elapsed, orderly, bill, pool>> /\ \A p \in Procs \ {h} : req'[p] = req[p]
            /\ At(h, "releaseDedicated")
            /\ req'[h].event = e /\ req'[h].cluster = req[h].cluster /\ req'[h].pc = "notify"
        BY <2>0, <3>11 DEF ReleaseDedicated, Requests
      <4>2. QED
        BY <3>4, <4>1
    <3>12. CASE ReleasePool(h)
      <4>1. /\ UNCHANGED <<elapsed, orderly, bill>> /\ \A p \in Procs \ {h} : req'[p] = req[p]
            /\ At(h, "transition") /\ req[h].cluster = c
            /\ pool' = [pool EXCEPT ![c] = None]
            /\ req'[h].event = e /\ req'[h].cluster = c /\ req'[h].to = req[h].to
            /\ req'[h].pc \in {"releaseDedicated", "assignPool"}
        BY ZenonT(40), <2>0, <3>2, <3>12 DEF ReleasePool, Requests, HookOK
      <4>2. pool'[c] = None /\ \A d \in Clusters \ {c} : pool'[d] = pool[d]
        BY <2>0, <4>1
      <4>3. c \in orderly => CallPlaces(h, c)'
        BY <3>3, <4>1, <4>2 DEF CallPlaces, Fits, Unwritten
      <4>4. QED
        BY <2>2, <3>1, <4>1, <4>2, <4>3, HookPlaces
    <3>13. CASE AssignPool(h)
      <4>1. /\ UNCHANGED <<elapsed, orderly, bill>> /\ \A p \in Procs \ {h} : req'[p] = req[p]
            /\ At(h, "assignPool") /\ req[h].cluster = c
            /\ pool' \in {pool, [pool EXCEPT ![c] = req[h].to]}
            /\ req'[h].event = e /\ req'[h].cluster = c /\ req'[h].pc = "notify"
        BY <2>0, <3>2, <3>13 DEF AssignPool, Requests, HookOK
      <4>2. pool'[c] \in {pool[c], req[h].to} /\ \A d \in Clusters \ {c} : pool'[d] = pool[d]
        BY <2>0, <4>1
      <4>3. c \in orderly => CallPlaces(h, c)'
        BY <3>3, <4>1, <4>2 DEF CallPlaces, Fits, Unwritten
      <4>4. QED
        BY <2>2, <3>1, <4>1, <4>2, <4>3, HookPlaces
    <3>14. CASE TransitionToSharedPool(h)
      <4>1. /\ UNCHANGED <<elapsed, orderly, bill>> /\ \A p \in Procs \ {h} : req'[p] = req[p]
            /\ At(h, "transition") /\ req[h].cluster = c /\ req[h].from = "pro"
            /\ pool' \in {pool, [pool EXCEPT ![c] = req[h].to]}
            /\ req'[h].event = e /\ req'[h].cluster = c /\ req'[h].pc = "notify"
        BY <2>0, <3>2, <3>14 DEF TransitionToSharedPool, Requests, HookOK
      <4>2. pool'[c] \in {pool[c], req[h].to} /\ \A d \in Clusters \ {c} : pool'[d] = pool[d]
        BY <2>0, <4>1
      <4>3. pool[c] # "pro"
        BY <2>0 DEF Tiers, Plans
      <4>4. c \in orderly => CallPlaces(h, c)'
        BY <3>3, <4>1, <4>2, <4>3 DEF CallPlaces, Fits, Unwritten
      <4>5. QED
        BY <2>2, <3>1, <4>1, <4>2, <4>4, HookPlaces
    <3>15. QED
      BY <2>2, <3>5, <3>6, <3>7, <3>8, <3>9, <3>10, <3>11, <3>12, <3>13, <3>14 DEF Hook, Deliver
  <2>3. ASSUME NEW d \in Doctors, Doctor(d), NEW c \in orderly'
        PROVE  PlacedAt(c)'
    <3>1. /\ UNCHANGED <<bill, elapsed>> /\ c \in orderly /\ c \in Clusters
          /\ \A p \in Procs \ {d} : req'[p] = req[p]
      BY <2>3, <2>0 DEF Doctor, DoctorLists, DoctorReadsPlan, DoctorAllocates, DoctorSpawns
    <3>2. /\ \A h \in Hooks : (Busy(h, c)' <=> Busy(h, c)) /\ req'[h] = req[h]
          /\ effectivePlan(bill[c], elapsed)' = effectivePlan(bill[c], elapsed)
          /\ PlacedAt(c)
      BY <2>0, <3>1 DEF Busy, Placed
    \* The place of a cluster that the doctor does not hold stays.
    <3>3. ASSUME pool'[c] = pool[c],
                 req'[d].cluster = c => pool[c] = None /\ req'[d].to = effectivePlan(bill[c], elapsed)
          PROVE  PlacedAt(c)'
      <4>1. Fits(c) => Fits(c)'
        BY <3>2, <3>3 DEF Fits
      <4>2. \A h \in Hooks : CallPlaces(h, c) => CallPlaces(h, c)'
        BY <3>2, <3>3, <4>1 DEF CallPlaces
      <4>3. \A f \in Doctors : req'[f].cluster = c => pool'[c] = None /\ req'[f].to = effectivePlan(bill[c], elapsed)'
        BY <2>0, <3>1, <3>2, <3>3 DEF PlacedAt
      <4>4. QED
        BY <3>2, <4>1, <4>2, <4>3 DEF PlacedAt
    <3>4. CASE DoctorLists(d)
      BY <2>0, <3>3, <3>4, <3>1 DEF DoctorLists, Idle
    <3>5. CASE DoctorReadsPlan(d)
      <4>1. CASE req[d].todo = {}
        BY <2>0, <3>1, <3>3, <3>5, <4>1 DEF DoctorReadsPlan, Idle
      <4>2. CASE req[d].todo # {}
        <5>1. PICK b \in req[d].todo :
                /\ req' = [req EXCEPT ![d].todo = @ \ {b}, ![d].cluster = b, ![d].pc = "allocate",
                                      ![d].to = effectivePlan(bill[b], elapsed)]
                /\ orderly' = IF pool[b] # None \/ busyWith(b) THEN orderly \ {b} ELSE orderly
          BY <3>5, <4>2 DEF DoctorReadsPlan
        <5>2. req'[d].cluster = b /\ req'[d].to = effectivePlan(bill[b], elapsed)
          BY <2>0, <5>1 DEF Requests
        <5>3. c = b => pool[c] = None
          BY <2>3, <5>1
        <5>4. QED
          BY <3>3, <3>5, <5>2, <5>3 DEF DoctorReadsPlan
      <4>3. QED
        BY <4>1, <4>2
    <3>6. CASE DoctorSpawns(d)
      <4>1. req'[d].cluster = None /\ pool' = pool
        BY <2>0, <3>6 DEF DoctorSpawns, Requests
      <4>2. QED
        BY <3>1, <3>3, <4>1
    <3>7. CASE DoctorAllocates(d)
      <4> DEFINE b == req[d].cluster
      <4>1. b \in Clusters
        BY <2>0, <3>7 DEF DoctorAllocates, DoctorOK
      <4>2. CASE c # b
        <5>1. pool'[c] = pool[c] /\ req'[d].cluster # c
          BY <2>0, <3>1, <3>7, <4>1, <4>2 DEF DoctorAllocates, Requests
        <5>2. QED
          BY <3>3, <5>1
      <4>3. CASE c = b
        <5>1. pool[c] = None /\ req[d].to = effectivePlan(bill[c], elapsed)
          BY <3>2, <4>3 DEF PlacedAt
        <5>2. CASE req[d].to = "pro"
          <6>1. pool'[c] = None /\ req'[d].to = req[d].to
            BY <2>0, <3>1, <3>7, <4>3, <5>2 DEF DoctorAllocates, Requests
          <6>2. QED
            BY <3>3, <5>1, <6>1
        <5>3. CASE req[d].to # "pro"
          <6>1. pool'[c] \in {None, req[d].to} /\ req'[d].cluster = None
            BY <2>0, <3>1, <3>7, <4>3, <5>1, <5>3 DEF DoctorAllocates, Requests
          <6>2. \A p \in Procs \ {d} : ~Busy(p, c)
            BY <2>0, <3>1, <4>3 DEF InOrder, OrderlyAt, Busy
          <6>3. \A p \in Procs \ {d} : ~Busy(p, c)'
            BY <3>1, <6>2 DEF Busy
          <6>4. Fits(c)'
            BY <3>2, <5>1, <6>1 DEF Fits
          <6>5. \A f \in Doctors : req'[f].cluster # c
            BY <2>0, <3>1, <6>1, <6>3 DEF Busy
          <6>6. QED
            BY <2>0, <6>3, <6>4, <6>5 DEF PlacedAt
        <5>4. QED
          BY <5>2, <5>3
      <4>4. QED
        BY <4>2, <4>3
    <3>8. QED
      BY <2>3, <3>4, <3>5, <3>6, <3>7 DEF Doctor
  <2>4. ASSUME NEW s \in Subs, Provider(s), NEW c \in orderly'
        PROVE  PlacedAt(c)'
    <3>1. /\ UNCHANGED <<bill, req, pool>> /\ c \in orderly
      BY <2>4 DEF Provider, Subscribe, ChangePlan, Cancel, Uncancel, FailPayment, RetryPayment,
                  Revoke, PeriodEnds, Emit
    <3>2. effectivePlan(bill[c], elapsed)' = effectivePlan(bill[c], elapsed)
      BY <2>4, <3>1, OrderlyPlan, OrderlyPlanNext
    <3>3. \A p \in Procs : Busy(p, c)' <=> Busy(p, c)
      BY <3>1 DEF Busy
    <3>4. QED
      BY <2>0, <3>1, <3>2, <3>3, PlacedElsewhere DEF Placed
  <2>5. CASE UNCHANGED vars
    BY <2>5 DEF vars, Placed, PlacedAt, CallPlaces, Fits, Busy
  <2>6. \A h \in Hooks : Hook(h) => ~At(h, "idle") \/ \E c \in Clusters : \E i \in 1..mix.events[c] : Deliver(h, c, i)
    BY DEF Hook, Resolve, ResolveByCustomer, FindRow, GetRow, ReadPreviousPlan, WriteRow,
           Notify, ReleasePool, ReleaseDedicated, AssignPool, TransitionToSharedPool
  <2>7. QED
    BY <2>1, <2>2, <2>3, <2>4, <2>5, <2>6 DEF Next, Placed
<1>3. QED
  BY <1>1, <1>2, Typing, OwnInvariant, OrderInvariant, PTL DEF Spec

(***************************************************************************)
(* When its events come in order and one at a time, a cluster that is on a *)
(* pool instance is on one of the tier it is entitled to.                  *)
(***************************************************************************)
THEOREM PlacedOrderly == Spec => []PlacedByPlan
<1>1. Placed => PlacedByPlan
  BY DEF Placed, PlacedAt, PlacedByPlan, Fits, quiet, busyWith, Busy, Procs
<1>2. QED
  BY <1>1, PlaceInvariant, PTL

=============================================================================
