------------------------------ MODULE Clusters ------------------------------
(***************************************************************************)
(* Users, the clusters they share, and the copy of their memberships that  *)
(* their sessions carry.                                                   *)
(*                                                                         *)
(* The memberships are rows of user_clusters; every statement, batch and   *)
(* trigger on them is one step, but a handler of routes/clusters.ts checks *)
(* the caller's role, reads, writes and then refreshes the sessions of the *)
(* users it touched with an await between any two, so that other handlers  *)
(* run in between.  Only removeUsers keeps a transaction open over several *)
(* statements, at READ COMMITTED: the row it deletes stays visible, and    *)
(* locked, until it commits.  A request of this module is one run of a     *)
(* handler; the last five operations are continued in ClusterIntegrations. *)
(* A user stands for an email address: an account made again after it was  *)
(* deleted is not told from the one before.                                *)
(***************************************************************************)
EXTENDS Integers, FiniteSets

CONSTANTS
  Users,
  ClusterIds,   (* random identifiers; none is drawn twice                  *)
  Requests,     (* the requests that may be under way at once               *)
  Founder,      (* the user who owns the first cluster at the start         *)
  First,        (* ... and that cluster                                     *)
  Members,      (* the users who are viewers of it at the start             *)
  Mixes,        (* bounds of the model: each behaviour runs the operations  *)
                (* of one mix and creates clusters with the ids of it       *)
  PreviousRoles, (* the roles a previous owner may be given                  *)
  LastMonth,    (* bound of the model on the clock of the renames           *)
  None

\* ROLE_HIERARCHY.
Roles == {"invited", "viewer", "developer", "admin", "owner"}
level == [r \in Roles \cup {None} |->
            CASE r = "owner" -> 4 [] r = "admin" -> 3 [] r = "developer" -> 2
              [] r = "viewer" -> 1 [] OTHER -> 0]

Operations == {"signIn", "accept", "decline", "addUsers", "removeUsers",
               "updateRoles", "transferOwner", "rename",
               "setup", "events", "install", "callback", "notify"}

ASSUME ClustersAssumption ==
  /\ Founder \in Users /\ First \in ClusterIds
  /\ Members \subseteq Users \ {Founder}
  /\ Mixes \subseteq [ops : SUBSET Operations, ids : SUBSET ClusterIds]
  /\ PreviousRoles \subseteq {"admin", "developer", "viewer"}
  /\ LastMonth \in Nat
  /\ None \notin Users \cup ClusterIds \cup Roles

VARIABLES
  mix,        (* the bounds of this behaviour                               *)
  accounts,   (* the users with a row                                       *)
  uninitialized, (* ... whose provider is email                             *)
  role,       (* user_clusters: the role of a user in a cluster             *)
  sessions,   (* the roles the latest session of a user carries             *)
  history,    (* CLUSTER.RENAME_HISTORY, in months                          *)
  month,      (* the clock of the renames                                   *)
  req,        (* what each request does next, and its local variables       *)
  created,    (* history: the clusters that were created                    *)
  joined,     (* history: who was ever a member of which cluster            *)
  owned,      (* history: who ever owned which cluster                      *)
  raced       (* history: memberships, with their role, that were given     *)
              (* after a removal had looked and before it deletes           *)

vars == <<mix, accounts, uninitialized, role, sessions, history, month, req, created, joined, owned, raced>>
dbVars == <<accounts, uninitialized, role>>
kvVars == <<sessions, history>>
membershipVars == <<role, created, joined, owned>>

Idle == [pc |-> "idle", op |-> None, by |-> None, cluster |-> None, user |-> None,
         seen |-> None, todo |-> {}]

At(r, pc)   == req[r].pc = pc
Goto(r, pc) == req' = [req EXCEPT ![r].pc = pc]
Return(r)   == req' = [req EXCEPT ![r] = Idle]
Read(r)     == UNCHANGED <<mix, dbVars, kvVars, month, created, joined, owned, raced>>

Begin(r, op, by, c, u, pc) ==
  /\ At(r, "idle") /\ op \in mix.ops
  /\ req' = [req EXCEPT ![r] = [Idle EXCEPT !.op = op, !.by = by, !.cluster = c,
                                            !.user = u, !.pc = pc]]
  /\ Read(r)

\* A request needs a session, which only says who is asking: the permission
\* middleware reads the role from the database.
BeginAs(r, op, by, c, u, pc) == sessions[by] # None /\ Begin(r, op, by, c, u, pc)

owners(c) == {u \in Users : role[c][u] = "owner"}
\* Writes the memberships and notes them in the history.
SetRoles(new) ==
  LET now(rs) == {p \in Users \X ClusterIds : new[p[2]][p[1]] \in rs} IN
  /\ role' = new
  /\ joined' = joined \cup now(Roles \ {"invited"})
  /\ owned' = owned \cup now({"owner"})
  /\ created' = created \cup {p[2] : p \in now({"owner"})}

\* The row of a user in a cluster, while another removal is about to commit its
\* end: whoever writes it waits.
Locked(r, c, u) ==
  \E q \in Requests \ {r} : /\ req[q].pc \in {"findUnused", "dropAccount"}
                            /\ req[q].cluster = c /\ u \in req[q].todo

\* A membership given now that a removal which has looked already may delete.
Endangered(u, c) ==
  \E q \in Requests : /\ req[q].user = u
                      /\ \/ At(q, "dropAccount")
                         \/ At(q, "removeRow") /\ req[q].cluster = c
NoteRace(u, c, as) ==
  raced' = IF Endangered(u, c) THEN raced \cup {<<u, c, as>>} ELSE raced

(* --- Permissions --------------------------------------------------------- *)

minRole(op) == CASE op \in {"addUsers", "removeUsers", "updateRoles"} -> "admin"
                 [] op \in {"transferOwner", "rename"} -> "owner"
                 [] op \in {"setup", "events", "install"} -> "developer"
hasMinRole(u, c, min) == level[role[c][u]] >= level[min]

next(op) == CASE op = "addUsers"      -> "addUsers"
              [] op = "removeUsers"   -> "removeCheck"
              [] op = "updateRoles"   -> "currentUsers"
              [] op = "transferOwner" -> "getOwner"
              [] op = "rename"        -> "recordRename"
              [] op = "setup"         -> "tryAccess"
              [] op = "events"        -> "getSettings"
              [] op = "install"       -> "setPending"

\* requireClusterDeveloper, requireClusterAdmin, requireClusterOwner.
RequireRole(r) ==
  /\ At(r, "permission")
  /\ IF hasMinRole(req[r].by, req[r].cluster, minRole(req[r].op))
       THEN Goto(r, next(req[r].op)) ELSE Return(r)
  /\ Read(r)

(* --- Signing in: the user, the cluster and the session -------------------- *)

\* findOrCreateEmailUser, loginWithOAuth: the provider of the row is the one
\* of this login.
SignIn(r, u) == Begin(r, "signIn", u, None, u, "upsertUser")
UpsertUser(r) ==
  LET u == req[r].user IN
  /\ At(r, "upsertUser")
  /\ accounts' = accounts \cup {u}
  /\ \/ uninitialized' = uninitialized \ {u}
     \/ uninitialized' = IF u \in accounts THEN uninitialized ELSE uninitialized \cup {u}
  /\ Goto(r, "findOwned")
  /\ UNCHANGED <<mix, membershipVars, kvVars, month, raced>>

\* clusters.upsert: a user who owns a cluster keeps it, ...
FindOwned(r) ==
  /\ At(r, "findOwned")
  /\ IF \E c \in ClusterIds : req[r].user \in owners(c)
       THEN Goto(r, "listForLogin") ELSE Goto(r, "insertCluster")
  /\ Read(r)

\* ... another gets one, and a user whose row is gone gets none.
InsertCluster(r) ==
  LET u == req[r].user IN
  /\ At(r, "insertCluster")
  /\ IF u \in accounts
       THEN \E c \in mix.ids :
              /\ c \notin created
              /\ SetRoles([role EXCEPT ![c][u] = "owner"])
              /\ NoteRace(u, c, "owner")
       ELSE UNCHANGED <<membershipVars, raced>>
  /\ Goto(r, "listForLogin")
  /\ UNCHANGED <<mix, accounts, uninitialized, kvVars, month>>

\* clusters.list leaves invitations out.
memberships(u) == [c \in ClusterIds |-> IF role[c][u] = "invited" THEN None ELSE role[c][u]]

ListForLogin(r) ==
  /\ At(r, "listForLogin")
  /\ req' = [req EXCEPT ![r].seen = memberships(req[r].user), ![r].pc = "createSession"]
  /\ Read(r)
CreateSession(r) ==
  /\ At(r, "createSession")
  /\ sessions' = [sessions EXCEPT ![req[r].user] = req[r].seen]
  /\ Return(r)
  /\ UNCHANGED <<mix, dbVars, history, month, created, joined, owned, raced>>

(* --- Refreshing the sessions of the users a handler touched ---------------- *)

\* The users left to refresh are todo; a handler takes them in some order.
Refresh(r, users) == req' = [req EXCEPT ![r].todo = users, ![r].seen = None, ![r].pc = "refresh"]

FindSession(r, u) ==
  /\ At(r, "refresh") /\ u \in req[r].todo
  /\ req' = [req EXCEPT ![r].todo = @ \ {u}, ![r].user = u,
                        ![r].pc = IF sessions[u] = None THEN "refresh" ELSE "listForRefresh"]
  /\ Read(r)

\* Variant with a bug: the memberships of who asks are listed.
listedForCaller(r) == memberships(req[r].by)
listed(r) == memberships(req[r].user)

ListForRefresh(r) ==
  /\ At(r, "listForRefresh")
  /\ req' = [req EXCEPT ![r].seen = listed(r), ![r].pc = "refreshSession"]
  /\ Read(r)

\* refreshSession writes what was listed, however old it is by now.
RefreshSession(r) ==
  /\ At(r, "refreshSession")
  /\ sessions' = [sessions EXCEPT ![req[r].user] = req[r].seen]
  /\ Goto(r, "refresh")
  /\ UNCHANGED <<mix, dbVars, history, month, created, joined, owned, raced>>

Refreshed(r) ==
  /\ At(r, "refresh") /\ req[r].todo = {}
  /\ Return(r)
  /\ Read(r)

(* --- Invitations ------------------------------------------------------------ *)

AcceptBegin(r, u, c)  == BeginAs(r, "accept", u, c, u, "acceptInvite")
DeclineBegin(r, u, c) == BeginAs(r, "decline", u, c, u, "declineInvite")

\* acceptInvite and declineInvite act on a row that is an invitation.
AcceptInvite(r) ==
  LET u == req[r].by  c == req[r].cluster IN
  /\ At(r, "acceptInvite") /\ ~Locked(r, c, u)
  /\ IF role[c][u] = "invited"
       THEN SetRoles([role EXCEPT ![c][u] = "viewer"]) /\ Refresh(r, {u})
       ELSE Return(r) /\ UNCHANGED membershipVars
  /\ UNCHANGED <<mix, accounts, uninitialized, kvVars, month, raced>>

DeclineInvite(r) ==
  LET u == req[r].by  c == req[r].cluster IN
  /\ At(r, "declineInvite") /\ ~Locked(r, c, u)
  /\ IF role[c][u] = "invited"
       THEN SetRoles([role EXCEPT ![c][u] = None]) /\ Refresh(r, {u})
       ELSE Return(r) /\ UNCHANGED membershipVars
  /\ UNCHANGED <<mix, accounts, uninitialized, kvVars, month, raced>>

\* addUsers: an account if there is none, and an invitation unless there is a row.
AddBegin(r, by, c, u) == BeginAs(r, "addUsers", by, c, u, "permission")
AddUsers(r) ==
  LET u == req[r].user  c == req[r].cluster IN
  /\ At(r, "addUsers") /\ ~Locked(r, c, u)
  /\ accounts' = accounts \cup {u}
  /\ uninitialized' = IF u \in accounts THEN uninitialized ELSE uninitialized \cup {u}
  /\ IF role[c][u] = None
       THEN SetRoles([role EXCEPT ![c][u] = "invited"]) /\ NoteRace(u, c, "invited")
       ELSE UNCHANGED <<membershipVars, raced>>
  /\ Return(r)
  /\ UNCHANGED <<mix, kvVars, month>>

(* --- Removing members --------------------------------------------------------- *)

\* removeUsers, a transaction, first query: owners stay.  The row is not locked,
\* so the answer may be old when the row is deleted.
mayRemove(c, u) == role[c][u] # "owner"

RemoveBegin(r, by, c, u) == BeginAs(r, "removeUsers", by, c, u, "permission")
RemoveCheck(r) ==
  /\ At(r, "removeCheck")
  /\ IF mayRemove(req[r].cluster, req[r].user) THEN Goto(r, "removeRow") ELSE Return(r)
  /\ Read(r)

\* DELETE FROM user_clusters: the row, if there is one, is this transaction's.
RemoveRow(r) ==
  LET u == req[r].user  c == req[r].cluster IN
  /\ At(r, "removeRow") /\ ~Locked(r, c, u)
  /\ req' = [req EXCEPT ![r].pc = "findUnused",
                        ![r].todo = IF role[c][u] = None THEN {} ELSE {u}]
  /\ Read(r)

\* The memberships without the row the transaction has deleted.
without(r) ==
  LET u == req[r].user  c == req[r].cluster IN
  IF u \in req[r].todo THEN [role EXCEPT ![c][u] = None] ELSE role

\* Variant with a bug: only the cluster at hand is looked at.
unusedHere(left, c, u) == u \in uninitialized /\ left[c][u] = None
unused(left, c, u) == u \in uninitialized /\ \A d \in ClusterIds : left[d][u] = None

\* DELETE FROM users ... NOT EXISTS: what its snapshot shows decides whether the
\* account goes; one that stays lets the transaction commit.
FindUnused(r) ==
  LET u == req[r].user  c == req[r].cluster IN
  /\ At(r, "findUnused")
  /\ IF unused(without(r), c, u)
       THEN Goto(r, "dropAccount") /\ UNCHANGED membershipVars
       ELSE SetRoles(without(r)) /\ Refresh(r, {u})
  /\ UNCHANGED <<mix, accounts, uninitialized, kvVars, month, raced>>

\* ON DELETE CASCADE of user_clusters.user_id.
cascaded(u) == [c \in ClusterIds |-> [role[c] EXCEPT ![u] = None]]

\* ... and then waits for the row of users, looks at its provider again, and
\* takes the memberships there are by now.
DropAccount(r) ==
  LET u == req[r].user
      gone == u \in uninitialized IN
  /\ At(r, "dropAccount")
  /\ \A c \in ClusterIds : ~Locked(r, c, u)
  /\ SetRoles(IF gone THEN cascaded(u) ELSE without(r))
  /\ accounts' = IF gone THEN accounts \ {u} ELSE accounts
  /\ uninitialized' = uninitialized \ {u}
  /\ Refresh(r, {u})
  /\ UNCHANGED <<mix, kvVars, month, raced>>

(* --- Roles ---------------------------------------------------------------------- *)

\* PATCH users: the members to drop are read first.  The route passes emails
\* where the store wants user ids, so a list that is not empty violates the
\* foreign key and changes nothing; empty lists drop everybody read here.
UpdateBegin(r, by, c) == BeginAs(r, "updateRoles", by, c, None, "permission")
CurrentUsers(r) ==
  /\ At(r, "currentUsers")
  /\ req' = [req EXCEPT ![r].pc = "updateRoles",
               ![r].todo = {u \in Users : role[req[r].cluster][u] \notin {None, "owner"}}]
  /\ Read(r)

\* Variant with a bug: the roles are not looked at again.
droppedAsRead(c, users) == users
dropped(c, users) == {u \in users : role[c][u] # "owner"}

UpdateRoles(r) ==
  LET c == req[r].cluster  drop == dropped(c, req[r].todo) IN
  /\ At(r, "updateRoles") /\ \A u \in drop : ~Locked(r, c, u)
  /\ SetRoles([role EXCEPT ![c] = [u \in Users |-> IF u \in drop THEN None ELSE @[u]]])
  /\ Return(r)
  /\ UNCHANGED <<mix, accounts, uninitialized, kvVars, month, raced>>
RejectRoles(r) == At(r, "updateRoles") /\ Return(r) /\ Read(r)

(* --- Ownership -------------------------------------------------------------------- *)

\* enforce_single_owner: nobody may become an owner next to another.
SingleOwner(new, c, u) == \A v \in Users \ {u} : new[c][v] # "owner"

\* The owner before, if any, is read for the refresh only.
TransferBegin(r, by, c, u) == BeginAs(r, "transferOwner", by, c, u, "permission")
GetOwner(r) ==
  /\ At(r, "getOwner")
  /\ req' = [req EXCEPT ![r].todo = owners(req[r].cluster), ![r].pc = "transfer"]
  /\ Read(r)

\* Variant with a bug: the new owner is not inserted.
demotedOnly(c, u, prev) ==
  [role EXCEPT ![c] = [v \in Users |-> IF v # u /\ @[v] = "owner" THEN prev ELSE @[v]]]

\* transferOwnership, a batch: the owner is demoted and the new one inserted.
promoted(c, u, prev) ==
  [role EXCEPT ![c] = [v \in Users |-> IF v = u THEN "owner"
                                       ELSE IF @[v] = "owner" THEN prev ELSE @[v]]]
TransferOwnership(r, prev) ==
  LET c == req[r].cluster  u == req[r].user  new == promoted(c, u, prev) IN
  /\ At(r, "transfer") /\ \A v \in owners(c) \cup {u} : ~Locked(r, c, v)
  /\ IF u \in accounts /\ SingleOwner(new, c, u)
       THEN /\ SetRoles(new)
            /\ NoteRace(u, c, "owner")
            /\ Refresh(r, req[r].todo \cup {u})
       ELSE Return(r) /\ UNCHANGED <<membershipVars, raced>>
  /\ UNCHANGED <<mix, accounts, uninitialized, kvVars, month>>

(* --- Renaming ----------------------------------------------------------------------- *)

\* recordRename: at most one in a month and three in twelve, by the history read.
RenameBegin(r, by, c) == BeginAs(r, "rename", by, c, None, "permission")
RecordRename(r) ==
  LET active == {m \in history[req[r].cluster] : m > month - 12} IN
  /\ At(r, "recordRename")
  /\ IF month \in active \/ Cardinality(active) >= 3 THEN Return(r)
     ELSE req' = [req EXCEPT ![r].seen = active \cup {month}, ![r].pc = "putRename"]
  /\ Read(r)
PutRename(r) ==
  /\ At(r, "putRename")
  /\ history' = [history EXCEPT ![req[r].cluster] = req[r].seen]
  /\ Goto(r, "renamed")
  /\ UNCHANGED <<mix, dbVars, sessions, month, created, joined, owned, raced>>

\* The members, without those invited, are refreshed with the new name.
Renamed(r) ==
  /\ At(r, "renamed")
  /\ Refresh(r, {u \in Users : role[req[r].cluster][u] \notin {None, "invited"}})
  /\ Read(r)

Tick ==
  /\ month < LastMonth
  /\ month' = month + 1
  /\ UNCHANGED <<mix, dbVars, kvVars, req, created, joined, owned, raced>>

(* --- Specification ------------------------------------------------------------------- *)

Init ==
  /\ mix \in Mixes
  /\ accounts = {Founder} \cup Members
  /\ uninitialized \in SUBSET Members
  /\ role = [c \in ClusterIds |-> [u \in Users |->
              IF c # First THEN None
              ELSE IF u = Founder THEN "owner" ELSE IF u \in Members THEN "viewer" ELSE None]]
  /\ sessions = [u \in Users |-> IF u \in accounts THEN memberships(u) ELSE None]
  /\ history = [c \in ClusterIds |-> {}]
  /\ month = 0
  /\ req = [r \in Requests |-> Idle]
  /\ created = {First}
  /\ joined = {<<u, First>> : u \in {Founder} \cup Members}
  /\ owned = {<<Founder, First>>}
  /\ raced = {}

Call(r) ==
  \/ \E u \in Users : SignIn(r, u)
  \/ \E u \in Users, c \in created :
       AcceptBegin(r, u, c) \/ DeclineBegin(r, u, c) \/ UpdateBegin(r, u, c) \/ RenameBegin(r, u, c)
  \/ \E by, u \in Users, c \in created :
       AddBegin(r, by, c, u) \/ RemoveBegin(r, by, c, u) \/ TransferBegin(r, by, c, u)

Continue(r) ==
  \/ RequireRole(r) \/ UpsertUser(r) \/ FindOwned(r) \/ InsertCluster(r)
  \/ ListForLogin(r) \/ CreateSession(r)
  \/ \E u \in Users : FindSession(r, u)
  \/ ListForRefresh(r) \/ RefreshSession(r) \/ Refreshed(r)
  \/ AcceptInvite(r) \/ DeclineInvite(r) \/ AddUsers(r)
  \/ RemoveCheck(r) \/ RemoveRow(r) \/ FindUnused(r) \/ DropAccount(r) \/ CurrentUsers(r) \/ UpdateRoles(r) \/ RejectRoles(r)
  \/ GetOwner(r) \/ \E prev \in PreviousRoles : TransferOwnership(r, prev)
  \/ RecordRename(r) \/ PutRename(r) \/ Renamed(r)

Next ==
  \/ \E r \in Requests : Call(r) \/ Continue(r)
  \/ Tick

Spec == Init /\ [][Next]_vars

(* --- Properties ------------------------------------------------------------------------ *)

\* Every variable has its type, and only a user with an account is pending
\* initialisation.
TypeOK ==
  /\ accounts \subseteq Users /\ uninitialized \subseteq accounts
  /\ role \in [ClusterIds -> [Users -> Roles \cup {None}]]
  /\ sessions \in [Users -> [ClusterIds -> (Roles \ {"invited"}) \cup {None}] \cup {None}]
  /\ history \in [ClusterIds -> SUBSET (0 .. LastMonth)]
  /\ month \in 0 .. LastMonth
  /\ \A r \in Requests : DOMAIN req[r] = DOMAIN Idle

\* A cluster that was created has exactly one owner, whatever transfers,
\* removals, role updates and logins overlap, with one exception: the removal
\* of a member that looked at his role, or for his memberships, before he was made
\* the owner.
ownerRaced(c) == \E u \in Users : <<u, c, "owner">> \in raced
OwnedUnlessRaced ==
  \A c \in created :
      \/ Cardinality(owners(c)) = 1
      \/ owners(c) = {} /\ ownerRaced(c)

\* transferOwnership "ensures there is always exactly one owner per cluster",
\* and removeUsers "cannot remove cluster owners".  Together they can.
AlwaysOwned ==
  \A c \in created : Cardinality(owners(c)) = 1

\* A cluster changes hands only in the transfer of a user who once owned it, and
\* then it is all the new owner's; else an owner is only lost, by the removal that
\* looked too early.  No login, invitation, role update or removal makes, adds or
\* drops an owner otherwise, though each writes what another may have read.
OwnersChangeByTransfer ==
  [][\A c \in created :
       \/ owners(c)' = owners(c)
       \/ \E r \in Requests : /\ At(r, "transfer") /\ req[r].cluster = c
                              /\ <<req[r].by, c>> \in owned
                              /\ owners(c)' = {req[r].user}
       \/ owners(c)' = {} /\ ownerRaced(c)]_vars

\* A session never carries a membership its user did not have, nor a role above
\* viewer in a cluster its user did not once own: every refresh, whoever asked
\* for it and however late it is written, is of the session's own user, and
\* developers and admins are former owners, as an invitation makes a viewer and
\* no call of the roles route can promote one.
seniorOf(roles, c) == roles[c] \in {"developer", "admin", "owner"}
CachedRoleWasHeld ==
  \A u \in Users, c \in ClusterIds :
    /\ sessions[u] # None /\ sessions[u][c] # None => <<u, c>> \in joined
    /\ sessions[u] # None /\ seniorOf(sessions[u], c) => <<u, c>> \in owned

\* A membership ends only where somebody asked for its end: the user himself by
\* declining, or one who once owned the very cluster by removing him or by a role
\* update that read him there.  The clean-up of an account takes memberships of
\* other clusters only if they were given after it looked, although it deletes in
\* an order of its own and the cascade asks nobody.
MembershipsEndByRequest ==
  [][\A c \in ClusterIds, u \in Users :
       role[c][u] # None /\ role[c][u]' = None =>
         \E r \in Requests :
           \/ At(r, "declineInvite") /\ req[r].by = u /\ req[r].cluster = c
           \/ /\ req[r].cluster = c /\ <<req[r].by, c>> \in owned
              /\ \/ At(r, "updateRoles") /\ u \in req[r].todo
                 \/ req[r].pc \in {"findUnused", "dropAccount"} /\ req[r].user = u
           \/ /\ At(r, "dropAccount") /\ req[r].user = u
              /\ \E as \in Roles : <<u, c, as>> \in raced]_vars
=============================================================================
