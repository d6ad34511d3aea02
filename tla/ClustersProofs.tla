--------------------------- MODULE ClustersProofs ---------------------------
(***************************************************************************)
(* Proofs about ClusterIntegrations, and with it Clusters: who owns a      *)
(* cluster, what sessions carry, and who linked it to what.                *)
(*                                                                         *)
(* The handlers act on what they read before an await, so the invariant    *)
(* speaks of what a request carries where it stands, relative to a history *)
(* that only grows: a request that was granted is still one of a user who  *)
(* once owned the cluster, and a removal that goes on against an owner is  *)
(* one that a transfer noticed.                                            *)
(***************************************************************************)
EXTENDS ClusterIntegrations, FiniteSetTheorems, TLAPS

(* --- What a request carries where it stands --------------------------------- *)

Months == 0 .. LastMonth
Memberships == [ClusterIds -> (Roles \ {"invited"}) \cup {None}]
SettingsRecord ==
  [address : {None} \cup {s.address : s \in Setups} \cup Installations \cup {None},
   enabled : BOOLEAN \cup {s.enabled : s \in Setups},
   events : (SUBSET Events) \cup {None}, by : Users \cup {None}]
Rewrites == [key : Keys, settings : SettingsRecord]
Notices == [event : Events, to : Users \cup {None}]
Seen == Memberships \cup (SUBSET Months) \cup Setups \cup Changes \cup Rewrites
          \cup Installations \cup Notices \cup {None}

Membership == {"addUsers", "removeUsers", "updateRoles", "transferOwner", "rename"}
Linking == {"setup", "events", "install"}
Named == {"upsertUser", "findOwned", "insertCluster", "listForLogin", "createSession",
          "listForRefresh", "refreshSession", "addUsers", "removeCheck", "removeRow",
          "findUnused", "dropAccount", "getOwner", "transfer"}
Asked == {"permission", "acceptInvite", "declineInvite", "getPending"}
Granted == {"tryAccess", "writeSetup", "getSettings", "putEvents", "setPending",
            "deletePending", "link", "getRecipient", "mail", "getOwner", "transfer",
            "removeCheck", "removeRow", "findUnused", "dropAccount", "currentUsers", "updateRoles"}
Placed == {"permission", "acceptInvite", "declineInvite", "addUsers", "removeCheck", "removeRow",
           "findUnused", "dropAccount", "currentUsers", "updateRoles", "getOwner", "transfer", "recordRename", "putRename",
           "renamed", "listIntegrations"}
Labels == Named \cup Asked \cup Granted \cup Placed
            \cup {"idle", "refresh", "getInstallation"}
RequestRecord ==
  [pc : Labels, op : Operations \cup {None}, by : Users \cup {None},
   cluster : ClusterIds \cup {None}, user : Users \cup {None}, seen : Seen, todo : SUBSET Users]

\* What a user is cached to be he was.
Held(u, roles, jo, ow) ==
  \A c \in ClusterIds : /\ roles[c] # None => <<u, c>> \in jo
                        /\ seniorOf(roles, c) => <<u, c>> \in ow
\* Of a request, given the clusters that were created and who joined or owned them.
Fits(q, cr, jo, ow) ==
  /\ q.pc \in Named => q.user \in Users
  /\ q.pc \in Asked => q.by \in Users
  /\ q.pc \in Placed => q.cluster \in cr
  /\ q.pc \in Granted => <<q.by, q.cluster>> \in ow
  /\ q.pc = "getInstallation" /\ q.cluster # None => <<q.by, q.cluster>> \in ow
  /\ q.pc = "permission" =>
       /\ q.op \in Membership \cup Linking
       /\ q.op \in {"addUsers", "removeUsers", "transferOwner"} => q.user \in Users
       /\ q.op = "setup" => q.seen \in Setups
       /\ q.op = "events" => q.seen \in Changes
  /\ q.pc \in {"createSession", "refreshSession"} =>
       q.seen \in Memberships /\ Held(q.user, q.seen, jo, ow)
  /\ q.pc = "putRename" => q.seen \in SUBSET Months
  /\ q.pc \in {"tryAccess", "writeSetup"} => q.seen \in Setups
  /\ q.pc = "getSettings" => q.seen \in Changes
  /\ q.pc = "putEvents" => q.seen \in Rewrites
  /\ q.pc \in {"getPending", "getInstallation", "deletePending", "link"} =>
       q.seen \in Installations \cup {None}
  /\ q.pc \in {"listIntegrations", "getRecipient", "mail"} => q.seen \in Notices
  /\ q.pc = "mail" /\ q.seen.to = None => <<q.user, q.cluster>> \in ow

(* --- The invariant ------------------------------------------------------------ *)

Typed ==
  /\ mix \in Mixes
  /\ role \in [ClusterIds -> [Users -> Roles \cup {None}]]
  /\ sessions \in [Users -> Memberships \cup {None}]
  /\ history \in [ClusterIds -> SUBSET Months] /\ month \in Months
  /\ req \in [Requests -> RequestRecord]
  /\ created \subseteq ClusterIds
  /\ joined \subseteq Users \X ClusterIds /\ owned \subseteq Users \X ClusterIds
LinksTyped ==
  /\ metadata \in [ClusterIds -> [Keys -> SettingsRecord]]
  /\ pending \in [Users -> ClusterIds \cup {None}]
RequestsFit == \A r \in Requests : Fits(req[r], created, joined, owned)
\* The history knows the roles of the moment.
RolesKnown ==
  \A u \in Users, c \in ClusterIds :
    /\ role[c][u] \in Roles \ {"invited"} => <<u, c>> \in joined
    /\ role[c][u] \in {"developer", "admin", "owner"} => <<u, c>> \in owned
    /\ role[c][u] = "owner" => c \in created
OneOwner ==
  \A c \in created : \/ \E u \in Users : owners(c) = {u}
                     \/ owners(c) = {} /\ ownerRaced(c)
\* A removal that goes on against an owner is one that raced with the step that made
\* him one, and what the cascade would take beyond the row that is removed was given
\* after the clean-up looked.
Deletes(q) == q.pc = "removeRow" \/ (q.pc \in {"findUnused", "dropAccount"} /\ q.user \in q.todo)
OwnerNoted(u, c, ro, ra) == ro[c][u] = "owner" => <<u, c, "owner">> \in ra
RemovalFits(q, ro, ra) ==
  /\ Deletes(q) => OwnerNoted(q.user, q.cluster, ro, ra)
  /\ q.pc = "dropAccount" =>
       \A d \in ClusterIds :
         \/ ro[d][q.user] = None
         \/ d = q.cluster /\ q.user \in q.todo
         \/ (\E as \in Roles : <<q.user, d, as>> \in ra) /\ OwnerNoted(q.user, d, ro, ra)
RemovalsRaced == \A r \in Requests : RemovalFits(req[r], role, raced)
LinksOwned ==
  \A c \in ClusterIds, k \in Keys :
    metadata[c][k] = NoSettings \/ <<metadata[c][k].by, c>> \in owned
PendingOwned == \A u \in Users : pending[u] # None => <<u, pending[u]>> \in owned
SentOwned ==
  \A m \in sent : /\ <<m.by, m.cluster>> \in owned
                  /\ m.asOwner => <<m.to, m.cluster>> \in owned

MembersInv == OneOwner /\ RemovalsRaced
DbInv == Typed /\ RequestsFit /\ RolesKnown /\ MembersInv /\ CachedRoleWasHeld
LinksInv == LinksTyped /\ LinksOwned /\ PendingOwned /\ SentOwned

(* --- How requests move --- *)

Grows == created \subseteq created' /\ joined \subseteq joined' /\ owned \subseteq owned'
Move(r) == /\ req' = [req EXCEPT ![r] = req'[r]]
           /\ req'[r] \in RequestRecord
           /\ Fits(req'[r], created', joined', owned')

\* What a request carries still fits when more is known.
LEMMA FitsGrow ==
  ASSUME NEW q, NEW cr, NEW jo, NEW ow, NEW cr2, NEW jo2, NEW ow2,
         cr \subseteq cr2, jo \subseteq jo2, ow \subseteq ow2, Fits(q, cr, jo, ow)
  PROVE  Fits(q, cr2, jo2, ow2)
  BY DEF Fits, Held

\* When one request moves on, all of them still fit.
LEMMA RequestsMove ==
  ASSUME Typed, RequestsFit, Grows, NEW r \in Requests, Move(r)
  PROVE  /\ req' \in [Requests -> RequestRecord] /\ RequestsFit'
         /\ \A s \in Requests : s # r => req'[s] = req[s]
<1>1. /\ req \in [Requests -> RequestRecord] /\ req'[r] \in RequestRecord
      /\ req' = [req EXCEPT ![r] = req'[r]]
  BY DEF Typed, Move
<1>2. req' \in [Requests -> RequestRecord] /\ \A s \in Requests : s # r => req'[s] = req[s]
  BY ONLY <1>1
<1>3. ASSUME NEW s \in Requests PROVE Fits(req'[s], created', joined', owned')
  <2>1. CASE s = r
    BY <2>1 DEF Move
  <2>2. CASE s # r
    <3>1. req'[s] = req[s] /\ Fits(req[s], created, joined, owned)
      BY <1>2, <2>2 DEF RequestsFit
    <3>2. QED
      BY <3>1, FitsGrow DEF Grows
  <2>3. QED
    BY <2>1, <2>2
<1>4. QED
  BY <1>2, <1>3 DEF RequestsFit

\* A request moves on to a record that fits.
LEMMA Moved ==
  ASSUME Typed, NEW r \in Requests, NEW g \in RequestRecord, req' = [req EXCEPT ![r] = g],
         Fits(g, created', joined', owned')
  PROVE  Move(r)
<1>1. req'[r] = g
  BY DEF Typed
<1>2. QED
  BY <1>1 DEF Move

\* A request that is not under way.
LEMMA IdleTyped == Idle \in RequestRecord /\ Idle.pc = "idle"
  BY DEF Idle, RequestRecord, Labels, Seen

\* A request that carries nothing, or only users to refresh, always fits.
LEMMA IdleFits ==
  ASSUME NEW q, q.pc \in {"idle", "refresh"}, NEW cr, NEW jo, NEW ow
  PROVE  Fits(q, cr, jo, ow)
  BY DEF Fits, Named, Asked, Placed, Granted

\* A request ends.
LEMMA Returns ==
  ASSUME Typed, NEW r \in Requests, Return(r)
  PROVE  Move(r) /\ req'[r] = Idle
<1>1. req' = [req EXCEPT ![r] = Idle] /\ req'[r] = Idle
  BY DEF Return, Typed
<1>2. Fits(Idle, created', joined', owned')
  BY IdleTyped, IdleFits
<1>3. QED
  BY <1>1, <1>2, IdleTyped, Moved

(* A request with some of its fields written anew. *)

\* ... what it has read and where it stands.
LEMMA WithSeen ==
  ASSUME NEW g \in RequestRecord, NEW pc \in Labels, NEW seen \in Seen
  PROVE  /\ [g EXCEPT !.pc = pc] \in RequestRecord
         /\ [g EXCEPT !.seen = seen, !.pc = pc] \in RequestRecord
         /\ [g EXCEPT !.pc = pc, !.seen = seen] \in RequestRecord
<1> DEFINE S == Seen
           U == Users \cup {None}
           C == ClusterIds \cup {None}
           L == Labels
           T == SUBSET Users
           O == Operations \cup {None}
<1>1. /\ pc \in L /\ seen \in S
      /\ RequestRecord = [pc : L, op : O, by : U, cluster : C, user : U, seen : S, todo : T]
  BY DEF RequestRecord
<1> HIDE DEF S, U, C, L, T, O
<1>2. QED
  BY <1>1

\* ... the users it will work on and where it stands.
LEMMA WithTodo ==
  ASSUME NEW g \in RequestRecord, NEW pc \in Labels, NEW todo \in SUBSET Users
  PROVE  /\ [g EXCEPT !.pc = pc, !.todo = todo] \in RequestRecord
         /\ [g EXCEPT !.todo = todo, !.pc = pc] \in RequestRecord
<1> DEFINE S == Seen
           U == Users \cup {None}
           C == ClusterIds \cup {None}
           L == Labels
           T == SUBSET Users
           O == Operations \cup {None}
<1>1. /\ pc \in L /\ todo \in T
      /\ RequestRecord = [pc : L, op : O, by : U, cluster : C, user : U, seen : S, todo : T]
  BY DEF RequestRecord
<1> HIDE DEF S, U, C, L, T, O
<1>2. QED
  BY <1>1

\* ... all of these.
LEMMA WithTodoSeen ==
  ASSUME NEW g \in RequestRecord, NEW pc \in Labels, NEW todo \in SUBSET Users, NEW seen \in Seen
  PROVE  [g EXCEPT !.todo = todo, !.seen = seen, !.pc = pc] \in RequestRecord
<1> DEFINE S == Seen
           U == Users \cup {None}
           C == ClusterIds \cup {None}
           L == Labels
           T == SUBSET Users
           O == Operations \cup {None}
<1>1. /\ pc \in L /\ todo \in T /\ seen \in S
      /\ RequestRecord = [pc : L, op : O, by : U, cluster : C, user : U, seen : S, todo : T]
  BY DEF RequestRecord
<1> HIDE DEF S, U, C, L, T, O
<1>2. QED
  BY <1>1

\* ... the user it is about.
LEMMA WithUser ==
  ASSUME NEW g \in RequestRecord, NEW pc \in Labels, NEW user \in Users \cup {None}
  PROVE  [g EXCEPT !.user = user, !.pc = pc] \in RequestRecord
<1> DEFINE S == Seen
           U == Users \cup {None}
           C == ClusterIds \cup {None}
           L == Labels
           T == SUBSET Users
           O == Operations \cup {None}
<1>1. /\ pc \in L /\ user \in U
      /\ RequestRecord = [pc : L, op : O, by : U, cluster : C, user : U, seen : S, todo : T]
  BY DEF RequestRecord
<1> HIDE DEF S, U, C, L, T, O
<1>2. QED
  BY <1>1

\* ... the user it takes next and those that are left.
LEMMA WithTodoUser ==
  ASSUME NEW g \in RequestRecord, NEW pc \in Labels, NEW todo \in SUBSET Users,
         NEW user \in Users \cup {None}
  PROVE  [g EXCEPT !.todo = todo, !.user = user, !.pc = pc] \in RequestRecord
<1> DEFINE S == Seen
           U == Users \cup {None}
           C == ClusterIds \cup {None}
           L == Labels
           T == SUBSET Users
           O == Operations \cup {None}
<1>1. /\ pc \in L /\ todo \in T /\ user \in U
      /\ RequestRecord = [pc : L, op : O, by : U, cluster : C, user : U, seen : S, todo : T]
  BY DEF RequestRecord
<1> HIDE DEF S, U, C, L, T, O
<1>2. QED
  BY <1>1

\* ... the user whose wish it carries out and the one it is about.
LEMMA WithByUser ==
  ASSUME NEW g \in RequestRecord, NEW pc \in Labels, NEW user \in Users \cup {None},
         NEW by \in Users \cup {None}
  PROVE  [g EXCEPT !.by = by, !.user = user, !.pc = pc] \in RequestRecord
<1> DEFINE S == Seen
           U == Users \cup {None}
           C == ClusterIds \cup {None}
           L == Labels
           T == SUBSET Users
           O == Operations \cup {None}
<1>1. /\ pc \in L /\ user \in U /\ by \in U
      /\ RequestRecord = [pc : L, op : O, by : U, cluster : C, user : U, seen : S, todo : T]
  BY DEF RequestRecord
<1> HIDE DEF S, U, C, L, T, O
<1>2. QED
  BY <1>1

\* ... the cluster it is about.
LEMMA WithCluster ==
  ASSUME NEW g \in RequestRecord, NEW pc \in Labels, NEW cluster \in ClusterIds \cup {None}
  PROVE  [g EXCEPT !.cluster = cluster, !.pc = pc] \in RequestRecord
<1> DEFINE S == Seen
           U == Users \cup {None}
           C == ClusterIds \cup {None}
           L == Labels
           T == SUBSET Users
           O == Operations \cup {None}
<1>1. /\ pc \in L /\ cluster \in C
      /\ RequestRecord = [pc : L, op : O, by : U, cluster : C, user : U, seen : S, todo : T]
  BY DEF RequestRecord
<1> HIDE DEF S, U, C, L, T, O
<1>2. QED
  BY <1>1

\* A request goes on to refresh sessions.
LEMMA Refreshes ==
  ASSUME Typed, NEW r \in Requests, NEW users \in SUBSET Users, Refresh(r, users)
  PROVE  Move(r) /\ req'[r].pc = "refresh"
<1> DEFINE g == [req[r] EXCEPT !.todo = users, !.seen = None, !.pc = "refresh"]
<1>1. req[r] \in RequestRecord /\ req \in [Requests -> RequestRecord]
  BY DEF Typed
<1>2. req' = [req EXCEPT ![r] = g]
  BY <1>1 DEF Refresh
<1>3. g \in RequestRecord
  BY <1>1, WithTodoSeen DEF Labels, Seen
<1>4. g.pc = "refresh"
  BY <1>1 DEF RequestRecord
<1> HIDE DEF g
<1>5. req'[r] = g
  BY <1>1, <1>2
<1>6. Fits(g, created', joined', owned')
  BY <1>4, IdleFits
<1>7. QED
  BY <1>2, <1>3, <1>4, <1>5, <1>6, Moved

(* --- What writes the memberships --- *)

RoleTable == [ClusterIds -> [Users -> Roles \cup {None}]]

\* The history grows with the roles that are written, and knows them.
LEMMA RolesSet ==
  ASSUME Typed, RolesKnown, NEW new \in RoleTable, SetRoles(new),
         \A u \in Users, c \in ClusterIds :
           new[c][u] \in {"developer", "admin"} => <<u, c>> \in owned
  PROVE  /\ Grows /\ role' = new /\ RolesKnown'
         /\ created' \subseteq ClusterIds
         /\ joined' \subseteq Users \X ClusterIds /\ owned' \subseteq Users \X ClusterIds
         /\ \A c \in ClusterIds : c \in created' <=> c \in created \/ \E u \in Users : new[c][u] = "owner"
<1> DEFINE now(rs) == {p \in Users \X ClusterIds : new[p[2]][p[1]] \in rs}
<1>1. /\ role' = new
      /\ joined' = joined \cup now(Roles \ {"invited"})
      /\ owned' = owned \cup now({"owner"})
      /\ created' = created \cup {p[2] : p \in now({"owner"})}
  BY DEF SetRoles
<1>2. ASSUME NEW rs
      PROVE  now(rs) \subseteq Users \X ClusterIds
             /\ \A u \in Users, c \in ClusterIds : <<u, c>> \in now(rs) <=> new[c][u] \in rs
  OBVIOUS
<1>3. \A c : c \in {p[2] : p \in now({"owner"})}
               <=> c \in ClusterIds /\ \E u \in Users : new[c][u] = "owner"
  <2>1. ASSUME NEW p \in now({"owner"})
        PROVE  p[2] \in ClusterIds /\ p[1] \in Users /\ new[p[2]][p[1]] = "owner"
    OBVIOUS
  <2>2. ASSUME NEW c \in ClusterIds, NEW u \in Users, new[c][u] = "owner"
        PROVE  c \in {p[2] : p \in now({"owner"})}
    <3>1. <<u, c>> \in now({"owner"}) /\ <<u, c>>[2] = c
      BY <2>2
    <3>2. QED
      BY <3>1
  <2> HIDE DEF now
  <2>3. QED
    BY <2>1, <2>2
<1> HIDE DEF now
<1>4. Grows
  BY <1>1 DEF Grows
<1>5. /\ created' \subseteq ClusterIds
      /\ joined' \subseteq Users \X ClusterIds /\ owned' \subseteq Users \X ClusterIds
  BY <1>1, <1>2, <1>3 DEF Typed
<1>6. \A c \in ClusterIds : c \in created' <=> c \in created \/ \E u \in Users : new[c][u] = "owner"
  BY <1>1, <1>3
<1>7. RolesKnown'
  <2> SUFFICES ASSUME NEW u \in Users, NEW c \in ClusterIds
               PROVE  /\ new[c][u] \in Roles \ {"invited"} => <<u, c>> \in joined'
                      /\ new[c][u] \in {"developer", "admin", "owner"} => <<u, c>> \in owned'
                      /\ new[c][u] = "owner" => c \in created'
    BY <1>1 DEF RolesKnown
  <2>1. new[c][u] \in Roles \ {"invited"} => <<u, c>> \in joined'
    BY <1>1, <1>2
  <2>2. new[c][u] = "owner" => <<u, c>> \in owned'
    BY <1>1, <1>2
  <2>3. QED
    BY <1>1, <1>6, <2>1, <2>2
<1>8. QED
  BY <1>1, <1>4, <1>5, <1>6, <1>7

\* What a user may cache of his memberships he has had.
LEMMA MembershipsHeld ==
  ASSUME Typed, RolesKnown, NEW u \in Users
  PROVE  memberships(u) \in Memberships /\ Held(u, memberships(u), joined, owned)
<1>1. \A c \in ClusterIds : role[c][u] \in Roles \cup {None}
  BY DEF Typed
<1>2. memberships(u) \in Memberships
  BY <1>1 DEF memberships, Memberships
<1>3. ASSUME NEW c \in ClusterIds
      PROVE  memberships(u)[c] = IF role[c][u] = "invited" THEN None ELSE role[c][u]
  BY DEF memberships
<1>4. None \notin Roles
  BY ClustersAssumption
<1>5. \A c \in ClusterIds : /\ memberships(u)[c] # None => <<u, c>> \in joined
                            /\ seniorOf(memberships(u), c) => <<u, c>> \in owned
  BY <1>1, <1>3, <1>4 DEF seniorOf, RolesKnown, Roles
<1>6. QED
  BY <1>2, <1>5 DEF Held

\* One entry of the table is written.
LEMMA EntryWritten ==
  ASSUME Typed, NEW c \in ClusterIds, NEW u \in Users, NEW x \in Roles \cup {None}
  PROVE  /\ [role EXCEPT ![c][u] = x] \in RoleTable
         /\ \A d \in ClusterIds, v \in Users :
              [role EXCEPT ![c][u] = x][d][v] = IF d = c /\ v = u THEN x ELSE role[d][v]
  BY DEF Typed, RoleTable

\* Who has a developer's level has one of three roles.
LEMMA Levels ==
  ASSUME NEW x \in Roles \cup {None}, level[x] >= level["developer"]
  PROVE  x \in {"developer", "admin", "owner"}
<1>1. level[x] = CASE x = "owner" -> 4 [] x = "admin" -> 3 [] x = "developer" -> 2
                   [] x = "viewer" -> 1 [] OTHER -> 0
  BY DEF level
<1>2. level["developer"] = 2
  BY DEF level, Roles
<1>3. CASE x \in {"developer", "admin", "owner"}
  BY <1>3
<1>4. CASE x = "viewer"
  BY <1>1, <1>2, <1>4
<1>5. CASE x \notin {"developer", "admin", "owner", "viewer"}
  BY <1>1, <1>2, <1>5
<1>6. QED
  BY <1>3, <1>4, <1>5

\* The level of an admin or an owner is at least a developer's.
LEMMA Higher ==
  ASSUME NEW x \in Roles \cup {None}, NEW min \in {"admin", "owner"}, level[x] >= level[min]
  PROVE  level[x] >= level["developer"]
<1>1. level["developer"] = 2 /\ level[min] \in {3, 4} /\ level[x] \in Int
  BY DEF level, Roles
<1>2. QED
  BY <1>1

(* --- Steps that leave the memberships alone --- *)

\* A request that is not removing anybody.
LEMMA NotRemoving ==
  ASSUME NEW q, q.pc \notin {"removeRow", "findUnused", "dropAccount"}, NEW ro, NEW ra
  PROVE  RemovalFits(q, ro, ra)
  BY DEF RemovalFits, Deletes

\* What is left to show of a step that writes no membership.
LEMMA Quiet ==
  ASSUME DbInv, NEW r \in Requests, Move(r), UNCHANGED <<mix, membershipVars, raced>>,
         sessions' \in [Users -> Memberships \cup {None}], CachedRoleWasHeld',
         history' \in [ClusterIds -> SUBSET Months], month' \in Months,
         RemovalFits(req'[r], role', raced')
  PROVE  DbInv' /\ Grows
<1>1. UNCHANGED <<mix, role, created, joined, owned, raced>>
  BY DEF membershipVars
<1>2. Grows
  BY <1>1 DEF Grows
<1>3. /\ req' \in [Requests -> RequestRecord] /\ RequestsFit'
      /\ \A s \in Requests : s # r => req'[s] = req[s]
  BY <1>2, RequestsMove DEF DbInv
<1>4. Typed'
  BY <1>1, <1>3 DEF DbInv, Typed
<1>5. RolesKnown' /\ OneOwner'
  BY <1>1 DEF DbInv, MembersInv, RolesKnown, OneOwner, owners, ownerRaced
<1>6. RemovalsRaced'
  <2> SUFFICES ASSUME NEW s \in Requests
               PROVE  RemovalFits(req'[s], role', raced')
    BY DEF RemovalsRaced
  <2>1. CASE s = r
    BY <2>1
  <2>2. CASE s # r
    BY <1>1, <1>3, <2>2 DEF DbInv, MembersInv, RemovalsRaced
  <2>3. QED
    BY <2>1, <2>2
<1>7. QED
  BY <1>2, <1>3, <1>4, <1>5, <1>6 DEF DbInv, MembersInv

\* A step that writes nothing but its request.
LEMMA Reads ==
  ASSUME DbInv, NEW r \in Requests, Move(r), Read(r), RemovalFits(req'[r], role', raced')
  PROVE  DbInv' /\ Grows
<1>1. UNCHANGED <<mix, accounts, role, sessions, history, month, created, joined, owned, raced>>
  BY DEF Read, dbVars, kvVars
<1>2. UNCHANGED <<mix, membershipVars, raced>>
  BY <1>1 DEF membershipVars
<1>3. /\ sessions' \in [Users -> Memberships \cup {None}]
      /\ history' \in [ClusterIds -> SUBSET Months] /\ month' \in Months
      /\ CachedRoleWasHeld'
  BY <1>1 DEF DbInv, Typed, CachedRoleWasHeld
<1>4. QED
  BY <1>1, <1>2, <1>3, Quiet

\* A request begins.
LEMMA Begins ==
  ASSUME DbInv, NEW r \in Requests, NEW op \in Operations, NEW by \in Users,
         NEW c \in ClusterIds \cup {None}, NEW u \in Users \cup {None}, NEW pc,
         Begin(r, op, by, c, u, pc),
         \/ pc = "upsertUser" /\ u \in Users
         \/ pc \in {"acceptInvite", "declineInvite"} /\ c \in created
         \/ /\ pc = "permission" /\ c \in created /\ op \in Membership
            /\ op \in {"addUsers", "removeUsers", "transferOwner"} => u \in Users
  PROVE  DbInv' /\ Grows
<1> DEFINE h == [Idle EXCEPT !.op = op, !.by = by, !.cluster = c, !.user = u, !.pc = pc]
<1>1. req' = [req EXCEPT ![r] = h] /\ Read(r)
  BY DEF Begin
<1>2. pc \in Labels
  BY DEF Labels, Named, Asked
<1>3. Idle \in RequestRecord
  BY IdleTyped
<1>4. h.op = op /\ h.by = by /\ h.cluster = c /\ h.user = u /\ h.pc = pc
  BY <1>3 DEF RequestRecord
<1>5. h \in RequestRecord
  <2> DEFINE S == Seen
             U == Users \cup {None}
             C == ClusterIds \cup {None}
             L == Labels
             T == SUBSET Users
             O == Operations \cup {None}
  <2>1. /\ op \in O /\ by \in U /\ c \in C /\ u \in U /\ pc \in L
        /\ RequestRecord = [pc : L, op : O, by : U, cluster : C, user : U, seen : S, todo : T]
    BY <1>2 DEF RequestRecord
  <2> HIDE DEF S, U, C, L, T, O
  <2>2. QED
    BY <1>3, <2>1
<1> HIDE DEF h
<1>6. created' = created
  BY <1>1 DEF Read
<1>7. Fits(h, created', joined', owned')
  BY <1>4, <1>6 DEF Fits, Named, Asked, Placed, Granted, Membership
<1>8. Move(r)
  BY <1>1, <1>5, <1>7, Moved DEF DbInv
<1>9. req'[r] = h
  BY <1>1 DEF DbInv, Typed
<1>10. RemovalFits(req'[r], role', raced')
  BY <1>4, <1>9, NotRemoving
<1>11. QED
  BY <1>1, <1>8, <1>10, Reads

\* A request ends.
LEMMA Ends ==
  ASSUME DbInv, NEW r \in Requests, Return(r), Read(r)
  PROVE  DbInv' /\ Grows
<1>1. Move(r) /\ req'[r] = Idle
  BY Returns DEF DbInv
<1>2. RemovalFits(req'[r], role', raced')
  BY <1>1, IdleTyped, NotRemoving
<1>3. QED
  BY <1>1, <1>2, Reads

\* A request goes on with another record.
LEMMA GoesOn ==
  ASSUME DbInv, NEW r \in Requests, NEW g \in RequestRecord, req' = [req EXCEPT ![r] = g],
         Fits(g, created, joined, owned), g.pc \notin {"removeRow", "findUnused", "dropAccount"}, Read(r)
  PROVE  DbInv' /\ Grows
<1>1. Fits(g, created', joined', owned')
  BY DEF Read
<1>2. Move(r) /\ req'[r] = g
  BY <1>1, Moved DEF DbInv, Typed
<1>3. RemovalFits(req'[r], role', raced')
  BY <1>2, NotRemoving
<1>4. QED
  BY <1>2, <1>3, Reads

\* What is known of a request before it moves.
LEMMA SameRequest ==
  ASSUME DbInv, NEW r \in Requests
  PROVE  /\ req[r] \in RequestRecord /\ Fits(req[r], created, joined, owned)
         /\ req \in [Requests -> RequestRecord]
  BY DEF DbInv, Typed, RequestsFit

\* The permission the routes demand.
LEMMA RequireRoleStep ==
  ASSUME DbInv, NEW r \in Requests, RequireRole(r)
  PROVE  DbInv' /\ Grows
<1> DEFINE q == req[r]
           pc == next(q.op)
           g == [q EXCEPT !.pc = pc]
<1>1. q \in RequestRecord /\ Fits(q, created, joined, owned) /\ q.pc = "permission" /\ Read(r)
  BY SameRequest DEF RequireRole, At
<1>2. /\ q.op \in Membership \cup Linking /\ q.by \in Users /\ q.cluster \in created
      /\ q.op \in {"addUsers", "removeUsers", "transferOwner"} => q.user \in Users
      /\ q.op = "setup" => q.seen \in Setups
      /\ q.op = "events" => q.seen \in Changes
  BY <1>1 DEF Fits, Asked, Placed
<1>3. /\ q.op = "addUsers" => pc = "addUsers"
      /\ q.op = "removeUsers" => pc = "removeCheck"
      /\ q.op = "updateRoles" => pc = "currentUsers"
      /\ q.op = "transferOwner" => pc = "getOwner"
      /\ q.op = "rename" => pc = "recordRename"
      /\ q.op = "setup" => pc = "tryAccess"
      /\ q.op = "events" => pc = "getSettings"
      /\ q.op = "install" => pc = "setPending"
  BY DEF next
<1>4. CASE ~hasMinRole(q.by, q.cluster, minRole(q.op))
  <2>1. Return(r)
    BY <1>4 DEF RequireRole
  <2>2. QED
    BY <1>1, <2>1, Ends
<1>5. CASE hasMinRole(q.by, q.cluster, minRole(q.op))
  <2>1. req' = [req EXCEPT ![r].pc = pc]
    BY <1>5 DEF RequireRole, Goto
  <2>2. req' = [req EXCEPT ![r] = g]
    BY <2>1, SameRequest
  <2>3. <<q.by, q.cluster>> \in owned
    <3>1. minRole(q.op) \in {"developer", "admin", "owner"}
      BY <1>2 DEF minRole, Membership, Linking
    <3>2. q.cluster \in ClusterIds /\ role[q.cluster][q.by] \in Roles \cup {None}
      BY <1>2 DEF DbInv, Typed
    <3>3. level[role[q.cluster][q.by]] >= level[minRole(q.op)]
      BY <1>5 DEF hasMinRole
    <3>4. level[role[q.cluster][q.by]] >= level["developer"]
      BY <3>1, <3>2, <3>3, Higher
    <3>5. role[q.cluster][q.by] \in {"developer", "admin", "owner"}
      BY <3>2, <3>4, Levels
    <3>6. QED
      BY <1>2, <3>2, <3>5 DEF DbInv, RolesKnown
  <2>4. pc \in Labels /\ pc \notin {"removeRow", "findUnused", "dropAccount"}
    BY <1>2, <1>3 DEF Labels, Named, Asked, Granted, Placed, Membership, Linking
  <2>5. /\ g \in RequestRecord /\ g.pc = pc /\ g.user = q.user /\ g.by = q.by
        /\ g.cluster = q.cluster /\ g.seen = q.seen /\ g.op = q.op
    BY <1>1, <2>4 DEF RequestRecord
  <2> HIDE DEF g, pc, q
  <2>6. Fits(g, created, joined, owned)
    BY <1>2, <1>3, <2>3, <2>5 DEF Fits, Named, Asked, Placed, Granted, Membership, Linking
  <2>7. QED
    BY <1>1, <2>2, <2>4, <2>5, <2>6, GoesOn
<1>6. QED
  BY <1>4, <1>5

(* --- The steps of Clusters that leave the memberships alone --- *)

\* A request goes on at another label.
LEMMA GotoFields ==
  ASSUME DbInv, NEW r \in Requests, NEW pc \in Labels, Goto(r, pc), NEW g,
         g = [req[r] EXCEPT !.pc = pc]
  PROVE  /\ g \in RequestRecord /\ req' = [req EXCEPT ![r] = g] /\ req'[r] = g
         /\ g.pc = pc /\ g.op = req[r].op /\ g.by = req[r].by /\ g.cluster = req[r].cluster
         /\ g.user = req[r].user /\ g.seen = req[r].seen /\ g.todo = req[r].todo
<1>1. req[r] \in RequestRecord /\ req \in [Requests -> RequestRecord]
  BY SameRequest
<1>2. g \in RequestRecord /\ req' = [req EXCEPT ![r] = g]
  BY <1>1 DEF Goto, RequestRecord
<1>3. /\ g.pc = pc /\ g.op = req[r].op /\ g.by = req[r].by /\ g.cluster = req[r].cluster
      /\ g.user = req[r].user /\ g.seen = req[r].seen /\ g.todo = req[r].todo
  BY <1>1 DEF RequestRecord
<1>4. QED
  BY <1>1, <1>2, <1>3

\* Signing in goes on, once it is known whether the user owns a cluster.
LEMMA FindOwnedStep ==
  ASSUME DbInv, NEW r \in Requests, FindOwned(r)
  PROVE  DbInv' /\ Grows
<1>1. PICK pc \in {"listForLogin", "insertCluster"} : Goto(r, pc)
  BY DEF FindOwned
<1> DEFINE g == [req[r] EXCEPT !.pc = pc]
<1>2. g = [req[r] EXCEPT !.pc = pc] /\ pc \in Labels
  BY DEF Labels, Named
<1> HIDE DEF g
<1>3. g \in RequestRecord /\ req' = [req EXCEPT ![r] = g] /\ g.pc = pc /\ g.user = req[r].user
  BY <1>1, <1>2, GotoFields
<1>4. req[r].user \in Users
  BY SameRequest DEF FindOwned, At, Fits, Named
<1>5. Fits(g, created, joined, owned)
  BY <1>3, <1>4 DEF Fits, Named, Asked, Placed, Granted
<1>6. QED
  BY <1>3, <1>5, GoesOn DEF FindOwned

\* An account is found or created.
LEMMA UpsertUserStep ==
  ASSUME DbInv, NEW r \in Requests, UpsertUser(r)
  PROVE  DbInv' /\ Grows
<1> DEFINE g == [req[r] EXCEPT !.pc = "findOwned"]
<1>1. g = [req[r] EXCEPT !.pc = "findOwned"] /\ "findOwned" \in Labels /\ Goto(r, "findOwned")
  BY DEF Labels, Named, UpsertUser
<1> HIDE DEF g
<1>2. /\ g \in RequestRecord /\ req' = [req EXCEPT ![r] = g] /\ req'[r] = g
      /\ g.pc = "findOwned" /\ g.user = req[r].user
  BY <1>1, GotoFields
<1>3. req[r].user \in Users
  BY SameRequest DEF UpsertUser, At, Fits, Named
<1>4. Fits(g, created', joined', owned')
  BY <1>2, <1>3 DEF Fits, Named, Asked, Placed, Granted
<1>5. Move(r)
  BY <1>2, <1>4, Moved DEF DbInv
<1>6. /\ UNCHANGED <<mix, membershipVars, raced>> /\ accounts \subseteq accounts'
      /\ UNCHANGED <<sessions, history, month, joined, owned>>
  BY DEF UpsertUser, kvVars, membershipVars
<1>7. /\ sessions' \in [Users -> Memberships \cup {None}]
      /\ history' \in [ClusterIds -> SUBSET Months] /\ month' \in Months
      /\ CachedRoleWasHeld'
  BY <1>6 DEF DbInv, Typed, CachedRoleWasHeld
<1>8. RemovalFits(req'[r], role', raced')
  BY <1>2, NotRemoving
<1>9. QED
  BY <1>5, <1>6, <1>7, <1>8, Quiet

\* What a listing reads for the session of a request.
LEMMA Lists ==
  ASSUME DbInv, NEW r \in Requests, NEW at \in {"createSession", "refreshSession"},
         req[r].user \in Users, Read(r),
         req' = [req EXCEPT ![r].seen = memberships(req[r].user), ![r].pc = at]
  PROVE  DbInv' /\ Grows
<1> DEFINE m == memberships(req[r].user)
           g == [req[r] EXCEPT !.seen = m, !.pc = at]
<1>1. req[r] \in RequestRecord /\ req \in [Requests -> RequestRecord]
  BY SameRequest
<1>2. m \in Memberships /\ Held(req[r].user, m, joined, owned)
  BY MembershipsHeld DEF DbInv
<1> HIDE DEF m
<1>3. req' = [req EXCEPT ![r].seen = m, ![r].pc = at]
  BY DEF m
<1>4. req' = [req EXCEPT ![r] = g]
  BY <1>1, <1>3
<1>5. m \in Seen /\ at \in Labels
  BY <1>2 DEF Seen, Labels, Named
<1>6. g \in RequestRecord
  BY <1>1, <1>5, WithSeen
<1>7. g.pc = at /\ g.seen = m /\ g.user = req[r].user
  BY <1>1 DEF RequestRecord
<1> HIDE DEF g
<1>8. Fits(g, created, joined, owned)
  BY <1>2, <1>7 DEF Fits, Named, Asked, Placed, Granted
<1>9. QED
  BY <1>4, <1>6, <1>7, <1>8, GoesOn

\* The memberships are listed for a login ...
LEMMA ListForLoginStep ==
  ASSUME DbInv, NEW r \in Requests, ListForLogin(r)
  PROVE  DbInv' /\ Grows
<1>1. req[r].user \in Users
  BY SameRequest DEF ListForLogin, At, Fits, Named
<1>2. Read(r) /\ req' = [req EXCEPT ![r].seen = memberships(req[r].user), ![r].pc = "createSession"]
  BY DEF ListForLogin
<1>3. QED
  BY <1>1, <1>2, Lists

\* ... and for a refresh, of the user who is refreshed.
LEMMA ListForRefreshStep ==
  ASSUME DbInv, NEW r \in Requests, ListForRefresh(r)
  PROVE  DbInv' /\ Grows
<1>1. req[r].user \in Users
  BY SameRequest DEF ListForRefresh, At, Fits, Named
<1>2. Read(r) /\ req' = [req EXCEPT ![r].seen = memberships(req[r].user), ![r].pc = "refreshSession"]
  BY DEF ListForRefresh, listed
<1>3. QED
  BY <1>1, <1>2, Lists

\* A session is written with what was listed for its user.
LEMMA SessionWritten ==
  ASSUME DbInv, NEW r \in Requests, At(r, "createSession") \/ At(r, "refreshSession"),
         sessions' = [sessions EXCEPT ![req[r].user] = req[r].seen],
         UNCHANGED <<joined, owned>>
  PROVE  sessions' \in [Users -> Memberships \cup {None}] /\ CachedRoleWasHeld'
<1>1. /\ req[r].user \in Users /\ req[r].seen \in Memberships
      /\ Held(req[r].user, req[r].seen, joined, owned)
  BY SameRequest DEF At, Fits, Named
<1>2. sessions \in [Users -> Memberships \cup {None}]
  BY DEF DbInv, Typed
<1>3. sessions' \in [Users -> Memberships \cup {None}]
  BY <1>1, <1>2
<1>4. ASSUME NEW u \in Users, NEW c \in ClusterIds
      PROVE  /\ sessions'[u] # None /\ sessions'[u][c] # None => <<u, c>> \in joined'
             /\ sessions'[u] # None /\ seniorOf(sessions'[u], c) => <<u, c>> \in owned'
  <2>1. CASE u = req[r].user
    <3>1. sessions'[u] = req[r].seen
      BY <1>2, <2>1
    <3>2. QED
      BY <1>1, <2>1, <3>1 DEF Held
  <2>2. CASE u # req[r].user
    <3>1. sessions'[u] = sessions[u]
      BY <1>2, <2>2
    <3>2. QED
      BY <3>1 DEF DbInv, CachedRoleWasHeld
  <2>3. QED
    BY <2>1, <2>2
<1>5. QED
  BY <1>3, <1>4 DEF CachedRoleWasHeld, seniorOf

\* A login creates a session.
LEMMA CreateSessionStep ==
  ASSUME DbInv, NEW r \in Requests, CreateSession(r)
  PROVE  DbInv' /\ Grows
<1>1. /\ UNCHANGED <<mix, membershipVars, raced, accounts, history, month, joined, owned>>
      /\ At(r, "createSession") /\ Return(r)
      /\ sessions' = [sessions EXCEPT ![req[r].user] = req[r].seen]
  BY DEF CreateSession, dbVars, membershipVars
<1>2. sessions' \in [Users -> Memberships \cup {None}] /\ CachedRoleWasHeld'
  BY <1>1, SessionWritten
<1>3. Move(r) /\ req'[r] = Idle
  BY <1>1, Returns DEF DbInv
<1>4. RemovalFits(req'[r], role', raced')
  BY <1>3, IdleTyped, NotRemoving
<1>5. history' \in [ClusterIds -> SUBSET Months] /\ month' \in Months
  BY <1>1 DEF DbInv, Typed
<1>6. QED
  BY <1>1, <1>2, <1>3, <1>4, <1>5, Quiet

\* A refresh writes what was listed, however old.
LEMMA RefreshSessionStep ==
  ASSUME DbInv, NEW r \in Requests, RefreshSession(r)
  PROVE  DbInv' /\ Grows
<1>1. /\ UNCHANGED <<mix, membershipVars, raced, accounts, history, month, joined, owned>>
      /\ At(r, "refreshSession") /\ Goto(r, "refresh")
      /\ sessions' = [sessions EXCEPT ![req[r].user] = req[r].seen]
  BY DEF RefreshSession, dbVars, membershipVars
<1>2. sessions' \in [Users -> Memberships \cup {None}] /\ CachedRoleWasHeld'
  BY <1>1, SessionWritten
<1> DEFINE g == [req[r] EXCEPT !.pc = "refresh"]
<1>3. g = [req[r] EXCEPT !.pc = "refresh"] /\ "refresh" \in Labels
  BY DEF Labels
<1> HIDE DEF g
<1>4. /\ g \in RequestRecord /\ req' = [req EXCEPT ![r] = g] /\ req'[r] = g /\ g.pc = "refresh"
  BY <1>1, <1>3, GotoFields
<1>5. Fits(g, created', joined', owned')
  BY <1>4, IdleFits
<1>6. Move(r)
  BY <1>4, <1>5, Moved DEF DbInv
<1>7. RemovalFits(req'[r], role', raced')
  BY <1>4, NotRemoving
<1>8. history' \in [ClusterIds -> SUBSET Months] /\ month' \in Months
  BY <1>1 DEF DbInv, Typed
<1>9. QED
  BY <1>1, <1>2, <1>6, <1>7, <1>8, Quiet

\* The next user is refreshed when he has a session.
LEMMA FindSessionStep ==
  ASSUME DbInv, NEW r \in Requests, NEW u \in Users, FindSession(r, u)
  PROVE  DbInv' /\ Grows
<1> DEFINE q == req[r]
           left == q.todo \ {u}
           pc == IF sessions[u] = None THEN "refresh" ELSE "listForRefresh"
           g == [q EXCEPT !.todo = left, !.user = u, !.pc = pc]
<1>1. q \in RequestRecord /\ req \in [Requests -> RequestRecord]
  BY SameRequest
<1>2. left \in SUBSET Users /\ pc \in {"refresh", "listForRefresh"} /\ pc \in Labels
  BY <1>1 DEF RequestRecord, Labels, Named
<1>3. req' = [req EXCEPT ![r].todo = left, ![r].user = u, ![r].pc = pc] /\ Read(r)
  BY <1>1 DEF FindSession
<1> HIDE DEF left, pc
<1>4. req' = [req EXCEPT ![r] = g]
  BY <1>1, <1>3
<1>5. g \in RequestRecord
  BY <1>1, <1>2, WithTodoUser
<1>6. g.pc = pc /\ g.user = u
  BY <1>1 DEF RequestRecord
<1> HIDE DEF g
<1>7. Fits(g, created, joined, owned)
  BY <1>2, <1>6 DEF Fits, Named, Asked, Placed, Granted
<1>8. QED
  BY <1>2, <1>3, <1>4, <1>5, <1>6, <1>7, GoesOn

\* A removal goes on only when the user it looked at is not an owner.
LEMMA RemoveCheckStep ==
  ASSUME DbInv, NEW r \in Requests, RemoveCheck(r)
  PROVE  DbInv' /\ Grows
<1>1. Read(r)
  BY DEF RemoveCheck
<1>2. CASE ~mayRemove(req[r].cluster, req[r].user)
  BY <1>1, <1>2, Ends DEF RemoveCheck
<1>3. CASE mayRemove(req[r].cluster, req[r].user)
  <2> DEFINE g == [req[r] EXCEPT !.pc = "removeRow"]
  <2>1. /\ g = [req[r] EXCEPT !.pc = "removeRow"] /\ "removeRow" \in Labels
        /\ Goto(r, "removeRow")
    BY <1>3 DEF Labels, Named, RemoveCheck
  <2> HIDE DEF g
  <2>2. /\ g \in RequestRecord /\ req' = [req EXCEPT ![r] = g] /\ req'[r] = g
        /\ g.pc = "removeRow" /\ g.user = req[r].user /\ g.cluster = req[r].cluster
        /\ g.by = req[r].by
    BY <2>1, GotoFields
  <2>3. /\ req[r].user \in Users /\ req[r].cluster \in created
        /\ <<req[r].by, req[r].cluster>> \in owned
    BY SameRequest DEF RemoveCheck, At, Fits, Named, Placed, Granted
  <2>4. Fits(g, created', joined', owned')
    BY <1>1, <2>2, <2>3 DEF Fits, Named, Asked, Placed, Granted, Read
  <2>5. Move(r)
    BY <2>2, <2>4, Moved DEF DbInv
  <2>6. RemovalFits(req'[r], role', raced')
    BY <1>1, <1>3, <2>2 DEF RemovalFits, Deletes, OwnerNoted, mayRemove, Read, dbVars
  <2>7. QED
    BY <1>1, <2>5, <2>6, Reads
<1>4. QED
  BY <1>2, <1>3

\* A request reads the users it will work on.
LEMMA ReadsUsers ==
  ASSUME DbInv, NEW r \in Requests, NEW pc \in {"updateRoles", "transfer"},
         NEW users \in SUBSET Users, Read(r),
         req[r].cluster \in created, <<req[r].by, req[r].cluster>> \in owned,
         pc = "transfer" => req[r].user \in Users,
         req' = [req EXCEPT ![r] = [req[r] EXCEPT !.pc = pc, !.todo = users]]
  PROVE  DbInv' /\ Grows
<1> DEFINE g == [req[r] EXCEPT !.pc = pc, !.todo = users]
<1>1. req[r] \in RequestRecord /\ pc \in Labels
  BY SameRequest DEF Labels, Named, Placed
<1>2. g \in RequestRecord
  BY <1>1, WithTodo
<1>3. g.pc = pc /\ g.user = req[r].user /\ g.cluster = req[r].cluster /\ g.by = req[r].by
  BY <1>1 DEF RequestRecord
<1>4. req' = [req EXCEPT ![r] = g]
  OBVIOUS
<1> HIDE DEF g
<1>5. Fits(g, created, joined, owned)
  BY <1>3 DEF Fits, Named, Asked, Placed, Granted
<1>6. QED
  BY <1>2, <1>3, <1>4, <1>5, GoesOn

\* A role update reads the members it will drop.
LEMMA CurrentUsersStep ==
  ASSUME DbInv, NEW r \in Requests, CurrentUsers(r)
  PROVE  DbInv' /\ Grows
<1> DEFINE users == {u \in Users : role[req[r].cluster][u] \notin {None, "owner"}}
<1>1. users \in SUBSET Users
  OBVIOUS
<1>2. Read(r) /\ req' = [req EXCEPT ![r].pc = "updateRoles", ![r].todo = users]
  BY DEF CurrentUsers
<1> HIDE DEF users
<1>3. req' = [req EXCEPT ![r] = [req[r] EXCEPT !.pc = "updateRoles", !.todo = users]]
  BY <1>2, SameRequest
<1>4. req[r].cluster \in created /\ <<req[r].by, req[r].cluster>> \in owned
  BY SameRequest DEF CurrentUsers, At, Fits, Placed, Granted
<1>5. QED
  BY <1>1, <1>2, <1>3, <1>4, ReadsUsers

\* A transfer reads the owner before.
LEMMA GetOwnerStep ==
  ASSUME DbInv, NEW r \in Requests, GetOwner(r)
  PROVE  DbInv' /\ Grows
<1> DEFINE users == owners(req[r].cluster)
<1>1. users \in SUBSET Users
  BY DEF owners
<1>2. Read(r) /\ req' = [req EXCEPT ![r].todo = users, ![r].pc = "transfer"]
  BY DEF GetOwner
<1> HIDE DEF users
<1>3. req' = [req EXCEPT ![r] = [req[r] EXCEPT !.pc = "transfer", !.todo = users]]
  BY <1>2, SameRequest
<1>4. /\ req[r].cluster \in created /\ req[r].user \in Users
      /\ <<req[r].by, req[r].cluster>> \in owned
  BY SameRequest DEF GetOwner, At, Fits, Placed, Named, Granted
<1>5. QED
  BY <1>1, <1>2, <1>3, <1>4, ReadsUsers

\* A rename is counted by the history it read.
LEMMA RecordRenameStep ==
  ASSUME DbInv, NEW r \in Requests, RecordRename(r)
  PROVE  DbInv' /\ Grows
<1> DEFINE active == {m \in history[req[r].cluster] : m > month - 12}
           months == active \cup {month}
           g == [req[r] EXCEPT !.seen = months, !.pc = "putRename"]
<1>1. Read(r)
  BY DEF RecordRename
<1>2. CASE Return(r)
  BY <1>1, <1>2, Ends
<1>3. CASE req' = [req EXCEPT ![r].seen = months, ![r].pc = "putRename"]
  <2>1. req[r] \in RequestRecord /\ req \in [Requests -> RequestRecord]
    BY SameRequest
  <2>2. req[r].cluster \in created /\ req[r].cluster \in ClusterIds
    BY SameRequest DEF RecordRename, At, Fits, Placed, DbInv, Typed
  <2>3. months \in SUBSET Months
    BY <2>2 DEF DbInv, Typed
  <2> HIDE DEF months
  <2>4. req' = [req EXCEPT ![r] = g]
    BY <1>3, <2>1
  <2>5. months \in Seen /\ "putRename" \in Labels
    BY <2>3 DEF Seen, Labels, Placed
  <2>6. g \in RequestRecord
    BY <2>1, <2>5, WithSeen
  <2>7. g.pc = "putRename" /\ g.cluster = req[r].cluster /\ g.seen = months
    BY <2>1 DEF RequestRecord
  <2> HIDE DEF g
  <2>8. Fits(g, created, joined, owned)
    BY <2>2, <2>3, <2>7 DEF Fits, Named, Asked, Placed, Granted
  <2>9. QED
    BY <1>1, <2>4, <2>6, <2>7, <2>8, GoesOn
<1>4. QED
  BY <1>2, <1>3 DEF RecordRename

\* The history of the renames is written.
LEMMA PutRenameStep ==
  ASSUME DbInv, NEW r \in Requests, PutRename(r)
  PROVE  DbInv' /\ Grows
<1> DEFINE g == [req[r] EXCEPT !.pc = "renamed"]
<1>1. g = [req[r] EXCEPT !.pc = "renamed"] /\ "renamed" \in Labels /\ Goto(r, "renamed")
  BY DEF Labels, Placed, PutRename
<1> HIDE DEF g
<1>2. /\ g \in RequestRecord /\ req' = [req EXCEPT ![r] = g] /\ req'[r] = g
      /\ g.pc = "renamed" /\ g.cluster = req[r].cluster
  BY <1>1, GotoFields
<1>3. req[r].cluster \in created /\ req[r].seen \in SUBSET Months
  BY SameRequest DEF PutRename, At, Fits, Placed
<1>4. /\ UNCHANGED <<mix, membershipVars, raced, accounts, sessions, month, created, joined, owned>>
      /\ history' = [history EXCEPT ![req[r].cluster] = req[r].seen]
  BY DEF PutRename, dbVars, membershipVars
<1>5. Fits(g, created', joined', owned')
  BY <1>2, <1>3, <1>4 DEF Fits, Named, Asked, Placed, Granted
<1>6. Move(r) /\ RemovalFits(req'[r], role', raced')
  BY <1>2, <1>5, Moved, NotRemoving DEF DbInv
<1>7. /\ history' \in [ClusterIds -> SUBSET Months] /\ month' \in Months
      /\ sessions' \in [Users -> Memberships \cup {None}] /\ CachedRoleWasHeld'
  BY <1>3, <1>4 DEF DbInv, Typed, CachedRoleWasHeld
<1>8. QED
  BY <1>4, <1>6, <1>7, Quiet

\* The members are refreshed with the new name.
LEMMA RenamedStep ==
  ASSUME DbInv, NEW r \in Requests, Renamed(r)
  PROVE  DbInv' /\ Grows
<1>1. PICK users \in SUBSET Users : Refresh(r, users)
  BY DEF Renamed
<1>2. Move(r) /\ req'[r].pc = "refresh"
  BY <1>1, Refreshes DEF DbInv
<1>3. QED
  BY <1>2, Reads, NotRemoving DEF Renamed

\* The clock of the renames moves.
LEMMA TickStep ==
  ASSUME DbInv, Tick
  PROVE  DbInv' /\ Grows
<1>1. /\ UNCHANGED <<mix, accounts, uninitialized, role, sessions, history, req, created, joined, owned, raced>>
      /\ month < LastMonth /\ month' = month + 1
  BY DEF Tick, dbVars, kvVars
<1>2. Typed'
  BY <1>1, ClustersAssumption DEF DbInv, Typed, Months
<1>3. Grows
  BY <1>1 DEF Grows
<1>4. RequestsFit' /\ RolesKnown' /\ CachedRoleWasHeld'
  BY <1>1 DEF DbInv, RequestsFit, RolesKnown, CachedRoleWasHeld
<1>5. MembersInv'
  BY <1>1 DEF DbInv, MembersInv, OneOwner, RemovalsRaced, owners, ownerRaced
<1>6. QED
  BY <1>2, <1>3, <1>4, <1>5 DEF DbInv

(* --- The steps that write the memberships --- *)

\* What is left to show of a step that writes them.
LEMMA Writes ==
  ASSUME DbInv, NEW r \in Requests, NEW new \in RoleTable, SetRoles(new),
         \A u \in Users, c \in ClusterIds :
           new[c][u] \in {"developer", "admin"} => <<u, c>> \in owned,
         UNCHANGED <<mix, sessions, history, month>>, Move(r), MembersInv'
  PROVE  DbInv' /\ Grows
<1>1. /\ Grows /\ role' = new /\ RolesKnown'
      /\ created' \subseteq ClusterIds
      /\ joined' \subseteq Users \X ClusterIds /\ owned' \subseteq Users \X ClusterIds
  BY RolesSet DEF DbInv
<1>2. req' \in [Requests -> RequestRecord] /\ RequestsFit'
  BY <1>1, RequestsMove DEF DbInv
<1>3. Typed'
  BY <1>1, <1>2 DEF DbInv, Typed, RoleTable
<1>4. CachedRoleWasHeld'
  BY <1>1 DEF DbInv, CachedRoleWasHeld, Grows
<1>5. QED
  BY <1>1, <1>2, <1>3, <1>4 DEF DbInv

\* The cluster and the user of a removal that goes on.
LEMMA RemovalOf ==
  ASSUME DbInv, NEW s \in Requests, req[s].pc \in {"removeRow", "findUnused", "dropAccount"}
  PROVE  req[s].user \in Users /\ req[s].cluster \in created /\ req[s].cluster \in ClusterIds
  BY SameRequest DEF Fits, Named, Placed, DbInv, Typed

\* What a step gives it notes, where a removal has looked already, and it waits for
\* the removals that have deleted the row.
Noted(r, new) ==
  /\ raced \subseteq raced'
  /\ \A u \in Users, c \in ClusterIds :
       \/ new[c][u] \in {None, role[c][u]}
       \/ role[c][u] # None /\ new[c][u] # "owner"
       \/ /\ new[c][u] \in Roles /\ ~Locked(r, c, u)
          /\ Endangered(u, c) => <<u, c, new[c][u]>> \in raced'

\* The removals of other requests still fit.
LEMMA OthersRaced ==
  ASSUME DbInv, NEW r \in Requests, NEW s \in Requests, s # r, NEW new \in RoleTable,
         Noted(r, new)
  PROVE  RemovalFits(req[s], new, raced')
<1> DEFINE q == req[s]
           u == q.user
<1>1. RemovalFits(q, role, raced)
  BY DEF DbInv, MembersInv, RemovalsRaced
<1>2. CASE q.pc \notin {"removeRow", "findUnused", "dropAccount"}
  BY <1>2, NotRemoving
<1>3. CASE q.pc \in {"removeRow", "findUnused", "dropAccount"}
  <2>1. u \in Users /\ q.cluster \in ClusterIds
    BY <1>3, RemovalOf
  <2>2. ASSUME NEW d \in ClusterIds
        PROVE  \/ new[d][u] \in {None, role[d][u]}
               \/ role[d][u] # None /\ new[d][u] # "owner"
               \/ /\ new[d][u] \in Roles /\ ~Locked(r, d, u)
                  /\ Endangered(u, d) => <<u, d, new[d][u]>> \in raced'
    BY <2>1 DEF Noted
  <2>3. raced \subseteq raced' /\ "owner" # None
    BY ClustersAssumption DEF Noted, Roles
  <2>4. Deletes(q) => OwnerNoted(u, q.cluster, new, raced')
    <3> SUFFICES ASSUME Deletes(q), new[q.cluster][u] = "owner"
                 PROVE  <<u, q.cluster, "owner">> \in raced'
      BY DEF OwnerNoted
    <3>1. CASE role[q.cluster][u] = "owner"
      BY <1>1, <2>3, <3>1 DEF RemovalFits, OwnerNoted
    <3>2. CASE role[q.cluster][u] # "owner"
      <4>1. /\ ~Locked(r, q.cluster, u)
            /\ Endangered(u, q.cluster) => <<u, q.cluster, "owner">> \in raced'
        BY <2>1, <2>2, <2>3, <3>2
      <4>2. q.pc = "removeRow"
        BY <4>1 DEF Locked, Deletes
      <4>3. Endangered(u, q.cluster)
        BY <4>2 DEF Endangered, At
      <4>4. QED
        BY <4>1, <4>3
    <3>3. QED
      BY <3>1, <3>2
  <2>5. ASSUME q.pc = "dropAccount", NEW d \in ClusterIds
        PROVE  \/ new[d][u] = None
               \/ d = q.cluster /\ u \in q.todo
               \/ (\E as \in Roles : <<u, d, as>> \in raced') /\ OwnerNoted(u, d, new, raced')
    <3>1. Endangered(u, d)
      BY <2>5 DEF Endangered, At
    <3>2. \/ role[d][u] = None
          \/ d = q.cluster /\ u \in q.todo
          \/ (\E as \in Roles : <<u, d, as>> \in raced) /\ OwnerNoted(u, d, role, raced)
      BY <1>1, <2>5 DEF RemovalFits
    <3>3. CASE new[d][u] \in {None, role[d][u]}
      BY <2>3, <3>2, <3>3 DEF OwnerNoted
    <3>4. CASE role[d][u] # None /\ new[d][u] # "owner"
      BY <2>3, <3>2, <3>4 DEF OwnerNoted
    <3>5. CASE new[d][u] \in Roles /\ <<u, d, new[d][u]>> \in raced'
      BY <3>5 DEF OwnerNoted
    <3>6. QED
      BY <2>2, <3>1, <3>3, <3>4, <3>5
  <2>6. QED
    BY <2>4, <2>5 DEF RemovalFits
<1>4. QED
  BY <1>2, <1>3

\* All removals fit after a step of a request that is not one then.
LEMMA RemovalsFit ==
  ASSUME DbInv, NEW r \in Requests, NEW new \in RoleTable, role' = new, Noted(r, new), Grows,
         Move(r), req'[r].pc \notin {"removeRow", "findUnused", "dropAccount"}
  PROVE  RemovalsRaced'
<1> SUFFICES ASSUME NEW s \in Requests
             PROVE  RemovalFits(req'[s], role', raced')
  BY DEF RemovalsRaced
<1>1. \A t \in Requests : t # r => req'[t] = req[t]
  BY RequestsMove DEF DbInv
<1>2. CASE s = r
  BY <1>2, NotRemoving
<1>3. CASE s # r
  <2>1. req'[s] = req[s] /\ RemovalFits(req[s], new, raced')
    BY <1>1, <1>3, OthersRaced
  <2>2. QED
    BY <2>1
<1>4. QED
  BY <1>2, <1>3

\* A step that leaves the owners as they are.
LEMMA KeepsOwners ==
  ASSUME DbInv, NEW r \in Requests, NEW new \in RoleTable, SetRoles(new),
         \A u \in Users, c \in ClusterIds :
           /\ new[c][u] = "owner" <=> role[c][u] = "owner"
           /\ new[c][u] \in {"developer", "admin"} => role[c][u] \in {"developer", "admin"},
         Noted(r, new), UNCHANGED <<mix, sessions, history, month>>,
         Move(r), req'[r].pc \notin {"removeRow", "findUnused", "dropAccount"}
  PROVE  DbInv' /\ Grows
<1>1. \A u \in Users, c \in ClusterIds : new[c][u] \in {"developer", "admin"} => <<u, c>> \in owned
  BY DEF DbInv, RolesKnown
<1>2. /\ Grows /\ role' = new
      /\ \A c \in ClusterIds : c \in created' <=> c \in created \/ \E u \in Users : new[c][u] = "owner"
      /\ created' \subseteq ClusterIds
  BY <1>1, RolesSet DEF DbInv
<1>3. created' = created
  BY <1>2 DEF DbInv, RolesKnown, Typed
<1>4. \A c \in ClusterIds : owners(c)' = owners(c)
  BY <1>2 DEF owners
<1>5. OneOwner'
  BY <1>3, <1>4 DEF DbInv, Typed, MembersInv, OneOwner, ownerRaced, Noted
<1>6. RemovalsRaced'
  BY <1>2, RemovalsFit
<1>7. QED
  BY <1>1, <1>5, <1>6, Writes DEF MembersInv

\* A step whose query changed no row.
LEMMA WritesNothing ==
  ASSUME DbInv, NEW r \in Requests, Return(r),
         UNCHANGED <<mix, membershipVars, accounts, uninitialized, kvVars, month, raced>>
  PROVE  DbInv' /\ Grows
  BY Ends DEF Read, membershipVars, dbVars, kvVars

\* An invitation is answered.
LEMMA Answers ==
  ASSUME DbInv, NEW r \in Requests, NEW u \in Users, NEW c \in ClusterIds, NEW x \in {"viewer", None},
         role[c][u] = "invited", SetRoles([role EXCEPT ![c][u] = x]), Refresh(r, {u}),
         UNCHANGED <<mix, accounts, uninitialized, kvVars, month, raced>>
  PROVE  DbInv' /\ Grows
<1> DEFINE new == [role EXCEPT ![c][u] = x]
<1>1. x \in Roles \cup {None} /\ x # "owner" /\ x \notin {"developer", "admin"}
  BY ClustersAssumption DEF Roles
<1>2. /\ new \in RoleTable
      /\ \A d \in ClusterIds, v \in Users : new[d][v] = IF d = c /\ v = u THEN x ELSE role[d][v]
  BY <1>1, EntryWritten DEF DbInv
<1>3. SetRoles(new) /\ UNCHANGED <<mix, sessions, history, month, raced>>
  BY DEF kvVars
<1> HIDE DEF new
<1>4. Move(r) /\ req'[r].pc \notin {"removeRow", "findUnused", "dropAccount"}
  BY Refreshes DEF DbInv
<1>5. None \notin Roles
  BY ClustersAssumption
<1>6. \A v \in Users, d \in ClusterIds :
        /\ new[d][v] = "owner" <=> role[d][v] = "owner"
        /\ new[d][v] \in {"developer", "admin"} => role[d][v] \in {"developer", "admin"}
  BY <1>1, <1>2
<1>7. Noted(r, new)
  BY <1>1, <1>2, <1>3, <1>5 DEF Noted, Roles
<1>8. QED
  BY <1>2, <1>3, <1>4, <1>6, <1>7, KeepsOwners

\* An invitation makes a viewer, ...
LEMMA AcceptInviteStep ==
  ASSUME DbInv, NEW r \in Requests, AcceptInvite(r)
  PROVE  DbInv' /\ Grows
<1>1. req[r].by \in Users /\ req[r].cluster \in ClusterIds
  BY SameRequest DEF AcceptInvite, At, Fits, Asked, Placed, DbInv, Typed
<1>2. UNCHANGED <<mix, accounts, uninitialized, kvVars, month, raced>>
  BY DEF AcceptInvite
<1>3. CASE role[req[r].cluster][req[r].by] = "invited"
  <2>1. /\ SetRoles([role EXCEPT ![req[r].cluster][req[r].by] = "viewer"])
        /\ Refresh(r, {req[r].by})
    BY <1>3 DEF AcceptInvite
  <2>2. QED
    BY <1>1, <1>2, <1>3, <2>1, Answers
<1>4. CASE role[req[r].cluster][req[r].by] # "invited"
  BY <1>2, <1>4, WritesNothing DEF AcceptInvite
<1>5. QED
  BY <1>3, <1>4

\* ... or goes.
LEMMA DeclineInviteStep ==
  ASSUME DbInv, NEW r \in Requests, DeclineInvite(r)
  PROVE  DbInv' /\ Grows
<1>1. req[r].by \in Users /\ req[r].cluster \in ClusterIds
  BY SameRequest DEF DeclineInvite, At, Fits, Asked, Placed, DbInv, Typed
<1>2. UNCHANGED <<mix, accounts, uninitialized, kvVars, month, raced>>
  BY DEF DeclineInvite
<1>3. CASE role[req[r].cluster][req[r].by] = "invited"
  <2>1. /\ SetRoles([role EXCEPT ![req[r].cluster][req[r].by] = None])
        /\ Refresh(r, {req[r].by})
    BY <1>3 DEF DeclineInvite
  <2>2. QED
    BY <1>1, <1>2, <1>3, <2>1, Answers
<1>4. CASE role[req[r].cluster][req[r].by] # "invited"
  BY <1>2, <1>4, WritesNothing DEF DeclineInvite
<1>5. QED
  BY <1>3, <1>4

\* A user is invited unless there is a row for him.
LEMMA AddUsersStep ==
  ASSUME DbInv, NEW r \in Requests, AddUsers(r)
  PROVE  DbInv' /\ Grows
<1> DEFINE u == req[r].user
           c == req[r].cluster
           new == [role EXCEPT ![c][u] = "invited"]
<1>1. u \in Users /\ c \in ClusterIds
  BY SameRequest DEF AddUsers, At, Fits, Named, Placed, DbInv, Typed
<1>2. Return(r) /\ UNCHANGED <<mix, sessions, history, month>> /\ ~Locked(r, c, u)
  BY DEF AddUsers, kvVars
<1>3. CASE role[c][u] # None
  <2>1. UNCHANGED <<mix, membershipVars, raced>>
    BY <1>3 DEF AddUsers
  <2>2. /\ sessions' \in [Users -> Memberships \cup {None}]
        /\ history' \in [ClusterIds -> SUBSET Months] /\ month' \in Months
        /\ CachedRoleWasHeld'
    BY <1>2, <2>1 DEF DbInv, Typed, CachedRoleWasHeld, membershipVars
  <2>3. Move(r) /\ RemovalFits(req'[r], role', raced')
    BY <1>2, Returns, IdleTyped, NotRemoving DEF DbInv
  <2>4. QED
    BY <2>1, <2>2, <2>3, Quiet
<1>4. CASE role[c][u] = None
  <2>1. SetRoles(new) /\ NoteRace(u, c, "invited")
    BY <1>4 DEF AddUsers
  <2>2. "invited" \in Roles \cup {None} /\ "owner" # None /\ None \notin {"developer", "admin"}
    BY ClustersAssumption DEF Roles
  <2> HIDE DEF u, c
  <2>3. /\ new \in RoleTable
        /\ \A d \in ClusterIds, v \in Users :
             new[d][v] = IF d = c /\ v = u THEN "invited" ELSE role[d][v]
    BY <1>1, <2>2, EntryWritten DEF DbInv
  <2> HIDE DEF new
  <2>4. Move(r) /\ req'[r].pc \notin {"removeRow", "findUnused", "dropAccount"}
    BY <1>2, Returns, IdleTyped DEF DbInv
  <2>5. \A v \in Users, d \in ClusterIds :
          /\ new[d][v] = "owner" <=> role[d][v] = "owner"
          /\ new[d][v] \in {"developer", "admin"} => role[d][v] \in {"developer", "admin"}
    BY <1>4, <2>2, <2>3
  <2>6. Noted(r, new)
    BY <1>2, <2>1, <2>3 DEF Noted, NoteRace, Roles
  <2>7. QED
    BY <1>2, <2>1, <2>3, <2>4, <2>5, <2>6, KeepsOwners
<1>5. QED
  BY <1>3, <1>4

\* The members that are dropped are no owners when they are.
LEMMA UpdateRolesStep ==
  ASSUME DbInv, NEW r \in Requests, UpdateRoles(r)
  PROVE  DbInv' /\ Grows
<1> DEFINE c == req[r].cluster
           drop == dropped(c, req[r].todo)
           new == [role EXCEPT ![c] = [u \in Users |-> IF u \in drop THEN None ELSE @[u]]]
<1>1. c \in ClusterIds
  BY SameRequest DEF UpdateRoles, At, Fits, Placed, DbInv, Typed
<1>2. /\ SetRoles(new) /\ Return(r)
      /\ UNCHANGED <<mix, sessions, history, month, raced>>
  BY DEF UpdateRoles, kvVars
<1>3. role \in RoleTable
  BY DEF DbInv, Typed, RoleTable
<1>4. \A u \in drop : role[c][u] # "owner"
  BY DEF dropped
<1>5. "owner" # None /\ None \notin {"developer", "admin"}
  BY ClustersAssumption DEF Roles
<1> HIDE DEF c, drop
<1>6. /\ new \in RoleTable
      /\ \A d \in ClusterIds, v \in Users :
           new[d][v] = IF d = c /\ v \in drop THEN None ELSE role[d][v]
  BY <1>1, <1>3 DEF RoleTable
<1> HIDE DEF new
<1>7. Move(r) /\ req'[r].pc \notin {"removeRow", "findUnused", "dropAccount"}
  BY <1>2, Returns, IdleTyped DEF DbInv
<1>8. \A v \in Users, d \in ClusterIds :
        /\ new[d][v] = "owner" <=> role[d][v] = "owner"
        /\ new[d][v] \in {"developer", "admin"} => role[d][v] \in {"developer", "admin"}
  BY <1>4, <1>5, <1>6
<1>9. Noted(r, new)
  BY <1>2, <1>6 DEF Noted
<1>10. QED
  BY <1>2, <1>6, <1>7, <1>8, <1>9, KeepsOwners

\* Memberships go, of an owner only after a race.
LEMMA Drops ==
  ASSUME DbInv, NEW r \in Requests, NEW new \in RoleTable, SetRoles(new), req[r].user \in Users,
         Refresh(r, {req[r].user}), UNCHANGED <<mix, sessions, history, month, raced>>,
         \A u \in Users, c \in ClusterIds :
           \/ new[c][u] = role[c][u]
           \/ new[c][u] = None /\ OwnerNoted(u, c, role, raced)
  PROVE  DbInv' /\ Grows
<1>1. "owner" # None /\ None \notin {"developer", "admin"}
  BY ClustersAssumption DEF Roles
<1>2. \A u \in Users, c \in ClusterIds :
        /\ new[c][u] \in {"developer", "admin"} => <<u, c>> \in owned
        /\ new[c][u] = "owner" => role[c][u] = "owner"
  BY <1>1 DEF DbInv, RolesKnown
<1>3. /\ Grows /\ role' = new /\ created' \subseteq ClusterIds
      /\ \A c \in ClusterIds : c \in created' <=> c \in created \/ \E u \in Users : new[c][u] = "owner"
  BY <1>2, RolesSet DEF DbInv
<1>4. created' = created
  <2>1. \A c \in ClusterIds : c \in created' => c \in created
    BY <1>2, <1>3 DEF DbInv, RolesKnown
  <2>2. created \subseteq created'
    BY <1>3 DEF Grows
  <2>3. QED
    BY <1>3, <2>1, <2>2
<1>5. Move(r) /\ req'[r].pc = "refresh"
  BY Refreshes DEF DbInv
<1>6. Noted(r, new)
  BY DEF Noted
<1>7. RemovalsRaced'
  BY <1>3, <1>5, <1>6, RemovalsFit
<1>8. OneOwner'
  <2> SUFFICES ASSUME NEW c \in created
               PROVE  \/ \E u \in Users : owners(c)' = {u}
                      \/ owners(c)' = {} /\ ownerRaced(c)'
    BY <1>4 DEF OneOwner
  <2>1. c \in ClusterIds
    BY DEF DbInv, Typed
  <2>2. owners(c)' = {u \in Users : new[c][u] = "owner"} /\ owners(c) = {u \in Users : role[c][u] = "owner"}
    BY <1>3 DEF owners
  <2>3. owners(c)' \subseteq owners(c)
    BY <1>2, <2>1, <2>2
  <2>4. ownerRaced(c)' = ownerRaced(c)
    BY DEF ownerRaced
  <2>5. CASE owners(c) = {} /\ ownerRaced(c)
    BY <2>3, <2>4, <2>5
  <2>6. ASSUME NEW u \in Users, owners(c) = {u}
        PROVE  owners(c)' = {u} \/ (owners(c)' = {} /\ ownerRaced(c))
    <3>1. role[c][u] = "owner"
      BY <2>2, <2>6
    <3>2. CASE new[c][u] = role[c][u]
      BY <2>2, <2>3, <2>6, <3>1, <3>2
    <3>3. CASE new[c][u] = None /\ OwnerNoted(u, c, role, raced)
      <4>1. <<u, c, "owner">> \in raced
        BY <3>1, <3>3 DEF OwnerNoted
      <4>2. owners(c)' = {}
        BY <1>1, <2>2, <2>3, <2>6, <3>3
      <4>3. QED
        BY <4>1, <4>2 DEF ownerRaced
    <3>4. QED
      BY <2>1, <3>2, <3>3
  <2>7. QED
    BY <2>4, <2>5, <2>6 DEF DbInv, MembersInv, OneOwner
<1>9. QED
  BY <1>2, <1>5, <1>7, <1>8, Writes DEF MembersInv

\* What a removal that goes on knows.
LEMMA RemovalKnows ==
  ASSUME DbInv, NEW r \in Requests, req[r].pc \in {"removeRow", "findUnused", "dropAccount"}
  PROVE  /\ req[r].user \in Users /\ req[r].cluster \in created /\ req[r].cluster \in ClusterIds
         /\ <<req[r].by, req[r].cluster>> \in owned
         /\ RemovalFits(req[r], role, raced)
<1>1. <<req[r].by, req[r].cluster>> \in owned
  BY SameRequest DEF Fits, Granted
<1>2. QED
  BY <1>1, RemovalOf DEF DbInv, MembersInv, RemovalsRaced

\* The row a removal has deleted.
LEMMA WithoutRow ==
  ASSUME DbInv, NEW r \in Requests, req[r].user \in Users, req[r].cluster \in ClusterIds
  PROVE  /\ without(r) \in RoleTable
         /\ \A d \in ClusterIds, v \in Users :
              without(r)[d][v] = IF d = req[r].cluster /\ v = req[r].user /\ v \in req[r].todo
                                 THEN None ELSE role[d][v]
<1>1. role \in RoleTable
  BY DEF DbInv, Typed, RoleTable
<1>2. CASE req[r].user \in req[r].todo
  BY <1>2, EntryWritten DEF without, DbInv
<1>3. CASE req[r].user \notin req[r].todo
  BY <1>1, <1>3 DEF without
<1>4. QED
  BY <1>2, <1>3

\* The row of a member is deleted, but for the commit.
LEMMA RemoveRowStep ==
  ASSUME DbInv, NEW r \in Requests, RemoveRow(r)
  PROVE  DbInv' /\ Grows
<1> DEFINE users == IF role[req[r].cluster][req[r].user] = None THEN {} ELSE {req[r].user}
           g == [req[r] EXCEPT !.pc = "findUnused", !.todo = users]
<1>1. At(r, "removeRow") /\ Read(r) /\ req' = [req EXCEPT ![r].pc = "findUnused", ![r].todo = users]
  BY DEF RemoveRow
<1>2. /\ req[r].user \in Users /\ req[r].cluster \in created
      /\ <<req[r].by, req[r].cluster>> \in owned
      /\ OwnerNoted(req[r].user, req[r].cluster, role, raced)
  BY <1>1, RemovalKnows DEF At, RemovalFits, Deletes
<1>3. users \in SUBSET Users /\ "findUnused" \in Labels
  BY <1>2 DEF Labels, Named
<1> HIDE DEF users
<1>4. req[r] \in RequestRecord /\ req \in [Requests -> RequestRecord]
  BY SameRequest
<1>5. g \in RequestRecord /\ req' = [req EXCEPT ![r] = g]
  BY <1>1, <1>3, <1>4, WithTodo
<1>6. /\ g.pc = "findUnused" /\ g.user = req[r].user /\ g.cluster = req[r].cluster
      /\ g.by = req[r].by
  BY <1>4 DEF RequestRecord
<1> HIDE DEF g
<1>7. Fits(g, created', joined', owned')
  BY <1>1, <1>2, <1>6 DEF Fits, Named, Asked, Placed, Granted, Read
<1>8. Move(r) /\ req'[r] = g
  BY <1>4, <1>5, <1>7, Moved DEF DbInv
<1>9. RemovalFits(g, role, raced)
  BY <1>2, <1>6 DEF RemovalFits
<1>10. RemovalFits(req'[r], role', raced')
  BY <1>1, <1>8, <1>9 DEF Read, dbVars
<1>11. QED
  BY <1>1, <1>8, <1>10, Reads

\* The clean-up looks for other memberships.
LEMMA FindUnusedStep ==
  ASSUME DbInv, NEW r \in Requests, FindUnused(r)
  PROVE  DbInv' /\ Grows
<1> DEFINE u == req[r].user
           c == req[r].cluster
           left == without(r)
<1>1. At(r, "findUnused") /\ UNCHANGED <<mix, accounts, uninitialized, kvVars, month, raced>>
  BY DEF FindUnused
<1>2. /\ u \in Users /\ c \in created /\ c \in ClusterIds /\ <<req[r].by, c>> \in owned
      /\ RemovalFits(req[r], role, raced)
  BY <1>1, RemovalKnows DEF At
<1>3. /\ left \in RoleTable
      /\ \A d \in ClusterIds, v \in Users :
           left[d][v] = IF d = c /\ v = u /\ v \in req[r].todo THEN None ELSE role[d][v]
  BY <1>2, WithoutRow
<1>4. CASE ~unused(left, c, u)
  <2>1. SetRoles(left) /\ Refresh(r, {u}) /\ UNCHANGED <<mix, sessions, history, month, raced>>
    BY <1>1, <1>4 DEF FindUnused, kvVars
  <2>2. u \in req[r].todo => OwnerNoted(u, c, role, raced)
    BY <1>1, <1>2 DEF At, RemovalFits, Deletes
  <2> HIDE DEF left
  <2>3. \A v \in Users, d \in ClusterIds :
          \/ left[d][v] = role[d][v]
          \/ left[d][v] = None /\ OwnerNoted(v, d, role, raced)
    BY <1>3, <2>2
  <2>4. QED
    BY <1>2, <1>3, <2>1, <2>3, Drops
<1>5. CASE unused(left, c, u)
  <2> DEFINE g == [req[r] EXCEPT !.pc = "dropAccount"]
  <2>1. /\ g = [req[r] EXCEPT !.pc = "dropAccount"] /\ "dropAccount" \in Labels
        /\ Goto(r, "dropAccount") /\ UNCHANGED membershipVars
    BY <1>5 DEF Labels, Named, FindUnused
  <2> HIDE DEF g
  <2>2. /\ g \in RequestRecord /\ req' = [req EXCEPT ![r] = g] /\ req'[r] = g
        /\ g.pc = "dropAccount" /\ g.user = u /\ g.cluster = c /\ g.by = req[r].by
        /\ g.todo = req[r].todo
    BY <2>1, GotoFields
  <2>3. Read(r)
    BY <1>1, <2>1 DEF Read, dbVars, membershipVars
  <2>4. Fits(g, created', joined', owned')
    BY <1>2, <2>2, <2>3 DEF Fits, Named, Asked, Placed, Granted, Read
  <2>5. Move(r)
    BY <2>2, <2>4, Moved DEF DbInv
  <2>6. \A d \in ClusterIds : role[d][u] = None \/ (d = c /\ u \in req[r].todo)
    BY <1>2, <1>3, <1>5 DEF unused
  <2>7. RemovalFits(g, role, raced)
    BY <1>1, <1>2, <2>2, <2>6 DEF RemovalFits, Deletes, At
  <2>8. RemovalFits(req'[r], role', raced')
    BY <2>2, <2>3, <2>7 DEF Read, dbVars
  <2>9. QED
    BY <2>3, <2>5, <2>8, Reads
<1>6. QED
  BY <1>4, <1>5

\* What the end of a removal writes: the row it deleted goes, and with an account
\* the memberships given after the clean-up looked.
LEMMA DropAccountRoles ==
  ASSUME DbInv, NEW r \in Requests, DropAccount(r)
  PROVE  /\ req[r].user \in Users /\ req[r].cluster \in ClusterIds
         /\ <<req[r].by, req[r].cluster>> \in owned
         /\ \E new \in RoleTable :
              /\ SetRoles(new)
              /\ \A v \in Users, d \in ClusterIds :
                   \/ new[d][v] = role[d][v]
                   \/ /\ v = req[r].user /\ new[d][v] = None /\ OwnerNoted(v, d, role, raced)
                      /\ \/ d = req[r].cluster
                         \/ role[d][v] = None
                         \/ \E as \in Roles : <<v, d, as>> \in raced
<1> DEFINE u == req[r].user
           c == req[r].cluster
           all == cascaded(u)
           new == IF u \in uninitialized THEN all ELSE without(r)
<1>1. SetRoles(new) /\ At(r, "dropAccount")
  BY DEF DropAccount
<1>2. /\ u \in Users /\ c \in ClusterIds /\ <<req[r].by, c>> \in owned
      /\ RemovalFits(req[r], role, raced)
  BY <1>1, RemovalKnows DEF At
<1>3. /\ u \in req[r].todo => OwnerNoted(u, c, role, raced)
      /\ \A d \in ClusterIds :
           \/ role[d][u] = None
           \/ d = c /\ u \in req[r].todo
           \/ (\E as \in Roles : <<u, d, as>> \in raced) /\ OwnerNoted(u, d, role, raced)
  BY <1>1, <1>2 DEF At, RemovalFits, Deletes
<1>4. role \in RoleTable /\ None # "owner"
  BY ClustersAssumption DEF DbInv, Typed, RoleTable, Roles
<1>5. /\ without(r) \in RoleTable
      /\ \A d \in ClusterIds, v \in Users :
           without(r)[d][v] = IF d = c /\ v = u /\ v \in req[r].todo THEN None ELSE role[d][v]
  BY <1>2, WithoutRow
<1>6. /\ all \in RoleTable
      /\ \A d \in ClusterIds, v \in Users : all[d][v] = IF v = u THEN None ELSE role[d][v]
  BY <1>2, <1>4 DEF RoleTable, cascaded
<1>7. \A d \in ClusterIds : OwnerNoted(u, d, role, raced)
  BY <1>3, <1>4 DEF OwnerNoted
<1> HIDE DEF all, u, c
<1>8. new \in RoleTable
  BY <1>5, <1>6
<1>9. ASSUME NEW v \in Users, NEW d \in ClusterIds
      PROVE  \/ new[d][v] = role[d][v]
             \/ /\ v = u /\ new[d][v] = None /\ OwnerNoted(v, d, role, raced)
                /\ d = c \/ role[d][v] = None \/ \E as \in Roles : <<v, d, as>> \in raced
  <2>1. CASE v # u
    BY <1>5, <1>6, <2>1
  <2>2. CASE v = u
    BY <1>3, <1>5, <1>6, <1>7, <2>2
  <2>3. QED
    BY <2>1, <2>2
<1> HIDE DEF new
<1>10. QED
  BY <1>1, <1>2, <1>8, <1>9 DEF u, c

\* A removal ends.
LEMMA DropAccountStep ==
  ASSUME DbInv, NEW r \in Requests, DropAccount(r)
  PROVE  DbInv' /\ Grows
<1>1. PICK new \in RoleTable :
        /\ SetRoles(new)
        /\ \A v \in Users, d \in ClusterIds :
             \/ new[d][v] = role[d][v]
             \/ /\ v = req[r].user /\ new[d][v] = None /\ OwnerNoted(v, d, role, raced)
                /\ \/ d = req[r].cluster
                   \/ role[d][v] = None
                   \/ \E as \in Roles : <<v, d, as>> \in raced
  BY DropAccountRoles
<1>2. req[r].user \in Users
  BY DropAccountRoles
<1>3. Refresh(r, {req[r].user}) /\ UNCHANGED <<mix, sessions, history, month, raced>>
  BY DEF DropAccount, kvVars
<1>4. QED
  BY <1>1, <1>2, <1>3, Drops

\* A user gets a cluster nobody had.
LEMMA InsertClusterStep ==
  ASSUME DbInv, NEW r \in Requests, InsertCluster(r)
  PROVE  DbInv' /\ Grows
<1> DEFINE u == req[r].user
           g == [req[r] EXCEPT !.pc = "listForLogin"]
<1>1. /\ g = [req[r] EXCEPT !.pc = "listForLogin"] /\ "listForLogin" \in Labels
      /\ Goto(r, "listForLogin")
  BY DEF Labels, Named, InsertCluster
<1> HIDE DEF g
<1>2. /\ g \in RequestRecord /\ req' = [req EXCEPT ![r] = g] /\ req'[r] = g
      /\ g.pc = "listForLogin" /\ g.user = u
  BY <1>1, GotoFields
<1>3. u \in Users
  BY SameRequest DEF InsertCluster, At, Fits, Named
<1>4. Fits(g, created', joined', owned')
  BY <1>2, <1>3 DEF Fits, Named, Asked, Placed, Granted
<1>5. Move(r)
  BY <1>2, <1>4, Moved DEF DbInv
<1>6. UNCHANGED <<mix, sessions, history, month>>
  BY DEF InsertCluster, kvVars
<1>7. CASE u \notin accounts
  <2>1. UNCHANGED <<membershipVars, raced>>
    BY <1>7 DEF InsertCluster
  <2>2. /\ sessions' \in [Users -> Memberships \cup {None}]
        /\ history' \in [ClusterIds -> SUBSET Months] /\ month' \in Months
        /\ CachedRoleWasHeld'
    BY <1>6, <2>1 DEF DbInv, Typed, CachedRoleWasHeld, membershipVars
  <2>3. RemovalFits(req'[r], role', raced')
    BY <1>2, NotRemoving
  <2>4. QED
    BY <1>5, <1>6, <2>1, <2>2, <2>3, Quiet
<1>8. CASE u \in accounts
  <2>1. PICK c \in mix.ids : /\ c \notin created /\ SetRoles([role EXCEPT ![c][u] = "owner"])
                             /\ NoteRace(u, c, "owner")
    BY <1>8 DEF InsertCluster
  <2>2. c \in ClusterIds
    BY ClustersAssumption DEF DbInv, Typed
  <2> DEFINE new == [role EXCEPT ![c][u] = "owner"]
  <2>3. "owner" \in Roles \cup {None} /\ "owner" # None /\ SetRoles(new)
    BY <2>1, ClustersAssumption DEF Roles
  <2>4. /\ new \in RoleTable
        /\ \A d \in ClusterIds, v \in Users : new[d][v] = IF d = c /\ v = u THEN "owner" ELSE role[d][v]
    BY <1>3, <2>2, <2>3, EntryWritten DEF DbInv
  <2> HIDE DEF new, u
  <2>5. \A v \in Users, d \in ClusterIds : new[d][v] \in {"developer", "admin"} => <<v, d>> \in owned
    BY <2>4 DEF DbInv, RolesKnown
  <2>6. /\ Grows /\ role' = new /\ created' \subseteq ClusterIds
        /\ \A d \in ClusterIds : d \in created' <=> d \in created \/ \E v \in Users : new[d][v] = "owner"
    BY <2>3, <2>4, <2>5, RolesSet DEF DbInv
  <2>7. ~Locked(r, c, u)
    <3> SUFFICES ASSUME NEW q \in Requests, req[q].pc \in {"findUnused", "dropAccount"},
                        req[q].cluster = c
                 PROVE  FALSE
      BY DEF Locked
    <3>1. QED
      BY <2>1, RemovalOf
  <2>8. \A v \in Users : role[c][v] # "owner"
    BY <2>1, <2>2 DEF DbInv, RolesKnown
  <2>9. Noted(r, new)
    BY <2>1, <2>4, <2>7 DEF Noted, NoteRace, Roles
  <2>10. OneOwner'
    <3> SUFFICES ASSUME NEW d \in created'
                 PROVE  \/ \E v \in Users : owners(d)' = {v}
                        \/ owners(d)' = {} /\ ownerRaced(d)'
      BY DEF OneOwner
    <3>1. d \in ClusterIds
      BY <2>6
    <3>2. owners(d)' = {v \in Users : new[d][v] = "owner"} /\ owners(d) = {v \in Users : role[d][v] = "owner"}
      BY <2>6 DEF owners
    <3>3. CASE d = c
      <4>1. owners(d)' = {u}
        BY <1>3, <2>2, <2>4, <2>8, <3>2, <3>3
      <4>2. QED
        BY <1>3, <4>1
    <3>4. CASE d # c
      <4>1. owners(d)' = owners(d)
        BY <2>4, <3>1, <3>2, <3>4
      <4>2. d \in created
        BY <2>4, <2>6, <3>1, <3>4 DEF DbInv, RolesKnown
      <4>3. ownerRaced(d) => ownerRaced(d)'
        BY <2>9 DEF ownerRaced, Noted
      <4>4. QED
        BY <4>1, <4>2, <4>3 DEF DbInv, MembersInv, OneOwner
    <3>5. QED
      BY <3>3, <3>4
  <2>11. req'[r].pc \notin {"removeRow", "findUnused", "dropAccount"}
    BY <1>2
  <2>12. RemovalsRaced'
    BY <1>5, <2>4, <2>6, <2>9, <2>11, RemovalsFit
  <2>13. QED
    BY <1>5, <1>6, <2>3, <2>4, <2>5, <2>10, <2>12, Writes DEF MembersInv
<1>9. QED
  BY <1>7, <1>8

\* A cluster changes hands, and a removal of the new owner that has looked at
\* his role before is noted.
LEMMA TransferStep ==
  ASSUME DbInv, NEW r \in Requests, NEW prev \in PreviousRoles, TransferOwnership(r, prev)
  PROVE  DbInv' /\ Grows
<1> DEFINE u == req[r].user
           c == req[r].cluster
           new == promoted(c, u, prev)
           users == req[r].todo \cup {u}
<1>1. u \in Users /\ c \in ClusterIds /\ c \in created /\ users \in SUBSET Users
  BY SameRequest DEF TransferOwnership, At, Fits, Named, Placed, DbInv, Typed, RequestRecord
<1>2. UNCHANGED <<mix, accounts, uninitialized, kvVars, month>>
  BY DEF TransferOwnership
<1>3. CASE ~(u \in accounts /\ SingleOwner(new, c, u))
  <2>1. Return(r) /\ UNCHANGED <<membershipVars, raced>>
    BY <1>3 DEF TransferOwnership
  <2>2. QED
    BY <1>2, <2>1, WritesNothing
<1>4. CASE u \in accounts /\ SingleOwner(new, c, u)
  <2>1. /\ SetRoles(new) /\ Refresh(r, users) /\ NoteRace(u, c, "owner")
        /\ ~Locked(r, c, u)
    BY <1>4 DEF TransferOwnership
  <2>2. prev \in {"admin", "developer", "viewer"} /\ "owner" # None /\ None \notin Roles
    BY ClustersAssumption DEF Roles
  <2>3. \A v \in Users \ {u} : new[c][v] # "owner"
    BY <1>4 DEF SingleOwner
  <2>4. role \in RoleTable
    BY DEF DbInv, Typed, RoleTable
  <2> HIDE DEF u, c, users
  <2>5. /\ new \in RoleTable
        /\ \A d \in ClusterIds, v \in Users :
             new[d][v] = IF d # c THEN role[d][v] ELSE IF v = u THEN "owner"
                         ELSE IF role[c][v] = "owner" THEN prev ELSE role[c][v]
    BY <1>1, <2>2, <2>4 DEF promoted, RoleTable, Roles
  <2> HIDE DEF new
  <2>6. \A v \in Users, d \in ClusterIds : new[d][v] \in {"developer", "admin"} => <<v, d>> \in owned
    BY <2>2, <2>5 DEF DbInv, RolesKnown
  <2>7. /\ Grows /\ role' = new /\ created' \subseteq ClusterIds
        /\ \A d \in ClusterIds : d \in created' <=> d \in created \/ \E v \in Users : new[d][v] = "owner"
    BY <2>1, <2>5, <2>6, RolesSet DEF DbInv
  <2>8. created' = created
    <3>1. ASSUME NEW d \in ClusterIds, NEW v \in Users, new[d][v] = "owner"
          PROVE  d \in created
      BY <1>1, <2>2, <2>5, <3>1 DEF DbInv, RolesKnown
    <3>2. created \subseteq ClusterIds
      BY DEF DbInv, Typed
    <3>3. QED
      BY <2>7, <3>1, <3>2
  <2>9. Move(r) /\ req'[r].pc = "refresh"
    BY <1>1, <2>1, Refreshes DEF DbInv
  <2>10. Noted(r, new)
    <3>1. raced \subseteq raced'
      BY <2>1 DEF NoteRace
    <3>2. ASSUME NEW v \in Users, NEW d \in ClusterIds
          PROVE  \/ new[d][v] \in {None, role[d][v]}
                 \/ role[d][v] # None /\ new[d][v] # "owner"
                 \/ /\ new[d][v] \in Roles /\ ~Locked(r, d, v)
                    /\ Endangered(v, d) => <<v, d, new[d][v]>> \in raced'
      <4>1. CASE d = c /\ v = u
        BY <2>1, <2>5, <4>1 DEF NoteRace, Roles
      <4>2. CASE ~(d = c /\ v = u)
        BY <2>2, <2>5, <4>2
      <4>3. QED
        BY <4>1, <4>2
    <3>3. QED
      BY <3>1, <3>2 DEF Noted
  <2>11. OneOwner'
    <3> SUFFICES ASSUME NEW d \in created
                 PROVE  \/ \E v \in Users : owners(d)' = {v}
                        \/ owners(d)' = {} /\ ownerRaced(d)'
      BY <2>8 DEF OneOwner
    <3>1. d \in ClusterIds
      BY DEF DbInv, Typed
    <3>2. owners(d)' = {v \in Users : new[d][v] = "owner"} /\ owners(d) = {v \in Users : role[d][v] = "owner"}
      BY <2>7 DEF owners
    <3>3. CASE d = c
      <4>1. owners(d)' = {u}
        BY <1>1, <2>3, <2>5, <3>2, <3>3
      <4>2. QED
        BY <1>1, <4>1
    <3>4. CASE d # c
      <4>1. owners(d)' = owners(d)
        BY <2>5, <3>1, <3>2, <3>4
      <4>2. ownerRaced(d) => ownerRaced(d)'
        BY <2>10 DEF ownerRaced, Noted
      <4>3. QED
        BY <4>1, <4>2 DEF DbInv, MembersInv, OneOwner
    <3>5. QED
      BY <3>3, <3>4
  <2>12. RemovalsRaced'
    BY <2>5, <2>7, <2>9, <2>10, RemovalsFit
  <2>13. UNCHANGED <<mix, sessions, history, month>>
    BY <1>2 DEF kvVars
  <2>14. QED
    BY <2>1, <2>5, <2>6, <2>9, <2>11, <2>12, <2>13, Writes DEF MembersInv
<1>5. QED
  BY <1>3, <1>4

(* --- The steps of Clusters --- *)

\* Every call of the users and membership routes begins well.
LEMMA CallStep ==
  ASSUME DbInv, NEW r \in Requests, Call(r)
  PROVE  DbInv' /\ Grows
<1>1. /\ {"signIn", "accept", "decline", "updateRoles", "rename", "addUsers", "removeUsers",
          "transferOwner"} \subseteq Operations
      /\ {"updateRoles", "rename", "addUsers", "removeUsers", "transferOwner"} \subseteq Membership
  BY DEF Operations, Membership
<1>2. created \subseteq ClusterIds
  BY DEF DbInv, Typed
<1>3. ASSUME NEW u \in Users, SignIn(r, u)
      PROVE  DbInv' /\ Grows
  BY <1>1, <1>3, Begins DEF SignIn
<1>4. ASSUME NEW u \in Users, NEW c \in created, AcceptBegin(r, u, c)
      PROVE  DbInv' /\ Grows
  <2>1. Begin(r, "accept", u, c, u, "acceptInvite")
    BY <1>4 DEF AcceptBegin, BeginAs
  <2>2. QED
    BY <1>1, <1>2, <2>1, Begins
<1>5. ASSUME NEW u \in Users, NEW c \in created, DeclineBegin(r, u, c)
      PROVE  DbInv' /\ Grows
  <2>1. Begin(r, "decline", u, c, u, "declineInvite")
    BY <1>5 DEF DeclineBegin, BeginAs
  <2>2. QED
    BY <1>1, <1>2, <2>1, Begins
<1>6. ASSUME NEW u \in Users, NEW c \in created, UpdateBegin(r, u, c)
      PROVE  DbInv' /\ Grows
  <2>1. Begin(r, "updateRoles", u, c, None, "permission")
    BY <1>6 DEF UpdateBegin, BeginAs
  <2>2. QED
    BY <1>1, <1>2, <2>1, Begins
<1>7. ASSUME NEW u \in Users, NEW c \in created, RenameBegin(r, u, c)
      PROVE  DbInv' /\ Grows
  <2>1. Begin(r, "rename", u, c, None, "permission")
    BY <1>7 DEF RenameBegin, BeginAs
  <2>2. QED
    BY <1>1, <1>2, <2>1, Begins
<1>8. ASSUME NEW by \in Users, NEW u \in Users, NEW c \in created, AddBegin(r, by, c, u)
      PROVE  DbInv' /\ Grows
  <2>1. Begin(r, "addUsers", by, c, u, "permission")
    BY <1>8 DEF AddBegin, BeginAs
  <2>2. QED
    BY <1>1, <1>2, <2>1, Begins
<1>9. ASSUME NEW by \in Users, NEW u \in Users, NEW c \in created, RemoveBegin(r, by, c, u)
      PROVE  DbInv' /\ Grows
  <2>1. Begin(r, "removeUsers", by, c, u, "permission")
    BY <1>9 DEF RemoveBegin, BeginAs
  <2>2. QED
    BY <1>1, <1>2, <2>1, Begins
<1>10. ASSUME NEW by \in Users, NEW u \in Users, NEW c \in created, TransferBegin(r, by, c, u)
       PROVE  DbInv' /\ Grows
  <2>1. Begin(r, "transferOwner", by, c, u, "permission")
    BY <1>10 DEF TransferBegin, BeginAs
  <2>2. QED
    BY <1>1, <1>2, <2>1, Begins
<1>11. QED
  BY <1>3, <1>4, <1>5, <1>6, <1>7, <1>8, <1>9, <1>10 DEF Call

\* Every step of their handlers keeps the invariant.
LEMMA ContinueStep ==
  ASSUME DbInv, NEW r \in Requests, Continue(r)
  PROVE  DbInv' /\ Grows
<1>1. CASE RequireRole(r)
  BY <1>1, RequireRoleStep
<1>2. CASE UpsertUser(r)
  BY <1>2, UpsertUserStep
<1>3. CASE FindOwned(r)
  BY <1>3, FindOwnedStep
<1>4. CASE InsertCluster(r)
  BY <1>4, InsertClusterStep
<1>5. CASE ListForLogin(r)
  BY <1>5, ListForLoginStep
<1>6. CASE CreateSession(r)
  BY <1>6, CreateSessionStep
<1>7. ASSUME NEW u \in Users, FindSession(r, u)
      PROVE  DbInv' /\ Grows
  BY <1>7, FindSessionStep
<1>8. CASE ListForRefresh(r)
  BY <1>8, ListForRefreshStep
<1>9. CASE RefreshSession(r)
  BY <1>9, RefreshSessionStep
<1>10. CASE Refreshed(r)
  BY <1>10, Ends DEF Refreshed
<1>11. CASE AcceptInvite(r)
  BY <1>11, AcceptInviteStep
<1>12. CASE DeclineInvite(r)
  BY <1>12, DeclineInviteStep
<1>13. CASE AddUsers(r)
  BY <1>13, AddUsersStep
<1>14. CASE RemoveCheck(r)
  BY <1>14, RemoveCheckStep
<1>15. CASE RemoveRow(r)
  BY <1>15, RemoveRowStep
<1>16. CASE FindUnused(r)
  BY <1>16, FindUnusedStep
<1>17. CASE DropAccount(r)
  BY <1>17, DropAccountStep
<1>18. CASE CurrentUsers(r)
  BY <1>18, CurrentUsersStep
<1>19. CASE UpdateRoles(r)
  BY <1>19, UpdateRolesStep
<1>20. CASE RejectRoles(r)
  BY <1>20, Ends DEF RejectRoles
<1>21. CASE GetOwner(r)
  BY <1>21, GetOwnerStep
<1>22. ASSUME NEW prev \in PreviousRoles, TransferOwnership(r, prev)
       PROVE  DbInv' /\ Grows
  BY <1>22, TransferStep
<1>23. CASE RecordRename(r)
  BY <1>23, RecordRenameStep
<1>24. CASE PutRename(r)
  BY <1>24, PutRenameStep
<1>25. CASE Renamed(r)
  BY <1>25, RenamedStep
<1>26. QED
  BY <1>1, <1>2, <1>3, <1>4, <1>5, <1>6, <1>7, <1>8, <1>9, <1>10, <1>11, <1>12, <1>13, <1>14,
     <1>15, <1>18, <1>19, <1>20, <1>21, <1>22, <1>23, <1>24, <1>25, <1>16, <1>17 DEF Continue

\* A step that leaves the links alone.
LEMMA LinksKept ==
  ASSUME LinksInv, Grows, UNCHANGED linkVars
  PROVE  LinksInv'
<1>1. UNCHANGED <<metadata, pending, sent>> /\ owned \subseteq owned'
  BY DEF linkVars, Grows
<1>2. LinksTyped'
  BY <1>1 DEF LinksInv, LinksTyped
<1>3. LinksOwned'
  BY <1>1 DEF LinksInv, LinksOwned
<1>4. PendingOwned'
  BY <1>1 DEF LinksInv, PendingOwned
<1>5. SentOwned'
  BY <1>1 DEF LinksInv, SentOwned
<1>6. QED
  BY <1>2, <1>3, <1>4, <1>5 DEF LinksInv

\* A step of Clusters keeps the whole invariant.
LEMMA ClustersStep ==
  ASSUME DbInv, LinksInv, Next, UNCHANGED linkVars
  PROVE  DbInv' /\ LinksInv'
  BY CallStep, ContinueStep, TickStep, LinksKept DEF Next

(* --- The links --- *)

\* A request of a link begins.
LEMMA Asks ==
  ASSUME DbInv, LinksInv, NEW r \in Requests, NEW op \in Operations, NEW by \in Users \cup {None},
         NEW c \in ClusterIds \cup {None}, NEW what \in Seen, NEW pc, Ask(r, op, by, c, what, pc),
         \/ /\ pc = "permission" /\ by \in Users /\ c \in created /\ op \in Linking
            /\ op = "setup" => what \in Setups
            /\ op = "events" => what \in Changes
         \/ pc = "getPending" /\ by \in Users /\ what \in Installations \cup {None}
         \/ pc = "getInstallation" /\ c = None /\ what \in Installations
         \/ pc = "listIntegrations" /\ c \in created /\ what \in Notices
  PROVE  DbInv' /\ LinksInv'
<1> DEFINE h == [Idle EXCEPT !.op = op, !.by = by, !.cluster = c, !.seen = what, !.pc = pc]
<1>1. req' = [req EXCEPT ![r] = h] /\ Read(r) /\ UNCHANGED linkVars
  BY DEF Ask
<1>2. pc \in Labels
  BY DEF Labels, Asked, Placed
<1>3. Idle \in RequestRecord
  BY IdleTyped
<1>4. h.op = op /\ h.by = by /\ h.cluster = c /\ h.seen = what /\ h.pc = pc
  BY <1>3 DEF RequestRecord
<1>5. h \in RequestRecord
  <2> DEFINE S == Seen
             U == Users \cup {None}
             C == ClusterIds \cup {None}
             L == Labels
             T == SUBSET Users
             O == Operations \cup {None}
  <2>1. /\ op \in O /\ by \in U /\ c \in C /\ what \in S /\ pc \in L
        /\ RequestRecord = [pc : L, op : O, by : U, cluster : C, user : U, seen : S, todo : T]
    BY <1>2 DEF RequestRecord
  <2> HIDE DEF S, U, C, L, T, O
  <2>2. QED
    BY <1>3, <2>1
<1> HIDE DEF h
<1>6. Fits(h, created, joined, owned)
  BY <1>4 DEF Fits, Named, Asked, Placed, Granted, Membership, Linking
<1>7. h.pc \notin {"removeRow", "findUnused", "dropAccount"}
  BY <1>4
<1>8. DbInv' /\ Grows
  BY <1>1, <1>5, <1>6, <1>7, GoesOn
<1>9. QED
  BY <1>1, <1>8, LinksKept

\* Every call of the integration routes begins well.
LEMMA IntegrationCallStep ==
  ASSUME DbInv, LinksInv, NEW r \in Requests, IntegrationCall(r)
  PROVE  DbInv' /\ LinksInv'
<1>1. {"setup", "events", "install"} \subseteq Linking
      /\ {"setup", "events", "install", "callback", "notify"} \subseteq Operations
  BY DEF Linking, Operations
<1>2. created \subseteq ClusterIds
  BY DEF DbInv, Typed
<1>3. /\ Setups \subseteq Seen /\ Changes \subseteq Seen /\ Installations \subseteq Seen
      /\ Notices \subseteq Seen /\ None \in Seen
  BY DEF Seen
<1>4. ASSUME NEW by \in Users, NEW c \in created, NEW s \in Setups, SetupBegin(r, by, c, s)
      PROVE  DbInv' /\ LinksInv'
  <2>1. Ask(r, "setup", by, c, s, "permission")
    BY <1>4 DEF SetupBegin, AskAs
  <2>2. QED
    BY <1>1, <1>2, <1>3, <2>1, Asks
<1>5. ASSUME NEW by \in Users, NEW c \in created, NEW change \in Changes, EventsBegin(r, by, c, change)
      PROVE  DbInv' /\ LinksInv'
  <2>1. Ask(r, "events", by, c, change, "permission")
    BY <1>5 DEF EventsBegin, AskAs
  <2>2. QED
    BY <1>1, <1>2, <1>3, <2>1, Asks
<1>6. ASSUME NEW by \in Users, NEW c \in created, InstallBegin(r, by, c)
      PROVE  DbInv' /\ LinksInv'
  <2>1. Ask(r, "install", by, c, None, "permission")
    BY <1>6 DEF InstallBegin, AskAs
  <2>2. QED
    BY <1>1, <1>2, <1>3, <2>1, Asks
<1>7. ASSUME NEW u \in Users, NEW i \in Installations \cup {None}, CallbackBegin(r, u, i)
      PROVE  DbInv' /\ LinksInv'
  <2>1. i \in Seen
    BY <1>3
  <2>2. CASE Ask(r, "callback", u, None, i, "getPending")
    BY <1>1, <2>1, <2>2, Asks
  <2>3. CASE i # None /\ Ask(r, "callback", None, None, i, "getInstallation")
    BY <1>1, <2>1, <2>3, Asks
  <2>4. QED
    BY <1>7, <2>2, <2>3 DEF CallbackBegin
<1>8. ASSUME NEW c \in created, NEW e \in Events, NEW to \in Recipients, NotifyBegin(r, c, e, to)
      PROVE  DbInv' /\ LinksInv'
  <2> DEFINE n == [event |-> e, to |-> to]
  <2>1. n \in Notices
    BY IntegrationsAssumption DEF Notices
  <2>2. Ask(r, "notify", None, c, n, "listIntegrations")
    BY <1>8 DEF NotifyBegin
  <2> HIDE DEF n
  <2>3. QED
    BY <1>1, <1>2, <1>3, <2>1, <2>2, Asks
<1>9. QED
  BY <1>4, <1>5, <1>6, <1>7, <1>8 DEF IntegrationCall

\* A link is written by a request of a user who owned the cluster.
LEMMA LinkWritten ==
  ASSUME DbInv, LinksInv, Grows, NEW r \in Requests, NEW key \in Keys, NEW settings \in SettingsRecord,
         <<req[r].by, req[r].cluster>> \in owned, Write(r, key, settings),
         UNCHANGED <<pending, sent>>
  PROVE  LinksInv'
<1> DEFINE c == req[r].cluster
           by == req[r].by
           written == [settings EXCEPT !.by = by]
<1>1. c \in ClusterIds /\ by \in Users
  BY DEF DbInv, Typed
<1>2. metadata \in [ClusterIds -> [Keys -> SettingsRecord]]
  BY DEF LinksInv, LinksTyped
<1>3. written \in SettingsRecord /\ written.by = by
  <2> DEFINE A == {None} \cup {s.address : s \in Setups} \cup Installations \cup {None}
             B == BOOLEAN \cup {s.enabled : s \in Setups}
             V == (SUBSET Events) \cup {None}
             U == Users \cup {None}
  <2>1. SettingsRecord = [address : A, enabled : B, events : V, by : U] /\ by \in U
    BY <1>1 DEF SettingsRecord
  <2> HIDE DEF A, B, V, U, by
  <2>2. QED
    BY <2>1
<1>4. metadata' = [metadata EXCEPT ![c][key] = written] /\ <<by, c>> \in owned'
  BY DEF Write, Grows
<1> HIDE DEF c, by, written
<1>5. /\ metadata' \in [ClusterIds -> [Keys -> SettingsRecord]]
      /\ \A d \in ClusterIds, k \in Keys :
           metadata'[d][k] = IF d = c /\ k = key THEN written ELSE metadata[d][k]
  BY <1>1, <1>2, <1>3, <1>4
<1>6. LinksTyped'
  BY <1>5 DEF LinksInv, LinksTyped
<1>7. LinksOwned'
  <2> SUFFICES ASSUME NEW d \in ClusterIds, NEW k \in Keys
               PROVE  metadata'[d][k] = NoSettings \/ <<metadata'[d][k].by, d>> \in owned'
    BY DEF LinksOwned, NoSettings, Settings
  <2>1. CASE d = c /\ k = key
    BY <1>3, <1>4, <1>5, <2>1
  <2>2. CASE ~(d = c /\ k = key)
    <3>1. metadata'[d][k] = metadata[d][k]
      BY <1>5, <2>2
    <3>2. QED
      BY <3>1 DEF LinksInv, LinksOwned, Grows
  <2>3. QED
    BY <2>1, <2>2
<1>8. PendingOwned' /\ SentOwned'
  BY DEF LinksInv, PendingOwned, SentOwned, Grows
<1>9. QED
  BY <1>6, <1>7, <1>8 DEF LinksInv

\* The pending cluster of a user is written.
LEMMA PendingWritten ==
  ASSUME DbInv, LinksInv, Grows, NEW u, NEW c \in ClusterIds \cup {None},
         c # None => <<u, c>> \in owned,
         pending' = [pending EXCEPT ![u] = c], UNCHANGED <<metadata, sent>>
  PROVE  LinksInv'
<1>1. pending \in [Users -> ClusterIds \cup {None}]
  BY DEF LinksInv, LinksTyped
<1>2. /\ pending' \in [Users -> ClusterIds \cup {None}]
      /\ \A v \in Users : pending'[v] = IF v = u THEN c ELSE pending[v]
  BY <1>1
<1>3. LinksTyped'
  BY <1>2 DEF LinksInv, LinksTyped
<1>4. PendingOwned'
  BY <1>2 DEF LinksInv, PendingOwned, Grows
<1>5. LinksOwned' /\ SentOwned'
  <2>1. LinksOwned'
    BY DEF LinksInv, LinksOwned, Grows
  <2>2. SentOwned'
    BY DEF LinksInv, SentOwned, Grows
  <2>3. QED
    BY <2>1, <2>2
<1>6. QED
  BY <1>3, <1>4, <1>5 DEF LinksInv

\* Messages are sent.
LEMMA MessagesSent ==
  ASSUME DbInv, LinksInv, Grows, UNCHANGED <<metadata, pending>>,
         \A m \in sent' : /\ <<m.by, m.cluster>> \in owned
                          /\ m.asOwner => <<m.to, m.cluster>> \in owned
  PROVE  LinksInv'
<1>1. SentOwned'
  BY DEF SentOwned, Grows
<1>2. LinksTyped'
  BY DEF LinksInv, LinksTyped
<1>3. LinksOwned'
  BY DEF LinksInv, LinksOwned, Grows
<1>4. PendingOwned'
  BY DEF LinksInv, PendingOwned, Grows
<1>5. QED
  BY <1>1, <1>2, <1>3, <1>4 DEF LinksInv

\* A remote is tried before it is set up.
LEMMA TryAccessStep ==
  ASSUME DbInv, LinksInv, NEW r \in Requests, TryAccess(r)
  PROVE  DbInv' /\ LinksInv'
<1>1. Read(r) /\ UNCHANGED linkVars /\ (Goto(r, "writeSetup") \/ Return(r))
  BY DEF TryAccess
<1>2. CASE Return(r)
  BY <1>1, <1>2, Ends, LinksKept
<1>3. CASE Goto(r, "writeSetup")
  <2> DEFINE g == [req[r] EXCEPT !.pc = "writeSetup"]
  <2>1. g = [req[r] EXCEPT !.pc = "writeSetup"] /\ "writeSetup" \in Labels
    BY DEF Labels, Granted
  <2> HIDE DEF g
  <2>2. /\ g \in RequestRecord /\ req' = [req EXCEPT ![r] = g]
        /\ g.pc = "writeSetup" /\ g.by = req[r].by /\ g.cluster = req[r].cluster
        /\ g.seen = req[r].seen
    BY <1>3, <2>1, GotoFields
  <2>3. <<req[r].by, req[r].cluster>> \in owned /\ req[r].seen \in Setups
    BY SameRequest DEF TryAccess, At, Fits, Granted
  <2>4. Fits(g, created, joined, owned)
    BY <2>2, <2>3 DEF Fits, Named, Asked, Placed, Granted
  <2>5. DbInv' /\ Grows
    BY <1>1, <2>2, <2>4, GoesOn
  <2>6. QED
    BY <1>1, <2>5, LinksKept
<1>4. QED
  BY <1>1, <1>2, <1>3

\* A channel or a remote is set up.
LEMMA WriteSetupStep ==
  ASSUME DbInv, LinksInv, NEW r \in Requests, WriteSetup(r)
  PROVE  DbInv' /\ LinksInv'
<1> DEFINE s == req[r].seen
           settings == Settings(s.address, s.enabled, subscribed(s), None)
<1>1. /\ Write(r, s.key, settings) /\ Return(r) /\ Read(r) /\ UNCHANGED <<pending, sent>>
  BY DEF WriteSetup
<1>2. <<req[r].by, req[r].cluster>> \in owned /\ s \in Setups
  BY SameRequest DEF WriteSetup, At, Fits, Granted
<1>3. s.key \in Keys /\ s.events \in (SUBSET Events) \cup {None} /\ DefaultEvents \subseteq Events
  BY <1>2, IntegrationsAssumption
<1>4. subscribed(s) \in (SUBSET Events) \cup {None}
  BY <1>3 DEF subscribed
<1>5. settings \in SettingsRecord
  BY <1>2, <1>4 DEF Settings, SettingsRecord
<1>6. DbInv' /\ Grows
  BY <1>1, Ends
<1> HIDE DEF settings
<1>7. QED
  BY <1>1, <1>2, <1>3, <1>5, <1>6, LinkWritten

\* A change of events reads the settings under its key ...
LEMMA GetSettingsStep ==
  ASSUME DbInv, LinksInv, NEW r \in Requests, GetSettings(r)
  PROVE  DbInv' /\ LinksInv'
<1> DEFINE key == keyOf(req[r].seen.integration)
           settings == [Links(r)[key] EXCEPT !.events = req[r].seen.events]
           what == [key |-> key, settings |-> settings]
           g == [req[r] EXCEPT !.pc = "putEvents", !.seen = what]
<1>1. req[r] \in RequestRecord /\ req \in [Requests -> RequestRecord]
  BY SameRequest
<1>2. <<req[r].by, req[r].cluster>> \in owned /\ req[r].seen \in Changes
  BY SameRequest DEF GetSettings, At, Fits, Granted
<1>3. /\ req[r].cluster \in ClusterIds
      /\ req[r].seen.integration \in {"discord", "slack", "webhook", "email"}
      /\ req[r].seen.events \subseteq Events
  BY <1>2, IntegrationsAssumption DEF DbInv, Typed
<1>4. key \in Keys
  BY <1>3 DEF keyOf, Keys, Webhooks, Remotes
<1>5. req' = [req EXCEPT ![r].pc = "putEvents", ![r].seen = what] /\ Read(r) /\ UNCHANGED linkVars
  BY DEF GetSettings
<1>6. Links(r)[key] \in SettingsRecord
  BY <1>3, <1>4 DEF Links, LinksInv, LinksTyped
<1> HIDE DEF key
<1>7. settings \in SettingsRecord
  <2> DEFINE A == {None} \cup {s.address : s \in Setups} \cup Installations \cup {None}
             B == BOOLEAN \cup {s.enabled : s \in Setups}
             V == (SUBSET Events) \cup {None}
             U == Users \cup {None}
  <2>1. SettingsRecord = [address : A, enabled : B, events : V, by : U] /\ req[r].seen.events \in V
    BY <1>3 DEF SettingsRecord
  <2> HIDE DEF A, B, V, U
  <2>2. QED
    BY <1>6, <2>1
<1> HIDE DEF settings
<1>8. what \in Rewrites
  BY <1>4, <1>7 DEF Rewrites
<1> HIDE DEF what
<1>9. req' = [req EXCEPT ![r] = g]
  BY <1>1, <1>5
<1>10. what \in Seen /\ "putEvents" \in Labels
  BY <1>8 DEF Seen, Labels, Granted
<1>11. g \in RequestRecord
  BY <1>1, <1>10, WithSeen
<1>12. /\ g.pc = "putEvents" /\ g.seen = what /\ g.by = req[r].by /\ g.cluster = req[r].cluster
  BY <1>1 DEF RequestRecord
<1> HIDE DEF g
<1>13. Fits(g, created, joined, owned)
  BY <1>2, <1>8, <1>12 DEF Fits, Named, Asked, Placed, Granted
<1>14. DbInv' /\ Grows
  BY <1>5, <1>9, <1>11, <1>12, <1>13, GoesOn
<1>15. QED
  BY <1>5, <1>14, LinksKept

\* ... and writes them back.
LEMMA PutEventsStep ==
  ASSUME DbInv, LinksInv, NEW r \in Requests, PutEvents(r)
  PROVE  DbInv' /\ LinksInv'
<1>1. /\ Write(r, req[r].seen.key, req[r].seen.settings)
      /\ Return(r) /\ Read(r) /\ UNCHANGED <<pending, sent>>
  BY DEF PutEvents
<1>2. <<req[r].by, req[r].cluster>> \in owned /\ req[r].seen \in Rewrites
  BY SameRequest DEF PutEvents, At, Fits, Granted
<1>3. req[r].seen.key \in Keys /\ req[r].seen.settings \in SettingsRecord
  BY <1>2 DEF Rewrites
<1>4. DbInv' /\ Grows
  BY <1>1, Ends
<1>5. QED
  BY <1>1, <1>2, <1>3, <1>4, LinkWritten

\* An installation is started for a cluster.
LEMMA SetPendingStep ==
  ASSUME DbInv, LinksInv, NEW r \in Requests, SetPending(r)
  PROVE  DbInv' /\ LinksInv'
<1>1. /\ pending' = [pending EXCEPT ![req[r].by] = req[r].cluster]
      /\ Return(r) /\ Read(r) /\ UNCHANGED <<metadata, sent>>
  BY DEF SetPending
<1>2. <<req[r].by, req[r].cluster>> \in owned
  BY SameRequest DEF SetPending, At, Fits, Granted
<1>3. req[r].cluster \in ClusterIds
  BY <1>2 DEF DbInv, Typed
<1>4. DbInv' /\ Grows
  BY <1>1, Ends
<1>5. QED
  BY <1>1, <1>2, <1>3, <1>4, PendingWritten

\* The redirect learns its cluster from the entry of its user.
LEMMA GetPendingStep ==
  ASSUME DbInv, LinksInv, NEW r \in Requests, GetPending(r)
  PROVE  DbInv' /\ LinksInv'
<1> DEFINE c == pendingOf(req[r].by)
           pc == IF req[r].seen = None THEN "deletePending" ELSE "getInstallation"
           g == [req[r] EXCEPT !.cluster = c, !.pc = pc]
<1>1. Read(r) /\ UNCHANGED linkVars
  BY DEF GetPending
<1>2. CASE req[r].seen = None /\ c = None
  BY <1>1, <1>2, Ends, LinksKept DEF GetPending
<1>3. CASE ~(req[r].seen = None /\ c = None)
  <2>1. req[r] \in RequestRecord /\ req \in [Requests -> RequestRecord]
    BY SameRequest
  <2>2. req[r].by \in Users /\ req[r].seen \in Installations \cup {None}
    BY SameRequest DEF GetPending, At, Fits, Asked
  <2>3. c \in ClusterIds \cup {None} /\ (c # None => <<req[r].by, c>> \in owned)
    BY <2>2 DEF pendingOf, LinksInv, LinksTyped, PendingOwned
  <2>4. pc \in Labels
    BY DEF Labels, Granted
  <2>5. req' = [req EXCEPT ![r].cluster = c, ![r].pc = pc]
    BY <1>3 DEF GetPending
  <2>6. pc = "deletePending" => c # None
    BY <1>3
  <2>7. pc \in {"deletePending", "getInstallation"}
    OBVIOUS
  <2> HIDE DEF c, pc
  <2>8. req' = [req EXCEPT ![r] = g]
    BY <2>1, <2>5
  <2>9. g \in RequestRecord
    BY <2>1, <2>3, <2>4, WithCluster
  <2>10. g.pc = pc /\ g.cluster = c /\ g.by = req[r].by /\ g.seen = req[r].seen
    BY <2>1 DEF RequestRecord
  <2> HIDE DEF g
  <2>11. Fits(g, created, joined, owned)
    BY <2>2, <2>3, <2>6, <2>7, <2>10 DEF Fits, Named, Asked, Placed, Granted
  <2>12. g.pc \notin {"removeRow", "findUnused", "dropAccount"}
    BY <2>7, <2>10
  <2>13. DbInv' /\ Grows
    BY <1>1, <2>8, <2>9, <2>11, <2>12, GoesOn
  <2>14. QED
    BY <1>1, <2>13, LinksKept
<1>4. QED
  BY <1>2, <1>3

\* An installation goes on only with a cluster.
LEMMA GetInstallationStep ==
  ASSUME DbInv, LinksInv, NEW r \in Requests, GetInstallation(r)
  PROVE  DbInv' /\ LinksInv'
<1>1. Read(r) /\ UNCHANGED linkVars
  BY DEF GetInstallation
<1>2. req[r] \in RequestRecord /\ req \in [Requests -> RequestRecord]
  BY SameRequest
<1>3. /\ req[r].cluster # None => <<req[r].by, req[r].cluster>> \in owned
      /\ req[r].seen \in Installations \cup {None}
  BY SameRequest DEF GetInstallation, At, Fits
<1>4. CASE Return(r)
  BY <1>1, <1>4, Ends, LinksKept
<1>5. CASE req[r].cluster # None /\ Goto(r, "deletePending")
  <2> DEFINE g == [req[r] EXCEPT !.pc = "deletePending"]
  <2>1. g = [req[r] EXCEPT !.pc = "deletePending"] /\ "deletePending" \in Labels
    BY DEF Labels, Granted
  <2> HIDE DEF g
  <2>2. /\ g \in RequestRecord /\ req' = [req EXCEPT ![r] = g]
        /\ g.pc = "deletePending" /\ g.by = req[r].by /\ g.cluster = req[r].cluster
        /\ g.seen = req[r].seen
    BY <1>5, <2>1, GotoFields
  <2>3. Fits(g, created, joined, owned)
    BY <1>3, <1>5, <2>2 DEF Fits, Named, Asked, Placed, Granted
  <2>4. DbInv' /\ Grows
    BY <1>1, <2>2, <2>3, GoesOn
  <2>5. QED
    BY <1>1, <2>4, LinksKept
<1>6. CASE /\ req[r].cluster # None
           /\ req' = [req EXCEPT ![r].seen = None, ![r].pc = "deletePending"]
  <2> DEFINE g == [req[r] EXCEPT !.seen = None, !.pc = "deletePending"]
  <2>1. req' = [req EXCEPT ![r] = g]
    BY <1>2, <1>6
  <2>2. g \in RequestRecord
    <3>1. None \in Seen /\ "deletePending" \in Labels
      BY DEF Seen, Labels, Granted
    <3>2. QED
      BY <1>2, <3>1, WithSeen
  <2>3. g.pc = "deletePending" /\ g.seen = None /\ g.by = req[r].by /\ g.cluster = req[r].cluster
    BY <1>2 DEF RequestRecord
  <2> HIDE DEF g
  <2>4. Fits(g, created, joined, owned)
    BY <1>3, <1>6, <2>3 DEF Fits, Named, Asked, Placed, Granted
  <2>5. DbInv' /\ Grows
    BY <1>1, <2>1, <2>2, <2>3, <2>4, GoesOn
  <2>6. QED
    BY <1>1, <2>5, LinksKept
<1>7. QED
  BY <1>4, <1>5, <1>6 DEF GetInstallation

\* The pending entry goes.
LEMMA DeletePendingStep ==
  ASSUME DbInv, LinksInv, NEW r \in Requests, DeletePending(r)
  PROVE  DbInv' /\ LinksInv'
<1>1. /\ pending' = [pending EXCEPT ![req[r].by] = None] /\ Read(r) /\ UNCHANGED <<metadata, sent>>
      /\ Goto(r, "link") \/ Return(r)
  BY DEF DeletePending
<1>2. CASE Return(r)
  <2>1. DbInv' /\ Grows
    BY <1>1, <1>2, Ends
  <2>2. QED
    BY <1>1, <2>1, PendingWritten
<1>3. CASE Goto(r, "link")
  <2> DEFINE g == [req[r] EXCEPT !.pc = "link"]
  <2>1. g = [req[r] EXCEPT !.pc = "link"] /\ "link" \in Labels
    BY DEF Labels, Granted
  <2> HIDE DEF g
  <2>2. /\ g \in RequestRecord /\ req' = [req EXCEPT ![r] = g]
        /\ g.pc = "link" /\ g.by = req[r].by /\ g.cluster = req[r].cluster
        /\ g.seen = req[r].seen
    BY <1>3, <2>1, GotoFields
  <2>3. <<req[r].by, req[r].cluster>> \in owned /\ req[r].seen \in Installations \cup {None}
    BY SameRequest DEF DeletePending, At, Fits, Granted
  <2>4. Fits(g, created, joined, owned)
    BY <2>2, <2>3 DEF Fits, Named, Asked, Placed, Granted
  <2>5. DbInv' /\ Grows
    BY <1>1, <2>2, <2>4, GoesOn
  <2>6. QED
    BY <1>1, <2>5, PendingWritten
<1>4. QED
  BY <1>1, <1>2, <1>3

\* The installation is attached.
LEMMA LinkStep ==
  ASSUME DbInv, LinksInv, NEW r \in Requests, Link(r)
  PROVE  DbInv' /\ LinksInv'
<1> DEFINE settings == Settings(req[r].seen, TRUE, None, None)
<1>1. Write(r, "gitHub", settings) /\ Return(r) /\ Read(r) /\ UNCHANGED <<pending, sent>>
  BY DEF Link
<1>2. <<req[r].by, req[r].cluster>> \in owned /\ req[r].seen \in Installations \cup {None}
  BY SameRequest DEF Link, At, Fits, Granted
<1>3. settings \in SettingsRecord /\ "gitHub" \in Keys
  BY <1>2 DEF Settings, SettingsRecord, Keys
<1>4. DbInv' /\ Grows
  BY <1>1, Ends
<1> HIDE DEF settings
<1>5. QED
  BY <1>1, <1>2, <1>3, <1>4, LinkWritten

\* Settings that are there were written by a user who owned the cluster.
LEMMA SettingsOwned ==
  ASSUME LinksInv, NEW c \in ClusterIds, NEW k \in Keys,
         metadata[c][k].address # None \/ metadata[c][k].enabled
  PROVE  <<metadata[c][k].by, c>> \in owned
<1>1. metadata[c][k] = NoSettings \/ <<metadata[c][k].by, c>> \in owned
  BY DEF LinksInv, LinksOwned
<1>2. NoSettings.address = None /\ NoSettings.enabled = FALSE
  BY DEF NoSettings, Settings
<1>3. QED
  BY <1>1, <1>2

\* The channels are told, and mail goes on with the settings read.
LEMMA ListIntegrationsStep ==
  ASSUME DbInv, LinksInv, NEW r \in Requests, ListIntegrations(r)
  PROVE  DbInv' /\ LinksInv'
<1> DEFINE c == req[r].cluster
           e == req[r].seen.event
           links == metadata[c]
           told == {k \in Webhooks : links[k].address # None /\ isSubscribed(links[k], e)}
           mail == links["emailNotification"]
           by == mail.by
           to == req[r].seen.to
           pc == IF to = None THEN "getRecipient" ELSE "mail"
           g == [req[r] EXCEPT !.by = by, !.user = to, !.pc = pc]
<1>1. /\ sent' = {Message(r, links[k].by, links[k].address) : k \in told}
      /\ Read(r) /\ UNCHANGED <<metadata, pending>>
  BY DEF ListIntegrations, Links
<1>2. req[r].pc = "listIntegrations" /\ c \in created /\ req[r].seen \in Notices
  BY SameRequest DEF ListIntegrations, At, Fits, Placed
<1>3. c \in ClusterIds /\ to \in Users \cup {None}
  BY <1>2 DEF DbInv, Typed, Notices
<1>4. Webhooks \subseteq Keys /\ "emailNotification" \in Keys
  BY DEF Keys
<1>5. ASSUME NEW k \in told
      PROVE  /\ Message(r, links[k].by, links[k].address).by = links[k].by
             /\ Message(r, links[k].by, links[k].address).cluster = c
             /\ Message(r, links[k].by, links[k].address).asOwner = FALSE
             /\ <<links[k].by, c>> \in owned
  <2>1. k \in Keys /\ metadata[c][k].address # None
    BY <1>4
  <2>2. <<links[k].by, c>> \in owned
    BY <1>3, <2>1, SettingsOwned
  <2>3. QED
    BY <1>2, <2>2 DEF Message, At
<1> HIDE DEF told
<1>6. \A m \in sent' : /\ <<m.by, m.cluster>> \in owned
                       /\ m.asOwner => <<m.to, m.cluster>> \in owned
  BY <1>1, <1>5
<1>7. CASE Return(r)
  <2>1. DbInv' /\ Grows
    BY <1>1, <1>7, Ends
  <2>2. QED
    BY <1>1, <1>6, <2>1, MessagesSent
<1>8. CASE isSubscribed(mail, e) /\ req' = [req EXCEPT ![r].by = by, ![r].user = to, ![r].pc = pc]
  <2>1. req[r] \in RequestRecord /\ req \in [Requests -> RequestRecord]
    BY SameRequest
  <2>2. <<by, c>> \in owned
    <3>1. mail.enabled
      BY <1>8 DEF isSubscribed
    <3>2. QED
      BY <1>3, <1>4, <1>8, <3>1, SettingsOwned
  <2>3. pc \in {"getRecipient", "mail"} /\ pc \in Labels /\ (pc = "mail" => to # None)
    BY DEF Labels, Granted
  <2>4. by \in Users \cup {None}
    BY <2>2 DEF DbInv, Typed
  <2>5. req' = [req EXCEPT ![r].by = by, ![r].user = to, ![r].pc = pc]
    BY <1>8
  <2> HIDE DEF by, pc, to
  <2>6. req' = [req EXCEPT ![r] = g]
    BY <2>1, <2>5
  <2>7. g \in RequestRecord
    BY <1>3, <2>1, <2>3, <2>4, WithByUser
  <2>8. g.pc = pc /\ g.by = by /\ g.user = to /\ g.cluster = c /\ g.seen = req[r].seen
    BY <2>1 DEF RequestRecord
  <2> HIDE DEF g
  <2>9. g.seen.to = to
    BY <2>8 DEF to
  <2>10. Fits(g, created, joined, owned)
    BY <1>2, <2>2, <2>3, <2>8, <2>9 DEF Fits, Named, Asked, Placed, Granted
  <2>11. g.pc \notin {"removeRow", "findUnused", "dropAccount"}
    BY <2>3, <2>8
  <2>12. DbInv' /\ Grows
    BY <1>1, <2>6, <2>7, <2>10, <2>11, GoesOn
  <2>13. QED
    BY <1>1, <1>6, <2>12, MessagesSent
<1>9. QED
  BY <1>7, <1>8 DEF ListIntegrations, Links

\* The owner of the moment is looked up.
LEMMA GetRecipientStep ==
  ASSUME DbInv, LinksInv, NEW r \in Requests, GetRecipient(r)
  PROVE  DbInv' /\ LinksInv'
<1>1. Read(r) /\ UNCHANGED linkVars
  BY DEF GetRecipient
<1>2. CASE Return(r)
  BY <1>1, <1>2, Ends, LinksKept
<1>3. ASSUME NEW u \in owners(req[r].cluster), req' = [req EXCEPT ![r].user = u, ![r].pc = "mail"]
      PROVE  DbInv' /\ LinksInv'
  <2> DEFINE g == [req[r] EXCEPT !.user = u, !.pc = "mail"]
  <2>1. req[r] \in RequestRecord /\ req \in [Requests -> RequestRecord]
    BY SameRequest
  <2>2. <<req[r].by, req[r].cluster>> \in owned /\ req[r].seen \in Notices
    BY SameRequest DEF GetRecipient, At, Fits, Granted
  <2>3. u \in Users /\ <<u, req[r].cluster>> \in owned
    <3>1. u \in Users /\ role[req[r].cluster][u] = "owner"
      BY DEF owners
    <3>2. req[r].cluster \in ClusterIds
      BY <2>2 DEF DbInv, Typed
    <3>3. QED
      BY <3>1, <3>2 DEF DbInv, RolesKnown
  <2>4. req' = [req EXCEPT ![r] = g]
    BY <1>3, <2>1
  <2>5. "mail" \in Labels /\ u \in Users \cup {None}
    BY <2>3 DEF Labels, Granted
  <2>6. g \in RequestRecord
    BY <2>1, <2>5, WithUser
  <2>7. /\ g.pc = "mail" /\ g.user = u /\ g.by = req[r].by /\ g.cluster = req[r].cluster
        /\ g.seen = req[r].seen
    BY <2>1 DEF RequestRecord
  <2> HIDE DEF g
  <2>8. Fits(g, created, joined, owned)
    BY <2>2, <2>3, <2>7 DEF Fits, Named, Asked, Placed, Granted
  <2>9. DbInv' /\ Grows
    BY <1>1, <2>4, <2>6, <2>7, <2>8, GoesOn
  <2>10. QED
    BY <1>1, <2>9, LinksKept
<1>4. QED
  BY <1>2, <1>3 DEF GetRecipient

\* Mail is sent to the recipient or the owner found.
LEMMA MailStep ==
  ASSUME DbInv, LinksInv, NEW r \in Requests, Mail(r)
  PROVE  DbInv' /\ LinksInv'
<1> DEFINE m == Message(r, req[r].by, req[r].user)
<1>1. sent' \subseteq {m} /\ Return(r) /\ Read(r) /\ UNCHANGED <<metadata, pending>>
  BY DEF Mail
<1>2. /\ <<req[r].by, req[r].cluster>> \in owned
      /\ req[r].seen.to = None => <<req[r].user, req[r].cluster>> \in owned
  BY SameRequest DEF Mail, At, Fits, Granted
<1>3. m.by = req[r].by /\ m.cluster = req[r].cluster /\ m.to = req[r].user
      /\ (m.asOwner => req[r].seen.to = None)
  BY DEF Message
<1> HIDE DEF m
<1>4. \A n \in sent' : /\ <<n.by, n.cluster>> \in owned
                       /\ n.asOwner => <<n.to, n.cluster>> \in owned
  BY <1>1, <1>2, <1>3
<1>5. DbInv' /\ Grows
  BY <1>1, Ends
<1>6. QED
  BY <1>1, <1>4, <1>5, MessagesSent

\* Every step of the integrations keeps the invariant.
LEMMA IntegrationStepStep ==
  ASSUME DbInv, LinksInv, NEW r \in Requests, IntegrationStep(r)
  PROVE  DbInv' /\ LinksInv'
<1>1. CASE TryAccess(r)
  BY <1>1, TryAccessStep
<1>2. CASE WriteSetup(r)
  BY <1>2, WriteSetupStep
<1>3. CASE GetSettings(r)
  BY <1>3, GetSettingsStep
<1>4. CASE PutEvents(r)
  BY <1>4, PutEventsStep
<1>5. CASE SetPending(r)
  BY <1>5, SetPendingStep
<1>6. CASE GetPending(r)
  BY <1>6, GetPendingStep
<1>7. CASE GetInstallation(r)
  BY <1>7, GetInstallationStep
<1>8. CASE DeletePending(r)
  BY <1>8, DeletePendingStep
<1>9. CASE Link(r)
  BY <1>9, LinkStep
<1>10. CASE ListIntegrations(r)
  BY <1>10, ListIntegrationsStep
<1>11. CASE GetRecipient(r)
  BY <1>11, GetRecipientStep
<1>12. CASE Mail(r)
  BY <1>12, MailStep
<1>13. QED
  BY <1>1, <1>2, <1>3, <1>4, <1>5, <1>6, <1>7, <1>8, <1>9, <1>10, <1>11, <1>12
     DEF IntegrationStep

(* --- The theorems --- *)

\* The invariant holds at the start, of the memberships ...
LEMMA DbAtStart ==
  ASSUME Init
  PROVE  DbInv
<1>1. /\ mix \in Mixes /\ accounts = {Founder} \cup Members
      /\ role = [c \in ClusterIds |-> [u \in Users |->
                  IF c # First THEN None
                  ELSE IF u = Founder THEN "owner" ELSE IF u \in Members THEN "viewer" ELSE None]]
      /\ sessions = [u \in Users |-> IF u \in accounts THEN memberships(u) ELSE None]
      /\ history = [c \in ClusterIds |-> {}] /\ month = 0
      /\ req = [r \in Requests |-> Idle]
      /\ created = {First}
      /\ joined = {<<u, First>> : u \in {Founder} \cup Members}
      /\ owned = {<<Founder, First>>}
      /\ raced = {}
  BY DEF Init
<1>2. /\ Founder \in Users /\ First \in ClusterIds /\ Members \subseteq Users /\ Founder \notin Members
      /\ None \notin Roles /\ LastMonth \in Nat
  BY ClustersAssumption
<1>3. {"owner", "viewer"} \subseteq Roles
  BY DEF Roles
<1>4. /\ role \in [ClusterIds -> [Users -> Roles \cup {None}]]
      /\ \A c \in ClusterIds, u \in Users :
           role[c][u] = IF c # First THEN None
                        ELSE IF u = Founder THEN "owner" ELSE IF u \in Members THEN "viewer" ELSE None
  BY <1>1, <1>3
<1>5. joined \subseteq Users \X ClusterIds /\ owned \subseteq Users \X ClusterIds
      /\ created \subseteq ClusterIds
  BY <1>1, <1>2
<1>6. RolesKnown
  <2> SUFFICES ASSUME NEW u \in Users, NEW c \in ClusterIds
               PROVE  /\ role[c][u] \in Roles \ {"invited"} => <<u, c>> \in joined
                      /\ role[c][u] \in {"developer", "admin", "owner"} => <<u, c>> \in owned
                      /\ role[c][u] = "owner" => c \in created
    BY DEF RolesKnown
  <2>1. CASE c = First /\ u = Founder
    <3>1. <<u, c>> \in joined /\ <<u, c>> \in owned /\ c \in created
      BY <1>1, <2>1
    <3>2. QED
      BY <3>1
  <2>2. CASE c = First /\ u \in Members
    <3>1. <<u, c>> \in joined /\ role[c][u] = "viewer"
      BY <1>1, <1>2, <1>4, <2>2
    <3>2. QED
      BY <3>1
  <2>3. CASE ~(c = First /\ u \in {Founder} \cup Members)
    <3>1. role[c][u] = None
      BY <1>4, <2>3
    <3>2. "owner" # None /\ "developer" # None /\ "admin" # None
      BY <1>2 DEF Roles
    <3>3. QED
      BY <1>2, <3>1, <3>2
  <2>4. QED
    BY <2>1, <2>2, <2>3
<1>7. \A u \in Users : memberships(u) \in Memberships
  BY <1>4 DEF memberships, Memberships
<1>8. sessions \in [Users -> Memberships \cup {None}]
  BY <1>1, <1>7
<1>9. req \in [Requests -> RequestRecord]
  BY <1>1, IdleTyped
<1>10. Typed
  BY <1>1, <1>2, <1>4, <1>5, <1>8, <1>9 DEF Typed, Months
<1>11. RequestsFit
  BY <1>1, IdleTyped, IdleFits DEF RequestsFit
<1>12. CachedRoleWasHeld
  <2> SUFFICES ASSUME NEW u \in Users, NEW c \in ClusterIds, sessions[u] # None
               PROVE  /\ sessions[u][c] # None => <<u, c>> \in joined
                      /\ seniorOf(sessions[u], c) => <<u, c>> \in owned
    BY DEF CachedRoleWasHeld
  <2>1. sessions[u] = memberships(u)
    BY <1>1
  <2>2. Held(u, memberships(u), joined, owned)
    BY <1>6, <1>10, MembershipsHeld
  <2>3. QED
    BY <2>1, <2>2 DEF Held
<1>13. OneOwner
  <2>1. owners(First) = {Founder}
    BY <1>2, <1>3, <1>4 DEF owners
  <2>2. QED
    BY <1>1, <1>2, <2>1 DEF OneOwner
<1>14. RemovalsRaced
  BY <1>1, IdleTyped, NotRemoving DEF RemovalsRaced
<1>15. QED
  BY <1>6, <1>10, <1>11, <1>12, <1>13, <1>14 DEF DbInv, MembersInv

\* ... and of the links.
LEMMA LinksAtStart ==
  ASSUME IntegrationsInit
  PROVE  LinksInv
<1>1. /\ owned = {<<Founder, First>>} /\ sent = {} /\ pending = [u \in Users |-> None]
      /\ metadata = [c \in ClusterIds |-> [k \in Keys |->
                      IF MailedAtStart /\ c = First /\ k = "emailNotification"
                        THEN Settings(None, TRUE, None, Founder) ELSE NoSettings]]
  BY DEF IntegrationsInit, Init
<1>2. NoSettings \in SettingsRecord /\ Settings(None, TRUE, None, Founder) \in SettingsRecord
  BY ClustersAssumption DEF NoSettings, Settings, SettingsRecord
<1>3. Settings(None, TRUE, None, Founder).by = Founder
  BY DEF Settings
<1> HIDE DEF NoSettings, Settings
<1>4. LinksTyped
  BY <1>1, <1>2 DEF LinksTyped
<1>5. LinksOwned
  BY <1>1, <1>3 DEF LinksOwned
<1>6. PendingOwned /\ SentOwned
  BY <1>1 DEF PendingOwned, SentOwned
<1>7. QED
  BY <1>4, <1>5, <1>6 DEF LinksInv

\* The invariant holds of every state: what every step reads, what it goes on
\* with and what it writes fit what was ever so.
THEOREM Invariant == IntegrationsSpec => [](DbInv /\ LinksInv)
<1>1. IntegrationsInit => DbInv /\ LinksInv
  BY DbAtStart, LinksAtStart DEF IntegrationsInit
<1>2. (DbInv /\ LinksInv) /\ [IntegrationsNext]_<<vars, linkVars>> => (DbInv /\ LinksInv)'
  <2> SUFFICES ASSUME DbInv, LinksInv, [IntegrationsNext]_<<vars, linkVars>>
               PROVE  DbInv' /\ LinksInv'
    OBVIOUS
  <2>1. CASE Next /\ UNCHANGED linkVars
    BY <2>1, ClustersStep
  <2>2. ASSUME NEW r \in Requests, IntegrationCall(r) \/ IntegrationStep(r)
        PROVE  DbInv' /\ LinksInv'
    BY <2>2, IntegrationCallStep, IntegrationStepStep
  <2>3. CASE UNCHANGED <<vars, linkVars>>
    <3>1. UNCHANGED vars /\ UNCHANGED linkVars
      BY <2>3
    <3>2. Typed' /\ RequestsFit' /\ RolesKnown' /\ CachedRoleWasHeld'
      BY <3>1 DEF vars, DbInv, Typed, RequestsFit, RolesKnown, CachedRoleWasHeld
    <3>3. MembersInv'
      BY <3>1 DEF vars, DbInv, MembersInv, OneOwner, RemovalsRaced, owners, ownerRaced
    <3>4. Grows
      BY <3>1 DEF vars, Grows
    <3>5. QED
      BY <3>1, <3>2, <3>3, <3>4, LinksKept DEF DbInv
  <2>4. QED
    BY <2>1, <2>2, <2>3 DEF IntegrationsNext
<1>3. QED
  BY <1>1, <1>2, PTL DEF IntegrationsSpec

\* A cluster has exactly one owner unless a removal had looked at his role, or for
\* his memberships, before he became the owner (clusters.transferOwnership,
\* clusters.removeUsers).
THEOREM Owned == IntegrationsSpec => []OwnedUnlessRaced
<1>1. DbInv => OwnedUnlessRaced
  <2> SUFFICES ASSUME DbInv, NEW c \in created
               PROVE  \/ Cardinality(owners(c)) = 1
                      \/ owners(c) = {} /\ ownerRaced(c)
    BY DEF OwnedUnlessRaced
  <2>1. \/ \E u \in Users : owners(c) = {u}
        \/ owners(c) = {} /\ ownerRaced(c)
    BY DEF DbInv, MembersInv, OneOwner
  <2>2. QED
    BY <2>1, FS_Singleton
<1>2. QED
  BY <1>1, Invariant, PTL

\* What a session carries its user has been (refreshUserSessions, createSession).
THEOREM CachedHeld == IntegrationsSpec => []CachedRoleWasHeld
<1>1. DbInv => CachedRoleWasHeld
  BY DEF DbInv
<1>2. QED
  BY <1>1, Invariant, PTL

\* Links and messages are the wish of a user who owned the cluster.
THEOREM LinkedOwned == IntegrationsSpec => []LinkedByMembers
<1>1. LinksInv => LinkedByMembers
  <2>1. NoSettings.by = None
    BY DEF NoSettings, Settings
  <2>2. QED
    BY <2>1 DEF LinksInv, LinksOwned, SentOwned, LinkedByMembers
<1>2. QED
  BY <1>1, Invariant, PTL

(* --- How a cluster changes hands --- *)

\* A transfer hands the cluster it is about to one user, at the wish of one who
\* owned it, and leaves the others alone.
LEMMA TransferHands ==
  ASSUME DbInv, NEW r \in Requests, NEW prev \in PreviousRoles, TransferOwnership(r, prev),
         NEW c \in created
  PROVE  \/ owners(c)' = owners(c)
         \/ /\ At(r, "transfer") /\ req[r].cluster = c /\ <<req[r].by, c>> \in owned
            /\ owners(c)' = {req[r].user}
<1> DEFINE u == req[r].user
           d == req[r].cluster
           new == promoted(d, u, prev)
<1>1. /\ u \in Users /\ d \in ClusterIds /\ c \in ClusterIds /\ <<req[r].by, d>> \in owned
      /\ At(r, "transfer")
  BY SameRequest DEF TransferOwnership, At, Fits, Named, Placed, Granted, DbInv, Typed
<1>2. CASE ~(u \in accounts /\ SingleOwner(new, d, u))
  BY <1>2 DEF TransferOwnership, membershipVars, owners
<1>3. CASE u \in accounts /\ SingleOwner(new, d, u)
  <2>1. role' = new
    BY <1>3 DEF TransferOwnership, SetRoles
  <2>2. role \in RoleTable
    BY DEF DbInv, Typed, RoleTable
  <2>3. CASE c = d
    <3>1. new[d][u] = "owner" /\ \A v \in Users \ {u} : new[d][v] # "owner"
      BY <1>1, <1>3, <2>2 DEF promoted, RoleTable, SingleOwner
    <3> HIDE DEF new, u, d
    <3>2. owners(c)' = {u}
      BY <1>1, <2>1, <2>3, <3>1 DEF owners
    <3>3. QED
      BY <1>1, <2>3, <3>2 DEF u, d
  <2>4. CASE c # d
    <3>1. new[c] = role[c]
      BY <1>1, <2>2, <2>4 DEF promoted, RoleTable
    <3>2. QED
      BY <2>1, <3>1 DEF owners
  <2>5. QED
    BY <2>3, <2>4
<1>4. QED
  BY <1>2, <1>3

\* What a removal writes: rows of the user it is about, of an owner only after a
\* race, and in other clusters only what was given after the clean-up looked.
LEMMA RemovalWrites ==
  ASSUME DbInv, NEW r \in Requests, FindUnused(r) \/ DropAccount(r)
  PROVE  /\ <<req[r].by, req[r].cluster>> \in owned
         /\ req[r].pc \in {"findUnused", "dropAccount"}
         /\ \A v \in Users, d \in ClusterIds :
              \/ role'[d][v] = role[d][v]
              \/ /\ v = req[r].user /\ role'[d][v] = None /\ OwnerNoted(v, d, role, raced)
                 /\ \/ d = req[r].cluster
                    \/ role[d][v] = None
                    \/ At(r, "dropAccount") /\ \E as \in Roles : <<v, d, as>> \in raced
<1>1. CASE DropAccount(r)
  <2>1. At(r, "dropAccount")
    BY <1>1 DEF DropAccount
  <2>2. PICK new \in RoleTable :
          /\ SetRoles(new)
          /\ \A v \in Users, d \in ClusterIds :
               \/ new[d][v] = role[d][v]
               \/ /\ v = req[r].user /\ new[d][v] = None /\ OwnerNoted(v, d, role, raced)
                  /\ \/ d = req[r].cluster
                     \/ role[d][v] = None
                     \/ \E as \in Roles : <<v, d, as>> \in raced
    BY <1>1, DropAccountRoles
  <2>3. role' = new
    BY <2>2 DEF SetRoles
  <2>4. <<req[r].by, req[r].cluster>> \in owned
    BY <1>1, DropAccountRoles
  <2>5. QED
    BY <2>1, <2>2, <2>3, <2>4 DEF At
<1>2. CASE FindUnused(r)
  <2>1. At(r, "findUnused")
    BY <1>2 DEF FindUnused
  <2>2. /\ req[r].user \in Users /\ req[r].cluster \in ClusterIds
        /\ <<req[r].by, req[r].cluster>> \in owned /\ RemovalFits(req[r], role, raced)
    BY <2>1, RemovalKnows DEF At
  <2>3. role' = role \/ role' = without(r)
    BY <1>2 DEF FindUnused, SetRoles, membershipVars
  <2>4. \A d \in ClusterIds, v \in Users :
          without(r)[d][v] = IF d = req[r].cluster /\ v = req[r].user /\ v \in req[r].todo
                             THEN None ELSE role[d][v]
    BY <2>2, WithoutRow
  <2>5. req[r].user \in req[r].todo => OwnerNoted(req[r].user, req[r].cluster, role, raced)
    BY <2>1, <2>2 DEF At, RemovalFits, Deletes
  <2>6. QED
    BY <2>1, <2>2, <2>3, <2>4, <2>5 DEF At
<1>3. QED
  BY <1>1, <1>2

\* An owner is removed only by a removal that raced with the step that made him one.
LEMMA RemovalLoses ==
  ASSUME DbInv, NEW r \in Requests, FindUnused(r) \/ DropAccount(r), NEW c \in created
  PROVE  owners(c)' = owners(c) \/ (owners(c)' = {} /\ ownerRaced(c))
<1>1. c \in ClusterIds /\ "owner" # None
  BY ClustersAssumption DEF DbInv, Typed, Roles
<1>2. \A v \in Users : \/ role'[c][v] = role[c][v]
                       \/ role'[c][v] = None /\ OwnerNoted(v, c, role, raced)
  BY <1>1, RemovalWrites
<1>3. /\ owners(c)' = {v \in Users : role'[c][v] = "owner"}
      /\ owners(c) = {v \in Users : role[c][v] = "owner"}
  BY DEF owners
<1>4. owners(c)' \subseteq owners(c)
  BY <1>1, <1>2, <1>3
<1>5. CASE owners(c) = {}
  BY <1>4, <1>5
<1>6. ASSUME NEW u \in Users, owners(c) = {u}
      PROVE  owners(c)' = owners(c) \/ (owners(c)' = {} /\ ownerRaced(c))
  <2>1. role[c][u] = "owner"
    BY <1>3, <1>6
  <2>2. CASE role'[c][u] = role[c][u]
    BY <1>3, <1>4, <1>6, <2>1, <2>2
  <2>3. CASE role'[c][u] = None /\ OwnerNoted(u, c, role, raced)
    <3>1. <<u, c, "owner">> \in raced
      BY <2>1, <2>3 DEF OwnerNoted
    <3>2. owners(c)' = {}
      BY <1>1, <1>3, <1>4, <1>6, <2>3
    <3>3. QED
      BY <3>1, <3>2 DEF ownerRaced
  <2>4. QED
    BY <1>2, <2>2, <2>3
<1>7. QED
  BY <1>5, <1>6 DEF DbInv, MembersInv, OneOwner

\* The other writes of a handler leave the owners of what was created alone.
LEMMA OthersKeepOwners ==
  ASSUME DbInv, NEW r \in Requests, NEW c \in created,
         InsertCluster(r) \/ AcceptInvite(r) \/ DeclineInvite(r) \/ AddUsers(r) \/ UpdateRoles(r)
  PROVE  owners(c)' = owners(c)
<1>1. /\ role \in RoleTable /\ c \in ClusterIds
      /\ "owner" \notin {"invited", "viewer", None} /\ None # "invited"
  BY ClustersAssumption DEF DbInv, Typed, RoleTable, Roles
<1>2. CASE UNCHANGED membershipVars
  BY <1>2 DEF membershipVars, owners
<1>3. ASSUME NEW d \in ClusterIds, NEW u \in Users, NEW x \in {"invited", "viewer", None},
             role[d][u] # "owner", SetRoles([role EXCEPT ![d][u] = x])
      PROVE  owners(c)' = owners(c)
  <2> DEFINE new == [role EXCEPT ![d][u] = x]
  <2>1. role' = new
    BY <1>3 DEF SetRoles
  <2>2. \A e \in ClusterIds, v \in Users : new[e][v] = IF e = d /\ v = u THEN x ELSE role[e][v]
    BY <1>1 DEF RoleTable
  <2> HIDE DEF new
  <2>3. QED
    BY <1>1, <1>3, <2>1, <2>2 DEF owners
<1>4. CASE InsertCluster(r)
  <2>1. ASSUME NEW d \in mix.ids, d \notin created, SetRoles([role EXCEPT ![d][req[r].user] = "owner"])
        PROVE  owners(c)' = owners(c)
    <3>1. role' = [role EXCEPT ![d][req[r].user] = "owner"] /\ c # d
      BY <2>1 DEF SetRoles
    <3>2. role'[c] = role[c]
      BY <1>1, <3>1 DEF RoleTable
    <3>3. QED
      BY <3>2 DEF owners
  <2>2. QED
    BY <1>2, <1>4, <2>1 DEF InsertCluster
<1>5. CASE AcceptInvite(r) \/ DeclineInvite(r)
  <2>1. req[r].by \in Users /\ req[r].cluster \in ClusterIds
    BY <1>5, SameRequest DEF AcceptInvite, DeclineInvite, At, Fits, Asked, Placed, DbInv, Typed
  <2>2. QED
    BY <1>1, <1>2, <1>3, <1>5, <2>1 DEF AcceptInvite, DeclineInvite
<1>6. CASE AddUsers(r)
  <2>1. req[r].user \in Users /\ req[r].cluster \in ClusterIds
    BY <1>6, SameRequest DEF AddUsers, At, Fits, Named, Placed, DbInv, Typed
  <2>2. CASE role[req[r].cluster][req[r].user] = None
    BY <1>1, <1>3, <1>6, <2>1, <2>2 DEF AddUsers
  <2>3. CASE role[req[r].cluster][req[r].user] # None
    BY <1>6, <2>3 DEF AddUsers, membershipVars, owners
  <2>4. QED
    BY <2>2, <2>3
<1>7. CASE UpdateRoles(r)
  <2> DEFINE d == req[r].cluster
             drop == dropped(d, req[r].todo)
             new == [role EXCEPT ![d] = [u \in Users |-> IF u \in drop THEN None ELSE @[u]]]
  <2>1. role' = new /\ (\A u \in drop : role[d][u] # "owner") /\ d \in ClusterIds
    BY <1>7, SameRequest DEF UpdateRoles, SetRoles, dropped, At, Fits, Placed, DbInv, Typed
  <2> HIDE DEF d, drop
  <2>2. \A e \in ClusterIds, v \in Users :
          new[e][v] = IF e = d /\ v \in drop THEN None ELSE role[e][v]
    BY <1>1, <2>1 DEF RoleTable
  <2> HIDE DEF new
  <2>3. QED
    BY <1>1, <2>1, <2>2 DEF owners
<1>8. QED
  BY <1>4, <1>5, <1>6, <1>7

\* No other step writes a membership.
LEMMA NoRoleWritten ==
  ASSUME NEW r \in Requests, Call(r) \/ Continue(r),
         ~ InsertCluster(r), ~ AcceptInvite(r), ~ DeclineInvite(r), ~ AddUsers(r),
         ~ UpdateRoles(r), ~ FindUnused(r), ~ DropAccount(r),
         \A prev \in PreviousRoles : ~ TransferOwnership(r, prev)
  PROVE  role' = role
<1>1. Read(r) => role' = role
  BY DEF Read, dbVars
<1>2. CASE Call(r)
  <2>1. ASSUME NEW op, NEW by, NEW c, NEW u, NEW pc, Begin(r, op, by, c, u, pc)
        PROVE  role' = role
    BY <1>1, <2>1 DEF Begin
  <2>2. QED
    BY <1>2, <2>1 DEF Call, SignIn, AcceptBegin, DeclineBegin, UpdateBegin, RenameBegin, AddBegin,
       RemoveBegin, TransferBegin, BeginAs
<1>3. CASE Continue(r)
  BY <1>1, <1>3 DEF Continue, RequireRole, UpsertUser, FindOwned, ListForLogin, CreateSession,
     FindSession, ListForRefresh, RefreshSession, Refreshed, RemoveCheck, RemoveRow, CurrentUsers,
     RejectRoles, GetOwner, RecordRename, PutRename, Renamed, membershipVars, dbVars
<1>4. QED
  BY <1>2, <1>3

\* Nor does a step of the links.
LEMMA NoRoleLinked ==
  ASSUME NEW r \in Requests, IntegrationCall(r) \/ IntegrationStep(r)
  PROVE  role' = role
<1>1. Read(r) => role' = role
  BY DEF Read, dbVars
<1>2. CASE IntegrationCall(r)
  BY <1>1, <1>2 DEF IntegrationCall, SetupBegin, EventsBegin, InstallBegin, CallbackBegin,
     NotifyBegin, AskAs, Ask
<1>3. CASE IntegrationStep(r)
  BY <1>1, <1>3 DEF IntegrationStep, TryAccess, WriteSetup, GetSettings, PutEvents, SetPending,
     GetPending, GetInstallation, DeletePending, Link, ListIntegrations, GetRecipient, Mail
<1>4. QED
  BY <1>2, <1>3

\* No owner is made, added or dropped but by the transfer of one who owned the
\* cluster, or lost in a race with it (transferOwnership, removeUsers, updateRoles).
THEOREM OwnersChange == IntegrationsSpec => OwnersChangeByTransfer
<1> DEFINE Kept(c) ==
      \/ owners(c)' = owners(c)
      \/ \E r \in Requests : /\ At(r, "transfer") /\ req[r].cluster = c
                             /\ <<req[r].by, c>> \in owned
                             /\ owners(c)' = {req[r].user}
      \/ owners(c)' = {} /\ ownerRaced(c)
<1>1. DbInv /\ [IntegrationsNext]_<<vars, linkVars>> => [\A c \in created : Kept(c)]_vars
  <2> SUFFICES ASSUME DbInv, [IntegrationsNext]_<<vars, linkVars>>, NEW c \in created
               PROVE  Kept(c)
    OBVIOUS
  <2>1. CASE role' = role
    BY <2>1 DEF owners
  <2>2. ASSUME NEW r \in Requests, Call(r) \/ Continue(r)
        PROVE  Kept(c)
    <3>1. ASSUME NEW prev \in PreviousRoles, TransferOwnership(r, prev)
          PROVE  Kept(c)
      BY <3>1, TransferHands
    <3>2. CASE FindUnused(r) \/ DropAccount(r)
      BY <3>2, RemovalLoses
    <3>3. CASE InsertCluster(r) \/ AcceptInvite(r) \/ DeclineInvite(r) \/ AddUsers(r) \/ UpdateRoles(r)
      BY <3>3, OthersKeepOwners
    <3>4. QED
      BY <2>1, <2>2, <3>1, <3>2, <3>3, NoRoleWritten
  <2>3. CASE Tick
    BY <2>1, <2>3 DEF Tick, dbVars
  <2>4. ASSUME NEW r \in Requests, IntegrationCall(r) \/ IntegrationStep(r)
        PROVE  role' = role
    BY <2>4, NoRoleLinked
  <2>5. CASE UNCHANGED <<vars, linkVars>>
    BY <2>1, <2>5 DEF vars
  <2>6. QED
    BY <2>1, <2>2, <2>3, <2>4, <2>5 DEF IntegrationsNext, Next
<1>2. QED
  BY <1>1, Invariant, PTL DEF IntegrationsSpec, OwnersChangeByTransfer

(* --- How a membership ends --- *)

\* A transfer, a login and an invitation end none.
LEMMA GivingEndsNone ==
  ASSUME DbInv, NEW r \in Requests, NEW c \in ClusterIds, NEW u \in Users, role[c][u] # None,
         \/ \E prev \in PreviousRoles : TransferOwnership(r, prev)
         \/ InsertCluster(r) \/ AcceptInvite(r) \/ AddUsers(r)
  PROVE  role'[c][u] # None
<1>1. role \in RoleTable /\ None \notin Roles
  BY ClustersAssumption DEF DbInv, Typed, RoleTable
<1>2. CASE UNCHANGED membershipVars
  BY <1>2 DEF membershipVars
<1>3. ASSUME NEW d, NEW v, NEW x \in Roles, SetRoles([role EXCEPT ![d][v] = x])
      PROVE  role'[c][u] # None
  <2>1. role' = [role EXCEPT ![d][v] = x]
    BY <1>3 DEF SetRoles
  <2>2. role'[c][u] \in {role[c][u], x}
    BY <1>1, <2>1 DEF RoleTable
  <2>3. QED
    BY <1>1, <2>2
<1>4. {"owner", "viewer", "invited"} \subseteq Roles
  BY DEF Roles
<1>5. ASSUME NEW prev \in PreviousRoles, TransferOwnership(r, prev)
      PROVE  role'[c][u] # None
  <2> DEFINE new == promoted(req[r].cluster, req[r].user, prev)
  <2>1. role' = role \/ role' = new
    BY <1>5 DEF TransferOwnership, SetRoles, membershipVars
  <2>2. new[c][u] \in {role[c][u], "owner", prev}
    BY <1>1 DEF promoted, RoleTable
  <2>3. prev \in Roles
    BY ClustersAssumption DEF Roles
  <2> HIDE DEF new
  <2>4. QED
    BY <1>1, <1>4, <2>1, <2>2, <2>3
<1>6. CASE InsertCluster(r)
  BY <1>2, <1>3, <1>4, <1>6 DEF InsertCluster
<1>7. CASE AcceptInvite(r)
  BY <1>2, <1>3, <1>4, <1>7 DEF AcceptInvite
<1>8. CASE AddUsers(r)
  BY <1>2, <1>3, <1>4, <1>8 DEF AddUsers
<1>9. QED
  BY <1>5, <1>6, <1>7, <1>8

\* What may end the membership of a user in a cluster.
Ended(r, u, c) ==
  \/ At(r, "declineInvite") /\ req[r].by = u /\ req[r].cluster = c
  \/ /\ req[r].cluster = c /\ <<req[r].by, c>> \in owned
     /\ \/ At(r, "updateRoles") /\ u \in req[r].todo
        \/ req[r].pc \in {"findUnused", "dropAccount"} /\ req[r].user = u
  \/ /\ At(r, "dropAccount") /\ req[r].user = u
     /\ \E as \in Roles : <<u, c, as>> \in raced

\* A user declines, ...
LEMMA DeclineEnds ==
  ASSUME DbInv, NEW r \in Requests, NEW c \in ClusterIds, NEW u \in Users, DeclineInvite(r),
         role[c][u] # None, role'[c][u] = None
  PROVE  Ended(r, u, c)
<1>1. role' = role \/ role' = [role EXCEPT ![req[r].cluster][req[r].by] = None]
  BY DEF DeclineInvite, SetRoles, membershipVars
<1>2. c = req[r].cluster /\ u = req[r].by
  BY <1>1 DEF DbInv, Typed
<1>3. QED
  BY <1>2 DEF DeclineInvite, Ended

\* ... or is dropped where he was read.
LEMMA UpdateEnds ==
  ASSUME DbInv, NEW r \in Requests, NEW c \in ClusterIds, NEW u \in Users, UpdateRoles(r),
         role[c][u] # None, role'[c][u] = None
  PROVE  Ended(r, u, c)
<1> DEFINE d == req[r].cluster
           drop == dropped(d, req[r].todo)
           new == [role EXCEPT ![d] = [v \in Users |-> IF v \in drop THEN None ELSE @[v]]]
<1>1. role' = new /\ At(r, "updateRoles")
  BY DEF UpdateRoles, SetRoles
<1>2. <<req[r].by, d>> \in owned
  BY <1>1, SameRequest DEF At, Fits, Granted
<1>3. drop \subseteq req[r].todo
  BY DEF dropped
<1> HIDE DEF drop
<1>4. c = d /\ u \in drop
  BY <1>1 DEF DbInv, Typed
<1>5. QED
  BY <1>1, <1>2, <1>3, <1>4 DEF Ended

\* A membership ends where it was asked for, but for those given after a clean-up
\* had looked (declineInvite, removeUsers, prepareRoleUpdateStatements).
THEOREM MembershipsEnd == IntegrationsSpec => MembershipsEndByRequest
<1> DEFINE EndAsked(u, c) == role[c][u] # None /\ role'[c][u] = None => \E r \in Requests : Ended(r, u, c)
<1>1. DbInv /\ [IntegrationsNext]_<<vars, linkVars>> => [\A c \in ClusterIds, u \in Users : EndAsked(u, c)]_vars
  <2> SUFFICES ASSUME DbInv, [IntegrationsNext]_<<vars, linkVars>>,
                      NEW c \in ClusterIds, NEW u \in Users, role[c][u] # None, role'[c][u] = None
               PROVE  \E r \in Requests : Ended(r, u, c)
    OBVIOUS
  <2>1. role' # role
    OBVIOUS
  <2>2. ASSUME NEW r \in Requests, Call(r) \/ Continue(r)
        PROVE  Ended(r, u, c)
    <3>1. CASE FindUnused(r) \/ DropAccount(r)
      <4>1. /\ <<req[r].by, req[r].cluster>> \in owned
            /\ req[r].pc \in {"findUnused", "dropAccount"}
            /\ u = req[r].user
            /\ \/ c = req[r].cluster
               \/ At(r, "dropAccount") /\ \E as \in Roles : <<u, c, as>> \in raced
        BY <3>1, RemovalWrites
      <4>2. QED
        BY <4>1 DEF Ended
    <3>2. CASE DeclineInvite(r)
      BY <3>2, DeclineEnds
    <3>3. CASE UpdateRoles(r)
      BY <3>3, UpdateEnds
    <3>4. CASE (\E prev \in PreviousRoles : TransferOwnership(r, prev))
               \/ InsertCluster(r) \/ AcceptInvite(r) \/ AddUsers(r)
      BY <3>4, GivingEndsNone
    <3>5. QED
      BY <2>1, <2>2, <3>1, <3>2, <3>3, <3>4, NoRoleWritten
  <2>3. ~ Tick
    BY <2>1 DEF Tick, dbVars
  <2>4. \A r \in Requests : ~ (IntegrationCall(r) \/ IntegrationStep(r))
    BY <2>1, NoRoleLinked
  <2>5. ~ UNCHANGED <<vars, linkVars>>
    BY <2>1 DEF vars
  <2>6. QED
    BY <2>2, <2>3, <2>4, <2>5 DEF IntegrationsNext, Next
<1>2. (\A c \in ClusterIds, u \in Users : EndAsked(u, c))
        <=> \A c \in ClusterIds, u \in Users :
              role[c][u] # None /\ role[c][u]' = None =>
                \E r \in Requests :
                  \/ At(r, "declineInvite") /\ req[r].by = u /\ req[r].cluster = c
                  \/ /\ req[r].cluster = c /\ <<req[r].by, c>> \in owned
                     /\ \/ At(r, "updateRoles") /\ u \in req[r].todo
                        \/ req[r].pc \in {"findUnused", "dropAccount"} /\ req[r].user = u
                  \/ /\ At(r, "dropAccount") /\ req[r].user = u
                     /\ \E as \in Roles : <<u, c, as>> \in raced
  BY DEF Ended
<1>3. QED
  BY <1>1, <1>2, Invariant, PTL DEF IntegrationsSpec, MembershipsEndByRequest
=============================================================================
