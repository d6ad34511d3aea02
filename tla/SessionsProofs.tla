---------------------------- MODULE SessionsProofs ----------------------------
(***************************************************************************)
(* Theorems about Sessions, for any users, requests, codes and mixes.      *)
(***************************************************************************)
EXTENDS Sessions, FiniteSetTheorems, TLAPS

(* --- What a request holds at each of its labels ---------------------------- *)

Factor == {"findFactor", "getOTP", "discardOTP", "attempt", "consumeOTP", "secret",
           "getBackup", "putBackup"}
Nameless == {"idle", "createState", "delete", "deleteKeys"}
Labels == Factor \cup Nameless \cup
  {"hasTotp", "draw", "saveSetup", "getSetup", "enable", "deleteSetup", "disable",
   "newBackupCodes", "getState", "deleteState", "exchange", "create", "getSession", "put",
   "target", "list", "require2FA", "token"}

OtpRecord == [code : Codes \cup {None}, attempts : 0 .. 3]
Attemptable == {o \in OtpRecord : o.attempts < 3}
RequestRecord ==
  [op : Operations \cup {None}, pc : Labels, auth : Auths, user : Users \cup {None},
   session : SessionIds \cup {None}, code : Typed \cup SessionIds \cup States \cup Tokens,
   seen : Record \cup OtpRecord \cup (SUBSET BackupCodes) \cup (SUBSET SessionIds) \cup Secrets \cup {None},
   todo : (SUBSET SessionKeys) \cup SUBSET (SessionIds \X SessionKeys)]

\* A right code was given beside the cookie of s, as VerifiedWasEarned says it.
Earned(s, own, step) ==
  \E u \in Users, a \in Auths : <<u, s, a>> \in step /\ (a = "cookie" => u = own[s])

\* A request knows its user, and the user of its cookie is the session's.
Knows(q, own) ==
  /\ q.auth = "cookie" /\ q.pc \notin Nameless =>
       q.user \in Users /\ q.session \in SessionIds /\ own[q.session] = q.user
  /\ q.pc \notin Nameless => q.user \in Users
  /\ q.pc \in Factor => q.op \in {"verifyLogin", "verify", "totp/disable", "regenerate"}
  /\ q.pc = "put" => q.session \in SessionIds
  /\ q.pc \in {"require2FA", "token"} => q.code \in Tokens
  /\ q.pc = "target" => q.code \in SessionIds

\* What it read, and will act on, is still true of the history.
Read(q, own, step, show, gone) ==
  /\ q.pc = "attempt" => q.seen \in Attemptable
  /\ q.pc = "consumeOTP" => q.code = q.seen.code
  /\ q.pc = "putBackup" => q.seen \in SUBSET BackupCodes /\ q.code \in q.seen
  /\ q.pc = "enable" => q.seen \in Secrets /\ <<q.user, q.seen>> \in show
  /\ q.pc \in {"deleteSetup", "getSession"} => q.session = None \/ Earned(q.session, own, step)
  /\ q.pc = "put" => /\ q.seen \in Record /\ q.todo \in SUBSET SessionKeys
                     /\ own[q.session] = q.seen.user
                     /\ q.seen.verified => Earned(q.session, own, step)
  /\ q.pc = "delete" => /\ q.seen \in SUBSET SessionIds
                        /\ \A t \in q.seen : own[t] \in Users
  /\ q.pc = "deleteKeys" => /\ q.todo \in SUBSET (SessionIds \X SessionKeys)
                            /\ \A x \in q.todo : own[x[1]] \in Users /\ x[1] \in gone

Fits(q, own, step, show, gone) == Knows(q, own) /\ Read(q, own, step, show, gone)

RequestsFit ==
  /\ req \in [Requests -> RequestRecord]
  /\ \A r \in Requests : Fits(req[r], owner, stepped, shown, revoked)

Passes == Users \X SessionIds \X Auths

HistoryTyped ==
  /\ mix \in Mixes
  /\ owner \in [SessionIds -> Users \cup {None}]
  /\ revoked \in SUBSET SessionIds /\ stepped \in SUBSET Passes
  /\ shown \in SUBSET (Users \X Secrets)

RecordsOwned == \A s \in SessionIds : byId[s] # None => owner[s] = byId[s].user

Stored == TypeOK /\ HistoryTyped /\ RecordsOwned /\ VerifiedWasEarned /\ EnabledWasShown
Inv    == Stored /\ RequestsFit

Grows ==
  /\ stepped \subseteq stepped' /\ shown \subseteq shown' /\ revoked \subseteq revoked'
  /\ \A s \in SessionIds : owner[s] # None => owner'[s] = owner[s]

LEMMA EarnedStays ==
  ASSUME Inv, Grows, NEW s \in SessionIds, Earned(s, owner, stepped)
  PROVE  Earned(s, owner', stepped')
<1>1. PICK u \in Users, a \in Auths : <<u, s, a>> \in stepped /\ (a = "cookie" => u = owner[s])
  BY DEF Earned
<1>2. <<u, s, a>> \in stepped'
  BY <1>1 DEF Grows
<1>3. a = "cookie" => u = owner'[s]
  BY <1>1, SessionsAssumption DEF Grows
<1>4. QED
  BY <1>2, <1>3 DEF Earned

LEMMA VerifiedIs ==
  VerifiedWasEarned <=>
    \A s \in SessionIds : byId[s] # None /\ byId[s].verified => Earned(s, owner, stepped)
  BY DEF VerifiedWasEarned, Earned

\* The sessions that are not written stay as they were earned.
LEMMA VerifiedStays ==
  ASSUME Inv, Grows, UNCHANGED byId
  PROVE  VerifiedWasEarned'
<1>1. ASSUME NEW s \in SessionIds, byId'[s] # None, byId'[s].verified
      PROVE  Earned(s, owner', stepped')
  BY <1>1, VerifiedIs, EarnedStays DEF Inv, Stored
<1>2. QED
  BY <1>1 DEF VerifiedWasEarned, Earned

(***************************************************************************)
(* The histories only grow, and what a request read stays true of them: a  *)
(* step of one request has to answer for that request alone.               *)
(***************************************************************************)
LEMMA FitsGrown ==
  ASSUME Inv, Grows, NEW q \in RequestRecord, Fits(q, owner, stepped, shown, revoked)
  PROVE  Fits(q, owner', stepped', shown', revoked')
<1> USE SessionsAssumption
<1>1. Knows(q, owner')
  BY DEF Fits, Knows, Grows
<1>21. q.pc = "enable" => <<q.user, q.seen>> \in shown'
  BY DEF Fits, Read, Grows
<1>22. ASSUME q.pc \in {"deleteSetup", "getSession"}, q.session # None
       PROVE  Earned(q.session, owner', stepped')
  <2>1. q.session \in SessionIds
    BY <1>22 DEF RequestRecord
  <2>2. QED
    BY <1>22, <2>1, EarnedStays DEF Fits, Read
<1>3. ASSUME q.pc = "put"
      PROVE  /\ owner'[q.session] = q.seen.user
             /\ q.seen.verified => Earned(q.session, owner', stepped')
  <2>1. q.session \in SessionIds /\ q.seen \in Record /\ owner[q.session] = q.seen.user
    BY <1>3 DEF Fits, Knows, Read
  <2>2. owner[q.session] # None
    BY <2>1 DEF Record
  <2>3. owner'[q.session] = q.seen.user
    BY <2>1, <2>2 DEF Grows
  <2>4. q.seen.verified => Earned(q.session, owner', stepped')
    BY <1>3, <2>1, EarnedStays DEF Fits, Read
  <2>5. QED
    BY <2>3, <2>4
<1>4. ASSUME q.pc = "delete", NEW t \in q.seen
      PROVE  owner'[t] \in Users
  BY <1>4 DEF Fits, Read, Grows
<1>5. ASSUME q.pc = "deleteKeys", NEW x \in q.todo
      PROVE  owner'[x[1]] \in Users /\ x[1] \in revoked'
  <2>1. x[1] \in SessionIds /\ owner[x[1]] \in Users /\ x[1] \in revoked
    BY <1>5 DEF Fits, Read
  <2>2. QED
    BY <2>1 DEF Grows
<1>6. QED
  BY <1>1, <1>21, <1>22, <1>3, <1>4, <1>5 DEF Fits, Read

LEMMA RequestMoves ==
  ASSUME Inv, Grows, NEW r \in Requests, req' = [req EXCEPT ![r] = req'[r]],
         req'[r] \in RequestRecord, Fits(req'[r], owner', stepped', shown', revoked')
  PROVE  RequestsFit'
<1>1. req' \in [Requests -> RequestRecord]
  BY DEF Inv, RequestsFit
<1>2. ASSUME NEW p \in Requests
      PROVE  Fits(req'[p], owner', stepped', shown', revoked')
  <2>1. CASE p = r
    BY <2>1
  <2>2. CASE p # r
    <3>1. req'[p] = req[p] /\ req[p] \in RequestRecord
      BY <2>2 DEF Inv, RequestsFit
    <3>2. Fits(req[p], owner, stepped, shown, revoked)
      BY DEF Inv, RequestsFit
    <3>3. QED
      BY <3>1, <3>2, FitsGrown
  <2>3. QED
    BY <2>1, <2>2
<1>3. QED
  BY <1>1, <1>2 DEF RequestsFit

\* A step of nobody's request.
LEMMA RequestsStay ==
  ASSUME Inv, UNCHANGED <<req, owner, stepped, shown, revoked>>
  PROVE  RequestsFit'
  BY DEF Inv, RequestsFit

\* A request that returns fits.
LEMMA IdleFits ==
  /\ Idle \in RequestRecord
  /\ \A own, step, show, gone : Fits(Idle, own, step, show, gone)
  BY DEF Idle, RequestRecord, Fits, Knows, Read, Typed, Labels, Nameless, Factor, Record,
     Auths, Bearers

Starts == {"hasTotp", "draw", "findFactor", "saveSetup", "getSetup", "createState", "getState",
           "create", "target", "list", "require2FA"}

\* The first step of a request, as any of the handlers makes it.
LEMMA BeginFits ==
  ASSUME Inv, NEW r \in Requests, NEW op \in Operations, NEW auth \in Auths,
         NEW u \in Users \cup {None},
         NEW s \in SessionIds \cup {None},
         NEW code \in Typed \cup SessionIds \cup States \cup Tokens,
         NEW pc \in Starts, Begin(r, op, auth, u, s, code, pc),
         auth = "cookie" => s \in SessionIds /\ u \in Users /\ owner[s] = u,
         auth \in Bearers => u \in Users,
         pc # "createState" => u \in Users,
         pc = "findFactor" => op \in {"verifyLogin", "verify", "totp/disable", "regenerate"},
         pc = "require2FA" => code \in Tokens,
         pc = "target" => code \in SessionIds
  PROVE  Inv'
<1> USE SessionsAssumption
<1> DEFINE x == resolved(auth, u, s)
           q == [Idle EXCEPT !.op = op, !.auth = auth, !.user = u, !.session = s, !.code = code, !.pc = pc, !.seen = x]
<1>1. req' = [req EXCEPT ![r] = q]
  BY DEF Begin
<1>11. x \in Record \cup {None}
  BY DEF Inv, Stored, TypeOK, resolved, madeUp, Record, Auths
<1> HIDE DEF x
<1>2. /\ q \in RequestRecord
      /\ q.op = op /\ q.auth = auth /\ q.user = u /\ q.session = s /\ q.code = code /\ q.pc = pc
  <2>1. pc \in Labels
    BY DEF Starts, Labels, Factor, Nameless
  <2>2. Idle \in RequestRecord
    BY IdleFits
  <2>3. q \in RequestRecord
    BY ZenonT(40), <1>11, <2>1, <2>2 DEF RequestRecord
  <2>4. q.op = op /\ q.auth = auth /\ q.user = u /\ q.session = s /\ q.code = code /\ q.pc = pc
    BY <1>11, <2>1, <2>2 DEF RequestRecord
  <2>5. QED
    BY <2>3, <2>4
<1> HIDE DEF q
<1>3. Fits(q, owner, stepped, shown, revoked)
  BY <1>2 DEF Fits, Knows, Read, Starts, Nameless, Factor
<1>4. UNCHANGED <<mix, kvVars, dbVars, historyVars>>
  BY DEF Begin
<1>5. Stored'
  BY <1>4 DEF Inv, Stored, TypeOK, HistoryTyped, RecordsOwned, VerifiedWasEarned,
     EnabledWasShown,
     kvVars, dbVars, historyVars
<1>6. Grows
  BY <1>4 DEF Grows, historyVars
<1>7. req'[r] = q
  BY <1>1 DEF Inv, RequestsFit
<1>8. Fits(req'[r], owner', stepped', shown', revoked')
  BY <1>3, <1>4, <1>7 DEF historyVars
<1>9. RequestsFit'
  BY <1>1, <1>2, <1>6, <1>7, <1>8, RequestMoves
<1>10. QED
  BY <1>5, <1>9 DEF Inv

\* A request of the user of a session, or of a Bearer token.
LEMMA BeginAsFits ==
  ASSUME Inv, NEW r \in Requests, NEW op \in Operations, NEW s \in SessionIds \cup {None},
         NEW code \in Typed \cup SessionIds \cup States \cup Tokens,
         NEW pc \in Starts, BeginAs(r, op, s, code, pc),
         pc = "findFactor" => op \in {"verifyLogin", "verify", "totp/disable", "regenerate"},
         pc = "require2FA" => code \in Tokens,
         pc = "target" => code \in SessionIds
  PROVE  Inv'
<1>1. CASE BeginByCookie(r, op, s, code, pc)
  <2>1. s \in SessionIds /\ byId[s] # None
    BY <1>1 DEF BeginByCookie
  <2>2. byId[s].user \in Users /\ owner[s] = byId[s].user
    BY <2>1 DEF Inv, Stored, TypeOK, Record, RecordsOwned
  <2>3. "cookie" \in Auths /\ "cookie" \notin Bearers
    BY DEF Auths, Bearers
  <2>4. QED
    BY <1>1, <2>1, <2>2, <2>3, BeginFits DEF BeginByCookie
<1>2. CASE BeginByBearer(r, op, s, code, pc)
  <2>1. PICK u \in Users, b \in mix.bearers : Begin(r, op, b, u, s, code, pc)
    BY <1>2 DEF BeginByBearer
  <2>2. b \in Bearers
    BY SessionsAssumption DEF Inv, Stored, HistoryTyped
  <2>3. b \in Auths /\ b # "cookie"
    BY <2>2 DEF Auths, Bearers
  <2>4. QED
    BY <2>1, <2>2, <2>3, BeginFits
<1>3. QED
  BY <1>1, <1>2 DEF BeginAs

\* A request that returns, one that goes on to another label, and one that also
\* remembers what it read.
LEMMA ReturnFits ==
  ASSUME Inv, Grows, NEW r \in Requests, Return(r)
  PROVE  RequestsFit'
<1>1. req' = [req EXCEPT ![r] = req'[r]] /\ req'[r] = Idle
  BY DEF Return, Inv, RequestsFit
<1>2. QED
  BY <1>1, IdleFits, RequestMoves

Same(q, p) ==
  /\ q.op = p.op /\ q.user = p.user /\ q.session = p.session /\ q.code = p.code
  /\ q.auth = p.auth

LEMMA GotoStep ==
  ASSUME Inv, NEW r \in Requests, NEW pc \in Labels, Goto(r, pc)
  PROVE  /\ req' = [req EXCEPT ![r] = req'[r]] /\ req'[r] \in RequestRecord
         /\ req'[r].pc = pc /\ Same(req'[r], req[r])
         /\ req'[r].seen = req[r].seen /\ req'[r].todo = req[r].todo
<1>1. req \in [Requests -> RequestRecord]
  BY DEF Inv, RequestsFit
<1>2. QED
  BY <1>1 DEF Goto, RequestRecord, Same

Values == Record \cup OtpRecord \cup (SUBSET BackupCodes) \cup (SUBSET SessionIds) \cup Secrets

LEMMA RememberStep ==
  ASSUME Inv, NEW r \in Requests, NEW pc \in Labels, NEW x \in Values, Remember(r, x, pc)
  PROVE  /\ req' = [req EXCEPT ![r] = req'[r]] /\ req'[r] \in RequestRecord
         /\ req'[r].pc = pc /\ Same(req'[r], req[r])
         /\ req'[r].seen = x /\ req'[r].todo = req[r].todo
<1>1. req \in [Requests -> RequestRecord]
  BY DEF Inv, RequestsFit
<1>2. QED
  BY <1>1 DEF Remember, RequestRecord, Same, Values

OtpStore == [Purposes -> [Users -> OtpRecord]]
FactorStore == [Users -> [secret : Secrets \cup {None}, codes : SUBSET BackupCodes]]

\* What is stored stays right when no session record changes: it is enough that
\* the tables a step writes keep their types and the enabled secrets were shown.
LEMMA StoredStays ==
  ASSUME Inv, Grows, UNCHANGED <<mix, byId, byUser, listed, owner, revoked>>,
         otp' \in OtpStore, setup' \in [Users -> Secrets \cup {None}], states' \subseteq States,
         twofa' \in FactorStore, tokens' \subseteq Users \X Tokens,
         stepped' \subseteq Passes, shown' \subseteq Users \X Secrets,
         EnabledWasShown'
  PROVE  Stored'
<1>1. TypeOK'
  BY DEF Inv, Stored, TypeOK, OtpStore, OtpRecord, FactorStore
<1>2. HistoryTyped' /\ RecordsOwned'
  BY DEF Inv, Stored, HistoryTyped, RecordsOwned
<1>3. VerifiedWasEarned'
  BY VerifiedStays
<1>4. QED
  BY <1>1, <1>2, <1>3 DEF Stored

\* The tables of the variables one by one.
LEMMA Tables ==
  ASSUME Inv
  PROVE  /\ otp \in OtpStore /\ setup \in [Users -> Secrets \cup {None}] /\ states \subseteq States
         /\ twofa \in FactorStore /\ tokens \subseteq Users \X Tokens
         /\ stepped \subseteq Passes /\ shown \subseteq Users \X Secrets
         /\ EnabledWasShown
         /\ byId \in [SessionIds -> Record \cup {None}] /\ listed \subseteq SessionIds
         /\ byUser \in [Users -> SessionIds \cup {None}]
         /\ owner \in [SessionIds -> Users \cup {None}] /\ revoked \subseteq SessionIds
  BY DEF Inv, Stored, TypeOK, HistoryTyped, OtpStore, OtpRecord, FactorStore

\* What is stored stays right when only session records change, each to one
\* that belongs to its owner and counts as verified only if that was earned.
LEMMA RecordsStay ==
  ASSUME Inv, UNCHANGED <<mix, otp, setup, states, dbVars, historyVars>>,
         byId' \in [SessionIds -> Record \cup {None}],
         byUser' \in [Users -> SessionIds \cup {None}], listed' \subseteq SessionIds,
         \A s \in SessionIds : byId'[s] \in {byId[s], None} \/
            (byId'[s] \in Record /\ byId'[s].user = owner[s]
             /\ (byId'[s].verified => Earned(s, owner, stepped)))
  PROVE  Stored' /\ Grows
<1>1. TypeOK' /\ HistoryTyped'
  BY DEF Inv, Stored, TypeOK, HistoryTyped, dbVars, historyVars
<1>2. RecordsOwned'
  BY DEF Inv, Stored, RecordsOwned, historyVars
<1>3. VerifiedWasEarned'
  <2>1. owner' = owner /\ stepped' = stepped
    BY DEF historyVars
  <2>2. ASSUME NEW s \in SessionIds, byId'[s] # None, byId'[s].verified
        PROVE  Earned(s, owner', stepped')
    BY <2>1, <2>2, VerifiedIs DEF Inv, Stored
  <2>3. QED
    BY <2>2 DEF VerifiedWasEarned, Earned
<1>4. EnabledWasShown' /\ Grows
  BY DEF Inv, Stored, EnabledWasShown, Grows, dbVars, historyVars
<1>5. QED
  BY <1>1, <1>2, <1>3, <1>4 DEF Stored

\* A step that writes its request only.
LEMMA NothingStored ==
  ASSUME Inv, UNCHANGED <<mix, kvVars, dbVars, historyVars>>
  PROVE  Stored' /\ Grows
<1>1. /\ byId' \in [SessionIds -> Record \cup {None}]
      /\ byUser' \in [Users -> SessionIds \cup {None}] /\ listed' \subseteq SessionIds
      /\ UNCHANGED <<mix, otp, setup, states, dbVars, historyVars, byId>>
  BY Tables DEF kvVars
<1>2. QED
  BY <1>1, RecordsStay

\* Once its code was found valid a request goes on, and a verification counts.
LEMMA AcceptedFits ==
  ASSUME Inv, Grows, NEW r \in Requests, req[r].pc \in Factor,
         Goto(r, Accepted(r)), StepUp(r, TRUE)
  PROVE  RequestsFit' /\ stepped' \subseteq Passes
<1>1. Fits(req[r], owner, stepped, shown, revoked)
  BY DEF Inv, RequestsFit
<1>2. req[r].op \in {"verifyLogin", "verify", "totp/disable", "regenerate"}
      /\ req[r].user \in Users
  BY <1>1 DEF Fits, Knows, Factor, Nameless
<1>21. req[r].session \in SessionIds \cup {None} /\ req[r].auth \in Auths
  BY DEF Inv, RequestsFit, RequestRecord
<1>3. Accepted(r) \in {"create", "getSession", "disable", "newBackupCodes"}
      /\ (Accepted(r) = "getSession" => req[r].op = "verify")
  BY <1>2 DEF Accepted
<1>4. stepped' \subseteq Passes
  BY <1>2, <1>21, Tables DEF StepUp, Passed, Passes
<1>5. /\ req' = [req EXCEPT ![r] = req'[r]] /\ req'[r] \in RequestRecord
      /\ req'[r].pc = Accepted(r) /\ Same(req'[r], req[r])
  BY <1>3, GotoStep DEF Labels
<1>55. req[r].auth = "cookie" => owner'[req[r].session] = req[r].user
  BY <1>1, <1>2, SessionsAssumption DEF Fits, Knows, Grows, Factor, Nameless
<1>6. Accepted(r) = "getSession" =>
        req[r].session = None \/ Earned(req[r].session, owner', stepped')
  BY <1>2, <1>21, <1>3, <1>55 DEF StepUp, Passed, Earned
<1>7. Fits(req'[r], owner', stepped', shown', revoked')
  BY <1>1, <1>55, <1>2, <1>3, <1>5, <1>6 DEF Fits, Knows, Read, Same, Nameless, Factor
<1>8. QED
  BY <1>4, <1>5, <1>7, RequestMoves

Todos == (SUBSET SessionKeys) \cup SUBSET (SessionIds \X SessionKeys)

\* A request that sets out to write or to delete keys, or has one key less to go.
LEMMA SetsOut ==
  ASSUME NEW g \in RequestRecord, NEW h, NEW p \in Labels, NEW s \in SessionIds,
         NEW t \in Todos, NEW x \in Values,
         \/ h = [g EXCEPT !.session = s, !.pc = p, !.todo = t, !.seen = x]
         \/ h = [g EXCEPT !.pc = p, !.todo = t, !.seen = x]
  PROVE  h \in RequestRecord
<1> DEFINE T == Todos
           V == Values \cup {None}
           O == Operations \cup {None}
           C == Typed \cup SessionIds \cup States \cup Tokens
<1>1. /\ RequestRecord = [op : O, pc : Labels, auth : Auths, user : Users \cup {None},
                          session : SessionIds \cup {None}, code : C, seen : V, todo : T]
      /\ x \in V /\ t \in T
  BY DEF RequestRecord, Todos, Values
<1> HIDE DEF T, V, O, C
<1>2. CASE h = [g EXCEPT !.session = s, !.pc = p, !.todo = t, !.seen = x]
  BY <1>1, <1>2
<1>3. CASE h = [g EXCEPT !.pc = p, !.todo = t, !.seen = x]
  BY <1>1, <1>3
<1>4. QED
  BY <1>2, <1>3

\* A request with one key less to go, or with the keys it sets out to delete.
LEMMA KeysLeft ==
  ASSUME NEW g \in RequestRecord, NEW h, NEW p \in Labels, NEW t \in Todos,
         \/ h = [g EXCEPT !.todo = t, !.pc = p]
         \/ h = [g EXCEPT !.todo = t] /\ p = g.pc
  PROVE  h \in RequestRecord
<1> DEFINE T == Todos
           V == Values \cup {None}
           O == Operations \cup {None}
           C == Typed \cup SessionIds \cup States \cup Tokens
<1>1. /\ RequestRecord = [op : O, pc : Labels, auth : Auths, user : Users \cup {None},
                          session : SessionIds \cup {None}, code : C, seen : V, todo : T]
      /\ t \in T
  BY DEF RequestRecord, Todos, Values
<1> HIDE DEF T, V, O, C
<1>2. CASE h = [g EXCEPT !.todo = t, !.pc = p]
  BY <1>1, <1>2
<1>3. CASE h = [g EXCEPT !.todo = t] /\ p = g.pc
  BY <1>1, <1>3
<1>4. QED
  BY <1>2, <1>3

LEMMA LogsOut ==
  ASSUME NEW g \in RequestRecord, NEW op \in Operations \cup {None}, NEW p \in Labels,
         NEW x \in Values, NEW h, h = [g EXCEPT !.op = op, !.pc = p, !.seen = x]
  PROVE  h \in RequestRecord
<1> DEFINE T == Todos
           V == Values \cup {None}
           O == Operations \cup {None}
           C == Typed \cup SessionIds \cup States \cup Tokens
<1>1. /\ RequestRecord = [op : O, pc : Labels, auth : Auths, user : Users \cup {None},
                          session : SessionIds \cup {None}, code : C, seen : V, todo : T]
      /\ x \in V /\ op \in O
  BY DEF RequestRecord, Todos, Values
<1> HIDE DEF T, V, O, C
<1>2. QED
  BY <1>1

(***************************************************************************)
(* However requests interleave between their awaits, what each of them     *)
(* read and will act on stays true of the history, and so does what is     *)
(* stored: a record belongs to the user the session was created for, a     *)
(* verified one was earned and an enabled secret was shown.                *)
(***************************************************************************)
THEOREM Invariant == Spec => []Inv
<1> USE SessionsAssumption
<1>1. Init => Inv
  <2> SUFFICES ASSUME Init PROVE Inv
    OBVIOUS
  <2>1. TypeOK
    BY DEF Init, TypeOK, Purposes, NoOtp, NoTotp
  <2>2. HistoryTyped /\ RecordsOwned /\ VerifiedWasEarned
    BY DEF Init, HistoryTyped, RecordsOwned, VerifiedWasEarned, Passes
  <2>3. EnabledWasShown
    BY DEF Init, EnabledWasShown, NoTotp
  <2>4. RequestsFit
    BY IdleFits DEF Init, RequestsFit
  <2>5. QED
    BY <2>1, <2>2, <2>3, <2>4 DEF Inv, Stored
<1>2. Inv /\ [Next]_vars => Inv'
  <2> SUFFICES ASSUME Inv, [Next]_vars PROVE Inv'
    OBVIOUS
  <2>1. ASSUME NEW r \in Requests, HasTotp(r)
        PROVE  Inv'
    <3>1. /\ req[r].pc = "hasTotp" /\ req[r] \in RequestRecord
          /\ Fits(req[r], owner, stepped, shown, revoked)
      BY <2>1 DEF HasTotp, At, Inv, RequestsFit
    <3>2. Grows
      BY <2>1 DEF HasTotp, Grows, kvVars, dbVars, historyVars
    <3>3. Stored'
      <4>1. /\ UNCHANGED <<mix, byId, byUser, listed, owner, revoked>>
            /\ otp' \in OtpStore
            /\ setup' \in [Users -> Secrets \cup {None}]
            /\ states' \subseteq States
            /\ twofa' \in FactorStore
            /\ tokens' \subseteq Users \X Tokens
            /\ stepped' \subseteq Passes
            /\ shown' \subseteq Users \X Secrets
            /\ EnabledWasShown'
        BY <2>1, Tables DEF HasTotp, kvVars, dbVars, historyVars, EnabledWasShown
      <4>2. QED
        BY <3>2, <4>1, StoredStays
    <3>4. CASE Return(r)
      BY <3>2, <3>3, <3>4, ReturnFits DEF Inv
    <3>5. CASE Goto(r, "draw")
      <4>1. /\ req' = [req EXCEPT ![r] = req'[r]] /\ req'[r] \in RequestRecord
            /\ req'[r].pc = "draw" /\ Same(req'[r], req[r])
            /\ req'[r].seen = req[r].seen
        BY <3>5, GotoStep DEF Labels, Factor, Nameless
      <4>2. Fits(req'[r], owner', stepped', shown', revoked')
        BY <2>1, <3>1, <3>2, <3>5, <4>1 DEF HasTotp, Grows, Fits, Knows, Read, Same, Nameless,
           Factor
      <4>3. QED
        BY <3>2, <3>3, <4>1, <4>2, RequestMoves DEF Inv
    <3>6. QED
      BY <2>1, <3>4, <3>5 DEF HasTotp
  <2>2. ASSUME NEW r \in Requests, CreateOTP(r)
        PROVE  Inv'
    <3>1. /\ req[r].pc = "draw" /\ req[r] \in RequestRecord
          /\ Fits(req[r], owner, stepped, shown, revoked)
      BY <2>2 DEF CreateOTP, At, Inv, RequestsFit
    <3>2. Grows
      BY <2>2 DEF CreateOTP, Grows, kvVars, dbVars, historyVars
    <3>3. Stored'
      <4>1. /\ UNCHANGED <<mix, byId, byUser, listed, owner, revoked>>
            /\ setup' \in [Users -> Secrets \cup {None}]
            /\ states' \subseteq States
            /\ twofa' \in FactorStore
            /\ tokens' \subseteq Users \X Tokens
            /\ stepped' \subseteq Passes
            /\ shown' \subseteq Users \X Secrets
            /\ EnabledWasShown'
        BY <2>2, Tables DEF CreateOTP, kvVars, dbVars, historyVars, EnabledWasShown
      <4>2. otp' \in OtpStore
        BY <2>2, <3>1, Tables DEF CreateOTP, Fits, Knows, Read, Nameless, Factor, OtpStore,
           OtpRecord, purpose, Purposes
      <4>3. QED
        BY <3>2, <4>1, <4>2, StoredStays
    <3>4. CASE Return(r)
      BY <3>2, <3>3, <3>4, ReturnFits DEF Inv
    <3>5. QED
      BY <2>2, <3>4 DEF CreateOTP
  <2>3. ASSUME NEW r \in Requests, GetOTP(r)
        PROVE  Inv'
    <3>1. /\ req[r].pc = "getOTP" /\ req[r] \in RequestRecord
          /\ Fits(req[r], owner, stepped, shown, revoked)
      BY <2>3 DEF GetOTP, At, Inv, RequestsFit
    <3>2. Grows
      BY <2>3 DEF GetOTP, exhausted, Grows, kvVars, dbVars, historyVars
    <3>3. Stored'
      <4>1. /\ UNCHANGED <<mix, byId, byUser, listed, owner, revoked>>
            /\ otp' \in OtpStore
            /\ setup' \in [Users -> Secrets \cup {None}]
            /\ states' \subseteq States
            /\ twofa' \in FactorStore
            /\ tokens' \subseteq Users \X Tokens
            /\ stepped' \subseteq Passes
            /\ shown' \subseteq Users \X Secrets
            /\ EnabledWasShown'
        BY <2>3, Tables DEF GetOTP, kvVars, dbVars, historyVars, EnabledWasShown
      <4>2. QED
        BY <3>2, <4>1, StoredStays
    <3>4. CASE Return(r)
      BY <3>2, <3>3, <3>4, ReturnFits DEF Inv
    <3>5. CASE Goto(r, "discardOTP")
      <4>1. /\ req' = [req EXCEPT ![r] = req'[r]] /\ req'[r] \in RequestRecord
            /\ req'[r].pc = "discardOTP" /\ Same(req'[r], req[r])
            /\ req'[r].seen = req[r].seen
        BY <3>5, GotoStep DEF Labels, Factor, Nameless
      <4>2. Fits(req'[r], owner', stepped', shown', revoked')
        BY <2>3, <3>1, <3>2, <3>5, <4>1 DEF GetOTP, exhausted, Grows, Fits, Knows, Read, Same,
           Nameless, Factor
      <4>3. QED
        BY <3>2, <3>3, <4>1, <4>2, RequestMoves DEF Inv
    <3>6. CASE /\ Remember(r, otp[purpose(r)][req[r].user], "attempt")
               /\ ~exhausted(otp[purpose(r)][req[r].user])
      <4>1. otp[purpose(r)][req[r].user] \in Attemptable
        BY <3>1, <3>6, Tables DEF Fits, Knows, Nameless, Factor, OtpStore, OtpRecord,
           Attemptable, exhausted, purpose, Purposes
      <4>2. otp[purpose(r)][req[r].user] \in Values
        BY <4>1 DEF Values, Attemptable
      <4>3. /\ req' = [req EXCEPT ![r] = req'[r]] /\ req'[r] \in RequestRecord
            /\ req'[r].pc = "attempt" /\ Same(req'[r], req[r])
            /\ req'[r].seen = otp[purpose(r)][req[r].user]
        BY <3>6, <4>2, RememberStep DEF Labels, Factor, Nameless
      <4>4. Fits(req'[r], owner', stepped', shown', revoked')
        BY <3>1, <3>2, <3>6, <4>1, <4>3 DEF Grows, Fits, Knows, Read, Same, Nameless, Factor
      <4>5. QED
        BY <3>2, <3>3, <4>3, <4>4, RequestMoves DEF Inv
    <3>7. QED
      BY <2>3, <3>4, <3>5, <3>6 DEF GetOTP
  <2>4. ASSUME NEW r \in Requests, DiscardOTP(r)
        PROVE  Inv'
    <3>1. /\ req[r].pc = "discardOTP" /\ req[r] \in RequestRecord
          /\ Fits(req[r], owner, stepped, shown, revoked)
      BY <2>4 DEF DiscardOTP, At, Inv, RequestsFit
    <3>2. Grows
      BY <2>4 DEF DiscardOTP, DeleteOTP, NoOtp, Grows, kvVars, dbVars, historyVars
    <3>3. Stored'
      <4>1. /\ UNCHANGED <<mix, byId, byUser, listed, owner, revoked>>
            /\ setup' \in [Users -> Secrets \cup {None}]
            /\ states' \subseteq States
            /\ twofa' \in FactorStore
            /\ tokens' \subseteq Users \X Tokens
            /\ stepped' \subseteq Passes
            /\ shown' \subseteq Users \X Secrets
            /\ EnabledWasShown'
        BY <2>4, Tables DEF DiscardOTP, kvVars, dbVars, historyVars, EnabledWasShown
      <4>2. otp' \in OtpStore
        BY <2>4, <3>1, Tables DEF DiscardOTP, DeleteOTP, NoOtp, Fits, Knows, Read, Nameless,
           Factor, OtpStore, OtpRecord, purpose, Purposes
      <4>3. QED
        BY <3>2, <4>1, <4>2, StoredStays
    <3>4. CASE Return(r)
      BY <3>2, <3>3, <3>4, ReturnFits DEF Inv
    <3>5. QED
      BY <2>4, <3>4 DEF DiscardOTP
  <2>5. ASSUME NEW r \in Requests, Attempt(r)
        PROVE  Inv'
    <3>1. /\ req[r].pc = "attempt" /\ req[r] \in RequestRecord
          /\ Fits(req[r], owner, stepped, shown, revoked)
      BY <2>5 DEF Attempt, At, Inv, RequestsFit
    <3>2. Grows
      BY <2>5 DEF Attempt, isRight, Grows, kvVars, dbVars, historyVars
    <3>3. Stored'
      <4>1. /\ UNCHANGED <<mix, byId, byUser, listed, owner, revoked>>
            /\ setup' \in [Users -> Secrets \cup {None}]
            /\ states' \subseteq States
            /\ twofa' \in FactorStore
            /\ tokens' \subseteq Users \X Tokens
            /\ stepped' \subseteq Passes
            /\ shown' \subseteq Users \X Secrets
            /\ EnabledWasShown'
        BY <2>5, Tables DEF Attempt, kvVars, dbVars, historyVars, EnabledWasShown
      <4>2. otp' \in OtpStore
        <5>1. req[r].seen \in Attemptable /\ req[r].user \in Users
          BY <3>1 DEF Fits, Knows, Read, Nameless, Factor
        <5>2. [req[r].seen EXCEPT !.attempts = @ + 1] \in OtpRecord
          BY <5>1 DEF OtpRecord, Attemptable
        <5>3. otp' = [otp EXCEPT ![purpose(r)][req[r].user] = [req[r].seen EXCEPT !.attempts = @ + 1]]
          BY <2>5 DEF Attempt
        <5>4. QED
          BY <5>1, <5>2, <5>3, Tables DEF OtpStore, purpose, Purposes
      <4>3. QED
        BY <3>2, <4>1, <4>2, StoredStays
    <3>4. CASE Return(r)
      BY <3>2, <3>3, <3>4, ReturnFits DEF Inv
    <3>5. CASE isRight(r) /\ Goto(r, "consumeOTP")
      <4>1. /\ req' = [req EXCEPT ![r] = req'[r]] /\ req'[r] \in RequestRecord
            /\ req'[r].pc = "consumeOTP" /\ Same(req'[r], req[r])
            /\ req'[r].seen = req[r].seen
        BY <3>5, GotoStep DEF Labels, Factor, Nameless
      <4>2. Fits(req'[r], owner', stepped', shown', revoked')
        BY <2>5, <3>1, <3>2, <3>5, <4>1 DEF Attempt, isRight, Grows, Fits, Knows, Read, Same,
           Nameless, Factor
      <4>3. QED
        BY <3>2, <3>3, <4>1, <4>2, RequestMoves DEF Inv
    <3>6. QED
      BY <2>5, <3>4, <3>5 DEF Attempt
  <2>6. ASSUME NEW r \in Requests, FindFactor(r)
        PROVE  Inv'
    <3>1. /\ req[r].pc = "findFactor" /\ req[r] \in RequestRecord
          /\ Fits(req[r], owner, stepped, shown, revoked)
      BY <2>6 DEF FindFactor, At, Inv, RequestsFit
    <3>2. Grows
      BY <2>6 DEF FindFactor, Grows, kvVars, dbVars, historyVars
    <3>3. Stored'
      <4>1. /\ UNCHANGED <<mix, byId, byUser, listed, owner, revoked>>
            /\ otp' \in OtpStore
            /\ setup' \in [Users -> Secrets \cup {None}]
            /\ states' \subseteq States
            /\ twofa' \in FactorStore
            /\ tokens' \subseteq Users \X Tokens
            /\ stepped' \subseteq Passes
            /\ shown' \subseteq Users \X Secrets
            /\ EnabledWasShown'
        BY <2>6, Tables DEF FindFactor, kvVars, dbVars, historyVars, EnabledWasShown
      <4>2. QED
        BY <3>2, <4>1, StoredStays
    <3>4. CASE Return(r)
      BY <3>2, <3>3, <3>4, ReturnFits DEF Inv
    <3>5. CASE Goto(r, "secret")
      <4>1. /\ req' = [req EXCEPT ![r] = req'[r]] /\ req'[r] \in RequestRecord
            /\ req'[r].pc = "secret" /\ Same(req'[r], req[r])
            /\ req'[r].seen = req[r].seen
        BY <3>5, GotoStep DEF Labels, Factor, Nameless
      <4>2. Fits(req'[r], owner', stepped', shown', revoked')
        BY <2>6, <3>1, <3>2, <3>5, <4>1 DEF FindFactor, Grows, Fits, Knows, Read, Same,
           Nameless, Factor
      <4>3. QED
        BY <3>2, <3>3, <4>1, <4>2, RequestMoves DEF Inv
    <3>6. CASE Goto(r, "getOTP")
      <4>1. /\ req' = [req EXCEPT ![r] = req'[r]] /\ req'[r] \in RequestRecord
            /\ req'[r].pc = "getOTP" /\ Same(req'[r], req[r])
            /\ req'[r].seen = req[r].seen
        BY <3>6, GotoStep DEF Labels, Factor, Nameless
      <4>2. Fits(req'[r], owner', stepped', shown', revoked')
        BY <2>6, <3>1, <3>2, <3>6, <4>1 DEF FindFactor, Grows, Fits, Knows, Read, Same,
           Nameless, Factor
      <4>3. QED
        BY <3>2, <3>3, <4>1, <4>2, RequestMoves DEF Inv
    <3>7. QED
      BY <2>6, <3>4, <3>5, <3>6 DEF FindFactor
  <2>7. ASSUME NEW r \in Requests, GetBackupCodes(r)
        PROVE  Inv'
    <3>1. /\ req[r].pc = "getBackup" /\ req[r] \in RequestRecord
          /\ Fits(req[r], owner, stepped, shown, revoked)
      BY <2>7 DEF GetBackupCodes, At, Inv, RequestsFit
    <3>2. Grows
      BY <2>7 DEF GetBackupCodes, Grows, kvVars, dbVars, historyVars
    <3>3. Stored'
      <4>1. /\ UNCHANGED <<mix, byId, byUser, listed, owner, revoked>>
            /\ otp' \in OtpStore
            /\ setup' \in [Users -> Secrets \cup {None}]
            /\ states' \subseteq States
            /\ twofa' \in FactorStore
            /\ tokens' \subseteq Users \X Tokens
            /\ stepped' \subseteq Passes
            /\ shown' \subseteq Users \X Secrets
            /\ EnabledWasShown'
        BY <2>7, Tables DEF GetBackupCodes, kvVars, dbVars, historyVars, EnabledWasShown
      <4>2. QED
        BY <3>2, <4>1, StoredStays
    <3>4. CASE Return(r)
      BY <3>2, <3>3, <3>4, ReturnFits DEF Inv
    <3>5. CASE /\ Remember(r, twofa[req[r].user].codes, "putBackup")
               /\ req[r].code \in twofa[req[r].user].codes
      <4>1. twofa[req[r].user].codes \in SUBSET BackupCodes
        BY <3>1, <3>5, Tables DEF Fits, Knows, Nameless, Factor, FactorStore
      <4>2. twofa[req[r].user].codes \in Values
        BY <4>1 DEF Values, Attemptable
      <4>3. /\ req' = [req EXCEPT ![r] = req'[r]] /\ req'[r] \in RequestRecord
            /\ req'[r].pc = "putBackup" /\ Same(req'[r], req[r])
            /\ req'[r].seen = twofa[req[r].user].codes
        BY <3>5, <4>2, RememberStep DEF Labels, Factor, Nameless
      <4>4. Fits(req'[r], owner', stepped', shown', revoked')
        BY <3>1, <3>2, <3>5, <4>1, <4>3 DEF Grows, Fits, Knows, Read, Same, Nameless, Factor
      <4>5. QED
        BY <3>2, <3>3, <4>3, <4>4, RequestMoves DEF Inv
    <3>6. QED
      BY <2>7, <3>4, <3>5 DEF GetBackupCodes
  <2>8. ASSUME NEW r \in Requests, SaveSetup(r)
        PROVE  Inv'
    <3>1. /\ req[r].pc = "saveSetup" /\ req[r] \in RequestRecord
          /\ Fits(req[r], owner, stepped, shown, revoked)
      BY <2>8 DEF SaveSetup, At, Inv, RequestsFit
    <3>2. Grows
      BY <2>8 DEF SaveSetup, Grows, kvVars, dbVars, historyVars
    <3>3. Stored'
      <4>1. /\ UNCHANGED <<mix, byId, byUser, listed, owner, revoked>>
            /\ otp' \in OtpStore
            /\ states' \subseteq States
            /\ twofa' \in FactorStore
            /\ tokens' \subseteq Users \X Tokens
            /\ stepped' \subseteq Passes
            /\ shown' \subseteq Users \X Secrets
            /\ EnabledWasShown'
        BY <2>8, Tables DEF SaveSetup, kvVars, dbVars, historyVars, EnabledWasShown
      <4>2. setup' \in [Users -> Secrets \cup {None}]
        BY <2>8, <3>1, Tables DEF SaveSetup, Fits, Knows, Read, Nameless, Factor
      <4>3. QED
        BY <3>2, <4>1, <4>2, StoredStays
    <3>4. CASE Return(r)
      BY <3>2, <3>3, <3>4, ReturnFits DEF Inv
    <3>5. QED
      BY <2>8, <3>4 DEF SaveSetup
  <2>9. ASSUME NEW r \in Requests, EnableTOTP(r)
        PROVE  Inv'
    <3>1. /\ req[r].pc = "enable" /\ req[r] \in RequestRecord
          /\ Fits(req[r], owner, stepped, shown, revoked)
      BY <2>9 DEF EnableTOTP, At, Inv, RequestsFit
    <3>0. /\ req[r].user \in Users /\ req[r].session \in SessionIds \cup {None}
          /\ req[r].auth \in Auths
          /\ req[r].auth = "cookie" => owner[req[r].session] = req[r].user
      BY <3>1 DEF Fits, Knows, Nameless, RequestRecord
    <3>2. Grows
      BY <2>9 DEF EnableTOTP, confirmed, Grows, kvVars, dbVars, historyVars
    <3>3. Stored'
      <4>1. /\ UNCHANGED <<mix, byId, byUser, listed, owner, revoked>>
            /\ otp' \in OtpStore
            /\ setup' \in [Users -> Secrets \cup {None}]
            /\ states' \subseteq States
            /\ tokens' \subseteq Users \X Tokens
            /\ shown' \subseteq Users \X Secrets
        BY <2>9, Tables DEF EnableTOTP, kvVars, dbVars, historyVars
      <4>2. twofa' \in FactorStore
        BY <2>9, <3>1, Tables DEF EnableTOTP, confirmed, Fits, Knows, Read, Nameless, Factor,
           FactorStore
      <4>3. stepped' \subseteq Passes
        BY <2>9, <3>0, Tables DEF EnableTOTP, Passed, Passes
      <4>4. EnabledWasShown'
        BY <2>9, <3>1, Tables DEF EnableTOTP, confirmed, Fits, Knows, Read, Nameless, Factor,
           EnabledWasShown, FactorStore
      <4>5. QED
        BY <3>2, <4>1, <4>2, <4>3, <4>4, StoredStays
    <3>4. CASE Goto(r, "deleteSetup")
      <4>1. /\ req' = [req EXCEPT ![r] = req'[r]] /\ req'[r] \in RequestRecord
            /\ req'[r].pc = "deleteSetup" /\ Same(req'[r], req[r])
            /\ req'[r].seen = req[r].seen
        BY <3>4, GotoStep DEF Labels, Factor, Nameless
      <4>2. Fits(req'[r], owner', stepped', shown', revoked')
        <5>1. owner' = owner
          BY <2>9 DEF EnableTOTP
        <5>2. req[r].session = None \/ Earned(req[r].session, owner', stepped')
          BY <2>9, <3>0, <5>1 DEF EnableTOTP, Passed, Earned
        <5>3. QED
          BY <3>1, <4>1, <5>1, <5>2 DEF Fits, Knows, Read, Same, Nameless, Factor
      <4>3. QED
        BY <3>2, <3>3, <4>1, <4>2, RequestMoves DEF Inv
    <3>5. QED
      BY <2>9, <3>4 DEF EnableTOTP
  <2>10. ASSUME NEW r \in Requests, DeleteSetup(r)
         PROVE  Inv'
    <3>1. /\ req[r].pc = "deleteSetup" /\ req[r] \in RequestRecord
          /\ Fits(req[r], owner, stepped, shown, revoked)
      BY <2>10 DEF DeleteSetup, At, Inv, RequestsFit
    <3>2. Grows
      BY <2>10 DEF DeleteSetup, Grows, kvVars, dbVars, historyVars
    <3>3. Stored'
      <4>1. /\ UNCHANGED <<mix, byId, byUser, listed, owner, revoked>>
            /\ otp' \in OtpStore
            /\ states' \subseteq States
            /\ twofa' \in FactorStore
            /\ tokens' \subseteq Users \X Tokens
            /\ stepped' \subseteq Passes
            /\ shown' \subseteq Users \X Secrets
            /\ EnabledWasShown'
        BY <2>10, Tables DEF DeleteSetup, kvVars, dbVars, historyVars, EnabledWasShown
      <4>2. setup' \in [Users -> Secrets \cup {None}]
        BY <2>10, <3>1, Tables DEF DeleteSetup, Fits, Knows, Read, Nameless, Factor
      <4>3. QED
        BY <3>2, <4>1, <4>2, StoredStays
    <3>4. CASE Goto(r, "getSession")
      <4>1. /\ req' = [req EXCEPT ![r] = req'[r]] /\ req'[r] \in RequestRecord
            /\ req'[r].pc = "getSession" /\ Same(req'[r], req[r])
            /\ req'[r].seen = req[r].seen
        BY <3>4, GotoStep DEF Labels, Factor, Nameless
      <4>2. Fits(req'[r], owner', stepped', shown', revoked')
        BY <2>10, <3>1, <3>4, <4>1 DEF DeleteSetup, Fits, Knows, Read, Same, Nameless, Factor,
           historyVars
      <4>3. QED
        BY <3>2, <3>3, <4>1, <4>2, RequestMoves DEF Inv
    <3>5. QED
      BY <2>10, <3>4 DEF DeleteSetup
  <2>11. ASSUME NEW r \in Requests, DisableTOTP(r)
         PROVE  Inv'
    <3>1. /\ req[r].pc = "disable" /\ req[r] \in RequestRecord
          /\ Fits(req[r], owner, stepped, shown, revoked)
      BY <2>11 DEF DisableTOTP, At, Inv, RequestsFit
    <3>2. Grows
      BY <2>11 DEF DisableTOTP, NoTotp, Grows, kvVars, dbVars, historyVars
    <3>3. Stored'
      <4>1. /\ UNCHANGED <<mix, byId, byUser, listed, owner, revoked>>
            /\ otp' \in OtpStore
            /\ setup' \in [Users -> Secrets \cup {None}]
            /\ states' \subseteq States
            /\ tokens' \subseteq Users \X Tokens
            /\ stepped' \subseteq Passes
            /\ shown' \subseteq Users \X Secrets
        BY <2>11, Tables DEF DisableTOTP, kvVars, dbVars, historyVars
      <4>2. twofa' \in FactorStore
        BY <2>11, <3>1, Tables DEF DisableTOTP, NoTotp, Fits, Knows, Read, Nameless, Factor,
           FactorStore
      <4>3. EnabledWasShown'
        <5>1. ASSUME NEW u \in Users
              PROVE  twofa'[u].secret = None \/ twofa'[u] = twofa[u]
          <6>1. twofa' = [twofa EXCEPT ![req[r].user] = NoTotp]
            BY <2>11 DEF DisableTOTP
          <6>2. NoTotp.secret = None
            BY DEF NoTotp
          <6>3. QED
            BY <6>1, <6>2, Tables DEF FactorStore
        <5>2. shown' = shown
          BY <2>11 DEF DisableTOTP, historyVars
        <5>3. QED
          BY <5>1, <5>2, Tables DEF EnabledWasShown
      <4>4. QED
        BY <3>2, <4>1, <4>2, <4>3, StoredStays
    <3>4. CASE Return(r)
      BY <3>2, <3>3, <3>4, ReturnFits DEF Inv
    <3>5. QED
      BY <2>11, <3>4 DEF DisableTOTP
  <2>12. ASSUME NEW r \in Requests, RegenerateBackupCodes(r)
         PROVE  Inv'
    <3>1. /\ req[r].pc = "newBackupCodes" /\ req[r] \in RequestRecord
          /\ Fits(req[r], owner, stepped, shown, revoked)
      BY <2>12 DEF RegenerateBackupCodes, At, Inv, RequestsFit
    <3>2. Grows
      BY <2>12 DEF RegenerateBackupCodes, Grows, kvVars, dbVars, historyVars
    <3>3. Stored'
      <4>1. /\ UNCHANGED <<mix, byId, byUser, listed, owner, revoked>>
            /\ otp' \in OtpStore
            /\ setup' \in [Users -> Secrets \cup {None}]
            /\ states' \subseteq States
            /\ tokens' \subseteq Users \X Tokens
            /\ stepped' \subseteq Passes
            /\ shown' \subseteq Users \X Secrets
        BY <2>12, Tables DEF RegenerateBackupCodes, kvVars, dbVars, historyVars
      <4>2. twofa' \in FactorStore
        BY <2>12, <3>1, Tables DEF RegenerateBackupCodes, Fits, Knows, Read, Nameless, Factor,
           FactorStore
      <4>3. EnabledWasShown'
        BY <2>12, <3>1, Tables DEF RegenerateBackupCodes, Fits, Knows, Read, Nameless, Factor,
           EnabledWasShown, FactorStore
      <4>4. QED
        BY <3>2, <4>1, <4>2, <4>3, StoredStays
    <3>4. CASE Return(r)
      BY <3>2, <3>3, <3>4, ReturnFits DEF Inv
    <3>5. QED
      BY <2>12, <3>4 DEF RegenerateBackupCodes
  <2>13. ASSUME NEW r \in Requests, CreateState(r)
         PROVE  Inv'
    <3>1. /\ req[r].pc = "createState" /\ req[r] \in RequestRecord
          /\ Fits(req[r], owner, stepped, shown, revoked)
      BY <2>13 DEF CreateState, At, Inv, RequestsFit
    <3>2. Grows
      BY <2>13 DEF CreateState, Grows, kvVars, dbVars, historyVars
    <3>3. Stored'
      <4>1. /\ UNCHANGED <<mix, byId, byUser, listed, owner, revoked>>
            /\ otp' \in OtpStore
            /\ setup' \in [Users -> Secrets \cup {None}]
            /\ twofa' \in FactorStore
            /\ tokens' \subseteq Users \X Tokens
            /\ stepped' \subseteq Passes
            /\ shown' \subseteq Users \X Secrets
            /\ EnabledWasShown'
        BY <2>13, Tables DEF CreateState, kvVars, dbVars, historyVars, EnabledWasShown
      <4>2. states' \subseteq States
        BY <2>13, <3>1, Tables DEF CreateState, Fits, Knows, Read, Nameless, Factor
      <4>3. QED
        BY <3>2, <4>1, <4>2, StoredStays
    <3>4. CASE Return(r)
      BY <3>2, <3>3, <3>4, ReturnFits DEF Inv
    <3>5. QED
      BY <2>13, <3>4 DEF CreateState
  <2>14. ASSUME NEW r \in Requests, GetState(r)
         PROVE  Inv'
    <3>1. /\ req[r].pc = "getState" /\ req[r] \in RequestRecord
          /\ Fits(req[r], owner, stepped, shown, revoked)
      BY <2>14 DEF GetState, At, Inv, RequestsFit
    <3>2. Grows
      BY <2>14 DEF GetState, Grows, kvVars, dbVars, historyVars
    <3>3. Stored'
      <4>1. /\ UNCHANGED <<mix, byId, byUser, listed, owner, revoked>>
            /\ otp' \in OtpStore
            /\ setup' \in [Users -> Secrets \cup {None}]
            /\ states' \subseteq States
            /\ twofa' \in FactorStore
            /\ tokens' \subseteq Users \X Tokens
            /\ stepped' \subseteq Passes
            /\ shown' \subseteq Users \X Secrets
            /\ EnabledWasShown'
        BY <2>14, Tables DEF GetState, kvVars, dbVars, historyVars, EnabledWasShown
      <4>2. QED
        BY <3>2, <4>1, StoredStays
    <3>4. CASE Return(r)
      BY <3>2, <3>3, <3>4, ReturnFits DEF Inv
    <3>5. CASE Goto(r, "deleteState")
      <4>1. /\ req' = [req EXCEPT ![r] = req'[r]] /\ req'[r] \in RequestRecord
            /\ req'[r].pc = "deleteState" /\ Same(req'[r], req[r])
            /\ req'[r].seen = req[r].seen
        BY <3>5, GotoStep DEF Labels, Factor, Nameless
      <4>2. Fits(req'[r], owner', stepped', shown', revoked')
        BY <2>14, <3>1, <3>2, <3>5, <4>1 DEF GetState, Grows, Fits, Knows, Read, Same, Nameless,
           Factor
      <4>3. QED
        BY <3>2, <3>3, <4>1, <4>2, RequestMoves DEF Inv
    <3>6. QED
      BY <2>14, <3>4, <3>5 DEF GetState
  <2>15. ASSUME NEW r \in Requests, ValidateState(r)
         PROVE  Inv'
    <3>1. /\ req[r].pc = "deleteState" /\ req[r] \in RequestRecord
          /\ Fits(req[r], owner, stepped, shown, revoked)
      BY <2>15 DEF ValidateState, At, Inv, RequestsFit
    <3>2. Grows
      BY <2>15 DEF ValidateState, Grows, kvVars, dbVars, historyVars
    <3>3. Stored'
      <4>1. /\ UNCHANGED <<mix, byId, byUser, listed, owner, revoked>>
            /\ otp' \in OtpStore
            /\ setup' \in [Users -> Secrets \cup {None}]
            /\ twofa' \in FactorStore
            /\ tokens' \subseteq Users \X Tokens
            /\ stepped' \subseteq Passes
            /\ shown' \subseteq Users \X Secrets
            /\ EnabledWasShown'
        BY <2>15, Tables DEF ValidateState, kvVars, dbVars, historyVars, EnabledWasShown
      <4>2. states' \subseteq States
        BY <2>15, <3>1, Tables DEF ValidateState, Fits, Knows, Read, Nameless, Factor
      <4>3. QED
        BY <3>2, <4>1, <4>2, StoredStays
    <3>4. CASE Goto(r, "exchange")
      <4>1. /\ req' = [req EXCEPT ![r] = req'[r]] /\ req'[r] \in RequestRecord
            /\ req'[r].pc = "exchange" /\ Same(req'[r], req[r])
            /\ req'[r].seen = req[r].seen
        BY <3>4, GotoStep DEF Labels, Factor, Nameless
      <4>2. Fits(req'[r], owner', stepped', shown', revoked')
        BY <2>15, <3>1, <3>2, <3>4, <4>1 DEF ValidateState, Grows, Fits, Knows, Read, Same,
           Nameless, Factor
      <4>3. QED
        BY <3>2, <3>3, <4>1, <4>2, RequestMoves DEF Inv
    <3>5. QED
      BY <2>15, <3>4 DEF ValidateState
  <2>16. ASSUME NEW r \in Requests, ExchangeCode(r)
         PROVE  Inv'
    <3>1. /\ req[r].pc = "exchange" /\ req[r] \in RequestRecord
          /\ Fits(req[r], owner, stepped, shown, revoked)
      BY <2>16 DEF ExchangeCode, At, Inv, RequestsFit
    <3>2. Grows
      BY <2>16 DEF ExchangeCode, Grows, kvVars, dbVars, historyVars
    <3>3. Stored'
      <4>1. /\ UNCHANGED <<mix, byId, byUser, listed, owner, revoked>>
            /\ otp' \in OtpStore
            /\ setup' \in [Users -> Secrets \cup {None}]
            /\ states' \subseteq States
            /\ twofa' \in FactorStore
            /\ tokens' \subseteq Users \X Tokens
            /\ stepped' \subseteq Passes
            /\ shown' \subseteq Users \X Secrets
            /\ EnabledWasShown'
        BY <2>16, Tables DEF ExchangeCode, kvVars, dbVars, historyVars, EnabledWasShown
      <4>2. QED
        BY <3>2, <4>1, StoredStays
    <3>4. CASE Return(r)
      BY <3>2, <3>3, <3>4, ReturnFits DEF Inv
    <3>5. CASE Goto(r, "create")
      <4>1. /\ req' = [req EXCEPT ![r] = req'[r]] /\ req'[r] \in RequestRecord
            /\ req'[r].pc = "create" /\ Same(req'[r], req[r])
            /\ req'[r].seen = req[r].seen
        BY <3>5, GotoStep DEF Labels, Factor, Nameless
      <4>2. Fits(req'[r], owner', stepped', shown', revoked')
        BY <2>16, <3>1, <3>2, <3>5, <4>1 DEF ExchangeCode, Grows, Fits, Knows, Read, Same,
           Nameless, Factor
      <4>3. QED
        BY <3>2, <3>3, <4>1, <4>2, RequestMoves DEF Inv
    <3>6. QED
      BY <2>16, <3>4, <3>5 DEF ExchangeCode
  <2>17. ASSUME NEW r \in Requests, Require2FA(r)
         PROVE  Inv'
    <3>1. /\ req[r].pc = "require2FA" /\ req[r] \in RequestRecord
          /\ Fits(req[r], owner, stepped, shown, revoked)
      BY <2>17 DEF Require2FA, At, Inv, RequestsFit
    <3>2. Grows
      BY <2>17 DEF Require2FA, Grows, kvVars, dbVars, historyVars
    <3>3. Stored'
      <4>1. /\ UNCHANGED <<mix, byId, byUser, listed, owner, revoked>>
            /\ otp' \in OtpStore
            /\ setup' \in [Users -> Secrets \cup {None}]
            /\ states' \subseteq States
            /\ twofa' \in FactorStore
            /\ tokens' \subseteq Users \X Tokens
            /\ stepped' \subseteq Passes
            /\ shown' \subseteq Users \X Secrets
            /\ EnabledWasShown'
        BY <2>17, Tables DEF Require2FA, kvVars, dbVars, historyVars, EnabledWasShown
      <4>2. QED
        BY <3>2, <4>1, StoredStays
    <3>4. CASE Return(r)
      BY <3>2, <3>3, <3>4, ReturnFits DEF Inv
    <3>5. CASE Goto(r, "token")
      <4>1. /\ req' = [req EXCEPT ![r] = req'[r]] /\ req'[r] \in RequestRecord
            /\ req'[r].pc = "token" /\ Same(req'[r], req[r])
            /\ req'[r].seen = req[r].seen
        BY <3>5, GotoStep DEF Labels, Factor, Nameless
      <4>2. Fits(req'[r], owner', stepped', shown', revoked')
        BY <2>17, <3>1, <3>2, <3>5, <4>1 DEF Require2FA, Grows, Fits, Knows, Read, Same,
           Nameless, Factor
      <4>3. QED
        BY <3>2, <3>3, <4>1, <4>2, RequestMoves DEF Inv
    <3>6. QED
      BY <2>17, <3>4, <3>5 DEF Require2FA
  <2>18. ASSUME NEW r \in Requests, CreateToken(r)
         PROVE  Inv'
    <3>1. /\ req[r].pc = "token" /\ req[r] \in RequestRecord
          /\ Fits(req[r], owner, stepped, shown, revoked)
      BY <2>18 DEF CreateToken, At, Inv, RequestsFit
    <3>2. Grows
      BY <2>18 DEF CreateToken, Grows, kvVars, dbVars, historyVars
    <3>3. Stored'
      <4>1. /\ UNCHANGED <<mix, byId, byUser, listed, owner, revoked>>
            /\ otp' \in OtpStore
            /\ setup' \in [Users -> Secrets \cup {None}]
            /\ states' \subseteq States
            /\ twofa' \in FactorStore
            /\ stepped' \subseteq Passes
            /\ shown' \subseteq Users \X Secrets
            /\ EnabledWasShown'
        BY <2>18, Tables DEF CreateToken, kvVars, dbVars, historyVars, EnabledWasShown
      <4>2. tokens' \subseteq Users \X Tokens
        BY <2>18, <3>1, Tables DEF CreateToken, Fits, Knows, Read, Nameless, Factor
      <4>3. QED
        BY <3>2, <4>1, <4>2, StoredStays
    <3>4. CASE Return(r)
      BY <3>2, <3>3, <3>4, ReturnFits DEF Inv
    <3>5. QED
      BY <2>18, <3>4 DEF CreateToken
  <2>19. ASSUME NEW r \in Requests, RevokeToken(r)
         PROVE  Inv'
    <3>1. /\ req[r].pc = "token" /\ req[r] \in RequestRecord
          /\ Fits(req[r], owner, stepped, shown, revoked)
      BY <2>19 DEF RevokeToken, At, Inv, RequestsFit
    <3>2. Grows
      BY <2>19 DEF RevokeToken, Grows, kvVars, dbVars, historyVars
    <3>3. Stored'
      <4>1. /\ UNCHANGED <<mix, byId, byUser, listed, owner, revoked>>
            /\ otp' \in OtpStore
            /\ setup' \in [Users -> Secrets \cup {None}]
            /\ states' \subseteq States
            /\ twofa' \in FactorStore
            /\ stepped' \subseteq Passes
            /\ shown' \subseteq Users \X Secrets
            /\ EnabledWasShown'
        BY <2>19, Tables DEF RevokeToken, kvVars, dbVars, historyVars, EnabledWasShown
      <4>2. tokens' \subseteq Users \X Tokens
        BY <2>19, <3>1, Tables DEF RevokeToken, Fits, Knows, Read, Nameless, Factor
      <4>3. QED
        BY <3>2, <4>1, <4>2, StoredStays
    <3>4. CASE Return(r)
      BY <3>2, <3>3, <3>4, ReturnFits DEF Inv
    <3>5. QED
      BY <2>19, <3>4 DEF RevokeToken
  <2>20. ASSUME NEW r \in Requests, ConsumeOTP(r)
         PROVE  Inv'
    <3>1. /\ req[r].pc = "consumeOTP" /\ req[r].pc \in Factor
          /\ Fits(req[r], owner, stepped, shown, revoked)
      BY <2>20 DEF ConsumeOTP, At, Inv, RequestsFit, Factor
    <3>2. StepUp(r, TRUE)
      BY <2>20, <3>1 DEF ConsumeOTP, StepUp, Fits, Read
    <3>3. Grows
      BY <2>20, <3>2 DEF ConsumeOTP, Grows, StepUp
    <3>4. RequestsFit' /\ stepped' \subseteq Passes
      BY <2>20, <3>1, <3>2, <3>3, AcceptedFits DEF ConsumeOTP
    <3>5. otp' \in OtpStore
      BY <2>20, <3>1, Tables DEF ConsumeOTP, DeleteOTP, NoOtp, OtpStore, OtpRecord, purpose,
         Purposes,
         Fits, Knows, Nameless
    <3>6. Stored'
      <4>1. UNCHANGED <<mix, byId, byUser, listed, setup, states, twofa, tokens, owner, revoked, shown>>
        BY <2>20 DEF ConsumeOTP, dbVars
      <4>2. EnabledWasShown'
        BY <4>1, Tables DEF EnabledWasShown
      <4>3. QED
        BY <3>3, <3>4, <3>5, <4>1, <4>2, Tables, StoredStays
    <3>7. QED
      BY <3>4, <3>6 DEF Inv
  <2>21. ASSUME NEW r \in Requests, CheckTOTP(r)
         PROVE  Inv'
    <3>1. /\ req[r].pc = "secret" /\ req[r].pc \in Factor /\ req[r] \in RequestRecord
          /\ Fits(req[r], owner, stepped, shown, revoked)
      BY <2>21 DEF CheckTOTP, At, Inv, RequestsFit, Factor
    <3>2. \/ Goto(r, Accepted(r)) /\ StepUp(r, TRUE)
          \/ (Return(r) \/ Goto(r, "getBackup")) /\ UNCHANGED stepped
      BY <2>21 DEF CheckTOTP
    <3>3. Grows
      BY <2>21, <3>2 DEF CheckTOTP, Grows, StepUp
    <3>4. ASSUME Goto(r, "getBackup")
          PROVE  RequestsFit'
      <4>1. /\ req' = [req EXCEPT ![r] = req'[r]] /\ req'[r] \in RequestRecord
            /\ req'[r].pc = "getBackup" /\ Same(req'[r], req[r])
        BY <3>4, GotoStep DEF Labels, Factor
      <4>2. Fits(req'[r], owner', stepped', shown', revoked')
        BY <3>1, <3>3, <4>1 DEF Grows, Fits, Knows, Read, Same, Nameless, Factor
      <4>3. QED
        BY <3>3, <4>1, <4>2, RequestMoves
    <3>5. Return(r) => RequestsFit'
      BY <3>3, ReturnFits
    <3>6. Goto(r, Accepted(r)) /\ StepUp(r, TRUE) => RequestsFit'
      BY <3>1, <3>3, AcceptedFits
    <3>7. RequestsFit'
      BY <3>2, <3>4, <3>5, <3>6
    <3>8. stepped' \subseteq Passes
      BY <3>1, <3>2, <3>3, Tables, AcceptedFits
    <3>9. Stored'
      <4>1. UNCHANGED <<mix, byId, byUser, listed, otp, setup, states, twofa, tokens, owner, revoked, shown>>
        BY <2>21 DEF CheckTOTP, kvVars, dbVars
      <4>2. EnabledWasShown'
        BY <4>1, Tables DEF EnabledWasShown
      <4>3. QED
        BY <3>3, <3>8, <4>1, <4>2, Tables, StoredStays
    <3>10. QED
      BY <3>7, <3>9 DEF Inv
  <2>22. ASSUME NEW r \in Requests, PutBackupCodes(r)
         PROVE  Inv'
    <3>1. /\ req[r].pc = "putBackup" /\ req[r].pc \in Factor
          /\ Fits(req[r], owner, stepped, shown, revoked)
      BY <2>22 DEF PutBackupCodes, At, Inv, RequestsFit, Factor
    <3>2. /\ req[r].user \in Users /\ req[r].seen \in SUBSET BackupCodes
          /\ req[r].code \in req[r].seen
      BY <3>1 DEF Fits, Knows, Read, Nameless
    <3>3. StepUp(r, TRUE)
      BY <2>22, <3>2 DEF PutBackupCodes, StepUp
    <3>4. Grows
      BY <2>22, <3>3 DEF PutBackupCodes, Grows, StepUp
    <3>5. RequestsFit' /\ stepped' \subseteq Passes
      BY <2>22, <3>1, <3>3, <3>4, AcceptedFits DEF PutBackupCodes
    <3>6. Stored'
      <4>1. UNCHANGED <<mix, byId, byUser, listed, otp, setup, states, tokens, owner, revoked, shown>>
        BY <2>22 DEF PutBackupCodes, kvVars
      <4>2. twofa' = [twofa EXCEPT ![req[r].user].codes = req[r].seen \ {req[r].code}]
        BY <2>22 DEF PutBackupCodes
      <4>3. twofa' \in FactorStore
        BY <3>2, <4>2, Tables DEF FactorStore
      <4>4. \A u \in Users : twofa'[u].secret = twofa[u].secret
        BY <3>2, <4>2, Tables DEF FactorStore
      <4>5. EnabledWasShown'
        BY <4>1, <4>4, Tables DEF EnabledWasShown
      <4>6. QED
        BY <3>4, <3>5, <4>1, <4>3, <4>5, Tables, StoredStays
    <3>7. QED
      BY <3>5, <3>6 DEF Inv
  <2>23. ASSUME NEW r \in Requests, GetSetup(r)
         PROVE  Inv'
    <3>1. /\ req[r].pc = "getSetup" /\ req[r] \in RequestRecord
          /\ Fits(req[r], owner, stepped, shown, revoked)
      BY <2>23 DEF GetSetup, At, Inv, RequestsFit
    <3>2. req[r].user \in Users
      BY <3>1 DEF Fits, Knows, Nameless
    <3>3. UNCHANGED <<mix, byId, byUser, listed, otp, setup, states, twofa, tokens, owner, revoked, stepped>>
      BY <2>23 DEF GetSetup, kvVars, dbVars
    <3>4. CASE Return(r) /\ UNCHANGED shown
      <4>1. Grows
        BY <3>3, <3>4 DEF Grows
      <4>2. Stored'
        <5>1. EnabledWasShown'
          BY <3>3, <3>4, Tables DEF EnabledWasShown
        <5>2. QED
          BY <3>3, <3>4, <4>1, <5>1, Tables, StoredStays
      <4>3. QED
        BY <3>4, <4>1, <4>2, ReturnFits DEF Inv
    <3>5. ASSUME NEW x \in Secrets, Remember(r, x, "enable"), shown' = shown \cup {<<req[r].user, x>>}
          PROVE  Inv'
      <4>1. Grows
        BY <3>3, <3>5 DEF Grows
      <4>2. Stored'
        <5>1. EnabledWasShown'
          BY <3>3, <3>5, Tables DEF EnabledWasShown
        <5>2. shown' \subseteq Users \X Secrets
          BY <3>2, <3>5, Tables
        <5>3. QED
          BY <3>3, <4>1, <5>1, <5>2, Tables, StoredStays
      <4>3. /\ req' = [req EXCEPT ![r] = req'[r]] /\ req'[r] \in RequestRecord
            /\ req'[r].pc = "enable" /\ Same(req'[r], req[r]) /\ req'[r].seen = x
        <5>1. "enable" \in Labels /\ x \in Values
          BY DEF Labels, Values
        <5>2. QED
          BY <3>5, <5>1, RememberStep
      <4>4. <<req'[r].user, req'[r].seen>> \in shown'
        BY <3>5, <4>3 DEF Same
      <4>5. Fits(req'[r], owner', stepped', shown', revoked')
        BY <3>1, <3>2, <3>3, <4>3, <4>4 DEF Fits, Knows, Read, Same, Nameless, Factor
      <4>6. QED
        BY <4>1, <4>2, <4>3, <4>5, RequestMoves DEF Inv
    <3>6. QED
      BY <2>23, <3>2, <3>4, <3>5, Tables DEF GetSetup
  <2>24. ASSUME NEW r \in Requests, CreateSession(r)
         PROVE  Inv'
    <3>1. /\ req[r].pc = "create" /\ req[r] \in RequestRecord
          /\ Fits(req[r], owner, stepped, shown, revoked)
      BY <2>24 DEF CreateSession, At, Inv, RequestsFit
    <3>2. req[r].user \in Users
      BY <3>1 DEF Fits, Knows, Nameless
    <3>3. PICK s \in mix.ids :
            /\ owner[s] = None
            /\ owner' = [owner EXCEPT ![s] = req[r].user]
            /\ req' = [req EXCEPT ![r].session = s, ![r].pc = "put", ![r].todo = SessionKeys,
                                  ![r].seen = [user |-> req[r].user, verified |-> FALSE]]
      BY <2>24 DEF CreateSession, madeUp
    <3>4. s \in SessionIds
      BY SessionsAssumption DEF Inv, Stored, HistoryTyped
    <3>5. UNCHANGED <<mix, kvVars, dbVars, revoked, stepped, shown>>
      BY <2>24 DEF CreateSession
    <3>6. owner' \in [SessionIds -> Users \cup {None}] /\ Grows
      BY <3>2, <3>3, <3>4, <3>5, Tables DEF Grows
    <3>7. Stored'
      <4>1. TypeOK' /\ HistoryTyped'
        BY <3>5, <3>6 DEF Inv, Stored, TypeOK, HistoryTyped, kvVars, dbVars
      <4>2. VerifiedWasEarned' /\ EnabledWasShown'
        BY <3>5, <3>6, VerifiedStays DEF Inv, Stored, EnabledWasShown, kvVars, dbVars
      <4>3. ASSUME NEW t \in SessionIds, byId[t] # None
            PROVE  owner'[t] = byId[t].user
        <5>1. owner[t] = byId[t].user /\ byId[t].user \in Users
          BY <4>3, Tables DEF Inv, Stored, RecordsOwned, Record
        <5>2. owner[t] # None
          BY <5>1, SessionsAssumption
        <5>3. QED
          BY <3>6, <5>1, <5>2 DEF Grows
      <4>4. RecordsOwned'
        BY <3>5, <4>3 DEF RecordsOwned, kvVars
      <4>5. QED
        BY <4>1, <4>2, <4>4 DEF Stored
    <3> DEFINE x == [user |-> req[r].user, verified |-> FALSE]
    <3>8. x \in Record /\ x.user = req[r].user /\ x.verified = FALSE
      BY <3>2 DEF Record
    <3>9. /\ req' = [req EXCEPT ![r].session = s, ![r].pc = "put", ![r].todo = SessionKeys,
                                ![r].seen = x]
          /\ req \in [Requests -> RequestRecord]
      BY <3>3 DEF Inv, RequestsFit
    <3> HIDE DEF x
    <3>10. /\ req' = [req EXCEPT ![r] = req'[r]] /\ req'[r] \in RequestRecord
           /\ req'[r].pc = "put" /\ req'[r].session = s /\ req'[r].seen = x
           /\ req'[r].todo = SessionKeys /\ req'[r].user = req[r].user
      <4>1. req' = [req EXCEPT ![r] = req'[r]]
        BY <3>9 DEF RequestRecord
      <4>2. /\ req'[r].pc = "put" /\ req'[r].session = s /\ req'[r].seen = x
            /\ req'[r].todo = SessionKeys /\ req'[r].user = req[r].user
        BY <3>4, <3>8, <3>9 DEF RequestRecord
      <4>3. req'[r] \in RequestRecord
        <5>1. req'[r] = [req[r] EXCEPT !.session = s, !.pc = "put", !.todo = SessionKeys, !.seen = x]
          BY <3>9
        <5>2. "put" \in Labels /\ SessionKeys \in Todos /\ x \in Values
          BY <3>8 DEF Labels, Todos, Values
        <5>3. QED
          BY ONLY <3>1, <3>4, <5>1, <5>2, SetsOut
      <4>4. QED
        BY <4>1, <4>2, <4>3
    <3>11. owner'[s] = req[r].user
      BY <3>3, <3>4, Tables
    <3>12. Fits(req'[r], owner', stepped', shown', revoked')
      BY <3>2, <3>4, <3>8, <3>10, <3>11 DEF Fits, Knows, Read, Nameless, Factor
    <3>13. QED
      BY <3>6, <3>7, <3>10, <3>12, RequestMoves DEF Inv
  <2>25. ASSUME NEW r \in Requests, GetSession(r)
         PROVE  Inv'
    <3>1. /\ req[r].pc = "getSession" /\ req[r] \in RequestRecord
          /\ Fits(req[r], owner, stepped, shown, revoked)
      BY <2>25 DEF GetSession, At, Inv, RequestsFit
    <3>2. /\ req[r].user \in Users
          /\ req[r].session = None \/ Earned(req[r].session, owner, stepped)
      BY <3>1 DEF Fits, Knows, Read, Nameless
    <3>3. UNCHANGED <<mix, kvVars, dbVars, historyVars>>
      BY <2>25 DEF GetSession
    <3>4. Grows /\ Stored'
      <4>1. Grows
        BY <3>3 DEF Grows, historyVars
      <4>2. EnabledWasShown'
        BY <3>3, Tables DEF EnabledWasShown, dbVars, historyVars
      <4>3. QED
        BY <3>3, <4>1, <4>2, Tables, StoredStays DEF kvVars, dbVars, historyVars
    <3>5. CASE Return(r)
      BY <3>4, <3>5, ReturnFits DEF Inv
    <3> DEFINE s == req[r].session
               x == [byId[s] EXCEPT !.verified = TRUE]
    <3>6. CASE /\ s # None /\ byId[s] # None
               /\ req' = [req EXCEPT ![r].pc = "put", ![r].todo = {"BY_ID", "BY_USER"}, ![r].seen = x]
      <4>0. s \in SessionIds
        BY <3>1, <3>6 DEF RequestRecord
      <4>1. byId[s] \in Record /\ owner[s] = byId[s].user
        BY <3>6, <4>0, Tables DEF Inv, Stored, RecordsOwned
      <4>2. x \in Record /\ x.user = byId[s].user
        BY <4>1 DEF Record
      <4>3. req \in [Requests -> RequestRecord]
        BY DEF Inv, RequestsFit
      <4> HIDE DEF x
      <4>4. /\ req' = [req EXCEPT ![r] = req'[r]] /\ req'[r] \in RequestRecord
            /\ req'[r].pc = "put" /\ req'[r].seen = x /\ req'[r].todo = {"BY_ID", "BY_USER"}
            /\ req'[r].session = s /\ req'[r].user = req[r].user /\ req'[r].auth = req[r].auth
        <5>1. req' = [req EXCEPT ![r] = req'[r]]
          BY <3>6, <4>3 DEF RequestRecord
        <5>2. /\ req'[r].pc = "put" /\ req'[r].seen = x /\ req'[r].todo = {"BY_ID", "BY_USER"}
              /\ req'[r].session = s /\ req'[r].user = req[r].user /\ req'[r].auth = req[r].auth
          BY <3>6, <4>2, <4>3 DEF RequestRecord
        <5>3. req'[r] \in RequestRecord
          <6>1. req'[r] = [req[r] EXCEPT !.pc = "put", !.todo = {"BY_ID", "BY_USER"}, !.seen = x]
            BY <3>6, <4>3
          <6>2. "put" \in Labels /\ {"BY_ID", "BY_USER"} \in Todos /\ x \in Values
            BY <4>2 DEF Labels, Todos, Values, SessionKeys
          <6>3. QED
            BY ONLY <3>1, <4>0, <6>1, <6>2, SetsOut
        <5>4. QED
          BY <5>1, <5>2, <5>3
      <4>5. Fits(req'[r], owner', stepped', shown', revoked')
        BY <3>1, <3>2, <3>3, <3>6, <4>0, <4>1, <4>2, <4>4 DEF Fits, Knows, Read, Nameless, Factor,
           SessionKeys, historyVars
      <4>6. QED
        BY <3>4, <4>4, <4>5, RequestMoves DEF Inv
    <3>7. QED
      BY <2>25, <3>5, <3>6 DEF GetSession, existing
  <2>26. ASSUME NEW r \in Requests, GetTarget(r)
         PROVE  Inv'
    <3>1. /\ req[r].pc = "target" /\ req[r] \in RequestRecord
          /\ Fits(req[r], owner, stepped, shown, revoked)
      BY <2>26 DEF GetTarget, At, Inv, RequestsFit
    <3>2. req[r].code \in SessionIds
      BY <3>1 DEF Fits, Knows
    <3>3. UNCHANGED <<mix, kvVars, dbVars, historyVars>>
      BY <2>26 DEF GetTarget
    <3>4. Stored' /\ Grows
      BY <3>3, NothingStored
    <3>5. CASE Return(r)
      BY <3>4, <3>5, ReturnFits DEF Inv
    <3>6. CASE byId[req[r].code] # None /\ Remember(r, {req[r].code}, "delete")
      <4>1. owner[req[r].code] \in Users
        BY <3>2, <3>6, Tables DEF Inv, Stored, RecordsOwned, Record
      <4>2. "delete" \in Labels /\ {req[r].code} \in Values
        BY <3>2 DEF Labels, Nameless, Values
      <4>3. /\ req' = [req EXCEPT ![r] = req'[r]] /\ req'[r] \in RequestRecord
            /\ req'[r].pc = "delete" /\ req'[r].seen = {req[r].code}
        BY <3>6, <4>2, RememberStep
      <4>4. Fits(req'[r], owner', stepped', shown', revoked')
        BY <3>2, <3>3, <4>1, <4>3 DEF Fits, Knows, Read, Nameless, Factor, historyVars
      <4>5. QED
        BY <3>4, <4>3, <4>4, RequestMoves DEF Inv
    <3>7. QED
      BY <2>26, <3>5, <3>6 DEF GetTarget
  <2>27. ASSUME NEW r \in Requests, ListUserSessions(r)
         PROVE  Inv'
    <3>1. /\ req[r].pc = "list" /\ req[r] \in RequestRecord
          /\ Fits(req[r], owner, stepped, shown, revoked)
      BY <2>27 DEF ListUserSessions, At, Inv, RequestsFit
    <3>2. req[r].user \in Users
      BY <3>1 DEF Fits, Knows, Nameless
    <3>3. UNCHANGED <<mix, kvVars, dbVars, historyVars>>
      BY <2>27 DEF ListUserSessions
    <3>4. Stored' /\ Grows
      BY <3>3, NothingStored
    <3> DEFINE own == UserSessions(req[r].user)
    <3>5. own \in SUBSET SessionIds /\ \A t \in own : owner[t] \in Users
      BY <3>2, Tables DEF UserSessions
    <3>6. "delete" \in Labels /\ own \in Values
      BY <3>5 DEF Labels, Nameless, Values
    <3>7. Remember(r, own, "delete")
      BY <2>27 DEF ListUserSessions
    <3> HIDE DEF own
    <3>8. /\ req' = [req EXCEPT ![r] = req'[r]] /\ req'[r] \in RequestRecord
          /\ req'[r].pc = "delete" /\ req'[r].seen = own
      BY <3>6, <3>7, RememberStep
    <3>9. Fits(req'[r], owner', stepped', shown', revoked')
      BY <3>3, <3>5, <3>8 DEF Fits, Knows, Read, Nameless, Factor, historyVars
    <3>10. QED
      BY <3>4, <3>8, <3>9, RequestMoves DEF Inv
  <2>28. ASSUME NEW r \in Requests, DeleteGet(r)
         PROVE  Inv'
    <3>1. /\ req[r].pc = "delete" /\ req[r] \in RequestRecord
          /\ Fits(req[r], owner, stepped, shown, revoked)
      BY <2>28 DEF DeleteGet, At, Inv, RequestsFit
    <3>2. req[r].seen \in SUBSET SessionIds /\ \A t \in req[r].seen : owner[t] \in Users
      BY <3>1 DEF Fits, Read
    <3>3. /\ UNCHANGED <<mix, kvVars, dbVars, owner, stepped, shown>>
          /\ revoked' = revoked \cup req[r].seen
      BY <2>28 DEF DeleteGet
    <3>4. Stored' /\ Grows
      <4>1. Grows
        BY <3>3 DEF Grows
      <4>2. TypeOK' /\ HistoryTyped' /\ RecordsOwned' /\ VerifiedWasEarned' /\ EnabledWasShown'
        BY <3>2, <3>3 DEF Inv, Stored, TypeOK, HistoryTyped, RecordsOwned, VerifiedWasEarned,
           EnabledWasShown, kvVars, dbVars
      <4>3. QED
        BY <4>1, <4>2 DEF Stored
    <3>5. CASE Return(r)
      BY <3>4, <3>5, ReturnFits DEF Inv
    <3> DEFINE keys(t) == IF byId[t] = None THEN {"BY_ID"} ELSE SessionKeys
               todo == UNION {{t} \X keys(t) : t \in req[r].seen}
    <3>6. CASE req' = [req EXCEPT ![r].todo = todo, ![r].pc = "deleteKeys"]
      <4>1. todo \in SUBSET (SessionIds \X SessionKeys) /\ \A x \in todo : x[1] \in req[r].seen
        <5>1. ASSUME NEW x \in todo
              PROVE  x \in SessionIds \X SessionKeys /\ x[1] \in req[r].seen
          <6>1. PICK t \in req[r].seen : x \in {t} \X keys(t)
            OBVIOUS
          <6>2. t \in SessionIds /\ keys(t) \subseteq SessionKeys
            BY <3>2 DEF SessionKeys
          <6> HIDE DEF keys
          <6>3. QED
            BY <6>1, <6>2
        <5>2. QED
          BY <5>1
      <4>2. todo \in Todos
        BY <4>1 DEF Todos
      <4> HIDE DEF todo
      <4>3. req \in [Requests -> RequestRecord] /\ "deleteKeys" \in Labels
        BY DEF Inv, RequestsFit, Labels, Nameless
      <4>4. req'[r] = [req[r] EXCEPT !.todo = todo, !.pc = "deleteKeys"]
        BY <3>6, <4>3
      <4>5. req'[r] \in RequestRecord /\ req'[r].pc = "deleteKeys" /\ req'[r].todo = todo
        <5>1. req'[r] \in RequestRecord
          BY ONLY <3>1, <4>2, <4>3, <4>4, KeysLeft
        <5>2. QED
          BY <3>1, <4>4, <5>1 DEF RequestRecord
      <4>6. req' = [req EXCEPT ![r] = req'[r]]
        BY <3>6, <4>3
      <4>7. Fits(req'[r], owner', stepped', shown', revoked')
        BY <3>2, <3>3, <4>1, <4>5 DEF Fits, Knows, Read, Nameless, Factor
      <4>8. QED
        BY <3>4, <4>5, <4>6, <4>7, RequestMoves DEF Inv
    <3>7. QED
      BY <2>28, <3>5, <3>6 DEF DeleteGet
  <2>29. ASSUME NEW r \in Requests, NEW k \in SessionKeys, PutSession(r, k)
         PROVE  Inv'
    <3>1. /\ req[r].pc = "put" /\ req[r] \in RequestRecord
          /\ Fits(req[r], owner, stepped, shown, revoked)
      BY <2>29 DEF PutSession, At, Inv, RequestsFit
    <3> DEFINE s == req[r].session
               x == req[r].seen
    <3>2. /\ s \in SessionIds /\ x \in Record /\ x.user = owner[s] /\ req[r].todo \in SUBSET SessionKeys
          /\ x.verified => Earned(s, owner, stepped)
      BY <3>1 DEF Fits, Knows, Read
    <3>3. /\ byId' = IF k = "BY_ID" THEN [byId EXCEPT ![s] = x] ELSE byId
          /\ byUser' = IF k = "BY_USER" THEN [byUser EXCEPT ![x.user] = s] ELSE byUser
          /\ listed' = IF k = "LIST_ENTRY" THEN listed \cup {s} ELSE listed
          /\ UNCHANGED <<mix, otp, setup, states, dbVars, historyVars>>
      BY <2>29 DEF PutSession
    <3> HIDE DEF s, x
    <3>4. Stored' /\ Grows
      <4>1. byId' \in [SessionIds -> Record \cup {None}]
        BY <3>2, <3>3, Tables
      <4>2. byUser' \in [Users -> SessionIds \cup {None}]
        BY <3>2, <3>3, Tables DEF Record
      <4>3. listed' \subseteq SessionIds
        BY <3>2, <3>3, Tables
      <4>4. ASSUME NEW t \in SessionIds
            PROVE  byId'[t] = byId[t] \/ (t = s /\ byId'[t] = x)
        BY <3>3, Tables
      <4>5. QED
        BY <3>2, <3>3, <4>1, <4>2, <4>3, <4>4, RecordsStay
    <3>5. CASE Return(r)
      BY <3>4, <3>5, ReturnFits DEF Inv
    <3>6. CASE req' = [req EXCEPT ![r].todo = @ \ {k}]
      <4> DEFINE t == req[r].todo \ {k}
      <4>1. /\ req \in [Requests -> RequestRecord] /\ req[r].pc \in Labels
            /\ t \in Todos /\ t \in SUBSET SessionKeys
        BY <3>1, <3>2 DEF Inv, RequestsFit, Todos, Labels
      <4>2. req'[r] = [req[r] EXCEPT !.todo = t] /\ req' = [req EXCEPT ![r] = req'[r]]
        BY <3>6, <4>1
      <4> HIDE DEF t
      <4>3. /\ req'[r] \in RequestRecord /\ req'[r].pc = "put" /\ req'[r].todo = t
            /\ Same(req'[r], req[r]) /\ req'[r].seen = req[r].seen
        <5>1. req'[r] \in RequestRecord
          BY ONLY <3>1, <4>1, <4>2, KeysLeft
        <5>2. QED
          BY <3>1, <4>2, <5>1 DEF RequestRecord, Same
      <4>4. Fits(req'[r], owner', stepped', shown', revoked')
        BY <3>1, <3>3, <4>1, <4>3 DEF Fits, Knows, Read, Same, Nameless, Factor, historyVars
      <4>5. QED
        BY <3>4, <4>2, <4>3, <4>4, RequestMoves DEF Inv
    <3>7. QED
      BY <2>29, <3>5, <3>6 DEF PutSession
  <2>30. ASSUME NEW r \in Requests, NEW t \in SessionIds, NEW k \in SessionKeys, DeleteKey(r, t, k)
         PROVE  Inv'
    <3>1. /\ req[r].pc = "deleteKeys" /\ req[r] \in RequestRecord /\ <<t, k>> \in req[r].todo
          /\ Fits(req[r], owner, stepped, shown, revoked)
      BY <2>30 DEF DeleteKey, At, Inv, RequestsFit
    <3>2. /\ req[r].todo \in SUBSET (SessionIds \X SessionKeys)
          /\ \A x \in req[r].todo : owner[x[1]] \in Users /\ x[1] \in revoked
      BY <3>1 DEF Fits, Read
    <3>3. /\ byId' = IF k = "BY_ID" THEN [byId EXCEPT ![t] = None] ELSE byId
          /\ byUser' = IF k = "BY_USER" THEN [byUser EXCEPT ![owner[t]] = None] ELSE byUser
          /\ listed' = IF k = "LIST_ENTRY" THEN listed \ {t} ELSE listed
          /\ UNCHANGED <<mix, otp, setup, states, dbVars, historyVars>>
      BY <2>30 DEF DeleteKey
    <3>4. Stored' /\ Grows
      <4>1. byId' \in [SessionIds -> Record \cup {None}]
        BY <3>3, Tables
      <4>2. byUser' \in [Users -> SessionIds \cup {None}] /\ listed' \subseteq SessionIds
        BY <3>3, Tables
      <4>3. \A i \in SessionIds : byId'[i] \in {byId[i], None}
        BY <3>3, Tables
      <4>4. QED
        BY <3>3, <4>1, <4>2, <4>3, RecordsStay
    <3>5. CASE Return(r)
      BY <3>4, <3>5, ReturnFits DEF Inv
    <3>6. CASE req' = [req EXCEPT ![r].todo = @ \ {<<t, k>>}]
      <4> DEFINE d == req[r].todo \ {<<t, k>>}
      <4>1. /\ req \in [Requests -> RequestRecord] /\ req[r].pc \in Labels
            /\ d \in Todos /\ d \in SUBSET (SessionIds \X SessionKeys)
            /\ \A x \in d : owner[x[1]] \in Users /\ x[1] \in revoked
        BY <3>1, <3>2 DEF Inv, RequestsFit, Todos, Labels, Nameless
      <4>2. req'[r] = [req[r] EXCEPT !.todo = d] /\ req' = [req EXCEPT ![r] = req'[r]]
        BY <3>6, <4>1
      <4> HIDE DEF d
      <4>3. req'[r] \in RequestRecord /\ req'[r].pc = "deleteKeys" /\ req'[r].todo = d
        <5>1. req'[r] \in RequestRecord
          BY ONLY <3>1, <4>1, <4>2, KeysLeft
        <5>2. QED
          BY <3>1, <4>2, <5>1 DEF RequestRecord
      <4>4. Fits(req'[r], owner', stepped', shown', revoked')
        BY <3>3, <4>1, <4>3 DEF Fits, Knows, Read, Nameless, Factor, historyVars
      <4>5. QED
        BY <3>4, <4>2, <4>3, <4>4, RequestMoves DEF Inv
    <3>7. QED
      BY <2>30, <3>5, <3>6 DEF DeleteKey
  <2>31. ASSUME NEW r \in Requests, NEW s \in SessionIds, LogoutGone(r, s)
         PROVE  Inv'
    <3> DEFINE q == [Idle EXCEPT !.op = "logout", !.pc = "delete", !.seen = {s}]
    <3>1. /\ req' = [req EXCEPT ![r] = q] /\ owner[s] # None
          /\ UNCHANGED <<mix, kvVars, dbVars, historyVars>>
      BY <2>31 DEF LogoutGone
    <3>2. Stored' /\ Grows
      BY <3>1, NothingStored
    <3>3. q \in RequestRecord /\ q.pc = "delete" /\ q.seen = {s}
      <4>1. "logout" \in Operations \cup {None} /\ "delete" \in Labels /\ {s} \in Values
        BY DEF Operations, Labels, Nameless, Values
      <4>2. q = [Idle EXCEPT !.op = "logout", !.pc = "delete", !.seen = {s}] /\ Idle \in RequestRecord
        BY IdleFits
      <4> HIDE DEF q
      <4>3. q \in RequestRecord
        BY ONLY <4>1, <4>2, LogsOut
      <4>4. QED
        BY <4>2, <4>3 DEF RequestRecord
    <3> HIDE DEF q
    <3>4. req' = [req EXCEPT ![r] = req'[r]] /\ req'[r] = q
      BY <3>1 DEF Inv, RequestsFit
    <3>5. owner[s] \in Users
      BY <3>1, Tables
    <3>6. Fits(req'[r], owner', stepped', shown', revoked')
      BY <3>1, <3>3, <3>4, <3>5 DEF Fits, Knows, Read, Nameless, Factor, historyVars
    <3>7. QED
      BY <3>2, <3>3, <3>4, <3>6, RequestMoves DEF Inv
  <2>32. ASSUME NEW r \in Requests, Login(r)
         PROVE  Inv'
    <3>1. ASSUME NEW u \in Users, SendLoginCode(r, u) \/ OidcExchange(r, u)
          PROVE  Inv'
      BY <3>1, BeginFits DEF SendLoginCode, OidcExchange, Starts, Operations, Typed, Auths, Bearers
    <3>2. ASSUME NEW u \in Users, NEW c \in Typed, VerifyLogin(r, u, c)
          PROVE  Inv'
      BY <3>2, BeginFits DEF VerifyLogin, Starts, Operations, Auths, Bearers
    <3>3. CASE OAuthLogin(r)
      BY <3>3, BeginFits DEF OAuthLogin, Starts, Operations, Typed, Auths, Bearers
    <3>4. ASSUME NEW u \in Users, NEW st \in States, OAuthCallback(r, u, st)
          PROVE  Inv'
      BY <3>4, BeginFits DEF OAuthCallback, Starts, Operations, Auths, Bearers
    <3>5. QED
      BY <2>32, <3>1, <3>2, <3>3, <3>4 DEF Login
  <2>33. ASSUME NEW r \in Requests, NEW s \in SessionIds \cup {None}, SecondFactor(r, s)
         PROVE  Inv'
    <3>1. CASE SendTwoFaCode(r, s) \/ SetupBegin(r, s)
      BY <3>1, BeginAsFits DEF SendTwoFaCode, SetupBegin, Starts, Operations, Typed
    <3>2. ASSUME NEW c \in Typed, Verify2FA(r, s, c) \/ DisableBegin(r, s, c) \/ RegenerateBegin(r, s, c)
          PROVE  Inv'
      BY <3>2, BeginAsFits DEF Verify2FA, DisableBegin, RegenerateBegin, Starts, Operations
    <3>3. ASSUME NEW c \in Secrets, ConfirmBegin(r, s, c)
          PROVE  Inv'
      BY <3>3, BeginAsFits DEF ConfirmBegin, Starts, Operations, Typed
    <3>4. QED
      BY <2>33, <3>1, <3>2, <3>3 DEF SecondFactor
  <2>34. ASSUME NEW r \in Requests, NEW s \in SessionIds \cup {None}, Account(r, s)
         PROVE  Inv'
    <3>1. ASSUME NEW t \in SessionIds, RevokeBegin(r, s, t)
          PROVE  Inv'
      BY <3>1, BeginAsFits DEF RevokeBegin, Starts, Operations
    <3>2. CASE BeginByCookie(r, "logout", s, None, "list")
      BY <3>2, BeginAsFits DEF BeginAs, Starts, Operations, Typed
    <3>3. ASSUME NEW t \in Tokens, TokenBegin(r, s, "createToken", t) \/ TokenBegin(r, s, "revokeToken", t)
          PROVE  Inv'
      BY <3>3, BeginAsFits DEF TokenBegin, Starts, Operations
    <3>4. LogoutGone(r, s) => s \in SessionIds
      BY DEF LogoutGone
    <3>5. QED
      BY <2>34, <3>1, <3>2, <3>3, <3>4, <2>31 DEF Account, LogoutBegin
  <2>35. ASSUME Time
         PROVE  Inv'
    <3>1. ASSUME NEW s \in SessionIds, ExpireSession(s)
          PROVE  Inv'
      <4>1. /\ UNCHANGED <<mix, otp, setup, states, dbVars, req, historyVars>>
            /\ byId' = [byId EXCEPT ![s] = None] /\ listed' = listed \ {s}
            /\ byUser' = [u \in Users |-> IF byUser[u] = s THEN None ELSE byUser[u]]
        BY <3>1 DEF ExpireSession
      <4>2. byId' \in [SessionIds -> Record \cup {None}] /\ listed' \subseteq SessionIds
        BY <4>1, Tables
      <4>3. byUser' \in [Users -> SessionIds \cup {None}]
        BY <4>1, Tables
      <4>4. \A i \in SessionIds : byId'[i] \in {byId[i], None}
        BY <4>1, Tables
      <4>5. Stored'
        BY <4>1, <4>2, <4>3, <4>4, RecordsStay
      <4>6. QED
        BY <4>1, <4>5, RequestsStay DEF Inv, historyVars
    <3>2. ASSUME NEW s \in SessionIds, LapseSecondFactor(s)
          PROVE  Inv'
      <4>1. /\ UNCHANGED <<mix, byUser, listed, otp, setup, states, dbVars, req, historyVars>>
            /\ byId' = [byId EXCEPT ![s] = [byId[s] EXCEPT !.verified = FALSE]] /\ byId[s] # None
        BY <3>2 DEF LapseSecondFactor
      <4> DEFINE x == [byId[s] EXCEPT !.verified = FALSE]
      <4>2. byId[s] \in Record /\ owner[s] = byId[s].user
        BY <4>1, Tables DEF Inv, Stored, RecordsOwned
      <4>3. x \in Record /\ x.user = owner[s] /\ x.verified = FALSE
        BY <4>2 DEF Record
      <4> HIDE DEF x
      <4>4. byId' \in [SessionIds -> Record \cup {None}]
        BY <4>1, <4>3, Tables DEF x
      <4>5. \A i \in SessionIds : byId'[i] = byId[i] \/ (i = s /\ byId'[i] = x)
        BY <4>1, Tables DEF x
      <4>6. Stored'
        BY <4>1, <4>3, <4>4, <4>5, Tables, RecordsStay
      <4>7. QED
        BY <4>1, <4>6, RequestsStay DEF Inv, historyVars
    <3>3. ASSUME NEW u \in Users, NEW p \in Purposes, ExpireOTP(p, u)
          PROVE  Inv'
      <4>1. /\ UNCHANGED <<mix, byId, byUser, listed, setup, states, dbVars, req, historyVars>>
            /\ otp' = [otp EXCEPT ![p][u] = NoOtp]
        BY <3>3 DEF ExpireOTP
      <4>2. otp' \in OtpStore
        BY <4>1, Tables DEF OtpStore, OtpRecord, NoOtp
      <4>3. EnabledWasShown' /\ Grows
        BY <4>1, Tables DEF EnabledWasShown, Grows, dbVars, historyVars
      <4>4. Stored'
        BY <4>1, <4>2, <4>3, Tables, StoredStays DEF dbVars, historyVars
      <4>5. QED
        BY <4>1, <4>4, RequestsStay DEF Inv, historyVars
    <3>4. ASSUME NEW u \in Users, ExpireSetup(u)
          PROVE  Inv'
      <4>1. /\ UNCHANGED <<mix, byId, byUser, listed, otp, states, dbVars, req, historyVars>>
            /\ setup' = [setup EXCEPT ![u] = None]
        BY <3>4 DEF ExpireSetup
      <4>2. setup' \in [Users -> Secrets \cup {None}]
        BY <4>1, Tables
      <4>3. EnabledWasShown' /\ Grows
        BY <4>1, Tables DEF EnabledWasShown, Grows, dbVars, historyVars
      <4>4. Stored'
        BY <4>1, <4>2, <4>3, Tables, StoredStays DEF dbVars, historyVars
      <4>5. QED
        BY <4>1, <4>4, RequestsStay DEF Inv, historyVars
    <3>5. ASSUME NEW st \in States, ExpireState(st)
          PROVE  Inv'
      <4>1. /\ UNCHANGED <<mix, byId, byUser, listed, otp, setup, dbVars, req, historyVars>>
            /\ states' = states \ {st}
        BY <3>5 DEF ExpireState
      <4>2. states' \subseteq States
        BY <4>1, Tables
      <4>3. EnabledWasShown' /\ Grows
        BY <4>1, Tables DEF EnabledWasShown, Grows, dbVars, historyVars
      <4>4. Stored'
        BY <4>1, <4>2, <4>3, Tables, StoredStays DEF dbVars, historyVars
      <4>5. QED
        BY <4>1, <4>4, RequestsStay DEF Inv, historyVars
    <3>6. QED
      BY <2>35, <3>1, <3>2, <3>3, <3>4, <3>5 DEF Time
  <2>36. ASSUME NEW r \in Requests, RefuseScoped(r)
         PROVE  Inv'
    BY <2>36, NothingStored, ReturnFits DEF RefuseScoped, Inv
  <2>37. ASSUME NEW r \in Requests, Continue(r)
        PROVE  Inv'
    BY <2>37, <2>36,
       <2>1, <2>2, <2>3, <2>4, <2>5, <2>6, <2>7, <2>8, <2>9, <2>10, <2>11, <2>12, <2>13, <2>14,
       <2>15, <2>16, <2>17, <2>18, <2>19, <2>20, <2>21, <2>22, <2>23, <2>24, <2>25, <2>26,
       <2>27, <2>28, <2>29, <2>30
       DEF Continue
  <2>38. CASE UNCHANGED vars
    <3>1. UNCHANGED <<mix, kvVars, dbVars, historyVars, req>>
      BY <2>38 DEF vars
    <3>2. QED
      BY <3>1, NothingStored, RequestsStay DEF Inv, historyVars
  <2>39. QED
    BY <2>37, <2>38, <2>32, <2>33, <2>34, <2>35 DEF Next
<1>3. QED
  BY <1>1, <1>2, PTL DEF Spec

\* Every stored value has the shape its readers expect; in particular no
\* one-time code is written back with more than three attempts (validateOTP).
THEOREM TypeCorrect == Spec => []TypeOK
<1>1. Inv => TypeOK
  BY DEF Inv, Stored
<1>2. QED
  BY <1>1, Invariant, PTL

\* No refresh, however late it writes the record it read, and no login marks a
\* session as verified beside whose cookie no right code was given; unless a
\* Bearer token named the user, the code was the session's own user's
\* (refreshSession, authenticate).
THEOREM VerifiedEarned == Spec => []VerifiedWasEarned
<1>1. Inv => VerifiedWasEarned
  BY DEF Inv, Stored
<1>2. QED
  BY <1>1, Invariant, PTL

\* enableTOTP stores a secret its user has shown a code for, whatever became of
\* the pending secret between the check and the write (totp/confirm).
THEOREM EnabledShown == Spec => []EnabledWasShown
<1>1. Inv => EnabledWasShown
  BY DEF Inv, Stored
<1>2. QED
  BY <1>1, Invariant, PTL

(* --- A session leaves its user's list only when it is revoked -------------- *)

Putting(s) == {r \in Requests : At(r, "put") /\ req[r].session = s}

\* A session that has a record, or gets one, is in the list, was revoked, or the
\* request that creates it has yet to write the entry.
Traced ==
  \A s \in SessionIds :
    byId[s] # None \/ Putting(s) # {} =>
      \/ s \in revoked \cup listed
      \/ \E r \in Putting(s) : "LIST_ENTRY" \in req[r].todo

\* A step of a request that is not at a label, before or after.
Elsewhere(r, label) ==
  /\ req[r].pc # label /\ req'[r].pc # label
  /\ req' = [req EXCEPT ![r] = req'[r]]

\* A step of a request that is not at "put", before or after, leaves every trace.
LEMMA LeavesTrace ==
  ASSUME Inv, Traced, NEW r \in Requests, Elsewhere(r, "put"),
         UNCHANGED <<byId, listed>>, revoked \subseteq revoked'
  PROVE  Traced'
<1>1. req \in [Requests -> RequestRecord]
  BY DEF Inv, RequestsFit
<1>2. ASSUME NEW p \in Requests
      PROVE  /\ At(p, "put")' = At(p, "put")
             /\ At(p, "put") => req'[p] = req[p]
  <2>1. CASE p = r
    BY <1>1, <2>1 DEF Elsewhere, At
  <2>2. CASE p # r
    BY <1>1, <2>2 DEF Elsewhere, At
  <2>3. QED
    BY <2>1, <2>2
<1>3. ASSUME NEW s \in SessionIds, byId'[s] # None \/ Putting(s)' # {}
      PROVE  \/ s \in revoked' \cup listed'
             \/ \E p \in Putting(s)' : "LIST_ENTRY" \in req'[p].todo
  <2>1. Putting(s)' = Putting(s)
    BY <1>2 DEF Putting
  <2>2. CASE s \in revoked \cup listed
    BY <2>2
  <2>3. CASE \E p \in Putting(s) : "LIST_ENTRY" \in req[p].todo
    BY <1>2, <2>1, <2>3 DEF Putting
  <2>4. QED
    BY <1>3, <2>1, <2>2, <2>3 DEF Traced
<1>4. QED
  BY <1>3 DEF Traced

\* Steps that go on elsewhere.
LEMMA MovesElsewhere ==
  ASSUME Inv, NEW label \in {"put", "attempt"}, NEW r \in Requests, req[r].pc # label,
         \/ Return(r)
         \/ \E pc \in Labels \ {label} : Goto(r, pc)
         \/ \E pc \in Labels \ {label} : \E x : Remember(r, x, pc)
  PROVE  Elsewhere(r, label)
<1>1. req \in [Requests -> RequestRecord] /\ req[r] \in RequestRecord
  BY DEF Inv, RequestsFit
<1>2. CASE Return(r)
  BY <1>1, <1>2 DEF Return, Idle, Elsewhere
<1>3. ASSUME NEW pc \in Labels \ {label}, Goto(r, pc)
      PROVE  Elsewhere(r, label)
  BY <1>1, <1>3 DEF Goto, Elsewhere, RequestRecord
<1>4. ASSUME NEW pc \in Labels \ {label}, NEW x, Remember(r, x, pc)
      PROVE  Elsewhere(r, label)
  BY <1>1, <1>4 DEF Remember, Elsewhere, RequestRecord
<1>5. QED
  BY <1>2, <1>3, <1>4

\* The steps of a handler outside createSession, refreshSession and deleteSession.
LEMMA Bystanders ==
  ASSUME Inv, NEW r \in Requests, Continue(r),
         ~ CreateSession(r), ~ GetSession(r), ~ DeleteGet(r),
         \A k \in SessionKeys : ~ PutSession(r, k),
         \A t \in SessionIds, k \in SessionKeys : ~ DeleteKey(r, t, k)
  PROVE  Elsewhere(r, "put") /\ UNCHANGED <<byId, listed, revoked, owner>>
<1>1. /\ {"draw", "discardOTP", "attempt", "consumeOTP", "secret", "getOTP", "getBackup", "putBackup",
          "enable", "deleteSetup", "getSession", "deleteState", "exchange", "create", "delete",
          "token", "disable", "newBackupCodes"} \subseteq Labels \ {"put"}
      /\ Fits(req[r], owner, stepped, shown, revoked)
  BY DEF Labels, Factor, Nameless, Inv, RequestsFit
<1>2. ASSUME req[r].pc \in Factor
      PROVE  Accepted(r) \in Labels \ {"put"}
  BY <1>1, <1>2 DEF Fits, Knows, Accepted
<1>3. CASE HasTotp(r)
  BY <1>1, <1>3, MovesElsewhere DEF HasTotp, At, kvVars, historyVars
<1>4. CASE CreateOTP(r)
  BY <1>1, <1>4, MovesElsewhere DEF CreateOTP, At, kvVars, historyVars
<1>5. CASE GetOTP(r)
  BY <1>1, <1>5, MovesElsewhere DEF GetOTP, exhausted, At, kvVars, historyVars
<1>6. CASE DiscardOTP(r)
  BY <1>1, <1>6, MovesElsewhere DEF DiscardOTP, DeleteOTP, NoOtp, At, kvVars, historyVars
<1>7. CASE Attempt(r)
  BY <1>1, <1>7, MovesElsewhere DEF Attempt, isRight, At, kvVars, historyVars
<1>8. CASE FindFactor(r)
  BY <1>1, <1>2, <1>8, MovesElsewhere DEF FindFactor, At, kvVars, historyVars
<1>9. CASE GetBackupCodes(r)
  BY <1>1, <1>9, MovesElsewhere DEF GetBackupCodes, At, kvVars, historyVars
<1>10. CASE SaveSetup(r)
  BY <1>1, <1>10, MovesElsewhere DEF SaveSetup, At, kvVars, historyVars
<1>11. CASE EnableTOTP(r)
  BY <1>1, <1>11, MovesElsewhere DEF EnableTOTP, confirmed, At, kvVars, historyVars
<1>12. CASE DeleteSetup(r)
  BY <1>1, <1>12, MovesElsewhere DEF DeleteSetup, At, kvVars, historyVars
<1>13. CASE DisableTOTP(r)
  BY <1>1, <1>13, MovesElsewhere DEF DisableTOTP, NoTotp, At, kvVars, historyVars
<1>14. CASE RegenerateBackupCodes(r)
  BY <1>1, <1>14, MovesElsewhere DEF RegenerateBackupCodes, At, kvVars, historyVars
<1>15. CASE CreateState(r)
  BY <1>1, <1>15, MovesElsewhere DEF CreateState, At, kvVars, historyVars
<1>16. CASE GetState(r)
  BY <1>1, <1>16, MovesElsewhere DEF GetState, At, kvVars, historyVars
<1>17. CASE ValidateState(r)
  BY <1>1, <1>17, MovesElsewhere DEF ValidateState, At, kvVars, historyVars
<1>18. CASE ExchangeCode(r)
  BY <1>1, <1>18, MovesElsewhere DEF ExchangeCode, At, kvVars, historyVars
<1>19. CASE Require2FA(r)
  BY <1>1, <1>19, MovesElsewhere DEF Require2FA, At, kvVars, historyVars
<1>20. CASE CreateToken(r)
  BY <1>1, <1>20, MovesElsewhere DEF CreateToken, At, kvVars, historyVars
<1>21. CASE RevokeToken(r)
  BY <1>1, <1>21, MovesElsewhere DEF RevokeToken, At, kvVars, historyVars
<1>22. CASE ConsumeOTP(r)
  BY <1>1, <1>2, <1>22, MovesElsewhere DEF ConsumeOTP, DeleteOTP, Factor, At, kvVars,
     historyVars
<1>23. CASE CheckTOTP(r)
  BY <1>1, <1>2, <1>23, MovesElsewhere DEF CheckTOTP, Factor, At, kvVars, historyVars
<1>24. CASE PutBackupCodes(r)
  BY <1>1, <1>2, <1>24, MovesElsewhere DEF PutBackupCodes, Factor, At, kvVars, historyVars
<1>25. CASE GetSetup(r)
  BY <1>1, <1>25, MovesElsewhere DEF GetSetup, At, kvVars, historyVars
<1>26. CASE GetTarget(r)
  BY <1>1, <1>26, MovesElsewhere DEF GetTarget, At, kvVars, historyVars
<1>27. CASE ListUserSessions(r)
  BY <1>1, <1>27, MovesElsewhere DEF ListUserSessions, At, kvVars, historyVars
<1>28. CASE RefuseScoped(r)
  BY <1>1, <1>28, MovesElsewhere DEF RefuseScoped, At, kvVars, historyVars
<1>29. QED
  BY <1>28, <1>3, <1>4, <1>5, <1>6, <1>7, <1>8, <1>9, <1>10, <1>11, <1>12, <1>13, <1>14, <1>15, <1>16,
     <1>17, <1>18, <1>19, <1>20, <1>21, <1>22, <1>23, <1>24, <1>25, <1>26, <1>27 DEF Continue

\* A request that begins has nothing to write yet.
LEMMA BeginsElsewhere ==
  ASSUME Inv, NEW r \in Requests, NEW op, NEW auth, NEW u, NEW s, NEW code, NEW pc,
         NEW label \in {"put", "attempt"}, pc # label, Begin(r, op, auth, u, s, code, pc)
  PROVE  Elsewhere(r, label) /\ UNCHANGED <<byId, listed, revoked, owner, otp, guesses, drawn>>
<1> DEFINE x == resolved(auth, u, s)
           q == [Idle EXCEPT !.op = op, !.auth = auth, !.user = u, !.session = s, !.code = code, !.pc = pc, !.seen = x]
<1>1. req' = [req EXCEPT ![r] = q] /\ UNCHANGED <<kvVars, historyVars>> /\ req[r].pc = "idle"
  BY DEF Begin, At
<1> HIDE DEF x
<1>2. q.pc = pc
  BY IdleFits DEF RequestRecord
<1> HIDE DEF q
<1>3. QED
  BY <1>1, <1>2 DEF Elsewhere, Inv, RequestsFit, kvVars, historyVars

\* A session that was never revoked and is not being written is in its user's
\* list, where logout looks for the sessions to delete: createSession writes its
\* keys in any order, and refreshes and revocations interleave with it.
THEOREM NeverRevokedListed == Spec => []NeverRevokedIsListed
<1> USE SessionsAssumption
<1>1. Init => Traced
  BY DEF Init, Traced, Putting, At, Idle
<1>2. Inv /\ Traced /\ [Next]_vars => Traced'
  <2> SUFFICES ASSUME Inv, Traced, [Next]_vars PROVE Traced'
    OBVIOUS
  <2>1. /\ req \in [Requests -> RequestRecord] /\ \A r \in Requests : req[r] \in RequestRecord
        /\ \A r \in Requests : Fits(req[r], owner, stepped, shown, revoked)
    BY DEF Inv, RequestsFit
  <2>2. ASSUME NEW r \in Requests, CreateSession(r)
        PROVE  Traced'
    <3>1. PICK s \in mix.ids :
            req' = [req EXCEPT ![r].session = s, ![r].pc = "put", ![r].todo = SessionKeys,
                               ![r].seen = [user |-> req[r].user, verified |-> FALSE]]
      BY <2>2 DEF CreateSession, madeUp
    <3>2. UNCHANGED <<byId, listed, revoked>> /\ req[r].pc = "create"
      BY <2>2 DEF CreateSession, At, kvVars
    <3>3. /\ req'[r].pc = "put" /\ req'[r].session = s /\ req'[r].todo = SessionKeys
          /\ \A p \in Requests : p # r => req'[p] = req[p]
      BY <2>1, <3>1 DEF RequestRecord
    <3>4. ASSUME NEW t \in SessionIds, byId'[t] # None \/ Putting(t)' # {}
          PROVE  \/ t \in revoked' \cup listed'
                 \/ \E p \in Putting(t)' : "LIST_ENTRY" \in req'[p].todo
      <4>1. CASE t = s
        BY <3>3, <4>1 DEF Putting, At, SessionKeys
      <4>2. CASE t # s
        <5>1. Putting(t)' = Putting(t)
          BY <3>2, <3>3, <4>2 DEF Putting, At
        <5>2. CASE \E p \in Putting(t) : "LIST_ENTRY" \in req[p].todo
          BY <3>2, <3>3, <5>1, <5>2 DEF Putting, At
        <5>3. QED
          BY <3>2, <3>4, <5>1, <5>2 DEF Traced
      <4>3. QED
        BY <4>1, <4>2
    <3>5. QED
      BY <3>4 DEF Traced
  <2>3. ASSUME NEW r \in Requests, GetSession(r)
        PROVE  Traced'
    <3>1. UNCHANGED <<byId, listed, revoked>> /\ req[r].pc = "getSession"
      BY <2>3 DEF GetSession, At, kvVars, historyVars
    <3>2. CASE Return(r)
      BY <3>1, <3>2, MovesElsewhere, LeavesTrace
    <3> DEFINE s == req[r].session
               x == [byId[s] EXCEPT !.verified = TRUE]
    <3>3. CASE /\ byId[s] # None
               /\ req' = [req EXCEPT ![r].pc = "put", ![r].todo = {"BY_ID", "BY_USER"}, ![r].seen = x]
      <4> HIDE DEF x
      <4>1. /\ req'[r].pc = "put" /\ req'[r].session = s
            /\ \A p \in Requests : p # r => req'[p] = req[p]
        BY <2>1, <3>3 DEF RequestRecord
      <4>2. ASSUME NEW t \in SessionIds, byId'[t] # None \/ Putting(t)' # {}
            PROVE  \/ t \in revoked' \cup listed'
                   \/ \E p \in Putting(t)' : "LIST_ENTRY" \in req'[p].todo
        <5>1. byId[t] # None \/ Putting(t) # {}
          BY <3>1, <3>3, <4>1, <4>2 DEF Putting, At
        <5>2. ASSUME NEW p \in Putting(t), "LIST_ENTRY" \in req[p].todo
              PROVE  p \in Putting(t)' /\ "LIST_ENTRY" \in req'[p].todo
          BY <3>1, <4>1, <5>2 DEF Putting, At
        <5>3. QED
          BY <3>1, <5>1, <5>2 DEF Traced
      <4>3. QED
        BY <4>2 DEF Traced
    <3>4. QED
      BY <2>3, <3>2, <3>3 DEF GetSession, existing
  <2>4. ASSUME NEW r \in Requests, DeleteGet(r)
        PROVE  Traced'
    <3>1. UNCHANGED <<byId, listed>> /\ revoked \subseteq revoked' /\ req[r].pc = "delete"
      BY <2>4 DEF DeleteGet, At, kvVars
    <3>2. CASE Return(r)
      BY <3>1, <3>2, MovesElsewhere, LeavesTrace
    <3>3. ASSUME NEW todo, req' = [req EXCEPT ![r].todo = todo, ![r].pc = "deleteKeys"]
          PROVE  Traced'
      <4>1. Elsewhere(r, "put")
        BY <2>1, <3>1, <3>3 DEF Elsewhere, RequestRecord
      <4>2. QED
        BY <3>1, <4>1, LeavesTrace
    <3>4. QED
      BY <2>4, <3>2, <3>3 DEF DeleteGet
  <2>5. ASSUME NEW r \in Requests, NEW k \in SessionKeys, PutSession(r, k)
        PROVE  Traced'
    <3> DEFINE s == req[r].session
    <3>1. /\ req[r].pc = "put" /\ s \in SessionIds
          /\ byId' = IF k = "BY_ID" THEN [byId EXCEPT ![s] = req[r].seen] ELSE byId
          /\ listed' = IF k = "LIST_ENTRY" THEN listed \cup {s} ELSE listed
          /\ revoked' = revoked
          /\ IF req[r].todo = {k} THEN Return(r) ELSE req' = [req EXCEPT ![r].todo = @ \ {k}]
      BY <2>1, <2>5 DEF PutSession, At, Fits, Knows, historyVars
    <3>2. /\ \A p \in Requests : p # r => req'[p] = req[p]
          /\ Return(r) => req'[r].pc # "put"
          /\ req[r].todo # {k} => /\ req'[r].pc = "put" /\ req'[r].session = s
                                  /\ req'[r].todo = req[r].todo \ {k}
      BY <2>1, <3>1 DEF RequestRecord, Return, Idle
    <3>3. ASSUME NEW t \in SessionIds, byId'[t] # None \/ Putting(t)' # {}
          PROVE  \/ t \in revoked' \cup listed'
                 \/ \E p \in Putting(t)' : "LIST_ENTRY" \in req'[p].todo
      <4>1. byId[t] # None \/ Putting(t) # {}
        <5>1. CASE t = s
          BY <3>1, <5>1 DEF Putting, At
        <5>2. CASE t # s
          BY <3>1, <3>2, <3>3, <5>2, Tables DEF Putting, At
        <5>3. QED
          BY <5>1, <5>2
      <4>2. ASSUME NEW p \in Putting(t), "LIST_ENTRY" \in req[p].todo
            PROVE  t \in listed' \/ (p \in Putting(t)' /\ "LIST_ENTRY" \in req'[p].todo)
        <5>1. CASE p = r
          BY <3>1, <3>2, <4>2, <5>1 DEF Putting, At
        <5>2. CASE p # r
          BY <3>2, <4>2, <5>2 DEF Putting, At
        <5>3. QED
          BY <5>1, <5>2
      <4>3. QED
        BY <3>1, <4>1, <4>2 DEF Traced
    <3>4. QED
      BY <3>3 DEF Traced
  <2>6. ASSUME NEW r \in Requests, NEW d \in SessionIds, NEW k \in SessionKeys, DeleteKey(r, d, k)
        PROVE  Traced'
    <3>1. /\ req[r].pc = "deleteKeys" /\ d \in revoked /\ revoked' = revoked
          /\ \A t \in SessionIds : t # d => byId'[t] = byId[t] /\ (t \in listed => t \in listed')
      <4>1. req[r].pc = "deleteKeys" /\ <<d, k>> \in req[r].todo
        BY <2>6 DEF DeleteKey, At
      <4>2. d \in revoked
        BY <2>1, <4>1 DEF Fits, Read
      <4>3. QED
        BY <2>6, <4>1, <4>2, Tables DEF DeleteKey, historyVars
    <3>2. Elsewhere(r, "put")
      <4>1. CASE Return(r)
        BY <3>1, <4>1, MovesElsewhere
      <4>2. CASE req' = [req EXCEPT ![r].todo = @ \ {<<d, k>>}]
        BY <2>1, <3>1, <4>2 DEF Elsewhere, RequestRecord
      <4>3. QED
        BY <2>6, <4>1, <4>2 DEF DeleteKey
    <3>3. \A t \in SessionIds : Putting(t)' = Putting(t)
      BY <2>1, <3>2 DEF Putting, At, Elsewhere
    <3>4. ASSUME NEW t \in SessionIds, byId'[t] # None \/ Putting(t)' # {}
          PROVE  \/ t \in revoked' \cup listed'
                 \/ \E p \in Putting(t)' : "LIST_ENTRY" \in req'[p].todo
      <4>1. CASE t = d
        BY <3>1, <4>1
      <4>2. CASE t # d
        <5>1. ASSUME NEW p \in Putting(t), "LIST_ENTRY" \in req[p].todo
              PROVE  "LIST_ENTRY" \in req'[p].todo
          BY <2>1, <3>2, <5>1 DEF Putting, At, Elsewhere
        <5>2. QED
          BY <3>1, <3>3, <3>4, <4>2, <5>1 DEF Traced
      <4>3. QED
        BY <4>1, <4>2
    <3>5. QED
      BY <3>4 DEF Traced
  <2>7. ASSUME NEW r \in Requests, Continue(r)
        PROVE  Traced'
    BY <2>2, <2>3, <2>4, <2>5, <2>6, <2>7, Bystanders, LeavesTrace
  <2>8. ASSUME NEW r \in Requests, Login(r) \/ \E s \in SessionIds \cup {None} : SecondFactor(r, s) \/ Account(r, s)
        PROVE  Traced'
    <3>1. ASSUME NEW op, NEW auth, NEW u, NEW s, NEW code, NEW pc, pc # "put", Begin(r, op, auth, u, s, code, pc)
          PROVE  Traced'
      BY <3>1, BeginsElsewhere, LeavesTrace
    <3>2. CASE Login(r)
      BY <3>1, <3>2 DEF Login, SendLoginCode, OidcExchange, VerifyLogin, OAuthLogin,
         OAuthCallback
    <3>3. ASSUME NEW s \in SessionIds \cup {None}, SecondFactor(r, s)
          PROVE  Traced'
      BY <3>1, <3>3 DEF SecondFactor, SendTwoFaCode, SetupBegin, Verify2FA, DisableBegin,
         RegenerateBegin, ConfirmBegin, BeginAs, BeginByCookie, BeginByBearer
    <3>4. ASSUME NEW s \in SessionIds \cup {None}, Account(r, s)
          PROVE  Traced'
      <4>1. CASE LogoutGone(r, s)
        <5> DEFINE q == [Idle EXCEPT !.op = "logout", !.pc = "delete", !.seen = {s}]
        <5>1. /\ req' = [req EXCEPT ![r] = q] /\ req[r].pc = "idle"
              /\ UNCHANGED <<byId, listed, revoked>>
          BY <4>1 DEF LogoutGone, At, kvVars, historyVars
        <5>2. q.pc = "delete"
          BY IdleFits DEF RequestRecord
        <5> HIDE DEF q
        <5>3. Elsewhere(r, "put")
          BY <2>1, <5>1, <5>2 DEF Elsewhere
        <5>4. QED
          BY <5>1, <5>3, LeavesTrace
      <4>2. QED
        BY <3>1, <3>4, <4>1 DEF Account, RevokeBegin, LogoutBegin, TokenBegin, BeginAs, BeginByCookie,
           BeginByBearer
    <3>5. QED
      BY <2>8, <3>2, <3>3, <3>4
  <2>9. CASE Time
    <3>1. UNCHANGED <<req, revoked>>
      BY <2>9 DEF Time, ExpireSession, LapseSecondFactor, ExpireOTP, ExpireSetup, ExpireState,
         historyVars
    <3>2. \A t \in SessionIds : Putting(t)' = Putting(t)
      BY <3>1 DEF Putting, At
    <3>3. \A t \in SessionIds :
            \/ byId'[t] = None /\ Putting(t) = {}
            \/ (byId'[t] # None => byId[t] # None) /\ (t \in listed => t \in listed')
      <4>1. ASSUME NEW s \in SessionIds, ExpireSession(s), NEW t \in SessionIds
            PROVE  \/ byId'[t] = None /\ Putting(t) = {}
                   \/ (byId'[t] # None => byId[t] # None) /\ (t \in listed => t \in listed')
        BY <4>1, Tables DEF ExpireSession, Putting
      <4>2. ASSUME NEW s \in SessionIds, LapseSecondFactor(s), NEW t \in SessionIds
            PROVE  (byId'[t] # None => byId[t] # None) /\ (t \in listed => t \in listed')
        BY <4>2, Tables DEF LapseSecondFactor
      <4>3. ASSUME UNCHANGED <<byId, listed>>
            PROVE  \A t \in SessionIds : /\ byId'[t] # None => byId[t] # None
                                         /\ t \in listed => t \in listed'
        BY <4>3
      <4>4. QED
        BY <2>9, <4>1, <4>2, <4>3 DEF Time, ExpireOTP, ExpireSetup, ExpireState
    <3>4. QED
      BY <3>1, <3>2, <3>3 DEF Traced
  <2>10. CASE UNCHANGED vars
    BY <2>10 DEF vars, kvVars, historyVars, Traced, Putting, At
  <2>11. QED
    BY <2>7, <2>8, <2>9, <2>10 DEF Next
<1>3. Inv /\ Traced => NeverRevokedIsListed
  BY DEF Traced, NeverRevokedIsListed, Putting, At
<1>4. QED
  BY <1>1, <1>2, <1>3, Invariant, PTL DEF Spec

(* --- What is gone ------------------------------------------------------------ *)

\* A session stays gone when a request moves on that does not go on to write it.
LEMMA StaysGone ==
  ASSUME Inv, NEW s \in SessionIds, isGone(s), owner'[s] = owner[s], byId'[s] = None,
         NEW r \in Requests, req' = [req EXCEPT ![r] = req'[r]],
         req'[r].pc = "put" => req'[r].session # s
  PROVE  isGone(s)'
<1>1. req \in [Requests -> RequestRecord]
  BY DEF Inv, RequestsFit
<1>2. ASSUME NEW p \in Requests
      PROVE  ~ (req'[p].pc = "put" /\ req'[p].session = s)
  <2>1. CASE p = r
    BY <2>1
  <2>2. CASE p # r
    <3>1. req'[p] = req[p]
      BY <1>1, <2>2
    <3>2. QED
      BY <3>1 DEF isGone, At
  <2>3. QED
    BY <2>1, <2>2
<1>3. QED
  BY <1>2 DEF isGone, At

\* A record that is gone stays gone unless its writes were under way: a refresh
\* that starts later finds nothing and writes nothing (refreshSession), and
\* createSession takes no identifier twice.
THEOREM GoneStays == Spec => GoneForGood
<1> USE SessionsAssumption
<1>1. Inv /\ [Next]_vars => [\A s \in SessionIds : isGone(s) => isGone(s)']_vars
  <2> SUFFICES ASSUME Inv, [Next]_vars, NEW s \in SessionIds, isGone(s) PROVE isGone(s)'
    OBVIOUS
  <2>1. /\ req \in [Requests -> RequestRecord] /\ \A r \in Requests : req[r] \in RequestRecord
        /\ \A r \in Requests : Fits(req[r], owner, stepped, shown, revoked)
        /\ owner[s] # None /\ byId[s] = None
        /\ \A r \in Requests : req[r].pc = "put" => req[r].session # s
    BY DEF Inv, RequestsFit, isGone, At
  <2>2. ASSUME NEW r \in Requests, Elsewhere(r, "put"), UNCHANGED <<byId, owner>>
        PROVE  isGone(s)'
    BY <2>1, <2>2, StaysGone DEF Elsewhere
  <2>3. ASSUME NEW r \in Requests, CreateSession(r)
        PROVE  isGone(s)'
    <3>1. PICK t \in mix.ids :
            /\ owner[t] = None /\ owner' = [owner EXCEPT ![t] = req[r].user] /\ byId' = byId
            /\ req' = [req EXCEPT ![r].session = t, ![r].pc = "put", ![r].todo = SessionKeys,
                                  ![r].seen = [user |-> req[r].user, verified |-> FALSE]]
      BY <2>3 DEF CreateSession, madeUp, kvVars
    <3>2. req'[r].session = t /\ req' = [req EXCEPT ![r] = req'[r]]
      BY <2>1, <3>1 DEF RequestRecord
    <3>3. t # s /\ owner'[s] = owner[s]
      BY <2>1, <3>1 DEF Inv, Stored, HistoryTyped
    <3>4. QED
      BY <2>1, <3>1, <3>2, <3>3, StaysGone
  <2>4. ASSUME NEW r \in Requests, GetSession(r)
        PROVE  isGone(s)'
    <3>1. UNCHANGED <<byId, owner>> /\ req[r].pc = "getSession"
      BY <2>4 DEF GetSession, At, kvVars, historyVars
    <3>2. CASE Return(r)
      BY <2>2, <3>1, <3>2, MovesElsewhere
    <3> DEFINE x == [byId[req[r].session] EXCEPT !.verified = TRUE]
    <3>3. CASE /\ byId[req[r].session] # None
               /\ req' = [req EXCEPT ![r].pc = "put", ![r].todo = {"BY_ID", "BY_USER"}, ![r].seen = x]
      <4> HIDE DEF x
      <4>1. req'[r].session = req[r].session /\ req' = [req EXCEPT ![r] = req'[r]]
        BY <2>1, <3>3 DEF RequestRecord
      <4>2. QED
        BY <2>1, <3>1, <3>3, <4>1, StaysGone
    <3>4. QED
      BY <2>4, <3>2, <3>3 DEF GetSession, existing
  <2>5. ASSUME NEW r \in Requests, DeleteGet(r)
        PROVE  isGone(s)'
    <3>1. UNCHANGED <<byId, owner>> /\ req[r].pc = "delete"
      BY <2>5 DEF DeleteGet, At, kvVars
    <3>2. CASE Return(r)
      BY <2>2, <3>1, <3>2, MovesElsewhere
    <3>3. ASSUME NEW todo, req' = [req EXCEPT ![r].todo = todo, ![r].pc = "deleteKeys"]
          PROVE  isGone(s)'
      <4>1. Elsewhere(r, "put")
        BY <2>1, <3>1, <3>3 DEF Elsewhere, RequestRecord
      <4>2. QED
        BY <2>2, <3>1, <4>1
    <3>4. QED
      BY <2>5, <3>2, <3>3 DEF DeleteGet
  <2>6. ASSUME NEW r \in Requests, NEW k \in SessionKeys, PutSession(r, k)
        PROVE  isGone(s)'
    <3>1. /\ req[r].pc = "put" /\ req[r].session # s /\ owner' = owner
          /\ byId' = IF k = "BY_ID" THEN [byId EXCEPT ![req[r].session] = req[r].seen] ELSE byId
          /\ IF req[r].todo = {k} THEN Return(r) ELSE req' = [req EXCEPT ![r].todo = @ \ {k}]
      BY <2>1, <2>6 DEF PutSession, At, historyVars
    <3>2. byId'[s] = None
      BY <2>1, <3>1, Tables
    <3>3. /\ req' = [req EXCEPT ![r] = req'[r]]
          /\ req'[r].pc = "put" => req'[r].session = req[r].session
      BY <2>1, <3>1 DEF RequestRecord, Return, Idle
    <3>4. QED
      BY <2>1, <3>1, <3>2, <3>3, StaysGone
  <2>7. ASSUME NEW r \in Requests, NEW d \in SessionIds, NEW k \in SessionKeys, DeleteKey(r, d, k)
        PROVE  isGone(s)'
    <3>1. req[r].pc = "deleteKeys" /\ owner' = owner /\ byId'[s] = None
      BY <2>1, <2>7, Tables DEF DeleteKey, At, historyVars
    <3>2. Elsewhere(r, "put")
      <4>1. CASE Return(r)
        BY <3>1, <4>1, MovesElsewhere
      <4>2. CASE req' = [req EXCEPT ![r].todo = @ \ {<<d, k>>}]
        BY <2>1, <3>1, <4>2 DEF Elsewhere, RequestRecord
      <4>3. QED
        BY <2>7, <4>1, <4>2 DEF DeleteKey
    <3>3. QED
      BY <3>1, <3>2, StaysGone DEF Elsewhere
  <2>8. ASSUME NEW r \in Requests, Continue(r)
        PROVE  isGone(s)'
    BY <2>2, <2>3, <2>4, <2>5, <2>6, <2>7, <2>8, Bystanders
  <2>9. ASSUME NEW r \in Requests, Login(r) \/ \E t \in SessionIds \cup {None} : SecondFactor(r, t) \/ Account(r, t)
        PROVE  isGone(s)'
    <3>1. ASSUME NEW op, NEW auth, NEW u, NEW t, NEW code, NEW pc, pc # "put", Begin(r, op, auth, u, t, code, pc)
          PROVE  isGone(s)'
      BY <2>2, <3>1, BeginsElsewhere
    <3>2. CASE Login(r)
      BY <3>1, <3>2 DEF Login, SendLoginCode, OidcExchange, VerifyLogin, OAuthLogin,
         OAuthCallback
    <3>3. ASSUME NEW t \in SessionIds \cup {None}, SecondFactor(r, t)
          PROVE  isGone(s)'
      BY <3>1, <3>3 DEF SecondFactor, SendTwoFaCode, SetupBegin, Verify2FA, DisableBegin,
         RegenerateBegin, ConfirmBegin, BeginAs, BeginByCookie, BeginByBearer
    <3>4. ASSUME NEW t \in SessionIds \cup {None}, Account(r, t)
          PROVE  isGone(s)'
      <4>1. CASE LogoutGone(r, t)
        <5> DEFINE q == [Idle EXCEPT !.op = "logout", !.pc = "delete", !.seen = {t}]
        <5>1. req' = [req EXCEPT ![r] = q] /\ req[r].pc = "idle" /\ UNCHANGED <<byId, owner>>
          BY <4>1 DEF LogoutGone, At, kvVars, historyVars
        <5>2. q.pc = "delete"
          BY IdleFits DEF RequestRecord
        <5> HIDE DEF q
        <5>3. Elsewhere(r, "put")
          BY <2>1, <5>1, <5>2 DEF Elsewhere
        <5>4. QED
          BY <2>2, <5>1, <5>3
      <4>2. QED
        BY <3>1, <3>4, <4>1 DEF Account, RevokeBegin, LogoutBegin, TokenBegin, BeginAs, BeginByCookie,
           BeginByBearer
    <3>5. QED
      BY <2>9, <3>2, <3>3, <3>4
  <2>10. CASE Time
    <3>1. UNCHANGED <<req, owner>>
      BY <2>10 DEF Time, ExpireSession, LapseSecondFactor, ExpireOTP, ExpireSetup, ExpireState,
         historyVars
    <3>2. byId'[s] = None
      BY <2>1, <2>10, Tables DEF Time, ExpireSession, LapseSecondFactor, ExpireOTP, ExpireSetup,
         ExpireState
    <3>3. QED
      BY <2>1, <3>1, <3>2 DEF isGone, At
  <2>11. CASE UNCHANGED vars
    BY <2>1, <2>11 DEF vars, kvVars, historyVars, isGone, At
  <2>12. QED
    BY <2>8, <2>9, <2>10, <2>11 DEF Next
<1>2. QED
  BY <1>1, Invariant, PTL DEF Spec, GoneForGood

(* --- How often a code can be compared ---------------------------------------- *)

\* Two and six times the binomial coefficients C(m + 2, 2) and C(m + 3, 3).
Pairs(m)   == (m + 1) * (m + 2)
Triples(m) == (m + 1) * (m + 2) * (m + 3)

\* The next comparison of a request counts from 3, from 2 or more, from 1 or
\* more for a, b and c requests.  Then, of the comparisons that g made so far
\* leave, no order of the requests can make more than the rest of the bound.
Left(g, a, b, c) == 6 * g + 6 + 6 * (b - a) + 3 * Pairs(c) - 3 * Pairs(b) <= Triples(c)

LEMMA PairsStep ==
  ASSUME NEW m \in Nat
  PROVE  Pairs(m) \in Nat /\ Pairs(m) >= 2 /\ Pairs(m + 1) = Pairs(m) + 2 * m + 4
<1>1. (m + 1) * (m + 2) = m * m + 3 * m + 2 /\ m * m \in Nat
  OBVIOUS
<1>2. Pairs(m + 1) = Pairs(m) + 2 * m + 4
  BY DEF Pairs
<1>3. QED
  BY <1>1, <1>2 DEF Pairs

LEMMA PairsGrow ==
  ASSUME NEW m \in Nat, NEW d \in Nat
  PROVE  Pairs(m) <= Pairs(m + d)
<1>1. Pairs(m + d) = Pairs(m) + 2 * (m * d) + d * d + 3 * d /\ m * d \in Nat /\ d * d \in Nat
  BY DEF Pairs
<1>2. QED
  BY <1>1, PairsStep

LEMMA TriplesStep ==
  ASSUME NEW m \in Nat
  PROVE  /\ Triples(m) \in Nat /\ Triples(m) = 3 * Pairs(m) + m * Pairs(m) /\ m * Pairs(m) \in Nat
         /\ Triples(m + 1) = Triples(m) + 3 * Pairs(m + 1)
<1>1. Pairs(m) \in Nat /\ Pairs(m + 1) \in Nat
  BY PairsStep
<1>2. Triples(m) = Pairs(m) * (m + 3) /\ Triples(m) = (m + 1) * Pairs(m + 1)
      /\ Triples(m + 1) = Pairs(m + 1) * (m + 4)
  BY DEF Triples, Pairs
<1>3. Pairs(m) * (m + 3) = 3 * Pairs(m) + m * Pairs(m) /\ m * Pairs(m) \in Nat
  BY <1>1
<1>4. Pairs(m + 1) * (m + 4) = (m + 1) * Pairs(m + 1) + 3 * Pairs(m + 1)
  BY <1>1
<1>5. QED
  BY <1>1, <1>2, <1>3, <1>4

LEMMA TriplesGrow ==
  ASSUME NEW m \in Nat, NEW d \in Nat
  PROVE  Triples(m + d) - 3 * Pairs(m + d) >= Triples(m) - 3 * Pairs(m)
<1> DEFINE n == m + d
<1>1. n \in Nat /\ m <= n /\ Pairs(m) \in Nat /\ Pairs(n) \in Nat /\ Pairs(m) <= Pairs(n)
  <2>1. n \in Nat /\ m <= n
    OBVIOUS
  <2>2. Pairs(m) <= Pairs(n)
    BY PairsGrow
  <2> HIDE DEF n
  <2>3. QED
    BY <2>1, <2>2, PairsStep
<1>2. Triples(m) = 3 * Pairs(m) + m * Pairs(m) /\ Triples(n) = 3 * Pairs(n) + n * Pairs(n)
  BY <1>1, TriplesStep
<1> HIDE DEF n
<1>3. \A p, q \in Nat : p <= q => m * p <= n * q
  <2>1. ASSUME NEW p \in Nat, NEW q \in Nat, p <= q
        PROVE  m * p <= n * q
    <3>1. m * p <= m * q /\ m * q <= n * q
      BY <1>1, <2>1
    <3>2. m * p \in Int /\ m * q \in Int /\ n * q \in Int
      BY <1>1
    <3>3. QED
      BY <3>1, <3>2
  <2>2. QED
    BY <2>1
<1>4. m * Pairs(m) <= n * Pairs(n) /\ m * Pairs(m) \in Int /\ n * Pairs(n) \in Int
  BY <1>1, <1>3
<1>5. Triples(n) - 3 * Pairs(n) >= Triples(m) - 3 * Pairs(m)
  BY <1>1, <1>2, <1>4
<1>6. QED
  BY <1>5 DEF n

\* A record of the code that goes, by expiry, deletion or a new code, leaves no
\* more comparisons: d requests at most would have counted from it.
LEMMA LeftForgotten ==
  ASSUME NEW g \in Nat, NEW a \in Nat, NEW b \in Nat, NEW c \in Nat, NEW d \in Nat,
         a <= b, b <= c, Left(g, a, b, c),
         NEW a2 \in Nat, NEW b2 \in Nat, NEW c2 \in Nat,
         \/ a2 = a /\ b2 = b /\ c2 = c
         \/ a2 = a + d /\ b2 = b /\ c2 = c
         \/ a2 = a + d /\ b2 = b + d /\ c2 = c
         \/ a2 = a + d /\ b2 = b + d /\ c2 = c + d
  PROVE  Left(g, a2, b2, c2)
<1>1. /\ Pairs(b) \in Nat /\ Pairs(c) \in Nat /\ Pairs(b + d) \in Nat /\ Pairs(c + d) \in Nat
      /\ Triples(c) \in Nat /\ Triples(c + d) \in Nat
  <2>1. b + d \in Nat /\ c + d \in Nat
    OBVIOUS
  <2>2. \A m \in Nat : Pairs(m) \in Nat /\ Triples(m) \in Nat
    BY PairsStep, TriplesStep
  <2>3. QED
    BY ZenonT(30), <2>1, <2>2
<1>2. /\ Pairs(b) <= Pairs(b + d)
      /\ Triples(c + d) - 3 * Pairs(c + d) >= Triples(c) - 3 * Pairs(c)
  BY PairsGrow, TriplesGrow
<1>3. CASE (a2 = a \/ a2 = a + d) /\ b2 = b /\ c2 = c
  BY <1>1, <1>3 DEF Left
<1>4. CASE a2 = a + d /\ b2 = b + d /\ c2 = c
  BY <1>1, <1>2, <1>4 DEF Left
<1>5. CASE a2 = a + d /\ b2 = b + d /\ c2 = c + d
  BY <1>1, <1>2, <1>5 DEF Left
<1>6. QED
  BY <1>3, <1>4, <1>5

\* A comparison uses up at least one, whatever count it was made from: it is
\* written back for all the requests that hold no copy of their own.
LEMMA LeftCompared ==
  ASSUME NEW g \in Nat, NEW a \in Nat, NEW b \in Nat, NEW c \in Nat,
         a <= b, b <= c, Left(g, a, b, c),
         NEW a2 \in Nat, NEW b2 \in Nat, NEW c2 \in Nat,
         \/ a2 = a + 1 /\ b2 = b /\ c2 = c
         \/ a2 = 0 /\ b2 = b + 1 /\ c2 = c
         \/ a2 = 0 /\ b2 = b - a /\ c2 = c + 1
  PROVE  Left(g + 1, a2, b2, c2)
<1>1. /\ Pairs(b) \in Nat /\ Pairs(c) \in Nat /\ Triples(c) \in Nat
      /\ Pairs(b2) \in Nat /\ Pairs(b2) >= 2
      /\ Pairs(b + 1) = Pairs(b) + 2 * b + 4 /\ Pairs(c + 1) = Pairs(c) + 2 * c + 4
      /\ Triples(c + 1) = Triples(c) + 3 * Pairs(c + 1)
  BY PairsStep, TriplesStep
<1>2. Pairs(b) <= Pairs(c)
  <2>1. c - b \in Nat /\ c = b + (c - b)
    OBVIOUS
  <2>2. QED
    BY <2>1, PairsGrow
<1>3. CASE a2 = a + 1 /\ b2 = b /\ c2 = c
  BY <1>1, <1>3 DEF Left
<1>4. CASE a2 = 0 /\ b2 = b + 1 /\ c2 = c
  BY <1>1, <1>4 DEF Left
<1>5. CASE a2 = 0 /\ b2 = b - a /\ c2 = c + 1
  BY <1>1, <1>2, <1>5 DEF Left
<1>6. QED
  BY <1>3, <1>4, <1>5

LEMMA LeftIsBounded ==
  ASSUME NEW n \in Nat, NEW g \in Nat, NEW a \in Nat, NEW b \in Nat, NEW c \in Nat,
         a <= b, b <= c, c <= n, Left(g, a, b, c)
  PROVE  g <= ((n + 1) * (n + 2) * (n + 3)) \div 6 - 1
<1>1. c - b \in Nat /\ c = b + (c - b) /\ n - c \in Nat /\ n = c + (n - c)
  OBVIOUS
<1>2. Pairs(b) <= Pairs(c) /\ Pairs(c) <= Pairs(n)
  BY <1>1, PairsGrow
<1>3. Triples(n) - 3 * Pairs(n) >= Triples(c) - 3 * Pairs(c)
  BY <1>1, TriplesGrow
<1>4. /\ Pairs(b) \in Nat /\ Pairs(c) \in Nat /\ Pairs(n) \in Nat
      /\ Triples(c) \in Nat /\ Triples(n) \in Nat
  BY PairsStep, TriplesStep
<1>5. 6 * g + 6 <= Triples(n)
  BY <1>2, <1>3, <1>4 DEF Left
<1>6. \A t \in Nat : 6 * g + 6 <= t => g <= t \div 6 - 1
  OBVIOUS
<1>7. g <= Triples(n) \div 6 - 1
  BY <1>4, <1>5, <1>6
<1>8. QED
  BY <1>7 DEF Triples

\* The requests that hold a copy of the record of a code, and will compare it.
Holds(r, c) == At(r, "attempt") /\ req[r].seen.code = c
\* A record of the code is stored with fewer than k attempts.
Below(c, k) == \E p \in Purposes, u \in Users : otp[p][u].code = c /\ otp[p][u].attempts < k
\* The requests whose next comparison of the code would count from k or more, if
\* they can make one: from their copy, or else from what is stored.
From(c, k) == {r \in Requests : IF Holds(r, c) THEN req[r].seen.attempts >= k ELSE ~ Below(c, k)}
Reading(c) == {r \in Requests : ~ Holds(r, c)}

Counts(c) ==
  Left(guesses[c], Cardinality(From(c, 3)), Cardinality(From(c, 2)), Cardinality(From(c, 1)))

\* A code that was not drawn is nowhere; one that was has one place to be in,
\* where its record is stored and where the copies of it are written back.
Undrawn ==
  \A c \in Codes \ drawn :
    /\ guesses[c] = 0
    /\ \A p \in Purposes, u \in Users : otp[p][u].code # c
    /\ \A r \in Requests : ~ Holds(r, c)
Place(c, p, u) ==
  otp[p][u].code = c \/ \E r \in Requests : Holds(r, c) /\ purpose(r) = p /\ req[r].user = u
OnePlace ==
  \A c \in Codes, p, q \in Purposes, u, v \in Users :
    Place(c, p, u) /\ Place(c, q, v) => p = q /\ u = v

GuessInv ==
  guesses \in [Codes -> Nat] /\ Undrawn /\ OnePlace /\ \A c \in Codes : Counts(c)

\* What the types say of records and copies.
LEMMA GuessTypes ==
  ASSUME Inv
  PROVE  /\ req \in [Requests -> RequestRecord]
         /\ \A p \in Purposes, u \in Users : otp[p][u] \in OtpRecord
         /\ \A r \in Requests : At(r, "attempt") => /\ req[r].seen \in Attemptable
                                                   /\ purpose(r) \in Purposes /\ req[r].user \in Users
<1>1. /\ req \in [Requests -> RequestRecord]
      /\ \A p \in Purposes, u \in Users : otp[p][u] \in OtpRecord
  BY Tables DEF Inv, RequestsFit, OtpStore
<1>2. ASSUME NEW r \in Requests, At(r, "attempt")
      PROVE  req[r].seen \in Attemptable /\ purpose(r) \in Purposes /\ req[r].user \in Users
  BY <1>2 DEF At, Inv, RequestsFit, Fits, Knows, Read, Nameless, purpose, Purposes
<1>3. QED
  BY <1>1, <1>2

LEMMA FromNests ==
  ASSUME Inv, IsFiniteSet(Requests), NEW c \in Codes
  PROVE  /\ From(c, 3) \subseteq From(c, 2) /\ From(c, 2) \subseteq From(c, 1)
         /\ \A k \in 1 .. 3 : /\ From(c, k) \subseteq Requests /\ IsFiniteSet(From(c, k))
                              /\ Cardinality(From(c, k)) \in Nat
         /\ Cardinality(From(c, 3)) <= Cardinality(From(c, 2))
         /\ Cardinality(From(c, 2)) <= Cardinality(From(c, 1))
         /\ Cardinality(From(c, 1)) <= Cardinality(Requests)
         /\ Below(c, 1) => Below(c, 2)
         /\ Below(c, 2) => Below(c, 3)
<1>1. (Below(c, 1) => Below(c, 2)) /\ (Below(c, 2) => Below(c, 3))
  BY GuessTypes DEF Below, OtpRecord
<1>2. From(c, 3) \subseteq From(c, 2) /\ From(c, 2) \subseteq From(c, 1)
  BY <1>1, GuessTypes DEF From, Holds, Attemptable, OtpRecord
<1>3. ASSUME NEW k \in 1 .. 3
      PROVE  /\ From(c, k) \subseteq Requests /\ IsFiniteSet(From(c, k))
             /\ Cardinality(From(c, k)) \in Nat
  <2>1. From(c, k) \in SUBSET Requests
    BY DEF From
  <2>2. QED
    BY <2>1, FS_Subset, FS_CardinalityType
<1>4. /\ Cardinality(From(c, 3)) <= Cardinality(From(c, 2))
      /\ Cardinality(From(c, 2)) <= Cardinality(From(c, 1))
      /\ Cardinality(From(c, 1)) <= Cardinality(Requests)
  <2>1. 1 \in 1 .. 3 /\ 2 \in 1 .. 3
    OBVIOUS
  <2>2. IsFiniteSet(From(c, 1)) /\ IsFiniteSet(From(c, 2)) /\ From(c, 1) \in SUBSET Requests
    BY <1>3, <2>1
  <2>3. QED
    BY <1>2, <2>2, FS_Subset
<1>5. QED
  BY <1>1, <1>2, <1>3, <1>4

\* The counts once the record of a code is gone, so that only the copies of it can
\* be compared; and what they are without the requests that have no copy.
LEMMA CopiesLeft ==
  ASSUME Inv, IsFiniteSet(Requests), guesses \in [Codes -> Nat], NEW c \in Codes, Counts(c)
  PROVE  LET G(k) == Cardinality(From(c, k) \cup Reading(c))
         IN  /\ Left(guesses[c], G(3), G(2), G(1))
             /\ G(3) \in Nat /\ G(2) \in Nat /\ G(1) \in Nat /\ G(3) <= G(2) /\ G(2) <= G(1)
             /\ \A k \in 1 .. 3 : Cardinality(From(c, k) \ Reading(c)) = G(k) - G(3)
             /\ From(c, 3) \subseteq Reading(c)
<1> DEFINE F(k) == Cardinality(From(c, k))
           d    == Cardinality(Reading(c))
           G(k) == Cardinality(From(c, k) \cup Reading(c))
<1>0. 1 \in 1 .. 3 /\ 2 \in 1 .. 3 /\ 3 \in 1 .. 3
  OBVIOUS
<1>1. F(3) \in Nat /\ F(2) \in Nat /\ F(1) \in Nat /\ F(3) <= F(2) /\ F(2) <= F(1)
  BY <1>0, FromNests
<1>2. Reading(c) \in SUBSET Requests /\ IsFiniteSet(Reading(c)) /\ d \in Nat
  BY FS_Subset, FS_CardinalityType DEF Reading
<1>3. ASSUME NEW k \in 1 .. 3
      PROVE  /\ G(k) = IF Below(c, k) THEN F(k) + d ELSE F(k)
             /\ Cardinality(From(c, k) \ Reading(c)) = G(k) - d
  <2>1. IsFiniteSet(From(c, k)) /\ F(k) \in Nat
    BY FromNests
  <2>2. CASE Below(c, k)
    <3>1. From(c, k) \cap Reading(c) = {} /\ From(c, k) \ Reading(c) = From(c, k)
      BY <2>2 DEF From, Reading
    <3>2. G(k) = F(k) + d - Cardinality({})
      BY <1>2, <2>1, <3>1, FS_Union
    <3>3. Cardinality(From(c, k) \ Reading(c)) = F(k) /\ Cardinality({}) = 0
      BY <3>1, FS_EmptySet
    <3> HIDE DEF F, G, d
    <3>4. G(k) = F(k) + d
      BY <1>2, <2>1, <3>2, <3>3
    <3>5. QED
      BY <1>2, <2>1, <2>2, <3>3, <3>4
  <2>3. CASE ~ Below(c, k)
    <3>1. From(c, k) \cup Reading(c) = From(c, k) /\ From(c, k) \cap Reading(c) = Reading(c)
      BY <2>3 DEF From, Reading
    <3>2. Cardinality(From(c, k) \ Reading(c)) = F(k) - d
      BY <1>2, <2>1, <3>1, FS_Difference
    <3>3. QED
      BY <2>3, <3>1, <3>2
  <2>4. QED
    BY <2>2, <2>3
<1>4. From(c, 3) \subseteq Reading(c)
  BY GuessTypes DEF From, Reading, Holds, Attemptable, OtpRecord
<1>5. G(3) = d
  BY <1>4, Zenon
<1>6. Left(guesses[c], F(3), F(2), F(1)) /\ guesses[c] \in Nat
  BY DEF Counts
<1>7. /\ G(1) = IF Below(c, 1) THEN F(1) + d ELSE F(1)
      /\ G(2) = IF Below(c, 2) THEN F(2) + d ELSE F(2)
      /\ G(3) = IF Below(c, 3) THEN F(3) + d ELSE F(3)
  BY <1>0, <1>3
<1>8. (Below(c, 1) => Below(c, 2)) /\ (Below(c, 2) => Below(c, 3))
  BY FromNests
<1>9. \A k \in 1 .. 3 : Cardinality(From(c, k) \ Reading(c)) = G(k) - G(3)
  BY <1>3, <1>5
<1>10. G(3) <= G(2) /\ G(2) <= G(1)
  <2>1. /\ From(c, 2) \cup Reading(c) \in SUBSET Requests
        /\ From(c, 1) \cup Reading(c) \in SUBSET Requests
        /\ From(c, 3) \cup Reading(c) \in SUBSET (From(c, 2) \cup Reading(c))
        /\ From(c, 2) \cup Reading(c) \in SUBSET (From(c, 1) \cup Reading(c))
    BY <1>0, <1>2, FromNests
  <2>2. QED
    BY <2>1, FS_Subset
<1> HIDE DEF F, G, d
<1>11. /\ G(1) \in Nat /\ G(2) \in Nat /\ G(3) \in Nat
       /\ \/ G(3) = F(3) /\ G(2) = F(2) /\ G(1) = F(1)
          \/ G(3) = F(3) + d /\ G(2) = F(2) /\ G(1) = F(1)
          \/ G(3) = F(3) + d /\ G(2) = F(2) + d /\ G(1) = F(1)
          \/ G(3) = F(3) + d /\ G(2) = F(2) + d /\ G(1) = F(1) + d
  BY <1>1, <1>2, <1>7, <1>8
<1>12. Left(guesses[c], G(3), G(2), G(1))
  BY <1>1, <1>2, <1>6, <1>11, LeftForgotten
<1>13. QED
  BY <1>4, <1>9, <1>10, <1>11, <1>12 DEF G

LEMMA CountsForgotten ==
  ASSUME Inv, IsFiniteSet(Requests), guesses \in [Codes -> Nat], NEW c \in Codes, Counts(c),
         guesses'[c] = guesses[c],
         \/ \A k \in 1 .. 3 : From(c, k)' = From(c, k)
         \/ \A k \in 1 .. 3 : From(c, k)' = From(c, k) \cup Reading(c)
  PROVE  Counts(c)'
<1>0. 1 \in 1 .. 3 /\ 2 \in 1 .. 3 /\ 3 \in 1 .. 3
  OBVIOUS
<1>1. CASE \A k \in 1 .. 3 : From(c, k)' = From(c, k)
  BY <1>0, <1>1 DEF Counts
<1>2. CASE \A k \in 1 .. 3 : From(c, k)' = From(c, k) \cup Reading(c)
  BY <1>0, <1>2, CopiesLeft DEF Counts
<1>3. QED
  BY <1>1, <1>2

\* A request compares its copy, and writes it back for all that have none.
LEMMA CountsCompared ==
  ASSUME Inv, IsFiniteSet(Requests), guesses \in [Codes -> Nat], NEW c \in Codes, Counts(c),
         guesses'[c] = guesses[c] + 1, NEW r \in Requests, Holds(r, c),
         \A k \in 1 .. 3 : From(c, k)' = IF req[r].seen.attempts + 1 >= k
                                         THEN From(c, k) \cup Reading(c) \cup {r}
                                         ELSE From(c, k) \ Reading(c)
  PROVE  Counts(c)'
<1> DEFINE G(k) == Cardinality(From(c, k) \cup Reading(c))
           C(k) == Cardinality(From(c, k))'
           a    == req[r].seen.attempts
<1>0. 1 \in 1 .. 3 /\ 2 \in 1 .. 3 /\ 3 \in 1 .. 3
  OBVIOUS
<1>1. /\ Left(guesses[c], G(3), G(2), G(1))
      /\ G(3) \in Nat /\ G(2) \in Nat /\ G(1) \in Nat /\ G(3) <= G(2) /\ G(2) <= G(1)
      /\ \A k \in 1 .. 3 : Cardinality(From(c, k) \ Reading(c)) = G(k) - G(3)
  BY CopiesLeft
<1>2. a \in 0 .. 2 /\ r \notin Reading(c) /\ \A k \in 1 .. 3 : r \in From(c, k) <=> a >= k
  BY GuessTypes DEF Holds, From, Reading, Attemptable, OtpRecord
<1>3. ASSUME NEW k \in 1 .. 3
      PROVE  C(k) = IF a + 1 < k THEN G(k) - G(3) ELSE IF a >= k THEN G(k) ELSE G(k) + 1
  <2>1. CASE a + 1 < k
    <3>1. From(c, k)' = From(c, k) \ Reading(c)
      BY <1>2, <2>1
    <3>2. QED
      BY <1>1, <2>1, <3>1
  <2>2. CASE a + 1 >= k
    <3>1. From(c, k)' = From(c, k) \cup Reading(c) \cup {r}
      BY <2>2
    <3>2. IsFiniteSet(From(c, k) \cup Reading(c))
      <4>1. From(c, k) \cup Reading(c) \in SUBSET Requests
        BY DEF From, Reading
      <4>2. QED
        BY <4>1, FS_Subset
    <3>3. C(k) = IF r \in From(c, k) \cup Reading(c) THEN G(k) ELSE G(k) + 1
      BY <3>1, <3>2, FS_AddElement
    <3>4. r \in From(c, k) \cup Reading(c) <=> a >= k
      BY <1>2
    <3> HIDE DEF C, G, a
    <3>5. QED
      BY <1>2, <2>2, <3>3, <3>4
  <2> HIDE DEF C, G, a
  <2>3. QED
    BY <1>2, <2>1, <2>2
<1>4. guesses[c] \in Nat
  OBVIOUS
<1> HIDE DEF C, G, a
<1>5. /\ C(1) = IF a + 1 < 1 THEN G(1) - G(3) ELSE IF a >= 1 THEN G(1) ELSE G(1) + 1
      /\ C(2) = IF a + 1 < 2 THEN G(2) - G(3) ELSE IF a >= 2 THEN G(2) ELSE G(2) + 1
      /\ C(3) = IF a + 1 < 3 THEN G(3) - G(3) ELSE IF a >= 3 THEN G(3) ELSE G(3) + 1
  BY <1>0, <1>3
<1>6. /\ C(1) \in Nat /\ C(2) \in Nat /\ C(3) \in Nat
      /\ \/ C(3) = G(3) + 1 /\ C(2) = G(2) /\ C(1) = G(1)
         \/ C(3) = 0 /\ C(2) = G(2) + 1 /\ C(1) = G(1)
         \/ C(3) = 0 /\ C(2) = G(2) - G(3) /\ C(1) = G(1) + 1
  BY <1>1, <1>2, <1>5
<1>7. Left(guesses[c] + 1, C(3), C(2), C(1))
  BY <1>1, <1>4, <1>6, LeftCompared
<1>8. QED
  BY <1>7 DEF Counts, C

(* --- How the steps of requests move them --- *)

\* No request takes a copy or compares one.
Steady ==
  \A r \in Requests :
    /\ At(r, "attempt")' = At(r, "attempt")
    /\ At(r, "attempt") => req'[r] = req[r]

LEMMA SteadyHolds ==
  ASSUME Steady
  PROVE  /\ \A c : \A r \in Requests : Holds(r, c)' = Holds(r, c)
         /\ \A c : Reading(c)' = Reading(c)
         /\ \A r \in Requests : At(r, "attempt") => req'[r] = req[r] /\ purpose(r)' = purpose(r)
<1>1. ASSUME NEW c, NEW r \in Requests
      PROVE  Holds(r, c)' = Holds(r, c)
  BY DEF Steady, Holds
<1>2. QED
  BY <1>1 DEF Steady, Reading, purpose

\* A step that leaves the codes alone.
LEMMA GuessesStay ==
  ASSUME Inv, IsFiniteSet(Requests), GuessInv, Steady, UNCHANGED <<otp, guesses>>,
         drawn \subseteq drawn'
  PROVE  GuessInv'
<1>1. guesses' \in [Codes -> Nat] /\ Undrawn'
  BY SteadyHolds DEF GuessInv, Undrawn
<1>2. ASSUME NEW c, NEW p, NEW u
      PROVE  Place(c, p, u)' = Place(c, p, u)
  BY SteadyHolds DEF Place, Holds
<1>3. OnePlace'
  BY <1>2 DEF GuessInv, OnePlace
<1>4. ASSUME NEW c \in Codes
      PROVE  Counts(c)'
  <2>1. \A k : Below(c, k)' = Below(c, k)
    BY DEF Below
  <2>2. ASSUME NEW k \in 1 .. 3
        PROVE  From(c, k)' = From(c, k)
    BY <2>1, SteadyHolds DEF From, Holds
  <2>3. QED
    BY <2>2, CountsForgotten DEF GuessInv
<1>5. QED
  BY <1>1, <1>3, <1>4 DEF GuessInv

\* The record at a place goes, or makes room for one of a new code.
LEMMA PlaceOverwritten ==
  ASSUME Inv, IsFiniteSet(Requests), GuessInv, Steady, guesses' = guesses,
         NEW p \in Purposes, NEW u \in Users, NEW o \in OtpRecord,
         otp' = [otp EXCEPT ![p][u] = o],
         \/ o.code \notin Codes /\ drawn' = drawn
         \/ o.code \in Codes \ drawn /\ o.attempts = 0 /\ drawn' = drawn \cup {o.code}
  PROVE  GuessInv'
<1>1. /\ otp'[p][u] = o
      /\ \A q \in Purposes, v \in Users : <<q, v>> # <<p, u>> => otp'[q][v] = otp[q][v]
  BY Tables DEF OtpStore
<1>2. guesses' \in [Codes -> Nat]
  BY DEF GuessInv
<1>3. Undrawn'
  BY <1>1, SteadyHolds DEF GuessInv, Undrawn
<1>4. ASSUME NEW c \in Codes, NEW q \in Purposes, NEW v \in Users, c # o.code
      PROVE  Place(c, q, v)' => Place(c, q, v)
  <2>1. CASE otp'[q][v].code = c
    BY <1>1, <1>4, <2>1 DEF Place
  <2>2. CASE \E r \in Requests : Holds(r, c)' /\ purpose(r)' = q /\ req'[r].user = v
    BY <2>2, SteadyHolds DEF Place, Holds
  <2>3. QED
    BY <2>1, <2>2 DEF Place
<1>5. ASSUME NEW c \in Codes, NEW q \in Purposes, NEW v \in Users, c = o.code, Place(c, q, v)'
      PROVE  q = p /\ v = u
  <2>1. \A r \in Requests : ~ Holds(r, c)
    BY <1>5 DEF GuessInv, Undrawn
  <2>2. otp'[q][v].code = c
    BY <1>5, <2>1, SteadyHolds DEF Place
  <2>3. otp[q][v].code # c
    BY <1>5 DEF GuessInv, Undrawn
  <2>4. QED
    BY <1>1, <2>2, <2>3
<1>6. OnePlace'
  <2>1. ASSUME NEW c \in Codes, NEW q1 \in Purposes, NEW q2 \in Purposes,
               NEW v1 \in Users, NEW v2 \in Users, Place(c, q1, v1)', Place(c, q2, v2)'
        PROVE  q1 = q2 /\ v1 = v2
    <3>1. CASE c = o.code
      BY <1>5, <2>1, <3>1
    <3>2. CASE c # o.code
      BY <1>4, <2>1, <3>2 DEF GuessInv, OnePlace
    <3>3. QED
      BY <3>1, <3>2
  <2>2. QED
    BY <2>1 DEF OnePlace
<1>7. ASSUME NEW c \in Codes, c # o.code
      PROVE  Counts(c)'
  <2>1. CASE otp[p][u].code = c
    <3>1. \A k : ~ Below(c, k)'
      <4>1. ASSUME NEW q \in Purposes, NEW v \in Users, otp'[q][v].code = c
            PROVE  FALSE
        <5>1. <<q, v>> # <<p, u>> /\ otp[q][v].code = c
          BY <1>1, <1>7, <4>1
        <5>2. Place(c, q, v) /\ Place(c, p, u)
          BY <2>1, <5>1 DEF Place
        <5>3. QED
          BY <5>1, <5>2 DEF GuessInv, OnePlace
      <4>2. QED
        BY <4>1 DEF Below
    <3>2. ASSUME NEW k \in 1 .. 3
          PROVE  From(c, k)' = From(c, k) \cup Reading(c)
      BY <3>1, SteadyHolds DEF From, Holds, Reading
    <3>3. QED
      BY <3>2, CountsForgotten DEF GuessInv
  <2>2. CASE otp[p][u].code # c
    <3>1. \A q \in Purposes, v \in Users :
            \/ otp'[q][v] = otp[q][v]
            \/ otp'[q][v].code # c /\ otp[q][v].code # c
      BY <1>1, <1>7, <2>2
    <3>2. \A k : Below(c, k)' = Below(c, k)
      BY <3>1, Zenon DEF Below
    <3>3. ASSUME NEW k \in 1 .. 3
          PROVE  From(c, k)' = From(c, k)
      BY <3>2, SteadyHolds DEF From, Holds
    <3>4. QED
      BY <3>3, CountsForgotten DEF GuessInv
  <2>3. QED
    BY <2>1, <2>2
<1>8. ASSUME NEW c \in Codes, c = o.code
      PROVE  Counts(c)'
  <2>1. guesses'[c] = 0 /\ \A r \in Requests : ~ Holds(r, c)'
    BY <1>8, SteadyHolds DEF GuessInv, Undrawn
  <2>2. ASSUME NEW k \in 1 .. 3
        PROVE  From(c, k)' = {}
    <3>1. Below(c, k)'
      BY <1>1, <1>8 DEF Below
    <3>2. QED
      BY <2>1, <3>1 DEF From
  <2>3. Left(0, 0, 0, 0)
    BY DEF Left, Pairs, Triples
  <2>4. /\ Cardinality(From(c, 1))' = 0 /\ Cardinality(From(c, 2))' = 0
        /\ Cardinality(From(c, 3))' = 0
    <3>1. 1 \in 1 .. 3 /\ 2 \in 1 .. 3 /\ 3 \in 1 .. 3
      OBVIOUS
    <3>2. QED
      BY <2>2, <3>1, FS_EmptySet
  <2>5. QED
    BY <2>1, <2>3, <2>4 DEF Counts
<1>9. QED
  BY <1>2, <1>3, <1>6, <1>7, <1>8 DEF GuessInv

\* A request takes a copy of the record it reads.
LEMMA CopyTaken ==
  ASSUME Inv, IsFiniteSet(Requests), GuessInv, NEW r \in Requests, GetOTP(r),
         Remember(r, otp[purpose(r)][req[r].user], "attempt")
  PROVE  GuessInv'
<1> DEFINE o == otp[purpose(r)][req[r].user]
<1>1. /\ purpose(r) \in Purposes /\ req[r].user \in Users /\ o \in OtpRecord
      /\ req[r].pc = "getOTP" /\ UNCHANGED <<otp, guesses, drawn>>
  <2>1. req[r].pc = "getOTP" /\ UNCHANGED <<otp, guesses, drawn>>
    BY DEF GetOTP, At, kvVars, historyVars
  <2>2. purpose(r) \in Purposes /\ req[r].user \in Users
    BY <2>1 DEF Inv, RequestsFit, Fits, Knows, Nameless, purpose, Purposes
  <2>3. QED
    BY <2>1, <2>2, GuessTypes
<1>2. /\ req'[r].pc = "attempt" /\ req'[r].seen = o /\ req'[r].user = req[r].user
      /\ purpose(r)' = purpose(r)
      /\ \A q \in Requests : q # r => req'[q] = req[q]
  BY GuessTypes DEF Remember, RequestRecord, purpose
<1>3. \A c : otp[purpose(r)][req[r].user].code = c <=> o.code = c
  OBVIOUS
<1> HIDE DEF o
<1>4. /\ \A c : ~ Holds(r, c) /\ (Holds(r, c)' <=> c = o.code)
      /\ \A c : \A q \in Requests : q # r => /\ Holds(q, c)' = Holds(q, c)
                                             /\ purpose(q)' = purpose(q)
  BY <1>1, <1>2 DEF Holds, At, purpose
<1>5. ASSUME NEW c, NEW p, NEW u
      PROVE  Place(c, p, u)' => Place(c, p, u)
  <2>1. CASE otp'[p][u].code = c
    BY <1>1, <2>1 DEF Place
  <2>2. ASSUME NEW q \in Requests, Holds(q, c)', purpose(q)' = p, req'[q].user = u
        PROVE  Place(c, p, u)
    <3>1. CASE q = r
      BY <1>2, <1>3, <1>4, <2>2, <3>1 DEF Place
    <3>2. CASE q # r
      BY <1>2, <1>4, <2>2, <3>2 DEF Place
    <3>3. QED
      BY <3>1, <3>2
  <2>3. QED
    BY <2>1, <2>2 DEF Place
<1>6. guesses' \in [Codes -> Nat] /\ OnePlace'
  BY <1>1, <1>5 DEF GuessInv, OnePlace
<1>7. Undrawn'
  <2>1. ASSUME NEW c \in Codes \ drawn
        PROVE  o.code # c
    BY <1>1, <1>3, <2>1 DEF GuessInv, Undrawn
  <2>2. QED
    BY <1>1, <1>4, <2>1 DEF GuessInv, Undrawn
<1>8. ASSUME NEW c \in Codes
      PROVE  Counts(c)'
  <2>1. \A k : Below(c, k)' = Below(c, k)
    BY <1>1 DEF Below
  <2>2. ASSUME NEW k \in 1 .. 3, c = o.code
        PROVE  Below(c, k) <=> o.attempts < k
    <3>1. ASSUME NEW p \in Purposes, NEW u \in Users, otp[p][u].code = c
          PROVE  otp[p][u] = o
      <4>1. Place(c, p, u) /\ Place(c, purpose(r), req[r].user)
        BY <1>3, <2>2, <3>1 DEF Place
      <4>2. p = purpose(r) /\ u = req[r].user
        BY <1>1, <4>1 DEF GuessInv, OnePlace
      <4>3. QED
        BY <4>2 DEF o
    <3>2. otp[purpose(r)][req[r].user] = o
      BY DEF o
    <3>3. QED
      BY <1>1, <2>2, <3>1, <3>2 DEF Below
  <2>3. ASSUME NEW k \in 1 .. 3, NEW q \in Requests
        PROVE  q \in From(c, k)' <=> q \in From(c, k)
    <3>1. CASE q # r
      BY <1>2, <1>4, <2>1, <3>1 DEF From
    <3>2. CASE q = r /\ c # o.code
      BY <1>4, <2>1, <3>2 DEF From
    <3>3. CASE q = r /\ c = o.code
      <4>1. o.attempts \in Int
        BY <1>1 DEF OtpRecord
      <4>2. QED
        BY <1>2, <1>4, <2>2, <3>3, <4>1 DEF From
    <3>4. QED
      BY <3>1, <3>2, <3>3
  <2>4. ASSUME NEW k \in 1 .. 3
        PROVE  From(c, k)' = From(c, k)
    BY <2>3 DEF From
  <2>5. QED
    BY <1>1, <2>4, CountsForgotten DEF GuessInv
<1>9. QED
  BY <1>6, <1>7, <1>8 DEF GuessInv

\* A request compares the code with its copy, once that is written back.
LEMMA CopyCompared ==
  ASSUME Inv, IsFiniteSet(Requests), GuessInv, NEW r \in Requests, Attempt(r)
  PROVE  GuessInv'
<1> DEFINE o == req[r].seen
           n == [o EXCEPT !.attempts = @ + 1]
           p == purpose(r)
           u == req[r].user
<1>1. /\ p \in Purposes /\ u \in Users /\ o \in Attemptable /\ req[r].pc = "attempt"
      /\ otp' = [otp EXCEPT ![p][u] = n] /\ guesses' = [guesses EXCEPT ![o.code] = @ + 1]
      /\ drawn' = drawn
      /\ Return(r) \/ Goto(r, "consumeOTP")
  BY GuessTypes DEF Attempt, At
<1>2. n.code = o.code /\ n.attempts = o.attempts + 1 /\ o.attempts \in 0 .. 2
  BY <1>1 DEF Attemptable, OtpRecord
<1>3. /\ req'[r].pc # "attempt"
      /\ \A q \in Requests : q # r => req'[q] = req[q]
  BY <1>1, GuessTypes DEF Return, Goto, Idle, RequestRecord
<1>4. /\ \A c : ~ Holds(r, c)' /\ (Holds(r, c) <=> c = o.code)
      /\ \A c : \A q \in Requests : q # r => /\ Holds(q, c)' = Holds(q, c)
                                             /\ purpose(q)' = purpose(q)
  BY <1>1, <1>3 DEF Holds, At, purpose
<1> HIDE DEF n
<1>5. /\ otp'[p][u] = n
      /\ \A q \in Purposes, v \in Users : <<q, v>> # <<p, u>> => otp'[q][v] = otp[q][v]
  BY <1>1, Tables DEF OtpStore
<1>6. \A c : c = o.code => Place(c, p, u)
  BY <1>4 DEF Place
<1> HIDE DEF o, p, u
<1>7. ASSUME NEW c, NEW q \in Purposes, NEW v \in Users
      PROVE  Place(c, q, v)' => Place(c, q, v)
  <2>1. ASSUME otp'[q][v].code = c
        PROVE  Place(c, q, v)
    BY <1>2, <1>5, <1>6, <2>1 DEF Place
  <2>2. ASSUME NEW s \in Requests, Holds(s, c)', purpose(s)' = q, req'[s].user = v
        PROVE  Place(c, q, v)
    BY <1>3, <1>4, <2>2 DEF Place
  <2>3. QED
    BY <2>1, <2>2 DEF Place
<1>8. guesses' \in [Codes -> Nat] /\ OnePlace'
  <2>1. guesses' \in [Codes -> Nat]
    <3>1. guesses \in [Codes -> Nat] /\ guesses' = [guesses EXCEPT ![o.code] = guesses[o.code] + 1]
      BY <1>1 DEF GuessInv
    <3>2. ASSUME NEW c \in Codes
          PROVE  guesses'[c] \in Nat
      BY <3>1
    <3>3. QED
      BY ONLY <3>1, <3>2
  <2>2. OnePlace'
    BY <1>7 DEF GuessInv, OnePlace
  <2>3. QED
    BY <2>1, <2>2
<1>9. Undrawn'
  <2>1. ASSUME NEW c \in Codes \ drawn
        PROVE  o.code # c
    BY <1>4, <2>1 DEF GuessInv, Undrawn
  <2>2. ASSUME NEW c \in Codes \ drawn
        PROVE  /\ guesses'[c] = 0
               /\ \A q \in Purposes, v \in Users : otp'[q][v].code # c
               /\ \A s \in Requests : ~ Holds(s, c)'
    BY <1>1, <1>2, <1>4, <1>5, <2>1, <2>2 DEF GuessInv, Undrawn
  <2>3. QED
    BY <1>1, <2>2 DEF Undrawn
<1>10. ASSUME NEW c \in Codes, c # o.code
       PROVE  Counts(c)'
  <2>1. guesses'[c] = guesses[c]
    BY <1>1, <1>10 DEF GuessInv
  <2>2. \A s \in Requests : /\ Holds(s, c)' = Holds(s, c)
                            /\ Holds(s, c) => req'[s] = req[s]
    BY <1>3, <1>4, <1>10 DEF Holds, At
  <2>3. CASE otp[p][u].code = c
    <3>1. ASSUME NEW q \in Purposes, NEW v \in Users, otp'[q][v].code = c
          PROVE  FALSE
      <4>1. <<q, v>> # <<p, u>> /\ otp[q][v].code = c
        BY <1>2, <1>5, <1>10, <3>1
      <4>2. Place(c, q, v) /\ Place(c, p, u)
        BY <2>3, <4>1 DEF Place
      <4>3. QED
        BY <1>1, <4>1, <4>2 DEF GuessInv, OnePlace
    <3>2. \A k : ~ Below(c, k)'
      BY <3>1 DEF Below
    <3>3. ASSUME NEW k \in 1 .. 3
          PROVE  From(c, k)' = From(c, k) \cup Reading(c)
      BY <2>2, <3>2 DEF From, Reading
    <3>4. QED
      BY <2>1, <3>3, CountsForgotten DEF GuessInv
  <2>4. CASE otp[p][u].code # c
    <3>1. \A q \in Purposes, v \in Users :
            \/ otp'[q][v] = otp[q][v]
            \/ otp'[q][v].code # c /\ otp[q][v].code # c
      BY <1>2, <1>5, <1>10, <2>4
    <3>2. \A k : Below(c, k)' = Below(c, k)
      BY <3>1, Zenon DEF Below
    <3>3. ASSUME NEW k \in 1 .. 3
          PROVE  From(c, k)' = From(c, k)
      BY <2>2, <3>2 DEF From
    <3>4. QED
      BY <2>1, <3>3, CountsForgotten DEF GuessInv
  <2>5. QED
    BY <2>3, <2>4
<1>11. ASSUME NEW c \in Codes, c = o.code
       PROVE  Counts(c)'
  <2>1. guesses'[c] = guesses[c] + 1 /\ Holds(r, c)
    BY <1>1, <1>4, <1>11 DEF GuessInv
  <2>2. ASSUME NEW q \in Purposes, NEW v \in Users, otp'[q][v].code = c
        PROVE  q = p /\ v = u
    <3>1. Place(c, q, v) /\ Place(c, p, u)
      BY <1>6, <1>7, <1>11, <2>2 DEF Place
    <3>2. QED
      BY <1>1, <3>1 DEF GuessInv, OnePlace
  <2>3. ASSUME NEW k \in 1 .. 3
        PROVE  Below(c, k)' <=> o.attempts + 1 < k
    BY <1>1, <1>2, <1>5, <1>11, <2>2 DEF Below
  <2>4. ASSUME NEW k \in 1 .. 3, NEW s \in Requests
        PROVE  s \in From(c, k)' <=> IF o.attempts + 1 >= k
                                     THEN s \in From(c, k) \cup Reading(c) \cup {r}
                                     ELSE s \in From(c, k) \ Reading(c)
    <3>1. CASE s = r
      <4>1. s \in From(c, k)' <=> ~ Below(c, k)'
        BY <1>4, <3>1 DEF From
      <4>2. s \in From(c, k) <=> o.attempts >= k
        BY <2>1, <3>1 DEF From, o
      <4>3. QED
        BY <1>2, <2>3, <3>1, <4>1, <4>2
    <3>2. CASE s # r /\ Holds(s, c)
      BY <1>3, <1>4, <2>1, <2>3, <3>2 DEF From, Reading
    <3>3. CASE s # r /\ ~ Holds(s, c)
      BY <1>2, <1>3, <1>4, <2>3, <3>3 DEF From, Reading
    <3>4. QED
      BY <3>1, <3>2, <3>3
  <2>5. ASSUME NEW k \in 1 .. 3
        PROVE  From(c, k)' = IF req[r].seen.attempts + 1 >= k
                             THEN From(c, k) \cup Reading(c) \cup {r}
                             ELSE From(c, k) \ Reading(c)
    BY <2>4 DEF From, Reading, o
  <2>6. QED
    BY <2>1, <2>5, CountsCompared DEF GuessInv
<1>12. QED
  BY <1>8, <1>9, <1>10, <1>11 DEF GuessInv

(* --- The bound --- *)

LEMMA AsideIsSteady ==
  ASSUME Inv, NEW r \in Requests, Elsewhere(r, "attempt")
  PROVE  Steady
<1>1. req \in [Requests -> RequestRecord]
  BY DEF Inv, RequestsFit
<1>2. ASSUME NEW p \in Requests
      PROVE  At(p, "attempt")' = At(p, "attempt") /\ (At(p, "attempt") => req'[p] = req[p])
  <2>1. CASE p = r
    BY <2>1 DEF Elsewhere, At
  <2>2. CASE p # r
    BY <1>1, <2>2 DEF Elsewhere, At
  <2>3. QED
    BY <2>1, <2>2
<1>3. QED
  BY <1>2 DEF Steady

\* The steps of a handler outside createOTP and validateOTP.
LEMMA Onlookers ==
  ASSUME Inv, NEW r \in Requests, Continue(r),
         ~ CreateOTP(r), ~ GetOTP(r), ~ DiscardOTP(r), ~ Attempt(r), ~ ConsumeOTP(r)
  PROVE  Elsewhere(r, "attempt") /\ UNCHANGED <<otp, guesses>> /\ drawn \subseteq drawn'
<1>1. /\ {"draw", "discardOTP", "secret", "getOTP", "getBackup", "putBackup",
          "enable", "deleteSetup", "getSession", "deleteState", "exchange", "create", "delete",
          "token", "disable", "newBackupCodes"} \subseteq Labels \ {"attempt"}
      /\ Fits(req[r], owner, stepped, shown, revoked)
      /\ req \in [Requests -> RequestRecord] /\ req[r] \in RequestRecord
  BY DEF Labels, Factor, Nameless, Inv, RequestsFit
<1>2. ASSUME req[r].pc \in Factor
      PROVE  Accepted(r) \in Labels \ {"attempt"}
  BY <1>1, <1>2 DEF Fits, Knows, Accepted
<1>3. CASE HasTotp(r)
  BY <1>1, <1>3, MovesElsewhere DEF HasTotp, At, kvVars, historyVars
<1>4. CASE FindFactor(r)
  BY <1>1, <1>2, <1>4, MovesElsewhere DEF FindFactor, Factor, At, kvVars, historyVars
<1>5. CASE GetBackupCodes(r)
  BY <1>1, <1>5, MovesElsewhere DEF GetBackupCodes, At, kvVars, historyVars
<1>6. CASE SaveSetup(r)
  BY <1>1, <1>6, MovesElsewhere DEF SaveSetup, At, kvVars, historyVars
<1>7. CASE EnableTOTP(r)
  BY <1>1, <1>7, MovesElsewhere DEF EnableTOTP, confirmed, At, kvVars, historyVars
<1>8. CASE DeleteSetup(r)
  BY <1>1, <1>8, MovesElsewhere DEF DeleteSetup, At, kvVars, historyVars
<1>9. CASE DisableTOTP(r)
  BY <1>1, <1>9, MovesElsewhere DEF DisableTOTP, NoTotp, At, kvVars, historyVars
<1>10. CASE RegenerateBackupCodes(r)
  BY <1>1, <1>10, MovesElsewhere DEF RegenerateBackupCodes, At, kvVars, historyVars
<1>11. CASE CreateState(r)
  BY <1>1, <1>11, MovesElsewhere DEF CreateState, At, kvVars, historyVars
<1>12. CASE GetState(r)
  BY <1>1, <1>12, MovesElsewhere DEF GetState, At, kvVars, historyVars
<1>13. CASE ValidateState(r)
  BY <1>1, <1>13, MovesElsewhere DEF ValidateState, At, kvVars, historyVars
<1>14. CASE ExchangeCode(r)
  BY <1>1, <1>14, MovesElsewhere DEF ExchangeCode, At, kvVars, historyVars
<1>15. CASE Require2FA(r)
  BY <1>1, <1>15, MovesElsewhere DEF Require2FA, At, kvVars, historyVars
<1>16. CASE CreateToken(r)
  BY <1>1, <1>16, MovesElsewhere DEF CreateToken, At, kvVars, historyVars
<1>17. CASE RevokeToken(r)
  BY <1>1, <1>17, MovesElsewhere DEF RevokeToken, At, kvVars, historyVars
<1>18. CASE CheckTOTP(r)
  BY <1>1, <1>2, <1>18, MovesElsewhere DEF CheckTOTP, Factor, At, kvVars, historyVars
<1>19. CASE PutBackupCodes(r)
  BY <1>1, <1>2, <1>19, MovesElsewhere DEF PutBackupCodes, Factor, At, kvVars, historyVars
<1>20. CASE GetSetup(r)
  BY <1>1, <1>20, MovesElsewhere DEF GetSetup, At, kvVars, historyVars
<1>21. CASE GetTarget(r)
  BY <1>1, <1>21, MovesElsewhere DEF GetTarget, At, kvVars, historyVars
<1>22. CASE ListUserSessions(r)
  BY <1>1, <1>22, MovesElsewhere DEF ListUserSessions, At, kvVars, historyVars
<1>23. CASE CreateSession(r)
  <2>1. PICK s \in mix.ids :
          req' = [req EXCEPT ![r].session = s, ![r].pc = "put", ![r].todo = SessionKeys,
                             ![r].seen = [user |-> req[r].user, verified |-> FALSE]]
    BY <1>23 DEF CreateSession, madeUp
  <2>2. req'[r].pc = "put"
    BY <1>1, <2>1 DEF RequestRecord
  <2>3. QED
    BY <1>1, <1>23, <2>1, <2>2 DEF CreateSession, Elsewhere, At, kvVars
<1>24. CASE GetSession(r)
  <2>1. req[r].pc = "getSession" /\ UNCHANGED <<otp, guesses, drawn>>
    BY <1>24 DEF GetSession, At, kvVars, historyVars
  <2>2. CASE Return(r)
    BY <2>1, <2>2, MovesElsewhere
  <2> DEFINE x == [byId[req[r].session] EXCEPT !.verified = TRUE]
  <2>3. CASE req' = [req EXCEPT ![r].pc = "put", ![r].todo = {"BY_ID", "BY_USER"}, ![r].seen = x]
    <3> HIDE DEF x
    <3>1. QED
      BY <1>1, <2>1, <2>3 DEF Elsewhere, RequestRecord
  <2>4. QED
    BY <1>24, <2>1, <2>2, <2>3 DEF GetSession, existing
<1>25. CASE DeleteGet(r)
  <2>1. req[r].pc = "delete" /\ UNCHANGED <<otp, guesses, drawn>>
    BY <1>25 DEF DeleteGet, At, kvVars
  <2>2. CASE Return(r)
    BY <2>1, <2>2, MovesElsewhere
  <2>3. ASSUME NEW todo, req' = [req EXCEPT ![r].todo = todo, ![r].pc = "deleteKeys"]
        PROVE  Elsewhere(r, "attempt")
    BY <1>1, <2>1, <2>3 DEF Elsewhere, RequestRecord
  <2>4. QED
    BY <1>25, <2>1, <2>2, <2>3 DEF DeleteGet
<1>26. ASSUME NEW k \in SessionKeys, PutSession(r, k)
       PROVE  Elsewhere(r, "attempt") /\ UNCHANGED <<otp, guesses, drawn>>
  <2>1. /\ req[r].pc = "put" /\ UNCHANGED <<otp, guesses, drawn>>
        /\ Return(r) \/ req' = [req EXCEPT ![r].todo = @ \ {k}]
    BY <1>26 DEF PutSession, At, historyVars
  <2>2. CASE Return(r)
    BY <2>1, <2>2, MovesElsewhere
  <2>3. CASE req' = [req EXCEPT ![r].todo = @ \ {k}]
    BY <1>1, <2>1, <2>3 DEF Elsewhere, RequestRecord
  <2>4. QED
    BY <2>1, <2>2, <2>3
<1>27. ASSUME NEW t \in SessionIds, NEW k \in SessionKeys, DeleteKey(r, t, k)
       PROVE  Elsewhere(r, "attempt") /\ UNCHANGED <<otp, guesses, drawn>>
  <2>1. /\ req[r].pc = "deleteKeys" /\ UNCHANGED <<otp, guesses, drawn>>
        /\ Return(r) \/ req' = [req EXCEPT ![r].todo = @ \ {<<t, k>>}]
    BY <1>27 DEF DeleteKey, At, historyVars
  <2>2. CASE Return(r)
    BY <2>1, <2>2, MovesElsewhere
  <2>3. CASE req' = [req EXCEPT ![r].todo = @ \ {<<t, k>>}]
    BY <1>1, <2>1, <2>3 DEF Elsewhere, RequestRecord
  <2>4. QED
    BY <2>1, <2>2, <2>3
<1>28. CASE RefuseScoped(r)
  BY <1>1, <1>28, MovesElsewhere DEF RefuseScoped, At, kvVars, historyVars
<1>29. QED
  BY <1>28, <1>3, <1>4, <1>5, <1>6, <1>7, <1>8, <1>9, <1>10, <1>11, <1>12, <1>13, <1>14, <1>15, <1>16, <1>17, <1>18, <1>19, <1>20, <1>21, <1>22, <1>23, <1>24, <1>25, <1>26, <1>27 DEF Continue

\* The steps of createOTP and validateOTP that take no copy.
LEMMA OtpDeleted ==
  ASSUME Inv, IsFiniteSet(Requests), GuessInv, NEW r \in Requests,
         CreateOTP(r) \/ DiscardOTP(r) \/ ConsumeOTP(r)
  PROVE  GuessInv'
<1> USE SessionsAssumption
<1>1. /\ req[r].pc \in {"draw", "discardOTP", "consumeOTP"} /\ guesses' = guesses
      /\ Fits(req[r], owner, stepped, shown, revoked)
  BY DEF CreateOTP, DiscardOTP, ConsumeOTP, At, historyVars, Inv, RequestsFit
<1>2. purpose(r) \in Purposes /\ req[r].user \in Users
  BY <1>1 DEF Fits, Knows, Nameless, purpose, Purposes
<1>3. NoOtp \in OtpRecord /\ NoOtp.code \notin Codes
  BY DEF NoOtp, OtpRecord
<1>4. CASE CreateOTP(r)
  <2>1. Steady
    BY <1>4, MovesElsewhere, AsideIsSteady DEF CreateOTP, At
  <2>2. PICK c \in Codes \ drawn :
          /\ otp' = [otp EXCEPT ![purpose(r)][req[r].user] = [code |-> c, attempts |-> 0]]
          /\ drawn' = drawn \cup {c}
    BY <1>4 DEF CreateOTP
  <2> DEFINE o == [code |-> c, attempts |-> 0]
  <2>3. o \in OtpRecord /\ o.code = c /\ o.attempts = 0
    BY DEF OtpRecord
  <2> HIDE DEF o
  <2>4. otp' = [otp EXCEPT ![purpose(r)][req[r].user] = o]
    BY <2>2 DEF o
  <2>5. QED
    BY <1>1, <1>2, <2>1, <2>2, <2>3, <2>4, PlaceOverwritten
<1>5. CASE DiscardOTP(r)
  <2>1. Steady
    BY <1>5, MovesElsewhere, AsideIsSteady DEF DiscardOTP, At
  <2>2. otp' = [otp EXCEPT ![purpose(r)][req[r].user] = NoOtp] /\ drawn' = drawn
    BY <1>5 DEF DiscardOTP, DeleteOTP, historyVars
  <2>3. QED
    BY <1>1, <1>2, <1>3, <2>1, <2>2, PlaceOverwritten
<1>6. CASE ConsumeOTP(r)
  <2>1. req[r].pc = "consumeOTP" /\ Goto(r, Accepted(r))
    BY <1>6 DEF ConsumeOTP, At
  <2>2. Accepted(r) \in Labels \ {"attempt"}
    BY <1>1, <2>1 DEF Fits, Knows, Factor, Accepted, Labels
  <2>3. Steady
    BY <2>1, <2>2, MovesElsewhere, AsideIsSteady
  <2>4. otp' = [otp EXCEPT ![purpose(r)][req[r].user] = NoOtp] /\ drawn' = drawn
    BY <1>6 DEF ConsumeOTP, DeleteOTP
  <2>5. QED
    BY <1>1, <1>2, <1>3, <2>3, <2>4, PlaceOverwritten
<1>7. QED
  BY <1>4, <1>5, <1>6

\* However many requests race, a code is compared at most C(n + 3, 3) - 1 times:
\* a counter that is written back stale gives less than it costs (validateOTP).
THEOREM GuessesBounded ==
  ASSUME IsFiniteSet(Requests)
  PROVE  Spec => []GuessesAreBounded
<1> USE SessionsAssumption
<1>1. Init => GuessInv
  <2> SUFFICES ASSUME Init PROVE GuessInv
    OBVIOUS
  <2>1. guesses \in [Codes -> Nat] /\ Undrawn /\ OnePlace
    BY DEF Init, Undrawn, OnePlace, Place, Holds, At, Idle, NoOtp
  <2>2. ASSUME NEW c \in Codes
        PROVE  Counts(c)
    <3>1. \A k : From(c, k) = Requests
      BY DEF Init, From, Below, Holds, At, Idle, NoOtp
    <3>2. guesses[c] = 0
      BY DEF Init
    <3>3. ASSUME NEW n \in Nat
          PROVE  Left(0, n, n, n)
      <4>1. Pairs(n) \in Nat /\ Triples(n) = 3 * Pairs(n) + n * Pairs(n) /\ n * Pairs(n) \in Nat
            /\ Pairs(n) >= 2
        BY PairsStep, TriplesStep
      <4>2. QED
        BY <4>1 DEF Left
    <3>4. Cardinality(Requests) \in Nat
      BY FS_CardinalityType
    <3>5. QED
      BY <3>1, <3>2, <3>3, <3>4 DEF Counts
  <2>3. QED
    BY <2>1, <2>2 DEF GuessInv
<1>2. Inv /\ GuessInv /\ [Next]_vars => GuessInv'
  <2> SUFFICES ASSUME Inv, GuessInv, [Next]_vars PROVE GuessInv'
    OBVIOUS
  <2>1. \A r \in Requests : req[r] \in RequestRecord /\ Fits(req[r], owner, stepped, shown, revoked)
    BY DEF Inv, RequestsFit
  <2>2. ASSUME NEW r \in Requests, Elsewhere(r, "attempt"), UNCHANGED <<otp, guesses>>,
               drawn \subseteq drawn'
        PROVE  GuessInv'
    BY <2>2, AsideIsSteady, GuessesStay
  <2>3. ASSUME NEW r \in Requests, GetOTP(r)
        PROVE  GuessInv'
    <3>1. UNCHANGED <<otp, guesses, drawn>> /\ req[r].pc = "getOTP"
      BY <2>3 DEF GetOTP, At, kvVars, historyVars
    <3>2. CASE Return(r) \/ Goto(r, "discardOTP")
      <4>1. "discardOTP" \in Labels \ {"attempt"}
        BY DEF Labels, Factor
      <4>2. Elsewhere(r, "attempt")
        BY <3>1, <3>2, <4>1, MovesElsewhere
      <4>3. QED
        BY <2>2, <3>1, <4>2
    <3>3. CASE Remember(r, otp[purpose(r)][req[r].user], "attempt")
      BY <2>3, <3>3, CopyTaken
    <3>4. QED
      BY <2>3, <3>2, <3>3 DEF GetOTP
  <2>4. ASSUME NEW r \in Requests, Continue(r)
        PROVE  GuessInv'
    BY <2>2, <2>3, <2>4, OtpDeleted, CopyCompared, Onlookers
  <2>5. ASSUME NEW r \in Requests,
               Login(r) \/ \E s \in SessionIds \cup {None} : SecondFactor(r, s) \/ Account(r, s)
        PROVE  GuessInv'
    <3>1. ASSUME NEW op, NEW auth, NEW u, NEW s, NEW code, NEW pc, pc # "attempt",
                 Begin(r, op, auth, u, s, code, pc)
          PROVE  GuessInv'
      BY <2>2, <3>1, BeginsElsewhere
    <3>2. CASE Login(r)
      BY <3>1, <3>2 DEF Login, SendLoginCode, OidcExchange, VerifyLogin, OAuthLogin,
         OAuthCallback
    <3>3. ASSUME NEW s \in SessionIds \cup {None}, SecondFactor(r, s)
          PROVE  GuessInv'
      BY <3>1, <3>3 DEF SecondFactor, SendTwoFaCode, SetupBegin, Verify2FA, DisableBegin,
         RegenerateBegin, ConfirmBegin, BeginAs, BeginByCookie, BeginByBearer
    <3>4. ASSUME NEW s \in SessionIds \cup {None}, Account(r, s)
          PROVE  GuessInv'
      <4>1. CASE LogoutGone(r, s)
        <5> DEFINE q == [Idle EXCEPT !.op = "logout", !.pc = "delete", !.seen = {s}]
        <5>1. /\ req' = [req EXCEPT ![r] = q] /\ req[r].pc = "idle"
              /\ UNCHANGED <<otp, guesses, drawn>>
          BY <4>1 DEF LogoutGone, At, kvVars, historyVars
        <5>2. q.pc = "delete"
          BY IdleFits DEF RequestRecord
        <5> HIDE DEF q
        <5>3. Elsewhere(r, "attempt")
          BY <5>1, <5>2 DEF Elsewhere, Inv, RequestsFit
        <5>4. QED
          BY <2>2, <5>1, <5>3
      <4>2. QED
        BY <3>1, <3>4, <4>1 DEF Account, RevokeBegin, LogoutBegin, TokenBegin, BeginAs, BeginByCookie,
           BeginByBearer
    <3>5. QED
      BY <2>5, <3>2, <3>3, <3>4
  <2>6. CASE Time
    <3>1. req' = req /\ guesses' = guesses /\ drawn' = drawn /\ Steady
      BY <2>6 DEF Time, ExpireSession, LapseSecondFactor, ExpireOTP, ExpireSetup, ExpireState,
         historyVars, Steady, At
    <3>2. ASSUME NEW p \in Purposes, NEW u \in Users, ExpireOTP(p, u)
          PROVE  GuessInv'
      <4>1. NoOtp \in OtpRecord /\ NoOtp.code \notin Codes
        BY DEF NoOtp, OtpRecord
      <4>2. otp' = [otp EXCEPT ![p][u] = NoOtp]
        BY <3>2 DEF ExpireOTP
      <4>3. QED
        BY <3>1, <4>1, <4>2, PlaceOverwritten
    <3>3. CASE otp' = otp
      BY <3>1, <3>3, GuessesStay
    <3>4. QED
      BY <2>6, <3>2, <3>3 DEF Time, ExpireSession, LapseSecondFactor, ExpireSetup, ExpireState
  <2>7. CASE UNCHANGED vars
    <3>1. Steady /\ UNCHANGED <<otp, guesses, drawn>>
      BY <2>7 DEF vars, kvVars, historyVars, Steady, At
    <3>2. QED
      BY <3>1, GuessesStay
  <2>8. QED
    BY <2>4, <2>5, <2>6, <2>7 DEF Next
<1>3. Inv /\ GuessInv => GuessesAreBounded
  <2> SUFFICES ASSUME Inv, GuessInv, NEW c \in Codes PROVE guesses[c] <= GuessBound
    BY DEF GuessesAreBounded
  <2>1. 1 \in 1 .. 3 /\ 2 \in 1 .. 3 /\ 3 \in 1 .. 3
    OBVIOUS
  <2>2. /\ Cardinality(From(c, 1)) \in Nat /\ Cardinality(From(c, 2)) \in Nat
        /\ Cardinality(From(c, 3)) \in Nat
        /\ Cardinality(From(c, 3)) <= Cardinality(From(c, 2))
        /\ Cardinality(From(c, 2)) <= Cardinality(From(c, 1))
        /\ Cardinality(From(c, 1)) <= Cardinality(Requests)
    BY <2>1, FromNests
  <2>3. Cardinality(Requests) \in Nat /\ guesses[c] \in Nat
    BY FS_CardinalityType DEF GuessInv
  <2>4. Left(guesses[c], Cardinality(From(c, 3)), Cardinality(From(c, 2)), Cardinality(From(c, 1)))
    BY DEF GuessInv, Counts
  <2>5. QED
    BY <2>2, <2>3, <2>4, LeftIsBounded DEF GuessBound
<1>4. QED
  BY <1>1, <1>2, <1>3, Invariant, PTL DEF Spec
=============================================================================
