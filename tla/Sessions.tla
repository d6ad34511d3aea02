------------------------------ MODULE Sessions ------------------------------
(***************************************************************************)
(* Logins, sessions, one-time codes and the second factor.                 *)
(*                                                                         *)
(* A session is three keys of the key-value store (kv/session.ts): the     *)
(* record, the user's latest session, and an entry of the user's list.  A  *)
(* request reads and writes them, the one-time codes and the row of the    *)
(* second factor with an await between any two accesses, so that requests  *)
(* of one user interleave anywhere.  A request of this module is one run   *)
(* of a handler of routes/auth.ts, twofa.ts, oidc.ts or auth-tokens.ts;    *)
(* its steps are what it does between two awaits.                          *)
(***************************************************************************)
EXTENDS Integers, FiniteSets

CONSTANTS
  Users,
  SessionIds,   (* random identifiers; none is drawn twice                  *)
  Requests,     (* the requests that may be under way at once               *)
  Codes,        (* one-time codes; none is drawn twice                      *)
  BackupCodes,  (* the codes handed out when TOTP is enabled                *)
  Secrets,      (* TOTP secrets                                             *)
  States,       (* state parameters of the OAuth redirect                   *)
  Tokens,       (* personal access tokens; none is drawn twice              *)
  Mixes,        (* bounds of the model: each behaviour runs the operations  *)
                (* of one mix, draws the session ids of it, may bring the   *)
                (* Bearer tokens of it, and compares a code maxGuesses times*)
  None

Purposes == {"login", "twofa"}
\* Variant with a bug: the entry of the list is not written.
SessionKeysUnlisted == {"BY_ID", "BY_USER"}
SessionKeys == {"BY_ID", "BY_USER", "LIST_ENTRY"}
Operations ==
  {"sendCode", "verifyLogin", "oauthLogin", "oauthCallback", "oidcExchange",
   "email/send", "verify", "totp/setup", "totp/confirm", "totp/disable",
   "regenerate", "revokeSession", "logout", "createToken", "revokeToken"}

\* What a request may bring besides the cookie: the token of a node that
\* provisions itself again, or a personal access token.
Bearers == {"reprovision", "dpat"}
Auths   == Bearers \cup {"none", "cookie"}

ASSUME SessionsAssumption ==
  /\ Mixes \subseteq [ops : SUBSET Operations, ids : SUBSET SessionIds,
                      bearers : SUBSET Bearers, maxGuesses : Nat]
  /\ None \notin Users \cup SessionIds \cup Codes \cup BackupCodes \cup Secrets \cup States \cup Tokens

VARIABLES
  mix,        (* the bounds of this behaviour                               *)
  byId,       (* SESSION.BY_ID: the record of a session                     *)
  byUser,     (* SESSION.BY_USER: the latest session of a user              *)
  listed,     (* SESSION.LIST_ENTRY                                         *)
  otp,        (* OTP.BY_EMAIL and TWO_FA.OTP_BY_USER                        *)
  setup,      (* TWO_FA.TOTP_SETUP                                          *)
  states,     (* WORKFLOW.STATE                                             *)
  twofa,      (* the user_2fa row                                           *)
  tokens,     (* the api_tokens rows                                        *)
  req,        (* what each request does next, and its local variables       *)
  owner,      (* history: the user each session was created for             *)
  revoked,    (* history: sessions a revocation has deleted                 *)
  stepped,    (* history: who passed the second factor beside which cookie, *)
              (* and how the request was authenticated                      *)
  shown,      (* history: secrets a code was shown for                      *)
  drawn,      (* history: codes and tokens drawn so far                     *)
  guesses,    (* history: codes compared with the code sent                 *)
  spent       (* history: backup codes used since they were handed out      *)

kvVars      == <<byId, byUser, listed, otp, setup, states>>
dbVars      == <<twofa, tokens>>
historyVars == <<owner, revoked, stepped, shown, drawn, guesses, spent>>
vars        == <<mix, kvVars, dbVars, req, historyVars>>

NoOtp  == [code |-> None, attempts |-> 0]
NoTotp == [secret |-> None, codes |-> {}]
Idle   == [op |-> None, pc |-> "idle", auth |-> "none", user |-> None, session |-> None,
           code |-> None, seen |-> None, todo |-> {}]

(* --- The steps of a request --------------------------------------------- *)

At(r, pc)   == req[r].pc = pc
Goto(r, pc) == req' = [req EXCEPT ![r].pc = pc]
Return(r)   == req' = [req EXCEPT ![r] = Idle]
Remember(r, x, pc) == req' = [req EXCEPT ![r].seen = x, ![r].pc = pc]

\* The session a Bearer token stands for is, as a new one, not verified.
madeUp(u) == [user |-> u, verified |-> FALSE]

\* What the handler finds as its session.
resolved(auth, u, s) == CASE auth = "none"   -> None
                          [] auth = "cookie" -> byId[s]
                          [] OTHER           -> madeUp(u)

\* The first step of a request of user u with the cookie of session s.
Begin(r, op, auth, u, s, code, pc) ==
  /\ At(r, "idle") /\ op \in mix.ops
  /\ req' = [req EXCEPT ![r] = [Idle EXCEPT !.op = op, !.auth = auth, !.user = u, !.session = s,
                                            !.code = code, !.pc = pc,
                                            !.seen = resolved(auth, u, s)]]
  /\ UNCHANGED <<mix, kvVars, dbVars, historyVars>>

\* authenticate, when no Bearer token decides: the session the cookie names.
BeginByCookie(r, op, s, code, pc) ==
  s # None /\ byId[s] # None /\ Begin(r, op, "cookie", byId[s].user, s, code, pc)

\* authenticate: a Bearer token comes first, whatever session, or none, the
\* cookie names.  The token of a node speaks for any user, a personal access
\* token for the user of its row.
BeginByBearer(r, op, s, code, pc) ==
  /\ s # None => owner[s] # None
  /\ \E u \in Users, b \in mix.bearers :
       /\ b = "dpat" => \E t \in Tokens : <<u, t>> \in tokens
       /\ Begin(r, op, b, u, s, code, pc)

BeginAs(r, op, s, code, pc) ==
  BeginByCookie(r, op, s, code, pc) \/ BeginByBearer(r, op, s, code, pc)

purpose(r) == IF req[r].op \in {"sendCode", "verifyLogin"} THEN "login" ELSE "twofa"

\* What a request does once its code was found valid.
Accepted(r) == CASE req[r].op = "verifyLogin"  -> "create"
                 [] req[r].op = "verify"       -> "getSession"
                 [] req[r].op = "totp/disable" -> "disable"
                 [] req[r].op = "regenerate"   -> "newBackupCodes"
Passed(r) ==
  IF req[r].session = None THEN {} ELSE {<<req[r].user, req[r].session, req[r].auth>>}
StepUp(r, right) ==
  stepped' = IF req[r].op = "verify" /\ right THEN stepped \cup Passed(r) ELSE stepped

(* --- One-time codes ------------------------------------------------------ *)

\* login/email: a user with TOTP is asked for a code of the authenticator.
SendLoginCode(r, u) == Begin(r, "sendCode", "none", u, None, None, "hasTotp")
HasTotp(r) ==
  /\ At(r, "hasTotp")
  /\ IF twofa[req[r].user].secret # None THEN Return(r) ELSE Goto(r, "draw")
  /\ UNCHANGED <<mix, kvVars, dbVars, historyVars>>

\* twofa/email/send.
SendTwoFaCode(r, s) == BeginAs(r, "email/send", s, None, "draw")

\* createOTP, create2FAOTP: a new code replaces the one before it.
CreateOTP(r) ==
  /\ At(r, "draw")
  /\ \E c \in Codes \ drawn :
       /\ otp' = [otp EXCEPT ![purpose(r)][req[r].user] = [code |-> c, attempts |-> 0]]
       /\ drawn' = drawn \cup {c}
  /\ Return(r)
  /\ UNCHANGED <<mix, byId, byUser, listed, setup, states, dbVars, owner, revoked,
                 stepped, shown, guesses, spent>>

\* Variant with a bug: one attempt too many.
exhaustedLate(o) == o.attempts > 3
exhausted(o) == o.attempts >= 3

\* validateOTP, validate2FAOTP: the record is read, ...
GetOTP(r) ==
  /\ At(r, "getOTP")
  /\ LET o == otp[purpose(r)][req[r].user] IN
       IF o = NoOtp THEN Return(r)
       ELSE IF exhausted(o) THEN Goto(r, "discardOTP")
       ELSE Remember(r, o, "attempt")
  /\ UNCHANGED <<mix, kvVars, dbVars, historyVars>>

DeleteOTP(r, u) == otp' = [otp EXCEPT ![purpose(r)][u] = NoOtp]

DiscardOTP(r) ==
  /\ At(r, "discardOTP")
  /\ DeleteOTP(r, req[r].user)
  /\ Return(r)
  /\ UNCHANGED <<mix, byId, byUser, listed, setup, states, dbVars, historyVars>>

\* Variant with a bug: any code is accepted.
isRightAlways(r) == TRUE
isRight(r) == req[r].code = req[r].seen.code

\* ... written back with one more attempt, and only then compared, ...
Attempt(r) ==
  /\ At(r, "attempt")
  /\ LET o == req[r].seen IN
       /\ otp' = [otp EXCEPT ![purpose(r)][req[r].user] = [o EXCEPT !.attempts = @ + 1]]
       /\ guesses[o.code] < mix.maxGuesses
       /\ guesses' = [guesses EXCEPT ![o.code] = @ + 1]
       /\ IF isRight(r) THEN Goto(r, "consumeOTP") ELSE Return(r)
  /\ UNCHANGED <<mix, byId, byUser, listed, setup, states, dbVars, owner, revoked,
                 stepped, shown, drawn, spent>>

\* ... and deleted when the code was right.
ConsumeOTP(r) ==
  /\ At(r, "consumeOTP")
  /\ DeleteOTP(r, req[r].user)
  /\ StepUp(r, req[r].code = req[r].seen.code)
  /\ Goto(r, Accepted(r))
  /\ UNCHANGED <<mix, byId, byUser, listed, setup, states, dbVars, owner, revoked,
                 shown, drawn, guesses, spent>>

(* --- TOTP and backup codes ----------------------------------------------- *)

\* login/email/verify, twofa/verify, DELETE twofa/totp, backup-codes/regenerate.
VerifyLogin(r, u, code) == Begin(r, "verifyLogin", "none", u, None, code, "findFactor")
Verify2FA(r, s, code)   == BeginAs(r, "verify", s, code, "findFactor")
DisableBegin(r, s, code)    == BeginAs(r, "totp/disable", s, code, "findFactor")
RegenerateBegin(r, s, code) == BeginAs(r, "regenerate", s, code, "findFactor")

\* find: without TOTP a login and a verification take the code sent by email.
FindFactor(r) ==
  /\ At(r, "findFactor")
  /\ IF twofa[req[r].user].secret # None THEN Goto(r, "secret")
     ELSE IF req[r].op \in {"verifyLogin", "verify"} THEN Goto(r, "getOTP") ELSE Return(r)
  /\ UNCHANGED <<mix, kvVars, dbVars, historyVars>>

\* getDecryptedTOTPSecret and totp.validate.  A code of the authenticator is
\* represented by the secret it is computed from.
CheckTOTP(r) ==
  /\ At(r, "secret")
  /\ LET secret == twofa[req[r].user].secret IN
       IF secret # None /\ req[r].code = secret THEN Goto(r, Accepted(r)) /\ StepUp(r, TRUE)
       ELSE /\ IF req[r].op = "regenerate" THEN Return(r) ELSE Goto(r, "getBackup")
            /\ UNCHANGED stepped
  /\ UNCHANGED <<mix, kvVars, dbVars, owner, revoked, shown, drawn, guesses, spent>>

\* consumeBackupCode: the list is read, ...
GetBackupCodes(r) ==
  /\ At(r, "getBackup")
  /\ LET codes == twofa[req[r].user].codes IN
       IF req[r].code \in codes THEN Remember(r, codes, "putBackup") ELSE Return(r)
  /\ UNCHANGED <<mix, kvVars, dbVars, historyVars>>

\* ... and the list without the code replaces whatever the row holds by now.
PutBackupCodes(r) ==
  /\ At(r, "putBackup")
  /\ twofa' = [twofa EXCEPT ![req[r].user].codes = req[r].seen \ {req[r].code}]
  /\ spent' = [spent EXCEPT ![req[r].user] = @ \cup {req[r].code}]
  /\ StepUp(r, req[r].code \in req[r].seen)
  /\ Goto(r, Accepted(r))
  /\ UNCHANGED <<mix, kvVars, tokens, owner, revoked, shown, drawn, guesses>>

\* totp/setup: a new secret replaces one that was not confirmed yet.
SetupBegin(r, s) == BeginAs(r, "totp/setup", s, None, "saveSetup")
SaveSetup(r) ==
  /\ At(r, "saveSetup")
  /\ \E x \in Secrets : setup' = [setup EXCEPT ![req[r].user] = x]
  /\ Return(r)
  /\ UNCHANGED <<mix, byId, byUser, listed, otp, states, dbVars, historyVars>>

\* totp/confirm: the code is checked against the secret read here.
ConfirmBegin(r, s, code) == BeginAs(r, "totp/confirm", s, code, "getSetup")
GetSetup(r) ==
  /\ At(r, "getSetup")
  /\ LET x == setup[req[r].user] IN
       IF x # None /\ x = req[r].code
         THEN Remember(r, x, "enable") /\ shown' = shown \cup {<<req[r].user, x>>}
         ELSE Return(r) /\ UNCHANGED shown
  /\ UNCHANGED <<mix, kvVars, dbVars, owner, revoked, stepped, drawn, guesses, spent>>

\* Variant with a bug: the secret is read again when it is stored.
confirmedLatest(r) == setup[req[r].user]

\* The secret enableTOTP stores is the one the code was checked against.
confirmed(r) == req[r].seen

EnableTOTP(r) ==
  /\ At(r, "enable")
  /\ twofa' = [twofa EXCEPT ![req[r].user] = [secret |-> confirmed(r), codes |-> BackupCodes]]
  /\ spent' = [spent EXCEPT ![req[r].user] = {}]
  /\ stepped' = stepped \cup Passed(r)
  /\ Goto(r, "deleteSetup")
  /\ UNCHANGED <<mix, kvVars, tokens, owner, revoked, shown, drawn, guesses>>

DeleteSetup(r) ==
  /\ At(r, "deleteSetup")
  /\ setup' = [setup EXCEPT ![req[r].user] = None]
  /\ Goto(r, "getSession")
  /\ UNCHANGED <<mix, byId, byUser, listed, otp, states, dbVars, historyVars>>

DisableTOTP(r) ==
  /\ At(r, "disable")
  /\ twofa' = [twofa EXCEPT ![req[r].user] = NoTotp]
  /\ Return(r)
  /\ UNCHANGED <<mix, kvVars, tokens, historyVars>>

RegenerateBackupCodes(r) ==
  /\ At(r, "newBackupCodes")
  /\ twofa' = [twofa EXCEPT ![req[r].user].codes = BackupCodes]
  /\ spent' = [spent EXCEPT ![req[r].user] = {}]
  /\ Return(r)
  /\ UNCHANGED <<mix, kvVars, tokens, owner, revoked, stepped, shown, drawn, guesses>>

(* --- Logins without a code ------------------------------------------------ *)

\* login/:provider: the state goes to the provider and comes back.
OAuthLogin(r) == Begin(r, "oauthLogin", "none", None, None, None, "createState")
CreateState(r) ==
  /\ At(r, "createState")
  /\ \E st \in States \ drawn : states' = states \cup {st} /\ drawn' = drawn \cup {st}
  /\ Return(r)
  /\ UNCHANGED <<mix, byId, byUser, listed, otp, setup, dbVars, owner, revoked, stepped,
                 shown, guesses, spent>>

\* callback/:provider, validateState: looked up, ...
OAuthCallback(r, u, st) == Begin(r, "oauthCallback", "none", u, None, st, "getState")
GetState(r) ==
  /\ At(r, "getState")
  /\ IF req[r].code \in states THEN Goto(r, "deleteState") ELSE Return(r)
  /\ UNCHANGED <<mix, kvVars, dbVars, historyVars>>

\* ... deleted, and the provider asked for the user.
ValidateState(r) ==
  /\ At(r, "deleteState")
  /\ states' = states \ {req[r].code}
  /\ Goto(r, "exchange")
  /\ UNCHANGED <<mix, byId, byUser, listed, otp, setup, dbVars, historyVars>>

\* exchangeCode, getUserInfo: the provider knows the user or refuses.
ExchangeCode(r) ==
  /\ At(r, "exchange")
  /\ Goto(r, "create") \/ Return(r)
  /\ UNCHANGED <<mix, kvVars, dbVars, historyVars>>

\* oidc/exchange: the token of a CI job, once verified and bound to a user.
OidcExchange(r, u) == Begin(r, "oidcExchange", "none", u, None, None, "create")

(* --- Sessions -------------------------------------------------------------- *)

\* AuthService.createSession: a new identifier, then three keys at once.
CreateSession(r) ==
  /\ At(r, "create")
  /\ \E s \in mix.ids :
       /\ owner[s] = None
       /\ owner' = [owner EXCEPT ![s] = req[r].user]
       /\ req' = [req EXCEPT ![r].session = s, ![r].pc = "put", ![r].todo = SessionKeys,
                             ![r].seen = madeUp(req[r].user)]
  /\ UNCHANGED <<mix, kvVars, dbVars, revoked, stepped, shown, drawn, guesses, spent>>

\* Variant with a bug: the record the request came with is taken for the stored.
existingWhenAsked(r) == madeUp(req[r].user)
existing(r) == IF req[r].session = None THEN None ELSE byId[req[r].session]

\* refreshSession of the session the cookie names, whoever the user of the
\* request is: the record is read, and if it is there ...
GetSession(r) ==
  /\ At(r, "getSession")
  /\ IF existing(r) = None THEN Return(r)
     ELSE req' = [req EXCEPT ![r].pc = "put", ![r].todo = {"BY_ID", "BY_USER"},
                             ![r].seen = [existing(r) EXCEPT !.verified = TRUE]]
  /\ UNCHANGED <<mix, kvVars, dbVars, historyVars>>

\* ... the merged record is written, whatever became of it meanwhile.  The
\* writes of a request are in flight together and take effect in any order.
PutSession(r, k) ==
  LET s == req[r].session IN
  /\ At(r, "put") /\ k \in req[r].todo
  /\ byId'   = IF k = "BY_ID" THEN [byId EXCEPT ![s] = req[r].seen] ELSE byId
  /\ byUser' = IF k = "BY_USER" THEN [byUser EXCEPT ![req[r].seen.user] = s] ELSE byUser
  /\ listed' = IF k = "LIST_ENTRY" THEN listed \cup {s} ELSE listed
  /\ IF req[r].todo = {k} THEN Return(r) ELSE req' = [req EXCEPT ![r].todo = @ \ {k}]
  /\ UNCHANGED <<mix, otp, setup, states, dbVars, historyVars>>

\* DELETE sessions/:id: the session must be one of the user's own.
RevokeBegin(r, s, t) == BeginAs(r, "revokeSession", s, t, "target")
GetTarget(r) ==
  /\ At(r, "target")
  /\ LET target == byId[req[r].code] IN
       IF target = None \/ target.user # req[r].user THEN Return(r)
       ELSE Remember(r, {req[r].code}, "delete")
  /\ UNCHANGED <<mix, kvVars, dbVars, historyVars>>

\* logout: all the user's sessions, or what is left of this one if its record
\* has lapsed or was deleted.
LogoutGone(r, s) ==
  /\ At(r, "idle") /\ "logout" \in mix.ops
  /\ s # None /\ owner[s] # None /\ byId[s] = None
  /\ req' = [req EXCEPT ![r] = [Idle EXCEPT !.op = "logout", !.pc = "delete", !.seen = {s}]]
  /\ UNCHANGED <<mix, kvVars, dbVars, historyVars>>
LogoutBegin(r, s) == BeginByCookie(r, "logout", s, None, "list") \/ LogoutGone(r, s)

\* listUserSessions: the sessions with an entry and a record.
UserSessions(u) == {t \in listed : owner[t] = u /\ byId[t] # None}
ListUserSessions(r) ==
  /\ At(r, "list")
  /\ Remember(r, UserSessions(req[r].user), "delete")
  /\ UNCHANGED <<mix, kvVars, dbVars, historyVars>>

\* deleteSession of each: the record tells which keys to delete.
DeleteGet(r) ==
  /\ At(r, "delete")
  /\ LET keys(t) == IF byId[t] = None THEN {"BY_ID"} ELSE SessionKeys
         todo == UNION {{t} \X keys(t) : t \in req[r].seen} IN
       IF todo = {} THEN Return(r)
       ELSE req' = [req EXCEPT ![r].todo = todo, ![r].pc = "deleteKeys"]
  /\ revoked' = revoked \cup req[r].seen
  /\ UNCHANGED <<mix, kvVars, dbVars, owner, stepped, shown, drawn, guesses, spent>>

DeleteKey(r, t, k) ==
  /\ At(r, "deleteKeys") /\ <<t, k>> \in req[r].todo
  /\ byId'   = IF k = "BY_ID" THEN [byId EXCEPT ![t] = None] ELSE byId
  /\ byUser' = IF k = "BY_USER" THEN [byUser EXCEPT ![owner[t]] = None] ELSE byUser
  /\ listed' = IF k = "LIST_ENTRY" THEN listed \ {t} ELSE listed
  /\ IF req[r].todo = {<<t, k>>} THEN Return(r)
     ELSE req' = [req EXCEPT ![r].todo = @ \ {<<t, k>>}]
  /\ UNCHANGED <<mix, otp, setup, states, dbVars, historyVars>>

(* --- Personal access tokens ------------------------------------------------ *)

\* require2FA: a user with TOTP must have passed it in this session lately.  A
\* personal access token has scopes: it is let past, and both handlers refuse it.
TokenBegin(r, s, op, t) == BeginAs(r, op, s, t, "require2FA")
scoped(r) == req[r].auth = "dpat"
Require2FA(r) ==
  /\ At(r, "require2FA")
  /\ IF \/ scoped(r)
        \/ twofa[req[r].user].secret = None
        \/ req[r].seen.verified
       THEN Goto(r, "token") ELSE Return(r)
  /\ UNCHANGED <<mix, kvVars, dbVars, historyVars>>

RefuseScoped(r) ==
  /\ At(r, "token") /\ scoped(r)
  /\ Return(r)
  /\ UNCHANGED <<mix, kvVars, dbVars, historyVars>>

CreateToken(r) ==
  /\ At(r, "token") /\ req[r].op = "createToken" /\ ~ scoped(r)
  /\ req[r].code \notin drawn
  /\ tokens' = tokens \cup {<<req[r].user, req[r].code>>}
  /\ drawn' = drawn \cup {req[r].code}
  /\ Return(r)
  /\ UNCHANGED <<mix, kvVars, twofa, owner, revoked, stepped, shown, guesses, spent>>

\* revoke deletes the token only if it is the user's own.
RevokeToken(r) ==
  /\ At(r, "token") /\ req[r].op = "revokeToken" /\ ~ scoped(r)
  /\ tokens' = tokens \ {<<req[r].user, req[r].code>>}
  /\ Return(r)
  /\ UNCHANGED <<mix, kvVars, twofa, historyVars>>

(* --- Time ------------------------------------------------------------------- *)

\* The keys of a session lapse together, SESSION_TTL after the login.  A record
\* that a refresh writes keeps the time that was left, so it lapses as well.
ExpireSession(s) ==
  /\ byId[s] # None
  /\ ~ \E r \in Requests : At(r, "put") /\ req[r].session = s
  /\ byId' = [byId EXCEPT ![s] = None]
  /\ byUser' = [u \in Users |-> IF byUser[u] = s THEN None ELSE byUser[u]]
  /\ listed' = listed \ {s}
  /\ UNCHANGED <<mix, otp, setup, states, dbVars, req, historyVars>>

\* TWO_FA_WINDOW_MS after twoFaVerifiedAt.
LapseSecondFactor(s) ==
  /\ byId[s] # None /\ byId[s].verified
  /\ byId' = [byId EXCEPT ![s].verified = FALSE]
  /\ UNCHANGED <<mix, byUser, listed, otp, setup, states, dbVars, req, historyVars>>

ExpireOTP(p, u) ==
  /\ otp[p][u] # NoOtp
  /\ otp' = [otp EXCEPT ![p][u] = NoOtp]
  /\ UNCHANGED <<mix, byId, byUser, listed, setup, states, dbVars, req, historyVars>>

ExpireSetup(u) ==
  /\ setup[u] # None
  /\ setup' = [setup EXCEPT ![u] = None]
  /\ UNCHANGED <<mix, byId, byUser, listed, otp, states, dbVars, req, historyVars>>

ExpireState(st) ==
  /\ st \in states
  /\ states' = states \ {st}
  /\ UNCHANGED <<mix, byId, byUser, listed, otp, setup, dbVars, req, historyVars>>

(* --- Specification ---------------------------------------------------------- *)

Init ==
  /\ mix \in Mixes
  /\ byId = [s \in SessionIds |-> None]
  /\ byUser = [u \in Users |-> None]
  /\ listed = {}
  /\ otp = [p \in Purposes |-> [u \in Users |-> NoOtp]]
  /\ setup = [u \in Users |-> None]
  /\ states = {}
  /\ twofa = [u \in Users |-> NoTotp]
  /\ tokens = {}
  /\ req = [r \in Requests |-> Idle]
  /\ owner = [s \in SessionIds |-> None]
  /\ revoked = {}
  /\ stepped = {}
  /\ shown = {}
  /\ drawn = {}
  /\ guesses = [c \in Codes |-> 0]
  /\ spent = [u \in Users |-> {}]

\* What a user may type as a code; None is a wrong one.
Typed == Codes \cup Secrets \cup BackupCodes \cup {None}

Login(r) ==
  \/ \E u \in Users : SendLoginCode(r, u) \/ OidcExchange(r, u)
  \/ \E u \in Users, c \in Typed : VerifyLogin(r, u, c)
  \/ OAuthLogin(r)
  \/ \E u \in Users, st \in States : OAuthCallback(r, u, st)

SecondFactor(r, s) ==
  \/ SendTwoFaCode(r, s) \/ SetupBegin(r, s)
  \/ \E c \in Typed : Verify2FA(r, s, c) \/ DisableBegin(r, s, c) \/ RegenerateBegin(r, s, c)
  \/ \E c \in Secrets : ConfirmBegin(r, s, c)

Account(r, s) ==
  \/ \E t \in SessionIds : RevokeBegin(r, s, t)
  \/ LogoutBegin(r, s)
  \/ \E t \in Tokens : TokenBegin(r, s, "createToken", t) \/ TokenBegin(r, s, "revokeToken", t)

Continue(r) ==
  \/ HasTotp(r) \/ CreateOTP(r) \/ GetOTP(r) \/ DiscardOTP(r) \/ Attempt(r) \/ ConsumeOTP(r)
  \/ FindFactor(r) \/ CheckTOTP(r) \/ GetBackupCodes(r) \/ PutBackupCodes(r)
  \/ SaveSetup(r) \/ GetSetup(r) \/ EnableTOTP(r) \/ DeleteSetup(r) \/ DisableTOTP(r)
  \/ RegenerateBackupCodes(r)
  \/ CreateState(r) \/ GetState(r) \/ ValidateState(r) \/ ExchangeCode(r)
  \/ CreateSession(r) \/ GetSession(r) \/ GetTarget(r) \/ ListUserSessions(r) \/ DeleteGet(r)
  \/ \E k \in SessionKeys : PutSession(r, k)
  \/ \E t \in SessionIds, k \in SessionKeys : DeleteKey(r, t, k)
  \/ Require2FA(r) \/ RefuseScoped(r) \/ CreateToken(r) \/ RevokeToken(r)

Time ==
  \/ \E s \in SessionIds : ExpireSession(s) \/ LapseSecondFactor(s)
  \/ \E u \in Users : ExpireSetup(u) \/ \E p \in Purposes : ExpireOTP(p, u)
  \/ \E st \in States : ExpireState(st)

Next ==
  \/ \E r \in Requests : Login(r) \/ Continue(r)
  \/ \E r \in Requests, s \in SessionIds \cup {None} : SecondFactor(r, s) \/ Account(r, s)
  \/ Time

Spec == Init /\ [][Next]_vars

(* --- Properties -------------------------------------------------------------- *)

Record == [user : Users, verified : BOOLEAN]

\* Every stored value has the shape its readers expect; in particular the
\* attempts of a one-time code never pass the limit they are compared with.
TypeOK ==
  /\ byId \in [SessionIds -> Record \cup {None}]
  /\ byUser \in [Users -> SessionIds \cup {None}]
  /\ listed \subseteq SessionIds
  /\ otp \in [Purposes -> [Users -> [code : Codes \cup {None}, attempts : 0 .. 3]]]
  /\ setup \in [Users -> Secrets \cup {None}]
  /\ states \subseteq States
  /\ twofa \in [Users -> [secret : Secrets \cup {None}, codes : SUBSET BackupCodes]]
  /\ tokens \subseteq Users \X Tokens

\* A session that is not being created or revoked and was never revoked is in
\* its user's list, which is where logout looks for the sessions to delete:
\* createSession writes the entry and the record in any order, a refresh
\* writes the record only, and requests of the user interleave with both.
NeverRevokedIsListed ==
  \A s \in SessionIds :
    /\ byId[s] # None /\ s \notin revoked
    /\ ~ \E r \in Requests : At(r, "put") /\ req[r].session = s
    => s \in listed

\* A session whose record is gone, by a logout, a revocation or its term, stays
\* gone, except that a refresh or a creation whose writes are under way as it
\* goes may bring it back: a second factor that is passed later finds no record
\* and writes none, and no identifier is used again.
isGone(s) == /\ owner[s] # None /\ byId[s] = None
             /\ ~ \E r \in Requests : At(r, "put") /\ req[r].session = s
GoneForGood == [][\A s \in SessionIds : isGone(s) => isGone(s)']_vars

\* A session counts as verified only after a right code was given beside its
\* cookie: a code of the current secret, a backup code of the list read, the
\* emailed code, or the code that confirmed a new secret.  The one who gave it
\* was the user of the session, unless the request had a Bearer token, which
\* decides the user while the cookie decides the session (twofa.ts:111); and no
\* refresh, however late it writes, marks a session another cookie names.
VerifiedWasEarned ==
  \A s \in SessionIds : byId[s] # None /\ byId[s].verified =>
    \E u \in Users, a \in Auths :
      /\ <<u, s, a>> \in stepped
      /\ a = "cookie" => u = owner[s]

\* The secret in the user's row is one the user has shown a code for, although
\* a new setup may replace the pending secret, or delete it, between the check
\* and the write of totp/confirm.
EnabledWasShown ==
  \A u \in Users : twofa[u].secret # None => <<u, twofa[u].secret>> \in shown

\* How often a code can be compared before the third counted attempt stops it:
\* with n requests at once a stale counter is written back so often that it is
\* C(n+3, 3) - 1 comparisons, 3 for one request at a time and 9 for two.
GuessBound == LET n == Cardinality(Requests) IN ((n + 1) * (n + 2) * (n + 3)) \div 6 - 1
GuessesAreBounded == \A c \in Codes : guesses[c] <= GuessBound

\* consumeBackupCode "returns true and removes it from the list if valid", so a
\* code that was used is not in the list again.  It can be: two requests that
\* read the same list each write it back without their own code only.
SpentBackupCodeIsGone == \A u \in Users : twofa[u].codes \cap spent[u] = {}
=============================================================================
