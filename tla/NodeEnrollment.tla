--------------------------- MODULE NodeEnrollment ---------------------------
(***************************************************************************)
(* How an instance gets its row and its socket: bootstrap tokens and the   *)
(* keys they are signed with (services/auth/jwt.ts, kv/key.ts), the        *)
(* registration of a node (routes/domains.ts), its calls (routes/node.ts), *)
(* its WebSocket (services/websocket/index.ts) and what operators do with  *)
(* it (services/instances.ts, lib/instances, routes/admin/instances).      *)
(* A step is what runs between two awaits. Tokens carry the tag of an      *)
(* instance, records and rows its id, and a tag may be used again.         *)
(***************************************************************************)
EXTENDS ClientSockets

CONSTANTS
  Tags,         (* names of instances                                       *)
  Owners,       (* clusters that own dedicated instances                    *)
  EnrollCalls,  (* requests; each draws the id, nonce and key pair it needs *)
  First         (* who made what was there in the beginning                 *)

Makers == EnrollCalls \cup {First}

ASSUME EnrollmentAssumption ==
  /\ First \notin EnrollCalls
  /\ None \notin Makers \cup Tags \cup Owners \cup [nonce : Makers, used : BOOLEAN]

VARIABLES
  keys,          (* AUTH.JWT_KEYS: who generated the pair; has it a kid     *)
  rows,          (* instances, by tag                                       *)
  records,       (* bootstrap_tokens, by instance_id                        *)
  tokens,        (* the tokens that nodes and users were given              *)
  expired,       (* those of them that have expired                         *)
  calls,         (* the requests                                            *)
  connections,   (* the node connections of a tag, by the upgrade request   *)
  addresses,     (* DOMAIN.BY_NAME: the tags that have an address           *)
  registrations  (* history: how often a nonce registered an instance       *)

enrollVars == <<keys, rows, records, tokens, expired, calls, connections, addresses,
                registrations>>

Operations == {"create", "vm", "spawn", "addPool", "removePool", "rotate", "register",
               "saveDomain", "nodeToken", "postCert", "putCert", "upgrade", "delete",
               "install", "reboot", "restart"}
Beginnings == {"fresh", "installed", "enrolled"}

Row(id, owner, address) == [id |-> id, owner |-> owner, address |-> address, cert |-> None]
Token(type, t, nonce, pair, by) ==
  [type |-> type, tag |-> t, nonce |-> nonce, pair |-> pair, by |-> by]
Call(op, at, t, owner, token) ==
  [op |-> op, at |-> at, tag |-> t, owner |-> owner, token |-> token, id |-> None,
   private |-> None, public |-> None]
Installed == [pair |-> First, kid |-> TRUE]

\* What was there in the beginning is at most a key pair and one instance.
EnrollInit(begin) ==
  /\ keys = IF begin = "fresh" THEN None ELSE Installed
  /\ \E first \in Tags :
       /\ rows = [t \in Tags |-> IF begin = "enrolled" /\ t = first
                                THEN Row(First, None, TRUE) ELSE None]
       /\ tokens = IF begin = "enrolled"
                   THEN {Token("bootstrap", first, First, First, First)} ELSE {}
  /\ records = [i \in Makers |-> IF begin = "enrolled" /\ i = First
                                 THEN [nonce |-> First, used |-> FALSE] ELSE None]
  /\ expired = {}
  /\ calls = [q \in EnrollCalls |-> Call(None, "new", None, None, None)]
  /\ connections = [t \in Tags |-> {}]
  /\ addresses = {}
  /\ registrations = [n \in Makers |-> 0]

At(q, at) == calls[q].at = at
Goto(q, at) == calls' = [calls EXCEPT ![q].at = at]
\* The request goes on when ok, and is answered with an error otherwise.
Proceed(q, ok, at) == Goto(q, IF ok THEN at ELSE "refused")
rowOf(q) == rows[calls[q].tag]
live(id) == \E t \in Tags : rows[t] # None /\ rows[t].id = id
hasNode(t) == connections[t] # {}

(* --- Requests -------------------------------------------------------------- *)

\* A request that passes its validation; one that does not changes nothing.
Request(q, op, at, t, owner, token) ==
  /\ At(q, "new")
  /\ calls' = [calls EXCEPT ![q] = Call(op, at, t, owner, token)]
  /\ UNCHANGED <<keys, rows, records, tokens, expired, connections, addresses, registrations>>

CreateRequest(q, t, o) == Request(q, "create", "insert", t, o, None)
CreateVm(q, t)         == Request(q, "vm", "private", t, None, None)
\* spawnBuildNode asks the provider for a droplet of the name, not the table.
SpawnBuildNode(q, t)   == Request(q, "spawn", "private", t, None, None)
AddPoolRequest(q, t)   == Request(q, "addPool", "addPool", t, None, None)
RemovePoolRequest(q, t) == Request(q, "removePool", "removePool", t, None, None)
RotateRequest(q, t, k) == Request(q, "rotate", "verify", t, None, k)
RegisterRequest(q, k)  == Request(q, "register", "verify", k.tag, None, k)
DomainRequest(q, t)    == Request(q, "saveDomain", "saveDomain", t, None, None)
TokenRequest(q, k)     == Request(q, "nodeToken", "verify", k.tag, None, k)
CertRequest(q, op, t, k) == op \in {"postCert", "putCert"} /\ Request(q, op, "verify", t, None, k)
UpgradeRequest(q, t, k) == Request(q, "upgrade", "resolve", t, None, k)
DeleteRequest(q, t)    == Request(q, "delete", "find", t, None, None)
\* An administrator may leave out the cluster.
InstallRequest(q, t, o) == Request(q, "install", "find", t, o, None)
                             \/ Request(q, "install", "find", t, None, None)
RebootRequest(q, t, o)  == Request(q, "reboot", "find", t, o, None)
RestartRequest(q, t, o) == Request(q, "restart", "find", t, o, None)

Begin(q, op) ==
  \E t \in Tags :
    \/ op = "vm" /\ CreateVm(q, t)
    \/ op = "spawn" /\ SpawnBuildNode(q, t)
    \/ op = "addPool" /\ AddPoolRequest(q, t)
    \/ op = "removePool" /\ RemovePoolRequest(q, t)
    \/ op = "delete" /\ DeleteRequest(q, t)
    \/ op = "saveDomain" /\ DomainRequest(q, t)
    \/ \E o \in Owners : \/ op = "create" /\ CreateRequest(q, t, o)
                         \/ op = "install" /\ InstallRequest(q, t, o)
                         \/ op = "reboot" /\ RebootRequest(q, t, o)
                         \/ op = "restart" /\ RestartRequest(q, t, o)
    \/ \E k \in tokens : \/ op = "rotate" /\ RotateRequest(q, t, k)
                         \/ op = "upgrade" /\ UpgradeRequest(q, t, k)
                         \/ op = "register" /\ RegisterRequest(q, k)
                         \/ op = "nodeToken" /\ TokenRequest(q, k)
                         \/ CertRequest(q, op, t, k)

\* createInstance inserts the row before anything else; the tag is UNIQUE.
InsertInstance(q) ==
  /\ At(q, "insert")
  /\ IF rowOf(q) = None
     THEN /\ \E known \in BOOLEAN :
               rows' = [rows EXCEPT ![calls[q].tag] = Row(q, calls[q].owner, known)]
          /\ calls' = [calls EXCEPT ![q].at = "private", ![q].id = q]
     ELSE Goto(q, "refused") /\ UNCHANGED rows
  /\ UNCHANGED <<keys, records, tokens, expired, connections, addresses, registrations>>

\* addPool, of an administrator or of spawnBuildNode: an upsert by tag, which
\* keeps the id and replaces the metadata.
AddPoolInstance(q) ==
  LET t == calls[q].tag IN
  /\ At(q, "addPool")
  /\ rows' = [rows EXCEPT ![t] = IF @ = None THEN Row(q, None, calls[q].op = "addPool")
                                 ELSE [@ EXCEPT !.cert = None]]
  /\ calls' = [calls EXCEPT ![q].id = rows'[t].id,
                            ![q].at = IF calls[q].op = "spawn" THEN "record" ELSE "answered"]
  /\ UNCHANGED <<keys, records, tokens, expired, connections, addresses, registrations>>

(* --- Keys and tokens ------------------------------------------------------- *)

\* getPrivateKey: getOrCreateKeys reads the pair, or generates its own, ...
GetPrivateKey(q) ==
  /\ At(q, "private")
  /\ calls' = [calls EXCEPT ![q].private = IF keys = None THEN q ELSE keys.pair,
                            ![q].at = IF keys = None THEN "putKeys" ELSE "public"]
  /\ UNCHANGED <<keys, rows, records, tokens, expired, connections, addresses, registrations>>
\* ... which it puts later, without a kid.
PutKeys(q) ==
  /\ At(q, "putKeys") /\ Goto(q, "public")
  /\ keys' = [pair |-> q, kid |-> FALSE]
  /\ UNCHANGED <<rows, records, tokens, expired, connections, addresses, registrations>>

\* getPublicKey, to sign or to verify: a pair without a kid is written back with
\* one, whichever pair is stored by then.
GetPublicKey(q) ==
  /\ calls[q].at \in {"public", "verify"}
  /\ calls' = [calls EXCEPT ![q].public = keys.pair,
       ![q].at = CASE At(q, "public") /\ keys.kid -> "signed"
                   [] At(q, "public") /\ ~keys.kid -> "signedKid"
                   [] At(q, "verify") /\ keys.kid -> "verified"
                   [] At(q, "verify") /\ ~keys.kid -> "verifiedKid"]
  /\ UNCHANGED <<keys, rows, records, tokens, expired, connections, addresses, registrations>>
PutKid(q) ==
  /\ \/ At(q, "signedKid") /\ Goto(q, "signed")
     \/ At(q, "verifiedKid") /\ Goto(q, "verified")
  /\ keys' = [pair |-> calls[q].public, kid |-> TRUE]
  /\ UNCHANGED <<rows, records, tokens, expired, connections, addresses, registrations>>

\* createBootstrapToken: the token of a new instance is verified before use.
SignBootstrapToken(q) ==
  /\ At(q, "signed") /\ calls[q].op \in {"create", "vm", "spawn"}
  /\ calls' = [calls EXCEPT ![q].at = "verify",
       ![q].token = Token("bootstrap", calls[q].tag, q, calls[q].private, q)]
  /\ UNCHANGED <<keys, rows, records, tokens, expired, connections, addresses, registrations>>
Answer(q, token) ==
  /\ Goto(q, "answered")
  /\ tokens' = tokens \cup {token}
  /\ UNCHANGED <<keys, rows, records, expired, connections, addresses, registrations>>
\* rotateBootstrapToken keeps the nonce.
RotateBootstrapToken(q) ==
  /\ At(q, "signed") /\ calls[q].op = "rotate"
  /\ Answer(q, Token("bootstrap", calls[q].tag, calls[q].token.nonce, calls[q].private, q))
CreateNodeAccessToken(q) ==
  /\ At(q, "signed") /\ calls[q].op = "nodeToken"
  /\ Answer(q, Token("node", calls[q].tag, None, calls[q].private, q))

\* verifyToken, or verifyTokenIgnoringExpiry for rotate and for the exchange of
\* node tokens, which only minds the expiry of tokens of its own type.
mayHaveExpired(q) ==
  calls[q].op = "rotate" \/ (calls[q].op = "nodeToken" /\ calls[q].token.type # "node")
verifies(q) ==
  /\ calls[q].token.pair = calls[q].public
  /\ calls[q].token \in expired => mayHaveExpired(q)
  /\ calls[q].op \in {"register", "rotate"} => calls[q].token.type = "bootstrap"
  /\ calls[q].op = "upgrade" => calls[q].token.tag = calls[q].tag
Verified(q) ==
  /\ At(q, "verified")
  /\ Proceed(q, verifies(q),
       CASE calls[q].op \in {"create", "vm"} -> "record" [] calls[q].op = "spawn" -> "droplet"
         [] calls[q].op = "register" -> "markUsed" [] calls[q].op = "upgrade" -> "accept"
         [] OTHER -> "find")
  /\ UNCHANGED <<keys, rows, records, tokens, expired, connections, addresses, registrations>>

\* The droplet boots with its token, before its row is there; or is not created.
CreateBuildDroplet(q) ==
  /\ At(q, "droplet")
  /\ \/ Goto(q, "addPool") /\ tokens' = tokens \cup {calls[q].token}
     \/ Goto(q, "refused") /\ UNCHANGED tokens
  /\ UNCHANGED <<keys, rows, records, expired, connections, addresses, registrations>>

recordable(id) == live(id) /\ records[id] = None

\* bootstrapTokens.create: instance_id is the primary key and references a row.
\* The answer carries the token. The id that the vm route draws has no row.
RecordToken(q) ==
  LET id == IF calls[q].op = "vm" THEN q ELSE calls[q].id IN
  /\ At(q, "record") /\ Proceed(q, recordable(id), "created")
  /\ IF recordable(id)
     THEN /\ records' = [records EXCEPT ![id] = [nonce |-> q, used |-> FALSE]]
          /\ tokens' = tokens \cup {calls[q].token}
     ELSE UNCHANGED <<records, tokens>>
  /\ UNCHANGED <<keys, rows, expired, connections, addresses, registrations>>

Expire(k) ==
  /\ k \in tokens \ expired
  /\ expired' = expired \cup {k}
  /\ UNCHANGED <<keys, rows, records, tokens, calls, connections, addresses, registrations>>

(* --- Registration ---------------------------------------------------------- *)

\* Variant with a bug: markUsed does not look at used_at.
spendableAgain(nonce) == {i \in Makers : records[i] # None /\ records[i].nonce = nonce}
spendable(nonce) == {i \in Makers : /\ records[i] # None /\ records[i].nonce = nonce
                                    /\ ~records[i].used}

\* markUsed: UPDATE ... WHERE nonce = $2 AND used_at IS NULL.
MarkUsed(q) ==
  LET nonce == calls[q].token.nonce IN
  /\ At(q, "markUsed") /\ Proceed(q, spendable(nonce) # {}, "saveDomain")
  /\ records' = [i \in Makers |-> IF i \in spendable(nonce)
                                  THEN [records[i] EXCEPT !.used = TRUE] ELSE records[i]]
  /\ registrations' = [registrations EXCEPT
       ![nonce] = IF spendable(nonce) # {} THEN @ + 1 ELSE @]
  /\ UNCHANGED <<keys, rows, tokens, expired, connections, addresses>>
\* saveDomain: without an address in the row the provider is asked, which may
\* not know one. The nonce is spent all the same.
SaveDomain(q) ==
  /\ At(q, "saveDomain")
  /\ \E found \in BOOLEAN :
       LET ok == rowOf(q) # None /\ (rowOf(q).address \/ found) IN
       /\ Proceed(q, ok, "registered")
       /\ addresses' = IF ok THEN addresses \cup {calls[q].tag} ELSE addresses
  /\ UNCHANGED <<keys, rows, records, tokens, expired, connections, registrations>>

(* --- The calls of nodes and operators -------------------------------------- *)

\* The row is found and what the request demands of it checked.
Find(q, ops, ok, next) ==
  /\ At(q, "find") /\ calls[q].op \in ops
  /\ LET found == rowOf(q) # None /\ ok IN
     calls' = [calls EXCEPT ![q].id = IF found THEN rowOf(q).id ELSE None,
                            ![q].at = IF found THEN next ELSE "refused"]
  /\ UNCHANGED <<keys, rows, records, tokens, expired, connections, addresses, registrations>>
ofToken(q) == calls[q].token.tag = calls[q].tag

FindToRotate(q) == Find(q, {"rotate"}, ofToken(q), "private")
FindToRefresh(q) == Find(q, {"nodeToken"}, TRUE, "private")
FindToCertify(q) ==
  Find(q, {"postCert", "putCert"},
       ofToken(q) /\ (calls[q].op = "postCert" => rowOf(q).cert = None), "update")
FindToDelete(q) == Find(q, {"delete"}, TRUE, "remove")
FindToInstall(q) ==
  Find(q, {"install"}, calls[q].owner \in {None, rowOf(q).owner} /\ hasNode(calls[q].tag), "private")
FindToReboot(q) ==
  Find(q, {"reboot"}, rowOf(q).owner = calls[q].owner /\ hasNode(calls[q].tag), "private")
FindToRestart(q) ==
  Find(q, {"restart"}, rowOf(q).owner = calls[q].owner /\ hasNode(calls[q].tag), "private")

\* The metadata that were read are written back with the certificate in them.
UpdateCert(q) ==
  /\ At(q, "update") /\ Goto(q, "answered")
  /\ rows' = [t \in Tags |-> IF rows[t] # None /\ rows[t].id = calls[q].id
                             THEN [rows[t] EXCEPT !.cert = q] ELSE rows[t]]
  /\ UNCHANGED <<keys, records, tokens, expired, connections, addresses, registrations>>

\* The instance token is signed and the task sent; the socket may be gone by now.
SendOperatorTask(q, op) ==
  /\ At(q, "signed") /\ calls[q].op = op
  /\ Proceed(q, hasNode(calls[q].tag), "sent")
  /\ UNCHANGED <<keys, rows, records, tokens, expired, connections, addresses, registrations>>
InstallDployr(q)  == SendOperatorTask(q, "install")
RebootInstance(q) == SendOperatorTask(q, "reboot")
RestartDaemon(q)  == SendOperatorTask(q, "restart")

\* The row and, by ON DELETE CASCADE, its record.
Delete(id) ==
  /\ rows' = [t \in Tags |-> IF rows[t] # None /\ rows[t].id = id THEN None ELSE rows[t]]
  /\ records' = [records EXCEPT ![id] = None]
DeleteInstance(q) ==
  /\ At(q, "remove") /\ Goto(q, "evict")
  /\ Delete(calls[q].id)
  /\ UNCHANGED <<keys, tokens, expired, connections, addresses, registrations>>
EvictNodeByTag(q) ==
  /\ At(q, "evict") /\ Goto(q, "answered")
  /\ connections' = [connections EXCEPT ![calls[q].tag] = {}]
  /\ UNCHANGED <<keys, rows, records, tokens, expired, addresses, registrations>>
\* An administrator removes a pool instance, and its sockets stay.
RemovePoolInstance(q) ==
  /\ At(q, "removePool") /\ Goto(q, "answered")
  /\ IF rowOf(q) # None /\ rowOf(q).owner = None
     THEN Delete(rowOf(q).id) ELSE UNCHANGED <<rows, records>>
  /\ UNCHANGED <<keys, tokens, expired, connections, addresses, registrations>>

(* --- The WebSocket of a node ----------------------------------------------- *)

\* The instance is resolved first, the token verified after that.
ResolveConnection(q) ==
  /\ At(q, "resolve")
  /\ Proceed(q, rowOf(q) # None, "verify")
  /\ UNCHANGED <<keys, rows, records, tokens, expired, connections, addresses, registrations>>
AcceptWebSocket(q) ==
  /\ At(q, "accept") /\ Goto(q, "connected")
  /\ connections' = [connections EXCEPT ![calls[q].tag] = @ \cup {q}]
  /\ UNCHANGED <<keys, rows, records, tokens, expired, addresses, registrations>>
SocketCloses(q) ==
  /\ At(q, "connected") /\ Goto(q, "closed")
  /\ connections' = [connections EXCEPT ![calls[q].tag] = @ \ {q}]
  /\ UNCHANGED <<keys, rows, records, tokens, expired, addresses, registrations>>

EnrollStep(q, op) ==
  \/ Begin(q, op)
  \/ InsertInstance(q) \/ AddPoolInstance(q) \/ GetPrivateKey(q) \/ PutKeys(q)
  \/ GetPublicKey(q) \/ PutKid(q) \/ SignBootstrapToken(q) \/ RotateBootstrapToken(q)
  \/ CreateNodeAccessToken(q) \/ Verified(q) \/ CreateBuildDroplet(q) \/ RecordToken(q)
  \/ MarkUsed(q) \/ SaveDomain(q)
  \/ FindToRotate(q) \/ FindToRefresh(q) \/ FindToCertify(q) \/ FindToDelete(q)
  \/ FindToInstall(q) \/ FindToReboot(q) \/ FindToRestart(q)
  \/ UpdateCert(q) \/ InstallDployr(q) \/ RebootInstance(q) \/ RestartDaemon(q)
  \/ DeleteInstance(q) \/ EvictNodeByTag(q) \/ RemovePoolInstance(q)
  \/ ResolveConnection(q) \/ AcceptWebSocket(q) \/ SocketCloses(q)
EnrollEvent == \E k \in tokens : Expire(k)

(* --- Properties ------------------------------------------------------------ *)

\* A bootstrap token enrolls its instance, and once: as long as the row of a
\* creation that succeeded is there, so is the record that its token needs, and
\* a nonce registers at most once, however often its token is rotated, presented
\* or its tag used again.
TokensEnrollOnce ==
  /\ \A q \in EnrollCalls :
       At(q, "created") /\ live(calls[q].id) =>
         records[calls[q].id] # None /\ records[calls[q].id].nonce = q
  /\ \A n \in Makers : registrations[n] <= 1

\* The key pair is stored indefinitely. It is not: two first callers generate
\* one each, and the later put makes the tokens of the other worthless.
KeysAreKept == [][keys # None => keys'.pair = keys.pair]_keys

\* A node whose nonce was spent was registered, or still may be. It is not: the
\* address is looked up after the nonce was spent, and may not be known yet.
SpentWasAnswered ==
  \A q \in EnrollCalls : calls[q].op = "register" /\ At(q, "refused") =>
    \/ registrations[calls[q].token.nonce] = 0
    \/ \E p \in EnrollCalls \ {q} : calls[p].op = "register"

\* A node that is connected has a row. It need not: a socket is accepted after
\* the eviction when its instance was found before, and removePool evicts none.
ConnectedHasRow ==
  \A t \in Tags : hasNode(t) /\ (\A q \in EnrollCalls : ~At(q, "evict")) => rows[t] # None
=============================================================================
