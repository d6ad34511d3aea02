------------------------ MODULE ClusterIntegrations ------------------------
(***************************************************************************)
(* What a cluster is linked to outside: the channels its notifications go  *)
(* to, the remotes its members connect, the GitHub installation.           *)
(*                                                                         *)
(* All of it is one JSON column, clusters.metadata, with a key for each    *)
(* link.  A setup replaces one key in one statement; a change of the       *)
(* subscribed events reads the key, awaits, and writes it back.  The       *)
(* GitHub installation is started by one request and finished by another,  *)
(* the redirect from GitHub, which knows its cluster only from a pending   *)
(* entry of the key-value store.  The notify job of services/background    *)
(* reads the links and sends; the owner it mails is looked up later.       *)
(***************************************************************************)
EXTENDS Clusters

CONSTANTS
  Setups,       (* the keys and settings the setup requests of the model    *)
                (* carry                                                    *)
  Changes,      (* the integrations and events the changes of the model     *)
                (* carry                                                    *)
  MailedAtStart, (* the first cluster has its mail switched on at the start *)
  Recipients,   (* the recipients a job of the model may name, or None      *)
  Events,       (* the events a cluster may be notified of                  *)
  DefaultEvents, (* DEFAULT_EVENTS                                          *)
  MailedEvents, (* the events buildEmail has a template for                 *)
  Installations (* the installations GitHub redirects with                  *)

Remotes  == {"gitLab", "bitBucket"}
Webhooks == {"discord", "slack", "customWebhook"}
Keys     == Remotes \cup Webhooks \cup {"webhook", "emailNotification", "gitHub"}

ASSUME IntegrationsAssumption ==
  /\ \A s \in Setups : s.key \in Keys /\ s.events \in (SUBSET Events) \cup {None}
  /\ \A s \in Changes : /\ s.integration \in {"discord", "slack", "webhook", "email"}
                        /\ s.events \subseteq Events
  /\ MailedAtStart \in BOOLEAN
  /\ Recipients \subseteq Users \cup {None}
  /\ DefaultEvents \subseteq Events /\ MailedEvents \subseteq Events
  /\ None \notin Installations

VARIABLES
  metadata,  (* clusters.metadata: the settings under each key              *)
  pending,   (* GITHUB.PENDING_INSTALL: the cluster of a user               *)
  sent       (* history: the messages sent last                             *)

linkVars == <<metadata, pending, sent>>

\* The settings under a key; by is history: the user they were written by.
Settings(address, enabled, events, by) ==
  [address |-> address, enabled |-> enabled, events |-> events, by |-> by]
NoSettings == Settings(None, FALSE, None, None)

Ask(r, op, by, c, what, pc) ==
  /\ At(r, "idle") /\ op \in mix.ops
  /\ req' = [req EXCEPT ![r] = [Idle EXCEPT !.op = op, !.by = by, !.cluster = c,
                                            !.seen = what, !.pc = pc]]
  /\ Read(r) /\ UNCHANGED linkVars
AskAs(r, op, by, c, what) == sessions[by] # None /\ Ask(r, op, by, c, what, "permission")

Links(r) == metadata[req[r].cluster]
Write(r, key, settings) ==
  metadata' = [metadata EXCEPT ![req[r].cluster][key] = [settings EXCEPT !.by = req[r].by]]

(* --- Setting up a channel or a remote --------------------------------------- *)

SetupBegin(r, by, c, s) == AskAs(r, "setup", by, c, s)

\* gitlab/setup and bitbucket/setup try the token first; the others do not.
TryAccess(r) ==
  /\ At(r, "tryAccess")
  /\ Goto(r, "writeSetup") \/ (req[r].seen.key \in Remotes /\ Return(r))
  /\ Read(r) /\ UNCHANGED linkVars

\* The chat and webhook channels get the default events when none are given.
subscribed(s) == IF s.key \in Webhooks /\ s.events = None THEN DefaultEvents ELSE s.events
WriteSetup(r) ==
  LET s == req[r].seen IN
  /\ At(r, "writeSetup")
  /\ Write(r, s.key, Settings(s.address, s.enabled, subscribed(s), None))
  /\ Return(r)
  /\ Read(r) /\ UNCHANGED <<pending, sent>>

(* --- Changing the subscribed events ------------------------------------------ *)

\* The key of an integration: "webhook" is used as it is, although webhook/setup
\* and the notifications use "customWebhook".
keyOf(integration) == IF integration = "email" THEN "emailNotification" ELSE integration

EventsBegin(r, by, c, change) == AskAs(r, "events", by, c, change)

GetSettings(r) ==
  LET key == keyOf(req[r].seen.integration) IN
  /\ At(r, "getSettings")
  /\ req' = [req EXCEPT ![r].pc = "putEvents",
               ![r].seen = [key |-> key, settings |-> [Links(r)[key] EXCEPT !.events = req[r].seen.events]]]
  /\ Read(r) /\ UNCHANGED linkVars

\* The settings read, with the new events, replace whatever is there by now.
PutEvents(r) ==
  /\ At(r, "putEvents")
  /\ Write(r, req[r].seen.key, req[r].seen.settings)
  /\ Return(r)
  /\ Read(r) /\ UNCHANGED <<pending, sent>>

(* --- The GitHub installation --------------------------------------------------- *)

InstallBegin(r, by, c) == AskAs(r, "install", by, c, None)

SetPending(r) ==
  /\ At(r, "setPending")
  /\ pending' = [pending EXCEPT ![req[r].by] = req[r].cluster]
  /\ Return(r)
  /\ Read(r) /\ UNCHANGED <<metadata, sent>>

\* The redirect from GitHub, with the cookie of a session or without one, and
\* without an installation when the user cancelled.
CallbackBegin(r, u, i) ==
  \/ sessions[u] # None /\ Ask(r, "callback", u, None, i, "getPending")
  \/ i # None /\ Ask(r, "callback", None, None, i, "getInstallation")

\* Variant with a bug: the key of the pending cluster does not name the user.
pendingOfAny(u) == IF \E v \in Users : pending[v] # None
                     THEN pending[CHOOSE v \in Users : pending[v] # None] ELSE None
pendingOf(u) == pending[u]

\* getPendingGitHubInstall; a request without an installation ends here, ...
GetPending(r) ==
  LET c == pendingOf(req[r].by) IN
  /\ At(r, "getPending")
  /\ IF req[r].seen = None /\ c = None THEN Return(r)
     ELSE req' = [req EXCEPT ![r].cluster = c,
                    ![r].pc = IF req[r].seen = None THEN "deletePending" ELSE "getInstallation"]
  /\ Read(r) /\ UNCHANGED linkVars

\* ... and one with an installation GitHub does not know, or with no cluster.
GetInstallation(r) ==
  /\ At(r, "getInstallation")
  /\ \/ IF req[r].cluster = None THEN Return(r) ELSE Goto(r, "deletePending")
     \/ /\ req[r].cluster # None
        /\ req' = [req EXCEPT ![r].seen = None, ![r].pc = "deletePending"]
     \/ Return(r)
  /\ Read(r) /\ UNCHANGED linkVars

\* deletePendingGitHubInstall removes whatever the user has pending by now.
DeletePending(r) ==
  /\ At(r, "deletePending")
  /\ pending' = [pending EXCEPT ![req[r].by] = None]
  /\ IF req[r].seen = None THEN Return(r) ELSE Goto(r, "link")
  /\ Read(r) /\ UNCHANGED <<metadata, sent>>

\* installGitHubIntegration.
Link(r) ==
  /\ At(r, "link")
  /\ Write(r, "gitHub", Settings(req[r].seen, TRUE, None, None))
  /\ Return(r)
  /\ Read(r) /\ UNCHANGED <<pending, sent>>

(* --- The notify job -------------------------------------------------------------- *)

\* A job for an event, with a recipient or without.
NotifyBegin(r, c, e, to) == Ask(r, "notify", None, c, [event |-> e, to |-> to], "listIntegrations")

\* isEventSubscribed, with the events listClusterIntegrations fills in.
isSubscribed(s, e) == s.enabled /\ e \in (IF s.events = None THEN DefaultEvents ELSE s.events)

Message(r, by, to) == [cluster |-> req[r].cluster, by |-> by, to |-> to,
                       asOwner |-> At(r, "mail") /\ req[r].seen.to = None]

\* triggerEvent: the channels are sent to at once; mail needs a recipient first.
ListIntegrations(r) ==
  LET e == req[r].seen.event
      told == {k \in Webhooks : Links(r)[k].address # None /\ isSubscribed(Links(r)[k], e)}
      mail == Links(r)["emailNotification"] IN
  /\ At(r, "listIntegrations")
  /\ sent' = {Message(r, Links(r)[k].by, Links(r)[k].address) : k \in told}
  /\ IF e \in MailedEvents /\ isSubscribed(mail, e)
       THEN req' = [req EXCEPT ![r].by = mail.by, ![r].user = req[r].seen.to,
                      ![r].pc = IF req[r].seen.to = None THEN "getRecipient" ELSE "mail"]
       ELSE Return(r)
  /\ Read(r) /\ UNCHANGED <<metadata, pending>>

\* Without a recipient the owner of the moment is mailed, if there is one.
GetRecipient(r) ==
  /\ At(r, "getRecipient")
  /\ IF owners(req[r].cluster) = {} THEN Return(r)
     ELSE \E u \in owners(req[r].cluster) :
            req' = [req EXCEPT ![r].user = u, ![r].pc = "mail"]
  /\ Read(r) /\ UNCHANGED linkVars

\* users.find: an owner whose account is gone has no address.
Mail(r) ==
  /\ At(r, "mail")
  /\ sent' = IF req[r].user \in accounts \/ req[r].seen.to # None
               THEN {Message(r, req[r].by, req[r].user)} ELSE {}
  /\ Return(r)
  /\ Read(r) /\ UNCHANGED <<metadata, pending>>

(* --- Specification ------------------------------------------------------------------ *)

IntegrationsInit ==
  /\ Init
  /\ metadata = [c \in ClusterIds |-> [k \in Keys |->
                  IF MailedAtStart /\ c = First /\ k = "emailNotification"
                    THEN Settings(None, TRUE, None, Founder) ELSE NoSettings]]
  /\ pending = [u \in Users |-> None]
  /\ sent = {}

IntegrationCall(r) ==
  \/ \E by \in Users, c \in created :
       \/ \E s \in Setups : SetupBegin(r, by, c, s)
       \/ \E change \in Changes : EventsBegin(r, by, c, change)
       \/ InstallBegin(r, by, c)
  \/ \E u \in Users, i \in Installations \cup {None} : CallbackBegin(r, u, i)
  \/ \E c \in created, e \in Events, to \in Recipients : NotifyBegin(r, c, e, to)

IntegrationStep(r) ==
  \/ TryAccess(r) \/ WriteSetup(r) \/ GetSettings(r) \/ PutEvents(r)
  \/ SetPending(r) \/ GetPending(r) \/ GetInstallation(r) \/ DeletePending(r) \/ Link(r)
  \/ ListIntegrations(r) \/ GetRecipient(r) \/ Mail(r)

IntegrationsNext ==
  \/ Next /\ UNCHANGED linkVars
  \/ \E r \in Requests : IntegrationCall(r) \/ IntegrationStep(r)

IntegrationsSpec == IntegrationsInit /\ [][IntegrationsNext]_<<vars, linkVars>>

(* --- Properties ---------------------------------------------------------------------- *)

\* Whatever a cluster is linked to was put there by a user who had a developer's
\* role in that very cluster, and a message goes only where such a user wanted
\* it, or to the recipient of the event; without one it goes to a user who owned
\* the cluster.  The settings a change of events writes back, the installation
\* the redirect attaches and the owner the job looks up are all of the right
\* cluster, whichever requests overlap.
LinkedByMembers ==
  /\ \A c \in ClusterIds, k \in Keys :
       metadata[c][k].by # None => <<metadata[c][k].by, c>> \in owned
  /\ \A m \in sent : /\ <<m.by, m.cluster>> \in owned
                     /\ m.asOwner => <<m.to, m.cluster>> \in owned

\* A change of the subscribed events leaves the rest of the settings alone, as
\* the merge with the current settings intends.  A setup that finishes between
\* its read and its write is undone.
EventsKeepTheChannel ==
  [][\A r \in Requests : At(r, "putEvents") /\ ~At(r, "putEvents")' =>
       LET key == req[r].seen.key  c == req[r].cluster IN
       /\ metadata'[c][key].address = metadata[c][key].address
       /\ metadata'[c][key].enabled = metadata[c][key].enabled]_<<vars, linkVars>>
=============================================================================
