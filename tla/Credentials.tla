---------------------------- MODULE Credentials ----------------------------
(* The Google account of one device: the credential in the Keychain, the      *)
(* client secret beside it, the encrypted envelope of earlier versions, the   *)
(* access tokens TokenManager refreshes, and the commands that connect,       *)
(* import, forget and revoke an account while requests are under way.         *)
(*                                                                            *)
(* A grant is what the user gives the program on Google's consent page, for   *)
(* one account; a refresh token stands for it.  Keychain accesses complete at *)
(* once.                                                                      *)
EXTENDS Naturals, Sequences

CONSTANTS
  Task,        \* requests and commands under way at the same time
  Account,     \* Google accounts of the user
  Client,      \* OAuth clients, each for its client ID and for its secret
  FirstClient, \* the one configured at first
  Bundles,     \* pairing bundles: the client, whether its secret and the
               \* account's address are in it
  None,
  Unknown,
  Attempts,    \* requests sent for one call: 6 in drive-client.ts
  Token,       \* numbers for access tokens
  MaxCommands, \* bound of what the user does, ...
  MaxFaults    \* ... and of failed requests and disk writes, tokens that end
               \* early, and restarts

ASSUME CredentialsAssumption ==
  /\ {Attempts, MaxCommands, MaxFaults} \subseteq Nat
  /\ Token \subseteq Nat
  /\ Bundles \subseteq [client : Client, secret : BOOLEAN, named : BOOLEAN]
  /\ FirstClient \in Client
  /\ None \notin Account \cup Client \cup Task \cup Nat
  /\ Unknown \notin Nat \cup {None}

VARIABLES
  keychain,        \* the credential in the Keychain, or None
  clientId,        \* the client ID in the settings
  clientSecret,    \* the client whose secret is in the Keychain, or None
  legacy,          \* the envelope in memory and on disk, and whether the chain
                   \* of disk writes is broken
  refreshInFlight, \* the credential TokenManager is refreshing, or None
  task,            \* what each task does, or None
  activeSession,   \* the task whose consent page DesktopOAuthService can cancel
  owner,           \* Google: the account of each grant, ...
  live,            \* ... the grants not revoked, ...
  issued,          \* ... the grant of each access token, ...
  honoured,        \* ... and the tokens it accepts
  aged,            \* the tokens this device counts as expired
  latest,          \* the grant the last command left here, None or Unknown
  raced,           \* a command replaced the credential while another task or
                   \* the refresh held an older copy
  spent            \* how much of the bounds is used

configured == <<clientId, clientSecret>>
deviceVars == <<keychain, configured, legacy, refreshInFlight, task,
                activeSession>>
googleVars == <<owner, live, issued, honoured, aged>>
ghostVars == <<latest, raced, spent>>
vars == <<deviceVars, googleVars, ghostVars>>

Credential == [grant : Nat \ {0}, token : Token \cup {None}, client : Client,
               secret : Client \cup {None}, email : Account \cup {None}]

\* What a task holds: until the user consents, a credential of no grant.
Copy == [grant : Nat, token : Token \cup {None}, client : Client,
         secret : Client \cup {None}, email : Account \cup {None}]

ASSUME NoneIsNoCredential == None \notin Credential \cup Copy

Holds(t, at) == task[t] # None /\ task[t].at = at

NewTask(does, at, cred) ==
  [does |-> does, at |-> at, cred |-> cred, token |-> None, tries |-> 0,
   refused |-> {}]

Begin(t, does, at, cred) == task' = [task EXCEPT ![t] = NewTask(does, at, cred)]

Goto(t, at) == task' = [task EXCEPT ![t].at = at]

End(t) == task' = [task EXCEPT ![t] = None]

Spend(what, bound) ==
  /\ spent[what] < bound
  /\ spent' = [spent EXCEPT ![what] = @ + 1]

Fault == Spend("faults", MaxFaults)

Busy == {t \in Task : task[t] # None}

Copies ==
  ({keychain, refreshInFlight} \cup {task[t].cred : t \in Busy}) \ {None}

\* Another task or the refresh holds a credential and may save it later.
CopiesOut(t) ==
  \/ refreshInFlight # None
  \/ \E u \in Task \ {t} :
       task[u] # None /\ task[u].does # "forget" /\ task[u].cred # None

\* A command of t replaces what the Keychain holds.
Replace(t, grant) ==
  /\ latest' = grant
  /\ raced' = (raced \/ CopiesOut(t))

FirstCredential ==
  [grant |-> 1, token |-> None, client |-> FirstClient, secret |-> FirstClient,
   email |-> None]

\* Google authenticates the client: its secret comes with the request.
Authentic(c) == c.secret = c.client

\* migrateLegacyCredentials, once the application has started: an envelope that
\* is still there is cleared, or moved once the user enters the passphrase.
Startup(credential, envelope) ==
  IF envelope = None THEN None
  ELSE IF credential # None THEN NewTask("tidy", "clear", None)
  ELSE NewTask("migrate", "prompt", None)

Starting(credential, envelope) ==
  {[u \in Task |-> IF u = t THEN Startup(credential, envelope) ELSE None] :
     t \in Task}

\* An account connected earlier, by this version or by one with the envelope.
Init ==
  /\ keychain \in {None, FirstCredential}
  /\ clientId = FirstClient
  /\ clientSecret = FirstClient
  /\ legacy = LET envelope == IF keychain = None THEN FirstCredential ELSE None
              IN [cache |-> envelope, disk |-> envelope, broken |-> FALSE]
  /\ refreshInFlight = None
  /\ task \in Starting(keychain, legacy.cache)
  /\ activeSession = None
  /\ \E a \in Account : owner = <<a>>
  /\ live = {1}
  /\ issued = [n \in Token |-> 0]
  /\ honoured = {}
  /\ aged = {}
  /\ latest = 1
  /\ raced = FALSE
  /\ spent = [commands |-> 0, faults |-> 0]

----------------------------------------------------------------------------
(* GoogleDriveClient.rawRequest and TokenManager.getAccessToken *)

HasFreshToken(c) == c.token # None /\ c.token \notin aged

\* Mutant of Ask: a refused token is not told from a fresh one.
AskFresh(t, r, c) ==
  IF HasFreshToken(c)
  THEN /\ task' = [task EXCEPT ![t] = [r EXCEPT !.at = "sent",
                                              !.token = c.token]]
       /\ UNCHANGED refreshInFlight
  ELSE /\ task' = [task EXCEPT ![t] = [r EXCEPT !.at = "wait", !.token = None]]
       /\ refreshInFlight' = IF refreshInFlight = None THEN c
                             ELSE refreshInFlight

\* rawRequest sends the request of t, described by r, with a token of the
\* credential c.  A fresh one is used unless Drive has refused one to this
\* request; otherwise the request starts a refresh, or joins the one in flight.
Ask(t, r, c) ==
  IF r.refused = {} /\ HasFreshToken(c)
  THEN /\ task' = [task EXCEPT ![t] = [r EXCEPT !.at = "sent",
                                              !.token = c.token]]
       /\ UNCHANGED refreshInFlight
  ELSE /\ task' = [task EXCEPT ![t] = [r EXCEPT !.at = "wait", !.token = None]]
       /\ refreshInFlight' = IF refreshInFlight = None THEN c
                             ELSE refreshInFlight

\* A request of a synchronization or of a list of vaults.
StartRequest(t) ==
  /\ task[t] = None
  /\ keychain # None
  /\ Ask(t, NewTask("request", "ask", None), keychain)
  /\ UNCHANGED <<keychain, configured, legacy, activeSession, googleVars,
                 ghostVars>>

\* The settings tab shows the account; without its address, Drive is asked.
OpenSettings(t) ==
  /\ task[t] = None
  /\ keychain # None
  /\ keychain.email = None
  /\ Ask(t, NewTask("profile", "ask", keychain), keychain)
  /\ UNCHANGED <<keychain, configured, legacy, activeSession, googleVars,
                 ghostVars>>

\* Google issues the access token n for a grant.  A number nothing refers to any
\* more stands for another token than before.
InUse ==
  {c.token : c \in Copies} \cup
    UNION {{task[t].token} \cup task[t].refused : t \in Busy}

Issue(n, grant) ==
  /\ n \in Token \ InUse
  /\ n = CHOOSE m \in Token \ InUse : TRUE
  /\ issued' = [issued EXCEPT ![n] = grant]
  /\ honoured' = (honoured \cap InUse) \cup {n}
  /\ aged' = aged \cap InUse

\* Mutant of RefreshGranted: the new token goes into what the Keychain holds.
RefreshMerged ==
  /\ refreshInFlight # None
  /\ refreshInFlight.grant \in live
  /\ Authentic(refreshInFlight)
  /\ keychain # None
  /\ \E n \in Token :
       /\ Issue(n, refreshInFlight.grant)
       /\ keychain' = [keychain EXCEPT !.token = n]
       /\ task' = [t \in Task |->
                     IF Holds(t, "wait")
                     THEN [task[t] EXCEPT !.at = "sent", !.token = n]
                     ELSE task[t]]
  /\ refreshInFlight' = None
  /\ UNCHANGED <<configured, legacy, activeSession, owner, live, ghostVars>>

\* The refreshed copy is saved, whatever the Keychain holds meanwhile.
RefreshGranted ==
  /\ refreshInFlight # None
  /\ refreshInFlight.grant \in live
  /\ Authentic(refreshInFlight)
  /\ \E n \in Token :
       /\ Issue(n, refreshInFlight.grant)
       /\ keychain' = [refreshInFlight EXCEPT !.token = n]
       /\ task' = [t \in Task |->
                     IF Holds(t, "wait")
                     THEN [task[t] EXCEPT !.at = "sent", !.token = n]
                     ELSE task[t]]
  /\ refreshInFlight' = None
  /\ UNCHANGED <<configured, legacy, activeSession, owner, live, ghostVars>>

\* What t does once its request has ended: connect removes the envelope of
\* earlier versions.
Rest(t) ==
  IF task[t].does = "connect" /\ legacy.cache # None
  THEN NewTask("tidy", "clear", None) ELSE None

\* The requests of these tasks fail.  Without the account's address, connect
\* saves its credential again.
Fail(tasks) ==
  LET Connecting == {t \in tasks : task[t].does = "connect"} IN
    /\ task' = [t \in Task |-> IF t \in tasks THEN Rest(t) ELSE task[t]]
    /\ IF Connecting = {} THEN UNCHANGED keychain
       ELSE \E t \in Connecting : keychain' = task[t].cred

\* The grant is revoked, the client is not authenticated, or the request fails.
RefreshFails ==
  /\ refreshInFlight # None
  /\ \/ /\ refreshInFlight.grant \in live => ~Authentic(refreshInFlight)
        /\ UNCHANGED spent
     \/ Fault
  /\ Fail({t \in Task : Holds(t, "wait")})
  /\ refreshInFlight' = None
  /\ UNCHANGED <<configured, legacy, activeSession, googleVars, latest,
                 raced>>

\* Another attempt of the request r of t, as long as there is one.
Again(t, r) ==
  IF r.tries + 1 < Attempts /\ keychain # None
  THEN /\ Ask(t, [r EXCEPT !.tries = @ + 1], keychain)
       /\ UNCHANGED keychain
  ELSE /\ Fail({t})
       /\ UNCHANGED refreshInFlight

\* Mutant of Refused: no refresh is forced.
RefusedForGood(t) ==
  /\ Holds(t, "sent")
  /\ task[t].token \notin honoured
  /\ Fail({t})
  /\ UNCHANGED <<configured, legacy, refreshInFlight, activeSession,
                 googleVars, ghostVars>>

\* Drive refuses the token: the first time a refresh is forced.
Refused(t) ==
  /\ Holds(t, "sent")
  /\ task[t].token \notin honoured
  /\ IF task[t].refused = {}
     THEN Again(t, [task[t] EXCEPT !.refused = {task[t].token}])
     ELSE Fail({t}) /\ UNCHANGED refreshInFlight
  /\ UNCHANGED <<configured, legacy, activeSession, googleVars, ghostVars>>

\* The network fails, or Drive is overloaded: another attempt after a delay.
Unanswered(t) ==
  /\ Holds(t, "sent")
  /\ Fault
  /\ Goto(t, "delay")
  /\ UNCHANGED <<keychain, configured, legacy, refreshInFlight,
                 activeSession, googleVars, latest, raced>>

Retry(t) ==
  /\ Holds(t, "delay")
  /\ Again(t, task[t])
  /\ UNCHANGED <<configured, legacy, activeSession, googleVars, ghostVars>>

\* The address of the account is saved in the copy the task holds.
Answered(t) ==
  /\ Holds(t, "sent")
  /\ task[t].token \in honoured
  /\ task' = [task EXCEPT ![t] = Rest(t)]
  /\ keychain' = IF task[t].does = "request" THEN keychain
                 ELSE [task[t].cred EXCEPT
                         !.email = owner[issued[task[t].token]]]
  /\ UNCHANGED <<configured, legacy, refreshInFlight, activeSession,
                 googleVars, ghostVars>>

----------------------------------------------------------------------------
(* Connecting an account: DesktopOAuthService and VaultBridgePlugin.connect *)

Command == Spend("commands", MaxCommands)

\* A new attempt cancels the one whose consent page is open.
Cancelled ==
  IF activeSession # None /\ Holds(activeSession, "consent")
  THEN {activeSession} ELSE {}

Connect(t) ==
  /\ task[t] = None
  /\ Command
  /\ task' = [u \in Task |->
       IF u = t
       THEN NewTask("connect", "server",
                  [FirstCredential EXCEPT !.grant = 0, !.client = clientId,
                                          !.secret = clientSecret])
       ELSE IF u \in Cancelled THEN None ELSE task[u]]
  /\ activeSession' = None
  /\ UNCHANGED <<keychain, configured, legacy, refreshInFlight, googleVars,
                 latest, raced>>

\* The loopback server listens and the browser opens.
OpenConsent(t) ==
  /\ Holds(t, "server")
  /\ Goto(t, "consent")
  /\ activeSession' = t
  /\ UNCHANGED <<keychain, configured, legacy, refreshInFlight, googleVars,
                 ghostVars>>

\* The user consents, with the account of their choice.
Consent(t) ==
  /\ Holds(t, "consent")
  /\ \E a \in Account : owner' = Append(owner, a)
  /\ live' = live \cup {Len(owner) + 1}
  /\ task' = [task EXCEPT ![t].at = "exchange",
                           ![t].cred.grant = Len(owner) + 1]
  /\ UNCHANGED <<keychain, configured, legacy, refreshInFlight,
                 activeSession, issued, honoured, aged, ghostVars>>

\* Mutant of Exchange: the credential is saved without waiting for Google.
ExchangeLater(t) ==
  /\ Holds(t, "exchange")
  /\ keychain' = [task[t].cred EXCEPT !.grant = 0]
  /\ End(t)
  /\ activeSession' = None
  /\ Replace(t, task[t].cred.grant)
  /\ UNCHANGED <<configured, legacy, refreshInFlight, googleVars, spent>>

\* The credential is saved, then Drive is asked for the account's address.
Exchange(t) ==
  /\ Holds(t, "exchange")
  /\ Authentic(task[t].cred)
  /\ task[t].cred.grant \in live
  /\ \E n \in Token :
       LET cred == [task[t].cred EXCEPT !.token = n] IN
         /\ Issue(n, cred.grant)
         /\ keychain' = cred
         /\ Ask(t, [task[t] EXCEPT !.cred = cred], cred)
  /\ activeSession' = None
  /\ Replace(t, task[t].cred.grant)
  /\ UNCHANGED <<configured, legacy, owner, live, spent>>

\* The user declines or lets the page time out, or the code is not exchanged.
ConnectFails(t) ==
  /\ \/ Holds(t, "consent") /\ UNCHANGED spent
     \/ /\ Holds(t, "exchange")
        /\ task[t].cred.grant \in live => ~Authentic(task[t].cred)
        /\ UNCHANGED spent
     \/ Holds(t, "exchange") /\ Fault
  /\ End(t)
  /\ activeSession' = None
  /\ UNCHANGED <<keychain, configured, legacy, refreshInFlight, googleVars,
                 latest, raced>>

\* The command "cancel".
Cancel ==
  /\ activeSession # None
  /\ Command
  /\ task' = [u \in Task |-> IF u \in Cancelled THEN None ELSE task[u]]
  /\ activeSession' = None
  /\ UNCHANGED <<keychain, configured, legacy, refreshInFlight, googleVars,
                 latest, raced>>

----------------------------------------------------------------------------
(* Forgetting, revoking and importing an account, and the client secret *)

Forget(t) ==
  /\ task[t] = None
  /\ Command
  /\ keychain' = None
  /\ clientSecret' = None
  /\ Begin(t, "forget", "clear", None)
  /\ Replace(t, Unknown)
  /\ UNCHANGED <<clientId, legacy, refreshInFlight, activeSession, googleVars>>

\* A broken chain of writes stays broken until the next start.
ClearLegacy(t) ==
  /\ Holds(t, "clear")
  /\ ~legacy.broken
  /\ legacy' = [legacy EXCEPT !.cache = None, !.disk = None]
  /\ latest' = IF latest = Unknown THEN None ELSE latest
  /\ IF task[t].does = "migrate" /\ keychain # None /\ keychain.email = None
     THEN Ask(t, NewTask("profile", "ask", keychain), keychain)
     ELSE End(t) /\ UNCHANGED refreshInFlight
  /\ UNCHANGED <<keychain, configured, activeSession, googleVars, raced,
                 spent>>

ClearFails(t) ==
  /\ Holds(t, "clear")
  /\ \/ /\ legacy.broken
        /\ UNCHANGED <<legacy, spent>>
     \/ /\ ~legacy.broken
        /\ Fault
        /\ legacy' = [legacy EXCEPT !.cache = None, !.broken = TRUE]
  /\ End(t)
  /\ UNCHANGED <<keychain, configured, refreshInFlight, activeSession,
                 googleVars, latest, raced>>

Disconnect(t) ==
  /\ task[t] = None
  /\ keychain # None
  /\ Command
  /\ Begin(t, "forget", "revoke", keychain)
  /\ UNCHANGED <<keychain, configured, legacy, refreshInFlight,
                 activeSession, googleVars, latest, raced>>

Withdraw(grant) ==
  /\ live' = live \ {grant}
  /\ honoured' = {n \in honoured : issued[n] # grant}
  /\ UNCHANGED <<owner, issued, aged>>

SameGrant(c, d) == c # None => c.grant = d.grant

\* Google revokes the grant.  When its answer arrives, whatever the Keychain
\* holds is cleared; the answer may be lost.
Revoke(t) ==
  /\ Holds(t, "revoke")
  /\ task[t].cred.grant \in live
  /\ Withdraw(task[t].cred.grant)
  /\ \/ /\ keychain' = None
        /\ clientSecret' = None
        /\ Begin(t, "forget", "clear", None)
        /\ latest' = Unknown
        /\ raced' = (raced \/ CopiesOut(t)
                        \/ ~SameGrant(keychain, task[t].cred))
        /\ UNCHANGED spent
     \/ /\ Fault
        /\ End(t)
        /\ UNCHANGED <<keychain, clientSecret, latest, raced>>
  /\ UNCHANGED <<clientId, legacy, refreshInFlight, activeSession>>

\* Google does not confirm the revocation: the credential is kept.
RevokeFails(t) ==
  /\ Holds(t, "revoke")
  /\ \/ task[t].cred.grant \notin live /\ UNCHANGED spent
     \/ Fault
  /\ End(t)
  /\ UNCHANGED <<keychain, configured, legacy, refreshInFlight,
                 activeSession, googleVars, latest, raced>>

\* A pairing bundle brings the credential of another device.  When the chain of
\* writes is broken, the settings are not saved and the command ends there.
Import(t) ==
  /\ task[t] = None
  /\ Command
  /\ \E a \in Account, b \in Bundles :
       LET cred == [grant |-> Len(owner) + 1, token |-> None,
                    client |-> b.client,
                    secret |-> IF b.secret THEN b.client ELSE None,
                    email |-> IF b.named THEN a ELSE None] IN
         /\ owner' = Append(owner, a)
         /\ keychain' = cred
         /\ clientSecret' = cred.secret
         /\ clientId' = IF legacy.broken THEN clientId ELSE b.client
         /\ IF b.named \/ legacy.broken THEN UNCHANGED <<task, refreshInFlight>>
            ELSE Ask(t, NewTask("profile", "ask", cred), cred)
  /\ live' = live \cup {Len(owner) + 1}
  /\ Replace(t, Len(owner) + 1)
  /\ UNCHANGED <<legacy, activeSession, issued, honoured, aged>>

\* Another client ID is saved with the settings: the user enters it, or the
\* settings tab saves the copy it took before an import.
EnterClientId ==
  /\ Command
  /\ ~legacy.broken
  /\ \E c \in Client \ {clientId} : clientId' = c
  /\ UNCHANGED <<keychain, clientSecret, legacy, refreshInFlight, task,
                 activeSession, googleVars, latest, raced>>

\* The configured client's secret is entered or removed.
ChangeSecret(secret) ==
  /\ Command
  /\ clientSecret' = secret
  /\ raced' = (raced \/ refreshInFlight # None
                     \/ \E t \in Task : task[t] # None /\ task[t].cred # None)
  /\ UNCHANGED <<clientId, legacy, refreshInFlight, task, activeSession,
                 googleVars, latest>>

WithSecret(c, secret) == IF c = None THEN None ELSE [c EXCEPT !.secret = secret]

\* Mutant of EnterSecret: the credential may be of another client.
EnterSecretAnyway ==
  /\ ChangeSecret(clientId)
  /\ keychain' = WithSecret(keychain, clientId)

\* The credential gets the secret when it is of the client configured.
EnterSecret ==
  /\ ChangeSecret(clientId)
  /\ keychain' = IF keychain # None /\ keychain.client = clientId
                 THEN WithSecret(keychain, clientId) ELSE keychain

\* The credential loses the secret whichever client it is of.
RemoveSecret ==
  /\ ChangeSecret(None)
  /\ keychain' = WithSecret(keychain, None)

----------------------------------------------------------------------------
(* The migration of the envelope, and restarts *)

\* The user enters the passphrase, postpones, or gets it wrong.
EnterPassphrase(t) ==
  /\ Holds(t, "prompt")
  /\ IF legacy.cache # None
     THEN task' = [task EXCEPT ![t].at = "unlock", ![t].cred = legacy.cache]
     ELSE End(t)
  /\ UNCHANGED <<keychain, configured, legacy, refreshInFlight,
                 activeSession, googleVars, ghostVars>>

Postpone(t) ==
  /\ Holds(t, "prompt")
  /\ End(t)
  /\ UNCHANGED <<keychain, configured, legacy, refreshInFlight,
                 activeSession, googleVars, ghostVars>>

\* The envelope is decrypted: its credential moves to the Keychain, with the
\* client secret it was saved with.
Migrate(t) ==
  /\ Holds(t, "unlock")
  /\ keychain' = task[t].cred
  /\ latest' = task[t].cred.grant
  /\ raced' = (raced \/ CopiesOut(t) \/ keychain # None
                     \/ task[t].cred.secret # clientSecret)
  /\ task' = [task EXCEPT ![t].at = "clear", ![t].cred = None]
  /\ UNCHANGED <<configured, legacy, refreshInFlight, activeSession,
                 googleVars, spent>>

\* The application stops and starts again.
Restart ==
  /\ Fault
  /\ legacy' = [cache |-> legacy.disk, disk |-> legacy.disk, broken |-> FALSE]
  /\ refreshInFlight' = None
  /\ task' \in Starting(keychain, legacy.disk)
  /\ activeSession' = None
  /\ UNCHANGED <<keychain, configured, googleVars, latest, raced>>

----------------------------------------------------------------------------
(* Google, and time *)

\* The user revokes the access at Google.
Withdrawn ==
  /\ Command
  /\ \E g \in live : Withdraw(g)
  /\ UNCHANGED <<deviceVars, latest, raced>>

\* The token in the Keychain is refused before this device counts it as expired,
\* or after.
TokenEnds ==
  /\ Fault
  /\ keychain # None
  /\ honoured \cap {keychain.token} # {}
  /\ honoured' = honoured \ {keychain.token}
  /\ UNCHANGED <<deviceVars, owner, live, issued, aged, latest, raced>>

TokenAges ==
  /\ Fault
  /\ keychain # None
  /\ keychain.token \notin aged \cup {None}
  /\ aged' = aged \cup {keychain.token}
  /\ UNCHANGED <<deviceVars, owner, live, issued, honoured, latest, raced>>

----------------------------------------------------------------------------

User ==
  \/ \E t \in Task : OpenSettings(t) \/ Connect(t) \/ Consent(t) \/ Forget(t)
                       \/ Disconnect(t) \/ Import(t)
  \/ Cancel \/ Withdrawn \/ EnterClientId \/ EnterSecret \/ RemoveSecret

Program(t) ==
  \/ Refused(t) \/ Answered(t) \/ Retry(t)
  \/ OpenConsent(t) \/ Exchange(t) \/ ConnectFails(t)
  \/ Revoke(t) \/ RevokeFails(t)
  \/ ClearLegacy(t) \/ ClearFails(t)
  \/ EnterPassphrase(t) \/ Postpone(t) \/ Migrate(t)

Next ==
  \/ User \/ RefreshGranted \/ RefreshFails \/ Restart \/ TokenEnds \/ TokenAges
  \/ \E t \in Task : StartRequest(t) \/ Program(t) \/ Unanswered(t)

Spec == Init /\ [][Next]_vars

\* Requests are made again and again, and what is under way comes to an end: the
\* network answers, and a consent page or a passphrase prompt is closed.
FairSpec ==
  /\ Spec
  /\ WF_vars(RefreshGranted \/ RefreshFails)
  /\ \A t \in Task : WF_vars(Program(t)) /\ SF_vars(StartRequest(t))

----------------------------------------------------------------------------
(* Properties *)

\* Type invariant: what is saved is a complete credential (credential-schema.ts:6)
\* or nothing, and Google accepts only tokens it issued.
TypeOK ==
  /\ keychain \in Credential \cup {None}
  /\ refreshInFlight \in Credential \cup {None}
  /\ clientId \in Client /\ clientSecret \in Client \cup {None}
  /\ {legacy.cache, legacy.disk} \subseteq Credential \cup {None}
  /\ activeSession \in Task \cup {None}
  /\ live \subseteq 1..Len(owner)
  /\ honoured \subseteq Token

\* The secret beside a credential is its own client's, and the one entered last.
SecretFits(c, secret) ==
  /\ c.secret \in {None, c.client}
  /\ secret \in {None, c.client} => c.secret = secret

\* The Keychain holds what the last command left there: nothing once the account
\* was forgotten or revoked, else a credential of that grant with the address of
\* its account.  A secret entered for another client stays out of it
\* (main.ts:516), and its own is there when it is the one configured.  Until the
\* credential of an earlier version has moved there, its envelope holds it on
\* disk (main.ts:351, :536).  Nothing is said once a command replaced the
\* credential while a task or the refresh held a copy of an older one, which
\* may still be saved (raced), nor while a removal has not cleared the envelope
\* (latest = Unknown).
LatestCommandWins ==
  raced \/ latest = Unknown \/
    IF keychain = None
    THEN IF latest = None THEN legacy.disk = None
                          ELSE legacy.disk # None /\ legacy.disk.grant = latest
    ELSE /\ keychain.grant = latest
         /\ keychain.email \in {None, owner[latest]}
         /\ SecretFits(keychain, clientSecret)

\* A refresh that Drive forced by refusing a token brings another one, also when it
\* joins a refresh that was under way (drive-client.ts:347, token-manager.ts:37).
RetryUsesNewToken ==
  \A t \in Task : Holds(t, "sent") => task[t].token \notin task[t].refused

\* The access token in the Keychain belongs to the grant beside it, though a
\* refresh saves the copy it took before the request (token-manager.ts:121).
TokenOfItsGrant ==
  keychain # None /\ keychain.token # None
    => issued[keychain.token] = keychain.grant

\* Requests succeed again while the credential can be refreshed, whatever failed
\* before: a failed refresh is not kept (token-manager.ts:38).
Usable == keychain # None /\ keychain.grant \in live /\ Authentic(keychain)

AccessRestored ==
  <>[]Usable => []<><<\E t \in Task : Answered(t)>>_vars
============================================================================
