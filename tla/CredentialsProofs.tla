------------------------- MODULE CredentialsProofs -------------------------
(***************************************************************************)
(* Proofs about Credentials, for any tasks, accounts, tokens and bounds.   *)
(* The invariant follows every copy of a credential, in the Keychain, in   *)
(* TokenManager and in the tasks: its token was issued for its grant, and  *)
(* a token that was just issued is no task's refused one.                  *)
(***************************************************************************)
EXTENDS Credentials, SequenceTheorems, TLAPS

USE CredentialsAssumption DEF configured

Does == {"request", "profile", "connect", "forget", "tidy", "migrate"}

Stage == {"ask", "wait", "sent", "delay", "server", "consent", "exchange", "revoke",
          "clear", "prompt", "unlock"}

TaskRecord ==
  [does : Does, at : Stage, cred : Copy \cup {None}, token : Token \cup {None},
   tries : Nat, refused : SUBSET Token]

(* A task that waits for Drive's answer and saves its copy has one.        *)
Asks(r) == r.does = "request" \/ (r.does \in {"profile", "connect"} /\ r.cred \in Credential)

Shape(r) ==
  /\ r.at \in {"wait", "sent", "delay"} => Asks(r)
  /\ r.at \in {"server", "consent"} => r.does = "connect" /\ r.cred \in Copy /\ r.cred.token = None
  /\ r.at = "exchange" => r.does = "connect" /\ r.cred \in Credential
  /\ r.at \in {"revoke", "unlock"} => r.cred \in Credential
  /\ r.at = "unlock" => r.cred.token = None
  /\ r.at = "sent" => r.token \in Token /\ r.token \notin r.refused

Tasks ==
  /\ task \in [Task -> TaskRecord \cup {None}]
  /\ \A t \in Task : task[t] # None => Shape(task[t])

Envelopes ==
  [cache : {None, FirstCredential}, disk : {None, FirstCredential}, broken : BOOLEAN]

Types ==
  /\ keychain \in Credential \cup {None} /\ refreshInFlight \in Credential \cup {None}
  /\ clientId \in Client /\ clientSecret \in Client \cup {None}
  /\ legacy \in Envelopes
  /\ activeSession \in Task \cup {None}

Google ==
  /\ owner \in Seq(Account) /\ live \subseteq 1..Len(owner)
  /\ issued \in [Token -> Nat] /\ honoured \subseteq Token
  /\ \A n \in honoured : issued[n] \in live

Fits(c, tokens) == c # None /\ c.token # None => tokens[c.token] = c.grant

Grants ==
  /\ Fits(keychain, issued) /\ Fits(refreshInFlight, issued)
  /\ \A t \in Task : task[t] # None => Fits(task[t].cred, issued)

Inv == Types /\ Tasks /\ Google /\ Grants

(***************************************************************************)
(* Records                                                                 *)
(***************************************************************************)
LEMMA Constants ==
  /\ None \notin Token /\ None \notin Task /\ Token \subseteq Nat
  /\ Credential \subseteq Copy
  /\ FirstCredential \in Credential /\ FirstCredential.token = None
<1>1. FirstCredential \in Credential /\ FirstCredential.token = None
  BY DEF Credential, FirstCredential
<1>2. \A c \in Credential : c \in Copy
  BY DEF Credential, Copy
<1> QED BY <1>1, <1>2

LEMMA NewTaskType ==
  ASSUME NEW does \in Does, NEW at \in Stage, NEW cred \in Copy \cup {None}
  PROVE  NewTask(does, at, cred) \in TaskRecord
BY DEF NewTask, TaskRecord

LEMMA CopyToken ==
  ASSUME NEW c \in Credential, NEW n \in Token
  PROVE  /\ [c EXCEPT !.token = n] \in Credential /\ [c EXCEPT !.token = n].token = n
         /\ [c EXCEPT !.token = n].grant = c.grant
BY DEF Credential

LEMMA CopyEmail ==
  ASSUME NEW c \in Credential, NEW a \in Account
  PROVE  /\ [c EXCEPT !.email = a] \in Credential /\ [c EXCEPT !.email = a].token = c.token
         /\ [c EXCEPT !.email = a].grant = c.grant
BY DEF Credential

LEMMA CopySecret ==
  ASSUME NEW c \in Credential, NEW b \in Client \cup {None}
  PROVE  /\ [c EXCEPT !.secret = b] \in Credential /\ [c EXCEPT !.secret = b].token = c.token
         /\ [c EXCEPT !.secret = b].grant = c.grant /\ [c EXCEPT !.secret = b].email = c.email
         /\ [c EXCEPT !.secret = b].client = c.client /\ [c EXCEPT !.secret = b].secret = b
BY DEF Credential

LEMMA TaskAt ==
  ASSUME NEW r \in TaskRecord, NEW at \in Stage
  PROVE  /\ [r EXCEPT !.at = at] \in TaskRecord
         /\ [r EXCEPT !.at = at].at = at
         /\ [r EXCEPT !.at = at].does = r.does
         /\ [r EXCEPT !.at = at].cred = r.cred
         /\ [r EXCEPT !.at = at].refused = r.refused
BY DEF TaskRecord

LEMMA TaskAtToken ==
  ASSUME NEW r \in TaskRecord, NEW at \in Stage, NEW n \in Token \cup {None}
  PROVE  /\ [r EXCEPT !.at = at, !.token = n] \in TaskRecord
         /\ [r EXCEPT !.at = at, !.token = n].at = at
         /\ [r EXCEPT !.at = at, !.token = n].token = n
         /\ [r EXCEPT !.at = at, !.token = n].does = r.does
         /\ [r EXCEPT !.at = at, !.token = n].cred = r.cred
         /\ [r EXCEPT !.at = at, !.token = n].refused = r.refused
BY DEF TaskRecord

LEMMA TaskAtCred ==
  ASSUME NEW r \in TaskRecord, NEW at \in Stage, NEW c \in Copy \cup {None}
  PROVE  /\ [r EXCEPT !.at = at, !.cred = c] \in TaskRecord
         /\ [r EXCEPT !.at = at, !.cred = c].at = at
         /\ [r EXCEPT !.at = at, !.cred = c].cred = c
         /\ [r EXCEPT !.at = at, !.cred = c].does = r.does
BY DEF TaskRecord

LEMMA TaskCred ==
  ASSUME NEW r \in TaskRecord, NEW c \in Copy \cup {None}
  PROVE  /\ [r EXCEPT !.cred = c] \in TaskRecord /\ [r EXCEPT !.cred = c].cred = c
         /\ [r EXCEPT !.cred = c].does = r.does
BY DEF TaskRecord

LEMMA TaskAttempt ==
  ASSUME NEW r \in TaskRecord
  PROVE  /\ [r EXCEPT !.tries = @ + 1] \in TaskRecord
         /\ [r EXCEPT !.tries = @ + 1].does = r.does
         /\ [r EXCEPT !.tries = @ + 1].cred = r.cred
BY DEF TaskRecord

LEMMA TaskRefused ==
  ASSUME NEW r \in TaskRecord, NEW n \in Token
  PROVE  /\ [r EXCEPT !.refused = {n}] \in TaskRecord
         /\ [r EXCEPT !.refused = {n}].does = r.does
         /\ [r EXCEPT !.refused = {n}].cred = r.cred
BY DEF TaskRecord

(* A task moves on to the record q. *)
LEMMA TaskStep ==
  ASSUME Tasks, NEW t \in Task, NEW q \in TaskRecord \cup {None}, q # None => Shape(q),
         task' = [task EXCEPT ![t] = q]
  PROVE  Tasks' /\ task'[t] = q /\ \A u \in Task : u # t => task'[u] = task[u]
BY DEF Tasks, Shape, Asks

(***************************************************************************)
(* Requests                                                                *)
(***************************************************************************)
LEMMA AskEffect ==
  ASSUME NEW t \in Task, NEW r \in TaskRecord, NEW c \in Credential, Asks(r), Ask(t, r, c)
  PROVE  /\ \E q \in TaskRecord : /\ task' = [task EXCEPT ![t] = q] /\ q.cred = r.cred
                                  /\ Shape(q)
         /\ refreshInFlight' \in {refreshInFlight, c}
<1>1. CASE r.refused = {} /\ HasFreshToken(c)
  <2> DEFINE q == [r EXCEPT !.at = "sent", !.token = c.token]
  <2>1. c.token \in Token
    BY <1>1 DEF HasFreshToken, Credential
  <2>2. q \in TaskRecord
    BY <2>1, TaskAtToken DEF Stage
  <2>3. /\ q.cred = r.cred /\ q.at = "sent" /\ q.token = c.token /\ q.refused = {}
        /\ q.does = r.does
    BY <1>1 DEF TaskRecord
  <2>4. Shape(q)
    BY <2>1, <2>3 DEF Shape, Asks
  <2>5. task' = [task EXCEPT ![t] = q] /\ refreshInFlight' = refreshInFlight
    BY <1>1 DEF Ask
  <2> QED BY <2>2, <2>3, <2>4, <2>5
<1>2. CASE ~(r.refused = {} /\ HasFreshToken(c))
  <2> DEFINE q == [r EXCEPT !.at = "wait", !.token = None]
  <2>1. q \in TaskRecord
    BY TaskAtToken DEF Stage
  <2>2. q.cred = r.cred /\ q.at = "wait" /\ q.does = r.does
    BY DEF TaskRecord
  <2>3. Shape(q)
    BY <2>2 DEF Shape, Asks
  <2>4. task' = [task EXCEPT ![t] = q] /\ refreshInFlight' \in {refreshInFlight, c}
    BY <1>2 DEF Ask
  <2> QED BY <2>1, <2>2, <2>3, <2>4
<1> QED BY <1>1, <1>2

(* A request keeps the invariant when the copies it takes fit their grants. *)
LEMMA AskKeeps ==
  ASSUME Tasks, NEW t \in Task, NEW r \in TaskRecord, NEW c \in Credential, Asks(r), Ask(t, r, c),
         refreshInFlight \in Credential \cup {None}, Fits(refreshInFlight, issued'),
         Fits(c, issued'), Fits(r.cred, issued'),
         \A u \in Task : task[u] # None => Fits(task[u].cred, issued')
  PROVE  /\ Tasks' /\ refreshInFlight' \in Credential \cup {None}
         /\ Fits(refreshInFlight', issued')
         /\ \A u \in Task : task'[u] # None => Fits(task'[u].cred, issued')
<1>1. PICK q \in TaskRecord : task' = [task EXCEPT ![t] = q] /\ q.cred = r.cred /\ Shape(q)
  BY AskEffect
<1>2. Tasks' /\ task'[t] = q /\ \A u \in Task : u # t => task'[u] = task[u]
  BY <1>1, TaskStep
<1>3. refreshInFlight' \in {refreshInFlight, c}
  BY AskEffect
<1> QED BY <1>1, <1>2, <1>3

(* The same when a task moves on, or ends. *)
LEMMA TaskKeeps ==
  ASSUME Tasks, NEW t \in Task, NEW q \in TaskRecord \cup {None}, q # None => Shape(q),
         q # None => Fits(q.cred, issued'), task' = [task EXCEPT ![t] = q],
         \A u \in Task : task[u] # None => Fits(task[u].cred, issued')
  PROVE  Tasks' /\ \A u \in Task : task'[u] # None => Fits(task'[u].cred, issued')
<1>1. Tasks' /\ task'[t] = q /\ \A u \in Task : u # t => task'[u] = task[u]
  BY TaskStep
<1> QED BY <1>1

LEMMA RestType ==
  ASSUME NEW t \in Task
  PROVE  /\ Rest(t) \in TaskRecord \cup {None}
         /\ Rest(t) # None => Shape(Rest(t)) /\ Rest(t).cred = None
<1>1. /\ NewTask("tidy", "clear", None) \in TaskRecord
      /\ NewTask("tidy", "clear", None).at = "clear" /\ NewTask("tidy", "clear", None).cred = None
  BY NewTaskType DEF Does, Stage, NewTask
<1> QED BY <1>1 DEF Rest, Shape

(* Requests that fail, of tasks that asked. *)
LEMMA FailKeeps ==
  ASSUME Inv, NEW S \in SUBSET Task, \A t \in S : task[t] # None /\ task[t].at \in {"wait", "sent", "delay"},
         Fail(S), issued' = issued
  PROVE  /\ Tasks' /\ keychain' \in Credential \cup {None} /\ Fits(keychain', issued')
         /\ \A u \in Task : task'[u] # None => Fits(task'[u].cred, issued')
<1>1. task' = [t \in Task |-> IF t \in S THEN Rest(t) ELSE task[t]]
  BY DEF Fail
<1>2. ASSUME NEW t \in Task
      PROVE  /\ task'[t] \in TaskRecord \cup {None} /\ (task'[t] # None => Shape(task'[t]))
             /\ task'[t] # None => Fits(task'[t].cred, issued')
  <2>1. CASE t \in S
    BY <1>1, <2>1, RestType DEF Fits
  <2>2. CASE t \notin S
    BY <1>1, <2>2 DEF Inv, Tasks, Grants
  <2> QED BY <2>1, <2>2
<1>3. Tasks'
  BY <1>1, <1>2 DEF Tasks, Shape, Asks
<1>4. keychain' = keychain \/ \E t \in S : task[t].does = "connect" /\ keychain' = task[t].cred
  BY DEF Fail
<1>5. \A t \in S : task[t].does = "connect" => task[t].cred \in Credential
  BY DEF Inv, Tasks, Shape, Asks
<1> QED BY <1>2, <1>3, <1>4, <1>5 DEF Inv, Types, Grants

LEMMA IssueEffect ==
  ASSUME Inv, NEW n \in Token, NEW g \in live, Issue(n, g)
  PROVE  /\ issued' \in [Token -> Nat] /\ issued'[n] = g /\ honoured' \subseteq Token
         /\ \A m \in honoured' : issued'[m] \in live
         /\ Fits(keychain, issued') /\ Fits(refreshInFlight, issued')
         /\ \A t \in Task : task[t] # None => Fits(task[t].cred, issued') /\ n \notin task[t].refused
<1>1. /\ n \notin InUse /\ issued' = [issued EXCEPT ![n] = g] /\ honoured' \subseteq Token
      /\ \A m \in honoured' : issued'[m] \in live
  BY DEF Issue, Inv, Google
<1>2. ASSUME NEW c, c \in Credential \cup Copy \cup {None}, c # None => c \in Copies, Fits(c, issued)
      PROVE  Fits(c, issued')
  <2>1. c # None => c.token \in InUse
    BY <1>2 DEF InUse
  <2>2. c # None => c.token \in Token \cup {None}
    BY <1>2 DEF Credential, Copy
  <2> QED BY <1>1, <1>2, <2>1, <2>2 DEF Fits, Inv, Google
<1>3. Fits(keychain, issued')
  BY <1>2 DEF Copies, Inv, Types, Grants
<1>4. Fits(refreshInFlight, issued')
  BY <1>2 DEF Copies, Inv, Types, Grants
<1>5. ASSUME NEW t \in Task, task[t] # None
      PROVE  Fits(task[t].cred, issued') /\ n \notin task[t].refused
  <2>1. t \in Busy /\ task[t] \in TaskRecord
    BY <1>5 DEF Busy, Inv, Tasks
  <2>2. task[t].cred \in Copy \cup {None}
    BY <2>1 DEF TaskRecord
  <2>3. task[t].cred # None => task[t].cred \in Copies
    BY <2>1 DEF Copies
  <2>4. Fits(task[t].cred, issued')
    BY <1>2, <1>5, <2>2, <2>3 DEF Inv, Grants
  <2>5. task[t].refused \subseteq InUse
    BY <2>1 DEF InUse
  <2> QED BY <1>1, <2>4, <2>5
<1>6. issued' \in [Token -> Nat] /\ issued'[n] = g
  <2>1. g \in Nat /\ issued \in [Token -> Nat]
    BY DEF Inv, Google
  <2> QED BY <1>1, <2>1
<1> QED BY <1>1, <1>3, <1>4, <1>5, <1>6

(***************************************************************************)
(* The actions                                                             *)
(***************************************************************************)
LEMMA RequestOK ==
  ASSUME Inv, NEW t \in Task, StartRequest(t) \/ OpenSettings(t) PROVE Inv'
<1>1. /\ keychain \in Credential
      /\ UNCHANGED <<keychain, configured, legacy, activeSession, owner, live, issued, honoured>>
  BY DEF StartRequest, OpenSettings, Inv, Types, googleVars
<1>2. PICK r \in TaskRecord : Asks(r) /\ r.cred \in {None, keychain} /\ Ask(t, r, keychain)
  <2>1. CASE StartRequest(t)
    <3>1. /\ NewTask("request", "ask", None) \in TaskRecord
          /\ NewTask("request", "ask", None).cred = None /\ Asks(NewTask("request", "ask", None))
      BY NewTaskType DEF Does, Stage, NewTask, Asks
    <3> QED BY <2>1, <3>1 DEF StartRequest
  <2>2. CASE OpenSettings(t)
    <3>1. /\ NewTask("profile", "ask", keychain) \in TaskRecord
          /\ NewTask("profile", "ask", keychain).cred = keychain
          /\ Asks(NewTask("profile", "ask", keychain))
      BY <1>1, NewTaskType, Constants DEF Does, Stage, NewTask, Asks
    <3> QED BY <2>2, <3>1 DEF OpenSettings
  <2> QED BY <2>1, <2>2
<1>3. /\ Tasks' /\ refreshInFlight' \in Credential \cup {None} /\ Fits(refreshInFlight', issued')
      /\ \A u \in Task : task'[u] # None => Fits(task'[u].cred, issued')
  <2>1. Fits(r.cred, issued') /\ Fits(keychain, issued')
    BY <1>1, <1>2 DEF Inv, Grants, Fits
  <2> QED BY <1>1, <1>2, <2>1, AskKeeps DEF Inv, Types, Grants
<1> QED BY <1>1, <1>3 DEF Inv, Types, Google, Grants

LEMMA RefreshGrantedOK == Inv /\ RefreshGranted => Inv'
<1> SUFFICES ASSUME Inv, RefreshGranted PROVE Inv'
  OBVIOUS
<1>1. refreshInFlight \in Credential
  BY DEF RefreshGranted, Inv, Types
<1>2. PICK n \in Token :
        /\ Issue(n, refreshInFlight.grant)
        /\ keychain' = [refreshInFlight EXCEPT !.token = n]
        /\ task' = [t \in Task |->
                      IF Holds(t, "wait") THEN [task[t] EXCEPT !.at = "sent", !.token = n] ELSE task[t]]
  BY DEF RefreshGranted
<1>3. refreshInFlight.grant \in live
  BY DEF RefreshGranted
<1>4. /\ issued' \in [Token -> Nat] /\ issued'[n] = refreshInFlight.grant /\ honoured' \subseteq Token
      /\ \A m \in honoured' : issued'[m] \in live
      /\ \A t \in Task : task[t] # None => Fits(task[t].cred, issued') /\ n \notin task[t].refused
  BY <1>2, <1>3, IssueEffect
<1>5. keychain' \in Credential /\ Fits(keychain', issued')
  <2>1. /\ keychain' \in Credential /\ keychain'.token = n
        /\ keychain'.grant = refreshInFlight.grant
    BY <1>1, <1>2, CopyToken
  <2> QED BY <1>4, <2>1 DEF Fits
<1>6. ASSUME NEW t \in Task
      PROVE  /\ task'[t] \in TaskRecord \cup {None}
             /\ task'[t] # None => Shape(task'[t]) /\ Fits(task'[t].cred, issued')
  <2>1. CASE Holds(t, "wait")
    <3> DEFINE q == [task[t] EXCEPT !.at = "sent", !.token = n]
    <3>1. task'[t] = q /\ task[t] \in TaskRecord /\ task[t] # None /\ Asks(task[t])
      BY <1>2, <2>1 DEF Holds, Inv, Tasks, Shape
    <3>2. q \in TaskRecord
      BY <3>1, TaskAtToken DEF Stage
    <3>3. /\ q.at = "sent" /\ q.token = n /\ q.cred = task[t].cred /\ q.does = task[t].does
          /\ q.refused = task[t].refused
      BY <3>1 DEF TaskRecord
    <3>4. Shape(q)
      BY <3>1, <3>3, <1>4 DEF Shape, Asks
    <3> QED BY <3>1, <3>2, <3>3, <3>4, <1>4
  <2>2. CASE ~Holds(t, "wait")
    BY <1>2, <1>4, <2>2 DEF Inv, Tasks
  <2> QED BY <2>1, <2>2
<1>7. Tasks'
  BY <1>2, <1>6 DEF Tasks, Shape, Asks
<1>8. /\ refreshInFlight' = None
      /\ UNCHANGED <<configured, legacy, activeSession, owner, live>>
  BY DEF RefreshGranted
<1> QED BY <1>4, <1>5, <1>6, <1>7, <1>8 DEF Inv, Types, Google, Grants, Fits

LEMMA RefreshFailsOK == Inv /\ RefreshFails => Inv'
<1> SUFFICES ASSUME Inv, RefreshFails PROVE Inv'
  OBVIOUS
<1> DEFINE S == {t \in Task : Holds(t, "wait")}
<1>1. /\ Fail(S) /\ issued' = issued /\ refreshInFlight' = None
      /\ UNCHANGED <<configured, legacy, activeSession, owner, live, honoured>>
  BY DEF RefreshFails, googleVars
<1>2. \A t \in S : task[t] # None /\ task[t].at \in {"wait", "sent", "delay"}
  BY DEF Holds
<1>3. /\ Tasks' /\ keychain' \in Credential \cup {None} /\ Fits(keychain', issued')
      /\ \A u \in Task : task'[u] # None => Fits(task'[u].cred, issued')
  BY <1>1, <1>2, FailKeeps
<1> QED BY <1>1, <1>3 DEF Inv, Types, Google, Grants, Fits

LEMMA AgainOK ==
  ASSUME Inv, NEW t \in Task, task[t] # None, task[t].at \in {"sent", "delay"},
         NEW r \in TaskRecord, r.does = task[t].does, r.cred = task[t].cred,
         Again(t, r) \/ (Fail({t}) /\ UNCHANGED refreshInFlight),
         UNCHANGED <<configured, legacy, activeSession, googleVars>>
  PROVE  Inv'
<1>1. UNCHANGED <<configured, legacy, activeSession, owner, live, issued, honoured>>
  BY DEF googleVars
<1>2. CASE Fail({t}) /\ UNCHANGED refreshInFlight
  <2>1. /\ Tasks' /\ keychain' \in Credential \cup {None} /\ Fits(keychain', issued')
        /\ \A u \in Task : task'[u] # None => Fits(task'[u].cred, issued')
    BY <1>1, <1>2, FailKeeps
  <2> QED BY <1>1, <1>2, <2>1 DEF Inv, Types, Google, Grants, Fits
<1>3. CASE keychain # None /\ Ask(t, [r EXCEPT !.tries = @ + 1], keychain) /\ UNCHANGED keychain
  <2> DEFINE q == [r EXCEPT !.tries = @ + 1]
  <2>2. q \in TaskRecord
    BY TaskAttempt
  <2>3. q.does = task[t].does /\ q.cred = task[t].cred
    BY TaskAttempt
  <2>4. Asks(q)
    BY <2>3 DEF Asks, Inv, Tasks, Shape
  <2>5. Fits(q.cred, issued') /\ Fits(keychain, issued') /\ Fits(refreshInFlight, issued')
    BY <1>1, <2>3 DEF Inv, Grants
  <2>6. \A u \in Task : task[u] # None => Fits(task[u].cred, issued')
    BY <1>1 DEF Inv, Grants
  <2>7. /\ Tasks' /\ refreshInFlight' \in Credential \cup {None} /\ Fits(refreshInFlight', issued')
        /\ \A u \in Task : task'[u] # None => Fits(task'[u].cred, issued')
    BY <1>3, <2>2, <2>4, <2>5, <2>6, AskKeeps DEF Inv, Types
  <2> QED BY <1>1, <1>3, <2>5, <2>7 DEF Inv, Types, Google, Grants
<1> QED BY <1>2, <1>3 DEF Again

LEMMA AttemptOK ==
  ASSUME Inv, NEW t \in Task, Refused(t) \/ Retry(t) PROVE Inv'
<1>1. CASE Retry(t)
  BY <1>1, AgainOK DEF Retry, Holds, Inv, Tasks
<1>2. CASE Refused(t)
  <2>1. task[t] \in TaskRecord /\ task[t] # None /\ task[t].at = "sent" /\ task[t].token \in Token
    BY <1>2 DEF Refused, Holds, Inv, Tasks, Shape
  <2> DEFINE r == [task[t] EXCEPT !.refused = {task[t].token}]
  <2>2. r \in TaskRecord /\ r.does = task[t].does /\ r.cred = task[t].cred
    BY <2>1, TaskRefused
  <2> QED BY <1>2, <2>1, <2>2, AgainOK DEF Refused
<1> QED BY <1>1, <1>2

LEMMA AnsweredOK ==
  ASSUME Inv, NEW t \in Task, Answered(t) PROVE Inv'
<1>1. /\ task' = [task EXCEPT ![t] = Rest(t)] /\ task[t] # None /\ task[t].at = "sent"
      /\ UNCHANGED <<configured, legacy, refreshInFlight, activeSession, owner, live, issued, honoured>>
  BY DEF Answered, Holds, googleVars
<1>2. /\ Tasks' /\ \A u \in Task : task'[u] # None => Fits(task'[u].cred, issued')
  BY <1>1, RestType, TaskKeeps DEF Inv, Grants, Fits
<1>3. keychain' \in Credential \cup {None} /\ Fits(keychain', issued')
  <2>1. CASE task[t].does = "request"
    BY <1>1, <2>1 DEF Answered, Inv, Types, Grants
  <2>2. CASE task[t].does # "request"
    <3> DEFINE c == task[t].cred
               a == owner[issued[task[t].token]]
    <3>1. c \in Credential /\ task[t].token \in Token
      BY <1>1, <2>2 DEF Inv, Tasks, Shape, Asks
    <3>2. keychain' = [c EXCEPT !.email = a]
      BY <2>2 DEF Answered
    <3>3. a \in Account
      BY <3>1 DEF Answered, Inv, Google
    <3>4. keychain' \in Credential /\ keychain'.token = c.token /\ keychain'.grant = c.grant
      BY <3>1, <3>2, <3>3, CopyEmail
    <3>5. Fits(c, issued) /\ issued' = issued
      BY <1>1 DEF Inv, Grants
    <3> HIDE DEF c, a
    <3> QED BY <3>1, <3>4, <3>5, NoneIsNoCredential DEF Fits
  <2> QED BY <2>1, <2>2
<1> QED BY <1>1, <1>2, <1>3 DEF Inv, Types, Google, Grants

(* The step of a task that leaves Google's tokens and TokenManager alone.  *)
LEMMA MoveKeeps ==
  ASSUME Inv, NEW t \in Task, NEW q \in TaskRecord \cup {None},
         q # None => Shape(q) /\ Fits(q.cred, issued), task' = [task EXCEPT ![t] = q],
         Types', Google', UNCHANGED <<refreshInFlight, issued>>, Fits(keychain', issued)
  PROVE  Inv'
<1>1. Tasks' /\ \A u \in Task : task'[u] # None => Fits(task'[u].cred, issued')
  BY TaskKeeps DEF Inv, Grants
<1> QED BY <1>1 DEF Inv, Grants

LEMMA NoneFits == \A tokens : Fits(None, tokens)
BY DEF Fits

LEMMA OpenConsentOK ==
  ASSUME Inv, NEW t \in Task, OpenConsent(t) PROVE Inv'
<1> DEFINE q == [task[t] EXCEPT !.at = "consent"]
<1>1. task[t] \in TaskRecord /\ task[t] # None /\ task[t].at = "server"
  BY DEF OpenConsent, Holds, Inv, Tasks
<1>2. q \in TaskRecord /\ q.at = "consent" /\ q.does = task[t].does /\ q.cred = task[t].cred
  BY <1>1, TaskAt DEF Stage
<1>3. Shape(q) /\ Fits(q.cred, issued)
  BY <1>1, <1>2 DEF Inv, Tasks, Shape, Grants
<1>4. task' = [task EXCEPT ![t] = q]
  BY DEF OpenConsent, Goto
<1>5. Types' /\ Google' /\ UNCHANGED <<keychain, refreshInFlight, issued>>
  BY DEF OpenConsent, googleVars, Inv, Types, Google
<1> QED BY <1>2, <1>3, <1>4, <1>5, MoveKeeps DEF Inv, Grants

LEMMA ConsentOK ==
  ASSUME Inv, NEW t \in Task, Consent(t) PROVE Inv'
<1> DEFINE g == Len(owner) + 1
           c == [task[t].cred EXCEPT !.grant = g]
           q == [task[t] EXCEPT !.at = "exchange", !.cred = c]
<1>1. task[t] \in TaskRecord /\ task[t] # None /\ task[t].at = "consent"
  BY DEF Consent, Holds, Inv, Tasks
<1>2. task[t].cred \in Copy /\ task[t].cred.token = None /\ task[t].does = "connect"
  BY <1>1 DEF Inv, Tasks, Shape
<1>3. g \in Nat \ {0}
  BY DEF Inv, Google
<1>4. c \in Credential /\ c.token = None
  BY <1>2, <1>3 DEF Copy, Credential
<1>5. q \in TaskRecord
  <2> HIDE DEF c
  <2> QED BY <1>1, <1>4, TaskAtCred, Constants DEF Stage
<1>6. q.at = "exchange" /\ q.does = "connect" /\ q.cred = c
  BY <1>1, <1>2 DEF TaskRecord
<1>7. Shape(q) /\ Fits(q.cred, issued)
  BY <1>4, <1>6 DEF Shape, Fits
<1>8. task' = [task EXCEPT ![t] = q]
  <2>1. task' = [task EXCEPT ![t].at = "exchange", ![t].cred.grant = g]
    BY DEF Consent
  <2> QED BY <1>1, <2>1 DEF Inv, Tasks
<1>9. Types' /\ UNCHANGED <<keychain, refreshInFlight, issued>>
  BY DEF Consent, Inv, Types
<1>10. Google'
  <2>1. PICK a \in Account : owner' = Append(owner, a)
    BY DEF Consent
  <2>2. owner' \in Seq(Account) /\ Len(owner') = Len(owner) + 1
    BY <2>1 DEF Inv, Google
  <2> QED BY <2>2 DEF Consent, Inv, Google
<1> QED BY <1>5, <1>7, <1>8, <1>9, <1>10, MoveKeeps DEF Inv, Grants

LEMMA ExchangeOK ==
  ASSUME Inv, NEW t \in Task, Exchange(t) PROVE Inv'
<1>1. /\ task[t] \in TaskRecord /\ task[t] # None /\ task[t].at = "exchange"
      /\ task[t].cred \in Credential /\ task[t].does = "connect" /\ task[t].cred.grant \in live
  BY DEF Exchange, Holds, Inv, Tasks, Shape
<1>2. PICK n \in Token :
        LET cred == [task[t].cred EXCEPT !.token = n] IN
          Issue(n, cred.grant) /\ keychain' = cred /\ Ask(t, [task[t] EXCEPT !.cred = cred], cred)
  BY DEF Exchange
<1> DEFINE cred == [task[t].cred EXCEPT !.token = n]
           r == [task[t] EXCEPT !.cred = cred]
<1>3. cred \in Credential /\ cred.token = n /\ cred.grant = task[t].cred.grant
  BY <1>1, CopyToken
<1>4. /\ issued' \in [Token -> Nat] /\ issued'[n] = cred.grant /\ honoured' \subseteq Token
      /\ \A m \in honoured' : issued'[m] \in live
      /\ Fits(refreshInFlight, issued')
      /\ \A u \in Task : task[u] # None => Fits(task[u].cred, issued')
  BY <1>1, <1>2, <1>3, IssueEffect
<1>5. r \in TaskRecord /\ r.cred = cred /\ r.does = "connect"
  BY <1>1, <1>3, TaskCred, Constants
<1>6. Asks(r) /\ Fits(cred, issued')
  BY <1>3, <1>4, <1>5 DEF Asks, Fits
<1>7. /\ Tasks' /\ refreshInFlight' \in Credential \cup {None} /\ Fits(refreshInFlight', issued')
      /\ \A u \in Task : task'[u] # None => Fits(task'[u].cred, issued')
  BY <1>2, <1>3, <1>4, <1>5, <1>6, AskKeeps DEF Inv, Types
<1>8. /\ keychain' = cred /\ activeSession' = None
      /\ UNCHANGED <<configured, legacy, owner, live>>
  BY <1>2 DEF Exchange
<1> QED BY <1>3, <1>4, <1>6, <1>7, <1>8 DEF Inv, Types, Google, Grants

(* Tasks that end, whatever else they were about to do.                    *)
LEMMA EndOK ==
  ASSUME Inv, NEW t \in Task,
         ConnectFails(t) \/ ClearFails(t) \/ RevokeFails(t) \/ Postpone(t)
  PROVE  Inv'
<1>1. task' = [task EXCEPT ![t] = None]
  BY DEF ConnectFails, ClearFails, RevokeFails, Postpone, End
<1>2. /\ UNCHANGED <<keychain, configured, refreshInFlight, owner, live, issued, honoured>>
      /\ legacy' \in {legacy, [legacy EXCEPT !.cache = None, !.broken = TRUE]}
      /\ activeSession' \in {None, activeSession}
  BY DEF ConnectFails, ClearFails, RevokeFails, Postpone, googleVars
<1>3. legacy' \in Envelopes
  BY <1>2 DEF Inv, Types, Envelopes
<1>4. Types' /\ Google'
  BY <1>2, <1>3 DEF Inv, Types, Google
<1> QED BY <1>1, <1>2, <1>4, MoveKeeps DEF Inv, Grants

LEMMA ConnectOK ==
  ASSUME Inv, NEW t \in Task, Connect(t) PROVE Inv'
<1> DEFINE c == [FirstCredential EXCEPT !.grant = 0, !.client = clientId, !.secret = clientSecret]
           q == NewTask("connect", "server", c)
<1>1. c \in Copy /\ c.token = None
  BY DEF FirstCredential, Copy, Inv, Types
<1>2. q \in TaskRecord
  BY <1>1, NewTaskType DEF Does, Stage
<1>3. q.at = "server" /\ q.does = "connect" /\ q.cred = c
  BY DEF NewTask
<1>4. Shape(q) /\ Fits(q.cred, issued)
  BY <1>1, <1>3 DEF Shape, Fits
<1>5. task' = [u \in Task |-> IF u = t THEN q ELSE IF u \in Cancelled THEN None ELSE task[u]]
  BY DEF Connect
<1>6. /\ UNCHANGED <<keychain, configured, legacy, refreshInFlight, owner, live, issued, honoured>>
      /\ activeSession' = None
  BY DEF Connect, googleVars
<1> HIDE DEF q
<1>7. ASSUME NEW u \in Task
      PROVE  /\ task'[u] \in TaskRecord \cup {None}
             /\ task'[u] # None => Shape(task'[u]) /\ Fits(task'[u].cred, issued)
  BY <1>2, <1>4, <1>5 DEF Inv, Tasks, Grants
<1>8. Tasks'
  BY <1>5, <1>7 DEF Tasks, Shape, Asks
<1> QED BY <1>6, <1>7, <1>8 DEF Inv, Types, Google, Grants

LEMMA CancelOK == Inv /\ Cancel => Inv'
<1> SUFFICES ASSUME Inv, Cancel PROVE Inv'
  OBVIOUS
<1>1. task' = [u \in Task |-> IF u \in Cancelled THEN None ELSE task[u]]
  BY DEF Cancel
<1>2. /\ UNCHANGED <<keychain, configured, legacy, refreshInFlight, owner, live, issued, honoured>>
      /\ activeSession' = None
  BY DEF Cancel, googleVars
<1>3. ASSUME NEW u \in Task
      PROVE  /\ task'[u] \in TaskRecord \cup {None}
             /\ task'[u] # None => Shape(task'[u]) /\ Fits(task'[u].cred, issued)
  BY <1>1 DEF Inv, Tasks, Grants
<1>4. Tasks'
  BY <1>1, <1>3 DEF Tasks, Shape, Asks
<1> QED BY <1>2, <1>3, <1>4 DEF Inv, Types, Google, Grants

LEMMA ForgetOK ==
  ASSUME Inv, NEW t \in Task, Forget(t) \/ Disconnect(t) PROVE Inv'
<1>1. PICK q \in TaskRecord : /\ task' = [task EXCEPT ![t] = q] /\ Shape(q)
                              /\ q.cred \in {None, keychain}
  <2>1. CASE Forget(t)
    <3> DEFINE q == NewTask("forget", "clear", None)
    <3>1. q \in TaskRecord /\ q.at = "clear" /\ q.cred = None
      BY NewTaskType DEF Does, Stage, NewTask
    <3> QED BY <2>1, <3>1 DEF Forget, Begin, Shape
  <2>2. CASE Disconnect(t)
    <3> DEFINE q == NewTask("forget", "revoke", keychain)
    <3>1. keychain \in Credential
      BY <2>2 DEF Disconnect, Inv, Types
    <3>2. q \in TaskRecord /\ q.at = "revoke" /\ q.cred = keychain
      BY <3>1, NewTaskType, Constants DEF Does, Stage, NewTask
    <3> QED BY <2>2, <3>1, <3>2 DEF Disconnect, Begin, Shape
  <2> QED BY <2>1, <2>2
<1>2. /\ UNCHANGED <<legacy, refreshInFlight, activeSession, owner, live, issued, honoured>>
      /\ keychain' \in {None, keychain} /\ clientSecret' \in {None, clientSecret} /\ clientId' = clientId
  BY DEF Forget, Disconnect, googleVars
<1>3. Types' /\ Google' /\ Fits(keychain', issued)
  BY <1>2 DEF Inv, Types, Google, Grants, Fits
<1>4. Fits(q.cred, issued)
  BY <1>1 DEF Inv, Grants, Fits
<1> QED BY <1>1, <1>2, <1>3, <1>4, MoveKeeps

LEMMA ClearLegacyOK ==
  ASSUME Inv, NEW t \in Task, ClearLegacy(t) PROVE Inv'
<1>1. /\ UNCHANGED <<keychain, configured, activeSession, owner, live, issued, honoured>>
      /\ legacy' = [legacy EXCEPT !.cache = None, !.disk = None]
  BY DEF ClearLegacy, googleVars
<1>2. legacy' \in Envelopes
  BY <1>1 DEF Inv, Types, Envelopes
<1>3. CASE task' = [task EXCEPT ![t] = None] /\ UNCHANGED refreshInFlight
  <2>1. Types' /\ Google'
    BY <1>1, <1>2, <1>3 DEF Inv, Types, Google
  <2> QED BY <1>1, <1>3, <2>1, MoveKeeps DEF Inv, Grants
<1>4. CASE keychain # None /\ Ask(t, NewTask("profile", "ask", keychain), keychain)
  <2> DEFINE r == NewTask("profile", "ask", keychain)
  <2>1. keychain \in Credential
    BY <1>4 DEF Inv, Types
  <2>2. r \in TaskRecord /\ r.cred = keychain /\ Asks(r)
    BY <2>1, NewTaskType, Constants DEF Does, Stage, NewTask, Asks
  <2>3. Fits(keychain, issued') /\ Fits(refreshInFlight, issued')
        /\ \A u \in Task : task[u] # None => Fits(task[u].cred, issued')
    BY <1>1 DEF Inv, Grants
  <2> HIDE DEF r
  <2>4. /\ Tasks' /\ refreshInFlight' \in Credential \cup {None} /\ Fits(refreshInFlight', issued')
        /\ \A u \in Task : task'[u] # None => Fits(task'[u].cred, issued')
    <3>1. Ask(t, r, keychain)
      BY <1>4 DEF r
    <3> QED BY <2>1, <2>2, <2>3, <3>1, AskKeeps DEF Inv, Types
  <2> QED BY <1>1, <1>2, <2>3, <2>4 DEF Inv, Types, Google, Grants
<1> QED BY <1>3, <1>4 DEF ClearLegacy, End

LEMMA WithdrawEffect ==
  ASSUME Inv, NEW g, Withdraw(g) PROVE Google' /\ issued' = issued
BY DEF Withdraw, Inv, Google

LEMMA RevokeOK ==
  ASSUME Inv, NEW t \in Task, Revoke(t) PROVE Inv'
<1>1. Google' /\ issued' = issued
  BY WithdrawEffect DEF Revoke
<1>2. /\ UNCHANGED <<legacy, refreshInFlight, activeSession>>
      /\ keychain' \in {None, keychain} /\ clientSecret' \in {None, clientSecret} /\ clientId' = clientId
  BY DEF Revoke
<1>3. Types' /\ Fits(keychain', issued)
  BY <1>2 DEF Inv, Types, Grants, Fits
<1>4. NewTask("forget", "clear", None) \in TaskRecord /\ Shape(NewTask("forget", "clear", None))
      /\ NewTask("forget", "clear", None).cred = None
  BY NewTaskType DEF Does, Stage, NewTask, Shape
<1>5. PICK q \in TaskRecord \cup {None} :
        /\ task' = [task EXCEPT ![t] = q]
        /\ q # None => Shape(q) /\ Fits(q.cred, issued)
  BY <1>4 DEF Revoke, Begin, End, Fits
<1> QED BY <1>1, <1>2, <1>3, <1>5, MoveKeeps

LEMMA ImportOK ==
  ASSUME Inv, NEW t \in Task, Import(t) PROVE Inv'
<1> DEFINE g == Len(owner) + 1
<1>1. PICK a \in Account, b \in Bundles :
        LET cred == [grant |-> g, token |-> None, client |-> b.client,
                     secret |-> IF b.secret THEN b.client ELSE None,
                     email |-> IF b.named THEN a ELSE None] IN
          /\ owner' = Append(owner, a) /\ keychain' = cred /\ clientSecret' = cred.secret
          /\ clientId' \in {clientId, b.client}
          /\ IF b.named \/ legacy.broken THEN UNCHANGED <<task, refreshInFlight>>
             ELSE Ask(t, NewTask("profile", "ask", cred), cred)
  BY DEF Import
<1> DEFINE cred == [grant |-> g, token |-> None, client |-> b.client,
                    secret |-> IF b.secret THEN b.client ELSE None,
                    email |-> IF b.named THEN a ELSE None]
           r == NewTask("profile", "ask", cred)
<1>2. g \in Nat \ {0} /\ b.client \in Client
  BY DEF Inv, Google
<1>3. cred \in Credential /\ cred.token = None
  BY <1>2 DEF Credential
<1>4. r \in TaskRecord /\ r.cred = cred /\ Asks(r)
  <2> HIDE DEF cred
  <2> QED BY <1>3, NewTaskType, Constants DEF Does, Stage, NewTask, Asks
<1>5. /\ UNCHANGED <<legacy, activeSession, issued, honoured>>
      /\ live' = live \cup {g}
  BY DEF Import
<1>6. Google'
  <2>1. owner' \in Seq(Account) /\ Len(owner') = Len(owner) + 1
    BY <1>1 DEF Inv, Google
  <2>2. live' = live \cup {Len(owner) + 1} /\ issued' = issued /\ honoured' = honoured
    BY <1>5
  <2>3. live' \subseteq 1..Len(owner')
    <3>1. Len(owner) \in Nat /\ live \subseteq 1..Len(owner)
      BY DEF Inv, Google
    <3>2. \A n \in Nat : \A S \in SUBSET (1..n) : S \cup {n + 1} \subseteq 1..(n + 1)
      OBVIOUS
    <3>3. live \cup {Len(owner) + 1} \subseteq 1..(Len(owner) + 1)
      BY <3>1, <3>2
    <3> QED BY <2>1, <2>2, <3>3
  <2> QED BY <2>1, <2>2, <2>3 DEF Inv, Google
<1>7. /\ Fits(cred, issued') /\ Fits(refreshInFlight, issued')
      /\ \A u \in Task : task[u] # None => Fits(task[u].cred, issued')
  BY <1>3, <1>5 DEF Inv, Grants, Fits
<1> HIDE DEF cred, r
<1>8. /\ Tasks' /\ refreshInFlight' \in Credential \cup {None} /\ Fits(refreshInFlight', issued')
      /\ \A u \in Task : task'[u] # None => Fits(task'[u].cred, issued')
  <2>1. CASE b.named \/ legacy.broken
    <3>1. UNCHANGED <<task, refreshInFlight>>
      BY <1>1, <2>1
    <3> QED BY <1>7, <3>1 DEF Inv, Types, Tasks, Shape, Asks
  <2>2. CASE ~(b.named \/ legacy.broken)
    <3>1. Ask(t, r, cred)
      BY <1>1, <2>2 DEF r, cred
    <3> QED BY <1>3, <1>4, <1>7, <3>1, AskKeeps DEF Inv, Types
  <2> QED BY <2>1, <2>2
<1>9. keychain' = cred /\ clientId' \in Client /\ clientSecret' \in Client \cup {None}
  <2>1. cred.secret \in Client \cup {None} /\ b.client \in Client
    BY <1>2 DEF cred
  <2>2. keychain' = cred /\ clientSecret' = cred.secret /\ clientId' \in {clientId, b.client}
    BY <1>1 DEF cred
  <2> QED BY <2>1, <2>2 DEF Inv, Types
<1>10. Types'
  BY <1>3, <1>5, <1>8, <1>9 DEF Inv, Types
<1> QED BY <1>6, <1>7, <1>8, <1>9, <1>10 DEF Inv, Grants

LEMMA UnansweredOK ==
  ASSUME Inv, NEW t \in Task, Unanswered(t) PROVE Inv'
<1> DEFINE q == [task[t] EXCEPT !.at = "delay"]
<1>1. task[t] \in TaskRecord /\ task[t] # None /\ task[t].at = "sent"
  BY DEF Unanswered, Holds, Inv, Tasks
<1>2. q \in TaskRecord /\ q.at = "delay" /\ q.does = task[t].does /\ q.cred = task[t].cred
  BY <1>1, TaskAt DEF Stage
<1>3. Shape(q) /\ Fits(q.cred, issued)
  BY <1>1, <1>2 DEF Inv, Tasks, Shape, Asks, Grants
<1>4. task' = [task EXCEPT ![t] = q]
  BY DEF Unanswered, Goto
<1>5. Types' /\ Google' /\ UNCHANGED <<keychain, refreshInFlight, issued>>
  BY DEF Unanswered, googleVars, Inv, Types, Google
<1> QED BY <1>2, <1>3, <1>4, <1>5, MoveKeeps DEF Inv, Grants

(* Steps no task takes.                                                    *)
LEMMA OthersOK ==
  ASSUME Inv, task' = task, refreshInFlight' = refreshInFlight, issued' = issued,
         Types', Google', Fits(keychain', issued)
  PROVE  Inv'
BY DEF Inv, Tasks, Shape, Asks, Grants

LEMMA SettingsOK == Inv /\ (EnterClientId \/ EnterSecret \/ RemoveSecret) => Inv'
<1> SUFFICES ASSUME Inv, EnterClientId \/ EnterSecret \/ RemoveSecret PROVE Inv'
  OBVIOUS
<1>1. /\ UNCHANGED <<task, legacy, refreshInFlight, activeSession, owner, live, issued, honoured>>
      /\ clientId' \in Client /\ clientSecret' \in Client \cup {None}
  BY DEF EnterClientId, EnterSecret, RemoveSecret, ChangeSecret, googleVars, Inv, Types
<1>2. \/ keychain' = keychain
      \/ \E s \in Client \cup {None} : keychain # None /\ keychain' = [keychain EXCEPT !.secret = s]
  BY DEF EnterClientId, EnterSecret, RemoveSecret, WithSecret, Inv, Types
<1>3. keychain' \in Credential \cup {None} /\ Fits(keychain', issued)
  <2>1. ASSUME NEW s \in Client \cup {None}, keychain # None,
               keychain' = [keychain EXCEPT !.secret = s]
        PROVE  keychain' \in Credential /\ Fits(keychain', issued)
    BY <2>1, CopySecret DEF Inv, Types, Grants, Fits
  <2> QED BY <1>2, <2>1 DEF Inv, Types, Grants
<1> QED BY <1>1, <1>3, OthersOK DEF Inv, Types, Google

LEMMA TokensOK == Inv /\ (Withdrawn \/ TokenEnds \/ TokenAges) => Inv'
<1> SUFFICES ASSUME Inv, Withdrawn \/ TokenEnds \/ TokenAges PROVE Inv'
  OBVIOUS
<1>1. UNCHANGED deviceVars
  BY DEF Withdrawn, TokenEnds, TokenAges
<1>2. Google' /\ issued' = issued
  <2>1. CASE Withdrawn
    BY <2>1, WithdrawEffect DEF Withdrawn
  <2>2. CASE TokenEnds \/ TokenAges
    BY <2>2 DEF TokenEnds, TokenAges, Inv, Google
  <2> QED BY <2>1, <2>2
<1> QED BY <1>1, <1>2, OthersOK DEF deviceVars, Inv, Types, Grants

LEMMA MigrationOK ==
  ASSUME Inv, NEW t \in Task, EnterPassphrase(t) \/ Migrate(t) PROVE Inv'
<1>1. CASE EnterPassphrase(t) /\ legacy.cache = None
  <2>1. task' = [task EXCEPT ![t] = None] /\ Types' /\ Google'
        /\ UNCHANGED <<keychain, refreshInFlight, issued>>
    BY <1>1 DEF EnterPassphrase, End, googleVars, Inv, Types, Google
  <2> QED BY <2>1, MoveKeeps DEF Inv, Grants
<1>2. CASE EnterPassphrase(t) /\ legacy.cache # None
  <2> DEFINE c == legacy.cache
             q == [task[t] EXCEPT !.at = "unlock", !.cred = c]
  <2>1. task[t] \in TaskRecord /\ c \in Credential /\ c.token = None
    BY <1>2, Constants DEF EnterPassphrase, Holds, Inv, Tasks, Types, Envelopes
  <2>2. q \in TaskRecord
    BY <2>1, TaskAtCred, Constants DEF Stage
  <2>3. q.at = "unlock" /\ q.cred = c
    BY <2>1 DEF TaskRecord
  <2>4. Shape(q) /\ Fits(q.cred, issued)
    BY <2>1, <2>3 DEF Shape, Fits
  <2>5. task' = [task EXCEPT ![t] = q] /\ UNCHANGED <<keychain, refreshInFlight, issued>>
    <3>1. task' = [task EXCEPT ![t].at = "unlock", ![t].cred = c]
      BY <1>2 DEF EnterPassphrase
    <3> QED BY <1>2, <3>1 DEF EnterPassphrase, googleVars, Inv, Tasks
  <2>6. Types' /\ Google'
    BY <1>2 DEF EnterPassphrase, googleVars, Inv, Types, Google
  <2> QED BY <2>2, <2>4, <2>5, <2>6, MoveKeeps DEF Inv, Grants
<1>3. CASE Migrate(t)
  <2> DEFINE c == task[t].cred
             q == [task[t] EXCEPT !.at = "clear", !.cred = None]
  <2>1. task[t] \in TaskRecord /\ c \in Credential /\ Fits(c, issued)
    BY <1>3 DEF Migrate, Holds, Inv, Tasks, Shape, Grants
  <2>2. q \in TaskRecord
    BY <2>1, TaskAtCred DEF Stage
  <2>3. q.at = "clear" /\ q.cred = None
    BY <2>1 DEF TaskRecord
  <2>4. Shape(q) /\ Fits(q.cred, issued)
    BY <2>3 DEF Shape, Fits
  <2>5. task' = [task EXCEPT ![t] = q] /\ UNCHANGED <<refreshInFlight, issued>>
    <3>1. task' = [task EXCEPT ![t].at = "clear", ![t].cred = None]
      BY <1>3 DEF Migrate
    <3> QED BY <1>3, <3>1 DEF Migrate, googleVars, Inv, Tasks
  <2>6. Types' /\ Google' /\ keychain' = c
    BY <1>3, <2>1 DEF Migrate, googleVars, Inv, Types, Google
  <2> QED BY <2>1, <2>2, <2>4, <2>5, <2>6, MoveKeeps
<1> QED BY <1>1, <1>2, <1>3

(* What the application starts with.                                       *)
LEMMA StartingType ==
  ASSUME NEW c, NEW e, NEW f \in Starting(c, e)
  PROVE  /\ f \in [Task -> TaskRecord \cup {None}]
         /\ \A t \in Task : f[t] # None => Shape(f[t]) /\ f[t].cred = None
<1>1. /\ Startup(c, e) \in TaskRecord \cup {None}
      /\ Startup(c, e) # None => Shape(Startup(c, e)) /\ Startup(c, e).cred = None
  <2> DEFINE q1 == NewTask("tidy", "clear", None)
             q2 == NewTask("migrate", "prompt", None)
  <2>1. q1 \in TaskRecord /\ q1.at = "clear" /\ q1.cred = None
    BY NewTaskType DEF Does, Stage, NewTask
  <2>2. q2 \in TaskRecord /\ q2.at = "prompt" /\ q2.cred = None
    BY NewTaskType DEF Does, Stage, NewTask
  <2> HIDE DEF q1, q2
  <2>3. Startup(c, e) \in {None, q1, q2}
    BY DEF Startup, q1, q2
  <2> QED BY <2>1, <2>2, <2>3 DEF Shape
<1>2. PICK t \in Task : f = [u \in Task |-> IF u = t THEN Startup(c, e) ELSE None]
  BY DEF Starting
<1> QED BY <1>1, <1>2

LEMMA RestartOK == Inv /\ Restart => Inv'
<1> SUFFICES ASSUME Inv, Restart PROVE Inv'
  OBVIOUS
<1>1. /\ UNCHANGED <<keychain, configured, owner, live, issued, honoured>>
      /\ legacy' = [cache |-> legacy.disk, disk |-> legacy.disk, broken |-> FALSE]
      /\ refreshInFlight' = None /\ activeSession' = None
      /\ task' \in Starting(keychain, legacy.disk)
  BY DEF Restart, googleVars
<1>2. legacy' \in Envelopes
  BY <1>1 DEF Inv, Types, Envelopes
<1>3. Tasks' /\ \A t \in Task : task'[t] # None => Fits(task'[t].cred, issued')
  BY <1>1, StartingType DEF Tasks, Fits, Shape, Asks
<1> QED BY <1>1, <1>2, <1>3 DEF Inv, Types, Google, Grants, Fits

LEMMA InitOK == Init => Inv
<1> SUFFICES ASSUME Init PROVE Inv
  OBVIOUS
<1>1. Types
  BY Constants DEF Init, Types, Envelopes
<1>2. Google
  <2>1. PICK a \in Account : owner = <<a>>
    BY DEF Init
  <2>2. owner \in Seq(Account) /\ Len(owner) = 1
    BY <2>1
  <2> QED BY <2>2 DEF Init, Google
<1>3. Tasks /\ Grants
  <2>1. task \in Starting(keychain, legacy.cache)
    BY DEF Init
  <2>2. Fits(keychain, issued) /\ Fits(refreshInFlight, issued)
    BY Constants DEF Init, Fits
  <2> QED BY <2>1, <2>2, StartingType DEF Tasks, Grants, Fits
<1> QED BY <1>1, <1>2, <1>3 DEF Inv

LEMMA StepOK == Inv /\ [Next]_vars => Inv'
<1> SUFFICES ASSUME Inv, [Next]_vars PROVE Inv'
  OBVIOUS
<1>1. CASE RefreshGranted \/ RefreshFails \/ Restart
  BY <1>1, RefreshGrantedOK, RefreshFailsOK, RestartOK
<1>2. CASE TokenEnds \/ TokenAges \/ Withdrawn \/ Cancel
  BY <1>2, TokensOK, CancelOK
<1>3. ASSUME NEW t \in Task, OpenSettings(t) \/ StartRequest(t) PROVE Inv'
  BY <1>3, RequestOK
<1>4. ASSUME NEW t \in Task, Connect(t) \/ OpenConsent(t) \/ Consent(t) \/ Exchange(t) PROVE Inv'
  BY <1>4, ConnectOK, OpenConsentOK, ConsentOK, ExchangeOK
<1>5. ASSUME NEW t \in Task, Forget(t) \/ Disconnect(t) \/ Import(t) PROVE Inv'
  BY <1>5, ForgetOK, ImportOK
<1>6. CASE EnterClientId \/ EnterSecret \/ RemoveSecret
  BY <1>6, SettingsOK
<1>7. ASSUME NEW t \in Task, Refused(t) \/ Retry(t) \/ Answered(t) PROVE Inv'
  BY <1>7, AttemptOK, AnsweredOK
<1>8. ASSUME NEW t \in Task, ConnectFails(t) \/ ClearFails(t) \/ RevokeFails(t) \/ Postpone(t)
      PROVE  Inv'
  BY <1>8, EndOK
<1>9. ASSUME NEW t \in Task, Revoke(t) \/ ClearLegacy(t) \/ EnterPassphrase(t) \/ Migrate(t)
      PROVE  Inv'
  BY <1>9, RevokeOK, ClearLegacyOK, MigrationOK
<1>10. ASSUME NEW t \in Task, Unanswered(t) PROVE Inv'
  BY <1>10, UnansweredOK
<1>11. CASE UNCHANGED vars
  <2>1. UNCHANGED <<deviceVars, googleVars>>
    BY <1>11 DEF vars
  <2> QED BY <2>1, OthersOK DEF deviceVars, googleVars, Inv, Types, Google, Grants
<1> QED BY <1>1, <1>2, <1>3, <1>4, <1>5, <1>6, <1>7, <1>8, <1>9, <1>10, <1>11
        DEF Next, User, Program

(***************************************************************************)
(* The latest command wins                                                 *)
(* Unless a command ran while another task or the refresh held an older    *)
(* copy, every copy that may still be saved is of the grant the latest     *)
(* command left, and the client secret beside it fits the configured one.  *)
(***************************************************************************)
USE DEF SecretFits

Saves(r) == r.at \in {"wait", "sent", "delay"} /\ r.does \in {"profile", "connect"}

Connecting(r) == r.at \in {"server", "consent", "exchange"}

IsCurrent(c, grant, accounts, secret) ==
  /\ grant \in Nat
  /\ c.grant = grant
  /\ c.email \in {None, accounts[grant]}
  /\ SecretFits(c, secret)

(* What a task may save, whether or not a command raced with it.           *)
Unsaved(r) ==
  r # None => /\ Connecting(r) => r.cred.email = None
              /\ r.at = "unlock" => r.cred = FirstCredential

(* A task that may save its copy saves the current one, and the address it *)
(* asks for is the one of the account.                                     *)
SavesCurrent(r, grant, accounts, secret, tokens) ==
  r # None => /\ Saves(r) => IsCurrent(r.cred, grant, accounts, secret)
              /\ Saves(r) /\ r.at = "sent" => tokens[r.token] = grant
              /\ Connecting(r) => r.cred.secret = secret

(* The credential has not moved from the envelope, and nothing clears it.  *)
StillThere ==
  /\ latest = 1 /\ legacy.disk = FirstCredential
  /\ \A t \in Task : task[t] # None => task[t].at # "clear"

Owners ==
  /\ Len(owner) >= 1
  /\ latest \in 1..Len(owner) \cup {None, Unknown}
  /\ latest = None => legacy.disk = None
  /\ \A t \in Task : Unsaved(task[t])

CurrentCopies ==
  /\ keychain # None => IsCurrent(keychain, latest, owner, clientSecret)
  /\ keychain = None /\ latest \in Nat => StillThere
  /\ refreshInFlight # None => IsCurrent(refreshInFlight, latest, owner, clientSecret)
  /\ \A t \in Task : SavesCurrent(task[t], latest, owner, clientSecret, issued)

Won == Owners /\ (raced \/ CurrentCopies)

(* No command replaces the credential: the tasks that move take the current *)
(* one, and accounts may be added.                                          *)
LEMMA TasksMove ==
  ASSUME Inv, Won, UNCHANGED <<clientSecret, latest, raced>>, legacy'.disk = legacy.disk,
         Len(owner') \in Nat, Len(owner') >= Len(owner),
         \A g \in 1..Len(owner) : owner'[g] = owner[g],
         keychain' = keychain \/ keychain' # None,
         keychain' = keychain \/ raced \/ IsCurrent(keychain', latest, owner, clientSecret),
         \/ refreshInFlight' \in {None, refreshInFlight}
         \/ raced
         \/ IsCurrent(refreshInFlight', latest, owner, clientSecret),
         \A u \in Task : /\ Unsaved(task'[u])
                         /\ raced \/ SavesCurrent(task'[u], latest, owner, clientSecret, issued')
                         /\ \/ task'[u] # None => task'[u].at # "clear"
                            \/ task'[u] = task[u] \/ keychain' # None \/ latest = Unknown
  PROVE  Won'
<1>1. Len(owner) \in Nat
  BY DEF Inv, Google
<1>2. Owners'
  BY <1>1 DEF Won, Owners, Unsaved, Connecting
<1>3. \A c : IsCurrent(c, latest, owner, clientSecret) => IsCurrent(c, latest, owner', clientSecret)
  BY <1>1 DEF Won, Owners, IsCurrent
<1>4. ASSUME ~raced PROVE CurrentCopies'
  <2>1. CurrentCopies
    BY <1>4 DEF Won
  <2>2. keychain' # None => IsCurrent(keychain', latest, owner', clientSecret)
    BY <1>3, <1>4, <2>1 DEF CurrentCopies
  <2>3. refreshInFlight' # None => IsCurrent(refreshInFlight', latest, owner', clientSecret)
    BY <1>3, <1>4, <2>1 DEF CurrentCopies
  <2>4. ASSUME NEW u \in Task
        PROVE  SavesCurrent(task'[u], latest, owner', clientSecret, issued')
    BY <1>3, <1>4 DEF SavesCurrent
  <2>5. keychain' = None /\ latest \in Nat => StillThere'
    BY <2>1 DEF CurrentCopies, StillThere
  <2> QED BY <2>2, <2>3, <2>4, <2>5 DEF CurrentCopies, SavesCurrent, Saves, Connecting, IsCurrent
<1> QED BY <1>2, <1>4 DEF Won

(* A command of t replaces the credential: either it raced with a copy, or  *)
(* only t and the refresh it starts hold one.                               *)
LEMMA Replaced ==
  ASSUME Inv, Won, NEW t \in Task, raced => raced', raced' \/ ~CopiesOut(t),
         \A u \in Task \ {t} : task'[u] = task[u],
         refreshInFlight' \in {refreshInFlight, keychain'},
         Unsaved(task'[t]),
         raced' \/ SavesCurrent(task'[t], latest', owner', clientSecret', issued'),
         raced' \/ keychain' = None \/ IsCurrent(keychain', latest', owner', clientSecret'),
         keychain' = None => latest' = Unknown,
         Len(owner') \in Nat \ {0}, latest' \in 1..Len(owner') \cup {Unknown}
  PROVE  Won'
<1>1. Unknown \notin Nat \cup {None} /\ None \notin Nat
  BY DEF Won
<1>2. Owners'
  BY <1>1 DEF Won, Owners, Unsaved, Connecting
<1>3. ASSUME ~raced' PROVE CurrentCopies'
  <2>1. refreshInFlight = None
    BY <1>3 DEF CopiesOut
  <2>2. ASSUME NEW u \in Task \ {t}, task[u] # None
        PROVE  ~Saves(task[u]) /\ ~Connecting(task[u])
    <3>1. task[u].does = "forget" \/ task[u].cred = None
      BY <1>3, <2>2 DEF CopiesOut
    <3>2. None \notin Copy /\ None \notin Credential
      BY NoneIsNoCredential
    <3>3. Shape(task[u])
      BY <2>2 DEF Inv, Tasks
    <3> QED BY <3>1, <3>2, <3>3 DEF Shape, Asks, Saves, Connecting
  <2>3. \A u \in Task : SavesCurrent(task'[u], latest', owner', clientSecret', issued')
    BY <1>3, <2>2 DEF SavesCurrent
  <2>4. keychain' = None => latest' \notin Nat
    BY <1>1
  <2> QED BY <1>3, <2>1, <2>3, <2>4
          DEF CurrentCopies, SavesCurrent, Saves, Connecting, IsCurrent
<1> QED BY <1>2, <1>3 DEF Won

(* A request of r takes the credential c.                                  *)
LEMMA AskSaves ==
  ASSUME Inv, NEW t \in Task, NEW r \in TaskRecord, NEW c \in Credential, Ask(t, r, c),
         NEW grant, NEW accounts, NEW secret, NEW tokens
  PROVE  /\ \A u \in Task \ {t} : task'[u] = task[u]
         /\ Unsaved(task'[t]) /\ task'[t].at # "clear"
         /\ /\ IsCurrent(c, grant, accounts, secret) /\ Fits(c, tokens)
            /\ r.does \in {"profile", "connect"} => IsCurrent(r.cred, grant, accounts, secret)
            => SavesCurrent(task'[t], grant, accounts, secret, tokens)
         /\ refreshInFlight' \in {refreshInFlight, c}
<1>1. PICK q \in TaskRecord :
        /\ task' = [task EXCEPT ![t] = q] /\ q.cred = r.cred /\ q.does = r.does
        /\ q.at \in {"wait", "sent"}
        /\ q.at = "sent" => q.token = c.token /\ c.token # None
        /\ refreshInFlight' \in {refreshInFlight, c}
  <2>1. CASE r.refused = {} /\ HasFreshToken(c)
    <3> DEFINE q == [r EXCEPT !.at = "sent", !.token = c.token]
    <3>1. c.token \in Token
      BY <2>1 DEF HasFreshToken, Credential
    <3>2. q.cred = r.cred /\ q.does = r.does /\ q.at = "sent" /\ q.token = c.token
      BY DEF TaskRecord
    <3>3. q \in TaskRecord
      BY <3>1, TaskAtToken DEF Stage
    <3>4. task' = [task EXCEPT ![t] = q] /\ refreshInFlight' = refreshInFlight
      BY <2>1 DEF Ask
    <3> QED BY <3>1, <3>2, <3>3, <3>4, Constants
  <2>2. CASE ~(r.refused = {} /\ HasFreshToken(c))
    <3> DEFINE q == [r EXCEPT !.at = "wait", !.token = None]
    <3>1. q.cred = r.cred /\ q.does = r.does /\ q.at = "wait"
      BY DEF TaskRecord
    <3>2. q \in TaskRecord
      BY TaskAtToken DEF Stage
    <3>3. task' = [task EXCEPT ![t] = q] /\ refreshInFlight' \in {refreshInFlight, c}
      BY <2>2 DEF Ask
    <3> QED BY <3>1, <3>2, <3>3
  <2> QED BY <2>1, <2>2
<1>2. task'[t] = q /\ \A u \in Task \ {t} : task'[u] = task[u]
  BY <1>1 DEF Inv, Tasks
<1>3. Unsaved(q)
  BY <1>1 DEF Unsaved, Connecting
<1>4. /\ IsCurrent(c, grant, accounts, secret) /\ Fits(c, tokens)
      /\ r.does \in {"profile", "connect"} => IsCurrent(r.cred, grant, accounts, secret)
      => SavesCurrent(q, grant, accounts, secret, tokens)
  <2>1. c # None
    BY NoneIsNoCredential
  <2> QED BY <1>1, <2>1 DEF SavesCurrent, Saves, Connecting, IsCurrent, Fits
<1> QED BY <1>1, <1>2, <1>3, <1>4

(* One task moves on, or ends, and nothing that may be saved changes.      *)
LEMMA TaskMoves ==
  ASSUME Inv, Won, NEW t \in Task, NEW q, task' = [task EXCEPT ![t] = q],
         UNCHANGED <<keychain, clientSecret, latest, raced, refreshInFlight, issued, owner>>,
         legacy'.disk = legacy.disk,
         Unsaved(q), raced \/ SavesCurrent(q, latest, owner, clientSecret, issued),
         q # None => q.at # "clear"
  PROVE  Won'
<1>1. Len(owner) \in Nat
  BY DEF Inv, Google
<1>2. ASSUME NEW u \in Task
      PROVE  /\ Unsaved(task'[u])
             /\ raced \/ SavesCurrent(task'[u], latest, owner, clientSecret, issued')
             /\ (task'[u] # None => task'[u].at # "clear") \/ task'[u] = task[u]
  <2>1. (task'[u] = q /\ u = t) \/ task'[u] = task[u]
    BY DEF Inv, Tasks
  <2> QED BY <2>1 DEF Won, Owners, CurrentCopies
<1> QED BY <1>1, <1>2, TasksMove

(* A task asks with what the Keychain holds, and saves that or nothing.    *)
LEMMA AskMoves ==
  ASSUME Inv, Won, NEW t \in Task, NEW r \in TaskRecord, keychain \in Credential,
         Ask(t, r, keychain),
         UNCHANGED <<keychain, clientSecret, latest, raced, owner, issued>>,
         legacy'.disk = legacy.disk,
         \/ raced \/ r.does \notin {"profile", "connect"}
         \/ IsCurrent(r.cred, latest, owner, clientSecret)
  PROVE  Won'
<1>1. keychain # None /\ Fits(keychain, issued) /\ Len(owner) \in Nat
  BY NoneIsNoCredential DEF Inv, Grants, Google
<1>2. raced \/ IsCurrent(keychain, latest, owner, clientSecret)
  BY <1>1 DEF Won, CurrentCopies
<1>3. /\ \A u \in Task \ {t} : task'[u] = task[u]
      /\ Unsaved(task'[t]) /\ task'[t].at # "clear"
      /\ raced \/ SavesCurrent(task'[t], latest, owner, clientSecret, issued)
      /\ refreshInFlight' \in {refreshInFlight, keychain}
  BY <1>1, <1>2, AskSaves
<1>4. ASSUME NEW u \in Task
      PROVE  /\ Unsaved(task'[u])
             /\ raced \/ SavesCurrent(task'[u], latest, owner, clientSecret, issued')
             /\ (task'[u] # None => task'[u].at # "clear") \/ task'[u] = task[u]
  BY <1>3 DEF Won, Owners, CurrentCopies
<1> QED BY <1>1, <1>2, <1>3, <1>4, TasksMove

LEMMA RequestWins ==
  ASSUME Inv, Won, NEW t \in Task, StartRequest(t) \/ OpenSettings(t) PROVE Won'
<1> DEFINE q1 == NewTask("request", "ask", None)
           q2 == NewTask("profile", "ask", keychain)
<1>1. /\ keychain \in Credential /\ keychain # None
      /\ UNCHANGED <<keychain, clientSecret, legacy, latest, raced, owner, issued>>
  BY DEF StartRequest, OpenSettings, Inv, Types, googleVars, ghostVars
<1>2. q1 \in TaskRecord /\ q1.does = "request"
  BY NewTaskType DEF Does, Stage, NewTask
<1>3. q2 \in TaskRecord /\ q2.cred = keychain
  BY <1>1, NewTaskType, Constants DEF Does, Stage, NewTask
<1>4. Ask(t, q1, keychain) \/ Ask(t, q2, keychain)
  BY DEF StartRequest, OpenSettings
<1>5. raced \/ IsCurrent(keychain, latest, owner, clientSecret)
  BY <1>1 DEF Won, CurrentCopies
<1> HIDE DEF q1, q2
<1> QED BY <1>1, <1>2, <1>3, <1>4, <1>5, AskMoves

(* The tokens that tasks wait with stay those of their grants.             *)
LEMMA IssueLeaves ==
  ASSUME Inv, NEW n \in Token, NEW g, Issue(n, g)
  PROVE  \A t \in Task : task[t] # None /\ task[t].at = "sent"
                           => issued'[task[t].token] = issued[task[t].token]
<1> SUFFICES ASSUME NEW t \in Task, task[t] # None, task[t].at = "sent"
             PROVE  issued'[task[t].token] = issued[task[t].token]
  OBVIOUS
<1>1. task[t].token \in InUse
  BY DEF InUse, Busy
<1>2. task[t].token \in Token
  BY DEF Inv, Tasks, Shape
<1> QED BY <1>1, <1>2 DEF Issue, Inv, Google

LEMMA RefreshGrantedWins ==
  ASSUME Inv, Won, RefreshGranted PROVE Won'
<1>1. refreshInFlight \in Credential /\ refreshInFlight # None /\ refreshInFlight.grant \in live
  BY DEF RefreshGranted, Inv, Types
<1>2. PICK n \in Token :
        /\ Issue(n, refreshInFlight.grant)
        /\ keychain' = [refreshInFlight EXCEPT !.token = n]
        /\ task' = [t \in Task |->
                      IF Holds(t, "wait") THEN [task[t] EXCEPT !.at = "sent", !.token = n] ELSE task[t]]
  BY DEF RefreshGranted
<1>3. /\ refreshInFlight' = None /\ Len(owner) \in Nat
      /\ UNCHANGED <<clientSecret, legacy, latest, raced, owner>>
  <2>1. Len(owner) \in Nat
    BY DEF Inv, Google
  <2> QED BY <2>1 DEF RefreshGranted, ghostVars
<1>4. raced \/ IsCurrent(refreshInFlight, latest, owner, clientSecret)
  BY <1>1 DEF Won, CurrentCopies
<1>5. keychain' # None /\ (raced \/ IsCurrent(keychain', latest, owner, clientSecret))
  BY <1>1, <1>2, <1>4, NoneIsNoCredential DEF Credential, IsCurrent
<1>6. issued'[n] = refreshInFlight.grant
  BY <1>1, <1>2, IssueEffect
<1>7. ASSUME NEW u \in Task
      PROVE  /\ Unsaved(task'[u])
             /\ raced \/ SavesCurrent(task'[u], latest, owner, clientSecret, issued')
  <2>1. Unsaved(task[u]) /\ (raced \/ SavesCurrent(task[u], latest, owner, clientSecret, issued))
    BY DEF Won, Owners, CurrentCopies
  <2>2. CASE Holds(u, "wait")
    <3> DEFINE q == [task[u] EXCEPT !.at = "sent", !.token = n]
    <3>1. task[u] \in TaskRecord /\ task[u] # None /\ task[u].at = "wait"
      BY <2>2 DEF Holds, Inv, Tasks
    <3>2. q.at = "sent" /\ q.token = n /\ q.cred = task[u].cred /\ q.does = task[u].does
      BY <3>1 DEF TaskRecord
    <3>3. task'[u] = q
      BY <1>2, <2>2
    <3> HIDE DEF q
    <3>4. raced \/ IsCurrent(refreshInFlight, latest, owner, clientSecret)
      BY <1>4
    <3> QED BY <1>6, <2>1, <3>1, <3>2, <3>3, <3>4
            DEF Unsaved, Connecting, SavesCurrent, Saves, IsCurrent
  <2>3. CASE ~Holds(u, "wait")
    <3>1. task'[u] = task[u]
      BY <1>2, <2>3
    <3>2. task[u] # None /\ task[u].at = "sent"
            => issued'[task[u].token] = issued[task[u].token]
      BY <1>2, IssueLeaves
    <3> QED BY <2>1, <3>1, <3>2 DEF SavesCurrent, Saves
  <2> QED BY <2>2, <2>3
<1> QED BY <1>3, <1>5, <1>7, TasksMove

(* What t does once its request has ended: it holds no copy.               *)
LEMMA RestWins ==
  ASSUME NEW t \in Task, NEW grant, NEW accounts, NEW secret, NEW tokens
  PROVE  /\ Unsaved(Rest(t)) /\ SavesCurrent(Rest(t), grant, accounts, secret, tokens)
         /\ Rest(t) # None => task[t].does = "connect"
BY DEF Rest, NewTask, Unsaved, SavesCurrent, Saves, Connecting

LEMMA FailWins ==
  ASSUME Inv, Won, NEW S \in SUBSET Task,
         \A t \in S : task[t] # None /\ task[t].at \in {"wait", "sent", "delay"},
         Fail(S), UNCHANGED <<clientSecret, legacy, latest, raced, owner, issued>>,
         refreshInFlight' \in {None, refreshInFlight}
  PROVE  Won'
<1>1. task' = [t \in Task |-> IF t \in S THEN Rest(t) ELSE task[t]]
  BY DEF Fail
<1>2. \/ keychain' = keychain /\ \A t \in S : task[t].does # "connect"
      \/ \E t \in S : task[t].does = "connect" /\ keychain' = task[t].cred
  BY DEF Fail
<1>3. ASSUME NEW t \in S, task[t].does = "connect"
      PROVE  /\ task[t].cred # None
             /\ raced \/ IsCurrent(task[t].cred, latest, owner, clientSecret)
  <2>1. Shape(task[t]) /\ task[t] # None
    BY DEF Inv, Tasks
  <2>2. raced \/ SavesCurrent(task[t], latest, owner, clientSecret, issued)
    BY DEF Won, CurrentCopies
  <2> QED BY <1>3, <2>1, <2>2, NoneIsNoCredential DEF Shape, Asks, SavesCurrent, Saves
<1>4. /\ keychain' = keychain \/ keychain' # None
      /\ keychain' = keychain \/ raced \/ IsCurrent(keychain', latest, owner, clientSecret)
  BY <1>2, <1>3
<1>5. ASSUME NEW u \in Task
      PROVE  /\ Unsaved(task'[u])
             /\ raced \/ SavesCurrent(task'[u], latest, owner, clientSecret, issued')
             /\ task'[u] = task[u] \/ task'[u] = None \/ keychain' # None
  <2>1. CASE u \in S
    BY <1>1, <1>2, <1>3, <2>1, RestWins
  <2>2. CASE u \notin S
    BY <1>1, <2>2 DEF Won, Owners, CurrentCopies
  <2> QED BY <2>1, <2>2
<1>6. Len(owner) \in Nat
  BY DEF Inv, Google
<1> QED BY <1>4, <1>5, <1>6, TasksMove

LEMMA RefreshFailsWins ==
  ASSUME Inv, Won, RefreshFails PROVE Won'
<1> DEFINE S == {t \in Task : Holds(t, "wait")}
<1>1. S \in SUBSET Task /\ \A t \in S : task[t] # None /\ task[t].at \in {"wait", "sent", "delay"}
  BY DEF Holds
<1>2. /\ Fail(S) /\ refreshInFlight' = None
      /\ UNCHANGED <<clientSecret, legacy, latest, raced, owner, issued>>
  BY DEF RefreshFails, googleVars
<1> HIDE DEF S
<1> QED BY <1>1, <1>2, FailWins

LEMMA AttemptWins ==
  ASSUME Inv, Won, NEW t \in Task, Refused(t) \/ Retry(t) PROVE Won'
<1>1. /\ UNCHANGED <<clientSecret, legacy, latest, raced, owner, issued>>
      /\ task[t] # None /\ task[t].at \in {"sent", "delay"}
  BY DEF Refused, Retry, Holds, googleVars, ghostVars
<1>2. CASE Fail({t}) /\ UNCHANGED refreshInFlight
  BY <1>1, <1>2, FailWins
<1>3. ASSUME NEW r \in TaskRecord, r.does = task[t].does, r.cred = task[t].cred, Again(t, r)
      PROVE  Won'
  <2> DEFINE q == [r EXCEPT !.tries = @ + 1]
  <2>1. CASE keychain # None /\ Ask(t, q, keychain) /\ UNCHANGED keychain
    <3>1. q \in TaskRecord /\ q.does = task[t].does /\ q.cred = task[t].cred
      BY <1>3, TaskAttempt
    <3>2. keychain \in Credential
      BY <2>1 DEF Inv, Types
    <3>3. raced \/ SavesCurrent(task[t], latest, owner, clientSecret, issued)
      BY DEF Won, CurrentCopies
    <3>4. \/ raced \/ q.does \notin {"profile", "connect"}
          \/ IsCurrent(q.cred, latest, owner, clientSecret)
      BY <1>1, <3>1, <3>3 DEF SavesCurrent, Saves
    <3> HIDE DEF q
    <3> QED BY <1>1, <2>1, <3>1, <3>2, <3>4, AskMoves
  <2> QED BY <1>2, <1>3, <2>1 DEF Again
<1>4. task[t] \in TaskRecord
  BY <1>1 DEF Inv, Tasks
<1>5. CASE Retry(t)
  BY <1>3, <1>4, <1>5 DEF Retry
<1>6. CASE Refused(t) /\ task[t].refused = {}
  <2> DEFINE r == [task[t] EXCEPT !.refused = {task[t].token}]
  <2>1. task[t].token \in Token
    BY <1>6 DEF Refused, Holds, Inv, Tasks, Shape
  <2>2. r \in TaskRecord /\ r.does = task[t].does /\ r.cred = task[t].cred
    BY <1>4, <2>1, TaskRefused
  <2>3. Again(t, r)
    BY <1>6 DEF Refused
  <2> QED BY <1>3, <2>2, <2>3
<1>7. CASE Refused(t) /\ task[t].refused # {}
  BY <1>2, <1>7 DEF Refused
<1> QED BY <1>5, <1>6, <1>7

LEMMA AnsweredWins ==
  ASSUME Inv, Won, NEW t \in Task, Answered(t) PROVE Won'
<1> DEFINE a == owner[issued[task[t].token]]
<1>1. /\ task[t] \in TaskRecord /\ task[t] # None /\ task[t].at = "sent" /\ Asks(task[t])
      /\ task' = [task EXCEPT ![t] = Rest(t)] /\ Len(owner) \in Nat
      /\ UNCHANGED <<clientSecret, legacy, refreshInFlight, latest, raced, owner, issued>>
  BY DEF Answered, Holds, googleVars, ghostVars, Inv, Tasks, Shape, Google
<1>2. raced \/ SavesCurrent(task[t], latest, owner, clientSecret, issued)
  BY DEF Won, CurrentCopies
<1>3. \/ keychain' = keychain /\ task[t].does = "request"
      \/ /\ keychain' # None /\ task[t].does # "request"
         /\ raced \/ IsCurrent(keychain', latest, owner, clientSecret)
  <2>1. CASE task[t].does = "request"
    BY <2>1 DEF Answered
  <2>2. CASE task[t].does # "request"
    <3>1. task[t].cred \in Credential /\ task[t].does \in {"profile", "connect"}
      BY <1>1, <2>2 DEF Asks
    <3>2. keychain' = [task[t].cred EXCEPT !.email = a]
      BY <2>2 DEF Answered
    <3>3. a \in Account
      <4>1. task[t].token \in honoured
        BY DEF Answered
      <4>2. issued[task[t].token] \in 1..Len(owner)
        BY <4>1 DEF Inv, Google
      <4>3. owner \in Seq(Account)
        BY DEF Inv, Google
      <4> QED BY <4>2, <4>3
    <3>4. keychain' \in Credential
      BY <3>1, <3>2, <3>3, CopyEmail
    <3>5. /\ keychain'.grant = task[t].cred.grant /\ keychain'.secret = task[t].cred.secret
          /\ keychain'.client = task[t].cred.client /\ keychain'.email = a
      BY <3>1, <3>2 DEF Credential
    <3>6. \/ raced
          \/ /\ IsCurrent(task[t].cred, latest, owner, clientSecret)
             /\ issued[task[t].token] = latest
      BY <1>1, <1>2, <3>1 DEF SavesCurrent, Saves
    <3> QED BY <2>2, <3>4, <3>5, <3>6, NoneIsNoCredential DEF IsCurrent
  <2> QED BY <2>1, <2>2
<1>4. ASSUME NEW u \in Task
      PROVE  /\ Unsaved(task'[u])
             /\ raced \/ SavesCurrent(task'[u], latest, owner, clientSecret, issued')
             /\ task'[u] = task[u] \/ task'[u] = None \/ keychain' # None
  <2>1. CASE u = t
    <3>1. task'[u] = Rest(t)
      BY <1>1, <2>1 DEF Inv, Tasks
    <3> QED BY <1>3, <3>1, RestWins
  <2>2. CASE u # t
    BY <1>1, <2>2 DEF Won, Owners, CurrentCopies
  <2> QED BY <2>1, <2>2
<1> QED BY <1>1, <1>3, <1>4, TasksMove

LEMMA ConnectWins ==
  ASSUME Inv, Won, NEW t \in Task, Connect(t) PROVE Won'
<1> DEFINE cred == [FirstCredential EXCEPT !.grant = 0, !.client = clientId, !.secret = clientSecret]
           q == NewTask("connect", "server", cred)
<1>1. /\ UNCHANGED <<keychain, clientSecret, legacy, refreshInFlight, latest, raced, owner, issued>>
      /\ \A u \in Task : task'[u] \in {q, None, task[u]}
  BY DEF Connect, googleVars
<1>2. /\ q.at = "server" /\ q.cred.email = None /\ q.cred.secret = clientSecret
  BY DEF NewTask, FirstCredential
<1> HIDE DEF q
<1>3. ASSUME NEW u \in Task
      PROVE  /\ Unsaved(task'[u])
             /\ raced \/ SavesCurrent(task'[u], latest, owner, clientSecret, issued')
             /\ (task'[u] # None => task'[u].at # "clear") \/ task'[u] = task[u]
  <2>1. Unsaved(q) /\ SavesCurrent(q, latest, owner, clientSecret, issued')
    BY <1>2 DEF Unsaved, Connecting, SavesCurrent, Saves
  <2>2. Unsaved(None) /\ SavesCurrent(None, latest, owner, clientSecret, issued')
    BY DEF Unsaved, SavesCurrent
  <2>3. /\ Unsaved(task[u])
        /\ raced \/ SavesCurrent(task[u], latest, owner, clientSecret, issued')
    BY <1>1 DEF Won, Owners, CurrentCopies
  <2> QED BY <1>1, <1>2, <2>1, <2>2, <2>3
<1>4. Len(owner) \in Nat
  BY DEF Inv, Google
<1> QED BY <1>1, <1>3, <1>4, TasksMove

LEMMA CancelWins == Inv /\ Won /\ Cancel => Won'
<1> SUFFICES ASSUME Inv, Won, Cancel PROVE Won'
  OBVIOUS
<1>1. /\ UNCHANGED <<keychain, clientSecret, legacy, refreshInFlight, latest, raced, owner, issued>>
      /\ \A u \in Task : task'[u] \in {None, task[u]}
  BY DEF Cancel, googleVars
<1>2. ASSUME NEW u \in Task
      PROVE  /\ Unsaved(task'[u])
             /\ raced \/ SavesCurrent(task'[u], latest, owner, clientSecret, issued')
             /\ (task'[u] # None => task'[u].at # "clear") \/ task'[u] = task[u]
  BY <1>1 DEF Won, Owners, CurrentCopies, Unsaved, SavesCurrent
<1>3. Len(owner) \in Nat
  BY DEF Inv, Google
<1> QED BY <1>1, <1>2, <1>3, TasksMove

LEMMA ConsentWins ==
  ASSUME Inv, Won, NEW t \in Task, OpenConsent(t) \/ Consent(t) PROVE Won'
<1>1. task[t] \in TaskRecord /\ task[t] # None /\ Connecting(task[t]) /\ task[t].cred \in Copy
  BY DEF OpenConsent, Consent, Holds, Inv, Tasks, Shape, Connecting
<1>2. Unsaved(task[t]) /\ (raced \/ SavesCurrent(task[t], latest, owner, clientSecret, issued))
  BY DEF Won, Owners, CurrentCopies
<1>3. task[t].cred.email = None /\ (raced \/ task[t].cred.secret = clientSecret)
  BY <1>1, <1>2 DEF Unsaved, SavesCurrent
<1>4. CASE OpenConsent(t)
  <2> DEFINE q == [task[t] EXCEPT !.at = "consent"]
  <2>1. q.at = "consent" /\ q.cred = task[t].cred
    BY <1>1 DEF TaskRecord
  <2>2. /\ task' = [task EXCEPT ![t] = q]
        /\ UNCHANGED <<keychain, clientSecret, legacy, refreshInFlight, latest, raced, owner, issued>>
    BY <1>4 DEF OpenConsent, Goto, googleVars, ghostVars
  <2> HIDE DEF q
  <2>3. Unsaved(q) /\ (raced \/ SavesCurrent(q, latest, owner, clientSecret, issued))
    BY <1>3, <2>1 DEF Unsaved, SavesCurrent, Saves, Connecting
  <2> QED BY <2>1, <2>2, <2>3, TaskMoves
<1>5. CASE Consent(t)
  <2> DEFINE q == [task[t] EXCEPT !.at = "exchange", !.cred.grant = Len(owner) + 1]
  <2>1. /\ q.at = "exchange" /\ q.cred.email = task[t].cred.email
        /\ q.cred.secret = task[t].cred.secret
    BY <1>1 DEF TaskRecord, Copy
  <2>2. task' = [task EXCEPT ![t].at = "exchange", ![t].cred.grant = Len(owner) + 1]
    BY <1>5 DEF Consent
  <2>3. task' = [task EXCEPT ![t] = q]
    BY <2>2 DEF Inv, Tasks
  <2>4. UNCHANGED <<keychain, clientSecret, legacy, refreshInFlight, latest, raced, issued>>
    BY <1>5 DEF Consent, ghostVars
  <2>5. PICK a \in Account : owner' = Append(owner, a)
    BY <1>5 DEF Consent
  <2>6. /\ Len(owner') \in Nat /\ Len(owner') >= Len(owner)
        /\ \A g \in 1..Len(owner) : owner'[g] = owner[g]
    BY <2>5 DEF Inv, Google
  <2> HIDE DEF q
  <2>7. ASSUME NEW u \in Task
        PROVE  /\ Unsaved(task'[u])
               /\ raced \/ SavesCurrent(task'[u], latest, owner, clientSecret, issued')
               /\ (task'[u] # None => task'[u].at # "clear") \/ task'[u] = task[u]
    <3>1. Unsaved(q) /\ (raced \/ SavesCurrent(q, latest, owner, clientSecret, issued'))
      BY <1>3, <2>1 DEF Unsaved, SavesCurrent, Saves, Connecting
    <3>2. (u = t /\ task'[u] = q) \/ task'[u] = task[u]
      BY <2>3 DEF Inv, Tasks
    <3> QED BY <2>1, <2>4, <3>1, <3>2 DEF Won, Owners, CurrentCopies
  <2> QED BY <2>4, <2>6, <2>7, TasksMove
<1> QED BY <1>4, <1>5

LEMMA ExchangeWins ==
  ASSUME Inv, Won, NEW t \in Task, Exchange(t) PROVE Won'
<1>1. task[t] \in TaskRecord /\ task[t] # None /\ task[t].at = "exchange"
      /\ task[t].cred \in Credential /\ task[t].cred.grant \in live
  BY DEF Exchange, Holds, Inv, Tasks, Shape
<1>2. PICK n \in Token :
        LET c == [task[t].cred EXCEPT !.token = n] IN
          /\ Issue(n, c.grant) /\ keychain' = c /\ Ask(t, [task[t] EXCEPT !.cred = c], c)
  BY DEF Exchange
<1> DEFINE c == [task[t].cred EXCEPT !.token = n]
           r == [task[t] EXCEPT !.cred = c]
<1>3. c \in Credential /\ c.grant = task[t].cred.grant /\ c.token = n
  BY <1>1, CopyToken
<1>4. c.email = task[t].cred.email /\ c.secret = task[t].cred.secret /\ c.secret = c.client
  BY <1>1 DEF Credential, Exchange, Authentic
<1>5. r \in TaskRecord /\ r.cred = c
  BY <1>1, <1>3, TaskCred, Constants
<1>6. Issue(n, c.grant) /\ keychain' = c /\ Ask(t, r, c)
  BY <1>2
<1> HIDE DEF c, r
<1>7. issued'[n] = c.grant
  BY <1>1, <1>3, <1>6, IssueEffect
<1>8. /\ UNCHANGED <<clientSecret, legacy, owner>>
      /\ latest' = c.grant /\ raced' = (raced \/ CopiesOut(t))
  BY <1>3 DEF Exchange, Replace
<1>9. Len(owner) \in Nat \ {0} /\ c.grant \in 1..Len(owner)
  <2>1. Len(owner) \in Nat /\ live \subseteq 1..Len(owner)
    BY DEF Inv, Google
  <2>2. Len(owner) >= 1
    BY DEF Won, Owners
  <2>3. c.grant \in 1..Len(owner)
    BY <1>1, <1>3, <2>1
  <2>4. \A k \in Nat : k >= 1 => k # 0
    OBVIOUS
  <2> QED BY <2>1, <2>2, <2>3, <2>4
<1>10. raced \/ IsCurrent(c, latest', owner', clientSecret')
  <2>1. Unsaved(task[t]) /\ (raced \/ SavesCurrent(task[t], latest, owner, clientSecret, issued))
    BY DEF Won, Owners, CurrentCopies
  <2>2. c.email = None /\ (raced \/ c.secret = clientSecret)
    BY <1>1, <1>4, <2>1 DEF Unsaved, SavesCurrent, Connecting
  <2> QED BY <1>4, <1>8, <1>9, <2>2 DEF IsCurrent
<1>11. /\ \A u \in Task \ {t} : task'[u] = task[u]
       /\ Unsaved(task'[t]) /\ refreshInFlight' \in {refreshInFlight, c}
       /\ IsCurrent(c, latest', owner', clientSecret') /\ Fits(c, issued')
            => SavesCurrent(task'[t], latest', owner', clientSecret', issued')
  BY <1>3, <1>5, <1>6, AskSaves
<1>12. Fits(c, issued')
  BY <1>3, <1>7 DEF Fits
<1>13. c # None
  BY <1>3, NoneIsNoCredential
<1> QED BY <1>6, <1>8, <1>9, <1>10, <1>11, <1>12, <1>13, Replaced

LEMMA ForgetWins ==
  ASSUME Inv, Won, NEW t \in Task, Forget(t) PROVE Won'
<1> DEFINE q == NewTask("forget", "clear", None)
<1>1. q.at = "clear" /\ q.does = "forget"
  BY DEF NewTask
<1>2. /\ task' = [task EXCEPT ![t] = q] /\ keychain' = None
      /\ latest' = Unknown /\ raced' = (raced \/ CopiesOut(t))
      /\ UNCHANGED <<refreshInFlight, owner>>
  BY DEF Forget, Begin, Replace, googleVars
<1> HIDE DEF q
<1>3. task'[t] = q /\ \A u \in Task \ {t} : task'[u] = task[u]
  BY <1>2 DEF Inv, Tasks
<1>4. Unsaved(q) /\ SavesCurrent(q, latest', owner', clientSecret', issued')
  BY <1>1 DEF Unsaved, SavesCurrent, Saves, Connecting
<1>5. Len(owner) \in Nat \ {0}
  BY DEF Inv, Google, Won, Owners
<1> QED BY <1>2, <1>3, <1>4, <1>5, Replaced

LEMMA RevokeWins ==
  ASSUME Inv, Won, NEW t \in Task, Revoke(t) PROVE Won'
<1> DEFINE q == NewTask("forget", "clear", None)
<1>1. q.at = "clear" /\ q.does = "forget"
  BY DEF NewTask
<1>2. UNCHANGED <<legacy, refreshInFlight, owner, issued>>
  BY DEF Revoke, Withdraw
<1>3. CASE task' = [task EXCEPT ![t] = None] /\ UNCHANGED <<keychain, clientSecret, latest, raced>>
  BY <1>2, <1>3, TaskMoves DEF Unsaved, SavesCurrent
<1>4. CASE /\ task' = [task EXCEPT ![t] = q] /\ keychain' = None /\ latest' = Unknown
           /\ (raced \/ CopiesOut(t)) => raced'
  <2> HIDE DEF q
  <2>1. task'[t] = q /\ \A u \in Task \ {t} : task'[u] = task[u]
    BY <1>4 DEF Inv, Tasks
  <2>2. Unsaved(q) /\ SavesCurrent(q, latest', owner', clientSecret', issued')
    BY <1>1 DEF Unsaved, SavesCurrent, Saves, Connecting
  <2>3. Len(owner) \in Nat \ {0}
    BY DEF Inv, Google, Won, Owners
  <2> QED BY <1>2, <1>4, <2>1, <2>2, <2>3, Replaced
<1> QED BY <1>3, <1>4 DEF Revoke, Begin, End

LEMMA ImportWins ==
  ASSUME Inv, Won, NEW t \in Task, Import(t) PROVE Won'
<1> DEFINE g == Len(owner) + 1
<1>1. PICK a \in Account, b \in Bundles :
        LET cred == [grant |-> g, token |-> None, client |-> b.client,
                     secret |-> IF b.secret THEN b.client ELSE None,
                     email |-> IF b.named THEN a ELSE None] IN
          /\ owner' = Append(owner, a) /\ keychain' = cred /\ clientSecret' = cred.secret
          /\ clientId' \in {clientId, b.client}
          /\ IF b.named \/ legacy.broken THEN UNCHANGED <<task, refreshInFlight>>
             ELSE Ask(t, NewTask("profile", "ask", cred), cred)
  BY DEF Import
<1> DEFINE cred == [grant |-> g, token |-> None, client |-> b.client,
                    secret |-> IF b.secret THEN b.client ELSE None,
                    email |-> IF b.named THEN a ELSE None]
           r == NewTask("profile", "ask", cred)
<1>2. /\ task[t] = None /\ latest' = g /\ raced' = (raced \/ CopiesOut(t))
      /\ issued' = issued
  BY DEF Import, Replace
<1>3. /\ g \in Nat \ {0} /\ Len(owner') = g /\ owner'[g] = a /\ b.client \in Client
  BY <1>1 DEF Inv, Google
<1>4. cred \in Credential /\ cred.token = None
  BY <1>3 DEF Credential
<1>5. IsCurrent(cred, latest', owner', clientSecret')
  BY <1>1, <1>2, <1>3 DEF IsCurrent
<1>6. Fits(cred, issued')
  BY <1>4 DEF Fits
<1>7. r \in TaskRecord /\ r.cred = cred
  <2> HIDE DEF cred
  <2> QED BY <1>4, NewTaskType, Constants DEF Does, Stage, NewTask
<1>8. keychain' = cred /\ (b.named \/ legacy.broken \/ Ask(t, r, cred))
  BY <1>1
<1>9. b.named \/ legacy.broken => UNCHANGED <<task, refreshInFlight>>
  BY <1>1
<1> HIDE DEF cred, r, g
<1>10. cred # None
  BY <1>4, NoneIsNoCredential
<1>11. /\ \A u \in Task \ {t} : task'[u] = task[u]
       /\ Unsaved(task'[t]) /\ refreshInFlight' \in {refreshInFlight, cred}
       /\ SavesCurrent(task'[t], latest', owner', clientSecret', issued')
  <2>1. CASE b.named \/ legacy.broken
    BY <1>2, <1>9, <2>1 DEF Unsaved, SavesCurrent
  <2>2. CASE ~(b.named \/ legacy.broken)
    BY <1>4, <1>5, <1>6, <1>7, <1>8, <2>2, AskSaves
  <2> QED BY <2>1, <2>2
<1>12. Len(owner') \in Nat \ {0} /\ latest' \in 1..Len(owner')
  BY <1>2, <1>3
<1> QED BY <1>2, <1>5, <1>8, <1>10, <1>11, <1>12, Replaced

LEMMA MigrateWins ==
  ASSUME Inv, Won, NEW t \in Task, Migrate(t) PROVE Won'
<1> DEFINE c == task[t].cred
           q == [task[t] EXCEPT !.at = "clear", !.cred = None]
<1>1. task[t] \in TaskRecord /\ task[t] # None /\ c = FirstCredential
  BY DEF Migrate, Holds, Inv, Tasks, Won, Owners, Unsaved
<1>2. /\ keychain' = c /\ latest' = c.grant
      /\ raced' = (raced \/ CopiesOut(t) \/ keychain # None \/ c.secret # clientSecret)
      /\ UNCHANGED <<clientSecret, refreshInFlight, owner>>
  BY DEF Migrate, googleVars
<1>3. q.at = "clear"
  BY <1>1 DEF TaskRecord
<1>4. task' = [task EXCEPT ![t] = q]
  <2>1. task' = [task EXCEPT ![t].at = "clear", ![t].cred = None]
    BY DEF Migrate
  <2> QED BY <2>1 DEF Inv, Tasks
<1> HIDE DEF q
<1>5. task'[t] = q /\ \A u \in Task \ {t} : task'[u] = task[u]
  BY <1>4 DEF Inv, Tasks
<1>6. Unsaved(q) /\ SavesCurrent(q, latest', owner', clientSecret', issued')
  BY <1>3 DEF Unsaved, SavesCurrent, Saves, Connecting
<1> HIDE DEF c
<1>7. /\ FirstCredential.grant = 1 /\ FirstCredential.email = None
      /\ FirstCredential.secret = FirstCredential.client
  BY DEF FirstCredential
<1>8. c # None /\ latest' = 1 /\ c.grant = 1 /\ c.email = None /\ c.secret = c.client
  BY <1>1, <1>2, <1>7, Constants, NoneIsNoCredential
<1>9. Len(owner) \in Nat \ {0}
  BY DEF Inv, Google, Won, Owners
<1>10. raced' \/ c.secret = clientSecret
  BY <1>2
<1>11. raced' \/ IsCurrent(c, latest', owner', clientSecret')
  BY <1>2, <1>8, <1>10 DEF IsCurrent
<1>12. (raced => raced') /\ (raced' \/ ~CopiesOut(t))
  BY <1>2
<1>13. latest' \in 1..Len(owner')
  BY <1>2, <1>8, <1>9
<1>14. keychain' = c /\ keychain' # None /\ Len(owner') \in Nat \ {0} /\ UNCHANGED refreshInFlight
  BY <1>2, <1>8, <1>9
<1> QED BY <1>5, <1>6, <1>11, <1>12, <1>13, <1>14, Replaced

LEMMA EnterClientIdWins == Inv /\ Won /\ EnterClientId => Won'
BY DEF EnterClientId, googleVars, Won, Owners, CurrentCopies, StillThere, Unsaved, SavesCurrent,
       IsCurrent, Saves, Connecting

LEMMA SecretWins ==
  ASSUME Inv, Won, EnterSecret \/ RemoveSecret PROVE Won'
<1>1. PICK s \in Client \cup {None} :
        /\ ChangeSecret(s) /\ clientSecret' = s
        /\ \/ /\ keychain # None /\ keychain' = [keychain EXCEPT !.secret = s]
              /\ s \in {None, keychain.client}
           \/ /\ keychain' = keychain
              /\ keychain = None \/ s \notin {None, keychain.client}
  <2>1. CASE EnterSecret
    BY <2>1 DEF EnterSecret, WithSecret, ChangeSecret, Inv, Types
  <2>2. CASE RemoveSecret
    BY <2>2 DEF RemoveSecret, WithSecret, ChangeSecret
  <2> QED BY <2>1, <2>2
<1>2. /\ UNCHANGED <<legacy, refreshInFlight, task, owner, issued, latest>>
      /\ raced' = (raced \/ refreshInFlight # None
                         \/ \E t \in Task : task[t] # None /\ task[t].cred # None)
  BY <1>1 DEF ChangeSecret, googleVars
<1>3. Owners'
  BY <1>2 DEF Won, Owners, Unsaved, Connecting
<1>4. ASSUME ~raced' PROVE CurrentCopies'
  <2>1. CurrentCopies /\ refreshInFlight = None
    BY <1>2, <1>4 DEF Won
  <2>2. ASSUME keychain # None
        PROVE  keychain' # None /\ IsCurrent(keychain', latest', owner', clientSecret')
    <3>1. CASE keychain' = [keychain EXCEPT !.secret = s] /\ s \in {None, keychain.client}
      <4>1. keychain \in Credential
        BY <2>2 DEF Inv, Types
      <4>2. /\ keychain' \in Credential /\ keychain'.grant = keychain.grant
            /\ keychain'.email = keychain.email /\ keychain'.client = keychain.client
            /\ keychain'.secret = s
        BY <3>1, <4>1, CopySecret
      <4> QED BY <1>1, <1>2, <2>1, <2>2, <3>1, <4>2, NoneIsNoCredential
              DEF CurrentCopies, IsCurrent
    <3>2. CASE keychain' = keychain /\ s \notin {None, keychain.client}
      BY <1>1, <1>2, <2>1, <2>2, <3>2 DEF CurrentCopies, IsCurrent
    <3> QED BY <1>1, <2>2, <3>1, <3>2
  <2>3. keychain = None => keychain' = None
    BY <1>1
  <2>4. ASSUME NEW u \in Task
        PROVE  SavesCurrent(task'[u], latest', owner', clientSecret', issued')
    <3>1. task[u] # None => task[u].cred = None
      BY <1>2, <1>4
    <3>2. task[u] # None => Shape(task[u])
      BY DEF Inv, Tasks
    <3> QED BY <1>2, <3>1, <3>2, NoneIsNoCredential
            DEF Shape, Asks, SavesCurrent, Saves, Connecting
  <2>5. keychain' = None /\ latest' \in Nat => StillThere'
    BY <1>2, <2>1, <2>2 DEF CurrentCopies, StillThere
  <2> QED BY <1>2, <2>1, <2>2, <2>3, <2>4, <2>5
          DEF CurrentCopies, SavesCurrent, Saves, Connecting, IsCurrent
<1> QED BY <1>3, <1>4 DEF Won

(* Tasks that end, wait, or start to revoke, and nothing is saved.         *)
LEMMA EndWins ==
  ASSUME Inv, Won, NEW t \in Task,
         ConnectFails(t) \/ ClearFails(t) \/ RevokeFails(t) \/ Postpone(t) \/ Disconnect(t)
  PROVE  Won'
<1> DEFINE q == NewTask("forget", "revoke", keychain)
<1>1. q.at = "revoke"
  BY DEF NewTask
<1>2. /\ UNCHANGED <<keychain, clientSecret, latest, raced, refreshInFlight, issued, owner>>
      /\ task' = [task EXCEPT ![t] = None] \/ task' = [task EXCEPT ![t] = q]
  BY DEF ConnectFails, ClearFails, RevokeFails, Postpone, Disconnect, Begin, End, googleVars,
         ghostVars
<1>3. legacy'.disk = legacy.disk
  <2>1. legacy' = legacy \/ legacy' = [legacy EXCEPT !.cache = None, !.broken = TRUE]
    BY DEF ConnectFails, ClearFails, RevokeFails, Postpone, Disconnect
  <2> QED BY <2>1 DEF Inv, Types, Envelopes
<1> HIDE DEF q
<1>4. /\ Unsaved(q) /\ SavesCurrent(q, latest, owner, clientSecret, issued)
      /\ Unsaved(None) /\ SavesCurrent(None, latest, owner, clientSecret, issued)
  BY <1>1 DEF Unsaved, SavesCurrent, Saves, Connecting
<1> QED BY <1>1, <1>2, <1>3, <1>4, TaskMoves

LEMMA UnansweredWins ==
  ASSUME Inv, Won, NEW t \in Task, Unanswered(t) PROVE Won'
<1> DEFINE q == [task[t] EXCEPT !.at = "delay"]
<1>1. task[t] \in TaskRecord /\ task[t] # None /\ task[t].at = "sent"
  BY DEF Unanswered, Holds, Inv, Tasks
<1>2. q.at = "delay" /\ q.cred = task[t].cred /\ q.does = task[t].does
  BY <1>1 DEF TaskRecord
<1>3. /\ task' = [task EXCEPT ![t] = q]
      /\ UNCHANGED <<keychain, clientSecret, legacy, latest, raced, refreshInFlight, issued, owner>>
  BY DEF Unanswered, Goto, googleVars
<1>4. raced \/ SavesCurrent(task[t], latest, owner, clientSecret, issued)
  BY DEF Won, CurrentCopies
<1> HIDE DEF q
<1>5. Unsaved(q) /\ (raced \/ SavesCurrent(q, latest, owner, clientSecret, issued))
  BY <1>1, <1>2, <1>4 DEF Unsaved, SavesCurrent, Saves, Connecting
<1> QED BY <1>2, <1>3, <1>5, TaskMoves

LEMMA PassphraseWins ==
  ASSUME Inv, Won, NEW t \in Task, EnterPassphrase(t) PROVE Won'
<1>1. /\ UNCHANGED <<keychain, clientSecret, legacy, latest, raced, refreshInFlight, issued, owner>>
      /\ task[t] \in TaskRecord
  BY DEF EnterPassphrase, Holds, googleVars, ghostVars, Inv, Tasks
<1>2. CASE legacy.cache = None
  <2>1. task' = [task EXCEPT ![t] = None]
    BY <1>2 DEF EnterPassphrase, End
  <2> QED BY <1>1, <2>1, TaskMoves DEF Unsaved, SavesCurrent
<1>3. CASE legacy.cache # None
  <2> DEFINE q == [task[t] EXCEPT !.at = "unlock", !.cred = legacy.cache]
  <2>1. q.at = "unlock" /\ q.cred = legacy.cache
    BY <1>1 DEF TaskRecord
  <2>2. task' = [task EXCEPT ![t] = q]
    <3>1. task' = [task EXCEPT ![t].at = "unlock", ![t].cred = legacy.cache]
      BY <1>3 DEF EnterPassphrase
    <3> QED BY <3>1 DEF Inv, Tasks
  <2>3. legacy.cache = FirstCredential
    BY <1>3 DEF Inv, Types, Envelopes
  <2> HIDE DEF q
  <2>4. Unsaved(q) /\ SavesCurrent(q, latest, owner, clientSecret, issued)
    BY <2>1, <2>3 DEF Unsaved, SavesCurrent, Saves, Connecting
  <2> QED BY <1>1, <2>1, <2>2, <2>4, TaskMoves
<1> QED BY <1>2, <1>3

(* What the application starts with holds no copy.                         *)
LEMMA StartingTasks ==
  ASSUME NEW c, NEW e, NEW f \in Starting(c, e), NEW u \in Task,
         NEW grant, NEW accounts, NEW secret, NEW tokens
  PROVE  /\ f[u] # None => /\ f[u].at \in {"clear", "prompt"}
                           /\ f[u].at = "clear" => c # None
         /\ Unsaved(f[u]) /\ SavesCurrent(f[u], grant, accounts, secret, tokens)
<1>1. f[u] = None \/ f[u] = Startup(c, e)
  BY DEF Starting
<1>2. f[u] # None => /\ f[u].at \in {"clear", "prompt"}
                     /\ f[u].at = "clear" => c # None
  BY <1>1 DEF Startup, NewTask
<1> QED BY <1>2 DEF Unsaved, SavesCurrent, Saves, Connecting

LEMMA ClearLegacyWins ==
  ASSUME Inv, Won, NEW t \in Task, ClearLegacy(t) PROVE Won'
<1> DEFINE r == NewTask("profile", "ask", keychain)
<1>1. /\ UNCHANGED <<keychain, clientSecret, raced, owner, issued>>
      /\ task[t] # None /\ task[t].at = "clear"
      /\ latest' = IF latest = Unknown THEN None ELSE latest
      /\ legacy'.disk = None /\ Unknown \notin Nat \cup {None} /\ None \notin Nat
      /\ Len(owner) \in Nat
  BY DEF ClearLegacy, Holds, googleVars, Inv, Types, Envelopes, Google
<1>2. /\ refreshInFlight' \in {refreshInFlight, keychain}
      /\ \A u \in Task : /\ Unsaved(task'[u])
                         /\ raced \/ SavesCurrent(task'[u], latest, owner, clientSecret, issued)
  <2>1. ASSUME NEW u \in Task
        PROVE  /\ Unsaved(task[u])
               /\ raced \/ SavesCurrent(task[u], latest, owner, clientSecret, issued)
    BY DEF Won, Owners, CurrentCopies
  <2>2. CASE task' = [task EXCEPT ![t] = None] /\ UNCHANGED refreshInFlight
    BY <2>1, <2>2 DEF Inv, Tasks, Unsaved, SavesCurrent
  <2>3. CASE keychain # None /\ Ask(t, r, keychain)
    <3>1. keychain \in Credential /\ Fits(keychain, issued)
      BY <2>3 DEF Inv, Types, Grants
    <3>2. r \in TaskRecord /\ r.cred = keychain
      BY <3>1, NewTaskType, Constants DEF Does, Stage, NewTask
    <3>3. raced \/ IsCurrent(keychain, latest, owner, clientSecret)
      BY <2>3 DEF Won, CurrentCopies
    <3> HIDE DEF r
    <3> QED BY <2>1, <2>3, <3>1, <3>2, <3>3, AskSaves
  <2> QED BY <2>2, <2>3 DEF ClearLegacy, End
<1>3. Owners'
  BY <1>1, <1>2 DEF Won, Owners, Unsaved, Connecting
<1>4. ASSUME ~raced PROVE CurrentCopies'
  <2>1. CurrentCopies
    BY <1>4 DEF Won
  <2>2. \A c : IsCurrent(c, latest, owner, clientSecret)
                 => IsCurrent(c, latest', owner', clientSecret')
    BY <1>1 DEF IsCurrent
  <2>3. latest' \in Nat => latest' = latest
    BY <1>1
  <2>4. keychain' # None => IsCurrent(keychain', latest', owner', clientSecret')
    BY <1>1, <2>1, <2>2 DEF CurrentCopies
  <2>5. keychain' = None => latest' \notin Nat
    BY <1>1, <2>1, <2>3 DEF CurrentCopies, StillThere
  <2>6. refreshInFlight' # None => IsCurrent(refreshInFlight', latest', owner', clientSecret')
    BY <1>2, <2>1, <2>2 DEF CurrentCopies
  <2>7. ASSUME NEW u \in Task
        PROVE  SavesCurrent(task'[u], latest', owner', clientSecret', issued')
    <3>1. SavesCurrent(task'[u], latest, owner, clientSecret, issued)
      BY <1>2, <1>4
    <3>2. Saves(task'[u]) /\ task'[u] # None => latest' = latest
      BY <2>3, <3>1, <1>1 DEF SavesCurrent, IsCurrent
    <3> QED BY <1>1, <2>2, <3>1, <3>2 DEF SavesCurrent
  <2> QED BY <2>4, <2>5, <2>6, <2>7 DEF CurrentCopies, SavesCurrent, Saves, Connecting, IsCurrent
<1> QED BY <1>1, <1>3, <1>4 DEF Won

LEMMA RestartWins == Inv /\ Won /\ Restart => Won'
<1> SUFFICES ASSUME Inv, Won, Restart PROVE Won'
  OBVIOUS
<1>1. /\ UNCHANGED <<keychain, clientSecret, owner, issued, latest, raced>>
      /\ legacy'.disk = legacy.disk /\ refreshInFlight' = None
      /\ task' \in Starting(keychain, legacy.disk)
  BY DEF Restart, googleVars
<1>2. ASSUME NEW u \in Task
      PROVE  /\ task'[u] # None => /\ task'[u].at \in {"clear", "prompt"}
                                   /\ task'[u].at = "clear" => keychain # None
             /\ Unsaved(task'[u])
             /\ SavesCurrent(task'[u], latest, owner, clientSecret, issued')
  BY <1>1, StartingTasks
<1>3. Len(owner) \in Nat
  BY DEF Inv, Google
<1> QED BY <1>1, <1>2, <1>3, TasksMove

(* Google's side, and time. *)
LEMMA TokensWin == Inv /\ Won /\ (Withdrawn \/ TokenEnds \/ TokenAges) => Won'
<1> SUFFICES ASSUME Inv, Won, Withdrawn \/ TokenEnds \/ TokenAges PROVE Won'
  OBVIOUS
<1>1. UNCHANGED <<deviceVars, owner, issued, latest, raced>>
  BY DEF Withdrawn, Withdraw, TokenEnds, TokenAges
<1> QED BY <1>1 DEF deviceVars, Won, Owners, CurrentCopies, StillThere, Unsaved, SavesCurrent,
           IsCurrent, Saves, Connecting

LEMMA InitWins == Init => Won
<1> SUFFICES ASSUME Init PROVE Won
  OBVIOUS
<1>1. PICK a \in Account : owner = <<a>>
  BY DEF Init
<1>2. Len(owner) = 1 /\ latest = 1 /\ refreshInFlight = None /\ clientSecret = FirstClient
  BY <1>1 DEF Init
<1>3. ASSUME NEW u \in Task
      PROVE  /\ task[u] # None /\ task[u].at = "clear" => keychain # None
             /\ Unsaved(task[u]) /\ SavesCurrent(task[u], latest, owner, clientSecret, issued)
  <2>1. task \in Starting(keychain, legacy.cache)
    BY DEF Init
  <2> QED BY <2>1, StartingTasks
<1>4. /\ keychain = None \/ keychain = FirstCredential
      /\ keychain = None => legacy.disk = FirstCredential
  BY DEF Init
<1>5. FirstCredential # None
  BY Constants, NoneIsNoCredential
<1>6. IsCurrent(FirstCredential, latest, owner, clientSecret)
  BY <1>2 DEF FirstCredential, IsCurrent
<1>7. Owners
  <2>1. None \notin Nat /\ 1 \in Nat
    OBVIOUS
  <2>2. latest # None
    BY <1>2, <2>1
  <2>3. Len(owner) >= 1 /\ latest \in 1..Len(owner)
    BY <1>2
  <2> QED BY <1>3, <2>2, <2>3 DEF Owners
<1>8. CurrentCopies
  BY <1>2, <1>3, <1>4, <1>6 DEF CurrentCopies, StillThere
<1> QED BY <1>7, <1>8 DEF Won

LEMMA StepWins == Inv /\ Won /\ [Next]_vars => Won'
<1> SUFFICES ASSUME Inv, Won, [Next]_vars PROVE Won'
  OBVIOUS
<1>1. CASE RefreshGranted \/ RefreshFails \/ Restart
  BY <1>1, RefreshGrantedWins, RefreshFailsWins, RestartWins
<1>2. CASE TokenEnds \/ TokenAges \/ Withdrawn \/ Cancel
  BY <1>2, TokensWin, CancelWins
<1>3. ASSUME NEW t \in Task, OpenSettings(t) \/ StartRequest(t) PROVE Won'
  BY <1>3, RequestWins
<1>4. ASSUME NEW t \in Task, Connect(t) \/ OpenConsent(t) \/ Consent(t) \/ Exchange(t) PROVE Won'
  BY <1>4, ConnectWins, ConsentWins, ExchangeWins
<1>5. ASSUME NEW t \in Task, Forget(t) \/ Import(t) \/ Revoke(t) \/ Migrate(t) PROVE Won'
  BY <1>5, ForgetWins, ImportWins, RevokeWins, MigrateWins
<1>6. CASE EnterClientId \/ EnterSecret \/ RemoveSecret
  BY <1>6, EnterClientIdWins, SecretWins
<1>7. ASSUME NEW t \in Task, Refused(t) \/ Retry(t) \/ Answered(t) \/ Unanswered(t) PROVE Won'
  BY <1>7, AttemptWins, AnsweredWins, UnansweredWins
<1>8. ASSUME NEW t \in Task,
             ConnectFails(t) \/ ClearFails(t) \/ RevokeFails(t) \/ Postpone(t) \/ Disconnect(t)
      PROVE  Won'
  BY <1>8, EndWins
<1>9. ASSUME NEW t \in Task, ClearLegacy(t) \/ EnterPassphrase(t) PROVE Won'
  BY <1>9, ClearLegacyWins, PassphraseWins
<1>10. CASE UNCHANGED vars
  BY <1>10 DEF vars, deviceVars, googleVars, ghostVars, Won, Owners, CurrentCopies, StillThere,
       Unsaved, SavesCurrent, IsCurrent, Saves, Connecting
<1> QED BY <1>1, <1>2, <1>3, <1>4, <1>5, <1>6, <1>7, <1>8, <1>9, <1>10 DEF Next, User, Program

(***************************************************************************)
(* Theorems                                                                *)
(***************************************************************************)
LEMMA Invariant == Spec => []Inv
BY InitOK, StepOK, PTL DEF Spec

\* Type correctness: whatever refreshes, commands and restarts interleave, what
\* the Keychain, TokenManager and the envelope hold is a complete credential or
\* nothing (credential-schema.ts), and Google accepts only tokens it issued.
THEOREM TypeCorrect == Spec => []TypeOK
<1>1. Inv => TypeOK
  BY Constants DEF Inv, Types, Google, Envelopes, TypeOK
<1> QED BY <1>1, Invariant, PTL

\* The access token in the Keychain always belongs to the grant saved beside it,
\* although a refresh and a request for the account's address save whole copies
\* taken before (token-manager.ts:43-93, main.ts:570-593).
THEOREM TokensBelong == Spec => []TokenOfItsGrant
<1>1. Inv => TokenOfItsGrant
  BY DEF Inv, Grants, Fits, TokenOfItsGrant
<1> QED BY <1>1, Invariant, PTL

\* A request never repeats a token Drive has refused to it
\* (drive-client.ts:361-369).
THEOREM RetriesUseNewTokens == Spec => []RetryUsesNewToken
<1>1. Inv => RetryUsesNewToken
  BY DEF Inv, Tasks, Shape, RetryUsesNewToken, Holds
<1> QED BY <1>1, Invariant, PTL

\* The Keychain holds what the last command left there, unless it raced with a
\* copy taken before (raced) or the envelope is not cleared yet (latest = Unknown):
\* a refresh, a request for the account's address, a failed request of connect and
\* the migration save copies of the credential, and all of them are of the grant
\* that was left last, with no secret but their own client's, the one configured
\* if it is (main.ts:340-353, :506-593, token-manager.ts:121).
THEOREM LatestWins == Spec => []LatestCommandWins
<1>1. Init => Inv /\ Won
  BY InitOK, InitWins
<1>2. Inv /\ Won /\ [Next]_vars => (Inv /\ Won)'
  BY StepOK, StepWins
<1>3. Won => LatestCommandWins
  <2>1. FirstCredential # None /\ FirstCredential.grant = 1
    BY Constants, NoneIsNoCredential DEF FirstCredential
  <2> QED BY <2>1 DEF Won, Owners, CurrentCopies, StillThere, IsCurrent, LatestCommandWins
<1> QED BY <1>1, <1>2, <1>3, PTL DEF Spec
=============================================================================
