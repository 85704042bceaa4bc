---------------------------- MODULE UploadProofs ----------------------------
(***************************************************************************)
(* Proofs about Upload, for every size, chunk size, threshold and number   *)
(* of attempts.  TypeOK and Session together are inductive: they tie every *)
(* request under way, and every answer, to the one session the client      *)
(* uses.  NoGap, OneFile and the refinement of Transfer follow.            *)
(***************************************************************************)
EXTENDS Upload, TLAPS

(* Where the client is, and which session it has. *)
Stages ==
  /\ stage = "opening" => Resumable /\ session = None
  /\ stage = "posting" => ~Resumable /\ session = None
  /\ stage = "sending" => Resumable /\ session \in Attempt /\ offset <= committed[session]
  /\ ~Resumable => session = None
  /\ stage = "done" <=> result # None
  /\ result # None => result \in files
  /\ Ended => ~asked

(* Drive's answer belongs to the stage. *)
Answers ==
  reply # None =>
    /\ asked
    /\ reply.kind = "session" => stage = "opening"
    /\ reply.kind = "partial" => stage = "sending" /\ reply.upto <= committed[session]
    /\ reply.kind = "complete" => stage \in {"sending", "posting"} /\ reply.of \in files

(* Chunks, and the files they complete, are of the client's session. *)
OneSession ==
  /\ \A m \in wire :
       /\ m.kind = "put" => m.session = session /\ m.start <= committed[m.session]
       /\ m.kind = "post" => ~Resumable
  /\ \A s \in Attempt : s # session => committed[s] = 0
  /\ Resumable => \A f \in files : f = session

Session == Stages /\ Answers /\ OneSession

USE UploadAssumption, NoneIsNoAttempt

LEMMA FirstAttempt == 0 \in Attempt
BY DEF Attempt

LEMMA RequestKinds ==
  ASSUME TypeOK, Session, ~Ended
  PROVE  /\ stage = "opening" => Request = [kind |-> "open", attempt |-> attempt]
         /\ stage = "posting" => Request = [kind |-> "post", attempt |-> attempt]
         /\ stage = "sending" => Request = [kind |-> "put", attempt |-> attempt, session |-> session,
                                            start |-> offset, end |-> ChunkEnd]
         /\ stage \in {"opening", "posting", "sending"}
         /\ Request \in Requests
BY DEF TypeOK, Session, Stages, Ended, Request, Requests, ChunkEnd, Smaller

(* Drive holds at least what it held, and no more than the chunk ends. *)
LEMMA HeldGrows ==
  ASSUME TypeOK, NEW m \in wire, m.kind = "put", NEW upto \in Held(m)
  PROVE  /\ upto \in committed[m.session]..size
         /\ m.session \in Attempt
BY DEF TypeOK, Held, Larger, Requests

LEMMA SameSets == size' = size => Requests' = Requests /\ Replies' = Replies
BY DEF Requests, Replies

LEMMA FaultCounted == TypeOK /\ Fault => faults' \in 0..MaxFaults
BY DEF TypeOK, Fault

LEMMA InitOK == Init => TypeOK /\ Session
<1> SUFFICES ASSUME Init PROVE TypeOK /\ Session
  OBVIOUS
<1>1. size \in Nat \ {0} /\ 0 \in Attempt /\ 0 \in 0..size /\ 0 \in 0..MaxFaults
  BY FirstAttempt DEF Init
<1>2. TypeOK
  BY <1>1 DEF Init, TypeOK, Resumable
<1>3. Session
  BY DEF Init, Session, Stages, Answers, OneSession, Resumable, Ended
<1> QED BY <1>2, <1>3

LEMMA SendOK == TypeOK /\ Session /\ Send => TypeOK' /\ Session'
<1> SUFFICES ASSUME TypeOK, Session, Send PROVE TypeOK' /\ Session'
  OBVIOUS
<1>1. Request \in Requests /\ wire' = wire \union {Request}
  BY RequestKinds DEF Send
<1>2. TypeOK'
  BY <1>1 DEF TypeOK, Send, drive, Requests, Replies
<1>3. Stages' /\ Answers'
  BY DEF Session, Stages, Answers, Send, Resumable, Ended, drive
<1>4. /\ Request.kind = "put" => Request.session = session /\ Request.start <= committed[session]
      /\ Request.kind = "post" => ~Resumable
  BY RequestKinds DEF Send, Session, Stages
<1>5. OneSession'
  BY <1>1, <1>4 DEF Session, OneSession, Send, Resumable, drive
<1> QED BY <1>2, <1>3, <1>5 DEF Session

LEMMA SessionOpenedOK == TypeOK /\ Session /\ SessionOpened => TypeOK' /\ Session'
<1> SUFFICES ASSUME TypeOK, Session, SessionOpened PROVE TypeOK' /\ Session'
  OBVIOUS
<1>1. stage = "opening" /\ session = None /\ reply.of \in Attempt /\ Resumable /\ 0 \in 0..size
  BY DEF SessionOpened, TypeOK, Session, Stages, Answers, Replies
<1>2. TypeOK'
  BY <1>1, SameSets, FirstAttempt DEF TypeOK, SessionOpened, GoOn, drive
<1>3. wire = wire' /\ \A m \in wire : m.kind # "put"
  BY <1>1 DEF Session, OneSession, TypeOK, Requests, SessionOpened
<1>4. Session'
  BY <1>1, <1>3 DEF Session, Stages, Answers, OneSession, SessionOpened, GoOn, Resumable, Ended,
                    drive, TypeOK
<1> QED BY <1>2, <1>4

LEMMA ContinuedOK == TypeOK /\ Session /\ Continued => TypeOK' /\ Session'
<1> SUFFICES ASSUME TypeOK, Session, Continued PROVE TypeOK' /\ Session'
  OBVIOUS
<1>1. /\ stage = "sending" /\ session \in Attempt /\ Resumable
      /\ reply.upto \in 0..size /\ reply.upto <= committed[session]
  BY DEF Continued, TypeOK, Session, Stages, Answers, Replies
<1>2. TypeOK'
  BY <1>1, SameSets, FirstAttempt DEF TypeOK, Continued, GoOn, NextOffset, drive
<1>3. Session'
  BY <1>1 DEF Session, Stages, Answers, OneSession, Continued, GoOn, NextOffset, Resumable, Ended,
              drive, TypeOK
<1> QED BY <1>2, <1>3

LEMMA CompletedOK == TypeOK /\ Session /\ Completed => TypeOK' /\ Session'
<1> SUFFICES ASSUME TypeOK, Session, Completed PROVE TypeOK' /\ Session'
  OBVIOUS
<1>1. reply.of \in Attempt /\ reply.of \in files /\ reply.of # None
  BY DEF Completed, TypeOK, Session, Answers
<1>2. TypeOK'
  BY <1>1, SameSets, FirstAttempt DEF TypeOK, Completed, GoOn, drive
<1>3. Session'
  BY <1>1 DEF Session, Stages, Answers, OneSession, Completed, GoOn, Resumable, Ended, drive
<1> QED BY <1>2, <1>3

LEMMA RetryOK == TypeOK /\ Session /\ Retry => TypeOK' /\ Session'
<1> SUFFICES ASSUME TypeOK, Session, Retry PROVE TypeOK' /\ Session'
  OBVIOUS
<1>1. TypeOK'
  BY SameSets, FaultCounted DEF TypeOK, Retry, Again, drive
<1>2. Session'
  BY DEF Session, Stages, Answers, OneSession, Retry, Again, Resumable, Ended, drive
<1> QED BY <1>1, <1>2

LEMMA EndsOK == TypeOK /\ Session /\ (GiveUp \/ Cancel) => TypeOK' /\ Session'
<1> SUFFICES ASSUME TypeOK, Session, GiveUp \/ Cancel PROVE TypeOK' /\ Session'
  OBVIOUS
<1>1. /\ GoOn("failed", offset) /\ Fault /\ ~Ended
      /\ UNCHANGED <<size, session, result, wire, drive>>
  BY DEF GiveUp, Cancel, Session, Stages
<1>2. TypeOK'
  BY <1>1, SameSets, FirstAttempt, FaultCounted DEF TypeOK, GoOn, drive
<1>3. Session'
  BY <1>1 DEF Session, Stages, Answers, OneSession, GoOn, Resumable, Ended, drive
<1> QED BY <1>2, <1>3

LEMMA OpenOK ==
  ASSUME TypeOK, Session, NEW m \in wire, Open(m) PROVE TypeOK' /\ Session'
<1>1. m.attempt \in Attempt
  BY DEF TypeOK, Requests
<1>2. IsCurrent(m) => stage = "opening"
  BY RequestKinds DEF IsCurrent, Open
<1>3. TypeOK'
  BY <1>1 DEF TypeOK, Open, Handle, Answer, client, drive, Requests, Replies
<1>4. Session'
  BY <1>2 DEF Session, Stages, Answers, OneSession, Open, Handle, Answer, IsCurrent, Resumable,
              Ended, client, drive
<1> QED BY <1>3, <1>4

LEMMA PostOK ==
  ASSUME TypeOK, Session, NEW m \in wire, Post(m) PROVE TypeOK' /\ Session'
<1>1. m.attempt \in Attempt /\ ~Resumable
  BY DEF TypeOK, Requests, Session, OneSession, Post
<1>2. IsCurrent(m) => stage = "posting"
  BY RequestKinds DEF IsCurrent, Post
<1>3. TypeOK'
  BY <1>1 DEF TypeOK, Post, Handle, Answer, client, drive, Requests, Replies
<1>4. Session'
  BY <1>1, <1>2 DEF Session, Stages, Answers, OneSession, Post, Handle, Answer, IsCurrent, Resumable,
              Ended, client, drive
<1> QED BY <1>3, <1>4

LEMMA PutOK ==
  ASSUME TypeOK, Session, NEW m \in wire, Put(m) PROVE TypeOK' /\ Session'
<1>1. PICK upto \in Held(m) :
        /\ IF upto < m.end THEN Fault ELSE UNCHANGED faults
        /\ committed' = [committed EXCEPT ![m.session] = upto]
        /\ files' = IF upto = size THEN files \union {m.session} ELSE files
        /\ Answer(m, IF upto = size THEN [kind |-> "complete", of |-> m.session]
                     ELSE [kind |-> "partial", upto |-> upto])
  BY DEF Put
<1>2. /\ m.session = session /\ session \in Attempt /\ m.kind = "put"
      /\ upto \in committed[session]..size /\ committed[session] \in 0..size
  BY HeldGrows DEF Put, TypeOK, Session, OneSession
<1>3. IsCurrent(m) => stage = "sending"
  BY <1>2, RequestKinds DEF IsCurrent
<1>4. wire' = wire \ {m} /\ UNCHANGED <<size, client>> /\ faults' \in 0..MaxFaults
  BY <1>1 DEF Put, Handle, TypeOK, Fault
<1>5. committed' \in [Attempt -> 0..size] /\ committed'[session] = upto
  BY <1>1, <1>2 DEF TypeOK
<1>6. reply' \in Replies \union {None}
  BY <1>1, <1>2 DEF TypeOK, Answer, Replies
<1>7. files' \subseteq Attempt /\ files \subseteq files'
  BY <1>1, <1>2 DEF TypeOK
<1>8. TypeOK'
  BY <1>4, <1>5, <1>6, <1>7 DEF TypeOK, client, Requests, Replies
<1>9. Stages'
  BY <1>2, <1>4, <1>5, <1>7 DEF Session, Stages, Resumable, Ended, client, TypeOK
<1>10. Answers'
  <2>1. CASE IsCurrent(m) /\ upto = size
    <3>1. reply' = [kind |-> "complete", of |-> session] /\ session \in files'
      BY <1>1, <1>2, <2>1 DEF Answer
    <3> QED BY <3>1, <1>3, <1>4, <2>1 DEF Answers, IsCurrent, client
  <2>2. CASE IsCurrent(m) /\ upto # size
    <3>1. reply' = [kind |-> "partial", upto |-> upto]
      BY <1>1, <1>2, <2>2 DEF Answer
    <3> QED BY <3>1, <1>2, <1>3, <1>4, <1>5, <2>2 DEF Answers, IsCurrent, client
  <2>3. CASE ~IsCurrent(m)
    <3>1. reply' = reply
      BY <1>1, <2>3 DEF Answer
    <3> QED BY <3>1, <1>2, <1>4, <1>5, <1>7 DEF Session, Answers, client, TypeOK, Replies
  <2> QED BY <2>1, <2>2, <2>3
<1>11. OneSession'
  <2>1. \A n \in wire' : n.kind = "put" => n.session = session' /\ n.start <= committed'[n.session]
    <3>1. \A n \in wire : n.kind = "put" => n.session = session /\ n.start <= committed[n.session]
      BY DEF Session, OneSession
    <3>2. \A n \in wire : n.kind = "put" => n.start \in Nat
      BY DEF TypeOK, Requests
    <3>3. wire' \subseteq wire /\ session' = session /\ committed[session] <= committed'[session]
      BY <1>2, <1>4, <1>5 DEF client
    <3> QED BY <1>2, <1>5, <3>1, <3>2, <3>3
  <2>2. \A s \in Attempt : s # session' => committed'[s] = 0
    BY <1>1, <1>2, <1>4 DEF Session, OneSession, client, TypeOK
  <2> QED BY <1>1, <1>2, <1>4, <2>1, <2>2 DEF Session, OneSession, Resumable, client
<1> QED BY <1>8, <1>9, <1>10, <1>11 DEF Session

LEMMA StepOK == TypeOK /\ Session /\ [Next]_vars => TypeOK' /\ Session'
<1> SUFFICES ASSUME TypeOK, Session, [Next]_vars PROVE TypeOK' /\ Session'
  OBVIOUS
<1>1. CASE Client
  BY <1>1, SendOK, SessionOpenedOK, ContinuedOK, CompletedOK, RetryOK, EndsOK DEF Client
<1>2. CASE Drive
  BY <1>2, OpenOK, PostOK, PutOK DEF Drive
<1>3. CASE UNCHANGED vars
  BY <1>3 DEF vars, client, drive, TypeOK, Session, Stages, Answers, OneSession, Resumable, Ended,
              Requests, Replies
<1> QED BY <1>1, <1>2, <1>3 DEF Next

(* Every variable keeps to its type (resumable-upload.ts).                 *)
THEOREM TypeCorrect == Spec => []TypeOK
<1>1. Init => TypeOK /\ Session  BY InitOK
<1>2. TypeOK /\ Session /\ [Next]_vars => (TypeOK /\ Session)'  BY StepOK
<1> QED BY <1>1, <1>2, PTL DEF Spec

LEMMA SessionHolds == Spec => [](TypeOK /\ Session)
<1>1. Init => TypeOK /\ Session  BY InitOK
<1>2. TypeOK /\ Session /\ [Next]_vars => (TypeOK /\ Session)'  BY StepOK
<1> QED BY <1>1, <1>2, PTL DEF Spec

(* The client never leaves a gap in what Drive holds                       *)
(* (resumable-upload.ts:40).                                               *)
THEOREM NoGapEver == Spec => []NoGap
<1>1. TypeOK /\ Session => NoGap
  BY DEF Session, Stages, OneSession, NoGap
<1> QED BY <1>1, SessionHolds, PTL

(* A resumable upload makes one file at most, however its requests are     *)
(* repeated or delayed (resumable-upload.ts:20, drive-client.ts:335).      *)
THEOREM AtMostOneFile == Spec => []OneFile
<1>1. TypeOK /\ Session => OneFile
  BY DEF Session, OneSession, OneFile
<1> QED BY <1>1, SessionHolds, PTL

(* An upload implements the promise of Transfer (vault-drive-client.ts:65). *)
THEOREM PromiseKept == Spec => KeepsPromise
<1>1. Init => Promise!Init
  BY DEF Init, Promise!Init, Resumable
<1>2. TypeOK /\ Session /\ [Next]_vars => [Promise!Next]_(Promise!vars)
  <2> SUFFICES ASSUME TypeOK, Session, [Next]_vars PROVE [Promise!Next]_(Promise!vars)
    OBVIOUS
  <2> USE DEF Promise!Next, Promise!vars
  <2>1. CASE Send \/ SessionOpened \/ Retry
    BY <2>1, RequestKinds DEF Send, SessionOpened, Retry, Again, GoOn, Resumable, drive, Session, Stages,
              Answers, Ended
  <2>2. CASE Continued
    <3>1. stage = "sending" /\ result = None
      BY <2>2 DEF Continued, Session, Stages, Answers
    <3> QED BY <2>2, <3>1 DEF Continued, GoOn, Promise!Fail, Resumable, drive
  <2>3. CASE Completed
    <3>1. /\ reply.of \in files /\ reply.of \in Attempt
          /\ stage \in {"sending", "posting"} /\ result = None
      BY <2>3 DEF Completed, Session, Stages, Answers, TypeOK
    <3>2. Promise!Return(reply.of)
      BY <2>3, <3>1 DEF Completed, GoOn, Promise!Return, Resumable, drive
    <3> QED BY <3>1, <3>2
  <2>4. CASE GiveUp \/ Cancel
    <3>1. ~Ended /\ result = None
      BY <2>4 DEF GiveUp, Cancel, Session, Stages, Ended
    <3> QED BY <2>4, <3>1 DEF GiveUp, Cancel, GoOn, Ended, Promise!Fail, Resumable, drive
  <2>5. CASE Drive
    <3>1. PICK m \in wire : Open(m) \/ Post(m) \/ Put(m)
      BY <2>5 DEF Drive
    <3>2. CASE Open(m)
      BY <3>2 DEF Open, client, drive, Resumable
    <3>3. CASE Post(m)
      <4>1. m.attempt \in Attempt /\ ~Resumable
        BY <3>3 DEF TypeOK, Requests, Session, OneSession, Post
      <4>2. Promise!Store(m.attempt)
        BY <3>3, <4>1 DEF Post, Promise!Store, client, Resumable
      <4> QED BY <4>1, <4>2
    <3>4. CASE Put(m)
      <4>1. m.session = session /\ session \in Attempt
        BY <3>4, HeldGrows DEF Put, Session, OneSession
      <4>2. files' = files \/ files' = files \union {session}
        BY <3>4, <4>1 DEF Put
      <4>3. UNCHANGED <<size, stage, result>>
        BY <3>4 DEF Put, client
      <4>4. CASE files' = files
        BY <4>3, <4>4 DEF Resumable
      <4>5. CASE files' = files \union {session} /\ files' # files
        <5>1. Resumable => files = {}
          BY <4>5 DEF Session, OneSession
        <5>2. Promise!Store(session)
          BY <4>3, <4>5, <5>1 DEF Promise!Store, Resumable
        <5> QED BY <4>1, <5>2
      <4> QED BY <4>2, <4>4, <4>5
    <3> QED BY <3>1, <3>2, <3>3, <3>4
  <2>6. CASE UNCHANGED vars
    BY <2>6 DEF vars, client, drive, Resumable
  <2> QED BY <2>1, <2>2, <2>3, <2>4, <2>5, <2>6 DEF Next, Client
<1> QED BY <1>1, <1>2, SessionHolds, PTL DEF Spec, KeepsPromise, Promise!Spec
=============================================================================
