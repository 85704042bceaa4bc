------------------------------- MODULE Upload -------------------------------
(***************************************************************************)
(* One upload of a file: VaultDriveClient.uploadVaultFile, which sends     *)
(* large content in chunks to an upload session (resumable-upload.ts) and  *)
(* small content in one multipart request, each request with the retries   *)
(* of rawRequest (drive-client.ts, retry-policy.ts).                       *)
(*                                                                         *)
(* The network loses a request or its answer, and delivers a request after *)
(* the client has given it up: a request stays in `wire' until Drive       *)
(* handles it, which may be never.  Drive (external) commits any part of a *)
(* chunk and tells how much of the file it holds.                          *)
(***************************************************************************)
EXTENDS Naturals

CONSTANTS
  None,
  Sizes,       \* sizes of content, in units of 256 KiB
  Chunk,       \* options.chunkSize
  Threshold,   \* resumableThreshold
  Attempts,    \* attempts at one request
  MaxFaults    \* lost answers, partial commits, refusals, cancellations

ASSUME UploadAssumption ==
  /\ Sizes \subseteq Nat \ {0}
  /\ Chunk \in Nat \ {0} /\ Threshold \in Nat
  /\ Attempts \in Nat \ {0} /\ MaxFaults \in Nat

(* A session, and the file it becomes, is known by the attempt that opened *)
(* it; a file of a multipart request by the attempt that posted it.        *)
Attempt == 0..(Attempts - 1)
ASSUME NoneIsNoAttempt == None \notin Attempt

VARIABLES
  size,        \* input.content.byteLength
  stage,       \* the request the client is at, or how the upload ended
  attempt,     \* rawRequest's attempt
  asked,       \* the attempt's fetch is under way
  reply,       \* what Drive answered to it, not received yet
  session,     \* sessionUrl
  offset,      \* offset
  result,      \* the file returned
  wire,        \* requests Drive has not handled
  committed,   \* what each session holds
  files,       \* the files on Drive
  faults

client == <<stage, attempt, asked, session, offset, result>>
drive == <<committed, files>>
vars == <<size, client, reply, wire, drive, faults>>

Smaller(a, b) == IF a < b THEN a ELSE b
Larger(a, b) == IF a < b THEN b ELSE a

Resumable == size >= Threshold
Ended == stage \in {"done", "failed"}

Requests ==
  [kind : {"open", "post"}, attempt : Attempt]
    \union [kind : {"put"}, attempt : Attempt, session : Attempt,
            start : 0..size, end : 0..size]

Replies ==
  [kind : {"session", "complete"}, of : Attempt] \union [kind : {"partial"}, upto : 0..size]

(* Something goes wrong, MaxFaults times at most. *)
Fault == faults < MaxFaults /\ faults' = faults + 1

(***************************************************************************)
(* The client's requests                                                   *)
(***************************************************************************)
Init ==
  /\ size \in Sizes
  /\ stage = IF Resumable THEN "opening" ELSE "posting"
  /\ attempt = 0 /\ asked = FALSE /\ reply = None
  /\ session = None /\ offset = 0 /\ result = None
  /\ wire = {} /\ committed = [s \in Attempt |-> 0] /\ files = {} /\ faults = 0

ChunkEnd == Smaller(size, offset + Chunk)

Request ==
  CASE stage = "opening" -> [kind |-> "open", attempt |-> attempt]
    [] stage = "posting" -> [kind |-> "post", attempt |-> attempt]
    [] OTHER -> [kind |-> "put", attempt |-> attempt, session |-> session,
                 start |-> offset, end |-> ChunkEnd]

Send ==
  /\ ~Ended /\ ~asked
  /\ asked' = TRUE /\ wire' = wire \union {Request}
  /\ UNCHANGED <<size, stage, attempt, session, offset, result, reply, drive, faults>>

(* The next request, at its first attempt. *)
GoOn(next, from) ==
  /\ stage' = next /\ offset' = from
  /\ attempt' = 0 /\ asked' = FALSE /\ reply' = None

SessionOpened ==
  /\ reply # None /\ reply.kind = "session"
  /\ GoOn("sending", 0) /\ session' = reply.of
  /\ UNCHANGED <<size, result, wire, drive, faults>>

\* Mutants of NextOffset: the chunk is taken as committed; the Range is ignored.
AfterChunk == ChunkEnd
SameOffset == offset

(* offset = result.committedBytes ?? end: Drive's Range, or the chunk's start. *)
NextOffset == reply.upto

\* Mutant of Continued: the last chunk sent is taken for the end of the upload.
CompletedByLastChunk ==
  /\ reply # None /\ reply.kind = "partial"
  /\ GoOn(IF ChunkEnd < size THEN "sending" ELSE "done", NextOffset)
  /\ result' = IF ChunkEnd < size THEN result ELSE session
  /\ UNCHANGED <<size, session, wire, drive, faults>>

Continued ==
  /\ reply # None /\ reply.kind = "partial"
  /\ GoOn(IF NextOffset < size THEN "sending" ELSE "failed", NextOffset)
  /\ UNCHANGED <<size, session, result, wire, drive, faults>>

Completed ==
  /\ reply # None /\ reply.kind = "complete"
  /\ GoOn("done", offset) /\ result' = reply.of
  /\ UNCHANGED <<size, session, wire, drive, faults>>

(* A network error, a 429 or 5xx answer, or the first 401: Drive may have  *)
(* handled the request, may still handle it, or never sees it.             *)
\* Mutants of Again: a failed chunk opens a new session; of Retry: without the limit.
AgainFromStart ==
  /\ stage' = IF stage = "sending" THEN "opening" ELSE stage
  /\ attempt' = attempt + 1 /\ asked' = FALSE /\ reply' = None

Again ==
  /\ stage' = stage /\ attempt' = attempt + 1
  /\ asked' = FALSE /\ reply' = None

AlwaysRetry ==
  /\ asked /\ Fault /\ Again
  /\ UNCHANGED <<size, session, offset, result, wire, drive>>

Retry ==
  /\ asked /\ Fault
  /\ attempt + 1 \in Attempt /\ Again
  /\ UNCHANGED <<size, session, offset, result, wire, drive>>

(* The last attempt is lost, or Drive refuses the request for good.        *)
GiveUp ==
  /\ asked /\ Fault
  /\ GoOn("failed", offset)
  /\ UNCHANGED <<size, session, result, wire, drive>>

(* The run's signal is aborted, while a fetch is under way or before one. *)
Cancel ==
  /\ ~Ended /\ Fault
  /\ GoOn("failed", offset)
  /\ UNCHANGED <<size, session, result, wire, drive>>

(***************************************************************************)
(* Drive                                                                   *)
(***************************************************************************)
IsCurrent(m) == ~Ended /\ asked /\ reply = None /\ m = Request

Answer(m, answer) == reply' = IF IsCurrent(m) THEN answer ELSE reply

Handle(m) == m \in wire /\ wire' = wire \ {m}

Open(m) ==
  /\ m.kind = "open" /\ Handle(m)
  /\ Answer(m, [kind |-> "session", of |-> m.attempt])
  /\ UNCHANGED <<size, client, drive, faults>>

Post(m) ==
  /\ m.kind = "post" /\ Handle(m)
  /\ files' = files \union {m.attempt}
  /\ Answer(m, [kind |-> "complete", of |-> m.attempt])
  /\ UNCHANGED <<size, client, committed, faults>>

(* How much of the file a session may hold once it has a chunk. *)
Held(m) ==
  LET held == committed[m.session]
  IN IF m.start > held THEN {held} ELSE held..Larger(held, m.end)

Put(m) ==
  /\ m.kind = "put" /\ Handle(m)
  /\ \E upto \in Held(m) :
       /\ IF upto < m.end THEN Fault ELSE UNCHANGED faults
       /\ committed' = [committed EXCEPT ![m.session] = upto]
       /\ files' = IF upto = size THEN files \union {m.session} ELSE files
       /\ Answer(m, IF upto = size THEN [kind |-> "complete", of |-> m.session]
                    ELSE [kind |-> "partial", upto |-> upto])
  /\ UNCHANGED <<size, client>>

Client == Send \/ SessionOpened \/ Continued \/ Completed \/ Retry \/ GiveUp \/ Cancel
Drive == \E m \in wire : Open(m) \/ Post(m) \/ Put(m)
Next == Client \/ Drive

Spec == Init /\ [][Next]_vars

(* The client goes on when it has an answer, and gets one in the end: Drive  *)
(* handles a request, or the attempt times out.  Once there are no faults    *)
(* left, chunks are committed as they are sent.                              *)
Progress == Send \/ SessionOpened \/ Continued \/ Completed
Served == \E m \in wire : IsCurrent(m) /\ (Open(m) \/ Post(m) \/ Put(m))
FairSpec == Spec /\ WF_vars(Progress) /\ WF_vars(Served)

(***************************************************************************)
(* Properties                                                              *)
(***************************************************************************)
(* The values the variables take (types of resumable-upload.ts).           *)
TypeOK ==
  /\ size \in Sizes
  /\ stage \in {"opening", "posting", "sending", "done", "failed"}
  /\ attempt \in Attempt /\ asked \in BOOLEAN
  /\ reply \in Replies \union {None}
  /\ session \in Attempt \union {None} /\ offset \in 0..size
  /\ result \in Attempt \union {None}
  /\ wire \subseteq Requests
  /\ committed \in [Attempt -> 0..size]
  /\ files \subseteq Attempt /\ faults \in 0..MaxFaults

(* The client never leaves a gap: what lies before its offset, and before  *)
(* every chunk still under way, Drive has (resumable-upload.ts:40: it goes *)
(* on from what Drive says it holds, not from what was sent).              *)
NoGap ==
  /\ stage = "sending" => offset <= committed[session]
  /\ \A m \in wire : m.kind = "put" => m.start <= committed[m.session]

(* However often its requests are repeated or delivered late, a resumable  *)
(* upload makes one file at most, even after it has failed: an attempt     *)
(* that opened a session nobody uses leaves no file.                       *)
OneFile == Resumable => \A f, g \in files : f = g

(* The upload ends: with a file, or with an error (resumable-upload.ts:24, *)
(* the loop).                                                              *)
UploadEnds == <>Ended

(* An upload keeps the promise of module Transfer: it returns a file that  *)
(* is on Drive, whole, and a resumable one stores no second.               *)
Promise == INSTANCE Transfer WITH
  once <- Resumable, stored <- files, given <- result, failed <- stage = "failed",
  File <- Attempt
KeepsPromise == Promise!Spec
=============================================================================
