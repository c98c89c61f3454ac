----------------------------- MODULE Idempotency -----------------------------
(***************************************************************************)
(* middleware.Idempotency over repository.IdempotencyRepository: clients   *)
(* send mutating requests with an Idempotency-Key, repeat them while they  *)
(* get no answer, and the middleware decides from the row of the key       *)
(* whether to run the handler, replay the cached response or refuse.       *)
(*                                                                         *)
(* A client repeats the same body under the same key.  Two clients may     *)
(* share a key, with the same body or with another one.  The server may    *)
(* die while it serves a request, and the response may be lost on its way. *)
(* MarkFailed and PurgeExpired have no caller in the program and are left  *)
(* out: a row is never failed and never deleted.                           *)
(***************************************************************************)
EXTENDS Integers

CONSTANTS
  Clients,
  Keys,
  Bodies,      \* request bodies; HashPayload tells them apart
  KeyOf,       \* KeyOf[c]: the key client c sends
  BodyOf,      \* BodyOf[c]: the body client c sends
  Anonymous,   \* clients whose requests carry no user when the middleware runs
  MaxFailures  \* bound on crashes, lost responses and database errors

ASSUME KeyAssumption   == KeyOf \in [Clients -> Keys]
ASSUME BodyAssumption  == BodyOf \in [Clients -> Bodies]
ASSUME BodiesAssumption == Bodies # {}
ASSUME AnonAssumption  == Anonymous \subseteq Clients
ASSUME BoundAssumption == MaxFailures \in Nat

VARIABLES
  row,       \* row[k]: the idempotency_keys row of k
  pc,        \* pc[c]: where the request of client c is
  record,    \* record[c]: the row AcquireLock returned to c's request
  output,    \* output[c]: the response the handler wrote for c's request
  answer,    \* answer[c]: the response that reached c, 0 while there is none
  runs,      \* runs[k]: how often a handler ran under k
  failures   \* failures so far

idempotencyVars == <<row, pc, record, output, answer, runs, failures>>

Steps == {"send", "route", "run", "mark", "respond", "done"}
\* A response is the number of the execution that wrote it, so that different
\* executions never give equal responses; 0 is no response.
NoRecord == [status |-> "absent", body |-> CHOOSE b \in Bodies : TRUE,
             response |-> 0, expired |-> FALSE]
Rows == [status : {"absent", "started", "completed"}, body : Bodies,
         response : Nat, expired : BOOLEAN]

IdempotencyInit ==
  /\ row = [k \in Keys |-> NoRecord]
  /\ pc = [c \in Clients |-> "send"]
  /\ record = [c \in Clients |-> NoRecord]
  /\ output = [c \in Clients |-> 0]
  /\ answer = [c \in Clients |-> 0]
  /\ runs = [k \in Keys |-> 0]
  /\ failures = 0

MoveTo(c, step) == pc' = [pc EXCEPT ![c] = step]
Row(c) == row[KeyOf[c]]

\* INSERT ... ON CONFLICT DO UPDATE SET updated_at: a new row is locked for five
\* minutes, an existing one is returned as it is, its lock included.
Upsert(c) ==
  IF Row(c).status = "absent"
    THEN [NoRecord EXCEPT !.status = "started", !.body = BodyOf[c]]
    ELSE Row(c)

SamePayloadMutant(rec, c) == TRUE
SamePayload(rec, c) == rec.body = BodyOf[c]

\* A request reaches the middleware.  Without a user in the context it is
\* passed on.  A payload other than the row's is refused for good; a database
\* error is an answer the client repeats the request after.
AcquireLock(c) ==
  /\ pc[c] = "send"
  /\ \/ /\ c \in Anonymous
        /\ MoveTo(c, "run")
        /\ UNCHANGED <<row, record, failures>>
     \/ /\ c \notin Anonymous
        /\ row' = [row EXCEPT ![KeyOf[c]] = Upsert(c)]
        /\ record' = [record EXCEPT ![c] = Upsert(c)]
        /\ MoveTo(c, IF SamePayload(Upsert(c), c) THEN "route" ELSE "done")
        /\ UNCHANGED failures
  /\ UNCHANGED <<output, answer, runs>>

IsCompleted(rec) == rec.status = "completed"
IsInFlightMutant(rec) == rec.status = "started"
IsInFlight(rec)  == rec.status = "started" /\ ~rec.expired

\* Cases A, B and C of the middleware.  The lock may expire between the INSERT
\* and the comparison with the clock, so its expiry is read from the row.
Route(c) ==
  /\ pc[c] = "route"
  /\ LET rec == [record[c] EXCEPT !.expired = Row(c).expired] IN
       \/ /\ IsCompleted(rec)
          /\ output' = [output EXCEPT ![c] = rec.response]
          /\ MoveTo(c, "respond")
       \/ /\ ~IsCompleted(rec) /\ IsInFlight(rec)
          /\ MoveTo(c, "send")        \* 409: the client tries again
          /\ UNCHANGED output
       \/ /\ ~IsCompleted(rec) /\ ~IsInFlight(rec)
          /\ MoveTo(c, "run")
          /\ UNCHANGED output
  /\ UNCHANGED <<row, record, answer, runs, failures>>

\* The downstream handler runs and writes its response.
Handle(c) ==
  /\ pc[c] = "run"
  /\ runs' = [runs EXCEPT ![KeyOf[c]] = @ + 1]
  /\ output' = [output EXCEPT ![c] = runs'[KeyOf[c]]]
  /\ MoveTo(c, IF c \in Anonymous THEN "respond" ELSE "mark")
  /\ UNCHANGED <<row, record, answer, failures>>

\* UPDATE ... WHERE key = $1 AND status = 'started'.
CompletedEmptyMutant(r, response) ==
  IF r.status = "started" THEN [r EXCEPT !.status = "completed"] ELSE r
CompletedAgainMutant(r, response) == [r EXCEPT !.status = "completed", !.response = response]
Completed(r, response) ==
  IF r.status = "started" THEN [r EXCEPT !.status = "completed", !.response = response] ELSE r
MarkCompleted(c) ==
  /\ pc[c] = "mark"
  /\ row' = [row EXCEPT ![KeyOf[c]] = Completed(@, output[c])]
  /\ MoveTo(c, "respond")
  /\ UNCHANGED <<record, output, answer, runs, failures>>

Respond(c) ==
  /\ pc[c] = "respond"
  /\ answer' = [answer EXCEPT ![c] = output[c]]
  /\ MoveTo(c, "done")
  /\ UNCHANGED <<row, record, output, runs, failures>>

\* The process dies, the response is lost or the database fails: the client
\* gets no usable answer and sends the request again.
Fail(c) ==
  /\ pc[c] \in {"route", "run", "mark", "respond"}
  /\ failures < MaxFailures
  /\ failures' = failures + 1
  /\ MoveTo(c, "send")
  /\ UNCHANGED <<row, record, output, answer, runs>>

\* The handler's response reaches the client although MarkCompleted fails (the
\* error is only logged) or the process dies before it.
MarkFails(c) ==
  /\ pc[c] = "mark"
  /\ failures < MaxFailures
  /\ failures' = failures + 1
  /\ MoveTo(c, "respond")
  /\ UNCHANGED <<row, record, output, answer, runs>>

\* Five minutes pass.
Expire(k) ==
  /\ row[k].status = "started" /\ ~row[k].expired
  /\ row' = [row EXCEPT ![k].expired = TRUE]
  /\ UNCHANGED <<pc, record, output, answer, runs, failures>>

ServeRequest(c) ==
  AcquireLock(c) \/ Route(c) \/ Handle(c) \/ MarkCompleted(c) \/ Respond(c)

AllAnswered == (\A c \in Clients : pc[c] = "done") /\ UNCHANGED idempotencyVars

IdempotencyNext ==
  \/ \E c \in Clients : ServeRequest(c) \/ Fail(c) \/ MarkFails(c)
  \/ \E k \in Keys : Expire(k)
  \/ AllAnswered

IdempotencySpec == IdempotencyInit /\ [][IdempotencyNext]_idempotencyVars

\* Clients repeat, servers run, and five minutes pass.
FairSpec == /\ IdempotencySpec
            /\ \A c \in Clients : WF_idempotencyVars(ServeRequest(c))
            /\ \A k \in Keys : WF_idempotencyVars(Expire(k))

(***************************************************************************)
(* Correctness.                                                            *)
(***************************************************************************)

IdempotencyTypeOK ==
  /\ row \in [Keys -> Rows]
  /\ pc \in [Clients -> Steps]
  /\ record \in [Clients -> Rows]
  /\ output \in [Clients -> Nat]
  /\ answer \in [Clients -> Nat]
  /\ runs \in [Keys -> Nat]
  /\ failures \in 0 .. MaxFailures

\* The cached response is never replaced: once a key is completed, no later
\* execution that was already under way overwrites what replays return.
CompletedIsFinal ==
  [][\A k \in Keys : row[k].status = "completed" => row'[k] = row[k]]_row

\* No handler runs, and no response is replayed, for a body other than the one
\* the key was first used with, whichever client got there first.
OneBodyPerKey ==
  \A c, d \in Clients \ Anonymous :
    KeyOf[c] = KeyOf[d] /\ output[c] # 0 /\ output[d] # 0 => BodyOf[c] = BodyOf[d]

\* A response that was replayed from the row is one some execution under that
\* key wrote, and once the key is completed everybody who asks gets that one.
ReplayIsGenuine ==
  IdempotencyTypeOK /\ \A k \in Keys :
    /\ row[k].status = "completed" => row[k].response \in 1 .. runs[k]
    /\ \A c \in Clients :
         /\ KeyOf[c] = k /\ IsCompleted(record[c])
         => record[c].response = row[k].response

\* The strengthening that makes the invariants above inductive: a request that
\* went past the middleware, or has a response, carried the body of the row;
\* a completed record is a copy of the row; and what MarkCompleted is about to
\* save was written by an execution under the key.
RequestInv(c) ==
  /\ c \in Anonymous => pc[c] \notin {"route", "mark"} /\ record[c] = NoRecord
  /\ c \notin Anonymous /\ (pc[c] \in {"route", "run", "mark", "respond"} \/ output[c] # 0)
       => Row(c).status # "absent" /\ Row(c).body = BodyOf[c]
  /\ IsCompleted(record[c]) => IsCompleted(Row(c)) /\ record[c].response = Row(c).response
  /\ pc[c] = "mark" => output[c] \in 1 .. runs[KeyOf[c]]
RowInv(k) == IsCompleted(row[k]) => row[k].response \in 1 .. runs[k]
IdempotencyInv ==
  /\ IdempotencyTypeOK
  /\ \A k \in Keys : RowInv(k)
  /\ \A c \in Clients : RequestInv(c)

\* A client that keeps sending its request is served in the end, whatever dies
\* on the way: a stale lock does not block its key for ever.
EveryClientServed == \A c \in Clients : <>(pc[c] = "done")

\* "On first execution: run the downstream handler": the request that created
\* the row is not turned away as in flight.
FirstExecutionRuns ==
  \A k \in Keys :
    row[k].status = "started" => \E c \in Clients :
      KeyOf[c] = k /\ pc[c] # "send" /\ record[c].status = "started"
=============================================================================
