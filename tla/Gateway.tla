------------------------------- MODULE Gateway -------------------------------
(***************************************************************************)
(* python/scheduler/gateway.py: SchedulerGateway over the SJF scheduler,   *)
(* its HTTP clients and the vLLM backend.                                  *)
(*                                                                         *)
(* The tasks share one event loop.  An action is what a task does between  *)
(* two awaits that really suspend it.  A dispatch loop does not suspend    *)
(* while acquire() finds requests (create_task() does not either), so it   *)
(* keeps the loop until the queue is empty: `owner' is the worker that has *)
(* it.                                                                     *)
(***************************************************************************)
EXTENDS Integers, FiniteSets, Sequences, Functions

CONSTANTS
  Requests, Workers, Prios, WaitCap, WaitKeep, Fallback,
  Free,      \* owner's value when no worker holds the event loop
  Streams,   \* the requests that ask for a stream
  MaxUnread  \* bound: chunks a stream's queue holds in the model

ASSUME FreeAssumption == Free \notin Workers
ASSUME SchedulerAssumption ==
  /\ Fallback \in BOOLEAN /\ Prios \subseteq Int /\ IsFiniteSet(Workers) /\ Workers # {}
  /\ WaitCap \in Nat /\ WaitKeep \in Nat /\ WaitKeep <= WaitCap

VARIABLES
  heap, pending, cancelled, stats, waits, wstate,    \* self._scheduler
  submitted, acked, dropped, dispatched,
  fifo, fpending, fstats, gstate,
  arrivals, served, facked, finished,
  spending, use_fallback, agingTask, sstats, completions,
  phase,   \* before startup(), running, after shutdown()
  owner,   \* the worker that holds the event loop, or Free
  tasks,   \* how many _forward_request tasks each request has
  client,  \* what each request's HTTP handler is doing, or answered
  fut,     \* metadata["future"]; "none" for a stream
  chunks   \* metadata["stream_queue"]

qvars == <<heap, pending, cancelled, stats, waits, wstate,
           submitted, acked, dropped, dispatched>>
fvars == <<fifo, fpending, fstats, gstate, arrivals, served, facked, finished>>
svars == <<spending, use_fallback, agingTask, sstats, completions>>
gvars == <<phase, owner, tasks, client, fut, chunks>>
vars == <<qvars, fvars, svars, gvars>>

S == INSTANCE SJFScheduler

Init ==
  /\ S!Init
  /\ phase = "new" /\ owner = Free
  /\ tasks = [r \in Requests |-> 0]
  /\ client = [r \in Requests |-> "none"]
  /\ fut = [r \in Requests |-> "none"]
  /\ chunks = [r \in Requests |-> <<>>]

(* startup() builds the scheduler, starts its aging task and the workers. *)
startup ==
  /\ phase = "new" /\ phase' = "running"
  /\ S!start
  /\ UNCHANGED <<owner, tasks, client, fut, chunks>>

(* submit_chat() up to the wait for its future. *)
submit_chat(r, p, predicted) ==
  /\ r \notin Streams
  /\ phase = "running" /\ owner = Free
  /\ S!submit(r, p, predicted)
  /\ client' = [client EXCEPT ![r] = "chat"]
  /\ fut' = [fut EXCEPT ![r] = "pending"]
  /\ UNCHANGED <<phase, owner, tasks, chunks>>

(* submit_chat_stream() up to its first wait for a chunk. *)
submit_chat_stream(r, p, predicted) ==
  /\ r \in Streams
  /\ phase = "running" /\ owner = Free
  /\ S!submit(r, p, predicted)
  /\ client' = [client EXCEPT ![r] = "stream"]
  /\ UNCHANGED <<phase, owner, tasks, fut, chunks>>

(* The handler wakes up with the future's result: 200, or 502 on "error". *)
respond(r) ==
  /\ owner = Free /\ client[r] = "chat"
  /\ fut[r] \in {"result", "error"}
  /\ client' = [client EXCEPT ![r] = IF fut[r] = "result" THEN "200" ELSE "502"]
  /\ UNCHANGED <<qvars, fvars, svars, phase, owner, tasks, fut, chunks>>

(* Fault: whoever comes last sets the future, done or not. *)
Overwrite(f, outcome) == outcome

(* if not future.done(): ... *)
Settle(f, outcome) == IF f = "pending" THEN outcome ELSE f

(* Fault: the handler gives up only on a request the scheduler still has. *)
GiveUpIfPending(r) == client[r] = "chat" /\ r \in spending

(* wait_for()'s timer runs as long as the handler waits. *)
Waiting(r) == client[r] = "chat"

(***************************************************************************)
(* wait_for() gives up on the future (504), possibly after the result came *)
(* and before the handler saw it.                                          *)
(***************************************************************************)
time_out(r) ==
  /\ owner = Free /\ Waiting(r)
  /\ S!cancel(r)
  /\ client' = [client EXCEPT ![r] = "504"]
  /\ fut' = [fut EXCEPT ![r] = Settle(@, "cancelled")]
  /\ UNCHANGED <<phase, owner, tasks, chunks>>

(***************************************************************************)
(* _dispatch_loop: acquire() returned a request, whose forward task is     *)
(* created, or the worker went to sleep in it and the loop is free.        *)
(***************************************************************************)
dispatch_loop(w) ==
  /\ phase = "running" /\ owner \in {Free, w}
  /\ S!acquire(w)
  /\ owner' = IF "waiting" \in {wstate'[w], gstate'[w]} THEN Free ELSE w
  /\ tasks' = [r \in Requests |-> tasks[r] + (S!Acquired(r)' - S!Acquired(r))]
  /\ UNCHANGED <<phase, client, fut, chunks>>

(* acquire() raised TimeoutError; the worker goes round its loop. *)
acquire_timeout(w) ==
  /\ phase = "running" /\ owner = Free
  /\ S!TimeOut(w)
  /\ owner' = w
  /\ UNCHANGED <<phase, tasks, client, fut, chunks>>

(* Fault: the except branch of _forward_request forgets complete(). *)
CloseSuccess(r, success) ==
  IF success THEN S!complete(r, TRUE) ELSE UNCHANGED <<qvars, fvars, svars>>

(* self._scheduler.complete(req.request_id, success) *)
Close(r, success) == S!complete(r, success)

(* A forward task of r runs, and with TaskEnds(r) returns. *)
Forwarding(r) == owner = Free /\ tasks[r] > 0
TaskEnds(r) == tasks' = [tasks EXCEPT ![r] = @ - 1]

(***************************************************************************)
(* _forward_request of a chat: the backend answers 200, or another status  *)
(* (which counts as a success), or the call raises.                        *)
(***************************************************************************)
forward_chat(r, outcome) ==
  /\ Forwarding(r) /\ fut[r] # "none"
  /\ Close(r, outcome # "exception") /\ TaskEnds(r)
  /\ fut' = [fut EXCEPT ![r] = Settle(@, IF outcome = "ok" THEN "result" ELSE "error")]
  /\ UNCHANGED <<phase, owner, client, chunks>>

(* _forward_request of a stream: a chunk, then the end or an exception. *)
forward_chunk(r) ==
  /\ Forwarding(r) /\ fut[r] = "none"
  /\ Len(chunks[r]) < MaxUnread
  /\ chunks' = [chunks EXCEPT ![r] = Append(@, "chunk")]
  /\ UNCHANGED <<qvars, fvars, svars, phase, owner, tasks, client, fut>>

forward_end(r) ==
  /\ Forwarding(r) /\ fut[r] = "none"
  /\ Close(r, TRUE) /\ TaskEnds(r)
  /\ chunks' = [chunks EXCEPT ![r] = Append(@, "None")]
  /\ UNCHANGED <<phase, owner, client, fut>>

(* The except branch has a future to set only for a chat. *)
forward_failed(r) ==
  /\ Forwarding(r) /\ fut[r] = "none"
  /\ Close(r, FALSE) /\ TaskEnds(r)
  /\ UNCHANGED <<phase, owner, client, fut, chunks>>

(* submit_chat_stream() gets a chunk, or None and ends the response. *)
read_chunk(r) ==
  /\ owner = Free /\ client[r] = "stream" /\ chunks[r] # <<>>
  /\ chunks' = [chunks EXCEPT ![r] = Tail(@)]
  /\ client' = [client EXCEPT ![r] = IF Head(chunks[r]) = "None" THEN "ended" ELSE @]
  /\ UNCHANGED <<qvars, fvars, svars, phase, owner, tasks, fut>>

(* The client of a stream goes away; its generator is dropped. *)
disconnect(r) ==
  /\ owner = Free /\ client[r] = "stream"
  /\ client' = [client EXCEPT ![r] = "gone"]
  /\ UNCHANGED <<qvars, fvars, svars, phase, owner, tasks, fut, chunks>>

(* One request of a pass of the scheduler's aging loop. *)
aging(r) ==
  /\ owner = Free
  /\ S!Boost(r) \/ S!Overdue(r)
  /\ UNCHANGED gvars

(* shutdown(): the workers are cancelled wherever they wait, aging stops.  *)
(* Requests that wait, and their futures, are left as they are.            *)
shutdown ==
  /\ phase = "running" /\ owner = Free
  /\ phase' = "stopped" /\ agingTask' = FALSE
  /\ wstate' = [w \in Workers |-> "ready"]
  /\ gstate' = [w \in Workers |-> "ready"]
  /\ UNCHANGED <<heap, pending, cancelled, stats, waits, submitted, acked, dropped,
                 dispatched, fifo, fpending, fstats, arrivals, served, facked, finished,
                 spending, use_fallback, sstats, completions,
                 owner, tasks, client, fut, chunks>>

forward(r) ==
  \/ \E outcome \in {"ok", "status", "exception"} : forward_chat(r, outcome)
  \/ forward_end(r) \/ forward_failed(r)

Next ==
  \/ startup \/ shutdown
  \/ \E r \in Requests, p \in Prios, predicted \in BOOLEAN :
       submit_chat(r, p, predicted) \/ submit_chat_stream(r, p, predicted)
  \/ \E r \in Requests :
       \/ respond(r) \/ time_out(r) \/ forward(r) \/ forward_chunk(r)
       \/ read_chunk(r) \/ disconnect(r) \/ aging(r)
  \/ \E w \in Workers : dispatch_loop(w) \/ acquire_timeout(w)

(***************************************************************************)
(* Ready workers run; the request time-out of submit_chat() fires; a       *)
(* backend call ends, by httpx's own time-outs at the latest.  Strong      *)
(* fairness, because a task or timer that is ready while a worker holds    *)
(* the loop runs when the loop gets to it: asyncio's ready queue is        *)
(* first-in first-out.                                                     *)
(***************************************************************************)
Fairness ==
  /\ \A w \in Workers : WF_vars(dispatch_loop(w))
  /\ \A r \in Requests :
       /\ SF_vars(respond(r) \/ time_out(r))
       /\ SF_vars(forward(r))

Spec == Init /\ [][Next]_vars
FairSpec == Spec /\ Fairness

(* The time-outs of acquire() fire too, and stream handlers read on. *)
StreamSpec ==
  /\ FairSpec
  /\ \A w \in Workers : SF_vars(acquire_timeout(w))
  /\ \A r \in Requests : SF_vars(read_chunk(r))

-----------------------------------------------------------------------------
(* Types. *)
TypeOK ==
  /\ S!TypeOK
  /\ phase \in {"new", "running", "stopped"}
  /\ owner \in Workers \cup {Free}
  /\ tasks \in [Requests -> Nat]
  /\ client \in [Requests -> {"none", "chat", "stream", "200", "502", "504", "ended", "gone"}]
  /\ fut \in [Requests -> {"none", "pending", "result", "error", "cancelled"}]
  /\ chunks \in [Requests -> Seq({"chunk", "None"})]

(* Clients, futures and the scheduler's books agree.  A future that is not *)
(* done has a handler that waits for it, and its request is still queued,  *)
(* or acquired and not yet answered, or was cancelled as overdue: no answer *)
(* passes it by.  No handler waits for a cancelled future.  200 and 502    *)
(* tell what the backend call, which is over, came to, and a stream ends   *)
(* only after its call.                                                    *)
AnswersAgree ==
  \A r \in Requests :
    /\ fut[r] = "pending" =>
         /\ client[r] = "chat" /\ completions[r] = 0
         /\ S!Acquired(r) > 0 \/ r \in S!Q!Ids(pending) \cup Range(fifo) \cup acked
    /\ client[r] = "chat" => fut[r] \in {"pending", "result", "error"}
    /\ client[r] = "200" => fut[r] = "result"
    /\ client[r] = "502" => fut[r] = "error"
    /\ fut[r] \in {"result", "error"} \/ client[r] = "ended" => completions[r] > 0

(* With every worker of a running gateway asleep in acquire(), nothing     *)
(* waits: the priority queue is empty unless it has been abandoned for the *)
(* fallback, and so is the fallback unless some worker fell asleep before  *)
(* the switch (its time-out, one second at most, brings it over).          *)
QueueAttended ==
  phase = "running" /\ (\A w \in Workers : "waiting" \in {wstate[w], gstate[w]}) =>
    /\ heap = {} \/ use_fallback
    /\ fifo = <<>> \/ \E w \in Workers : wstate[w] = "waiting"

(* Every chat is answered, with 200, 502 or 504, whatever happens to its   *)
(* request: lost in the abandoned queue, failed, or left by shutdown().    *)
ChatAnswered ==
  \A r \in Requests : client[r] = "chat" ~> client[r] \in {"200", "502", "504"}

(* The books do not leak: a request in the scheduler's _pending, or in the *)
(* fallback's, waits in a queue or has a forward task, which is going to   *)
(* call complete().  When the last task returns, by whatever path, neither *)
(* holds a request that is not queued.                                     *)
BooksClosed ==
  \A r \in spending \cup fpending :
    tasks[r] > 0 \/ r \in (S!Q!Ids(pending) \ cancelled) \cup Range(fifo)

(* The response to a stream ends once its backend call is over, be it by   *)
(* an error of the backend: the client is not left waiting for chunks.     *)
StreamEnds ==
  \A r \in Requests :
    client[r] = "stream" /\ completions[r] > 0 ~> client[r] \in {"ended", "gone"}

=============================================================================
