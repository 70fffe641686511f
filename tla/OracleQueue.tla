----------------------------- MODULE OracleQueue -----------------------------
(***************************************************************************)
(* The priority queue with a record of whether update_priority() has been  *)
(* called yet.  OracleSJFScheduler never calls it; SJFScheduler's queue    *)
(* behaves the same until its aging loop first does.  Until then the queue *)
(* keeps promises that aging breaks.                                       *)
(***************************************************************************)
EXTENDS PriorityQueue

VARIABLE aged  \* history: some update_priority() has been called

TrackedInit == Init /\ aged = FALSE

TrackedNext ==
  \/ OracleNext /\ UNCHANGED aged
  \/ (\E r \in Requests, p \in Prios : update_priority(r, p)) /\ aged' = TRUE

TrackedSpec == TrackedInit /\ [][TrackedNext]_<<vars, aged>>

(* The event loop resumes every task that is ready: a worker that calls    *)
(* dequeue(), or has been notified in it, runs.  Nothing forces time-outs. *)
FairSpec ==
  TrackedSpec /\ \A w \in Workers : WF_<<vars, aged>>((Take(w) \/ Park(w)) /\ UNCHANGED aged)

-----------------------------------------------------------------------------
(* Without aging dequeue() returns a request at most once. *)
UnagedOnce == ~aged => AtMostOnce

(* Without aging the statistics add up: what was enqueued was dequeued,    *)
(* was discarded or is still in the heap (depth).                          *)
StatsBalance ==
  ~aged => stats.enqueued = stats.dequeued + stats.cancelled + Cardinality(heap)

(* Without aging a request is not returned by dequeue() after cancel()     *)
(* returned True.                                                          *)
CancelHonoured == [][~aged' => \A r \in acked : dispatched'[r] = dispatched[r]]_vars

(* Without aging the queue is the abstract shortest-job-first queue.       *)
Abstract == INSTANCE RequestQueue WITH
  Keys <- Prios,
  queue <- {[rid |-> i.rid, key |-> i.prio] :
              i \in {j \in pending : j.rid \notin cancelled}},
  withdrawn <- acked,
  served <- {r \in Requests : dispatched[r] > 0}

ImplementsRequestQueue ==
  Abstract!Init /\ [][~aged' => Abstract!Next]_(Abstract!absVars)

=============================================================================
