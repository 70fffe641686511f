---------------------------- MODULE SJFScheduler ----------------------------
(***************************************************************************)
(* python/scheduler/sjf_scheduler.py: predicted shortest-job-first over    *)
(* the priority queue, with priority aging and an FCFS fallback that the   *)
(* first failed prediction switches to, for good.                          *)
(*                                                                         *)
(* No method yields except acquire(): the actions are whole method calls.  *)
(* One pass of _aging_loop does not yield either; it is modelled request   *)
(* by request (Boost, Overdue), which is the same because a pass may       *)
(* leave a request as it is.  Time is not represented: a request may have  *)
(* waited long enough to be boosted, or cancelled, whenever it is seen.    *)
(***************************************************************************)
EXTENDS Integers, FiniteSets, Functions

CONSTANTS
  Requests, Workers, Prios, WaitCap, WaitKeep,
  Fallback   \* the constructor's fallback_to_fcfs

ASSUME FallbackAssumption == Fallback \in BOOLEAN
ASSUME QueueAssumption == /\ Prios \subseteq Int /\ IsFiniteSet(Workers)
                          /\ WaitCap \in Nat /\ WaitKeep \in Nat /\ WaitKeep <= WaitCap

VARIABLES
  heap, pending, cancelled, stats, waits, wstate,         \* self.queue
  submitted, acked, dropped, dispatched,
  fifo, fpending, fstats, gstate,                         \* self._fcfs_fallback
  arrivals, served, facked, finished,
  spending,      \* the keys of self._pending
  use_fallback,  \* self._use_fallback
  agingTask,     \* self._aging_task is not None
  sstats,        \* _total_scheduled, _total_completed, _total_errors
  completions    \* history: how often complete() was called for each request

qvars == <<heap, pending, cancelled, stats, waits, wstate,
           submitted, acked, dropped, dispatched>>
fvars == <<fifo, fpending, fstats, gstate, arrivals, served, facked, finished>>
svars == <<spending, use_fallback, agingTask, sstats, completions>>
vars == <<qvars, fvars, svars>>

Q == INSTANCE PriorityQueue
F == INSTANCE FCFSScheduler

Init ==
  /\ Q!Init /\ F!Init
  /\ spending = {} /\ use_fallback = FALSE /\ agingTask = FALSE
  /\ sstats = [scheduled |-> 0, completed |-> 0, errors |-> 0]
  /\ completions = [r \in Requests |-> 0]

(* Requests submit() has seen, and requests acquire() has returned. *)
Known == submitted \cup Range(arrivals)
Acquired(r) == dispatched[r] + (IF r \in Range(served) THEN 1 ELSE 0)

start ==
  /\ agingTask' = TRUE
  /\ UNCHANGED <<qvars, fvars, spending, use_fallback, sstats, completions>>

stop ==
  /\ agingTask' = FALSE
  /\ UNCHANGED <<qvars, fvars, spending, use_fallback, sstats, completions>>

(***************************************************************************)
(* submit(): predict() returns a length p, or fails; then the length is    *)
(* max_tokens, also some p, and the fallback is switched on if there is    *)
(* one.                                                                    *)
(***************************************************************************)
submit(r, p, predicted) ==
  /\ r \notin Known
  /\ use_fallback' = (use_fallback \/ (~predicted /\ Fallback))
  /\ IF use_fallback'
     THEN F!submit(r) /\ UNCHANGED <<qvars, spending>>
     ELSE Q!enqueue(r, p) /\ spending' = spending \cup {r} /\ UNCHANGED fvars
  /\ sstats' = [sstats EXCEPT !.scheduled = @ + 1]
  /\ UNCHANGED <<agingTask, completions>>

(***************************************************************************)
(* acquire() asks the queue in use when it is called; a worker that        *)
(* already sits in one of the two stays there until it returns.            *)
(***************************************************************************)
InQueue(w) == wstate[w] # "ready"
InFallback(w) == gstate[w] # "ready"

(* Fault: acquire() does not look at the switch. *)
SwitchIgnored == FALSE

(* self._use_fallback and self._fcfs_fallback *)
Switched == use_fallback

acquire(w) ==
  /\ \/ /\ InQueue(w) \/ (~Switched /\ ~InFallback(w))
        /\ Q!Take(w) \/ Q!Park(w)
        /\ UNCHANGED fvars
     \/ /\ InFallback(w) \/ (Switched /\ ~InQueue(w))
        /\ F!Get(w) \/ F!Block(w)
        /\ UNCHANGED qvars
  /\ UNCHANGED svars

TimeOut(w) ==
  /\ \/ Q!Expire(w) /\ UNCHANGED fvars
     \/ F!GiveUp(w) /\ UNCHANGED qvars
  /\ UNCHANGED svars

(* Fault: the request stays in self._pending. *)
KeepSpending(r) == spending

(* self._pending.pop(request_id, None) *)
ForgetSpending(r) == spending \ {r}

(* complete() also tells the fallback, whichever queue the request was in. *)
complete(r, success) ==
  /\ completions[r] < Acquired(r)
  /\ spending' = ForgetSpending(r)
  /\ IF Fallback THEN F!complete(r, success) ELSE UNCHANGED fvars
  /\ sstats' = IF success THEN [sstats EXCEPT !.completed = @ + 1]
                          ELSE [sstats EXCEPT !.errors = @ + 1]
  /\ completions' = [completions EXCEPT ![r] = @ + 1]
  /\ UNCHANGED <<qvars, use_fallback, agingTask>>

cancel(r) ==
  /\ r \in Known
  /\ spending' = ForgetSpending(r)
  /\ F!cancel(r) \/ (r \notin fpending /\ UNCHANGED fvars)
  /\ Q!cancel(r) \/ (r \notin Q!Ids(pending) /\ UNCHANGED qvars)
  /\ UNCHANGED <<use_fallback, agingTask, sstats, completions>>

(***************************************************************************)
(* _aging_loop sees request r in self._pending: it boosts it, or cancels   *)
(* it when it has waited longer than the time-out.  update_priority() does *)
(* nothing for a request that has left the queue.                          *)
(***************************************************************************)
Boost(r) ==
  /\ agingTask
  /\ r \in spending
  /\ \E p \in Prios : Q!update_priority(r, p)
  /\ UNCHANGED <<fvars, svars>>

Overdue(r) ==
  /\ agingTask
  /\ r \in spending
  /\ cancel(r)

(* The scheduler as long as no request is cancelled. *)
PatientNext ==
  \/ start \/ stop
  \/ \E r \in Requests, p \in Prios, predicted \in BOOLEAN : submit(r, p, predicted)
  \/ \E w \in Workers : acquire(w) \/ TimeOut(w)
  \/ \E r \in Requests, success \in BOOLEAN : complete(r, success)
  \/ \E r \in Requests : Boost(r)

Next == PatientNext \/ \E r \in Requests : cancel(r) \/ Overdue(r)

(* Workers call acquire() again and again, and their time-outs expire.     *)
Fairness == \A w \in Workers : WF_vars(acquire(w)) /\ WF_vars(TimeOut(w))

Spec == Init /\ [][Next]_vars
FairSpec == Spec /\ Fairness
PatientSpec == Init /\ [][PatientNext]_vars /\ Fairness

-----------------------------------------------------------------------------
(* Types of the scheduler's own state; the parts have theirs. *)
TypeOK ==
  /\ Q!TypeOK /\ F!TypeOK
  /\ spending \subseteq Requests
  /\ use_fallback \in BOOLEAN /\ agingTask \in BOOLEAN
  /\ sstats \in [scheduled : Nat, completed : Nat, errors : Nat]
  /\ completions \in [Requests -> Nat]

(* The aging loop works on self._pending, dequeue() on the queue's own     *)
(* books.  They agree: every request that waits in the queue and is not    *)
(* cancelled is seen by the aging loop, and self._pending holds no request *)
(* that is neither queued nor on its way to complete().                    *)
AgingSeesQueue ==
  /\ Q!Ids(pending) \ cancelled \subseteq spending
  /\ \A r \in spending :
       r \in Q!Ids(pending) \ cancelled \/ completions[r] < Acquired(r)

(* A request submitted is acquired in the end, or cancelled: prediction    *)
(* failures do not stop service.                                           *)
EventuallyAcquired ==
  \A r \in Requests : r \in Known ~> Acquired(r) > 0 \/ r \in acked \cup facked

(* What the fallback took over it serves, unless it is cancelled, even if  *)
(* every worker slept in the priority queue when the switch was made.      *)
FallbackServes ==
  \A r \in Requests : r \in Range(arrivals) ~> r \in Range(served) \cup facked

(* The fallback's _pending holds its requests from submit() to complete()  *)
(* or cancel(), although complete() is called for all requests.            *)
PendingTracks == F!PendingTracks

(* Workers move between the two queues and time out in both; the fallback  *)
(* loses no wake-up over it: while a worker sleeps in its get(), as many   *)
(* workers are woken in it as requests are queued.  Workers asleep in the  *)
(* priority queue do not count, nor those between two calls of acquire().  *)
NoSleeperWhileQueued == F!NoSleeperWhileQueued

(* In the priority queue, while a worker sleeps in dequeue() there are as  *)
(* many workers awake, or in the fallback, as items in the heap.           *)
NoLostWakeup == Q!NoLostWakeup

=============================================================================
