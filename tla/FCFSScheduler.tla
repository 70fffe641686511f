---------------------------- MODULE FCFSScheduler ----------------------------
(***************************************************************************)
(* python/scheduler/fcfs_scheduler.py: the FIFO scheduler, used on its own *)
(* and as the fallback of the SJF scheduler, over an asyncio.Queue.  No    *)
(* method yields except acquire(), and that only on an empty queue, so     *)
(* each is one atomic action.                                              *)
(***************************************************************************)
EXTENDS Integers, Sequences, FiniteSets, Functions

CONSTANTS
  Requests,  \* request identifiers; new_request_id() never repeats one
  Workers    \* tasks that call acquire(timeout) in a loop

VARIABLES
  fifo,      \* _queue
  fpending,  \* the keys of _pending
  fstats,    \* _total_scheduled, _total_completed, _total_errors, _total_cancelled
  gstate,    \* where each worker is: outside acquire() or ready to run in it,
             \* waiting in Queue.get(), or woken and not yet resumed
  arrivals,  \* history: requests in the order of submit()
  served,    \* history: requests in the order acquire() returned them
  facked,    \* history: requests for which cancel() returned True
  finished   \* history: requests complete() was called for

fvars == <<fifo, fpending, fstats, gstate, arrivals, served, facked, finished>>

Init ==
  /\ fifo = <<>> /\ fpending = {}
  /\ fstats = [scheduled |-> 0, completed |-> 0, errors |-> 0, cancelled |-> 0]
  /\ gstate = [w \in Workers |-> "ready"]
  /\ arrivals = <<>> /\ served = <<>> /\ facked = {} /\ finished = {}

(* asyncio.Queue._wakeup_next(): one waiting getter is woken. *)
Wakeup(gs) ==
  LET waiting == {w \in Workers : gs[w] = "waiting"}
  IN  IF waiting = {} THEN {gs}
      ELSE {[gs EXCEPT ![w] = "woken"] : w \in waiting}

submit(r) ==
  /\ r \notin Range(arrivals)
  /\ fpending' = fpending \cup {r}
  /\ fifo' = Append(fifo, r)
  /\ gstate' \in Wakeup(gstate)
  /\ fstats' = [fstats EXCEPT !.scheduled = @ + 1]
  /\ arrivals' = Append(arrivals, r)
  /\ UNCHANGED <<served, facked, finished>>

(* acquire() returns the head of the queue ... *)
Get(w) ==
  /\ gstate[w] \in {"ready", "woken"}
  /\ fifo # <<>>
  /\ fifo' = Tail(fifo)
  /\ served' = Append(served, Head(fifo))
  /\ gstate' = [gstate EXCEPT ![w] = "ready"]
  /\ UNCHANGED <<fpending, fstats, arrivals, facked, finished>>

(* ... or waits on an empty one ... *)
Block(w) ==
  /\ gstate[w] \in {"ready", "woken"}
  /\ fifo = <<>>
  /\ gstate' = [gstate EXCEPT ![w] = "waiting"]
  /\ UNCHANGED <<fifo, fpending, fstats, arrivals, served, facked, finished>>

(* Fault: a wake-up is lost with the getter that had it. *)
LoseWakeup(gs) == {gs}

(* Queue.get() hands its wake-up on when it is cancelled after it came. *)
HandOn(gs) == Wakeup(gs)

(***************************************************************************)
(* ... until wait_for() gives up.  A getter that was woken and then timed  *)
(* out hands its wake-up on when the queue is not empty.                   *)
(***************************************************************************)
GiveUp(w) ==
  /\ gstate[w] \in {"waiting", "woken"}
  /\ LET back == [gstate EXCEPT ![w] = "ready"]
     IN  gstate' \in IF gstate[w] = "woken" /\ fifo # <<>> THEN HandOn(back) ELSE {back}
  /\ UNCHANGED <<fifo, fpending, fstats, arrivals, served, facked, finished>>

(* Fault: a completed request keeps its entry in _pending. *)
KeepPending(r) == fpending

(* _pending.pop(request_id, None) *)
Forget(r) == fpending \ {r}

complete(r, success) ==
  /\ fpending' = Forget(r)
  /\ fstats' = IF success THEN [fstats EXCEPT !.completed = @ + 1]
                          ELSE [fstats EXCEPT !.errors = @ + 1]
  /\ finished' = finished \cup {r}
  /\ UNCHANGED <<fifo, gstate, arrivals, served, facked>>

(* request_id in self._pending *)
Cancellable(r) == r \in fpending

(***************************************************************************)
(* cancel() returns True; for a request not in _pending it does nothing.   *)
(* The request stays in _queue.                                            *)
(***************************************************************************)
cancel(r) ==
  /\ Cancellable(r)
  /\ fpending' = fpending \ {r}
  /\ fstats' = [fstats EXCEPT !.cancelled = @ + 1]
  /\ facked' = facked \cup {r}
  /\ UNCHANGED <<fifo, gstate, arrivals, served, finished>>

Next ==
  \/ \E r \in Requests : submit(r) \/ cancel(r)
  \/ \E r \in Range(served) \ finished, success \in BOOLEAN : complete(r, success)
  \/ \E w \in Workers : Get(w) \/ Block(w) \/ GiveUp(w)

Spec == Init /\ [][Next]_fvars

-----------------------------------------------------------------------------
(* Types; a request is counted as cancelled at most once. *)
TypeOK ==
  /\ fifo \in Seq(Requests) /\ arrivals \in Seq(Requests) /\ served \in Seq(Requests)
  /\ fpending \subseteq Requests
  /\ fstats \in [scheduled : Nat, completed : Nat, errors : Nat, cancelled : Nat]
  /\ fstats.cancelled <= fstats.scheduled
  /\ gstate \in [Workers -> {"ready", "waiting", "woken"}]
  /\ facked \subseteq Requests /\ finished \subseteq Requests

(* What acquire() has returned, followed by what is queued, is what was    *)
(* submitted, cancelled requests included: the order the proofs rest on.   *)
FirstComeFirstServed == arrivals = served \o fifo

(* _pending holds a request from submit() to complete() or cancel(): no    *)
(* finished request stays in it, and one that left it early was cancelled. *)
PendingTracks == fpending = Range(arrivals) \ (finished \cup facked)

(* No wake-up is lost: while a worker sleeps in get(), as many getters     *)
(* have been woken, and not yet run, as requests are queued.  A worker     *)
(* outside get() does not count: one that timed out may be away for long.  *)
NoSleeperWhileQueued ==
  (\E w \in Workers : gstate[w] = "waiting") =>
    Len(fifo) <= Cardinality({w \in Workers : gstate[w] = "woken"})

=============================================================================
