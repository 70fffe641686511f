---------------------------- MODULE PriorityQueue ----------------------------
(***************************************************************************)
(* python/scheduler/priority_queue.py: the asyncio priority queue behind   *)
(* the SJF schedulers, with the tasks that block in its dequeue().         *)
(*                                                                         *)
(* Every method is one atomic action: under CPython 3.12 no task yields    *)
(* while it holds _lock (Condition.wait releases it first, and wait_for    *)
(* runs the wait in the caller's own task), so the lock is never contended *)
(* and a method runs from its call to its return, or to its wait.          *)
(***************************************************************************)
EXTENDS Integers, FiniteSets

CONSTANTS
  Requests,  \* request identifiers; new_request_id() never repeats one
  Workers,   \* tasks that call dequeue(timeout) in a loop
  Prios,     \* priorities: predicted lengths, and what aging makes of them
  WaitCap,   \* samples _wait_times may hold (10000)
  WaitKeep   \* samples that survive its truncation (5000)

ASSUME PriosAssumption == Prios \subseteq Int
ASSUME WorkersAssumption == IsFiniteSet(Workers)
ASSUME WaitAssumption == /\ WaitCap \in Nat /\ WaitKeep \in Nat
                         /\ WaitKeep <= WaitCap

VARIABLES
  heap,       \* _heap, as a set of items
  pending,    \* the values of the dict _pending; an item's rid is its key
  cancelled,  \* _cancelled
  stats,      \* _total_enqueued, _total_dequeued, _total_cancelled
  waits,      \* length of _wait_times
  wstate,     \* where each worker is: outside dequeue or ready to run in it,
              \* in _not_empty.wait(), or notified and not yet resumed
  submitted,  \* history: requests enqueued
  acked,      \* history: requests for which cancel() returned True
  dropped,    \* history: requests discarded by dequeue()
  dispatched  \* history: how often dequeue() returned each request

vars == <<heap, pending, cancelled, stats, waits, wstate,
          submitted, acked, dropped, dispatched>>

Item == [rid : Requests, prio : Prios, time : Nat]

(* Fault: items compare by enqueue_time alone. *)
BeforeByTime(a, b) == a.time < b.time

(* PrioritizedItem's order: priority, then enqueue_time. *)
Before(a, b) == \/ a.prio < b.prio
                \/ a.prio = b.prio /\ a.time < b.time

Ids(items) == {i.rid : i \in items}

(* Fault: a popped item keeps its entry in _pending. *)
KeepAll(items, ids) == items

(* _pending.pop(request_id, None), for every popped item. *)
Without(items, ids) == {i \in items : i.rid \notin ids}

(* Fault: heap[0] is read where it should be popped. *)
Peek(items) == heap

(* heapq.heappop() of each of the items. *)
Pop(items) == heap \ items

(* Fault: _wait_times grows without bound. *)
NeverTruncate(n) == n

(* _wait_times keeps its last WaitKeep samples once it outgrows WaitCap. *)
Truncate(n) == IF n > WaitCap THEN WaitKeep ELSE n

Init ==
  /\ heap = {} /\ pending = {} /\ cancelled = {}
  /\ stats = [enqueued |-> 0, dequeued |-> 0, cancelled |-> 0]
  /\ waits = 0
  /\ wstate = [w \in Workers |-> "ready"]
  /\ submitted = {} /\ acked = {} /\ dropped = {}
  /\ dispatched = [r \in Requests |-> 0]

(* Condition.notify(): wakes one waiter that has not been woken yet. *)
Notify(ws) ==
  LET waiting == {w \in Workers : ws[w] = "waiting"}
  IN  IF waiting = {} THEN {ws}
      ELSE {[ws EXCEPT ![w] = "notified"] : w \in waiting}

(* Fault: the notify() after a push is missing. *)
TellNobody(ws) == {ws}

(* self._not_empty.notify(), once for every push. *)
Announce(ws) == Notify(ws)

enqueue(r, p) ==
  /\ r \notin submitted
  /\ LET item == [rid |-> r, prio |-> p, time |-> stats.enqueued]
     IN  /\ heap' = heap \cup {item}
         /\ pending' = pending \cup {item}
  /\ stats' = [stats EXCEPT !.enqueued = @ + 1]
  /\ wstate' \in Announce(wstate)
  /\ submitted' = submitted \cup {r}
  /\ UNCHANGED <<cancelled, waits, acked, dropped, dispatched>>

(* Fault: dequeue() does not look at _cancelled. *)
SkipNothing == {}

(***************************************************************************)
(* dequeue() pops items in order.  The first copy of a cancelled request   *)
(* is discarded, and discarding it clears the mark, so a second copy of    *)
(* the same request is served like any other.                              *)
(***************************************************************************)
Skipped == {i \in heap : /\ i.rid \in cancelled
                         /\ \A j \in heap : j.rid = i.rid => ~Before(j, i)}
Servable == heap \ Skipped

(* Fault: discarded items are not counted. *)
DiscardUncounted(items, n) ==
  /\ cancelled' = cancelled \ Ids(items)
  /\ dropped' = dropped \cup Ids(items)
  /\ stats' = [stats EXCEPT !.dequeued = @ + n]

(* What a dequeue() that discards the items and returns n does besides. *)
Discard(items, n) ==
  /\ cancelled' = cancelled \ Ids(items)
  /\ dropped' = dropped \cup Ids(items)
  /\ stats' = [enqueued |-> stats.enqueued,
               dequeued |-> stats.dequeued + n,
               cancelled |-> stats.cancelled + Cardinality(items)]

(* dequeue() finds an item to return. *)
Take(w) ==
  /\ wstate[w] \in {"ready", "notified"}
  /\ \E item \in Servable :
       LET skipped == {i \in Skipped : Before(i, item)}
       IN  /\ \A other \in Servable \ {item} : Before(item, other)
           /\ heap' = Pop(skipped \cup {item})
           /\ pending' = Without(pending, Ids(skipped \cup {item}))
           /\ Discard(skipped, 1)
           /\ dispatched' = [dispatched EXCEPT ![item.rid] = @ + 1]
  /\ waits' = Truncate(waits + 1)
  /\ wstate' = [wstate EXCEPT ![w] = "ready"]
  /\ UNCHANGED <<submitted, acked>>

(***************************************************************************)
(* dequeue() empties the heap of cancelled items and waits, or raises      *)
(* TimeoutError if it was woken after its deadline.                        *)
(***************************************************************************)
Park(w) ==
  /\ wstate[w] \in {"ready", "notified"}
  /\ Servable = {}
  /\ heap' = Pop(heap)
  /\ pending' = Without(pending, Ids(heap))
  /\ Discard(heap, 0)
  /\ \E s \in {"waiting"} \cup (IF wstate[w] = "notified" THEN {"ready"} ELSE {}) :
       wstate' = [wstate EXCEPT ![w] = s]
  /\ UNCHANGED <<waits, submitted, acked, dispatched>>

(***************************************************************************)
(* wait_for() gives up: TimeoutError, without another look at the heap.    *)
(* When the notification had already come it is passed on or lost,         *)
(* depending on the CPython release.                                       *)
(***************************************************************************)
Expire(w) ==
  /\ wstate[w] \in {"waiting", "notified"}
  /\ LET back == [wstate EXCEPT ![w] = "ready"]
     IN  wstate' \in {back} \cup (IF wstate[w] = "notified" THEN Notify(back) ELSE {})
  /\ UNCHANGED <<heap, pending, cancelled, stats, waits,
                 submitted, acked, dropped, dispatched>>

(* cancel() returns True; for a request not in _pending it does nothing. *)
cancel(r) ==
  /\ r \in Ids(pending)
  /\ cancelled' = cancelled \cup {r}
  /\ acked' = acked \cup {r}
  /\ UNCHANGED <<heap, pending, stats, waits, wstate, submitted, dropped, dispatched>>

(* Fault: the mark that update_priority() sets is not cleared again. *)
LeaveMarked(r) == cancelled \cup {r}

(* _cancelled.add() and, after the push, _cancelled.discard(). *)
Unmark(r) == cancelled \ {r}

(* Fault: the caller raises the priority as well. *)
Changes(p, item) == p # item.prio

(* The only caller, the aging loop, lowers the priority. *)
Lowers(p, item) == p < item.prio

(***************************************************************************)
(* update_priority() pushes a second item and leaves the first one in the  *)
(* heap; its cancel mark is set and cleared again.                         *)
(***************************************************************************)
update_priority(r, p) ==
  /\ \E item \in pending :
       /\ item.rid = r
       /\ Lowers(p, item)
       /\ LET new == [item EXCEPT !.prio = p]
          IN  /\ heap' = heap \cup {new}
              /\ pending' = (pending \ {item}) \cup {new}
  /\ cancelled' = Unmark(r)
  /\ wstate' \in Announce(wstate)
  /\ UNCHANGED <<stats, waits, submitted, acked, dropped, dispatched>>

(* OracleSJFScheduler uses the queue without aging. *)
OracleNext ==
  \/ \E r \in Requests : cancel(r) \/ \E p \in Prios : enqueue(r, p)
  \/ \E w \in Workers : Take(w) \/ Park(w) \/ Expire(w)

Next ==
  \/ OracleNext
  \/ \E r \in Requests, p \in Prios : update_priority(r, p)

Spec == Init /\ [][Next]_vars

-----------------------------------------------------------------------------
(* Types; _wait_times never outgrows its cap. *)
TypeOK ==
  /\ heap \subseteq Item /\ pending \subseteq Item
  /\ cancelled \subseteq Requests
  /\ stats \in [enqueued : Nat, dequeued : Nat, cancelled : Nat]
  /\ waits \in 0..WaitCap
  /\ wstate \in [Workers -> {"ready", "waiting", "notified"}]
  /\ submitted \subseteq Requests /\ acked \subseteq Requests
  /\ dropped \subseteq Requests
  /\ dispatched \in [Requests -> Nat]

(* _pending, _heap and _cancelled agree, whatever copies aging has left in *)
(* the heap: the item _pending holds for a request is in the heap, each    *)
(* request has one, and only pending requests carry a cancel mark (a mark  *)
(* left behind would swallow nothing today, but _cancelled would leak).    *)
PendingIsHeld ==
  /\ pending \subseteq heap
  /\ \A i, j \in pending : i.rid = j.rid => i = j
  /\ cancelled \subseteq Ids(pending)

(* No request is lost and none made up: one that was enqueued is still     *)
(* pending, or has been returned by dequeue(), or was discarded; the heap  *)
(* holds only enqueued requests; and dequeue() discards, now or later,     *)
(* only requests somebody cancelled.                                       *)
NothingLost ==
  /\ \A r \in submitted :
       r \in Ids(pending) \/ dispatched[r] > 0 \/ r \in dropped
  /\ Ids(heap) \subseteq submitted
  /\ cancelled \cup dropped \subseteq acked

(* The item _pending holds for a request leaves the heap before every      *)
(* outdated copy of it, so that dequeue() never serves an outdated         *)
(* priority first.                                                         *)
LatestFirst ==
  \A i \in pending, j \in heap : i.rid = j.rid => ~Before(j, i)

(* No wake-up is lost: while a worker sleeps in wait(), there are at least *)
(* as many workers awake as items in the heap, although a notified worker  *)
(* may time out and leave without looking at the heap.                     *)
NoLostWakeup ==
  (\E w \in Workers : wstate[w] = "waiting") =>
    Cardinality(heap) <= Cardinality({w \in Workers : wstate[w] # "waiting"})

(* Shortest job first: a pending request that dequeue() returns has the    *)
(* smallest current priority of the pending requests that are not          *)
(* cancelled, in spite of the outdated items that lie in the heap.         *)
ShortestFirst ==
  [][\A a, b \in pending :
       /\ dispatched'[a.rid] > dispatched[a.rid]
       /\ b.rid \notin cancelled
       => a.prio <= b.prio]_vars

(* A request is returned again, or in spite of its cancel mark, only       *)
(* through a copy that update_priority() has outdated and left in the      *)
(* heap: never through the item that _pending holds for it.                *)
OnlyStaleRepeats ==
  [][\A r \in Requests :
       dispatched'[r] > dispatched[r] /\ (dispatched[r] > 0 \/ r \in cancelled) =>
         \E i \in heap \ (heap' \cup pending) : i.rid = r]_vars

(* An enqueued request is returned by dequeue() in the end, or cancelled.  *)
EventuallyServed ==
  \A r \in Requests :
    r \in submitted ~> dispatched[r] > 0 \/ r \in acked

(* dequeue() returns a request at most once.                               *)
AtMostOnce == \A r \in Requests : dispatched[r] <= 1

(* Without aging a request has one item and one fate: it waits, or was     *)
(* dispatched, or cancelled, and a cancelled one waits to be discarded or  *)
(* has been.                                                               *)
OneFate ==
  /\ heap = pending
  /\ acked = cancelled \cup dropped
  /\ dropped \subseteq submitted \ Ids(heap)
  /\ \A r \in Requests : dispatched[r] > 0 => r \in submitted \ (Ids(heap) \cup dropped)

=============================================================================
