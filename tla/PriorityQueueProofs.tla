-------------------------- MODULE PriorityQueueProofs --------------------------
(***************************************************************************)
(* Proofs about PriorityQueue for any sets of requests, workers and        *)
(* priorities, and any number of aging steps, and about its use by         *)
(* OracleSJFScheduler, which never changes a priority.                     *)
(***************************************************************************)
EXTENDS OracleQueue, FiniteSetTheorems, TLAPS

USE SMTT(30), ZenonT(30)

(* The inductive invariant: the checked invariants of the books, together. *)
IInv ==
  /\ TypeOK
  /\ PendingIsHeld
  /\ NothingLost
  /\ LatestFirst
  /\ IsFiniteSet(heap)

(* Before is a strict order, total up to copies that compare equal, as     *)
(* PrioritizedItem's generated comparison is.                              *)
LEMMA BeforeOrder ==
  ASSUME NEW a \in Item, NEW b \in Item, NEW c \in Item
  PROVE  /\ ~Before(a, a)
         /\ Before(a, b) /\ Before(b, c) => Before(a, c)
         /\ ~Before(b, a) /\ Before(b, c) => Before(a, c)
         /\ Before(a, b) => a.prio <= b.prio
         /\ ~Before(b, a) => a.prio <= b.prio
<1>1. /\ a.prio \in Int /\ b.prio \in Int /\ c.prio \in Int
      /\ a.time \in Nat /\ b.time \in Nat /\ c.time \in Nat
  BY Zenon, PriosAssumption DEF Item
<1> QED
  BY <1>1 DEF Before

(* Condition.notify() only moves workers between known states. *)
LEMMA NotifyType ==
  ASSUME NEW ws \in [Workers -> {"ready", "waiting", "notified"}],
         NEW next \in Notify(ws)
  PROVE  next \in [Workers -> {"ready", "waiting", "notified"}]
BY DEF Notify

(* The bookkeeping of a dequeue() that discards finitely many items. *)
LEMMA DiscardType ==
  ASSUME TypeOK, NEW items, IsFiniteSet(items), NEW n \in Nat, Discard(items, n)
  PROVE  stats' \in [enqueued : Nat, dequeued : Nat, cancelled : Nat]
<1> DEFINE size == Cardinality(items)
<1>1. size \in Nat
  BY FS_CardinalityType
<1>2. stats' = [enqueued |-> stats.enqueued, dequeued |-> stats.dequeued + n,
                cancelled |-> stats.cancelled + size]
  BY DEF Discard
<1> HIDE DEF size
<1> QED
  BY <1>1, <1>2 DEF TypeOK

(* The first copy of a cancelled request, the one dequeue() discards, is   *)
(* its item in _pending; no minimum over the heap has to be looked for.    *)
LEMMA CancelledSkipped ==
  ASSUME IInv, NEW i \in pending, i.rid \in cancelled
  PROVE  i \in Skipped
BY DEF IInv, PendingIsHeld, LatestFirst, Skipped

(* The first requirement of a dequeue(): an item that is served although   *)
(* its request is cancelled comes after the request's item in _pending,    *)
(* which the same call discards.                                           *)
LEMMA ServedCancelled ==
  ASSUME IInv, NEW i \in pending, i.rid \in cancelled,
         NEW item \in Servable, item.rid = i.rid
  PROVE  Before(i, item)
<1>1. i \in Item /\ item \in Item /\ i \in heap /\ item \in heap
  BY DEF IInv, TypeOK, PendingIsHeld, Servable
<1>2. PICK j \in heap : j.rid = item.rid /\ Before(j, item)
  BY DEF Servable, Skipped
<1>3. j \in Item /\ ~Before(j, i)
  BY <1>2 DEF IInv, TypeOK, LatestFirst
<1> QED
  BY <1>1, <1>2, <1>3, BeforeOrder

LEMMA InitIInv == Init => IInv
<1> SUFFICES ASSUME Init PROVE IInv
  OBVIOUS
<1>1. TypeOK
  BY WaitAssumption DEF Init, TypeOK
<1>2. IsFiniteSet(heap)
  BY FS_EmptySet DEF Init
<1> QED
  BY <1>1, <1>2 DEF Init, IInv, PendingIsHeld, NothingLost, LatestFirst, Ids

LEMMA EnqueueIInv ==
  ASSUME IInv, NEW r \in Requests, NEW p \in Prios, enqueue(r, p)
  PROVE  IInv'
<1> DEFINE item == [rid |-> r, prio |-> p, time |-> stats.enqueued]
<1>0. /\ item \in Item /\ item.rid = r /\ heap' = heap \cup {item}
      /\ pending' = pending \cup {item}
  BY DEF IInv, TypeOK, enqueue, Item
<1>fresh. \A i \in heap : i.rid # r
  BY DEF IInv, NothingLost, Ids, enqueue
<1> HIDE DEF item
<1>1. TypeOK'
  <2>1. heap' \subseteq Item /\ pending' \subseteq Item
    BY <1>0 DEF IInv, TypeOK
  <2>2. wstate' \in [Workers -> {"ready", "waiting", "notified"}]
    BY NotifyType DEF IInv, TypeOK, enqueue, Announce
  <2>3. stats' \in [enqueued : Nat, dequeued : Nat, cancelled : Nat]
    BY DEF IInv, TypeOK, enqueue
  <2> QED
    BY <2>1, <2>2, <2>3 DEF IInv, TypeOK, enqueue
<1>2. PendingIsHeld'
  BY <1>0, <1>fresh DEF IInv, PendingIsHeld, Ids, enqueue
<1>3. NothingLost'
  BY <1>0 DEF IInv, NothingLost, Ids, enqueue
<1>4. LatestFirst'
  <2>1. ~Before(item, item)
    BY <1>0, BeforeOrder
  <2> QED
    BY <1>0, <1>fresh, <2>1 DEF IInv, PendingIsHeld, LatestFirst
<1>5. IsFiniteSet(heap')
  BY <1>0, FS_AddElement DEF IInv
<1> QED
  BY <1>1, <1>2, <1>3, <1>4, <1>5 DEF IInv

LEMMA TakeIInv ==
  ASSUME IInv, NEW w \in Workers, Take(w)
  PROVE  IInv'
<1>1. PICK item \in Servable :
        LET skipped == {i \in Skipped : Before(i, item)}
        IN  /\ heap' = heap \ (skipped \cup {item})
            /\ pending' = Without(pending, Ids(skipped \cup {item}))
            /\ Discard(skipped, 1)
            /\ dispatched' = [dispatched EXCEPT ![item.rid] = @ + 1]
  BY Zenon DEF Take, Pop
<1> DEFINE skipped == {i \in Skipped : Before(i, item)}
<1>2. /\ heap' = heap \ (skipped \cup {item})
      /\ pending' = Without(pending, Ids(skipped \cup {item}))
      /\ Discard(skipped, 1)
      /\ dispatched' = [dispatched EXCEPT ![item.rid] = @ + 1]
  BY <1>1
<1>3. skipped \subseteq heap /\ item \in heap /\ \A i \in skipped : i.rid \in cancelled
  BY DEF Servable, Skipped
<1>4. IsFiniteSet(skipped)
  BY <1>3, FS_Subset DEF IInv
<1>5. pending' \subseteq pending
  BY <1>2 DEF Without
<1>6. cancelled' = cancelled \ Ids(skipped) /\ dropped' = dropped \cup Ids(skipped)
  BY <1>2 DEF Discard
<1>served. \A i \in pending : i.rid = item.rid /\ i.rid \in cancelled => i \in skipped
  BY CancelledSkipped, ServedCancelled
<1> HIDE DEF skipped
<1>7. TypeOK'
  <2>1. heap' \subseteq Item /\ pending' \subseteq Item
    BY Zenon, <1>2, <1>5 DEF IInv, TypeOK
  <2>2. stats' \in [enqueued : Nat, dequeued : Nat, cancelled : Nat]
    BY <1>2, <1>4, DiscardType DEF IInv
  <2>3. waits' \in 0..WaitCap
    BY WaitAssumption DEF IInv, TypeOK, Take, Truncate
  <2>4. item.rid \in Requests /\ Ids(skipped) \subseteq Requests
    BY <1>3 DEF IInv, TypeOK, Item, Ids
  <2>5. dispatched' \in [Requests -> Nat]
    BY <1>2, <2>4 DEF IInv, TypeOK
  <2>6. wstate' \in [Workers -> {"ready", "waiting", "notified"}]
    BY DEF IInv, TypeOK, Take
  <2> QED
    BY <1>6, <2>1, <2>2, <2>3, <2>4, <2>5, <2>6 DEF IInv, TypeOK, Take
<1>8. PendingIsHeld'
  <2>1. pending' \subseteq heap'
    BY <1>2, <1>5 DEF IInv, PendingIsHeld, Without, Ids
  <2>2. \A i, j \in pending' : i.rid = j.rid => i = j
    BY <1>5 DEF IInv, PendingIsHeld
  <2>3. ASSUME NEW r \in cancelled' PROVE r \in Ids(pending')
    <3>1. PICK i \in pending : i.rid = r
      BY <1>6, <2>3 DEF IInv, PendingIsHeld, Ids
    <3>2. r \in cancelled /\ r \notin Ids(skipped)
      BY <1>6, <2>3
    <3>3. r # item.rid
      BY <3>1, <3>2, <1>served DEF Ids
    <3>4. i \in pending'
      BY <1>2, <3>1, <3>2, <3>3 DEF Without, Ids
    <3> QED
      BY <3>1, <3>4 DEF Ids
  <2> QED
    BY <2>1, <2>2, <2>3 DEF PendingIsHeld
<1>9. NothingLost'
  <2>1. ASSUME NEW r \in submitted'
        PROVE  r \in Ids(pending') \/ dispatched'[r] > 0 \/ r \in dropped'
    <3>1. r \in submitted /\ r \in Requests /\ item.rid \in Requests
      BY <1>3 DEF IInv, TypeOK, Item, Take
    <3>2. dispatched[r] > 0 => dispatched'[r] > 0
      BY <1>2, <3>1 DEF IInv, TypeOK
    <3>3. r = item.rid => dispatched'[r] > 0
      BY <1>2, <3>1 DEF IInv, TypeOK
    <3>4. CASE r \in Ids(pending) /\ r # item.rid /\ r \notin Ids(skipped)
      BY <1>2, <3>4 DEF Without, Ids
    <3> QED
      BY <1>6, <3>1, <3>2, <3>3, <3>4 DEF IInv, NothingLost
  <2>2. Ids(heap') \subseteq submitted'
    BY <1>2 DEF IInv, NothingLost, Ids, Take
  <2>3. cancelled' \cup dropped' \subseteq acked'
    BY <1>3, <1>6 DEF IInv, NothingLost, Ids, Take
  <2> QED
    BY <2>1, <2>2, <2>3 DEF NothingLost
<1>10. LatestFirst'
  BY Zenon, <1>2, <1>5 DEF IInv, LatestFirst
<1>11. IsFiniteSet(heap')
  BY <1>2, FS_Subset DEF IInv
<1> QED
  BY <1>7, <1>8, <1>9, <1>10, <1>11 DEF IInv

LEMMA ParkIInv ==
  ASSUME IInv, NEW w \in Workers, Park(w)
  PROVE  IInv'
<1>1. /\ heap' = {} /\ pending' = {}
      /\ cancelled' = cancelled \ Ids(heap) /\ dropped' = dropped \cup Ids(heap)
  BY DEF IInv, PendingIsHeld, Park, Pop, Without, Ids, Discard
<1>2. \A i \in heap : i.rid \in cancelled
  BY DEF Park, Servable, Skipped
<1>3. cancelled' = {}
  BY <1>1 DEF IInv, PendingIsHeld, Ids
<1>4. TypeOK'
  <2>1. stats' \in [enqueued : Nat, dequeued : Nat, cancelled : Nat]
    BY DiscardType DEF IInv, Park
  <2>2. wstate' \in [Workers -> {"ready", "waiting", "notified"}]
    BY DEF IInv, TypeOK, Park
  <2>3. dropped' \subseteq Requests
    BY <1>1 DEF IInv, TypeOK, Item, Ids
  <2> QED
    BY <1>1, <1>3, <2>1, <2>2, <2>3 DEF IInv, TypeOK, Park
<1>5. PendingIsHeld' /\ LatestFirst'
  BY <1>1, <1>3 DEF PendingIsHeld, LatestFirst
<1>6. NothingLost'
  BY <1>1, <1>2, <1>3 DEF IInv, PendingIsHeld, NothingLost, Ids, Park
<1>7. IsFiniteSet(heap')
  BY <1>1, FS_EmptySet
<1> QED
  BY <1>4, <1>5, <1>6, <1>7 DEF IInv

LEMMA ExpireIInv ==
  ASSUME IInv, NEW w \in Workers, Expire(w)
  PROVE  IInv'
<1> DEFINE back == [wstate EXCEPT ![w] = "ready"]
<1>1. back \in [Workers -> {"ready", "waiting", "notified"}]
  BY DEF IInv, TypeOK
<1>2. wstate' = back \/ wstate' \in Notify(back)
  BY DEF Expire
<1> HIDE DEF back
<1>3. wstate' \in [Workers -> {"ready", "waiting", "notified"}]
  BY <1>1, <1>2, NotifyType
<1> QED
  BY <1>3 DEF IInv, TypeOK, PendingIsHeld, NothingLost, LatestFirst, Ids, Before, Expire

LEMMA CancelIInv ==
  ASSUME IInv, NEW r \in Requests, cancel(r)
  PROVE  IInv'
BY DEF IInv, TypeOK, PendingIsHeld, NothingLost, LatestFirst, Ids, cancel

LEMMA UpdatePriorityIInv ==
  ASSUME IInv, NEW r \in Requests, NEW p \in Prios, update_priority(r, p)
  PROVE  IInv'
<1>1. PICK item \in pending :
        /\ item.rid = r /\ p < item.prio
        /\ heap' = heap \cup {[item EXCEPT !.prio = p]}
        /\ pending' = (pending \ {item}) \cup {[item EXCEPT !.prio = p]}
  BY DEF update_priority, Lowers
<1> DEFINE new == [item EXCEPT !.prio = p]
<1>2. /\ item \in Item /\ new \in Item /\ item \in heap
      /\ new.rid = r /\ new.prio = p /\ new.time = item.time
  BY <1>1 DEF IInv, TypeOK, PendingIsHeld, Item
<1>3. heap' = heap \cup {new} /\ pending' = (pending \ {item}) \cup {new}
  BY <1>1
<1> HIDE DEF new
<1>4. Ids(pending') = Ids(pending) /\ Ids(heap') = Ids(heap)
  BY <1>1, <1>2, <1>3 DEF Ids
<1>5. TypeOK'
  <2>1. heap' \subseteq Item /\ pending' \subseteq Item
    BY <1>2, <1>3 DEF IInv, TypeOK
  <2>2. wstate' \in [Workers -> {"ready", "waiting", "notified"}]
    BY NotifyType DEF IInv, TypeOK, update_priority, Announce
  <2> QED
    BY <2>1, <2>2 DEF IInv, TypeOK, update_priority, Unmark
<1>6. PendingIsHeld'
  <2>1. pending' \subseteq heap'
    BY <1>3 DEF IInv, PendingIsHeld
  <2>2. \A i, j \in pending' : i.rid = j.rid => i = j
    BY <1>1, <1>2, <1>3 DEF IInv, PendingIsHeld
  <2>3. cancelled' \subseteq Ids(pending')
    BY <1>4 DEF IInv, PendingIsHeld, update_priority, Unmark
  <2> QED
    BY <2>1, <2>2, <2>3 DEF PendingIsHeld
<1>7. NothingLost'
  BY <1>4 DEF IInv, NothingLost, update_priority, Unmark
<1>8. LatestFirst'
  <2> SUFFICES ASSUME NEW i \in pending', NEW j \in heap', i.rid = j.rid
               PROVE  ~Before(j, i)
    BY DEF LatestFirst
  <2>1. CASE i = new /\ j = new
    BY <1>2, <2>1, BeforeOrder
  <2>2. CASE i = new /\ j \in heap
    <3>1. j \in Item /\ ~Before(j, item)
      BY <1>1, <1>2, <2>2 DEF IInv, TypeOK, LatestFirst
    <3> QED
      BY <1>1, <1>2, <2>2, <3>1, PriosAssumption DEF Before, Item
  <2>3. CASE i \in pending /\ i # item
    BY <1>1, <1>2, <1>3, <2>3 DEF IInv, PendingIsHeld, LatestFirst
  <2> QED
    BY <1>3, <2>1, <2>2, <2>3
<1>9. IsFiniteSet(heap')
  BY <1>3, FS_AddElement DEF IInv
<1> QED
  BY <1>5, <1>6, <1>7, <1>8, <1>9 DEF IInv

(* Every step of the queue, aging included, preserves the invariant. *)
LEMMA NextIInv == IInv /\ [Next]_vars => IInv'
<1> SUFFICES ASSUME IInv, [Next]_vars PROVE IInv'
  OBVIOUS
<1>1. CASE UNCHANGED vars
  BY <1>1 DEF IInv, TypeOK, PendingIsHeld, NothingLost, LatestFirst, Ids, vars
<1>2. CASE Next
  BY <1>2, EnqueueIInv, TakeIInv, ParkIInv, ExpireIInv, CancelIInv, UpdatePriorityIInv
     DEF Next, OracleNext
<1> QED
  BY <1>1, <1>2

LEMMA Invariance == Spec => []IInv
BY InitIInv, NextIInv, PTL DEF Spec

(* The types hold, and with them the cap of _wait_times. *)
THEOREM Types == Spec => []TypeOK
<1>1. IInv => TypeOK
  BY DEF IInv
<1> QED
  BY <1>1, Invariance, PTL

(* The books of the queue stay in order, for every interleaving of         *)
(* enqueue(), dequeue(), its time-outs, cancel() and update_priority().    *)
THEOREM Books == Spec => []PendingIsHeld
<1>1. IInv => PendingIsHeld
  BY DEF IInv
<1> QED
  BY <1>1, Invariance, PTL

(* No request is lost, and dequeue() discards only cancelled ones. *)
THEOREM NoRequestLost == Spec => []NothingLost
<1>1. IInv => NothingLost
  BY DEF IInv
<1> QED
  BY <1>1, Invariance, PTL

(* The copies update_priority() leaves behind come after the current item. *)
THEOREM CurrentFirst == Spec => []LatestFirst
<1>1. IInv => LatestFirst
  BY DEF IInv
<1> QED
  BY <1>1, Invariance, PTL

(* A request that dequeue() has returned is out of _pending for good.      *)
Returned == \A r \in Requests : dispatched[r] > 0 => r \in submitted \ Ids(pending)

LEMMA NextReturned == IInv /\ Returned /\ [Next]_vars => Returned'
<1> SUFFICES ASSUME IInv, Returned, [Next]_vars, NEW q \in Requests, dispatched'[q] > 0
             PROVE  q \in submitted' \ Ids(pending')
  BY DEF Returned
<1>1. ASSUME NEW r \in Requests, NEW p \in Prios, enqueue(r, p)
      PROVE  q \in submitted' \ Ids(pending')
  BY <1>1 DEF Returned, enqueue, Ids
<1>2. ASSUME NEW w \in Workers, Take(w) PROVE q \in submitted' \ Ids(pending')
  <2>1. PICK item \in Servable, skipped \in SUBSET heap :
          /\ pending' = Without(pending, Ids(skipped \cup {item}))
          /\ dispatched' = [dispatched EXCEPT ![item.rid] = @ + 1]
          /\ submitted' = submitted
    BY ZenonT(30), <1>2 DEF Take, Skipped
  <2>2. Ids(pending') \subseteq Ids(pending) \ {item.rid}
    BY <2>1 DEF Without, Ids
  <2>3. item.rid \in submitted
    BY DEF IInv, NothingLost, Servable, Ids
  <2>4. q = item.rid \/ dispatched[q] > 0
    BY <2>1 DEF IInv, TypeOK
  <2> QED
    BY Zenon, <2>1, <2>2, <2>3, <2>4 DEF Returned
<1>3. ASSUME NEW w \in Workers, Park(w) PROVE q \in submitted' \ Ids(pending')
  BY <1>3 DEF Returned, Park, Without, Ids
<1>4. ASSUME NEW r \in Requests, NEW p \in Prios, update_priority(r, p)
      PROVE  q \in submitted' \ Ids(pending')
  <2>1. Ids(pending') = Ids(pending)
    <3>1. PICK item \in pending :
            item.rid = r /\ pending' = (pending \ {item}) \cup {[item EXCEPT !.prio = p]}
      BY <1>4 DEF update_priority
    <3>2. [item EXCEPT !.prio = p].rid = r
      BY <3>1 DEF IInv, TypeOK, Item
    <3> QED
      BY Zenon, <3>1, <3>2 DEF Ids
  <2> QED
    BY <1>4, <2>1 DEF Returned, update_priority
<1>5. CASE UNCHANGED <<pending, submitted, dispatched>>
  BY <1>5 DEF Returned, Ids
<1>6. ASSUME NEW w \in Workers, Expire(w) PROVE UNCHANGED <<pending, submitted, dispatched>>
  BY <1>6 DEF Expire
<1>7. ASSUME NEW r \in Requests, cancel(r) PROVE UNCHANGED <<pending, submitted, dispatched>>
  BY <1>7 DEF cancel
<1>8. CASE UNCHANGED vars
  BY <1>5, <1>8 DEF vars
<1> QED
  BY <1>1, <1>2, <1>3, <1>4, <1>5, <1>6, <1>7, <1>8 DEF Next, OracleNext

LEMMA ReturnedForGood == Spec => []Returned
<1>1. Init => Returned
  BY DEF Init, Returned
<1> QED
  BY <1>1, Invariance, NextReturned, PTL DEF Spec

(* A second dispatch of a request, or one in spite of a cancel(), is an    *)
(* outdated copy: without update_priority() there would be neither.        *)
THEOREM RepeatsAreStale == Spec => OnlyStaleRepeats
<1> DEFINE Stale == \A r \in Requests :
                      dispatched'[r] > dispatched[r] /\ (dispatched[r] > 0 \/ r \in cancelled) =>
                        \E i \in heap \ (heap' \cup pending) : i.rid = r
<1>1. ASSUME IInv, Returned, [Next]_vars PROVE [Stale]_vars
  <2> SUFFICES ASSUME Next, NEW r \in Requests, dispatched'[r] > dispatched[r],
                      dispatched[r] > 0 \/ r \in cancelled
               PROVE  \E i \in heap \ (heap' \cup pending) : i.rid = r
    BY <1>1
  <2>0. dispatched \in [Requests -> Nat]
    BY <1>1 DEF IInv, TypeOK
  <2>1. PICK w \in Workers : Take(w)
    <3>1. dispatched' # dispatched
      BY <2>0
    <3> QED
      BY Zenon, <3>1 DEF Next, OracleNext, enqueue, Park, Expire, cancel, update_priority
  <2>2. PICK item \in Servable :
          /\ item \notin heap'
          /\ dispatched' = [dispatched EXCEPT ![item.rid] = @ + 1]
    BY Zenon, <2>1 DEF Take, Pop
  <2>3. item.rid = r /\ item \in heap
    BY <2>0, <2>2 DEF Servable
  <2>4. dispatched[r] > 0 => item \notin pending
    BY <1>1, <2>3 DEF Returned, Ids
  <2>5. r \in cancelled => item \notin pending
    BY <1>1, <2>2, <2>3, CancelledSkipped DEF Servable
  <2> QED
    BY <2>2, <2>3, <2>4, <2>5
<1> QED
  BY <1>1, Invariance, ReturnedForGood, PTL DEF Spec, OnlyStaleRepeats

(* dequeue() is shortest-job-first by current priority, whatever copies    *)
(* update_priority() has left in the heap.                                 *)
THEOREM ShortestJobFirst == Spec => ShortestFirst
<1> DEFINE Shortest == \A a, b \in pending :
                         /\ dispatched'[a.rid] > dispatched[a.rid]
                         /\ b.rid \notin cancelled
                         => a.prio <= b.prio
<1>1. ASSUME IInv, [Next]_vars PROVE [Shortest]_vars
  <2> SUFFICES ASSUME Next, NEW a \in pending, NEW b \in pending,
                      dispatched'[a.rid] > dispatched[a.rid], b.rid \notin cancelled
               PROVE  a.prio <= b.prio
    BY <1>1
  <2>0. /\ a \in Item /\ b \in Item /\ a \in heap /\ b \in heap
        /\ dispatched \in [Requests -> Nat] /\ a.rid \in Requests
    BY <1>1 DEF IInv, TypeOK, PendingIsHeld, Item
  <2>1. PICK w \in Workers : Take(w)
    <3>1. dispatched' # dispatched
      BY <2>0
    <3> QED
      BY Zenon, <3>1 DEF Next, OracleNext, enqueue, Park, Expire, cancel, update_priority
  <2>2. PICK item \in Servable :
          /\ \A other \in Servable \ {item} : Before(item, other)
          /\ dispatched' = [dispatched EXCEPT ![item.rid] = @ + 1]
    BY Zenon, <2>1 DEF Take
  <2>3. item.rid = a.rid /\ item \in heap /\ item \in Item
    BY <1>1, <2>0, <2>2 DEF Servable, IInv, TypeOK
  <2>4. ~Before(item, a)
    BY <1>1, <2>3 DEF IInv, LatestFirst
  <2>5. b \in Servable
    BY <2>0 DEF Servable, Skipped
  <2>6. b = item \/ Before(item, b)
    BY <2>2, <2>5
  <2>7. a.prio <= item.prio /\ item.prio <= b.prio
    BY <2>0, <2>3, <2>4, <2>6, BeforeOrder
  <2>8. a.prio \in Int /\ b.prio \in Int /\ item.prio \in Int
    BY Zenon, <2>0, <2>3, PriosAssumption DEF Item
  <2> QED
    BY <2>7, <2>8
<1> QED
  BY <1>1, Invariance, PTL DEF Spec, ShortestFirst

-----------------------------------------------------------------------------
(* The workers that do not sleep in wait(). *)
Awake(ws) == {w \in Workers : ws[w] # "waiting"}

(* NoLostWakeup as a relation between a heap and the workers' states. *)
Attended(items, ws) ==
  Awake(ws) # Workers => Cardinality(items) <= Cardinality(Awake(ws))

LEMMA NoLostWakeupAttended == NoLostWakeup <=> Attended(heap, wstate)
<1>1. (\E w \in Workers : wstate[w] = "waiting") <=> Awake(wstate) # Workers
  BY DEF Awake
<1> QED
  BY <1>1 DEF NoLostWakeup, Attended, Awake

(* A notify() that leaves somebody asleep has woken one more worker. *)
LEMMA NotifyAwake ==
  ASSUME NEW ws \in [Workers -> {"ready", "waiting", "notified"}], NEW next \in Notify(ws)
  PROVE  /\ Awake(ws) \subseteq Awake(next)
         /\ Awake(next) # Workers => Cardinality(Awake(next)) = Cardinality(Awake(ws)) + 1
<1> DEFINE waiting == {w \in Workers : ws[w] = "waiting"}
<1>1. CASE waiting = {}
  <2>1. next = ws
    BY <1>1 DEF Notify
  <2>2. Awake(ws) = Workers
    BY <1>1 DEF Awake
  <2> QED
    BY <2>1, <2>2
<1>2. CASE waiting # {}
  <2>1. PICK w \in waiting : next = [ws EXCEPT ![w] = "notified"]
    BY <1>2 DEF Notify
  <2>2. Awake(next) = Awake(ws) \cup {w} /\ w \notin Awake(ws)
    BY <2>1 DEF Awake
  <2>3. IsFiniteSet(Awake(ws))
    BY WorkersAssumption, FS_Subset DEF Awake, WorkersAssumption
  <2> QED
    BY <2>2, <2>3, FS_AddElement
<1> QED
  BY <1>1, <1>2

(* A larger set of workers awake attends a smaller heap. *)
LEMMA AttendedMonotone ==
  ASSUME NEW items, IsFiniteSet(items), NEW fewer \in SUBSET items,
         NEW ws, NEW next, Awake(ws) \subseteq Awake(next), Attended(items, ws)
  PROVE  Attended(fewer, next)
<1>1. IsFiniteSet(Awake(ws)) /\ IsFiniteSet(Awake(next)) /\ IsFiniteSet(fewer)
  BY WorkersAssumption, FS_Subset DEF Awake, WorkersAssumption
<1>2. /\ Cardinality(Awake(ws)) <= Cardinality(Awake(next))
      /\ Cardinality(fewer) <= Cardinality(items)
  BY <1>1, FS_Subset
<1>3. /\ Cardinality(Awake(ws)) \in Nat /\ Cardinality(Awake(next)) \in Nat
      /\ Cardinality(fewer) \in Nat /\ Cardinality(items) \in Nat
  BY <1>1, FS_CardinalityType
<1>4. Awake(next) # Workers => Awake(ws) # Workers
  BY DEF Awake
<1> QED
  BY <1>2, <1>3, <1>4 DEF Attended

(* A push with its notify() keeps the heap attended. *)
LEMMA PushAttended ==
  ASSUME IInv, NEW item, heap' = heap \cup {item}, wstate' \in Notify(wstate),
         Attended(heap, wstate)
  PROVE  Attended(heap', wstate')
<1>1. /\ Awake(wstate) \subseteq Awake(wstate')
      /\ Awake(wstate') # Workers =>
           Cardinality(Awake(wstate')) = Cardinality(Awake(wstate)) + 1
  BY NotifyAwake DEF IInv, TypeOK
<1>2. Cardinality(heap') \in {Cardinality(heap), Cardinality(heap) + 1}
  BY FS_AddElement DEF IInv
<1>3. Cardinality(heap) \in Nat /\ Cardinality(Awake(wstate)) \in Nat
  <2>1. IsFiniteSet(Awake(wstate))
    BY WorkersAssumption, FS_Subset DEF Awake, WorkersAssumption
  <2> QED
    BY <2>1, FS_CardinalityType DEF IInv
<1>4. Awake(wstate') # Workers => Awake(wstate) # Workers
  BY <1>1 DEF Awake
<1> QED
  BY <1>1, <1>2, <1>3, <1>4 DEF Attended

LEMMA NextNoLostWakeup == IInv /\ NoLostWakeup /\ [Next]_vars => NoLostWakeup'
<1> SUFFICES ASSUME IInv, Attended(heap, wstate), [Next]_vars
             PROVE  Attended(heap', wstate')
  <2>1. Attended(heap', wstate') => NoLostWakeup'
    BY DEF NoLostWakeup, Attended, Awake
  <2> QED
    BY <2>1, NoLostWakeupAttended
<1>0. IsFiniteSet(heap) /\ wstate \in [Workers -> {"ready", "waiting", "notified"}]
  BY DEF IInv, TypeOK
<1>1. ASSUME NEW r \in Requests, NEW p \in Prios, enqueue(r, p)
      PROVE  Attended(heap', wstate')
  BY Zenon, <1>1, PushAttended DEF enqueue, Announce
<1>2. ASSUME NEW r \in Requests, NEW p \in Prios, update_priority(r, p)
      PROVE  Attended(heap', wstate')
  BY Zenon, <1>2, PushAttended DEF update_priority, Announce
<1>3. ASSUME NEW w \in Workers, Take(w) PROVE Attended(heap', wstate')
  <2>1. heap' \subseteq heap /\ Awake(wstate) \subseteq Awake(wstate')
    BY <1>0, <1>3 DEF Take, Pop, Awake
  <2> QED
    BY <1>0, <2>1, AttendedMonotone
<1>4. ASSUME NEW w \in Workers, Park(w) PROVE Attended(heap', wstate')
  <2>1. heap' = {}
    BY <1>4 DEF Park, Pop
  <2>2. Cardinality(Awake(wstate')) \in Nat
    <3>1. IsFiniteSet(Awake(wstate'))
      BY WorkersAssumption, FS_Subset DEF Awake, WorkersAssumption
    <3> QED
      BY <3>1, FS_CardinalityType
  <2> QED
    BY <2>1, <2>2, FS_EmptySet DEF Attended
<1>5. ASSUME NEW w \in Workers, Expire(w) PROVE Attended(heap', wstate')
  <2> DEFINE back == [wstate EXCEPT ![w] = "ready"]
  <2>1. /\ heap' = heap /\ (wstate' = back \/ wstate' \in Notify(back))
        /\ back \in [Workers -> {"ready", "waiting", "notified"}]
    BY <1>0, <1>5 DEF Expire
  <2>2. Awake(wstate) \subseteq Awake(back)
    BY <1>0 DEF Awake
  <2> HIDE DEF back
  <2>3. Awake(wstate) \subseteq Awake(wstate')
    BY <2>1, <2>2, NotifyAwake
  <2> QED
    BY <1>0, <2>1, <2>3, AttendedMonotone
<1>6. ASSUME NEW r \in Requests, cancel(r) PROVE Attended(heap', wstate')
  BY <1>6 DEF cancel
<1>7. CASE UNCHANGED vars
  BY <1>7 DEF vars
<1> QED
  BY <1>1, <1>2, <1>3, <1>4, <1>5, <1>6, <1>7 DEF Next, OracleNext

(* No wake-up is lost, for any number of workers, although a notified      *)
(* waiter may time out and take its notification with it.                  *)
THEOREM WakeupsKept == Spec => []NoLostWakeup
<1>1. Init => NoLostWakeup
  BY DEF Init, NoLostWakeup
<1> QED
  BY <1>1, NextNoLostWakeup, Invariance, PTL DEF Spec

-----------------------------------------------------------------------------
(***************************************************************************)
(* The queue as OracleSJFScheduler uses it: without update_priority() it   *)
(* is the abstract shortest-job-first queue.                               *)
(***************************************************************************)
(* The inductive invariant of the queue without aging. *)
Balance == stats.enqueued = stats.dequeued + stats.cancelled + Cardinality(heap)
OInv == IInv /\ OneFate /\ AtMostOnce /\ Balance

(* With one item per request, a dequeue() that returns an item has         *)
(* discarded cancelled requests only, and the item's is not one of them.   *)
LEMMA TakeOnce ==
  ASSUME OInv, NEW w \in Workers, Take(w)
  PROVE  \E item \in heap, skipped \in SUBSET heap :
           /\ item.rid \notin cancelled
           /\ \A i \in skipped : i.rid \in cancelled
           /\ \A other \in heap : other.rid \notin cancelled => item.prio <= other.prio
           /\ heap' = heap \ (skipped \cup {item}) /\ pending' = heap'
           /\ Discard(skipped, 1)
           /\ dispatched' = [dispatched EXCEPT ![item.rid] = @ + 1]
<1>1. PICK item \in Servable :
        LET skipped == {i \in Skipped : Before(i, item)}
        IN  /\ \A other \in Servable \ {item} : Before(item, other)
            /\ heap' = heap \ (skipped \cup {item})
            /\ pending' = Without(pending, Ids(skipped \cup {item}))
            /\ Discard(skipped, 1)
            /\ dispatched' = [dispatched EXCEPT ![item.rid] = @ + 1]
  BY Zenon DEF Take, Pop
<1> DEFINE skipped == {i \in Skipped : Before(i, item)}
<1>2. item \in heap /\ item \in pending /\ skipped \subseteq heap
  BY DEF Servable, Skipped, OInv, OneFate
<1>3. item.rid \notin cancelled
  BY <1>2, CancelledSkipped DEF Servable, OInv
<1>4. \A i \in skipped : i.rid \in cancelled
  BY DEF Skipped
<1>5. pending' = heap'
  <2>1. \A i \in heap : i.rid \in Ids(skipped \cup {item}) <=> i \in skipped \cup {item}
    BY <1>2 DEF OInv, IInv, OneFate, PendingIsHeld, Ids
  <2>2. pending' = {i \in heap : i.rid \notin Ids(skipped \cup {item})}
    BY <1>1 DEF Without, OInv, OneFate
  <2>3. heap' = heap \ (skipped \cup {item})
    BY <1>1
  <2> HIDE DEF skipped
  <2> QED
    BY <2>1, <2>2, <2>3
<1>6. ASSUME NEW other \in heap, other.rid \notin cancelled
      PROVE  item.prio <= other.prio
  <2>1. other \in Servable /\ item \in Item /\ other \in Item
    BY <1>2, <1>6 DEF Servable, Skipped, OInv, IInv, TypeOK
  <2>2. ~Before(other, item)
    BY <1>1, <2>1, BeforeOrder
  <2> QED
    BY <2>1, <2>2, BeforeOrder
<1> QED
  BY Zenon, <1>1, <1>2, <1>3, <1>4, <1>5, <1>6

(* A dequeue() that waits, or times out, has discarded the whole heap. *)
LEMMA ParkOnce ==
  ASSUME OInv, NEW w \in Workers, Park(w)
  PROVE  /\ heap' = {} /\ pending' = {}
         /\ \A i \in heap : i.rid \in cancelled
         /\ Discard(heap, 0)
BY DEF Park, Pop, Without, Ids, Servable, Skipped, OInv, OneFate

LEMMA InitOInv == Init => OInv
<1>1. Init => OneFate /\ AtMostOnce /\ Balance
  BY FS_EmptySet DEF Init, OneFate, AtMostOnce, Balance, Ids
<1> QED
  BY <1>1, InitIInv DEF OInv

LEMMA EnqueueOInv ==
  ASSUME OInv, NEW r \in Requests, NEW p \in Prios, enqueue(r, p)
  PROVE  OneFate' /\ AtMostOnce' /\ Balance'
<1>1. OneFate'
  BY DEF OInv, IInv, TypeOK, PendingIsHeld, OneFate, Ids, enqueue
<1>2. AtMostOnce'
  BY DEF OInv, AtMostOnce, enqueue
<1>3. Balance'
  <2> DEFINE item == [rid |-> r, prio |-> p, time |-> stats.enqueued]
  <2>1. item \notin heap
    BY DEF OInv, IInv, NothingLost, Ids, enqueue
  <2>2. heap' = heap \cup {item} /\ stats' = [stats EXCEPT !.enqueued = @ + 1]
    BY DEF enqueue
  <2> HIDE DEF item
  <2>3. Cardinality(heap') = Cardinality(heap) + 1
    BY <2>1, <2>2, FS_AddElement DEF OInv, IInv
  <2>4. Cardinality(heap) \in Nat
    BY FS_CardinalityType DEF OInv, IInv
  <2>5. /\ stats'.enqueued = stats.enqueued + 1 /\ stats'.dequeued = stats.dequeued
        /\ stats'.cancelled = stats.cancelled
    BY <2>2 DEF OInv, IInv, TypeOK
  <2>6. stats.enqueued \in Nat /\ stats.dequeued \in Nat /\ stats.cancelled \in Nat
    BY DEF OInv, IInv, TypeOK
  <2> QED
    BY <2>3, <2>4, <2>5, <2>6 DEF OInv, Balance
<1> QED
  BY <1>1, <1>2, <1>3

LEMMA TakeOInv ==
  ASSUME OInv, NEW w \in Workers, Take(w)
  PROVE  OneFate' /\ AtMostOnce' /\ Balance'
<1>1. PICK item \in heap, skipped \in SUBSET heap :
        /\ item.rid \notin cancelled
        /\ \A i \in skipped : i.rid \in cancelled
        /\ heap' = heap \ (skipped \cup {item}) /\ pending' = heap'
        /\ Discard(skipped, 1)
        /\ dispatched' = [dispatched EXCEPT ![item.rid] = @ + 1]
  BY TakeOnce
<1>2. /\ cancelled' = cancelled \ Ids(skipped) /\ dropped' = dropped \cup Ids(skipped)
      /\ submitted' = submitted /\ acked' = acked
  BY <1>1 DEF Discard, Take
<1>3. /\ item.rid \in Requests /\ item.rid \in submitted
      /\ dispatched \in [Requests -> Nat] /\ dispatched[item.rid] = 0
  <2>1. /\ item.rid \in Requests /\ item.rid \in Ids(heap)
        /\ dispatched \in [Requests -> Nat]
    BY DEF OInv, IInv, TypeOK, Item, Ids
  <2>2. item.rid \in submitted /\ ~(dispatched[item.rid] > 0)
    BY <2>1 DEF OInv, IInv, NothingLost, OneFate
  <2>3. dispatched[item.rid] \in Nat
    BY <2>1
  <2> QED
    BY <2>1, <2>2, <2>3
<1>4. \A i, j \in heap : i.rid = j.rid => i = j
  BY DEF OInv, IInv, PendingIsHeld, OneFate
<1>5. Ids(heap') \subseteq Ids(heap) \ (Ids(skipped) \cup {item.rid})
  BY <1>1, <1>4 DEF Ids
<1>6. OneFate'
  <2>1. acked' = cancelled' \cup dropped'
    BY <1>1, <1>2 DEF OInv, OneFate, Ids
  <2>2. dropped' \subseteq submitted' \ Ids(heap')
    BY <1>2, <1>5 DEF OInv, IInv, NothingLost, OneFate, Ids
  <2>3. ASSUME NEW r \in Requests, dispatched'[r] > 0
        PROVE  r \in submitted' \ (Ids(heap') \cup dropped')
    <3>1. CASE r = item.rid
      <4>1. r \notin dropped'
        BY <1>1, <1>2, <3>1 DEF OInv, OneFate, Ids
      <4> QED
        BY <1>2, <1>3, <1>5, <3>1, <4>1
    <3>2. CASE r # item.rid
      <4>1. dispatched[r] > 0
        BY <1>1, <1>3, <2>3, <3>2
      <4>2. r \in submitted \ (Ids(heap) \cup dropped)
        BY <4>1 DEF OInv, OneFate
      <4>3. r \notin Ids(skipped)
        BY <4>2 DEF Ids
      <4> QED
        BY <1>2, <1>5, <4>2, <4>3
    <3> QED
      BY <3>1, <3>2
  <2> QED
    BY Zenon, <1>1, <2>1, <2>2, <2>3 DEF OneFate
<1>7. AtMostOnce'
  BY <1>1, <1>3 DEF OInv, AtMostOnce
<1>8. Balance'
  <2>1. IsFiniteSet(skipped) /\ item \notin skipped
    BY <1>1, FS_Subset DEF OInv, IInv
  <2>2. Cardinality(skipped \cup {item}) = Cardinality(skipped) + 1
    BY Zenon, <2>1, FS_AddElement
  <2>3. heap \cap (skipped \cup {item}) = skipped \cup {item}
    OBVIOUS
  <2>4. Cardinality(heap') = Cardinality(heap) - Cardinality(skipped \cup {item})
    BY Zenon, <1>1, <2>3, FS_Difference DEF OInv, IInv
  <2>5. Cardinality(heap) \in Nat /\ Cardinality(skipped) \in Nat
    BY <2>1, FS_CardinalityType DEF OInv, IInv
  <2>6. /\ stats'.enqueued = stats.enqueued /\ stats'.dequeued = stats.dequeued + 1
        /\ stats'.cancelled = stats.cancelled + Cardinality(skipped)
    BY <1>1 DEF Discard
  <2>7. stats.enqueued \in Nat /\ stats.dequeued \in Nat /\ stats.cancelled \in Nat
    BY DEF OInv, IInv, TypeOK
  <2> QED
    BY <2>2, <2>4, <2>5, <2>6, <2>7 DEF OInv, Balance
<1> QED
  BY <1>6, <1>7, <1>8

LEMMA ParkOInv ==
  ASSUME OInv, NEW w \in Workers, Park(w)
  PROVE  OneFate' /\ AtMostOnce' /\ Balance'
<1>1. /\ heap' = {} /\ pending' = {}
      /\ cancelled' = cancelled \ Ids(heap) /\ dropped' = dropped \cup Ids(heap)
      /\ \A i \in heap : i.rid \in cancelled
  BY ParkOnce DEF Discard
<1>2. /\ submitted' = submitted /\ acked' = acked /\ dispatched' = dispatched
  BY DEF Park
<1>3. OneFate'
  BY <1>1, <1>2 DEF OInv, IInv, NothingLost, OneFate, Ids
<1>4. AtMostOnce'
  BY <1>2 DEF OInv, AtMostOnce
<1>5. Balance'
  <2>1. /\ stats'.enqueued = stats.enqueued /\ stats'.dequeued = stats.dequeued + 0
        /\ stats'.cancelled = stats.cancelled + Cardinality(heap)
    BY ParkOnce DEF Discard
  <2>2. Cardinality(heap) \in Nat /\ Cardinality(heap') = 0
    BY <1>1, FS_CardinalityType, FS_EmptySet DEF OInv, IInv
  <2>3. stats.enqueued \in Nat /\ stats.dequeued \in Nat /\ stats.cancelled \in Nat
    BY DEF OInv, IInv, TypeOK
  <2> QED
    BY <2>1, <2>2, <2>3 DEF OInv, Balance
<1> QED
  BY <1>3, <1>4, <1>5

(* Every step of the queue without aging preserves its invariant. *)
LEMMA NextOInv == OInv /\ [OracleNext]_vars => OInv'
<1> SUFFICES ASSUME OInv, [OracleNext]_vars PROVE OInv'
  OBVIOUS
<1>1. IInv'
  BY NextIInv DEF OInv, Next
<1>2. ASSUME NEW w \in Workers, Expire(w) PROVE OneFate' /\ AtMostOnce' /\ Balance'
  BY <1>2 DEF OInv, OneFate, AtMostOnce, Balance, Ids, Expire
<1>3. ASSUME NEW r \in Requests, cancel(r) PROVE OneFate' /\ AtMostOnce' /\ Balance'
  BY <1>3 DEF OInv, OneFate, AtMostOnce, Balance, Ids, cancel
<1>4. CASE UNCHANGED vars
  BY <1>1, <1>4 DEF OInv, OneFate, AtMostOnce, Balance, Ids, vars
<1> QED
  BY <1>1, <1>2, <1>3, <1>4, EnqueueOInv, TakeOInv, ParkOInv DEF OInv, OracleNext

(* As long as update_priority() has not been called, every step is one of  *)
(* the queue without aging.                                                *)
LEMMA UnagedStep ==
  [TrackedNext]_<<vars, aged>> => [OracleNext /\ aged' = aged]_vars \/ aged'
BY DEF TrackedNext

LEMMA UnagedInvariance == TrackedSpec => [](~aged => OInv)
<1>1. TrackedInit => (~aged => OInv)
  BY InitOInv DEF TrackedInit
<1>2. (~aged => OInv) /\ [TrackedNext]_<<vars, aged>> => (~aged => OInv)'
  BY NextOInv, UnagedStep DEF TrackedNext
<1> QED
  BY <1>1, <1>2, PTL DEF TrackedSpec

(* Until update_priority() is called no request is dispatched twice. *)
THEOREM ServedOnce == TrackedSpec => []UnagedOnce
<1>1. (~aged => OInv) => UnagedOnce
  BY DEF OInv, UnagedOnce
<1> QED
  BY <1>1, UnagedInvariance, PTL

(* Until then every request enqueued is in the heap, was dispatched or was *)
(* cancelled, and only one of these.                                       *)
THEOREM SingleFate == TrackedSpec => [](~aged => OneFate)
<1>1. (~aged => OInv) => (~aged => OneFate)
  BY DEF OInv
<1> QED
  BY <1>1, UnagedInvariance, PTL

(* Until then the counters of stats() add up with the depth. *)
THEOREM CountersBalance == TrackedSpec => []StatsBalance
<1>1. (~aged => OInv) => StatsBalance
  BY DEF OInv, StatsBalance, Balance
<1> QED
  BY <1>1, UnagedInvariance, PTL

(* Until then a request whose cancel() returned True is not returned by    *)
(* dequeue() any more.                                                     *)
THEOREM CancelIsHonoured == TrackedSpec => CancelHonoured
<1> DEFINE Honoured == \A r \in acked : dispatched'[r] = dispatched[r]
<1>1. ASSUME OInv, OracleNext PROVE Honoured
  <2>1. ASSUME NEW w \in Workers, Take(w) PROVE Honoured
    <3>1. PICK item \in heap :
            /\ item.rid \notin cancelled
            /\ dispatched' = [dispatched EXCEPT ![item.rid] = @ + 1]
      BY <1>1, <2>1, TakeOnce
    <3>2. item.rid \notin acked
      BY <1>1, <3>1 DEF OInv, OneFate, Ids
    <3> QED
      BY <1>1, <3>1, <3>2 DEF OInv, IInv, TypeOK
  <2> QED
    BY Zenon, <1>1, <2>1 DEF OracleNext, enqueue, Park, Expire, cancel
<1>2. (~aged => OInv) /\ [TrackedNext]_<<vars, aged>> => [~aged' => Honoured]_vars
  BY <1>1 DEF TrackedNext
<1> QED
  BY <1>2, UnagedInvariance, PTL DEF TrackedSpec, CancelHonoured

-----------------------------------------------------------------------------
(* The refinement mapping of Abstract, by name. *)
QueueBar == {[rid |-> i.rid, key |-> i.prio] :
               i \in {j \in pending : j.rid \notin cancelled}}
ServedBar == {r \in Requests : dispatched[r] > 0}

(* A request that was never enqueued is in none of the abstract sets. *)
LEMMA FreshBar ==
  ASSUME OInv, NEW r \in Requests, r \notin submitted
  PROVE  /\ \A q \in QueueBar : q.rid # r
         /\ r \notin acked /\ r \notin ServedBar
<1>1. \A i \in pending : i.rid # r
  BY DEF OInv, IInv, PendingIsHeld, NothingLost, Ids
<1>2. r \notin acked
  BY <1>1 DEF OInv, IInv, PendingIsHeld, OneFate, Ids
<1> QED
  BY <1>1, <1>2 DEF QueueBar, ServedBar, OInv, OneFate

LEMMA EnqueueRefines ==
  ASSUME OInv, NEW r \in Requests, NEW p \in Prios, enqueue(r, p)
  PROVE  Abstract!Submit(r, p)
<1> DEFINE q == [rid |-> r, key |-> p]
<1>1. r \notin cancelled /\ cancelled' = cancelled
  BY FreshBar DEF enqueue, OInv, IInv, NothingLost
<1>2. QueueBar' = QueueBar \cup {q}
  <2> DEFINE item == [rid |-> r, prio |-> p, time |-> stats.enqueued]
  <2>1. {j \in pending' : j.rid \notin cancelled'}
          = {j \in pending : j.rid \notin cancelled} \cup {item}
    BY <1>1 DEF enqueue
  <2>2. item.rid = r /\ item.prio = p
    OBVIOUS
  <2> HIDE DEF item
  <2> QED
    BY <2>1, <2>2 DEF QueueBar
<1>3. acked' = acked /\ ServedBar' = ServedBar
  BY DEF enqueue, ServedBar
<1>4. r \notin Abstract!Waiting \cup acked \cup ServedBar
  BY FreshBar DEF enqueue, Abstract!Waiting, QueueBar
<1> QED
  BY <1>2, <1>3, <1>4 DEF Abstract!Submit, QueueBar, ServedBar

LEMMA CancelRefines ==
  ASSUME OInv, NEW r \in Requests, cancel(r)
  PROVE  (\E q \in QueueBar : Abstract!Cancel(q)) \/ UNCHANGED <<QueueBar, acked, ServedBar>>
<1>1. PICK i \in pending : i.rid = r
  BY DEF cancel, Ids
<1>2. /\ pending' = pending /\ ServedBar' = ServedBar
      /\ cancelled' = cancelled \cup {r} /\ acked' = acked \cup {r}
  BY DEF cancel, ServedBar
<1>3. CASE r \in cancelled
  BY <1>2, <1>3 DEF QueueBar, OInv, OneFate
<1>4. CASE r \notin cancelled
  <2> DEFINE q == [rid |-> i.rid, key |-> i.prio]
  <2>1. q \in QueueBar
    BY <1>1, <1>4 DEF QueueBar
  <2>2. \A j \in pending : j.rid = r => j = i
    BY <1>1 DEF OInv, IInv, PendingIsHeld
  <2>3. QueueBar' = QueueBar \ {q}
    BY <1>1, <1>2, <2>2 DEF QueueBar
  <2>4. Abstract!Cancel(q)
    BY <1>1, <1>2, <2>1, <2>3 DEF Abstract!Cancel, QueueBar, ServedBar
  <2> QED
    BY <2>1, <2>4
<1> QED
  BY <1>3, <1>4

LEMMA TakeRefines ==
  ASSUME OInv, NEW w \in Workers, Take(w)
  PROVE  \E q \in QueueBar : Abstract!Dispatch(q)
<1>1. PICK item \in heap, skipped \in SUBSET heap :
        /\ item.rid \notin cancelled
        /\ \A i \in skipped : i.rid \in cancelled
        /\ \A other \in heap : other.rid \notin cancelled => item.prio <= other.prio
        /\ heap' = heap \ (skipped \cup {item}) /\ pending' = heap'
        /\ Discard(skipped, 1)
        /\ dispatched' = [dispatched EXCEPT ![item.rid] = @ + 1]
  BY TakeOnce
<1> DEFINE q == [rid |-> item.rid, key |-> item.prio]
<1>2. heap = pending /\ \A i, j \in heap : i.rid = j.rid => i = j
  BY DEF OInv, IInv, PendingIsHeld, OneFate
<1>3. q \in QueueBar
  BY <1>1, <1>2 DEF QueueBar
<1>4. \A other \in QueueBar : q.key <= other.key
  BY <1>1, <1>2 DEF QueueBar
<1>5. cancelled' = cancelled \ Ids(skipped)
  BY <1>1 DEF Discard
<1>6. QueueBar' = QueueBar \ {q}
  <2>1. {j \in pending' : j.rid \notin cancelled'}
          = {j \in pending : j.rid \notin cancelled} \ {item}
    BY <1>1, <1>2, <1>5 DEF Ids
  <2> QED
    BY <1>1, <1>2, <2>1 DEF QueueBar
<1>7. item.rid \in Requests /\ dispatched \in [Requests -> Nat]
  BY DEF OInv, IInv, TypeOK, Item
<1>8. ServedBar' = ServedBar \cup {item.rid}
  BY <1>1, <1>7 DEF ServedBar
<1>9. acked' = acked
  BY DEF Take
<1>10. Abstract!Dispatch(q)
  BY <1>3, <1>4, <1>6, <1>8, <1>9 DEF Abstract!Dispatch, QueueBar, ServedBar
<1> QED
  BY <1>3, <1>10

LEMMA ParkRefines ==
  ASSUME OInv, NEW w \in Workers, Park(w)
  PROVE  UNCHANGED <<QueueBar, acked, ServedBar>>
<1>1. QueueBar = {} /\ QueueBar' = {}
  BY ParkOnce DEF QueueBar, OInv, OneFate
<1> QED
  BY <1>1 DEF Park, ServedBar

(* Every step of the queue without aging is a step of RequestQueue, or     *)
(* changes nothing there.                                                  *)
LEMMA StepRefines == OInv /\ [OracleNext]_vars => [Abstract!Next]_(Abstract!absVars)
<1> SUFFICES ASSUME OInv, [OracleNext]_vars
             PROVE  Abstract!Next \/ UNCHANGED <<QueueBar, acked, ServedBar>>
  BY DEF Abstract!absVars, QueueBar, ServedBar
<1>1. ASSUME NEW r \in Requests, NEW p \in Prios, enqueue(r, p) PROVE Abstract!Next
  BY <1>1, EnqueueRefines DEF Abstract!Next
<1>2. ASSUME NEW r \in Requests, cancel(r)
      PROVE  Abstract!Next \/ UNCHANGED <<QueueBar, acked, ServedBar>>
  BY <1>2, CancelRefines DEF Abstract!Next, QueueBar
<1>3. ASSUME NEW w \in Workers, Take(w) PROVE Abstract!Next
  BY <1>3, TakeRefines DEF Abstract!Next, QueueBar
<1>4. ASSUME NEW w \in Workers, Expire(w)
      PROVE  UNCHANGED <<QueueBar, acked, ServedBar>>
  BY <1>4 DEF Expire, QueueBar, ServedBar
<1>5. CASE UNCHANGED vars
  BY <1>5 DEF vars, QueueBar, ServedBar
<1> QED
  BY <1>1, <1>2, <1>3, <1>4, <1>5, ParkRefines DEF OracleNext

(* Until update_priority() is called the queue implements the abstract    *)
(* request queue: each request is dispatched once, smallest key first, or  *)
(* withdrawn.                                                              *)
THEOREM Refinement == TrackedSpec => ImplementsRequestQueue
<1>1. TrackedInit => Abstract!Init
  BY DEF TrackedInit, Init, Abstract!Init
<1>2. (~aged => OInv) /\ [TrackedNext]_<<vars, aged>>
        => [~aged' => Abstract!Next]_(Abstract!absVars)
  BY StepRefines DEF TrackedNext
<1> QED
  BY <1>1, <1>2, UnagedInvariance, PTL DEF TrackedSpec, ImplementsRequestQueue

=============================================================================
