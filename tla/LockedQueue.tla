----------------------------- MODULE LockedQueue -----------------------------
(***************************************************************************)
(* The two queues with a mutex and a condition variable: Engine of         *)
(* go/internal/api/scheduler.go and PriorityQueue of                       *)
(* cpp/src/priority_queue.cpp.  They keep the same books; they differ in   *)
(* how ties are broken and in how a caller waits.  Critical sections are   *)
(* single actions, except that Go's Acquire() starts a helper goroutine    *)
(* before Wait() puts it on the list of waiters: the helper, and the       *)
(* contexts of all callers, need no lock and can come in between.          *)
(*                                                                         *)
(* Both aging passes change the priority of the pending copy of a request  *)
(* and not of the item in the heap.                                        *)
(***************************************************************************)
EXTENDS Integers, FiniteSets, Functions

CONSTANTS
  Requests, Callers,
  Prios,     \* predicted lengths in tokens, the priorities of submission
  MaxBoost,  \* what an aging pass may take off a priority (500)
  Free  \* mu's value when nobody holds it

ASSUME LockAssumption ==
  Prios \subseteq Nat \ {0} /\ MaxBoost \in Nat /\ Free \notin Callers /\ IsFiniteSet(Callers)

VARIABLES
  lang,      \* "go" or "cpp"
  heap,      \* items: request, priority, arrival number
  pending,   \* a map: each pending request's length, arrival number and priority
  cancelled,
  mu,        \* the caller that holds the mutex across actions (Go)
  cstate,    \* each caller: out of Acquire(), called (C++: it has run the aging
             \* pass), arming (Go), waiting, woken, or back with a request
             \* ("got") or without ("failed")
  ctx,       \* its context, or wait_for's deadline: live or done
  helper,    \* its helper goroutine is waiting for the context or for `done'
  late,      \* callers with a helper that has not seen yet that `done' is closed
  acked,     \* history: requests for which Cancel() returned true
  acquired   \* history: requests handed to a caller

lvars == <<lang, heap, pending, cancelled, mu, cstate, ctx, helper, late, acked, acquired>>
books == <<heap, pending, cancelled, acked, acquired>>

Ids(items) == {i.rid : i \in items}
Submitted == Ids(heap) \cup acked \cup acquired
Waiters == {c \in Callers : cstate[c] = "waiting"}

Init ==
  /\ lang \in {"go", "cpp"}
  /\ heap = {} /\ pending = [r \in {} |-> 0] /\ cancelled = {} /\ acked = {} /\ acquired = {}
  /\ mu = Free
  /\ cstate = [c \in Callers |-> "out"]
  /\ ctx = [c \in Callers |-> "live"]
  /\ helper = [c \in Callers |-> FALSE] /\ late = {}

(* Fault: the larger priority goes first. *)
LongestFirst(i, j) == i.prio >= j.prio

(* Go compares priorities only, C++ also the time of arrival. *)
Precedes(i, j) == i.prio < j.prio \/ (i.prio = j.prio /\ (lang = "go" \/ i.seq <= j.seq))

(* Fault: nobody is told. *)
Silence(cs) == {cs}

(* cond.Signal(), cv.notify_one() *)
Signal(cs) ==
  LET waiting == {c \in Callers : cs[c] = "waiting"}
  IN IF waiting = {} THEN {cs} ELSE {[cs EXCEPT ![c] = "woken"] : c \in waiting}

(* Fault: nobody hears it. *)
Nobody(cs) == cs

(* cond.Broadcast() *)
Broadcast(cs) == [c \in Callers |-> IF cs[c] = "waiting" THEN "woken" ELSE cs[c]]

Submit(r, p) ==
  /\ mu = Free /\ r \notin Submitted
  /\ heap' = heap \cup {[rid |-> r, prio |-> p, seq |-> Cardinality(Submitted)]}
  /\ pending' = [q \in DOMAIN pending \cup {r} |->
                   IF q = r THEN [length |-> p, prio |-> p, seq |-> Cardinality(Submitted)]
                            ELSE pending[q]]
  /\ cstate' \in Signal(cstate)
  /\ UNCHANGED <<lang, cancelled, mu, ctx, helper, late, acked, acquired>>

Cancel(r) ==
  /\ mu = Free /\ r \in DOMAIN pending
  /\ cancelled' = cancelled \cup {r}
  /\ acked' = acked \cup {r}
  /\ UNCHANGED <<lang, heap, pending, mu, cstate, ctx, helper, late, acquired>>

(* Go takes the boost off the length, C++ off what earlier passes left of  *)
(* it, but not below one token.                                            *)
Aged(copy, boost) ==
  IF lang = "go" THEN copy.length - boost
  ELSE IF copy.prio - boost < 1 THEN 1 ELSE copy.prio - boost

(***************************************************************************)
(* One aging pass over the pending copies.  Who has waited longer gets at  *)
(* least the same boost, and more than in the pass before.                 *)
(***************************************************************************)
AgingPass ==
  mu = Free /\ \E boost \in [DOMAIN pending -> 0 .. MaxBoost] :
    /\ \A r, q \in DOMAIN pending : pending[r].seq <= pending[q].seq => boost[r] >= boost[q]
    /\ lang = "go" => \A r \in DOMAIN pending : pending[r].length - boost[r] <= pending[r].prio
    /\ pending' = [r \in DOMAIN pending |->
                     [pending[r] EXCEPT !.prio = Aged(pending[r], boost[r])]]

(* agingLoop's ticker fires. *)
Tick ==
  /\ lang = "go"
  /\ AgingPass
  /\ UNCHANGED <<lang, heap, cancelled, mu, cstate, ctx, helper, late, acked, acquired>>

(* SJFScheduler::acquire() runs apply_aging() and then dequeue(), under    *)
(* one lock each.                                                          *)
Call(c) ==
  /\ lang = "cpp" /\ cstate[c] \in {"out", "got", "failed"}
  /\ AgingPass
  /\ cstate' = [cstate EXCEPT ![c] = "called"]
  /\ UNCHANGED <<lang, heap, cancelled, mu, ctx, helper, late, acked, acquired>>

(* Fault: a cancelled request is returned like any other. *)
Everything == heap

(* Items that are not thrown away when they are popped. *)
Live == {i \in heap : i.rid \notin cancelled}

(* Popping until a request is found.  Cancelled ones on top go, and of     *)
(* those with the same priority (Go) any that happened to lie above.       *)
Pop ==
  \E i \in Live, gone \in SUBSET (heap \ Live) :
    /\ \A j \in Live : Precedes(i, j)
    /\ \A j \in heap \ Live : (~Precedes(i, j) => j \in gone) /\ (j \in gone => Precedes(j, i))
    /\ heap' = heap \ (gone \cup {i})
    /\ cancelled' = cancelled \ Ids(gone)
    /\ pending' = Restrict(pending, DOMAIN pending \ Ids(gone \cup {i}))
    /\ acquired' = acquired \cup {i.rid}
    /\ UNCHANGED acked

(* Popping all of them in vain. *)
PopAll ==
  /\ Live = {}
  /\ heap' = {}
  /\ cancelled' = cancelled \ Ids(heap)
  /\ pending' = Restrict(pending, DOMAIN pending \ Ids(heap))
  /\ UNCHANGED <<acked, acquired>>

(***************************************************************************)
(* The part of Acquire() and dequeue() that looks into the heap.           *)
(***************************************************************************)
Look(c) ==
  \/ /\ Pop
     /\ cstate' = [cstate EXCEPT ![c] = "got"]
     /\ UNCHANGED mu
  \/ /\ PopAll /\ lang = "go"
     /\ cstate' = [cstate EXCEPT ![c] = "arming"]
     /\ mu' = c
  \/ /\ PopAll /\ lang = "cpp"
     /\ cstate' = [cstate EXCEPT ![c] = IF heap # {} \/ ctx'[c] = "done" THEN "failed" ELSE "waiting"]
     /\ UNCHANGED mu

(* A new call with a new context or deadline. *)
Enter(c) ==
  /\ mu = Free
  /\ cstate[c] \in IF lang = "go" THEN {"out", "got", "failed"} ELSE {"called"}
  /\ ctx' = [ctx EXCEPT ![c] = "live"]
  /\ Look(c)
  /\ helper' = [helper EXCEPT ![c] = cstate'[c] = "arming"]
  /\ UNCHANGED <<lang, late>>

Unlocked == Free

(* Wait() adds the caller to the list and unlocks. *)
Register(c) ==
  /\ cstate[c] = "arming" /\ mu = c
  /\ cstate' = [cstate EXCEPT ![c] = "waiting"]
  /\ mu' = Unlocked
  /\ UNCHANGED <<lang, books, ctx, helper, late>>

Expire(c) ==
  /\ cstate[c] \in {"arming", "waiting", "woken"} /\ ctx[c] = "live"
  /\ ctx' = [ctx EXCEPT ![c] = "done"]
  /\ UNCHANGED <<lang, books, mu, cstate, helper, late>>

(* A helper whose call has ended may find the context done as well, and    *)
(* select picks either.                                                    *)
HelperRuns(c) ==
  /\ \/ /\ helper[c] /\ ctx[c] = "done"
        /\ cstate' = Broadcast(cstate)
        /\ helper' = [helper EXCEPT ![c] = FALSE] /\ UNCHANGED late
     \/ /\ c \in late
        /\ cstate' \in {cstate, Broadcast(cstate)}
        /\ late' = late \ {c} /\ UNCHANGED helper
  /\ UNCHANGED <<lang, books, mu, ctx>>

(***************************************************************************)
(* Back from the wait with the lock.  Go: with a context that is done the  *)
(* caller leaves without a look at the heap.  C++: wait_for() looks at the *)
(* heap also when its time is up.                                          *)
(***************************************************************************)
Resume(c) ==
  /\ mu = Free
  /\ \/ cstate[c] = "woken"
     \/ lang = "cpp" /\ cstate[c] = "waiting" /\ ctx[c] = "done"
  /\ UNCHANGED ctx
  /\ IF lang = "go" /\ ctx[c] = "done"
     THEN cstate' = [cstate EXCEPT ![c] = "failed"] /\ UNCHANGED <<books, mu>>
     ELSE Look(c)
  /\ helper' = [helper EXCEPT ![c] = cstate'[c] = "arming"]
  /\ late' = IF helper[c] THEN late \cup {c} ELSE late
  /\ UNCHANGED lang

Step(c) == Call(c) \/ Enter(c) \/ Register(c) \/ Resume(c)

Next ==
  \/ \E r \in Requests, p \in Prios : Submit(r, p)
  \/ \E r \in Requests : Cancel(r)
  \/ Tick
  \/ \E c \in Callers : Step(c) \/ Expire(c) \/ HelperRuns(c)

Spec == Init /\ [][Next]_lvars

-----------------------------------------------------------------------------
(* Types, and the mutex: it is held across actions only while arming. *)
TypeOK ==
  /\ lang \in {"go", "cpp"}
  /\ heap \subseteq [rid : Requests, prio : Prios, seq : Nat]
  /\ DOMAIN pending \subseteq Requests /\ cancelled \subseteq Requests
  /\ \A r \in DOMAIN pending : pending[r] \in [length : Prios, prio : Int, seq : Nat]
  /\ acked \subseteq Requests /\ acquired \subseteq Requests
  /\ cstate \in [Callers -> {"out", "called", "arming", "waiting", "woken", "got", "failed"}]
  /\ ctx \in [Callers -> {"live", "done"}]
  /\ helper \in [Callers -> BOOLEAN] /\ late \subseteq Callers
  /\ mu \in Callers \cup {Free}
  /\ \A c \in Callers : cstate[c] = "arming" <=> mu = c

(* Heap, pending map and cancel marks agree: each pending request has one  *)
(* item, which the aging passes have not let drift from its copy in any    *)
(* other respect than the priority; marks exist only for pending requests, *)
(* and a request that was cancelled in time is not handed out.             *)
BooksAgree ==
  /\ Ids(heap) = DOMAIN pending
  /\ \A i, j \in heap : i.rid = j.rid => i = j
  /\ \A i \in heap : pending[i.rid].length = i.prio /\ pending[i.rid].seq = i.seq
  /\ cancelled = acked \cap DOMAIN pending
  /\ acquired \cap (acked \cup DOMAIN pending) = {}

(* The queue, in both languages and with its aging passes, is the abstract *)
(* shortest-job-first queue with aging: each request is handed out once or *)
(* withdrawn, aging only lowers priorities, and no request overtakes one   *)
(* that is both shorter and ahead of it in current priority.               *)
Abstract == INSTANCE AgedQueue WITH
  Lengths <- Prios,
  queue <- {[rid |-> i.rid, length |-> i.prio, current |-> pending[i.rid].prio] :
              i \in {j \in heap : j.rid \notin cancelled}},
  withdrawn <- acked,
  served <- acquired

ImplementsAgedQueue == Abstract!Spec

(* Aging takes effect: a request that the aging passes have put ahead of a *)
(* shorter one is handed out before it.                                    *)
AgingHonoured ==
  [][\A r \in acquired' \ acquired, q \in DOMAIN pending \ cancelled :
       pending[q].length > pending[r].length => pending[q].prio >= pending[r].prio]_lvars

(* C++ loses no notification: while somebody waits, as many callers have   *)
(* been woken as there are items.  (In Go a woken caller whose context is  *)
(* done leaves its item lying.)                                            *)
NoLostWakeup ==
  lang = "cpp" /\ Waiters # {} =>
    Cardinality(heap) <= Cardinality({c \in Callers : cstate[c] = "woken"})

=============================================================================
