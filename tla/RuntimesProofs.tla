---------------------------- MODULE RuntimesProofs ----------------------------
(***************************************************************************)
(* Proofs about the Go and C++ queues, in use, for any number of requests  *)
(* and callers.                                                            *)
(***************************************************************************)
EXTENDS Runtimes, FiniteSetTheorems, TLAPS

USE SMTT(30), ZenonT(30)

(* The inductive invariant.  C++ holds its mutex across no action, and     *)
(* ages no priority below 1.                                               *)
LInv ==
  /\ TypeOK /\ BooksAgree
  /\ IsFiniteSet(heap) /\ IsFiniteSet(acked) /\ IsFiniteSet(acquired)
  /\ lang = "cpp" => mu = Free /\ \A r \in DOMAIN pending : pending[r].prio >= 1

Copy == [length : Prios, prio : Int, seq : Nat]

(* What one action may do to the books. *)
BooksNext ==
  \/ \E r \in Requests, p \in Prios, n \in Nat :
       /\ r \notin Submitted
       /\ heap' = heap \cup {[rid |-> r, prio |-> p, seq |-> n]}
       /\ pending' = [q \in DOMAIN pending \cup {r} |->
                        IF q = r THEN [length |-> p, prio |-> p, seq |-> n] ELSE pending[q]]
       /\ UNCHANGED <<cancelled, acked, acquired>>
  \/ \E r \in DOMAIN pending :
       /\ cancelled' = cancelled \cup {r} /\ acked' = acked \cup {r}
       /\ UNCHANGED <<heap, pending, acquired>>
  \/ Pop
  \/ PopAll
  \/ AgingPass /\ UNCHANGED <<heap, cancelled, acked, acquired>>
  \/ UNCHANGED books

LEMMA LookBooks ==
  ASSUME NEW c, Look(c)
  PROVE  BooksNext
BY DEF Look, BooksNext

LEMMA NextBooks ==
  ASSUME LInv, [Next]_lvars
  PROVE  BooksNext
<1>1. ASSUME NEW r \in Requests, NEW p \in Prios, Submit(r, p) PROVE BooksNext
  <2>1. IsFiniteSet(Submitted)
    <3>1. IsFiniteSet(Ids(heap))
      <4> DEFINE f == [i \in heap |-> i.rid]
      <4>2. f \in Surjection(heap, Ids(heap))
        BY DEF Surjection, Ids
      <4> QED
        BY <4>2, FS_Surjection DEF LInv
    <3> QED
      BY Zenon, <3>1, FS_Union DEF Submitted, LInv
  <2>2. Cardinality(Submitted) \in Nat
    BY <2>1, FS_CardinalityType
  <2> QED
    BY <1>1, <2>2 DEF Submit, BooksNext
<1>2. ASSUME NEW r \in Requests, Cancel(r) PROVE BooksNext
  BY <1>2 DEF Cancel, BooksNext
<1>3. ASSUME NEW c \in Callers, Step(c) \/ Expire(c) \/ HelperRuns(c) PROVE BooksNext
  BY ZenonT(30), <1>3, LookBooks DEF Step, Call, Enter, Register, Resume, Expire, HelperRuns, BooksNext
<1>4. CASE UNCHANGED lvars
  BY <1>4 DEF lvars, books, BooksNext
<1>5. CASE Tick
  BY <1>5 DEF Tick, BooksNext
<1> QED
  BY <1>1, <1>2, <1>3, <1>4, <1>5 DEF Next

BooksTypes ==
  /\ heap \subseteq [rid : Requests, prio : Prios, seq : Nat]
  /\ DOMAIN pending \subseteq Requests /\ cancelled \subseteq Requests
  /\ \A r \in DOMAIN pending : pending[r] \in Copy
  /\ acked \subseteq Requests /\ acquired \subseteq Requests

LEMMA PriosPositive == \A p \in Prios : p \in Int /\ p >= 1
BY LockAssumption

(* What one aging pass does to the pending copies. *)
LEMMA AgingPassCopies ==
  ASSUME LInv, AgingPass
  PROVE  /\ DOMAIN pending' = DOMAIN pending
         /\ \A r \in DOMAIN pending :
              /\ pending'[r] \in Copy
              /\ pending'[r].length = pending[r].length /\ pending'[r].seq = pending[r].seq
              /\ pending'[r].prio <= pending[r].prio
              /\ lang = "cpp" => pending'[r].prio >= 1
<1>1. PICK boost \in [DOMAIN pending -> 0 .. MaxBoost] :
        /\ lang = "go" => \A r \in DOMAIN pending : pending[r].length - boost[r] <= pending[r].prio
        /\ pending' = [r \in DOMAIN pending |->
                         [pending[r] EXCEPT !.prio = Aged(pending[r], boost[r])]]
  BY Zenon DEF AgingPass
<1>2. ASSUME NEW r \in DOMAIN pending
      PROVE  /\ pending'[r] = [pending[r] EXCEPT !.prio = Aged(pending[r], boost[r])]
             /\ pending[r] \in Copy /\ boost[r] \in Nat
             /\ lang \in {"go", "cpp"} /\ (lang = "cpp" => pending[r].prio >= 1)
  BY <1>1, <1>2, LockAssumption DEF LInv, TypeOK, Copy
<1>3. ASSUME NEW r \in DOMAIN pending
      PROVE  /\ Aged(pending[r], boost[r]) \in Int
             /\ Aged(pending[r], boost[r]) <= pending[r].prio
             /\ lang = "cpp" => Aged(pending[r], boost[r]) >= 1
  <2>1. pending[r].length \in Prios /\ pending[r].prio \in Int
    BY ZenonT(30), <1>2, <1>3 DEF Copy
  <2>2. pending[r].length \in Int
    BY <2>1, PriosPositive
  <2> QED
    BY <1>1, <1>2, <1>3, <2>1, <2>2 DEF Aged
<1>4. ASSUME NEW r \in DOMAIN pending
      PROVE  /\ pending'[r] \in Copy /\ pending'[r].prio = Aged(pending[r], boost[r])
             /\ pending'[r].length = pending[r].length /\ pending'[r].seq = pending[r].seq
  BY ZenonT(30), <1>2, <1>3, <1>4 DEF Copy
<1> QED
  BY <1>1, <1>3, <1>4

LEMMA BooksKept ==
  ASSUME LInv, BooksNext
  PROVE  BooksTypes' /\ BooksAgree' /\ IsFiniteSet(heap') /\ IsFiniteSet(acked')
         /\ IsFiniteSet(acquired')
         /\ (lang = "cpp" => \A r \in DOMAIN pending' : pending'[r].prio >= 1)
<1> DEFINE Floor == lang = "cpp" => \A r \in DOMAIN pending : pending[r].prio >= 1
           FloorNext == lang = "cpp" => \A r \in DOMAIN pending' : pending'[r].prio >= 1
<1>0. /\ BooksTypes /\ BooksAgree /\ Floor
      /\ IsFiniteSet(heap) /\ IsFiniteSet(acked) /\ IsFiniteSet(acquired)
  BY DEF LInv, TypeOK, BooksTypes, Copy
<1>1. ASSUME NEW r \in Requests, NEW p \in Prios, NEW n \in Nat, r \notin Submitted,
             heap' = heap \cup {[rid |-> r, prio |-> p, seq |-> n]},
             pending' = [q \in DOMAIN pending \cup {r} |->
                          IF q = r THEN [length |-> p, prio |-> p, seq |-> n] ELSE pending[q]],
             UNCHANGED <<cancelled, acked, acquired>>
      PROVE  BooksTypes' /\ BooksAgree' /\ FloorNext /\ IsFiniteSet(heap')
  <2> DEFINE item == [rid |-> r, prio |-> p, seq |-> n]
             copy == [length |-> p, prio |-> p, seq |-> n]
  <2>1. /\ heap' = heap \cup {item} /\ item.rid = r /\ item.prio = p /\ item.seq = n
        /\ item \in [rid : Requests, prio : Prios, seq : Nat]
    BY <1>1
  <2>2. /\ DOMAIN pending' = DOMAIN pending \cup {r} /\ pending'[r] = copy
        /\ \A q \in DOMAIN pending \ {r} : pending'[q] = pending[q]
    BY <1>1
  <2>3. copy \in Copy /\ copy.length = p /\ copy.seq = n /\ copy.prio >= 1
    BY LockAssumption DEF Copy
  <2> HIDE DEF item, copy
  <2>4. BooksTypes' /\ FloorNext
    BY <1>0, <1>1, <2>1, <2>2, <2>3 DEF BooksTypes
  <2>5. IsFiniteSet(heap')
    BY <1>0, <2>1, FS_AddElement
  <2>6. r \notin Ids(heap) /\ r \notin acked /\ r \notin acquired
    BY <1>1 DEF Submitted
  <2>7. Ids(heap') = Ids(heap) \cup {r}
    BY <2>1 DEF Ids
  <2>8. \A i, j \in heap' : i.rid = j.rid => i = j
    BY <1>0, <2>1, <2>6 DEF BooksAgree, Ids
  <2>9. ASSUME NEW i \in heap' PROVE pending'[i.rid].length = i.prio /\ pending'[i.rid].seq = i.seq
    <3>1. CASE i = item
      BY <2>1, <2>2, <2>3, <3>1
    <3>2. CASE i \in heap
      <4>1. i.rid \in DOMAIN pending \ {r}
        BY <1>0, <2>6, <3>2 DEF BooksAgree, Ids
      <4> QED
        BY <1>0, <2>2, <3>2, <4>1 DEF BooksAgree
    <3> QED
      BY <2>1, <2>9, <3>1, <3>2
  <2> QED
    BY ZenonT(30), <1>0, <1>1, <2>2, <2>4, <2>5, <2>6, <2>7, <2>8, <2>9 DEF BooksAgree
<1>2. ASSUME NEW r \in DOMAIN pending, cancelled' = cancelled \cup {r}, acked' = acked \cup {r},
             UNCHANGED <<heap, pending, acquired>>
      PROVE  BooksTypes' /\ BooksAgree' /\ FloorNext /\ IsFiniteSet(acked')
  <2>1. BooksTypes' /\ BooksAgree' /\ FloorNext
    BY <1>0, <1>2 DEF BooksTypes, BooksAgree, Ids
  <2>2. IsFiniteSet(acked')
    BY <1>0, <1>2, FS_AddElement
  <2> QED
    BY <2>1, <2>2
<1>3. CASE Pop
  <2>1. PICK i \in Live, gone \in SUBSET (heap \ Live) :
          /\ heap' = heap \ (gone \cup {i})
          /\ cancelled' = cancelled \ Ids(gone)
          /\ pending' = Restrict(pending, DOMAIN pending \ Ids(gone \cup {i}))
          /\ acquired' = acquired \cup {i.rid}
          /\ UNCHANGED acked
    BY Zenon, <1>3 DEF Pop
  <2>2. /\ i \in heap /\ i.rid \notin cancelled /\ i.rid \in DOMAIN pending /\ i.rid \notin acked
        /\ gone \subseteq heap
    <3>1. i \in heap /\ i.rid \notin cancelled /\ gone \subseteq heap
      BY DEF Live
    <3>2. i.rid \in DOMAIN pending
      BY <1>0, <3>1 DEF BooksAgree, Ids
    <3> QED
      BY <1>0, <3>1, <3>2 DEF BooksAgree
  <2>3. Ids(heap') = Ids(heap) \ Ids(gone \cup {i})
    BY <1>0, <2>1, <2>2 DEF BooksAgree, Ids
  <2>4. Ids(gone \cup {i}) = Ids(gone) \cup {i.rid}
    BY DEF Ids
  <2>5. /\ DOMAIN pending' = DOMAIN pending \ (Ids(gone) \cup {i.rid})
        /\ \A q \in DOMAIN pending' : pending'[q] = pending[q]
    BY <2>1, <2>4 DEF Restrict
  <2>6. BooksTypes' /\ FloorNext
    BY ZenonT(30), <1>0, <2>1, <2>2, <2>5 DEF BooksTypes, BooksAgree
  <2>7. BooksAgree'
    <3>1. Ids(heap') = DOMAIN pending'
      BY ZenonT(30), <1>0, <2>3, <2>4, <2>5 DEF BooksAgree
    <3>2. cancelled' = acked' \cap DOMAIN pending'
      BY ZenonT(30), <1>0, <2>1, <2>2, <2>5 DEF BooksAgree
    <3>3. acquired' \cap (acked' \cup DOMAIN pending') = {}
      BY ZenonT(30), <1>0, <2>1, <2>2, <2>5 DEF BooksAgree
    <3>4. \A a, b \in heap' : a.rid = b.rid => a = b
      BY <1>0, <2>1 DEF BooksAgree
    <3>5. ASSUME NEW a \in heap' PROVE pending'[a.rid].length = a.prio /\ pending'[a.rid].seq = a.seq
      <4>1. a \in heap /\ a.rid \in DOMAIN pending'
        BY <2>1, <3>1, <3>5 DEF Ids
      <4> QED
        BY <1>0, <2>5, <4>1 DEF BooksAgree
    <3> QED
      BY <3>1, <3>2, <3>3, <3>4, <3>5 DEF BooksAgree
  <2>8. IsFiniteSet(heap') /\ IsFiniteSet(acquired')
    BY <1>0, <2>1, FS_Subset, FS_AddElement
  <2> QED
    BY ZenonT(30), <1>0, <2>1, <2>6, <2>7, <2>8
<1>4. CASE PopAll
  <2>1. heap' = {} /\ cancelled' = {} /\ DOMAIN pending' = {} /\ UNCHANGED <<acked, acquired>>
    BY <1>0, <1>4 DEF PopAll, BooksAgree, Restrict
  <2> QED
    BY <1>0, <2>1, FS_EmptySet DEF BooksTypes, BooksAgree, Ids
<1>5. CASE AgingPass /\ UNCHANGED <<heap, cancelled, acked, acquired>>
  <2>1. BooksTypes' /\ FloorNext
    BY <1>0, <1>5, AgingPassCopies DEF BooksTypes
  <2>2. ASSUME NEW i \in heap PROVE pending'[i.rid].length = i.prio /\ pending'[i.rid].seq = i.seq
    <3>1. i.rid \in DOMAIN pending
      BY <1>0, <2>2 DEF BooksAgree, Ids
    <3> QED
      BY <1>0, <1>5, <2>2, <3>1, AgingPassCopies DEF BooksAgree
  <2>3. BooksAgree'
    BY <1>0, <1>5, <2>2, AgingPassCopies DEF BooksAgree, Ids
  <2> QED
    BY <1>0, <1>5, <2>1, <2>3
<1>6. CASE UNCHANGED books
  BY <1>0, <1>6 DEF books, BooksTypes, BooksAgree, Ids
<1> QED
  BY ZenonT(30), <1>0, <1>1, <1>2, <1>3, <1>4, <1>5, <1>6 DEF BooksNext

(* Where the callers are, and who holds the mutex. *)
CallerTypes ==
  /\ lang \in {"go", "cpp"}
  /\ cstate \in [Callers -> {"out", "called", "arming", "waiting", "woken", "got", "failed"}]
  /\ ctx \in [Callers -> {"live", "done"}]
  /\ helper \in [Callers -> BOOLEAN] /\ late \subseteq Callers
  /\ mu \in Callers \cup {Free}
  /\ \A c \in Callers : cstate[c] = "arming" <=> mu = c
  /\ lang = "cpp" => mu = Free

(* What Look does to the caller and the mutex. *)
LEMMA LookCaller ==
  ASSUME CallerTypes, mu = Free, NEW c \in Callers, Look(c)
  PROVE  /\ \/ mu' = c /\ lang = "go" /\ cstate' = [cstate EXCEPT ![c] = "arming"]
            \/ /\ mu' = Free
               /\ \E s \in {"got", "failed", "waiting"} : cstate' = [cstate EXCEPT ![c] = s]
         /\ cstate' \in [Callers -> {"out", "called", "arming", "waiting", "woken", "got", "failed"}]
         /\ \A d \in Callers : cstate'[d] = "arming" <=> mu' = d
<1>1. \/ mu' = c /\ lang = "go" /\ cstate' = [cstate EXCEPT ![c] = "arming"]
      \/ mu' = Free /\ \E s \in {"got", "failed", "waiting"} : cstate' = [cstate EXCEPT ![c] = s]
  BY DEF Look
<1>2. \A d \in Callers : cstate[d] # "arming" /\ d # Free
  BY LockAssumption DEF CallerTypes
<1> QED
  BY <1>1, <1>2 DEF CallerTypes

LEMMA CallersKept ==
  ASSUME CallerTypes, [Next]_lvars
  PROVE  CallerTypes'
<1>0. \A c \in Callers : c # Free
  BY LockAssumption
<1>1. ASSUME NEW cs \in [Callers -> {"out", "called", "arming", "waiting", "woken", "got", "failed"}],
             NEW d \in Signal(cs)
      PROVE  /\ d \in [Callers -> {"out", "called", "arming", "waiting", "woken", "got", "failed"}]
             /\ \A c \in Callers : d[c] = "arming" <=> cs[c] = "arming"
  BY <1>1 DEF Signal
<1>2. ASSUME NEW r \in Requests, NEW p \in Prios, Submit(r, p) PROVE CallerTypes'
  BY <1>1, <1>2 DEF CallerTypes, Submit
<1>3. ASSUME NEW r \in Requests, Cancel(r) PROVE CallerTypes'
  BY <1>3 DEF CallerTypes, Cancel
<1>4. ASSUME NEW c \in Callers, Enter(c) PROVE CallerTypes'
  <2>1. Look(c) /\ mu = Free
    BY <1>4 DEF Enter
  <2>2. /\ mu' \in Callers \cup {Free} /\ (lang = "cpp" => mu' = Free)
        /\ cstate' \in [Callers -> {"out", "called", "arming", "waiting", "woken", "got", "failed"}]
        /\ \A d \in Callers : cstate'[d] = "arming" <=> mu' = d
    BY <2>1, LookCaller DEF CallerTypes
  <2> QED
    BY Zenon, <1>4, <2>2 DEF CallerTypes, Enter
<1>5. ASSUME NEW c \in Callers, Resume(c) PROVE CallerTypes'
  <2>1. mu = Free /\ UNCHANGED <<lang, ctx>>
        /\ helper' \in [Callers -> BOOLEAN] /\ late' \subseteq Callers
    BY <1>5 DEF CallerTypes, Resume
  <2>2. CASE Look(c)
    <3>1. /\ mu' \in Callers \cup {Free} /\ (lang = "cpp" => mu' = Free)
          /\ cstate' \in [Callers -> {"out", "called", "arming", "waiting", "woken", "got", "failed"}]
          /\ \A d \in Callers : cstate'[d] = "arming" <=> mu' = d
      BY <2>1, <2>2, LookCaller DEF CallerTypes
    <3> QED
      BY <2>1, <3>1 DEF CallerTypes
  <2>3. CASE cstate' = [cstate EXCEPT ![c] = "failed"] /\ UNCHANGED <<books, mu>>
    BY <1>0, <2>1, <2>3 DEF CallerTypes
  <2> QED
    BY <1>5, <2>2, <2>3 DEF Resume
<1>6. ASSUME NEW c \in Callers, Register(c) PROVE CallerTypes'
  BY <1>0, <1>6 DEF CallerTypes, Register, Unlocked
<1>7. ASSUME NEW c \in Callers, Expire(c) PROVE CallerTypes'
  BY <1>7 DEF CallerTypes, Expire
<1>8. ASSUME NEW c \in Callers, HelperRuns(c) PROVE CallerTypes'
  <2>1. cstate' = cstate \/ cstate' = Broadcast(cstate)
    BY <1>8 DEF HelperRuns
  <2>2. /\ cstate' \in [Callers -> {"out", "called", "arming", "waiting", "woken", "got", "failed"}]
        /\ \A d \in Callers : cstate'[d] = "arming" <=> cstate[d] = "arming"
    BY <2>1 DEF Broadcast, CallerTypes
  <2>3. UNCHANGED <<lang, mu, ctx>> /\ helper' \in [Callers -> BOOLEAN] /\ late' \subseteq Callers
    BY Zenon, <1>8 DEF HelperRuns, CallerTypes
  <2> QED
    BY <2>2, <2>3 DEF CallerTypes
<1>9. CASE UNCHANGED lvars
  BY <1>9 DEF CallerTypes, lvars
<1>10. ASSUME NEW c \in Callers, Call(c) PROVE CallerTypes'
  BY <1>0, <1>10 DEF CallerTypes, Call, AgingPass
<1>11. CASE Tick
  BY <1>11 DEF CallerTypes, Tick
<1> QED
  BY <1>2, <1>3, <1>4, <1>5, <1>6, <1>7, <1>8, <1>9, <1>10, <1>11 DEF Next, Step

LEMMA NextLInv == LInv /\ [Next]_lvars => LInv'
<1> SUFFICES ASSUME LInv, [Next]_lvars PROVE LInv'
  OBVIOUS
<1>1. CallerTypes'
  BY CallersKept DEF LInv, TypeOK, CallerTypes
<1> QED
  <2>1. lang' = lang
    BY ZenonT(30) DEF Next, Step, Submit, Cancel, Tick, Call, Enter, Register, Resume, Expire, HelperRuns, lvars
  <2> QED
    BY <1>1, <2>1, NextBooks, BooksKept DEF LInv, TypeOK, CallerTypes, BooksTypes, Copy

LEMMA InitLInv == Init => LInv
BY FS_EmptySet, LockAssumption DEF Init, LInv, TypeOK, BooksAgree, Ids

(* In use, the queue makes only steps of its own. *)
LEMMA QueueSteps == [RTNext]_vars => [Next]_lvars
BY CallersAssumption
   DEF RTNext, submit, acquire, forward, dispatch, thread, cancel, agingLoop, expire, helper_runs, Next, vars

LEMMA LInvariance == RTSpec => []LInv
BY InitLInv, NextLInv, QueueSteps, PTL DEF RTSpec, RTInit

(* Types, and that the mutex is held across actions by arming callers only. *)
THEOREM RuntimeTypes == RTSpec => []RTTypeOK
<1> DEFINE ClientType == client \in [Requests -> {"none", "chat", "stream", "async", "200", "502", "504"}]
<1>1. RTInit => ClientType
  BY DEF RTInit
<1>2. ClientType /\ [RTNext]_vars => ClientType'
  BY DEF RTNext, submit, acquire, forward, dispatch, thread, cancel, agingLoop, expire, helper_runs, vars
<1>3. LInv /\ ClientType => RTTypeOK
  BY DEF LInv, RTTypeOK
<1> HIDE DEF ClientType
<1> QED
  BY <1>1, <1>2, <1>3, LInvariance, PTL DEF RTSpec

(* Heap, pending map and cancel marks agree in both languages, and nothing *)
(* cancelled in time is handed out.                                        *)
THEOREM RuntimeBooks == RTSpec => []BooksAgree
<1>1. LInv => BooksAgree
  BY DEF LInv
<1> QED
  BY <1>1, LInvariance, PTL

-----------------------------------------------------------------------------
(* The refinement mapping of Abstract, by name. *)
QueueBar == {[rid |-> i.rid, length |-> i.prio, current |-> pending[i.rid].prio] :
               i \in {j \in heap : j.rid \notin cancelled}}

LEMMA SubmitRefines ==
  ASSUME LInv, NEW r \in Requests, NEW p \in Prios, Submit(r, p)
  PROVE  Abstract!Submit(r, p)
<1> DEFINE item == [rid |-> r, prio |-> p, seq |-> Cardinality(Submitted)]
<1>1. /\ heap' = heap \cup {item} /\ item.rid = r /\ item.prio = p
      /\ UNCHANGED <<cancelled, acked, acquired>>
  BY DEF Submit
<1> HIDE DEF item
<1>2. r \notin Ids(heap) /\ r \notin acked /\ r \notin acquired
  BY DEF Submit, Submitted
<1>3. r \notin cancelled
  BY <1>2 DEF LInv, BooksAgree
<1>4. {j \in heap' : j.rid \notin cancelled'} = {j \in heap : j.rid \notin cancelled} \cup {item}
  BY <1>1, <1>3
<1>5. QueueBar' = QueueBar \cup {[rid |-> r, length |-> p, current |-> p]}
  <2>1. pending'[r].prio = p /\ \A j \in heap : pending'[j.rid] = pending[j.rid]
    BY <1>2 DEF Submit, LInv, BooksAgree, Ids
  <2> QED
    BY <1>1, <1>4, <2>1 DEF QueueBar
<1>6. \A q \in QueueBar : q.rid # r
  BY <1>2 DEF QueueBar, Ids
<1> QED
  BY <1>1, <1>2, <1>5, <1>6 DEF Abstract!Submit, Abstract!Waiting, QueueBar

LEMMA CancelRefines ==
  ASSUME LInv, NEW r \in Requests, Cancel(r)
  PROVE  (\E q \in QueueBar : Abstract!Cancel(q)) \/ UNCHANGED <<QueueBar, acked, acquired>>
<1>1. PICK i \in heap : i.rid = r
  BY DEF Cancel, LInv, BooksAgree, Ids
<1>2. /\ UNCHANGED <<heap, pending, acquired>> /\ r \in DOMAIN pending
      /\ cancelled' = cancelled \cup {r} /\ acked' = acked \cup {r}
  BY DEF Cancel
<1>3. CASE r \in cancelled
  BY <1>2, <1>3 DEF QueueBar, LInv, BooksAgree
<1>4. CASE r \notin cancelled
  <2>0. PICK q : q = [rid |-> i.rid, length |-> i.prio, current |-> pending[i.rid].prio]
    BY Zenon
  <2>1. q \in QueueBar /\ q.rid = r
    BY <1>1, <1>4, <2>0 DEF QueueBar
  <2>2. \A j \in heap : j.rid = r => j = i
    BY <1>1 DEF LInv, BooksAgree
  <2>3. QueueBar' = QueueBar \ {q}
    BY <1>1, <1>2, <2>0, <2>2 DEF QueueBar
  <2>4. Abstract!Cancel(q)
    BY <1>2, <2>1, <2>3 DEF Abstract!Cancel, QueueBar
  <2> QED
    BY <2>1, <2>4
<1> QED
  BY <1>3, <1>4

LEMMA PopRefines ==
  ASSUME LInv, Pop
  PROVE  \E q \in QueueBar : Abstract!Dispatch(q)
<1>1. PICK i \in Live, gone \in SUBSET (heap \ Live) :
        /\ \A j \in Live : Precedes(i, j)
        /\ heap' = heap \ (gone \cup {i})
        /\ cancelled' = cancelled \ Ids(gone)
        /\ pending' = Restrict(pending, DOMAIN pending \ Ids(gone \cup {i}))
        /\ acquired' = acquired \cup {i.rid}
        /\ UNCHANGED acked
  BY Zenon DEF Pop
<1>0. PICK q : q = [rid |-> i.rid, length |-> i.prio, current |-> pending[i.rid].prio]
  BY Zenon
<1>2. i \in heap /\ i.rid \notin cancelled /\ gone \subseteq heap
  BY DEF Live
<1>3. \A a, b \in heap : (a.rid = b.rid => a = b) /\ a.prio \in Int
  <2>1. \A a \in heap : a.prio \in Prios
    BY DEF LInv, TypeOK
  <2> QED
    BY <2>1, PriosPositive DEF LInv, BooksAgree
<1>4. q \in QueueBar /\ q.rid = i.rid /\ q.length = i.prio
  BY <1>0, <1>2 DEF QueueBar
<1>5. \A other \in QueueBar : q.length <= other.length
  <2>1. \A j \in Live : i.prio <= j.prio
    BY <1>1, <1>2, <1>3 DEF Precedes, Live
  <2> QED
    BY <1>4, <2>1 DEF QueueBar, Live
<1>6. {j \in heap' : j.rid \notin cancelled'} = {j \in heap : j.rid \notin cancelled} \ {i}
  <2>1. \A j \in gone : j.rid \in cancelled
    BY DEF Live
  <2>2. \A j \in heap : j.rid \in Ids(gone) => j \in gone
    BY <1>2, <1>3 DEF Ids
  <2> QED
    BY <1>1, <1>2, <2>1, <2>2
<1>7. QueueBar' = QueueBar \ {q}
  <2>1. \A j \in heap' : pending'[j.rid] = pending[j.rid]
    BY <1>1, <1>2, <1>3 DEF Restrict, Ids, LInv, BooksAgree
  <2> QED
    BY <1>0, <1>2, <1>3, <1>6, <2>1 DEF QueueBar
<1>8. Abstract!Dispatch(q)
  BY ZenonT(30), <1>1, <1>4, <1>5, <1>7 DEF Abstract!Dispatch, QueueBar
<1> QED
  BY <1>4, <1>8

LEMMA PopAllRefines ==
  ASSUME PopAll
  PROVE  UNCHANGED <<QueueBar, acked, acquired>>
<1>1. QueueBar = {} /\ QueueBar' = {}
  BY DEF PopAll, QueueBar, Live
<1> QED
  BY <1>1 DEF PopAll

(* An aging pass changes no item of the heap, and only lowers the copies. *)
LEMMA AgingPassRefines ==
  ASSUME LInv, AgingPass, UNCHANGED <<heap, cancelled, acked, acquired>>
  PROVE  Abstract!Age
<1> DEFINE live == {j \in heap : j.rid \notin cancelled}
           Old(i) == [rid |-> i.rid, length |-> i.prio, current |-> pending[i.rid].prio]
           New(i) == [rid |-> i.rid, length |-> i.prio, current |-> pending'[i.rid].prio]
<1>1. \A i \in live : pending'[i.rid].prio <= pending[i.rid].prio
  BY AgingPassCopies DEF LInv, BooksAgree, Ids
<1>2. QueueBar = {Old(i) : i \in live} /\ QueueBar' = {New(i) : i \in live}
  BY DEF QueueBar
<1>3. \A i \in live : /\ Old(i).rid = i.rid /\ New(i).rid = i.rid
                      /\ New(i).length = Old(i).length /\ New(i).current <= Old(i).current
  BY <1>1
<1>4. \A i, j \in live : i.rid = j.rid => i = j
  BY DEF LInv, BooksAgree
<1> HIDE DEF live, Old, New
<1>5. {q.rid : q \in QueueBar'} = {q.rid : q \in QueueBar}
  BY <1>2, <1>3
<1>6. \A new \in QueueBar' : \E old \in QueueBar :
        new.rid = old.rid /\ new.length = old.length /\ new.current <= old.current
  BY <1>2, <1>3
<1>7. \A q, other \in QueueBar' : q.rid = other.rid => q = other
  BY <1>2, <1>3, <1>4
<1> QED
  BY <1>5, <1>6, <1>7 DEF Abstract!Age, Abstract!Waiting, QueueBar

LEMMA StepRefines == LInv /\ [Next]_lvars => [Abstract!Next]_(Abstract!absVars)
<1> SUFFICES ASSUME LInv, [Next]_lvars
             PROVE  Abstract!Next \/ UNCHANGED <<QueueBar, acked, acquired>>
  BY DEF Abstract!absVars, QueueBar
<1>1. ASSUME NEW r \in Requests, NEW p \in Prios, Submit(r, p) PROVE Abstract!Next
  BY <1>1, SubmitRefines DEF Abstract!Next
<1>2. ASSUME NEW r \in Requests, Cancel(r)
      PROVE  Abstract!Next \/ UNCHANGED <<QueueBar, acked, acquired>>
  BY <1>2, CancelRefines DEF Abstract!Next, QueueBar
<1>3. CASE Pop \/ PopAll \/ UNCHANGED books
  <2>1. CASE Pop
    BY <2>1, PopRefines DEF Abstract!Next, QueueBar
  <2>2. CASE UNCHANGED books
    BY <2>2 DEF books, QueueBar
  <2> QED
    BY <1>3, <2>1, <2>2, PopAllRefines
<1>4. ASSUME NEW c \in Callers, Call(c) PROVE Abstract!Next
  BY <1>4, AgingPassRefines DEF Call, Abstract!Next
<1>5. CASE Tick
  BY <1>5, AgingPassRefines DEF Tick, Abstract!Next
<1>6. ASSUME NEW c \in Callers, Step(c) \/ Expire(c) \/ HelperRuns(c)
      PROVE  Pop \/ PopAll \/ UNCHANGED books \/ Call(c)
  BY <1>6 DEF Step, Enter, Register, Resume, Look, Expire, HelperRuns
<1>7. CASE UNCHANGED lvars
  BY <1>7 DEF lvars, QueueBar
<1> QED
  BY <1>1, <1>2, <1>3, <1>4, <1>5, <1>6, <1>7 DEF Next

(* In Go and in C++ the queue with its aging passes implements AgedQueue:  *)
(* each request is handed out once or withdrawn, aging only lowers, and no *)
(* request overtakes one that is shorter and ahead in current priority.    *)
THEOREM RuntimesRefine == RTSpec => ImplementsAgedQueue
<1>1. RTInit => Abstract!Init
  BY DEF RTInit, Init, Abstract!Init
<1> QED
  BY <1>1, LInvariance, QueueSteps, StepRefines, PTL
     DEF RTSpec, ImplementsAgedQueue, Abstract!Spec

-----------------------------------------------------------------------------
Woken(cs) == {c \in Callers : cs[c] = "woken"}
Asleep(cs) == {c \in Callers : cs[c] = "waiting"}

(* NoLostWakeup as a relation between a heap and the callers' states. *)
Attended(items, cs) == Asleep(cs) # {} => Cardinality(items) <= Cardinality(Woken(cs))

LEMMA WokenFinite ==
  ASSUME NEW cs
  PROVE  IsFiniteSet(Woken(cs)) /\ Cardinality(Woken(cs)) \in Nat
<1>1. IsFiniteSet(Woken(cs))
  BY LockAssumption, FS_Subset DEF Woken
<1> QED
  BY <1>1, FS_CardinalityType

(* A notification that leaves somebody asleep has woken one more caller. *)
LEMMA SignalWakes ==
  ASSUME NEW cs \in [Callers -> {"out", "called", "arming", "waiting", "woken", "got", "failed"}],
         NEW next \in Signal(cs), Asleep(next) # {}
  PROVE  /\ Asleep(cs) # {}
         /\ Cardinality(Woken(next)) = Cardinality(Woken(cs)) + 1
<1>1. Asleep(cs) # {}
  BY DEF Signal, Asleep
<1>2. PICK c \in Asleep(cs) : next = [cs EXCEPT ![c] = "woken"]
  BY <1>1 DEF Signal, Asleep
<1>3. Woken(next) = Woken(cs) \cup {c} /\ c \notin Woken(cs)
  BY <1>2 DEF Woken, Asleep
<1> QED
  BY Zenon, <1>1, <1>3, WokenFinite, FS_AddElement

(* A caller that takes an item, or finds none at all, leaves enough others. *)
LEMMA LookAttends ==
  ASSUME LInv, lang = "cpp", NEW c \in Callers, Look(c), Attended(heap, cstate)
  PROVE  Attended(heap', cstate')
<1>1. CASE heap' = {}
  BY <1>1, WokenFinite, FS_EmptySet DEF Attended
<1>2. CASE Pop /\ cstate' = [cstate EXCEPT ![c] = "got"]
  <2>1. PICK i \in heap : heap' \subseteq heap \ {i}
    BY <1>2 DEF Pop, Live
  <2>2. IsFiniteSet(heap) /\ cstate \in [Callers -> {"out", "called", "arming", "waiting", "woken", "got", "failed"}]
    BY DEF LInv, TypeOK
  <2>3. IsFiniteSet(heap \ {i}) /\ Cardinality(heap \ {i}) = Cardinality(heap) - 1
    BY <2>2, FS_RemoveElement
  <2>4. /\ Cardinality(heap') <= Cardinality(heap) - 1
        /\ Cardinality(heap') \in Nat /\ Cardinality(heap) \in Nat
    BY <2>1, <2>2, <2>3, FS_Subset, FS_CardinalityType
  <2>5. Woken(cstate') = Woken(cstate) \ {c} /\ Asleep(cstate') \subseteq Asleep(cstate)
    BY <1>2, <2>2 DEF Woken, Asleep
  <2>6. Cardinality(Woken(cstate')) >= Cardinality(Woken(cstate)) - 1
    <3>1. IsFiniteSet(Woken(cstate)) /\ Cardinality(Woken(cstate)) \in Nat
      BY WokenFinite
    <3>2. CASE c \in Woken(cstate)
      <4>1. Cardinality(Woken(cstate) \ {c}) = Cardinality(Woken(cstate)) - 1
        BY Zenon, <3>1, <3>2, FS_RemoveElement
      <4>2. Cardinality(Woken(cstate')) = Cardinality(Woken(cstate)) - 1
        BY <2>5, <4>1
      <4> QED
        BY <3>1, <4>2
    <3>3. CASE c \notin Woken(cstate)
      <4>1. Woken(cstate') = Woken(cstate)
        BY <2>5, <3>3
      <4> QED
        BY <3>1, <4>1
    <3> QED
      BY <3>2, <3>3
  <2> QED
    BY <2>4, <2>5, <2>6, WokenFinite DEF Attended
<1> QED
  BY <1>1, <1>2 DEF Look, PopAll

LEMMA NextAttended ==
  ASSUME LInv, [Next]_lvars, lang = "cpp", Attended(heap, cstate)
  PROVE  Attended(heap', cstate')
<1>0. /\ IsFiniteSet(heap)
      /\ cstate \in [Callers -> {"out", "called", "arming", "waiting", "woken", "got", "failed"}]
  BY DEF LInv, TypeOK
<1>1. ASSUME NEW r \in Requests, NEW p \in Prios, Submit(r, p) PROVE Attended(heap', cstate')
  <2>1. cstate' \in Signal(cstate)
    BY <1>1 DEF Submit
  <2>2. PICK item : heap' = heap \cup {item}
    BY Zenon, <1>1 DEF Submit
  <2>3. Cardinality(heap') \in {Cardinality(heap), Cardinality(heap) + 1} /\ Cardinality(heap) \in Nat
    BY <1>0, <2>2, FS_AddElement, FS_CardinalityType
  <2>4. Asleep(cstate') # {} =>
          /\ Asleep(cstate) # {}
          /\ Cardinality(Woken(cstate')) = Cardinality(Woken(cstate)) + 1
    BY <1>0, <2>1, SignalWakes
  <2>5. Cardinality(Woken(cstate)) \in Nat
    BY WokenFinite
  <2> QED
    BY <2>3, <2>4, <2>5 DEF Attended
<1>2. ASSUME NEW c \in Callers, Enter(c) \/ Resume(c) PROVE Attended(heap', cstate')
  BY <1>2, LookAttends DEF Enter, Resume
<1>3. ASSUME NEW c \in Callers, Register(c) PROVE FALSE
  BY <1>3, LockAssumption DEF Register, LInv
<1>4. CASE UNCHANGED <<heap, cstate>>
  BY <1>4
<1>5. ASSUME NEW c \in Callers, HelperRuns(c) PROVE Attended(heap', cstate')
  <2>1. cstate' = cstate \/ cstate' = Broadcast(cstate)
    BY <1>5 DEF HelperRuns
  <2>2. Asleep(Broadcast(cstate)) = {}
    BY DEF Asleep, Broadcast
  <2>3. heap' = heap
    BY <1>5 DEF HelperRuns, books
  <2> QED
    BY <2>1, <2>2, <2>3 DEF Attended
<1>6. ASSUME NEW r \in Requests, Cancel(r) PROVE UNCHANGED <<heap, cstate>>
  BY <1>6 DEF Cancel
<1>7. ASSUME NEW c \in Callers, Expire(c) PROVE UNCHANGED <<heap, cstate>>
  BY <1>7 DEF Expire, books
<1>8. CASE UNCHANGED lvars
  BY <1>4, <1>8 DEF lvars
<1>9. CASE Tick
  BY <1>4, <1>9 DEF Tick
<1>10. ASSUME NEW c \in Callers, Call(c) PROVE Attended(heap', cstate')
  <2>1. /\ cstate[c] \in {"out", "got", "failed"} /\ heap' = heap
        /\ cstate' = [cstate EXCEPT ![c] = "called"]
    BY <1>10 DEF Call
  <2>2. Woken(cstate') = Woken(cstate) /\ Asleep(cstate') = Asleep(cstate)
    BY <1>0, <2>1 DEF Woken, Asleep
  <2> QED
    BY ZenonT(30), <2>1, <2>2 DEF Attended
<1> QED
  BY <1>1, <1>2, <1>3, <1>4, <1>5, <1>6, <1>7, <1>8, <1>9, <1>10 DEF Next, Step

(* C++ loses no notification, for any number of threads.                   *)
THEOREM CppWakeupsKept == RTSpec => []NoLostWakeup
<1>1. RTInit => NoLostWakeup
  BY DEF RTInit, Init, NoLostWakeup, Waiters
<1>2. LInv /\ NoLostWakeup /\ [Next]_lvars => NoLostWakeup'
  <2> SUFFICES ASSUME LInv, NoLostWakeup, [Next]_lvars, lang' = "cpp"
               PROVE  Attended(heap', cstate')
    BY DEF NoLostWakeup, Waiters, Attended, Asleep, Woken
  <2>1. lang = "cpp"
    BY ZenonT(30) DEF Next, Step, Submit, Cancel, Tick, Call, Enter, Register, Resume, Expire, HelperRuns, lvars
  <2>2. Attended(heap, cstate)
    BY <2>1 DEF NoLostWakeup, Waiters, Attended, Asleep, Woken
  <2> QED
    BY <2>1, <2>2, NextAttended
<1> QED
  BY <1>1, <1>2, LInvariance, QueueSteps, PTL DEF RTSpec

=============================================================================
