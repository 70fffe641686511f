------------------------------ MODULE SJFProofs ------------------------------
(***************************************************************************)
(* Proofs about SJFScheduler, for any sets of requests, workers and        *)
(* priorities, with and without the fallback.  First what each step does   *)
(* to the fallback and to the scheduler's own books, given a few facts     *)
(* about the priority queue (QSafe); then the priority queue as a part of  *)
(* the scheduler, which has these facts; then all of it as one invariant   *)
(* for the gateway, which runs the scheduler.  The fallback on its own,    *)
(* with its wake-ups and as an abstract request queue, comes with the      *)
(* first part.                                                             *)
(***************************************************************************)
EXTENDS SJFScheduler, Sequences, FiniteSetTheorems, TLAPS

USE SMTT(30), ZenonT(30)

-----------------------------------------------------------------------------
(* The fallback: its types, its order, its books and its counters. *)
FInv ==
  /\ F!TypeOK
  /\ F!FirstComeFirstServed
  /\ F!PendingTracks
  /\ facked \subseteq Range(arrivals)
  /\ IsFiniteSet(Range(arrivals))
  /\ fstats.scheduled = Cardinality(Range(arrivals))
  /\ fstats.cancelled = Cardinality(facked)

LEMMA RangeAppend ==
  ASSUME NEW s \in Seq(Requests), NEW r \in Requests
  PROVE  Range(Append(s, r)) = Range(s) \cup {r}
<1> DEFINE t == Append(s, r)
<1>1. /\ DOMAIN t = (DOMAIN s) \cup {Len(s) + 1}
      /\ t[Len(s) + 1] = r /\ \A i \in DOMAIN s : t[i] = s[i]
  OBVIOUS
<1> HIDE DEF t
<1>2. Range(t) = Range(s) \cup {r}
  BY <1>1 DEF Range
<1> QED
  BY <1>2 DEF t

LEMMA RangeConcatenation ==
  ASSUME NEW s \in Seq(Requests), NEW t \in Seq(Requests)
  PROVE  Range(s \o t) = Range(s) \cup Range(t)
<1> DEFINE u == s \o t
<1>1. /\ \A i \in DOMAIN s : i \in DOMAIN u /\ u[i] = s[i]
      /\ \A i \in DOMAIN t : Len(s) + i \in DOMAIN u /\ u[Len(s) + i] = t[i]
  OBVIOUS
<1>2. ASSUME NEW i \in DOMAIN u, i \notin DOMAIN s
      PROVE  i - Len(s) \in DOMAIN t /\ u[i] = t[i - Len(s)]
  BY <1>2
<1> HIDE DEF u
<1>3. Range(u) = Range(s) \cup Range(t)
  BY <1>1, <1>2 DEF Range
<1> QED
  BY <1>3 DEF u

LEMMA FSubmit ==
  ASSUME FInv, NEW r \in Requests, r \notin finished, F!submit(r)
  PROVE  FInv'
<1>0. F!TypeOK /\ arrivals = served \o fifo /\ r \notin Range(arrivals)
  BY DEF FInv, F!FirstComeFirstServed, F!submit, F!Range, Range
<1>1. Range(arrivals') = Range(arrivals) \cup {r}
  BY Zenon, <1>0, RangeAppend DEF F!submit, F!TypeOK
<1>2. fstats.scheduled \in Nat /\ fstats.cancelled \in Nat
      /\ fstats.cancelled <= fstats.scheduled
  BY <1>0 DEF F!TypeOK
<1>3. fstats' = [scheduled |-> fstats.scheduled + 1, completed |-> fstats.completed,
                 errors |-> fstats.errors, cancelled |-> fstats.cancelled]
  BY Zenon, <1>0 DEF F!submit, F!TypeOK
<1>4. F!TypeOK'
  <2>1. gstate' \in [Workers -> {"ready", "waiting", "woken"}]
    BY Zenon, <1>0 DEF F!submit, F!Wakeup, F!TypeOK
  <2>2. fifo' \in Seq(Requests) /\ arrivals' \in Seq(Requests)
    BY <1>0 DEF F!submit, F!TypeOK
  <2>3. fstats' \in [scheduled : Nat, completed : Nat, errors : Nat, cancelled : Nat]
        /\ fstats'.cancelled <= fstats'.scheduled
    BY <1>0, <1>2, <1>3 DEF F!TypeOK
  <2> QED
    BY <1>0, <2>1, <2>2, <2>3 DEF F!submit, F!TypeOK
<1>5. F!FirstComeFirstServed'
  <2>1. <<r>> \in Seq(Requests)
    OBVIOUS
  <2>2. fifo \in Seq(Requests) /\ served \in Seq(Requests) /\ served \o fifo \in Seq(Requests)
    BY <1>0 DEF F!TypeOK
  <2>3. /\ Append(served \o fifo, r) = (served \o fifo) \o <<r>>
        /\ Append(fifo, r) = fifo \o <<r>>
    BY <2>2
  <2>4. Append(served \o fifo, r) = served \o Append(fifo, r)
    BY <2>1, <2>2, <2>3
  <2> QED
    BY <1>0, <2>4 DEF F!submit, F!FirstComeFirstServed
<1>6. F!PendingTracks'
  BY <1>0, <1>1 DEF FInv, F!submit, F!PendingTracks, F!Range, Range
<1>7. /\ IsFiniteSet(Range(arrivals'))
      /\ Cardinality(Range(arrivals')) = Cardinality(Range(arrivals)) + 1
  BY <1>0, <1>1, FS_AddElement DEF FInv
<1> QED
  BY <1>1, <1>3, <1>4, <1>5, <1>6, <1>7 DEF FInv, F!submit

LEMMA FGet ==
  ASSUME FInv, NEW w \in Workers, F!Get(w)
  PROVE  FInv'
<1>0. /\ F!TypeOK /\ arrivals = served \o fifo
      /\ fifo \in Seq(Requests) /\ served \in Seq(Requests) /\ fifo # <<>>
  BY DEF FInv, F!FirstComeFirstServed, F!TypeOK, F!Get
<1>1. /\ Head(fifo) \in Requests /\ Tail(fifo) \in Seq(Requests)
      /\ <<Head(fifo)>> \in Seq(Requests) /\ fifo = <<Head(fifo)>> \o Tail(fifo)
  <2>1. /\ Head(fifo) \in Requests /\ Tail(fifo) \in Seq(Requests)
        /\ Len(Tail(fifo)) = Len(fifo) - 1
        /\ \A i \in 1 .. Len(Tail(fifo)) : Tail(fifo)[i] = fifo[i + 1]
    BY <1>0
  <2>2. <<Head(fifo)>> \in Seq(Requests)
    BY <2>1
  <2>3. fifo = <<Head(fifo)>> \o Tail(fifo)
    <3>1. <<Head(fifo)>> \o Tail(fifo) \in Seq(Requests)
          /\ Len(<<Head(fifo)>> \o Tail(fifo)) = Len(fifo)
      BY <1>0, <2>1, <2>2
    <3>2. \A i \in 1 .. Len(fifo) : (<<Head(fifo)>> \o Tail(fifo))[i] = fifo[i]
      BY <1>0, <2>1, <2>2
    <3> QED
      BY <1>0, <3>1, <3>2
  <2> QED
    BY <2>1, <2>2, <2>3
<1>2. F!FirstComeFirstServed'
  <2>1. Append(served, Head(fifo)) \o Tail(fifo) = served \o fifo
    <3>1. Append(served, Head(fifo)) = served \o <<Head(fifo)>>
      BY <1>0, <1>1
    <3>2. (served \o <<Head(fifo)>>) \o Tail(fifo) = served \o (<<Head(fifo)>> \o Tail(fifo))
      BY <1>0, <1>1
    <3> QED
      BY <1>1, <3>1, <3>2
  <2> QED
    BY <1>0, <2>1 DEF F!Get, F!FirstComeFirstServed
<1>3. F!TypeOK'
  <2>1. fifo' \in Seq(Requests) /\ served' \in Seq(Requests)
    BY <1>0, <1>1 DEF F!Get
  <2> QED
    BY <1>0, <2>1 DEF F!TypeOK, F!Get
<1> QED
  BY <1>2, <1>3 DEF FInv, F!Get, F!PendingTracks, F!Range, Range

LEMMA FOther ==
  ASSUME FInv,
         \/ \E w \in Workers : F!Block(w) \/ F!GiveUp(w)
         \/ \E r \in Requests, b \in BOOLEAN : F!complete(r, b)
         \/ \E r \in Requests : F!cancel(r)
         \/ UNCHANGED fvars
  PROVE  FInv'
<1>0. F!TypeOK
  BY DEF FInv
<1>1. ASSUME NEW w \in Workers, F!Block(w) \/ F!GiveUp(w) PROVE FInv'
  <2>1. gstate' \in [Workers -> {"ready", "waiting", "woken"}]
    BY <1>0, <1>1 DEF F!Block, F!GiveUp, F!HandOn, F!Wakeup, F!TypeOK
  <2>2. UNCHANGED <<fifo, fpending, fstats, arrivals, served, facked, finished>>
    BY <1>1 DEF F!Block, F!GiveUp
  <2>3. F!TypeOK' /\ F!FirstComeFirstServed' /\ F!PendingTracks'
    BY <2>1, <2>2 DEF FInv, F!TypeOK, F!FirstComeFirstServed, F!PendingTracks, F!Range
  <2> QED
    BY <2>2, <2>3 DEF FInv
<1>2. ASSUME NEW r \in Requests, NEW b \in BOOLEAN, F!complete(r, b) PROVE FInv'
  <2>0. \/ fstats' = [scheduled |-> fstats.scheduled, completed |-> fstats.completed + 1,
                      errors |-> fstats.errors, cancelled |-> fstats.cancelled]
        \/ fstats' = [scheduled |-> fstats.scheduled, completed |-> fstats.completed,
                      errors |-> fstats.errors + 1, cancelled |-> fstats.cancelled]
    BY Zenon, <1>0, <1>2 DEF F!complete, F!TypeOK
  <2>1. /\ fstats' \in [scheduled : Nat, completed : Nat, errors : Nat, cancelled : Nat]
        /\ fstats'.scheduled = fstats.scheduled /\ fstats'.cancelled = fstats.cancelled
    BY <1>0, <2>0 DEF F!TypeOK
  <2>2. F!TypeOK'
    BY <1>0, <1>2, <2>1 DEF F!complete, F!Forget, F!TypeOK
  <2>3. F!PendingTracks'
    BY <1>2 DEF FInv, F!complete, F!Forget, F!PendingTracks, F!Range
  <2> QED
    BY <1>2, <2>1, <2>2, <2>3 DEF FInv, F!complete, F!FirstComeFirstServed
<1>3. ASSUME NEW r \in Requests, F!cancel(r) PROVE FInv'
  <2>1. /\ fstats' = [scheduled |-> fstats.scheduled, completed |-> fstats.completed,
                      errors |-> fstats.errors, cancelled |-> fstats.cancelled + 1]
        /\ r \in Range(arrivals) \ facked /\ arrivals' = arrivals
        /\ facked' = facked \cup {r} /\ facked' \subseteq Range(arrivals)
    BY <1>0, <1>3 DEF FInv, F!cancel, F!Cancellable, F!PendingTracks, F!TypeOK, F!Range, Range
  <2>2. IsFiniteSet(facked) /\ IsFiniteSet(facked') /\ IsFiniteSet(Range(arrivals))
    BY <2>1, FS_Subset DEF FInv
  <2>3. /\ Cardinality(facked') = Cardinality(facked) + 1
        /\ Cardinality(facked') <= Cardinality(Range(arrivals))
        /\ Cardinality(facked) \in Nat /\ Cardinality(Range(arrivals)) \in Nat
    BY <2>1, <2>2, FS_AddElement, FS_Subset, FS_CardinalityType
  <2>4. F!TypeOK'
    BY <1>0, <1>3, <2>1, <2>3 DEF FInv, F!cancel, F!TypeOK
  <2>5. F!PendingTracks'
    BY <1>3 DEF FInv, F!cancel, F!PendingTracks, F!Range
  <2> QED
    BY <1>3, <2>1, <2>3, <2>4, <2>5 DEF FInv, F!cancel, F!FirstComeFirstServed
<1>4. CASE UNCHANGED fvars
  BY ZenonT(30), <1>4 DEF FInv, fvars, F!TypeOK, F!FirstComeFirstServed, F!PendingTracks, F!Range, Range
<1> QED
  BY <1>1, <1>2, <1>3, <1>4

-----------------------------------------------------------------------------
(* The workers asleep in Queue.get(), and those woken in it. *)
Dozing(gs) == {w \in Workers : gs[w] = "waiting"}
Called(gs) == {w \in Workers : gs[w] = "woken"}

LEMMA CalledFinite ==
  ASSUME NEW gs PROVE IsFiniteSet(Called(gs)) /\ Cardinality(Called(gs)) \in Nat
<1>1. IsFiniteSet(Called(gs))
  BY FS_Subset, QueueAssumption DEF Called
<1> QED
  BY <1>1, FS_CardinalityType

LEMMA WakeupCalls ==
  ASSUME NEW gs \in [Workers -> {"ready", "waiting", "woken"}],
         NEW next \in F!Wakeup(gs), Dozing(gs) # {}
  PROVE  Cardinality(Called(next)) = Cardinality(Called(gs)) + 1
<1>1. PICK w \in Dozing(gs) : next = [gs EXCEPT ![w] = "woken"]
  BY DEF F!Wakeup, Dozing
<1>2. Called(next) = Called(gs) \cup {w} /\ w \notin Called(gs)
  BY <1>1 DEF Called, Dozing
<1> QED
  BY ZenonT(30), <1>2, CalledFinite, FS_AddElement

LEMMA WakeupDozing ==
  ASSUME NEW gs \in [Workers -> {"ready", "waiting", "woken"}], NEW next \in F!Wakeup(gs)
  PROVE  Dozing(next) \subseteq Dozing(gs)
BY DEF F!Wakeup, Dozing

(* NoSleeperWhileQueued as a relation between a length and the workers. *)
Enough(n, gs) == Dozing(gs) # {} => n <= Cardinality(Called(gs))

LEMMA EnoughNoSleeper == F!NoSleeperWhileQueued <=> Enough(Len(fifo), gstate)
<1>1. (\E w \in Workers : gstate[w] = "waiting") <=> Dozing(gstate) # {}
  BY DEF Dozing
<1> QED
  BY <1>1 DEF F!NoSleeperWhileQueued, Enough, Called, F!Cardinality, Cardinality

(* All that ever happens to _queue and to the workers in acquire(). *)
FMove ==
  \/ \E r \in Requests : F!submit(r)
  \/ \E w \in Workers : F!Get(w) \/ F!Block(w) \/ F!GiveUp(w)
  \/ UNCHANGED <<fifo, gstate>>

FTypes == fifo \in Seq(Requests) /\ gstate \in [Workers -> {"ready", "waiting", "woken"}]

(* A worker that leaves get() takes at most its own wake-up with it. *)
LEMMA LeaveCalled ==
  ASSUME NEW gs \in [Workers -> {"ready", "waiting", "woken"}], NEW w \in Workers
  PROVE  LET back == [gs EXCEPT ![w] = "ready"]
         IN  /\ Dozing(back) \subseteq Dozing(gs)
             /\ gs[w] # "woken" => Called(back) = Called(gs)
             /\ gs[w] = "woken" => Cardinality(Called(back)) = Cardinality(Called(gs)) - 1
<1> DEFINE back == [gs EXCEPT ![w] = "ready"]
<1>1. Dozing(back) \subseteq Dozing(gs) /\ (gs[w] # "woken" => Called(back) = Called(gs))
  BY DEF Dozing, Called
<1>2. ASSUME gs[w] = "woken" PROVE Cardinality(Called(back)) = Cardinality(Called(gs)) - 1
  <2>1. Called(back) = Called(gs) \ {w} /\ w \in Called(gs)
    BY <1>2 DEF Called
  <2>2. Cardinality(Called(gs) \ {w}) = Cardinality(Called(gs)) - 1
    BY ZenonT(30), <2>1, CalledFinite, FS_RemoveElement
  <2> QED
    BY ZenonT(30), <2>1, <2>2
<1> QED
  BY ZenonT(30), <1>1, <1>2

LEMMA FMoveNoSleeper ==
  FTypes /\ F!NoSleeperWhileQueued /\ FMove => F!NoSleeperWhileQueued'
<1> SUFFICES ASSUME FTypes, Enough(Len(fifo), gstate), FMove
             PROVE  Enough(Len(fifo'), gstate')
  <2>1. Enough(Len(fifo'), gstate') => F!NoSleeperWhileQueued'
    <3>1. (\E w \in Workers : gstate'[w] = "waiting") <=> Dozing(gstate') # {}
      BY DEF Dozing
    <3> QED
      BY <3>1 DEF F!NoSleeperWhileQueued, Enough, Called, F!Cardinality, Cardinality
  <2> QED
    BY <2>1, EnoughNoSleeper
<1>0. /\ fifo \in Seq(Requests) /\ Len(fifo) \in Nat
      /\ gstate \in [Workers -> {"ready", "waiting", "woken"}]
      /\ Cardinality(Called(gstate)) \in Nat /\ Cardinality(Called(gstate')) \in Nat
  BY CalledFinite DEF FTypes
<1>1. ASSUME NEW r \in Requests, F!submit(r) PROVE Enough(Len(fifo'), gstate')
  <2>1. Len(fifo') = Len(fifo) + 1 /\ gstate' \in F!Wakeup(gstate)
    BY <1>0, <1>1 DEF F!submit
  <2>2. Dozing(gstate') \subseteq Dozing(gstate)
    BY <1>0, <2>1, WakeupDozing
  <2>3. Dozing(gstate) # {} =>
          Cardinality(Called(gstate')) = Cardinality(Called(gstate)) + 1
    BY <1>0, <2>1, WakeupCalls
  <2> QED
    BY <1>0, <2>1, <2>2, <2>3 DEF Enough
<1>2. ASSUME NEW w \in Workers, F!Get(w) PROVE Enough(Len(fifo'), gstate')
  <2>1. gstate' = [gstate EXCEPT ![w] = "ready"]
    BY <1>2 DEF F!Get
  <2>2. /\ Dozing(gstate') \subseteq Dozing(gstate)
        /\ \/ Called(gstate') = Called(gstate)
           \/ Cardinality(Called(gstate')) = Cardinality(Called(gstate)) - 1
    BY ZenonT(30), <1>0, <2>1, LeaveCalled
  <2>3. Cardinality(Called(gstate')) >= Cardinality(Called(gstate)) - 1
    BY <1>0, <2>2
  <2>4. Len(fifo') = Len(fifo) - 1
    BY <1>0, <1>2 DEF F!Get
  <2>5. Dozing(gstate') # {} => Dozing(gstate) # {}
    BY <2>2
  <2> QED
    BY <1>0, <2>3, <2>4, <2>5 DEF Enough
<1>3. ASSUME NEW w \in Workers, F!Block(w) PROVE Enough(Len(fifo'), gstate')
  <2>1. Len(fifo') = 0
    BY <1>3 DEF F!Block
  <2> QED
    BY <1>0, <2>1 DEF Enough
<1>4. ASSUME NEW w \in Workers, F!GiveUp(w) PROVE Enough(Len(fifo'), gstate')
  <2> DEFINE back == [gstate EXCEPT ![w] = "ready"]
  <2>1. /\ fifo' = fifo /\ back \in [Workers -> {"ready", "waiting", "woken"}]
        /\ IF gstate[w] = "woken" /\ fifo # <<>> THEN gstate' \in F!Wakeup(back)
                                                 ELSE gstate' = back
    BY <1>0, <1>4 DEF F!GiveUp, F!HandOn
  <2>2. /\ Dozing(back) \subseteq Dozing(gstate)
        /\ gstate[w] # "woken" => Called(back) = Called(gstate)
        /\ gstate[w] = "woken" =>
             Cardinality(Called(back)) = Cardinality(Called(gstate)) - 1
    BY ZenonT(30), <1>0, LeaveCalled
  <2> HIDE DEF back
  <2>3. CASE gstate[w] = "woken" /\ fifo # <<>>
    <3>1. Dozing(gstate') \subseteq Dozing(back)
      BY <2>1, <2>3, WakeupDozing
    <3>2. Dozing(back) # {} => Cardinality(Called(gstate')) = Cardinality(Called(back)) + 1
      BY <2>1, <2>3, WakeupCalls
    <3> QED
      BY <1>0, <2>1, <2>2, <2>3, <3>1, <3>2 DEF Enough
  <2>4. CASE fifo = <<>>
    BY <1>0, <2>1, <2>4 DEF Enough
  <2>5. CASE gstate[w] # "woken"
    BY <1>0, <2>1, <2>2, <2>5 DEF Enough
  <2> QED
    BY <2>3, <2>4, <2>5
<1>5. CASE UNCHANGED <<fifo, gstate>>
  BY <1>5
<1> QED
  BY <1>1, <1>2, <1>3, <1>4, <1>5 DEF FMove

-----------------------------------------------------------------------------
(* The fallback's promise: the abstract queue with the arrival numbers as  *)
(* keys.  None of its requests is ever withdrawn from it: one that was     *)
(* cancelled stays in line and is served.                                  *)
Numbered(s, n) == {[rid |-> s[i], key |-> n + i] : i \in DOMAIN s}

A == INSTANCE RequestQueue WITH
  Keys <- Nat, queue <- Numbered(fifo, Len(served)), withdrawn <- {}, served <- Range(served)

LEMMA NumberedIds == ASSUME NEW s, NEW n PROVE \A q \in Numbered(s, n) : q.rid \in Range(s)
BY DEF Numbered, Range

LEMMA NumberedAppend ==
  ASSUME NEW s \in Seq(Requests), NEW r \in Requests, NEW n \in Nat
  PROVE  Numbered(Append(s, r), n) = Numbered(s, n) \cup {[rid |-> r, key |-> n + Len(s) + 1]}
<1>0. PICK t : t = Append(s, r)
  BY ZenonT(30)
<1>1. PICK k \in Nat : k = Len(s)
  OBVIOUS
<1>2. /\ DOMAIN s = 1 .. k /\ DOMAIN t = (1 .. k) \cup {k + 1}
      /\ t[k + 1] = r /\ \A i \in 1 .. k : t[i] = s[i]
  BY <1>0, <1>1
<1>3. Numbered(t, n) = Numbered(s, n) \cup {[rid |-> r, key |-> n + (k + 1)]}
  BY <1>2 DEF Numbered
<1> QED
  BY <1>0, <1>1, <1>3

LEMMA NumberedTail ==
  ASSUME NEW s \in Seq(Requests), s # <<>>, NEW n \in Nat
  PROVE  /\ [rid |-> Head(s), key |-> n + 1] \in Numbered(s, n)
         /\ \A q \in Numbered(s, n) : n + 1 <= q.key
         /\ Numbered(Tail(s), n + 1) = Numbered(s, n) \ {[rid |-> Head(s), key |-> n + 1]}
<1>0. PICK t : t = Tail(s)
  BY ZenonT(30)
<1>1. PICK k \in Nat : k = Len(s) /\ k > 0
  OBVIOUS
<1>2. /\ DOMAIN s = 1 .. k /\ DOMAIN t = 1 .. (k - 1)
      /\ s[1] = Head(s) /\ \A i \in 1 .. (k - 1) : t[i] = s[i + 1]
  BY <1>0, <1>1
<1>3. ASSUME NEW q \in Numbered(t, n + 1)
      PROVE  q \in Numbered(s, n) /\ q # [rid |-> Head(s), key |-> n + 1]
  <2>1. PICK i \in 1 .. (k - 1) : q = [rid |-> t[i], key |-> (n + 1) + i]
    BY <1>2 DEF Numbered
  <2>2. i + 1 \in 1 .. k /\ q = [rid |-> s[i + 1], key |-> n + (i + 1)] /\ n + (i + 1) # n + 1
    BY <1>2, <2>1
  <2> QED
    BY ZenonT(30), <1>2, <2>2 DEF Numbered
<1>4. ASSUME NEW q \in Numbered(s, n)
      PROVE  n + 1 <= q.key /\ (q # [rid |-> Head(s), key |-> n + 1] => q \in Numbered(t, n + 1))
  <2>1. PICK i \in 1 .. k : q = [rid |-> s[i], key |-> n + i]
    BY <1>2 DEF Numbered
  <2>2. CASE i = 1
    BY <1>2, <2>1, <2>2
  <2>3. CASE i # 1
    <3>1. PICK j \in 1 .. (k - 1) : i = j + 1
      BY <2>3
    <3>2. q = [rid |-> t[j], key |-> (n + 1) + j] /\ n + 1 <= q.key
      BY <1>2, <2>1, <3>1
    <3> QED
      BY <1>2, <3>2 DEF Numbered
  <2> QED
    BY <2>2, <2>3
<1>5. [rid |-> Head(s), key |-> n + 1] \in Numbered(s, n)
  BY <1>1, <1>2 DEF Numbered
<1> QED
  BY <1>0, <1>1, <1>3, <1>4, <1>5

(* All that ever happens to _queue and to what acquire() has returned. *)
FServe ==
  \/ \E r \in Requests : F!submit(r)
  \/ \E w \in Workers : F!Get(w)
  \/ UNCHANGED <<fifo, served>>

LEMMA FServeAbstract == FInv /\ FServe => [A!Next]_(A!absVars)
<1> SUFFICES ASSUME FInv, FServe PROVE A!Next \/ UNCHANGED A!absVars
  OBVIOUS
<1>0. /\ fifo \in Seq(Requests) /\ served \in Seq(Requests) /\ arrivals = served \o fifo
      /\ Len(fifo) \in Nat /\ Len(served) \in Nat
  BY DEF FInv, F!TypeOK, F!FirstComeFirstServed
<1>1. ASSUME NEW r \in Requests, F!submit(r) PROVE A!Next
  <2>1. fifo' = Append(fifo, r) /\ served' = served /\ r \notin Range(arrivals)
    BY <1>1 DEF F!submit, F!Range, Range
  <2>2. Range(arrivals) = Range(served) \cup Range(fifo)
    BY <1>0, RangeConcatenation
  <2>3. r \notin A!Waiting \cup {} \cup Range(served)
    BY <2>1, <2>2, NumberedIds DEF A!Waiting
  <2>4. A!Submit(r, Len(served) + Len(fifo) + 1)
    BY <1>0, <2>1, <2>3, NumberedAppend DEF A!Submit
  <2> QED
    BY <1>0, <2>4 DEF A!Next
<1>2. ASSUME NEW w \in Workers, F!Get(w) PROVE A!Next
  <2> DEFINE q == [rid |-> Head(fifo), key |-> Len(served) + 1]
  <2>1. /\ fifo # <<>> /\ fifo' = Tail(fifo) /\ served' = Append(served, Head(fifo))
        /\ Head(fifo) \in Requests
    BY <1>0, <1>2 DEF F!Get
  <2>2. Len(served') = Len(served) + 1 /\ Range(served') = Range(served) \cup {q.rid}
    BY <1>0, <2>1, RangeAppend
  <2>3. /\ q \in Numbered(fifo, Len(served))
        /\ \A other \in Numbered(fifo, Len(served)) : q.key <= other.key
        /\ Numbered(fifo', Len(served')) = Numbered(fifo, Len(served)) \ {q}
    BY ZenonT(30), <1>0, <2>1, <2>2, NumberedTail
  <2> HIDE DEF q
  <2>4. A!Dispatch(q)
    BY <2>2, <2>3 DEF A!Dispatch
  <2> QED
    BY <2>3, <2>4 DEF A!Next
<1>3. CASE UNCHANGED <<fifo, served>>
  BY <1>3 DEF A!absVars
<1> QED
  BY <1>1, <1>2, <1>3 DEF FServe

LEMMA FInitAbstract == F!Init => A!Init
<1> SUFFICES ASSUME F!Init PROVE A!Init
  OBVIOUS
<1>1. fifo = <<>> /\ served = <<>>
  BY DEF F!Init
<1>2. Numbered(fifo, Len(served)) = {} /\ Range(served) = {}
  BY <1>1 DEF Numbered, Range
<1> QED
  BY <1>2 DEF A!Init

-----------------------------------------------------------------------------
(* The FCFS scheduler on its own. *)
FAlone == FInv /\ finished \subseteq Range(arrivals)

LEMMA FAloneInvariance == F!Spec => []FAlone
<1>1. F!Init => FAlone
  <2> SUFFICES ASSUME F!Init PROVE FAlone
    OBVIOUS
  <2>1. Range(arrivals) = {} /\ finished = {}
    BY DEF F!Init, Range
  <2>2. F!TypeOK /\ F!FirstComeFirstServed
    BY DEF F!Init, F!TypeOK, F!FirstComeFirstServed
  <2> QED
    BY Zenon, <2>1, <2>2, FS_EmptySet DEF F!Init, FAlone, FInv, F!PendingTracks, F!Range, Range
<1>2. FAlone /\ [F!Next]_(F!fvars) => FAlone'
  <2> SUFFICES ASSUME FAlone, [F!Next]_(F!fvars) PROVE FAlone'
    OBVIOUS
  <2>0. Range(served) \subseteq Range(arrivals) /\ arrivals \in Seq(Requests)
    BY RangeConcatenation DEF FAlone, FInv, F!FirstComeFirstServed, F!TypeOK
  <2>1. ASSUME NEW r \in Requests, F!submit(r) PROVE FAlone'
    <3>1. r \notin finished
      BY <2>1 DEF FAlone, F!submit, F!Range, Range
    <3>2. Range(arrivals') = Range(arrivals) \cup {r} /\ finished' = finished
      BY <2>0, <2>1, RangeAppend DEF F!submit
    <3> QED
      BY <2>1, <3>1, <3>2, FSubmit DEF FAlone
  <2>2. ASSUME NEW r \in F!Range(served) \ finished, NEW b \in BOOLEAN, F!complete(r, b)
        PROVE  FAlone'
    <3>1. r \in Range(arrivals) /\ r \in Requests
      BY <2>0, <2>2 DEF F!Range, Range, FAlone, FInv, F!TypeOK
    <3>2. finished' = finished \cup {r} /\ arrivals' = arrivals
      BY <2>2 DEF F!complete
    <3> QED
      BY <2>2, <3>1, <3>2, FOther DEF FAlone
  <2>3. ASSUME NEW r \in Requests, F!cancel(r) PROVE FAlone'
    BY <2>3, FOther DEF FAlone, F!cancel
  <2>4. ASSUME NEW w \in Workers, F!Get(w) PROVE FAlone'
    BY ZenonT(30), <2>4, FGet DEF FAlone, F!Get
  <2>5. ASSUME NEW w \in Workers, F!Block(w) \/ F!GiveUp(w) PROVE FAlone'
    BY <2>5, FOther DEF FAlone, F!Block, F!GiveUp
  <2>6. CASE UNCHANGED F!fvars
    BY <2>6, FOther DEF FAlone, fvars, F!fvars
  <2> QED
    BY <2>1, <2>2, <2>3, <2>4, <2>5, <2>6 DEF F!Next
<1> QED
  BY <1>1, <1>2, PTL DEF F!Spec

(* The FCFS scheduler on its own loses no wake-up: while a worker sleeps   *)
(* in Queue.get(), as many are woken in it as requests are queued.         *)
THEOREM FCFSWakeupsKept == F!Spec => []F!NoSleeperWhileQueued
<1>1. F!Init => F!NoSleeperWhileQueued
  BY DEF F!Init, F!NoSleeperWhileQueued
<1>2. [F!Next]_(F!fvars) => FMove
  BY DEF F!Next, F!fvars, FMove, F!complete, F!cancel
<1>3. FAlone => FTypes
  BY DEF FAlone, FInv, F!TypeOK, FTypes
<1> QED
  BY <1>1, <1>2, <1>3, FMoveNoSleeper, FAloneInvariance, PTL DEF F!Spec

(* The FCFS scheduler on its own is first-in first-out: it implements the  *)
(* abstract request queue with arrival numbers for keys, as the priority   *)
(* queue implements it with predicted lengths.                             *)
THEOREM FCFSRefinement == F!Spec => A!Spec
<1>1. [F!Next]_(F!fvars) => FServe
  BY ZenonT(30) DEF F!Next, F!fvars, FServe, F!complete, F!cancel, F!Block, F!GiveUp
<1>2. FAlone => FInv
  BY DEF FAlone
<1> QED
  BY <1>1, <1>2, FInitAbstract, FServeAbstract, FAloneInvariance, PTL DEF F!Spec, A!Spec

-----------------------------------------------------------------------------
(* The scheduler over the two queues. *)
STypes ==
  /\ spending \subseteq Requests
  /\ use_fallback \in BOOLEAN /\ agingTask \in BOOLEAN
  /\ sstats \in [scheduled : Nat, completed : Nat, errors : Nat]
  /\ completions \in [Requests -> Nat]

(* A request is in one queue at most, and completed only as often as it    *)
(* was acquired.                                                           *)
OneQueue ==
  /\ finished \subseteq Known
  /\ submitted \cap Range(arrivals) = {}
  /\ \A r \in Requests : completions[r] <= Acquired(r)

SInv == STypes /\ FInv /\ OneQueue /\ AgingSeesQueue

(* The facts about the queue that the scheduler's invariant rests on. *)
QSafe ==
  /\ cancelled \subseteq Q!Ids(pending)
  /\ Q!Ids(pending) \subseteq submitted
  /\ pending \subseteq heap
  /\ dispatched \in [Requests -> Nat]
  /\ \A r \in Requests : dispatched[r] > 0 => r \in submitted \ Q!Ids(pending)
  /\ heap \subseteq Q!Item /\ pending \subseteq Q!Item

LEMMA ServedArrived == FInv => Range(served) \subseteq Range(arrivals)
BY RangeConcatenation DEF FInv, F!FirstComeFirstServed, F!TypeOK

LEMMA SubmitSInv ==
  ASSUME SInv, QSafe, NEW r \in Requests, NEW p \in Prios, NEW b \in BOOLEAN, submit(r, p, b)
  PROVE  SInv'
<1>1. STypes'
  <2>1. sstats' \in [scheduled : Nat, completed : Nat, errors : Nat]
    BY DEF SInv, STypes, submit
  <2> QED
    BY <2>1, FallbackAssumption DEF SInv, STypes, submit, FallbackAssumption
<1>2. r \notin finished /\ r \notin submitted /\ r \notin Range(arrivals)
  BY DEF SInv, OneQueue, submit, Known
<1>3. UNCHANGED <<served, dispatched, completions, finished, cancelled>>
  BY DEF submit, F!submit, Q!enqueue, qvars, fvars
<1>4. CASE F!submit(r) /\ UNCHANGED <<qvars, spending>>
  <2>1. FInv'
    BY <1>2, <1>4, FSubmit DEF SInv
  <2>2. Range(arrivals') = Range(arrivals) \cup {r}
    BY <1>4, RangeAppend DEF SInv, FInv, F!TypeOK, F!submit
  <2>3. OneQueue'
    BY <1>2, <1>3, <1>4, <2>2 DEF SInv, OneQueue, Known, Acquired, qvars
  <2>4. AgingSeesQueue'
    BY <1>3, <1>4 DEF SInv, AgingSeesQueue, Acquired, qvars, Q!Ids
  <2> QED
    BY <1>1, <2>1, <2>3, <2>4 DEF SInv
<1>5. CASE Q!enqueue(r, p) /\ spending' = spending \cup {r} /\ UNCHANGED fvars
  <2>1. FInv'
    BY <1>5, FOther DEF SInv
  <2>2. submitted' = submitted \cup {r} /\ UNCHANGED arrivals
    BY <1>5 DEF Q!enqueue, fvars
  <2>3. OneQueue'
    BY <1>2, <1>3, <2>2 DEF SInv, OneQueue, Known, Acquired
  <2>4. Q!Ids(pending') = Q!Ids(pending) \cup {r}
    <3>1. PICK item : item.rid = r /\ pending' = pending \cup {item}
      BY Zenon, <1>5 DEF Q!enqueue
    <3> QED
      BY <3>1 DEF Q!Ids
  <2>5. r \notin cancelled
    BY <1>2 DEF QSafe
  <2>6. AgingSeesQueue'
    BY <1>3, <1>5, <2>4, <2>5 DEF SInv, AgingSeesQueue, Acquired, Q!Ids
  <2> QED
    BY <1>1, <2>1, <2>3, <2>6 DEF SInv
<1> QED
  BY <1>4, <1>5 DEF submit

LEMMA TakeSInv ==
  ASSUME SInv, QSafe, NEW w \in Workers, Q!Take(w), UNCHANGED <<fvars, svars>>
  PROVE  SInv'
<1>1. STypes' /\ FInv'
  BY FOther DEF SInv, STypes, svars
<1>2. PICK item \in heap, skipped \in SUBSET heap :
        /\ \A i \in skipped : i.rid \in cancelled
        /\ pending' = Q!Without(pending, Q!Ids(skipped \cup {item}))
        /\ cancelled' = cancelled \ Q!Ids(skipped)
        /\ dispatched' = [dispatched EXCEPT ![item.rid] = @ + 1]
        /\ submitted' = submitted
  <2>1. PICK item \in Q!Servable :
          LET skipped == {i \in Q!Skipped : Q!Before(i, item)}
          IN  /\ pending' = Q!Without(pending, Q!Ids(skipped \cup {item}))
              /\ Q!Discard(skipped, 1)
              /\ dispatched' = [dispatched EXCEPT ![item.rid] = @ + 1]
    BY Zenon DEF Q!Take
  <2>2. item \in heap /\ submitted' = submitted
    BY <2>1 DEF Q!Servable, Q!Take
  <2>3. \A i \in Q!Skipped : i \in heap /\ i.rid \in cancelled
    BY DEF Q!Skipped
  <2> DEFINE skipped == {i \in Q!Skipped : Q!Before(i, item)}
  <2>4. skipped \in SUBSET heap /\ \A i \in skipped : i.rid \in cancelled
    BY <2>3
  <2>5. /\ pending' = Q!Without(pending, Q!Ids(skipped \cup {item}))
        /\ cancelled' = cancelled \ Q!Ids(skipped)
    BY <2>1 DEF Q!Discard
  <2> HIDE DEF skipped
  <2> QED
    BY Zenon, <2>1, <2>2, <2>4, <2>5
<1>3. item.rid \in Requests /\ dispatched \in [Requests -> Nat]
  BY DEF QSafe, Q!Item
<1>4. \A r \in Requests : dispatched'[r] = IF r = item.rid THEN dispatched[r] + 1 ELSE dispatched[r]
  BY <1>2, <1>3
<1>5. \A r \in Requests :
        /\ Acquired(r)' >= Acquired(r) /\ Acquired(r) \in Nat /\ Acquired(r)' \in Nat
        /\ r = item.rid => Acquired(r)' > Acquired(r)
  BY <1>3, <1>4 DEF Acquired, fvars
<1>6. OneQueue'
  BY <1>1, <1>2, <1>5 DEF SInv, OneQueue, STypes, Known, fvars, svars
<1>7. Q!Ids(pending') = Q!Ids(pending) \ (Q!Ids(skipped) \cup {item.rid})
  BY <1>2 DEF Q!Without, Q!Ids
<1>8. Q!Ids(skipped) \subseteq cancelled
  BY <1>2 DEF Q!Ids
<1>9. Q!Ids(pending') \ cancelled' \subseteq spending'
  BY ZenonT(30), <1>2, <1>7 DEF SInv, AgingSeesQueue, svars
<1>10. ASSUME NEW r \in spending'
       PROVE  r \in Q!Ids(pending') \ cancelled' \/ completions'[r] < Acquired(r)'
  <2>1. r \in spending /\ r \in Requests /\ completions'[r] = completions[r] /\ completions[r] \in Nat
    BY <1>10 DEF SInv, STypes, svars
  <2>2. CASE r = item.rid
    <3>1. completions[r] <= Acquired(r)
      BY <2>1 DEF SInv, OneQueue
    <3> QED
      BY <1>5, <2>1, <2>2, <3>1
  <2>4. CASE r # item.rid /\ r \in Q!Ids(pending) \ cancelled
    BY ZenonT(30), <1>2, <1>7, <1>8, <2>4
  <2>3. CASE completions[r] < Acquired(r)
    BY <1>5, <2>1, <2>3
  <2> QED
    BY <2>1, <2>2, <2>3, <2>4 DEF SInv, AgingSeesQueue
<1> QED
  BY <1>1, <1>6, <1>9, <1>10 DEF SInv, AgingSeesQueue

LEMMA ParkSInv ==
  ASSUME SInv, QSafe, NEW w \in Workers, Q!Park(w) \/ Q!Expire(w), UNCHANGED <<fvars, svars>>
  PROVE  SInv'
<1>1. STypes' /\ FInv'
  BY FOther DEF SInv, STypes, svars
<1>2. OneQueue'
  BY DEF SInv, OneQueue, Known, Acquired, fvars, svars, Q!Park, Q!Expire
<1>3. CASE Q!Expire(w)
  <2>1. AgingSeesQueue'
    BY <1>3 DEF SInv, AgingSeesQueue, Acquired, fvars, svars, Q!Expire, Q!Ids
  <2> QED
    BY <1>1, <1>2, <2>1 DEF SInv
<1>4. CASE Q!Park(w)
  <2>1. \A i \in heap : i.rid \in cancelled
    BY <1>4 DEF Q!Park, Q!Servable, Q!Skipped
  <2>2. Q!Ids(pending) \subseteq cancelled /\ pending' = {}
    BY <1>4, <2>1 DEF QSafe, Q!Park, Q!Without, Q!Ids
  <2>3. UNCHANGED dispatched
    BY <1>4 DEF Q!Park
  <2>4. AgingSeesQueue'
    BY <2>2, <2>3 DEF SInv, AgingSeesQueue, Acquired, fvars, svars, Q!Ids
  <2> QED
    BY <1>1, <1>2, <2>4 DEF SInv
<1> QED
  BY <1>3, <1>4

LEMMA CompleteSInv ==
  ASSUME SInv, QSafe, NEW r \in Requests, NEW b \in BOOLEAN, complete(r, b)
  PROVE  SInv'
<1>1. UNCHANGED <<qvars, arrivals, served>> /\ completions[r] < Acquired(r)
      /\ completions' = [completions EXCEPT ![r] = @ + 1] /\ spending' = spending \ {r}
  BY DEF complete, F!complete, fvars, ForgetSpending
<1>2. STypes'
  <2>1. sstats' \in [scheduled : Nat, completed : Nat, errors : Nat]
    <3>1. \/ sstats' = [scheduled |-> sstats.scheduled, completed |-> sstats.completed + 1,
                        errors |-> sstats.errors]
          \/ sstats' = [scheduled |-> sstats.scheduled, completed |-> sstats.completed,
                        errors |-> sstats.errors + 1]
      BY DEF complete, SInv, STypes
    <3> QED
      BY <3>1 DEF SInv, STypes
  <2>2. UNCHANGED <<use_fallback, agingTask>>
    BY DEF complete
  <2> QED
    BY <1>1, <2>1, <2>2 DEF SInv, STypes
<1>3. FInv'
  <2>1. F!complete(r, b) \/ UNCHANGED fvars
    BY DEF complete
  <2> QED
    BY <2>1, FOther DEF SInv
<1>4. \A q \in Requests : Acquired(q)' = Acquired(q) /\ Acquired(q) \in Nat /\ completions[q] \in Nat
  <2>1. UNCHANGED <<served, dispatched>> /\ dispatched \in [Requests -> Nat]
    BY <1>1 DEF QSafe, qvars
  <2>2. completions \in [Requests -> Nat]
    BY DEF SInv, STypes
  <2> QED
    BY <2>1, <2>2 DEF Acquired
<1>5. /\ r \in Known /\ r \notin Q!Ids(pending)
  <2>1. r \in Range(arrivals) \/ dispatched[r] > 0
    BY <1>1, <1>4, ServedArrived DEF QSafe, SInv, Acquired
  <2>2. Range(arrivals) \cap Q!Ids(pending) = {}
    BY DEF QSafe, SInv, OneQueue
  <2> QED
    BY <2>1, <2>2 DEF QSafe, Known
<1>6. OneQueue'
  <2>1. finished' \subseteq finished \cup {r}
    BY DEF complete, F!complete, fvars
  <2>2. \A q \in Requests : completions'[q] <= Acquired(q)'
    BY <1>1, <1>4 DEF SInv, STypes, OneQueue
  <2> QED
    BY <1>1, <1>5, <2>1, <2>2 DEF SInv, OneQueue, Known, qvars
<1>7. AgingSeesQueue'
  <2>1. UNCHANGED Q!Ids(pending) /\ UNCHANGED cancelled
    BY <1>1 DEF qvars, Q!Ids
  <2>2. \A q \in spending' : q \in spending /\ q \in Requests /\ completions'[q] = completions[q]
    BY <1>1 DEF SInv, STypes
  <2> QED
    BY <1>1, <1>4, <1>5, <2>1, <2>2 DEF SInv, AgingSeesQueue
<1> QED
  BY <1>2, <1>3, <1>6, <1>7 DEF SInv

LEMMA CancelSInv ==
  ASSUME SInv, QSafe, NEW r \in Requests, cancel(r)
  PROVE  SInv'
<1>1. /\ spending' = spending \ {r}
      /\ UNCHANGED <<use_fallback, agingTask, sstats, completions, pending, submitted, dispatched,
                     arrivals, served, finished>>
      /\ cancelled' = cancelled \cup {r} \/ (r \notin Q!Ids(pending) /\ cancelled' = cancelled)
  BY DEF cancel, ForgetSpending, Q!cancel, F!cancel, qvars, fvars
<1>2. STypes'
  BY <1>1 DEF SInv, STypes
<1>3. FInv'
  <2>1. F!cancel(r) \/ UNCHANGED fvars
    BY DEF cancel
  <2> QED
    BY <2>1, FOther DEF SInv
<1>4. OneQueue'
  BY <1>1 DEF SInv, OneQueue, Known, Acquired
<1>5. AgingSeesQueue'
  BY <1>1 DEF SInv, AgingSeesQueue, Acquired, Q!Ids
<1> QED
  BY <1>2, <1>3, <1>4, <1>5 DEF SInv

LEMMA BoostSInv ==
  ASSUME SInv, QSafe, NEW r \in Requests, Boost(r)
  PROVE  SInv'
<1>1. STypes' /\ FInv'
  BY FOther DEF SInv, STypes, Boost, svars
<1>2. /\ UNCHANGED <<submitted, dispatched, fvars, svars>>
      /\ cancelled' = cancelled \ {r} /\ r \in spending
  BY DEF Boost, Q!update_priority, Q!Unmark
<1>3. r \in Q!Ids(pending) /\ Q!Ids(pending') = Q!Ids(pending)
  <2>1. PICK p \in Prios, item \in pending :
          item.rid = r /\ pending' = (pending \ {item}) \cup {[item EXCEPT !.prio = p]}
    BY DEF Boost, Q!update_priority
  <2>2. [item EXCEPT !.prio = p].rid = r
    BY <2>1 DEF QSafe, Q!Item
  <2> QED
    BY Zenon, <2>1, <2>2 DEF Q!Ids
<1>4. OneQueue'
  BY <1>2 DEF SInv, OneQueue, Known, Acquired, fvars, svars
<1>5. AgingSeesQueue'
  BY <1>2, <1>3 DEF SInv, AgingSeesQueue, Acquired, fvars, svars
<1> QED
  BY <1>1, <1>4, <1>5 DEF SInv

LEMMA FallbackSInv ==
  ASSUME SInv, QSafe, NEW w \in Workers, F!Get(w) \/ F!Block(w) \/ F!GiveUp(w),
         UNCHANGED <<qvars, svars>>
  PROVE  SInv'
<1>1. STypes' /\ FInv'
  BY FGet, FOther DEF SInv, STypes, svars
<1>2. Range(served) \subseteq Range(served') /\ UNCHANGED <<arrivals, finished>>
  <2>1. CASE F!Get(w)
    BY <2>1, RangeAppend DEF F!Get, SInv, FInv, F!TypeOK
  <2>2. CASE F!Block(w) \/ F!GiveUp(w)
    BY <2>2 DEF F!Block, F!GiveUp
  <2> QED
    BY <2>1, <2>2
<1>3. \A q \in Requests : Acquired(q)' >= Acquired(q) /\ Acquired(q) \in Nat
                          /\ Acquired(q)' \in Nat /\ completions[q] \in Nat
  BY <1>2 DEF QSafe, Acquired, qvars, SInv, STypes
<1>4. OneQueue'
  BY <1>2, <1>3 DEF SInv, OneQueue, Known, qvars, svars
<1>5. AgingSeesQueue'
  <2>1. \A q \in spending : q \in Requests
    BY DEF SInv, STypes
  <2>2. UNCHANGED <<Q!Ids(pending), cancelled, spending, completions>>
    BY DEF qvars, svars, Q!Ids
  <2> QED
    BY <1>3, <2>1, <2>2 DEF SInv, AgingSeesQueue
<1> QED
  BY <1>1, <1>4, <1>5 DEF SInv

LEMMA InitSInv == Init => SInv
<1> SUFFICES ASSUME Init PROVE SInv
  OBVIOUS
<1>1. STypes
  BY Zenon DEF Init, STypes
<1>2. Range(arrivals) = {} /\ Range(served) = {}
  BY DEF Init, F!Init, Range
<1>3. F!TypeOK /\ F!FirstComeFirstServed
  BY DEF Init, F!Init, F!TypeOK, F!FirstComeFirstServed
<1>4. FInv
  BY ZenonT(30), <1>2, <1>3, FS_EmptySet DEF Init, F!Init, FInv, F!PendingTracks, F!Range, Range
<1>5. OneQueue /\ AgingSeesQueue
  BY <1>2 DEF Init, Q!Init, F!Init, OneQueue, AgingSeesQueue, Known, Acquired, Q!Ids
<1> QED
  BY <1>1, <1>4, <1>5 DEF SInv

LEMMA NextSInv == SInv /\ QSafe /\ [Next]_vars => SInv'
<1> SUFFICES ASSUME SInv, QSafe, [Next]_vars PROVE SInv'
  OBVIOUS
<1>1. ASSUME NEW w \in Workers, acquire(w) PROVE SInv'
  BY <1>1, TakeSInv, ParkSInv, FallbackSInv DEF acquire
<1>2. ASSUME NEW w \in Workers, TimeOut(w) PROVE SInv'
  BY <1>2, ParkSInv, FallbackSInv DEF TimeOut
<1>3. CASE start \/ stop \/ UNCHANGED vars
  <2>1. UNCHANGED <<qvars, fvars, spending, use_fallback, sstats, completions>>
        /\ (agingTask' \in BOOLEAN \/ agingTask' = agingTask)
    BY ZenonT(30), <1>3 DEF start, stop, vars, svars
  <2>2. STypes' /\ FInv'
    BY <2>1, FOther DEF SInv, STypes
  <2>3. OneQueue' /\ AgingSeesQueue'
    BY <2>1 DEF SInv, OneQueue, AgingSeesQueue, Known, Acquired, Q!Ids, qvars, fvars
  <2> QED
    BY <2>2, <2>3 DEF SInv
<1>4. ASSUME NEW r \in Requests, Overdue(r) PROVE SInv'
  BY <1>4, CancelSInv DEF Overdue
<1> QED
  BY <1>1, <1>2, <1>3, <1>4, SubmitSInv, CompleteSInv, CancelSInv, BoostSInv
     DEF Next, PatientNext

-----------------------------------------------------------------------------
(* What a step of the scheduler is to the fallback. *)
LEMMA FallbackStep == [Next]_vars => FMove /\ FServe
<1> SUFFICES ASSUME [Next]_vars PROVE FMove /\ FServe
  OBVIOUS
<1>1. ASSUME NEW r \in Requests, NEW b \in BOOLEAN, complete(r, b)
      PROVE  UNCHANGED <<fifo, gstate, served>>
  BY <1>1 DEF complete, F!complete, fvars
<1>2. ASSUME NEW r \in Requests, cancel(r) \/ Overdue(r) \/ Boost(r)
      PROVE  UNCHANGED <<fifo, gstate, served>>
  BY <1>2 DEF Overdue, cancel, Boost, F!cancel, fvars
<1>3. CASE start \/ stop \/ UNCHANGED vars
  BY <1>3 DEF start, stop, vars, fvars, FMove, FServe
<1>4. ASSUME NEW r \in Requests, NEW p \in Prios, NEW b \in BOOLEAN, submit(r, p, b)
      PROVE  F!submit(r) \/ UNCHANGED <<fifo, gstate, served>>
  BY <1>4 DEF submit, fvars
<1>5. ASSUME NEW w \in Workers, acquire(w) \/ TimeOut(w)
      PROVE  F!Get(w) \/ F!Block(w) \/ F!GiveUp(w) \/ UNCHANGED <<fifo, gstate, served>>
  BY <1>5 DEF acquire, TimeOut, fvars
<1>6. ASSUME NEW w \in Workers, F!Block(w) \/ F!GiveUp(w) PROVE UNCHANGED <<fifo, served>>
  BY <1>6 DEF F!Block, F!GiveUp
<1> QED
  BY <1>1, <1>2, <1>3, <1>4, <1>5, <1>6 DEF Next, PatientNext, FMove, FServe

LEMMA NextNoSleeper == SInv /\ NoSleeperWhileQueued /\ [Next]_vars => NoSleeperWhileQueued'
<1>1. SInv => FTypes
  BY DEF SInv, FInv, F!TypeOK, FTypes
<1> QED
  BY <1>1, FMoveNoSleeper, FallbackStep DEF NoSleeperWhileQueued

-----------------------------------------------------------------------------
(* Where the workers sit. *)
Seats ==
  /\ \A w \in Workers : ~InQueue(w) \/ ~InFallback(w)
  /\ use_fallback \/ \A w \in Workers : ~InFallback(w)

(* Neither queue moves a worker into it that does not call it. *)
LEMMA QueueSeats ==
  ASSUME wstate \in [Workers -> {"ready", "waiting", "notified"}], NEW v \in Workers
  PROVE  /\ \A r, p : Q!enqueue(r, p) \/ Q!update_priority(r, p) =>
              (wstate[v] = "ready" => wstate'[v] = "ready")
         /\ \A w \in Workers \ {v} : Q!Take(w) \/ Q!Park(w) =>
              (wstate[v] = "ready" => wstate'[v] = "ready")
         /\ \A w \in Workers : Q!Expire(w) => (wstate[v] = "ready" => wstate'[v] = "ready")
<1>1. ASSUME NEW ws \in [Workers -> {"ready", "waiting", "notified"}], NEW next \in Q!Notify(ws),
             ws[v] = "ready"
      PROVE  next[v] = "ready"
  BY <1>1 DEF Q!Notify
<1>2. ASSUME NEW r, NEW p, Q!enqueue(r, p) \/ Q!update_priority(r, p) PROVE wstate' \in Q!Notify(wstate)
  BY <1>2 DEF Q!enqueue, Q!update_priority, Q!Announce
<1>3. ASSUME NEW w \in Workers \ {v}, Q!Take(w) \/ Q!Park(w) PROVE wstate'[v] = wstate[v]
  <2>1. PICK s : wstate' = [wstate EXCEPT ![w] = s]
    BY <1>3 DEF Q!Take, Q!Park
  <2> QED
    BY <2>1
<1>4. ASSUME NEW w \in Workers, Q!Expire(w), wstate[v] = "ready" PROVE wstate'[v] = "ready"
  <2> DEFINE back == [wstate EXCEPT ![w] = "ready"]
  <2>1. back \in [Workers -> {"ready", "waiting", "notified"}] /\ back[v] = "ready"
    BY <1>4
  <2>2. wstate' = back \/ wstate' \in Q!Notify(back)
    BY <1>4 DEF Q!Expire
  <2> HIDE DEF back
  <2> QED
    BY <1>1, <2>1, <2>2
<1> QED
  BY <1>1, <1>2, <1>3, <1>4

LEMMA FallbackSeats ==
  ASSUME gstate \in [Workers -> {"ready", "waiting", "woken"}], NEW v \in Workers
  PROVE  /\ \A r : F!submit(r) => (gstate[v] = "ready" => gstate'[v] = "ready")
         /\ \A w \in Workers \ {v} : F!Get(w) \/ F!Block(w) =>
              (gstate[v] = "ready" => gstate'[v] = "ready")
         /\ \A w \in Workers : F!GiveUp(w) => (gstate[v] = "ready" => gstate'[v] = "ready")
<1>1. ASSUME NEW gs \in [Workers -> {"ready", "waiting", "woken"}], NEW next \in F!Wakeup(gs),
             gs[v] = "ready"
      PROVE  next[v] = "ready"
  BY <1>1 DEF F!Wakeup
<1>2. ASSUME NEW r, F!submit(r) PROVE gstate' \in F!Wakeup(gstate)
  BY <1>2 DEF F!submit
<1>3. ASSUME NEW w \in Workers \ {v}, F!Get(w) \/ F!Block(w) PROVE gstate'[v] = gstate[v]
  <2>1. PICK s : gstate' = [gstate EXCEPT ![w] = s]
    BY <1>3 DEF F!Get, F!Block
  <2> QED
    BY <2>1
<1>4. ASSUME NEW w \in Workers, F!GiveUp(w), gstate[v] = "ready" PROVE gstate'[v] = "ready"
  <2> DEFINE back == [gstate EXCEPT ![w] = "ready"]
  <2>1. back \in [Workers -> {"ready", "waiting", "woken"}] /\ back[v] = "ready"
    BY <1>4
  <2>2. gstate' = back \/ gstate' \in F!Wakeup(back)
    BY <1>4 DEF F!GiveUp, F!HandOn
  <2> HIDE DEF back
  <2> QED
    BY <1>1, <2>1, <2>2
<1> QED
  BY <1>1, <1>2, <1>3, <1>4

LEMMA NextSeats ==
  ASSUME wstate \in [Workers -> {"ready", "waiting", "notified"}],
         gstate \in [Workers -> {"ready", "waiting", "woken"}],
         Seats, [Next]_vars
  PROVE  Seats'
<1> DEFINE Same(v) == /\ wstate[v] = "ready" => wstate'[v] = "ready"
                      /\ gstate[v] = "ready" => gstate'[v] = "ready"
<1>1. ASSUME \A v \in Workers : Same(v), use_fallback' = use_fallback \/ (use_fallback' = TRUE)
      PROVE  Seats'
  BY <1>1 DEF Seats, InQueue, InFallback
<1>2. ASSUME NEW r \in Requests, NEW p \in Prios, NEW b \in BOOLEAN, submit(r, p, b) PROVE Seats'
  <2>1. CASE use_fallback' /\ F!submit(r) /\ UNCHANGED qvars
    <3>1. \A v \in Workers : Same(v)
      BY <2>1, FallbackSeats DEF qvars
    <3> QED
      BY <2>1, <3>1 DEF Seats, InQueue, InFallback
  <2>2. CASE ~use_fallback' /\ Q!enqueue(r, p) /\ UNCHANGED fvars
    <3>1. \A v \in Workers : Same(v)
      BY <2>2, QueueSeats DEF fvars
    <3>2. ~use_fallback
      BY ZenonT(30), <1>2, <2>2 DEF submit
    <3> QED
      BY <3>1, <3>2 DEF Seats, InQueue, InFallback
  <2> QED
    BY <1>2, <2>1, <2>2 DEF submit
<1>3. ASSUME NEW w \in Workers, acquire(w) PROVE Seats'
  <2>0. use_fallback' = use_fallback
    BY <1>3 DEF acquire, svars
  <2>1. CASE (InQueue(w) \/ (~Switched /\ ~InFallback(w))) /\ (Q!Take(w) \/ Q!Park(w)) /\ UNCHANGED fvars
    <3>1. gstate[w] = "ready" /\ gstate' = gstate
      BY <2>1 DEF Seats, InQueue, InFallback, fvars
    <3>2. \A v \in Workers \ {w} : wstate[v] = "ready" => wstate'[v] = "ready"
      BY <2>1, QueueSeats
    <3> QED
      BY <2>0, <3>1, <3>2 DEF Seats, InQueue, InFallback
  <2>2. CASE (InFallback(w) \/ (Switched /\ ~InQueue(w))) /\ (F!Get(w) \/ F!Block(w)) /\ UNCHANGED qvars
    <3>1. wstate[w] = "ready" /\ wstate' = wstate /\ use_fallback
      BY <2>2 DEF Seats, InQueue, InFallback, Switched, qvars
    <3>2. \A v \in Workers \ {w} : gstate[v] = "ready" => gstate'[v] = "ready"
      BY <2>2, FallbackSeats
    <3> QED
      BY <2>0, <3>1, <3>2 DEF Seats, InQueue, InFallback
  <2> QED
    BY <1>3, <2>1, <2>2 DEF acquire
<1>4. ASSUME NEW w \in Workers, TimeOut(w) PROVE Seats'
  <2>1. use_fallback' = use_fallback
    BY <1>4 DEF TimeOut, svars
  <2>2. \A v \in Workers : Same(v)
    BY <1>4, QueueSeats, FallbackSeats DEF TimeOut, qvars, fvars
  <2> QED
    BY <1>1, <2>1, <2>2
<1>5. ASSUME NEW r \in Requests, Boost(r) PROVE Seats'
  <2>1. use_fallback' = use_fallback
    BY <1>5 DEF Boost, svars
  <2>2. \A v \in Workers : Same(v)
    BY <1>5, QueueSeats DEF Boost, fvars
  <2> QED
    BY <1>1, <2>1, <2>2
<1>6. ASSUME UNCHANGED <<wstate, gstate, use_fallback>> PROVE Seats'
  BY <1>6 DEF Seats, InQueue, InFallback
<1>7. ASSUME NEW r \in Requests, NEW b \in BOOLEAN, complete(r, b) \/ cancel(r) \/ Overdue(r)
      PROVE  UNCHANGED <<wstate, gstate, use_fallback>>
  BY <1>7 DEF complete, cancel, Overdue, F!complete, F!cancel, Q!cancel, qvars, fvars
<1>8. CASE start \/ stop \/ UNCHANGED vars
  <2>1. UNCHANGED <<wstate, gstate, use_fallback>>
    BY <1>8 DEF start, stop, vars, qvars, fvars, svars
  <2> QED
    BY <1>6, <2>1
<1> QED
  BY ZenonT(30), <1>2, <1>3, <1>4, <1>5, <1>6, <1>7, <1>8 DEF Next, PatientNext

-----------------------------------------------------------------------------
(* What follows from the scheduler's own invariant alone. *)

(* Requests the scheduler has seen. *)
Accounted ==
  \A r \in Known : Acquired(r) > 0 \/ r \in Q!Ids(pending) \cup Range(fifo) \cup acked

(* Requests it has not. *)
Fresh ==
  /\ completions \in [Requests -> Nat] /\ arrivals \in Seq(Requests)
  /\ \A r \in Requests \ Known : Acquired(r) = 0 /\ completions[r] = 0

LEMMA BooksAccounted ==
  ASSUME SInv, QSafe, submitted \subseteq Requests,
         \A r \in submitted : r \in Q!Ids(pending) \/ dispatched[r] > 0 \/ r \in acked
  PROVE  Accounted /\ Fresh
<1>1. /\ Range(arrivals) = Range(served) \cup Range(fifo) /\ Known \subseteq Requests
      /\ arrivals \in Seq(Requests) /\ completions \in [Requests -> Nat]
  <2>1. Range(arrivals) = Range(served) \cup Range(fifo)
    BY RangeConcatenation DEF SInv, FInv, F!FirstComeFirstServed, F!TypeOK
  <2>2. arrivals \in Seq(Requests) /\ completions \in [Requests -> Nat]
    BY DEF SInv, FInv, F!TypeOK, STypes
  <2>3. Range(arrivals) \subseteq Requests
    BY <2>2 DEF Range
  <2> QED
    BY <2>1, <2>2, <2>3 DEF Known
<1>2. dispatched \in [Requests -> Nat] /\ \A r \in Requests : dispatched[r] > 0 => r \in submitted
  BY DEF QSafe
<1>3. Accounted
  BY <1>1, <1>2 DEF Accounted, Acquired, Known
<1>4. Fresh
  BY <1>1, <1>2 DEF Fresh, Acquired, Known, SInv, OneQueue
<1> QED
  BY <1>3, <1>4

(* With every worker asleep in acquire(). *)
Attended ==
  (\A w \in Workers : "waiting" \in {wstate[w], gstate[w]}) =>
    /\ heap = {} \/ use_fallback
    /\ fifo = <<>> \/ \E w \in Workers : wstate[w] = "waiting"

LEMMA SeatsAttended ==
  ASSUME Workers # {}, Seats, NoLostWakeup, NoSleeperWhileQueued, IsFiniteSet(heap),
         fifo \in Seq(Requests)
  PROVE  Attended
<1> SUFFICES ASSUME \A w \in Workers : "waiting" \in {wstate[w], gstate[w]}
             PROVE  /\ heap = {} \/ use_fallback
                    /\ fifo = <<>> \/ \E w \in Workers : wstate[w] = "waiting"
  BY DEF Attended
<1>0. PICK v \in Workers : TRUE
  OBVIOUS
<1>1. CASE ~use_fallback
  <2>1. \A w \in Workers : wstate[w] = "waiting"
    BY <1>1 DEF Seats, InQueue, InFallback
  <2>2. {w \in Workers : wstate[w] # "waiting"} = {}
    BY <2>1
  <2>3. Cardinality(heap) <= Cardinality({w \in Workers : wstate[w] # "waiting"})
    BY <1>0, <2>1 DEF NoLostWakeup, Q!NoLostWakeup, Q!Cardinality, Cardinality
  <2>5. Cardinality(heap) <= 0 /\ Cardinality(heap) \in Nat
    BY ZenonT(30), <2>2, <2>3, FS_EmptySet, FS_CardinalityType
  <2>6. heap = {}
    BY <2>5, FS_EmptySet
  <2> QED
    BY <1>0, <2>1, <2>6
<1>2. CASE \A w \in Workers : gstate[w] = "waiting"
  <2>1. {w \in Workers : gstate[w] = "woken"} = {}
    BY <1>2
  <2>2. Len(fifo) <= Cardinality({w \in Workers : gstate[w] = "woken"})
    BY <1>0, <1>2 DEF NoSleeperWhileQueued, F!NoSleeperWhileQueued, F!Cardinality, Cardinality
  <2>4. Len(fifo) <= 0
    BY ZenonT(30), <2>1, <2>2, FS_EmptySet
  <2>5. fifo = <<>>
    BY <2>4
  <2>6. use_fallback
    BY <1>0, <1>2 DEF Seats, InQueue, InFallback
  <2> QED
    BY <2>5, <2>6
<1> QED
  BY <1>1, <1>2

(* The workers are cancelled wherever they are, and aging stops. *)
Halt ==
  /\ agingTask' = FALSE
  /\ wstate' = [w \in Workers |-> "ready"] /\ gstate' = [w \in Workers |-> "ready"]
  /\ UNCHANGED <<heap, pending, cancelled, stats, waits, submitted, acked, dropped,
                 dispatched, fifo, fpending, fstats, arrivals, served, facked, finished,
                 spending, use_fallback, sstats, completions>>

LEMMA HaltSInv ==
  SInv /\ Halt => SInv' /\ NoLostWakeup' /\ NoSleeperWhileQueued' /\ Seats'
<1> SUFFICES ASSUME SInv, Halt PROVE SInv' /\ NoLostWakeup' /\ NoSleeperWhileQueued' /\ Seats'
  OBVIOUS
<1>1. STypes' /\ F!TypeOK'
  BY ZenonT(30) DEF SInv, STypes, FInv, F!TypeOK, Halt
<1>2. FInv' /\ OneQueue' /\ AgingSeesQueue'
  <2>1. FInv'
    BY ZenonT(30), <1>1 DEF SInv, FInv, F!PendingTracks, F!FirstComeFirstServed, F!Range,
                            Range, Halt
  <2>2. OneQueue'
    BY ZenonT(30) DEF SInv, OneQueue, Known, Acquired, Range, Halt
  <2>3. AgingSeesQueue'
    BY ZenonT(30) DEF SInv, AgingSeesQueue, Acquired, Range, Q!Ids, Halt
  <2> QED
    BY <2>1, <2>2, <2>3
<1>3. NoLostWakeup' /\ NoSleeperWhileQueued' /\ Seats'
  BY DEF NoLostWakeup, Q!NoLostWakeup, NoSleeperWhileQueued, F!NoSleeperWhileQueued, Seats,
         InQueue, InFallback, Halt
<1> QED
  BY <1>1, <1>2, <1>3 DEF SInv

(* Whatever the scheduler does is a step of its priority queue or leaves   *)
(* the queue alone.                                                        *)
LEMMA QueueMove == [Next]_vars => Q!Next \/ UNCHANGED qvars
<1> SUFFICES ASSUME [Next]_vars PROVE Q!Next \/ UNCHANGED qvars
  OBVIOUS
<1>1. ASSUME NEW r \in Requests, NEW p \in Prios, NEW b \in BOOLEAN, submit(r, p, b)
      PROVE  Q!Next \/ UNCHANGED qvars
  BY <1>1 DEF submit, Q!Next, Q!OracleNext
<1>2. ASSUME NEW w \in Workers, acquire(w) \/ TimeOut(w)
      PROVE  Q!Next \/ UNCHANGED qvars
  BY <1>2 DEF acquire, TimeOut, Q!Next, Q!OracleNext
<1>3. ASSUME NEW r \in Requests, NEW b \in BOOLEAN, complete(r, b)
      PROVE  Q!Next \/ UNCHANGED qvars
  BY <1>3 DEF complete
<1>4. ASSUME NEW r \in Requests, Boost(r) PROVE Q!Next \/ UNCHANGED qvars
  BY <1>4 DEF Boost, Q!Next
<1>5. ASSUME NEW r \in Requests, cancel(r) \/ Overdue(r) PROVE Q!Next \/ UNCHANGED qvars
  BY <1>5 DEF cancel, Overdue, Q!Next, Q!OracleNext
<1>6. CASE start \/ stop
  BY <1>6 DEF start, stop
<1>7. CASE UNCHANGED vars
  BY <1>7 DEF vars
<1> QED
  BY <1>1, <1>2, <1>3, <1>4, <1>5, <1>6, <1>7 DEF Next, PatientNext

-----------------------------------------------------------------------------
(* What is proved about the priority queue on its own. *)
P == INSTANCE PriorityQueueProofs WITH aged <- FALSE

-----------------------------------------------------------------------------
(* Two names for each operation of the queue. *)
LEMMA SameEnqueue ==
  ASSUME NEW r, NEW p
  PROVE  /\ Q!enqueue(r, p) => P!enqueue(r, p)
         /\ Q!update_priority(r, p) => P!update_priority(r, p)
         /\ Q!cancel(r) => P!cancel(r)
BY DEF Q!enqueue, P!enqueue, Q!Announce, P!Announce, Q!Notify, P!Notify, Q!update_priority,
       P!update_priority, Q!Lowers, P!Lowers, Q!Unmark, P!Unmark, Q!cancel, P!cancel, Q!Ids, P!Ids

LEMMA SameDequeue ==
  ASSUME NEW w
  PROVE  /\ Q!Take(w) => P!Take(w)
         /\ Q!Park(w) => P!Park(w)
         /\ Q!Expire(w) => P!Expire(w)
BY ZenonT(30) DEF Q!Take, P!Take, Q!Park, P!Park, Q!Expire, P!Expire, Q!Servable, P!Servable,
   Q!Skipped, P!Skipped, Q!Before, P!Before, Q!Pop, P!Pop, Q!Without, P!Without, Q!Ids, P!Ids,
   Q!Discard, P!Discard, Q!Truncate, P!Truncate, Q!Notify, P!Notify, Q!Cardinality, P!Cardinality

LEMMA QueueStep == [Next]_vars => [P!Next]_(P!vars)
<1>1. Q!Next => P!Next
  BY ZenonT(30), SameEnqueue, SameDequeue DEF Q!Next, P!Next, Q!OracleNext, P!OracleNext
<1> QED
  BY <1>1, QueueMove DEF qvars, P!vars

(* The scheduler is a user of python/scheduler/priority_queue.py like any  *)
(* other: its behaviours are behaviours of the queue.                      *)
THEOREM QueueComponent == Spec => P!Spec
<1>1. Init => P!Init
  BY DEF Init, Q!Init, P!Init
<1> QED
  BY <1>1, QueueStep, PTL DEF Spec, P!Spec

(* The workers that leave the priority queue for the fallback, and time    *)
(* out in both, lose no wake-up of the priority queue.                     *)
THEOREM QueueWakeupsKept == Spec => []NoLostWakeup
<1>1. P!Spec => []P!NoLostWakeup
  BY P!WakeupsKept, QueueAssumption DEF P!IsFiniteSet, IsFiniteSet
<1>2. P!NoLostWakeup => NoLostWakeup
  BY DEF P!NoLostWakeup, NoLostWakeup, Q!NoLostWakeup, P!Cardinality, Q!Cardinality
<1> QED
  BY <1>1, <1>2, QueueComponent, PTL

-----------------------------------------------------------------------------
(* The facts about the queue that the scheduler's invariant rests on. *)
QInv == P!IInv /\ P!Returned

LEMMA NextQInv ==
  /\ QInv /\ [Next]_vars => QInv'
  /\ QInv /\ NoLostWakeup /\ [Next]_vars => NoLostWakeup'
<1>1. P!IInv /\ [P!Next]_(P!vars) => P!IInv'
  BY P!NextIInv, QueueAssumption DEF P!IsFiniteSet, IsFiniteSet
<1>2. P!IInv /\ P!Returned /\ [P!Next]_(P!vars) => P!Returned'
  BY P!NextReturned, QueueAssumption DEF P!IsFiniteSet, IsFiniteSet
<1>3. P!IInv /\ P!NoLostWakeup /\ [P!Next]_(P!vars) => P!NoLostWakeup'
  BY P!NextNoLostWakeup, QueueAssumption DEF P!IsFiniteSet, IsFiniteSet
<1>4. (P!NoLostWakeup <=> NoLostWakeup) /\ (P!NoLostWakeup' <=> NoLostWakeup')
  BY DEF P!NoLostWakeup, NoLostWakeup, Q!NoLostWakeup, P!Cardinality, Q!Cardinality
<1> QED
  BY <1>1, <1>2, <1>3, <1>4, QueueStep DEF QInv

LEMMA InitQInv == Init => QInv
<1>1. P!Init => P!IInv
  BY P!InitIInv, QueueAssumption DEF P!IsFiniteSet, IsFiniteSet
<1>2. Init => P!Init
  BY DEF Init, Q!Init, P!Init
<1>3. P!Init => P!Returned
  BY DEF P!Init, P!Returned
<1> QED
  BY <1>1, <1>2, <1>3 DEF QInv

LEMMA QInvariance == Spec => []QInv
BY InitQInv, NextQInv, PTL DEF Spec

LEMMA QInvSafe == QInv => QSafe
BY DEF QSafe, QInv, P!IInv, P!TypeOK, P!PendingIsHeld, P!NothingLost, P!Returned, P!Ids, Q!Ids,
       P!Item, Q!Item

LEMMA SInvariance == Spec => []SInv
BY InitSInv, NextSInv, QInvariance, QInvSafe, PTL DEF Spec

(* The aging loop, which works on the scheduler's own books, sees every    *)
(* request that waits in the priority queue, and nothing that is neither   *)
(* queued nor being served stays in those books.                           *)
THEOREM AgingSees == Spec => []AgingSeesQueue
<1>1. SInv => AgingSeesQueue
  BY DEF SInv
<1> QED
  BY <1>1, SInvariance, PTL

(* The fallback's books hold exactly its own unfinished requests, although *)
(* complete() is called on it for requests of the priority queue as well.  *)
THEOREM FallbackBooks == Spec => []PendingTracks
<1>1. SInv => PendingTracks
  BY DEF SInv, FInv, PendingTracks
<1> QED
  BY <1>1, SInvariance, PTL

LEMMA TypesOfParts == SInv /\ QInv => TypeOK
BY DEF SInv, STypes, FInv, QInv, P!IInv, TypeOK, P!TypeOK, Q!TypeOK, P!Item, Q!Item

(* Types of the scheduler and of both queues. *)
THEOREM SchedulerTypes == Spec => []TypeOK
BY TypesOfParts, SInvariance, QInvariance, PTL

(* The fallback loses no wake-up, for any number of workers that come and  *)
(* go between it and the priority queue: while one of them sleeps in its   *)
(* get(), as many others are woken in it as requests are queued, because a *)
(* worker that was woken and then timed out hands its wake-up on.          *)
THEOREM FallbackWakeupsKept == Spec => []NoSleeperWhileQueued
<1>1. Init => NoSleeperWhileQueued
  BY DEF Init, F!Init, NoSleeperWhileQueued, F!NoSleeperWhileQueued
<1> QED
  BY <1>1, NextNoSleeper, SInvariance, PTL DEF Spec

(* As a part of the scheduler the fallback is first-in first-out as well,  *)
(* whatever the scheduler tells it about requests it never had: the        *)
(* scheduler's behaviours are behaviours of the abstract request queue.    *)
THEOREM FallbackRefinement == Spec => A!Spec
<1>1. Init => A!Init
  BY FInitAbstract DEF Init
<1>2. SInv /\ [Next]_vars => [A!Next]_(A!absVars)
  BY FServeAbstract, FallbackStep DEF SInv
<1> QED
  BY <1>1, <1>2, SInvariance, PTL DEF Spec, A!Spec

-----------------------------------------------------------------------------
(* All of the above together, as whoever runs the scheduler may count on   *)
(* it.                                                                     *)
HostInv == SInv /\ QInv /\ NoLostWakeup /\ NoSleeperWhileQueued /\ Seats

LEMMA HostTypes ==
  QInv /\ SInv => /\ wstate \in [Workers -> {"ready", "waiting", "notified"}]
                  /\ gstate \in [Workers -> {"ready", "waiting", "woken"}]
BY DEF QInv, P!IInv, P!TypeOK, SInv, FInv, F!TypeOK

LEMMA InitHostInv == Init => HostInv
<1>1. Init => NoLostWakeup /\ NoSleeperWhileQueued /\ Seats
  BY DEF Init, Q!Init, F!Init, NoLostWakeup, Q!NoLostWakeup, NoSleeperWhileQueued,
         F!NoSleeperWhileQueued, Seats, InQueue, InFallback
<1> QED
  BY <1>1, InitSInv, InitQInv DEF HostInv

LEMMA NextHostInv == HostInv /\ [Next]_vars => HostInv'
BY NextSInv, NextQInv, QInvSafe, NextNoSleeper, NextSeats, HostTypes DEF HostInv

LEMMA HostTypeOK == HostInv => TypeOK
BY TypesOfParts DEF HostInv

LEMMA HaltHostInv == HostInv /\ Halt => HostInv'
<1> SUFFICES ASSUME HostInv, Halt PROVE HostInv'
  OBVIOUS
<1>3. P!TypeOK'
  BY DEF HostInv, QInv, P!IInv, P!TypeOK, Halt
<1>4. P!PendingIsHeld' /\ P!NothingLost' /\ P!LatestFirst' /\ P!Returned'
  BY DEF HostInv, QInv, P!IInv, P!PendingIsHeld, P!NothingLost, P!LatestFirst, P!Returned, P!Ids,
         P!Before, Halt
<1>5. QInv'
  BY <1>3, <1>4 DEF HostInv, QInv, P!IInv, Halt
<1> QED
  BY <1>5, HaltSInv DEF HostInv

LEMMA HostInvariance == Spec => []HostInv
BY InitHostInv, NextHostInv, PTL DEF Spec

(* A worker sits in one of the two queues at most, and in the fallback     *)
(* only after the switch: acquire() never waits in both at once.           *)
THEOREM OneSeat == Spec => []Seats
<1>1. HostInv => Seats
  BY DEF HostInv
<1> QED
  BY <1>1, HostInvariance, PTL

LEMMA HostAccounted == HostInv => Accounted /\ Fresh
<1>1. HostInv => /\ submitted \subseteq Requests
                 /\ \A r \in submitted : r \in Q!Ids(pending) \/ dispatched[r] > 0 \/ r \in acked
  BY DEF HostInv, QInv, P!IInv, P!TypeOK, P!NothingLost, P!Ids, Q!Ids
<1> QED
  BY ZenonT(30), <1>1, BooksAccounted, QInvSafe DEF HostInv

(* No request is lost between the two queues, not even when the switch to  *)
(* the fallback leaves some behind in the priority queue: each one that    *)
(* submit() has seen waits in one of them, has been acquired, or was       *)
(* cancelled.                                                              *)
THEOREM EveryRequestAccounted == Spec => []Accounted
BY HostAccounted, HostInvariance, PTL

LEMMA HostAttended == ASSUME Workers # {}, HostInv PROVE Attended
<1>1. IsFiniteSet(heap) /\ fifo \in Seq(Requests)
  BY DEF HostInv, QInv, P!IInv, P!IsFiniteSet, IsFiniteSet, SInv, FInv, F!TypeOK
<1> QED
  BY <1>1, SeatsAttended DEF HostInv

=============================================================================
