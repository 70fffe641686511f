----------------------------- MODULE AgingProofs -----------------------------
(***************************************************************************)
(* When aging does prevent starvation: a condition on the numbers in the   *)
(* configuration, for any lengths, factors, boosts and time-outs.          *)
(***************************************************************************)
EXTENDS Aging, TLAPS

USE SMTT(30), ZenonT(30)

Policies == {"linear", "logarithmic", "exponential"}

(* What the k-th pass takes off a priority. *)
Boosted(config, k) == Min({create_aging(config, k), MaxBoost})
Grant(config, k) == IF Boosted(config, k) > Hysteresis THEN Boosted(config, k) ELSE 0

(* T[k] is what the first k passes take off. *)
IsTotal(T, config) ==
  /\ T \in [0 .. Timeout -> Int] /\ T[0] = 0
  /\ \A k \in 1 .. Timeout : T[k] = T[k - 1] + Grant(config, k)

(* The numbers are numbers. *)
Numbers ==
  /\ Lengths \subseteq Int /\ Timeout \in Nat
  /\ Factor \in Int /\ MaxBoost \in Int /\ Hysteresis \in Nat
  /\ \A k \in 1 .. Timeout : Log1p(k) \in Int /\ Exp(k) \in Int

LEMMA MinOfTwo ==
  ASSUME NEW a \in Int, NEW b \in Int
  PROVE  Min({a, b}) = IF a <= b THEN a ELSE b
<1>1. \E x \in {a, b} : \A y \in {a, b} : x <= y
  OBVIOUS
<1>2. Min({a, b}) \in {a, b} /\ \A y \in {a, b} : Min({a, b}) <= y
  BY Zenon, <1>1 DEF Min
<1> QED
  BY <1>2

LEMMA BoostedInt ==
  ASSUME Numbers, NEW c \in Policies, NEW k \in 1 .. Timeout
  PROVE  Boosted(c, k) \in Int
<1>1. create_aging(c, k) \in Int /\ MaxBoost \in Int
  BY DEF Numbers, Policies, create_aging
<1> QED
  BY <1>1, MinOfTwo DEF Boosted

(***************************************************************************)
(* As long as the request waits, all that has happened to its priority is  *)
(* the boosts; and it does not come to the pass at which it would expire.  *)
(***************************************************************************)
Ages(T, config) ==
  /\ policy = config
  /\ newcomer \in Lengths \cup {None}
  /\ fate \in {"queued", "dispatched"}
  /\ fate = "queued" =>
       /\ wait \in 0 .. Timeout
       /\ \E a \in Lengths : priority = a - T[wait]
       /\ turn = "pass" => wait # Timeout

LEMMA InitAges ==
  ASSUME Numbers, NEW T, NEW c \in Policies, IsTotal(T, c), Init, policy = c
  PROVE  Ages(T, c)
<1>1. priority \in Int /\ priority = priority - T[0]
  BY DEF Init, Numbers, IsTotal
<1> QED
  BY <1>1 DEF Init, Ages, Numbers

LEMMA AcquireAges ==
  ASSUME Numbers, NEW T, NEW c \in Policies, IsTotal(T, c), Ages(T, c), acquire,
         \A a, b \in Lengths : a - b <= T[Timeout]
  PROVE  Ages(T, c)'
<1>1. ASSUME newcomer # None, newcomer < priority PROVE wait # Timeout
  <2>1. PICK a \in Lengths : priority = a - T[wait]
    BY DEF acquire, Ages
  <2>2. newcomer \in Lengths /\ wait \in 0 .. Timeout
    BY <1>1 DEF acquire, Ages
  <2>3. a \in Int /\ newcomer \in Int /\ T[wait] \in Int
    BY <2>2 DEF Numbers, IsTotal
  <2>4. a - newcomer <= T[Timeout]
    BY <2>2
  <2> QED
    BY <1>1, <2>1, <2>3, <2>4
<1> QED
  BY <1>1 DEF acquire, Ages

LEMMA PassAges ==
  ASSUME Numbers, NEW T, NEW c \in Policies, IsTotal(T, c), Ages(T, c), _aging_loop
  PROVE  Ages(T, c)'
<1>1. /\ policy = c /\ wait \in 0 .. Timeout /\ wait # Timeout /\ wait' = wait + 1
      /\ policy' = policy /\ fate = "queued" /\ turn' = "submit" /\ newcomer' = newcomer
  BY DEF Ages, _aging_loop
<1>2. PICK k \in 1 .. Timeout : k = wait' /\ k - 1 = wait
  BY <1>1 DEF Numbers
<1>3. Timeout \in Nat /\ Hysteresis \in Nat /\ Boosted(policy, k) \in Int
  BY <1>1, <1>2, BoostedInt DEF Numbers
<1>4. PICK a \in Lengths : priority = a - T[k - 1]
  BY <1>1, <1>2 DEF Ages
<1>5. /\ a \in Int /\ T[k - 1] \in Int
      /\ T[k] = T[k - 1] + Grant(policy, k)
  BY <1>1, <1>2 DEF Numbers, IsTotal
<1>6. /\ fate' = fate
      /\ priority' = IF priority - Boosted(policy, k) < priority - Hysteresis
                     THEN priority - Boosted(policy, k) ELSE priority
  BY <1>2, <1>3 DEF _aging_loop, boost, Boosted
<1>7. priority' = priority - Grant(policy, k)
  BY <1>3, <1>4, <1>5, <1>6 DEF Grant
<1>8. Grant(policy, k) \in Int
  BY <1>3 DEF Grant
<1>9. priority' = a - T[wait']
  BY <1>1, <1>2, <1>4, <1>5, <1>7, <1>8
<1> QED
  BY <1>1, <1>2, <1>6, <1>9 DEF Ages

LEMMA NextAges ==
  ASSUME Numbers, NEW T, NEW c \in Policies, IsTotal(T, c), Ages(T, c), [Next]_vars,
         \A a, b \in Lengths : a - b <= T[Timeout]
  PROVE  Ages(T, c)'
<1>1. ASSUME NEW p \in Lengths \cup {None}, submit(p) PROVE Ages(T, c)'
  BY <1>1 DEF submit, Ages
<1>2. CASE UNCHANGED vars
  BY <1>2 DEF vars, Ages
<1> QED
  BY <1>1, <1>2, AcquireAges, PassAges DEF Next

(* Aging keeps a request from expiring behind newcomers if the boosts of   *)
(* all passes up to the time-out, under the policy in use, add up to the   *)
(* largest difference of two predicted lengths.  Only boosts beyond the    *)
(* hysteresis count, and each pass counts anew, because _aging_loop takes  *)
(* its boost off what the passes before it have left.                      *)
THEOREM AgingEnough ==
  ASSUME Numbers, NEW T, NEW c \in Policies, IsTotal(T, c),
         \A a, b \in Lengths : a - b <= T[Timeout]
  PROVE  Spec /\ policy = c => []NoStarvation
<1>1. Init /\ policy = c => Ages(T, c)
  BY InitAges
<1>2. Ages(T, c) /\ [Next]_vars => Ages(T, c)'
  BY NextAges
<1>3. Ages(T, c) => NoStarvation
  BY DEF Ages, NoStarvation
<1> QED
  BY <1>1, <1>2, <1>3, PTL DEF Spec

=============================================================================
