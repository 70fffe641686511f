-------------------------------- MODULE Aging --------------------------------
(***************************************************************************)
(* The arithmetic of aging (python/scheduler/aging.py and the loop that    *)
(* applies it, SJFScheduler._aging_loop) for one request that waits while  *)
(* newcomers arrive.  Time is counted in passes of the loop, and the wait  *)
(* of the request at its k-th pass is k intervals.  Between two passes at  *)
(* most one newcomer arrives and the server takes one request, so the load *)
(* never exceeds what the server does.                                     *)
(***************************************************************************)
EXTENDS Integers, FiniteSetsExt

CONSTANTS
  Lengths,     \* predicted lengths
  Factor,      \* what LinearAging grants for one interval of waiting
  Log1p(_),    \* factor * log1p(wait) * 100 after so many intervals
  Exp(_),      \* factor * (exp(min(wait, 10) / 5) - 1) * 50
  MaxBoost, Hysteresis,
  Timeout,     \* _timeout, in intervals
  None         \* no newcomer

VARIABLES
  policy,    \* AgingConfig.policy
  priority,  \* of the request
  wait,      \* passes since it was submitted
  newcomer,  \* the priority of the newcomer that waits
  turn,      \* what comes next: a newcomer, a dispatch, a pass
  fate       \* of the request

vars == <<policy, priority, wait, newcomer, turn, fate>>

Init ==
  /\ policy \in {"linear", "logarithmic", "exponential"}
  /\ priority \in Lengths
  /\ wait = 0 /\ newcomer = None /\ turn = "submit" /\ fate = "queued"

create_aging(config, k) ==
  CASE config = "linear"      -> Factor * k
    [] config = "logarithmic" -> Log1p(k)
    [] config = "exponential" -> Exp(k)

boost(k, base) == base - Min({create_aging(policy, k), MaxBoost})

submit(p) ==
  /\ turn = "submit"
  /\ newcomer' = p
  /\ turn' = "acquire"
  /\ UNCHANGED <<policy, priority, wait, fate>>

(* The shorter one goes first; of two equal ones the older. *)
acquire ==
  /\ turn = "acquire" /\ fate = "queued"
  /\ fate' = IF newcomer # None /\ newcomer < priority THEN "queued" ELSE "dispatched"
  /\ newcomer' = None
  /\ turn' = "pass"
  /\ UNCHANGED <<policy, priority, wait>>

(* Each pass boosts the priority the passes before it have left. *)
_aging_loop ==
  /\ turn = "pass" /\ fate = "queued"
  /\ wait' = wait + 1
  /\ IF wait' > Timeout
     THEN fate' = "expired" /\ UNCHANGED priority
     ELSE LET new_priority == boost(wait', priority)
          IN /\ priority' = IF new_priority < priority - Hysteresis THEN new_priority ELSE priority
             /\ UNCHANGED fate
  /\ turn' = "submit"
  /\ UNCHANGED <<policy, newcomer>>

Next == acquire \/ _aging_loop \/ \E p \in Lengths \cup {None} : submit(p)

Spec == Init /\ [][Next]_vars

-----------------------------------------------------------------------------
(* Aging prevents starvation: a server that takes a request in every       *)
(* interval, and is not overloaded, does not let one expire in the queue   *)
(* (what README.md and docs/architecture.md say aging is for).             *)
NoStarvation == fate # "expired"

=============================================================================
