---------------------------- MODULE RequestQueue ----------------------------
(***************************************************************************)
(* What every request queue of the platform promises, whatever it is       *)
(* written in: a request is submitted with a key, waits, and then is       *)
(* either cancelled or dispatched, once; a dispatched request has the      *)
(* smallest key of those that wait.  With the predicted length as the key  *)
(* this is shortest-job-first, with the arrival number it is FIFO.         *)
(***************************************************************************)
EXTENDS Integers

CONSTANTS
  Requests,  \* request identifiers
  Keys       \* the numbers requests are ordered by

VARIABLES
  queue,     \* waiting requests, each with its key
  withdrawn, \* requests cancelled while they waited
  served     \* requests handed to a worker

absVars == <<queue, withdrawn, served>>

Waiting == {q.rid : q \in queue}

Init ==
  /\ queue = {}
  /\ withdrawn = {}
  /\ served = {}

Submit(r, k) ==
  /\ r \notin Waiting \cup withdrawn \cup served
  /\ queue' = queue \cup {[rid |-> r, key |-> k]}
  /\ UNCHANGED <<withdrawn, served>>

Cancel(q) ==
  /\ q \in queue
  /\ queue' = queue \ {q}
  /\ withdrawn' = withdrawn \cup {q.rid}
  /\ UNCHANGED served

Dispatch(q) ==
  /\ q \in queue
  /\ \A other \in queue : q.key <= other.key
  /\ queue' = queue \ {q}
  /\ served' = served \cup {q.rid}
  /\ UNCHANGED withdrawn

Next ==
  \/ \E r \in Requests, k \in Keys : Submit(r, k)
  \/ \E q \in queue : Cancel(q) \/ Dispatch(q)

Spec == Init /\ [][Next]_absVars

=============================================================================
