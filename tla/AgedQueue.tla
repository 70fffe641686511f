------------------------------ MODULE AgedQueue ------------------------------
(***************************************************************************)
(* What a shortest-job-first queue with aging promises: a request is       *)
(* submitted with its length, waits, and then is either cancelled or       *)
(* dispatched, once.  While it waits its priority only improves on its     *)
(* length, and a request may overtake a shorter one only if aging has put  *)
(* it ahead: whoever is dispatched is beaten by no waiting request both in *)
(* length and in current priority.                                         *)
(***************************************************************************)
EXTENDS Integers

CONSTANTS
  Requests,  \* request identifiers
  Lengths    \* predicted lengths

VARIABLES
  queue,     \* waiting requests, each with its length and current priority
  withdrawn, \* requests cancelled while they waited
  served     \* requests handed to a worker

absVars == <<queue, withdrawn, served>>

Waiting == {q.rid : q \in queue}

Init ==
  /\ queue = {}
  /\ withdrawn = {}
  /\ served = {}

Submit(r, n) ==
  /\ r \notin Waiting \cup withdrawn \cup served
  /\ queue' = queue \cup {[rid |-> r, length |-> n, current |-> n]}
  /\ UNCHANGED <<withdrawn, served>>

(* One aging pass over all that wait. *)
Age ==
  /\ Waiting' = Waiting
  /\ \A new \in queue' : \E old \in queue :
       new.rid = old.rid /\ new.length = old.length /\ new.current <= old.current
  /\ \A q, other \in queue' : q.rid = other.rid => q = other
  /\ UNCHANGED <<withdrawn, served>>

Cancel(q) ==
  /\ q \in queue
  /\ queue' = queue \ {q}
  /\ withdrawn' = withdrawn \cup {q.rid}
  /\ UNCHANGED served

Dispatch(q) ==
  /\ q \in queue
  /\ \A other \in queue : q.length <= other.length \/ q.current <= other.current
  /\ queue' = queue \ {q}
  /\ served' = served \cup {q.rid}
  /\ UNCHANGED withdrawn

Next ==
  \/ \E r \in Requests, n \in Lengths : Submit(r, n)
  \/ Age
  \/ \E q \in queue : Cancel(q) \/ Dispatch(q)

Spec == Init /\ [][Next]_absVars

=============================================================================
