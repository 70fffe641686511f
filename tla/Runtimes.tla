------------------------------- MODULE Runtimes -------------------------------
(***************************************************************************)
(* The queue of LockedQueue in use.  Go (go/cmd/gateway/main.go): the      *)
(* handler of a chat submits its request and calls Acquire() itself, in    *)
(* competition with the dispatch loops, which call it and drop what they   *)
(* get; whatever request a handler acquires is its ticket to forward its   *)
(* own.  C++ (SJFScheduler): a library class, safe to be called by several *)
(* threads; threads that call it, each whenever it likes, are all the      *)
(* model has (cpp/src/main.cpp has one).                                   *)
(***************************************************************************)
EXTENDS LockedQueue

CONSTANT Workers  \* dispatch loops

(* The other callers are the handlers, one for each request. *)
ASSUME CallersAssumption == Callers = Requests \cup Workers

VARIABLE client  \* what the client of a request has got so far

vars == <<lvars, client>>

RTInit == Init /\ client = [r \in Requests |-> "none"]

(* handleChatCompletions up to Acquire() or, for a stream, to forwardStream(); *)
(* in C++ nobody waits for the answer.                                     *)
submit(r, p, kind) ==
  /\ client[r] = "none" /\ (lang = "cpp" <=> kind = "async")
  /\ Submit(r, p)
  /\ client' = [client EXCEPT ![r] = kind]

(* The handler's Acquire() is on its way, or has failed: 504. *)
acquire(r) ==
  /\ client[r] = "chat" /\ cstate[r] # "got"
  /\ Step(r)
  /\ client' = [client EXCEPT ![r] = IF cstate'[r] = "failed" THEN "504" ELSE @]

(* forward() or forwardStream() returns, and Complete(). *)
forward(r, ok) ==
  /\ client[r] = "stream" \/ (client[r] = "chat" /\ cstate[r] = "got")
  /\ client' = [client EXCEPT ![r] = IF ok THEN "200" ELSE "502"]
  /\ UNCHANGED lvars

(* dispatchLoop *)
dispatch(w) ==
  /\ lang = "go" /\ w \in Workers
  /\ Step(w)
  /\ UNCHANGED client

(* Some thread in SJFScheduler::acquire(). *)
thread(c) == lang = "cpp" /\ Step(c) /\ UNCHANGED client

(* SJFScheduler::cancel, and Engine.Cancel, which in Go only tests call. *)
cancel(r) == Cancel(r) /\ UNCHANGED client

agingLoop == Tick /\ UNCHANGED client
expire(c) == Expire(c) /\ UNCHANGED client
helper_runs(c) == HelperRuns(c) /\ UNCHANGED client

RTNext ==
  \/ \E r \in Requests, p \in Prios, kind \in {"chat", "stream", "async"} : submit(r, p, kind)
  \/ \E r \in Requests, ok \in BOOLEAN : forward(r, ok)
  \/ \E r \in Requests : acquire(r) \/ cancel(r)
  \/ \E c \in Callers : dispatch(c) \/ thread(c) \/ expire(c) \/ helper_runs(c)
  \/ agingLoop

(***************************************************************************)
(* Go only: goroutines run when they can; its mutex hands itself to a      *)
(* goroutine that has waited long, hence strong fairness; contexts end.    *)
(***************************************************************************)
Fairness ==
  /\ \A r \in Requests : SF_vars(acquire(r)) /\ WF_vars(forward(r, TRUE) \/ forward(r, FALSE))
  /\ \A c \in Callers :
       SF_vars(dispatch(c)) /\ WF_vars(lang = "go" /\ expire(c)) /\ WF_vars(helper_runs(c))

RTSpec == RTInit /\ [][RTNext]_vars /\ Fairness

-----------------------------------------------------------------------------
(* Types. *)
RTTypeOK ==
  /\ TypeOK
  /\ client \in [Requests -> {"none", "chat", "stream", "async", "200", "502", "504"}]

(* Every chat is answered, although the broadcast that ends a handler's    *)
(* wait can come before it is on the list of waiters: the contexts of the  *)
(* dispatch loops end every second, and their broadcasts reach everybody.  *)
ChatAnswered ==
  \A r \in Requests : client[r] = "chat" ~> client[r] \in {"200", "502", "504"}

=============================================================================
