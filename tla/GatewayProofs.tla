---------------------------- MODULE GatewayProofs ----------------------------
(***************************************************************************)
(* Proofs about Gateway, for any number of requests and workers.           *)
(***************************************************************************)
EXTENDS Gateway, TLAPS

USE SMTT(30), ZenonT(30)

-----------------------------------------------------------------------------
(* Futures.  GTypes are types of the gateway's state; the history of the   *)
(* fallback's submit() calls is there to tell known requests from new ones. *)
GTypes ==
  /\ phase \in {"new", "running", "stopped"}
  /\ owner \in Workers \cup {Free}
  /\ client \in [Requests -> {"none", "chat", "stream", "200", "502", "504", "ended", "gone"}]
  /\ fut \in [Requests -> {"none", "pending", "result", "error", "cancelled"}]
  /\ chunks \in [Requests -> Seq({"chunk", "None"})]

LEMMA NextGTypes == GTypes /\ [Next]_vars => GTypes'
<1> SUFFICES ASSUME GTypes, [Next]_vars PROVE GTypes'
  OBVIOUS
<1>1. CASE startup \/ shutdown \/ UNCHANGED vars
  BY <1>1 DEF GTypes, startup, shutdown, vars, gvars
<1>2. ASSUME NEW r \in Requests, NEW p \in Prios, NEW b \in BOOLEAN,
             submit_chat(r, p, b) \/ submit_chat_stream(r, p, b)
      PROVE  GTypes'
  BY Zenon, <1>2 DEF GTypes, submit_chat, submit_chat_stream
<1>3. ASSUME NEW r \in Requests, respond(r) \/ time_out(r) \/ disconnect(r) \/ aging(r)
      PROVE  GTypes'
  BY Zenon, <1>3 DEF GTypes, respond, time_out, Settle, disconnect, aging, gvars
<1>4. ASSUME NEW r \in Requests, NEW x \in {"chunk", "None"},
             chunks' = [chunks EXCEPT ![r] = Append(@, x)], UNCHANGED <<phase, owner, client, fut>>
      PROVE  GTypes'
  BY <1>4 DEF GTypes
<1>5. ASSUME NEW r \in Requests, forward_chunk(r) \/ forward_end(r) PROVE GTypes'
  BY Zenon, <1>4, <1>5 DEF forward_chunk, forward_end
<1>6. ASSUME NEW r \in Requests, forward_failed(r) PROVE GTypes'
  BY <1>6 DEF GTypes, forward_failed, gvars
<1>7. ASSUME NEW r \in Requests, NEW o, forward_chat(r, o) PROVE GTypes'
  BY <1>7 DEF GTypes, forward_chat, Settle
<1>8. ASSUME NEW r \in Requests, read_chunk(r) PROVE GTypes'
  <2>1. chunks[r] \in Seq({"chunk", "None"}) /\ chunks[r] # <<>>
    BY <1>8 DEF GTypes, read_chunk
  <2>2. Tail(chunks[r]) \in Seq({"chunk", "None"})
    BY <2>1
  <2> QED
    BY <1>8, <2>2 DEF GTypes, read_chunk
<1>9. ASSUME NEW w \in Workers, dispatch_loop(w) \/ acquire_timeout(w) PROVE GTypes'
  BY <1>9 DEF GTypes, dispatch_loop, acquire_timeout
<1> QED
  BY <1>1, <1>2, <1>3, <1>5, <1>6, <1>7, <1>8, <1>9 DEF Next, forward

(* Only a request the scheduler has seen has a future. *)
FutKnown == \A r \in Requests : fut[r] # "none" => r \in S!Known

FutInv == GTypes /\ arrivals \in Seq(Requests) /\ FutKnown

(* The scheduler does not forget that it has seen a request. *)
LEMMA SubmitKnown ==
  ASSUME arrivals \in Seq(Requests), NEW r \in Requests, NEW p, NEW b, S!submit(r, p, b)
  PROVE  /\ arrivals' \in Seq(Requests)
         /\ r \notin S!Known /\ S!Known' = S!Known \cup {r}
<1>1. r \notin S!Known
  BY DEF S!submit
<1>2. CASE S!F!submit(r) /\ UNCHANGED submitted
  <2>1. arrivals' = Append(arrivals, r)
    BY <1>2 DEF S!F!submit
  <2>2. /\ arrivals' \in Seq(Requests)
        /\ DOMAIN arrivals' = (DOMAIN arrivals) \cup {Len(arrivals) + 1}
        /\ arrivals'[Len(arrivals) + 1] = r
        /\ \A i \in DOMAIN arrivals : arrivals'[i] = arrivals[i]
    BY <2>1
  <2>3. S!Range(arrivals') = S!Range(arrivals) \cup {r}
    BY <2>2 DEF S!Range
  <2> QED
    BY <1>1, <1>2, <2>2, <2>3 DEF S!Known
<1>3. CASE S!Q!enqueue(r, p) /\ UNCHANGED arrivals
  BY <1>1, <1>3 DEF S!Known, S!Q!enqueue
<1> QED
  BY <1>2, <1>3 DEF S!submit, S!qvars, S!fvars

LEMMA KnownGrows ==
  ASSUME arrivals \in Seq(Requests), [Next]_vars
  PROVE  arrivals' \in Seq(Requests) /\ S!Known \subseteq S!Known'
<1>1. CASE UNCHANGED <<submitted, arrivals>>
  BY <1>1 DEF S!Known
<1>2. ASSUME NEW r \in Requests, NEW p \in Prios, NEW b \in BOOLEAN,
             submit_chat(r, p, b) \/ submit_chat_stream(r, p, b)
      PROVE  arrivals' \in Seq(Requests) /\ S!Known \subseteq S!Known'
  <2>1. S!submit(r, p, b)
    BY <1>2 DEF submit_chat, submit_chat_stream
  <2> QED
    BY <2>1, SubmitKnown
<1>3. ASSUME NEW r \in Requests, NEW b \in BOOLEAN,
             S!complete(r, b) \/ S!cancel(r) \/ S!Overdue(r) \/ S!Boost(r)
      PROVE  UNCHANGED <<submitted, arrivals>>
  BY <1>3 DEF S!complete, S!cancel, S!Overdue, S!Boost, S!Q!update_priority, S!Q!cancel,
              S!F!complete, S!F!cancel, S!qvars, S!fvars
<1>4. ASSUME NEW w \in Workers, S!acquire(w) \/ S!TimeOut(w)
      PROVE  UNCHANGED <<submitted, arrivals>>
  BY <1>4 DEF S!acquire, S!TimeOut, S!Q!Take, S!Q!Park, S!Q!Expire, S!F!Get, S!F!Block,
              S!F!GiveUp, S!qvars, S!fvars
<1>5. CASE startup \/ shutdown \/ UNCHANGED vars
  BY <1>1, <1>5 DEF startup, shutdown, S!start, S!qvars, S!fvars, vars, qvars, fvars
<1>6. ASSUME NEW r \in Requests, respond(r) \/ forward_chunk(r) \/ read_chunk(r) \/ disconnect(r)
      PROVE  UNCHANGED <<submitted, arrivals>>
  BY <1>6 DEF respond, forward_chunk, read_chunk, disconnect, qvars, fvars
<1>7. ASSUME NEW r \in Requests, time_out(r) \/ aging(r) \/ forward(r)
      PROVE  UNCHANGED <<submitted, arrivals>>
  BY ZenonT(30), <1>3, <1>7 DEF time_out, aging, forward, forward_chat, forward_end,
     forward_failed, Close
<1>8. ASSUME NEW w \in Workers, dispatch_loop(w) \/ acquire_timeout(w)
      PROVE  UNCHANGED <<submitted, arrivals>>
  BY <1>4, <1>8 DEF dispatch_loop, acquire_timeout
<1> QED
  BY <1>1, <1>2, <1>5, <1>6, <1>7, <1>8 DEF Next

(* A step gives a future only to a request the scheduler has seen. *)
LEMMA FutStep ==
  ASSUME FutInv, [Next]_vars, NEW q \in Requests
  PROVE  fut'[q] # "none" => q \in S!Known'
<1>0. fut \in [Requests -> {"none", "pending", "result", "error", "cancelled"}]
      /\ (q \in S!Known => q \in S!Known')
  BY KnownGrows DEF FutInv, GTypes
<1>1. CASE UNCHANGED fut
  BY <1>0, <1>1 DEF FutInv, FutKnown
<1>2. ASSUME NEW r \in Requests, NEW p \in Prios, NEW b \in BOOLEAN, submit_chat(r, p, b)
      PROVE  fut'[q] # "none" => q \in S!Known'
  BY <1>0, <1>2, SubmitKnown DEF submit_chat, FutInv, FutKnown
<1>3. ASSUME NEW r \in Requests, NEW o, fut' = [fut EXCEPT ![r] = Settle(@, o)], r \in S!Known
      PROVE  fut'[q] # "none" => q \in S!Known'
  BY <1>0, <1>3 DEF Settle, FutInv, FutKnown
<1>4. ASSUME NEW r \in Requests, time_out(r)
      PROVE  fut'[q] # "none" => q \in S!Known'
  BY Zenon, <1>3, <1>4 DEF time_out, S!cancel
<1>5. ASSUME NEW r \in Requests, NEW o \in {"ok", "status", "exception"}, forward_chat(r, o)
      PROVE  fut'[q] # "none" => q \in S!Known'
  BY Zenon, <1>3, <1>5 DEF forward_chat, FutInv, FutKnown
<1>6. ASSUME NEW r \in Requests,
             \/ respond(r) \/ forward_end(r) \/ forward_failed(r) \/ forward_chunk(r)
             \/ read_chunk(r) \/ disconnect(r) \/ aging(r)
      PROVE  UNCHANGED fut
  BY Zenon, <1>6 DEF respond, forward_end, forward_failed, forward_chunk, read_chunk, disconnect,
              aging, gvars
<1>7. ASSUME NEW w \in Workers, dispatch_loop(w) \/ acquire_timeout(w) PROVE UNCHANGED fut
  BY <1>7 DEF dispatch_loop, acquire_timeout
<1>8. CASE startup \/ shutdown \/ UNCHANGED vars
  BY <1>1, <1>8 DEF startup, shutdown, vars, gvars
<1>9. ASSUME NEW r \in Requests, NEW p \in Prios, NEW b \in BOOLEAN, submit_chat_stream(r, p, b)
      PROVE  UNCHANGED fut
  BY <1>9 DEF submit_chat_stream
<1> QED
  BY <1>1, <1>2, <1>4, <1>5, <1>6, <1>7, <1>8, <1>9 DEF Next, forward

LEMMA NextFutInv == FutInv /\ [Next]_vars => FutInv'
<1>1. FutInv /\ [Next]_vars => GTypes' /\ arrivals' \in Seq(Requests)
  BY NextGTypes, KnownGrows DEF FutInv
<1>2. FutInv /\ [Next]_vars => FutKnown'
  BY FutStep DEF FutKnown
<1> QED
  BY <1>1, <1>2 DEF FutInv

-----------------------------------------------------------------------------
(* Answers. *)
Ended(s) == \E i \in DOMAIN s : s[i] = "None"

Told(q) ==
  /\ fut[q] = "pending" => client[q] = "chat" /\ completions[q] = 0
  /\ client[q] = "chat" => fut[q] \in {"pending", "result", "error"}
  /\ client[q] = "200" => fut[q] = "result"
  /\ client[q] = "502" => fut[q] = "error"
  /\ fut[q] \in {"result", "error"} \/ client[q] = "ended" \/ Ended(chunks[q]) => completions[q] > 0

AInv == FutInv /\ \A q \in Requests : Told(q)

(* What the scheduler says about requests it has not seen. *)
Unseen ==
  /\ completions \in [Requests -> Nat]
  /\ \A r \in Requests \ S!Known : completions[r] = 0

LEMMA EndedSteps ==
  ASSUME NEW s \in Seq({"chunk", "None"})
  PROVE  /\ Ended(Append(s, "chunk")) => Ended(s)
         /\ s # <<>> => (Ended(Tail(s)) => Ended(s)) /\ (Head(s) = "None" => Ended(s))
<1>1. Ended(Append(s, "chunk")) => Ended(s)
  BY DEF Ended
<1>2. ASSUME s # <<>> PROVE (Ended(Tail(s)) => Ended(s)) /\ (Head(s) = "None" => Ended(s))
  <2>1. \A i \in DOMAIN Tail(s) : i + 1 \in DOMAIN s /\ Tail(s)[i] = s[i + 1]
    BY <1>2
  <2>2. 1 \in DOMAIN s /\ Head(s) = s[1]
    BY <1>2
  <2> QED
    BY <2>1, <2>2 DEF Ended
<1> QED
  BY <1>1, <1>2

LEMMA SubmitTold ==
  ASSUME AInv, Unseen, NEW r \in Requests, NEW p \in Prios, NEW b \in BOOLEAN,
         submit_chat(r, p, b) \/ submit_chat_stream(r, p, b), NEW q \in Requests
  PROVE  Told(q)'
<1>0. /\ fut \in [Requests -> {"none", "pending", "result", "error", "cancelled"}]
      /\ client \in [Requests -> {"none", "chat", "stream", "200", "502", "504", "ended", "gone"}]
      /\ Told(q) /\ Told(r)
  BY DEF AInv, FutInv, GTypes
<1>1. S!submit(r, p, b)
  BY DEF submit_chat, submit_chat_stream
<1>2. completions' = completions /\ r \notin S!Known
  BY <1>1 DEF S!submit
<1>3. completions[r] = 0 /\ fut[r] = "none"
  BY <1>2 DEF Unseen, AInv, FutInv, FutKnown, GTypes
<1>4. CASE submit_chat(r, p, b)
  BY <1>0, <1>2, <1>3, <1>4 DEF submit_chat, Told
<1>5. CASE submit_chat_stream(r, p, b)
  BY <1>0, <1>2, <1>3, <1>5 DEF submit_chat_stream, Told
<1> QED
  BY <1>4, <1>5

LEMMA ForwardTold ==
  ASSUME AInv, Unseen, NEW r \in Requests, forward(r), NEW q \in Requests
  PROVE  Told(q)'
<1>0. /\ fut \in [Requests -> {"none", "pending", "result", "error", "cancelled"}]
      /\ chunks \in [Requests -> Seq({"chunk", "None"})]
      /\ completions \in [Requests -> Nat] /\ Told(q) /\ Told(r)
  BY DEF AInv, FutInv, GTypes, Unseen
<1>1. completions' = [completions EXCEPT ![r] = @ + 1] /\ client' = client
  BY ZenonT(30) DEF forward, forward_chat, forward_end, forward_failed, Close, S!complete
<1>2. completions'[r] > 0 /\ (q # r => completions'[q] = completions[q])
  BY <1>0, <1>1
<1>3. ASSUME NEW o \in {"ok", "status", "exception"}, forward_chat(r, o) PROVE Told(q)'
  BY <1>0, <1>1, <1>2, <1>3 DEF forward_chat, Settle, Told
<1>4. CASE forward_end(r)
  BY <1>0, <1>1, <1>2, <1>4 DEF forward_end, Told
<1>5. CASE forward_failed(r)
  BY <1>0, <1>1, <1>2, <1>5 DEF forward_failed, Told
<1> QED
  BY <1>3, <1>4, <1>5 DEF forward

LEMMA ClientTold ==
  ASSUME AInv, Unseen, NEW r \in Requests, NEW q \in Requests,
         \/ respond(r) \/ time_out(r) \/ forward_chunk(r) \/ read_chunk(r) \/ disconnect(r)
  PROVE  Told(q)'
<1>0. /\ fut \in [Requests -> {"none", "pending", "result", "error", "cancelled"}]
      /\ client \in [Requests -> {"none", "chat", "stream", "200", "502", "504", "ended", "gone"}]
      /\ chunks \in [Requests -> Seq({"chunk", "None"})]
      /\ completions \in [Requests -> Nat] /\ Told(q) /\ Told(r)
  BY DEF AInv, FutInv, GTypes, Unseen
<1>1. completions' = completions
  BY DEF respond, time_out, S!cancel, forward_chunk, read_chunk, disconnect, svars
<1>2. CASE respond(r)
  BY <1>0, <1>1, <1>2 DEF respond, Told
<1>3. CASE time_out(r)
  BY <1>0, <1>1, <1>3 DEF time_out, Waiting, Settle, Told
<1>4. CASE forward_chunk(r)
  <2>1. Ended(chunks'[q]) => Ended(chunks[q])
    BY <1>0, <1>4, EndedSteps DEF forward_chunk
  <2> QED
    BY <1>0, <1>1, <1>4, <2>1 DEF forward_chunk, Told
<1>5. CASE read_chunk(r)
  <2>1. /\ Ended(chunks'[q]) => Ended(chunks[q])
        /\ client'[q] = "ended" => client[q] = "ended" \/ Ended(chunks[q])
    BY <1>0, <1>5, EndedSteps DEF read_chunk
  <2>2. client'[q] = client[q] \/ (client'[q] = "ended" /\ client[q] = "stream")
    BY <1>0, <1>5 DEF read_chunk
  <2> QED
    BY <1>0, <1>1, <1>5, <2>1, <2>2 DEF read_chunk, Told
<1>6. CASE disconnect(r)
  BY <1>0, <1>1, <1>6 DEF disconnect, Told
<1> QED
  BY <1>2, <1>3, <1>4, <1>5, <1>6

LEMMA NextAInv == AInv /\ Unseen /\ [Next]_vars => AInv'
<1> SUFFICES ASSUME AInv, Unseen, [Next]_vars PROVE AInv'
  OBVIOUS
<1>1. FutInv'
  BY NextFutInv DEF AInv
<1>2. ASSUME UNCHANGED <<client, fut, chunks, completions>> PROVE \A q \in Requests : Told(q)'
  BY <1>2 DEF AInv, Told
<1>3. ASSUME NEW w \in Workers, dispatch_loop(w) \/ acquire_timeout(w)
      PROVE  UNCHANGED <<client, fut, chunks, completions>>
  BY <1>3 DEF dispatch_loop, acquire_timeout, S!acquire, S!TimeOut, S!svars
<1>4. ASSUME NEW r \in Requests, aging(r) PROVE UNCHANGED <<client, fut, chunks, completions>>
  BY <1>4 DEF aging, S!Boost, S!Overdue, S!cancel, S!svars, gvars
<1>5. CASE startup \/ shutdown \/ UNCHANGED vars
  <2>1. UNCHANGED <<client, fut, chunks, completions>>
    BY <1>5 DEF startup, S!start, shutdown, vars, svars, gvars
  <2> QED
    BY <1>1, <1>2, <2>1 DEF AInv
<1>6. \A q \in Requests : Told(q)'
  BY <1>2, <1>3, <1>4, <1>5, SubmitTold, ForwardTold, ClientTold DEF Next, AInv
<1> QED
  BY <1>1, <1>6 DEF AInv

LEMMA InitAInv == Init => AInv
<1> SUFFICES ASSUME Init PROVE AInv
  OBVIOUS
<1>1. FutInv
  BY DEF Init, S!Init, S!F!Init, FutInv, GTypes, FutKnown
<1>2. \A q \in Requests : Told(q)
  BY DEF Init, S!Init, Told, Ended
<1> QED
  BY <1>1, <1>2 DEF AInv

-----------------------------------------------------------------------------
(* The scheduler inside the gateway.  A step of the gateway other than     *)
(* shutdown() is a step of the scheduler, or none of its business.         *)
LEMMA SchedulerStep == [Next]_vars => S!Next \/ UNCHANGED S!vars \/ shutdown
<1> SUFFICES ASSUME [Next]_vars, ~shutdown PROVE S!Next \/ UNCHANGED S!vars
  OBVIOUS
<1>1. ASSUME NEW r \in Requests, NEW p \in Prios, NEW b \in BOOLEAN,
             submit_chat(r, p, b) \/ submit_chat_stream(r, p, b)
      PROVE  S!Next
  BY <1>1 DEF submit_chat, submit_chat_stream, S!Next, S!PatientNext
<1>2. ASSUME NEW r \in Requests, forward(r) PROVE S!Next
  <2>1. PICK b \in BOOLEAN : S!complete(r, b)
    BY ZenonT(30), <1>2 DEF forward, forward_chat, forward_end, forward_failed, Close
  <2> QED
    BY <2>1 DEF S!Next, S!PatientNext
<1>3. ASSUME NEW r \in Requests, time_out(r) \/ aging(r) PROVE S!Next
  BY <1>3 DEF time_out, aging, S!Next, S!PatientNext
<1>4. ASSUME NEW w \in Workers, dispatch_loop(w) \/ acquire_timeout(w) PROVE S!Next
  BY <1>4 DEF dispatch_loop, acquire_timeout, S!Next, S!PatientNext
<1>5. ASSUME NEW r \in Requests, respond(r) \/ forward_chunk(r) \/ read_chunk(r) \/ disconnect(r)
      PROVE  UNCHANGED S!vars
  BY <1>5 DEF respond, forward_chunk, read_chunk, disconnect, S!vars, S!qvars, S!fvars, S!svars,
              qvars, fvars, svars
<1>6. CASE startup
  BY <1>6 DEF startup, S!Next, S!PatientNext
<1>7. CASE UNCHANGED vars
  BY <1>7 DEF vars, S!vars, S!qvars, S!fvars, S!svars, qvars, fvars, svars
<1> QED
  BY <1>1, <1>2, <1>3, <1>4, <1>5, <1>6, <1>7 DEF Next

-----------------------------------------------------------------------------
(* Forward tasks: a request has one for each time it was acquired and not  *)
(* yet completed, and the fallback, when there is one, is told of every    *)
(* completion.                                                             *)
TInv ==
  /\ tasks \in [Requests -> Nat]
  /\ \A r \in Requests : tasks[r] + completions[r] = S!Acquired(r)
  /\ \A r \in Requests : Fallback /\ completions[r] > 0 => r \in finished
  /\ ~Fallback => ~use_fallback /\ arrivals = <<>>

(* Types of what the scheduler hands out. *)
Handed ==
  /\ dispatched \in [Requests -> Nat] /\ completions \in [Requests -> Nat]
  /\ fifo \in Seq(Requests) /\ served \in Seq(Requests)

LEMMA AcquireCounts ==
  ASSUME Handed, NEW w \in Workers, S!acquire(w), NEW r \in Requests
  PROVE  /\ S!Acquired(r) \in Nat /\ S!Acquired(r)' \in Nat /\ S!Acquired(r) <= S!Acquired(r)'
         /\ UNCHANGED <<completions, finished, use_fallback, arrivals>>
<1>1. UNCHANGED <<completions, finished, use_fallback, arrivals>>
  BY DEF S!acquire, S!svars, S!F!Get, S!F!Block, S!fvars
<1>2. dispatched' \in [Requests -> Nat] /\ dispatched[r] <= dispatched'[r]
  <2>1. CASE UNCHANGED dispatched
    BY <2>1 DEF Handed
  <2>2. CASE S!Q!Take(w)
    <3>1. PICK q : dispatched' = [dispatched EXCEPT ![q] = dispatched[q] + 1]
      BY ZenonT(30), <2>2 DEF S!Q!Take
    <3>2. CASE q \in Requests
      BY <3>1, <3>2 DEF Handed
    <3>3. CASE q \notin Requests
      <4>1. dispatched' = dispatched
        BY <3>1, <3>3 DEF Handed
      <4> QED
        BY <2>1, <4>1
    <3> QED
      BY <3>2, <3>3
  <2>3. S!Q!Take(w) \/ UNCHANGED dispatched
    BY ZenonT(30) DEF S!acquire, S!Q!Park, S!qvars
  <2> QED
    BY <2>1, <2>2, <2>3
<1>3. r \in S!Range(served) => r \in S!Range(served')
  <2>1. CASE UNCHANGED served
    BY <2>1
  <2>2. CASE S!F!Get(w)
    <3>1. served' = Append(served, Head(fifo)) /\ Head(fifo) \in Requests
      BY <2>2 DEF Handed, S!F!Get
    <3>2. \A i \in DOMAIN served : i \in DOMAIN served' /\ served'[i] = served[i]
      BY <3>1 DEF Handed
    <3> QED
      BY <3>2 DEF S!Range
  <2> QED
    BY <2>1, <2>2 DEF S!acquire, S!F!Block, S!fvars
<1> QED
  BY <1>1, <1>2, <1>3 DEF S!Acquired, Handed

LEMMA QuietTInv ==
  ASSUME TInv, UNCHANGED <<tasks, completions, finished, dispatched, served>>,
         ~Fallback => ~use_fallback' /\ arrivals' = <<>>
  PROVE  TInv'
BY DEF TInv, S!Acquired, S!Range

LEMMA ForwardTInv ==
  ASSUME TInv, Handed, NEW r \in Requests, forward(r)
  PROVE  TInv'
<1>1. PICK b \in BOOLEAN : S!complete(r, b)
  BY ZenonT(30) DEF forward, forward_chat, forward_end, forward_failed, Close
<1>2. tasks[r] > 0 /\ tasks' = [tasks EXCEPT ![r] = @ - 1]
  BY ZenonT(30) DEF forward, forward_chat, forward_end, forward_failed, Forwarding, TaskEnds
<1>3. /\ completions' = [completions EXCEPT ![r] = @ + 1]
      /\ finished' = IF Fallback THEN finished \cup {r} ELSE finished
      /\ UNCHANGED <<dispatched, served, use_fallback, arrivals>>
  BY <1>1 DEF S!complete, S!F!complete, S!qvars, S!fvars
<1>4. \A q \in Requests : S!Acquired(q)' = S!Acquired(q)
  BY <1>3 DEF S!Acquired, S!Range
<1>5. tasks' \in [Requests -> Nat]
  BY <1>2 DEF TInv
<1>6. ASSUME NEW q \in Requests
      PROVE  /\ tasks'[q] + completions'[q] = S!Acquired(q)'
             /\ Fallback /\ completions'[q] > 0 => q \in finished'
  BY <1>2, <1>3, <1>4 DEF TInv, Handed
<1> QED
  BY <1>3, <1>5, <1>6 DEF TInv

LEMMA DispatchTInv ==
  ASSUME TInv, Handed, NEW w \in Workers, dispatch_loop(w)
  PROVE  TInv'
<1>1. /\ S!acquire(w)
      /\ tasks' = [r \in Requests |-> tasks[r] + (S!Acquired(r)' - S!Acquired(r))]
  BY DEF dispatch_loop
<1>2. UNCHANGED <<completions, finished, use_fallback, arrivals>>
  BY <1>1 DEF S!acquire, S!svars, S!F!Get, S!F!Block, S!fvars
<1>3. ASSUME NEW r \in Requests
      PROVE  tasks'[r] \in Nat /\ tasks'[r] + completions'[r] = S!Acquired(r)'
  <2>1. /\ S!Acquired(r) \in Nat /\ S!Acquired(r)' \in Nat /\ S!Acquired(r) <= S!Acquired(r)'
        /\ tasks[r] \in Nat /\ completions[r] \in Nat
        /\ tasks[r] + completions[r] = S!Acquired(r)
    BY <1>1, AcquireCounts DEF TInv, Handed
  <2>2. tasks'[r] = tasks[r] + (S!Acquired(r)' - S!Acquired(r)) /\ completions'[r] = completions[r]
    BY <1>1, <1>2
  <2> QED
    BY <2>1, <2>2
<1>4. tasks' \in [Requests -> Nat]
  BY <1>1, <1>3
<1> QED
  BY <1>2, <1>3, <1>4 DEF TInv

LEMMA NextTInv == TInv /\ Handed /\ [Next]_vars => TInv'
<1> SUFFICES ASSUME TInv, Handed, [Next]_vars PROVE TInv'
  OBVIOUS
<1>1. ASSUME NEW r \in Requests, NEW p \in Prios, NEW b \in BOOLEAN,
             submit_chat(r, p, b) \/ submit_chat_stream(r, p, b)
      PROVE  TInv'
  <2>1. S!submit(r, p, b) /\ UNCHANGED tasks
    BY <1>1 DEF submit_chat, submit_chat_stream
  <2>2. UNCHANGED <<completions, finished, dispatched, served>>
    BY <2>1 DEF S!submit, S!F!submit, S!Q!enqueue, S!qvars, S!fvars
  <2>3. ~Fallback => ~use_fallback' /\ arrivals' = <<>>
    BY <2>1 DEF S!submit, S!fvars, TInv
  <2> QED
    BY <2>1, <2>2, <2>3, QuietTInv
<1>2. ASSUME NEW r \in Requests, S!cancel(r) \/ S!Overdue(r) \/ S!Boost(r)
      PROVE  UNCHANGED <<completions, finished, dispatched, served, use_fallback, arrivals>>
  BY <1>2 DEF S!cancel, S!Overdue, S!Boost, S!Q!update_priority, S!Q!cancel, S!F!cancel,
              S!qvars, S!fvars, S!svars
<1>3. ASSUME NEW r \in Requests, time_out(r) \/ aging(r) PROVE TInv'
  <2>1. UNCHANGED <<tasks, completions, finished, dispatched, served, use_fallback, arrivals>>
    BY ZenonT(30), <1>2, <1>3 DEF time_out, aging, gvars
  <2> QED
    BY <2>1, QuietTInv DEF TInv
<1>4. ASSUME NEW w \in Workers, acquire_timeout(w) PROVE TInv'
  <2>1. UNCHANGED <<tasks, completions, finished, dispatched, served, use_fallback, arrivals>>
    BY <1>4 DEF acquire_timeout, S!TimeOut, S!Q!Expire, S!F!GiveUp, S!qvars, S!fvars, S!svars
  <2> QED
    BY <2>1, QuietTInv DEF TInv
<1>5. ASSUME NEW r \in Requests, respond(r) \/ forward_chunk(r) \/ read_chunk(r) \/ disconnect(r)
      PROVE  TInv'
  <2>1. UNCHANGED <<tasks, completions, finished, dispatched, served, use_fallback, arrivals>>
    BY <1>5 DEF respond, forward_chunk, read_chunk, disconnect, qvars, fvars, svars
  <2> QED
    BY <2>1, QuietTInv DEF TInv
<1>6. CASE startup \/ shutdown \/ UNCHANGED vars
  <2>1. UNCHANGED <<tasks, completions, finished, dispatched, served, use_fallback, arrivals>>
    BY <1>6 DEF startup, S!start, shutdown, S!qvars, S!fvars, vars, qvars, fvars, svars, gvars
  <2> QED
    BY <2>1, QuietTInv DEF TInv
<1> QED
  BY <1>1, <1>3, <1>4, <1>5, <1>6, ForwardTInv, DispatchTInv DEF Next

LEMMA InitTInv == Init => TInv
BY DEF Init, S!Init, S!Q!Init, S!F!Init, TInv, S!Acquired, S!Range

(* What the scheduler's books amount to once the tasks are counted. *)
LEMMA TasksClose ==
  ASSUME TInv, Handed, S!AgingSeesQueue, S!PendingTracks, spending \subseteq Requests,
         S!Range(arrivals) \subseteq Requests,
         S!Range(arrivals) \subseteq S!Range(served) \cup Range(fifo)
  PROVE  BooksClosed
<1>1. ASSUME NEW r \in spending
      PROVE  tasks[r] > 0 \/ r \in (S!Q!Ids(pending) \ cancelled)
  <2>1. /\ r \in Requests
        /\ r \in S!Q!Ids(pending) \ cancelled \/ completions[r] < S!Acquired(r)
    BY <1>1 DEF S!AgingSeesQueue
  <2>2. tasks[r] \in Nat /\ completions[r] \in Nat /\ tasks[r] + completions[r] = S!Acquired(r)
    BY <2>1 DEF TInv, Handed
  <2> QED
    BY <2>1, <2>2
<1>2. ASSUME NEW r \in fpending PROVE tasks[r] > 0 \/ r \in Range(fifo)
  <2>1. r \in S!Range(arrivals) /\ r \notin finished
    BY <1>2 DEF S!PendingTracks, S!F!PendingTracks, S!F!Range, S!Range
  <2>2. Fallback
    BY <2>1 DEF TInv, S!Range
  <2>3. /\ tasks[r] \in Nat /\ completions[r] \in Nat /\ ~(completions[r] > 0)
        /\ tasks[r] + completions[r] = S!Acquired(r) /\ dispatched[r] \in Nat
    BY <2>1, <2>2 DEF TInv, Handed
  <2>4. r \in S!Range(served) => S!Acquired(r) > 0
    BY <2>3 DEF S!Acquired
  <2> QED
    BY <2>1, <2>3, <2>4
<1> QED
  BY <1>1, <1>2 DEF BooksClosed

(* What is proved about the scheduler on its own: *)
J == INSTANCE SJFProofs

(* Two names for each operation of the scheduler. *)
LEMMA SameEnqueue ==
  ASSUME NEW r, NEW p
  PROVE  /\ S!Q!enqueue(r, p) => J!Q!enqueue(r, p)
         /\ S!Q!update_priority(r, p) => J!Q!update_priority(r, p)
         /\ S!Q!cancel(r) => J!Q!cancel(r)
BY DEF S!Q!enqueue, J!Q!enqueue, S!Q!Announce, J!Q!Announce, S!Q!Notify, J!Q!Notify,
       S!Q!update_priority, J!Q!update_priority, S!Q!Lowers, J!Q!Lowers, S!Q!Unmark, J!Q!Unmark,
       S!Q!cancel, J!Q!cancel, S!Q!Ids, J!Q!Ids

LEMMA SameDequeue ==
  ASSUME NEW w
  PROVE  /\ S!Q!Take(w) => J!Q!Take(w)
         /\ S!Q!Park(w) => J!Q!Park(w)
         /\ S!Q!Expire(w) => J!Q!Expire(w)
BY ZenonT(30) DEF S!Q!Take, J!Q!Take, S!Q!Park, J!Q!Park, S!Q!Expire, J!Q!Expire, S!Q!Servable,
   J!Q!Servable, S!Q!Skipped, J!Q!Skipped, S!Q!Before, J!Q!Before, S!Q!Pop, J!Q!Pop, S!Q!Without,
   J!Q!Without, S!Q!Ids, J!Q!Ids, S!Q!Discard, J!Q!Discard, S!Q!Truncate, J!Q!Truncate,
   S!Q!Notify, J!Q!Notify, S!Q!Cardinality, J!Q!Cardinality

LEMMA SameFallback ==
  /\ \A r : S!F!submit(r) => J!F!submit(r)
  /\ \A r : S!F!cancel(r) => J!F!cancel(r)
  /\ \A r, b : S!F!complete(r, b) => J!F!complete(r, b)
  /\ \A w : S!F!Get(w) => J!F!Get(w)
  /\ \A w : S!F!Block(w) => J!F!Block(w)
  /\ \A w : S!F!GiveUp(w) => J!F!GiveUp(w)
BY DEF S!F!submit, J!F!submit, S!F!Range, J!F!Range, S!F!Wakeup, J!F!Wakeup, S!F!HandOn, J!F!HandOn,
       S!F!cancel, J!F!cancel, S!F!Cancellable, J!F!Cancellable, S!F!complete, J!F!complete,
       S!F!Forget, J!F!Forget, S!F!Get, J!F!Get, S!F!Block, J!F!Block, S!F!GiveUp, J!F!GiveUp

LEMMA SameSubmit ==
  ASSUME NEW r, NEW p, NEW b, S!submit(r, p, b)
  PROVE  J!submit(r, p, b)
BY ZenonT(30), SameEnqueue, SameFallback
   DEF S!submit, J!submit, S!Known, J!Known, S!Range, J!Range, S!qvars, J!qvars, S!fvars, J!fvars

LEMMA SameAcquire ==
  ASSUME NEW w, S!acquire(w) \/ S!TimeOut(w)
  PROVE  J!acquire(w) \/ J!TimeOut(w)
BY ZenonT(30), SameDequeue, SameFallback
   DEF S!acquire, J!acquire, S!TimeOut, J!TimeOut, S!InQueue, J!InQueue, S!InFallback,
       J!InFallback, S!Switched, J!Switched, S!qvars, J!qvars, S!fvars, J!fvars, S!svars, J!svars

LEMMA SameBooks ==
  ASSUME NEW r
  PROVE  /\ S!Acquired(r) = J!Acquired(r)
         /\ S!cancel(r) => J!cancel(r)
         /\ \A b : S!complete(r, b) => J!complete(r, b)
         /\ S!Boost(r) => J!Boost(r)
BY ZenonT(30), SameEnqueue, SameFallback
   DEF S!Acquired, J!Acquired, S!cancel, J!cancel, S!complete, J!complete, S!Boost, J!Boost,
       S!Known, J!Known, S!Range, J!Range, S!ForgetSpending, J!ForgetSpending, S!Q!Ids, J!Q!Ids,
       S!qvars, J!qvars, S!fvars, J!fvars, S!svars, J!svars

LEMMA SameNext == S!Next => J!Next
BY ZenonT(30), SameSubmit, SameAcquire, SameBooks
   DEF S!Next, J!Next, S!PatientNext, J!PatientNext, S!start, J!start, S!stop, J!stop,
       S!Overdue, J!Overdue, S!qvars, J!qvars, S!fvars, J!fvars

(* The scheduler's invariant is one of the gateway's: shutdown() keeps it, *)
(* although it takes the workers out of acquire() behind their backs.      *)
LEMMA InitHostInv == Init => J!HostInv
<1>1. Init => J!Init
  BY DEF Init, S!Init, J!Init, S!Q!Init, J!Q!Init, S!F!Init, J!F!Init
<1> QED
  BY <1>1, J!InitHostInv, SchedulerAssumption DEF J!IsFiniteSet, IsFiniteSet

LEMMA NextHostInv == J!HostInv /\ [Next]_vars => J!HostInv'
<1>1. [Next]_vars => [J!Next]_(J!vars) \/ J!Halt
  BY SchedulerStep, SameNext
     DEF shutdown, J!Halt, S!vars, J!vars, S!qvars, J!qvars, S!fvars, J!fvars, S!svars, J!svars
<1> QED
  BY ZenonT(30), <1>1, J!NextHostInv, J!HaltHostInv, SchedulerAssumption
     DEF J!IsFiniteSet, IsFiniteSet

LEMMA HostInvariance == Spec => []J!HostInv
BY InitHostInv, NextHostInv, PTL DEF Spec

(* What a caller of the scheduler sees of that invariant. *)
LEMMA HostView == J!HostInv => J!Accounted /\ J!Fresh /\ J!Attended /\ J!TypeOK
BY ZenonT(30), J!HostAccounted, J!HostAttended, J!HostTypeOK, SchedulerAssumption
   DEF J!IsFiniteSet, IsFiniteSet

LEMMA HostHands == J!HostInv => Handed
BY HostView DEF J!TypeOK, J!Q!TypeOK, J!F!TypeOK, Handed

LEMMA AnswersInvariance == Spec => [](AInv /\ TInv /\ J!HostInv)
<1>1. J!Fresh => Unseen
  BY DEF J!Fresh, Unseen, J!Known, S!Known, J!Range, S!Range
<1>2. AInv /\ TInv /\ J!HostInv /\ [Next]_vars => (AInv /\ TInv /\ J!HostInv)'
  BY <1>1, HostView, HostHands, NextAInv, NextTInv, NextHostInv
<1> QED
  BY <1>2, InitAInv, InitTInv, InitHostInv, PTL DEF Spec

(* With all workers asleep nothing waits, but for the two gaps the switch  *)
(* to the fallback leaves.                                                 *)
THEOREM NothingWaits == Spec => []QueueAttended
<1>1. J!HostInv => QueueAttended
  BY HostView DEF J!Attended, QueueAttended
<1> QED
  BY <1>1, HostInvariance, PTL

(* A future that is not done has a handler that waits for it and a request *)
(* that can still be answered, unless it was cancelled as overdue; and the *)
(* clients are told what the backend said.  That no answer passes a future *)
(* by needs the scheduler's books: a request it has seen is queued,        *)
(* acquired or cancelled, whatever queue it went through.                  *)
THEOREM AnswersAreTrue == Spec => []AnswersAgree
<1>1. AInv /\ J!HostInv => AnswersAgree
  <2> SUFFICES ASSUME AInv, J!HostInv, NEW r \in Requests, fut[r] = "pending"
               PROVE  S!Acquired(r) > 0 \/ r \in S!Q!Ids(pending) \cup Range(fifo) \cup acked
    BY DEF AnswersAgree, AInv, Told
  <2>1. r \in J!Known
    BY DEF AInv, FutInv, FutKnown, J!Known, S!Known, J!Range, S!Range
  <2>2. J!Range(fifo) = Range(fifo) /\ J!Q!Ids(pending) = S!Q!Ids(pending)
    BY DEF J!Range, Range, J!Q!Ids, S!Q!Ids
  <2> QED
    BY <2>1, <2>2, HostView, SameBooks DEF J!Accounted
<1> QED
  BY <1>1, AnswersInvariance, PTL

LEMMA HostPromises ==
  J!HostInv => S!AgingSeesQueue /\ S!PendingTracks /\ S!NoLostWakeup /\ S!NoSleeperWhileQueued
<1>1. J!HostInv => S!AgingSeesQueue
  BY ZenonT(30), SameBooks
     DEF J!HostInv, J!SInv, J!AgingSeesQueue, S!AgingSeesQueue, J!Q!Ids, S!Q!Ids
<1>2. J!HostInv => S!PendingTracks /\ S!NoLostWakeup /\ S!NoSleeperWhileQueued
  BY ZenonT(30)
     DEF J!HostInv, J!SInv, J!FInv, J!F!PendingTracks, S!PendingTracks, S!F!PendingTracks,
         J!F!Range, S!F!Range, J!NoLostWakeup, J!NoSleeperWhileQueued, J!Q!NoLostWakeup,
         J!F!NoSleeperWhileQueued, S!NoLostWakeup, S!NoSleeperWhileQueued, S!Q!NoLostWakeup,
         S!F!NoSleeperWhileQueued, J!Q!Cardinality, S!Q!Cardinality, J!F!Cardinality,
         S!F!Cardinality
<1> QED
  BY <1>1, <1>2

(* The scheduler keeps its promises in the gateway, shutdown() and request *)
(* time-outs included: aging sees every request that waits in the priority *)
(* queue, the fallback's books are exact, and neither queue loses a        *)
(* wake-up.                                                                *)
THEOREM SchedulerPromisesKept ==
  Spec => [](/\ S!AgingSeesQueue /\ S!PendingTracks
             /\ S!NoLostWakeup /\ S!NoSleeperWhileQueued)
BY HostPromises, HostInvariance, PTL

(* No entry of the scheduler's books, or of its fallback's, outlives its   *)
(* request: whoever is in them is queued or has a forward task left.  It   *)
(* rests on the count of tasks, one per acquire() not yet completed, and   *)
(* on the scheduler's own promises about its books.                        *)
THEOREM BooksStayClosed == Spec => []BooksClosed
<1>1. ASSUME TInv, J!HostInv PROVE BooksClosed
  <2>1. S!AgingSeesQueue /\ S!PendingTracks /\ Handed
    BY <1>1, HostPromises, HostHands
  <2>2. spending \subseteq Requests /\ arrivals \in Seq(Requests)
    BY <1>1, HostView DEF J!TypeOK, J!F!TypeOK
  <2>3. S!Range(arrivals) \subseteq Requests
    BY <2>2 DEF S!Range
  <2>4. arrivals = served \o fifo /\ fifo \in Seq(Requests) /\ served \in Seq(Requests)
    BY <1>1, <2>1 DEF J!HostInv, J!SInv, J!FInv, J!F!FirstComeFirstServed, Handed
  <2>5. J!Range(served \o fifo) = J!Range(served) \cup J!Range(fifo)
    BY <2>4, J!RangeConcatenation, SchedulerAssumption DEF J!IsFiniteSet, IsFiniteSet
  <2>6. S!Range(arrivals) \subseteq S!Range(served) \cup Range(fifo)
    BY <2>4, <2>5 DEF J!Range, S!Range, Range
  <2> QED
    BY <1>1, <2>1, <2>2, <2>3, <2>6, TasksClose
<1> QED
  BY <1>1, AnswersInvariance, PTL

(* Types of the gateway and of the scheduler in it. *)
THEOREM GatewayTypes == Spec => []TypeOK
<1>1. AInv /\ TInv /\ J!HostInv => TypeOK
  BY ZenonT(30), HostView
     DEF AInv, TInv, FutInv, GTypes, TypeOK, J!TypeOK, S!TypeOK, J!Q!TypeOK, S!Q!TypeOK, J!F!TypeOK,
         S!F!TypeOK, J!Q!Item, S!Q!Item
<1> QED
  BY <1>1, AnswersInvariance, PTL

=============================================================================
