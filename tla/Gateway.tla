------------------------------ MODULE Gateway ------------------------------
(***************************************************************************)
(* ParseTrace and Gateway.Run of the Go gateway: a pool of worker          *)
(* goroutines, a feeder, a closer and the caller, connected by the         *)
(* unbuffered channel jobs, the buffered channel results and a context     *)
(* that may be cancelled at any time.  A select with several ready cases   *)
(* is a free choice.                                                       *)
(***************************************************************************)
EXTENDS Integers, Sequences, FiniteSets

CONSTANTS
  Traces,        \* input texts, as sequences of lines [id, valid, delay]
  WorkerCounts,  \* values of Gateway.Workers
  MaxWorkers,    \* 8 in the code
  MaxQueue       \* 32 in the code

ASSUME BoundsAssumption ==
  /\ MaxWorkers \in Nat \ {0} /\ MaxQueue \in Nat
  /\ WorkerCounts \subseteq Nat
  /\ Traces \subseteq Seq([id : STRING, valid : BOOLEAN, delay : Nat])

Policies == {"baseline", "generated"}

VARIABLES
  trace, count, policy,  \* arguments: the text, Workers, Policy
  in,            \* the parsed requests
  queue,         \* g.Policy.Order(in), what is left to feed
  feeder,        \* "feeding", "done"
  jobs_closed,
  pc, job,       \* per worker: where it is, and the request it holds
  results, results_closed,
  out,           \* what the caller has collected
  ctx_done,
  returned       \* "parse", "running", or what was returned

vars == <<trace, count, policy, in, queue, feeder, jobs_closed, pc, job,
          results, results_closed, out, ctx_done, returned>>

Workers == 1..count
None == [id |-> "none", delay |-> 0]

-----------------------------------------------------------------------------
(* ParseTrace: the queue limit, then well-formed lines with distinct ids.  *)
Accepted(t) ==
  /\ Len(t) <= MaxQueue
  /\ \A i \in 1..Len(t) : t[i].valid
  /\ \A i, j \in 1..Len(t) : t[i].id = t[j].id => i = j

(* GeneratedPolicy.Order: insertion sort.  Element i of a sequence whose   *)
(* first i - 1 elements are sorted moves down to the position landing[i].  *)
Insert(s, i) ==
  LET landing[j \in 1..i] ==
        IF j > 1 /\ s[i].delay < s[j - 1].delay THEN landing[j - 1] ELSE j
      k == landing[i]
  IN [n \in 1..Len(s) |-> IF n < k \/ n > i THEN s[n]
                          ELSE IF n = k THEN s[i] ELSE s[n - 1]]

GeneratedOrder(s) ==
  LET sorted[i \in 0..Len(s)] == IF i <= 1 THEN s ELSE Insert(sorted[i - 1], i)
  IN sorted[Len(s)]

Order(p, s) == IF p = "baseline" THEN s ELSE GeneratedOrder(s)

-----------------------------------------------------------------------------
Init ==
  /\ trace \in Traces /\ count \in WorkerCounts /\ policy \in Policies
  /\ in = <<>> /\ queue = <<>> /\ feeder = "feeding" /\ jobs_closed = FALSE
  /\ pc = [w \in Workers |-> "idle"] /\ job = [w \in Workers |-> None]
  /\ results = <<>> /\ results_closed = FALSE /\ out = <<>>
  /\ ctx_done = FALSE
  /\ returned = "parse"

(* ParseTrace, Run's admission check and the start of its goroutines.      *)
start ==
  /\ returned = "parse"
  /\ IF Accepted(trace) /\ count \in 1..MaxWorkers
     THEN LET requests == [i \in 1..Len(trace) |->
                             [id |-> trace[i].id, delay |-> trace[i].delay]]
          IN /\ in' = requests
             /\ queue' = Order(policy, requests)
             /\ returned' = "running"
     ELSE /\ returned' = "refused"
          /\ UNCHANGED <<in, queue>>
  /\ UNCHANGED <<trace, count, policy, feeder, jobs_closed, pc, job, results,
                 results_closed, out, ctx_done>>

(* The caller cancels the context, or its deadline passes.                 *)
cancel ==
  /\ returned = "running" /\ ~ctx_done
  /\ ctx_done' = TRUE
  /\ UNCHANGED <<trace, count, policy, in, queue, feeder, jobs_closed, pc, job,
                 results, results_closed, out, returned>>

Running == returned # "parse" /\ returned # "refused"

(* jobs <- request meets <-jobs: the channel has no buffer.                *)
handoff(w) ==
  /\ Running /\ feeder = "feeding" /\ queue # <<>> /\ pc[w] = "idle"
  /\ queue' = Tail(queue)
  /\ pc' = [pc EXCEPT ![w] = "delay"]
  /\ job' = [job EXCEPT ![w] = Head(queue)]
  /\ UNCHANGED <<trace, count, policy, in, feeder, jobs_closed, results,
                 results_closed, out, ctx_done, returned>>

\* Defect: the feeder does not watch the context.
feeder_ends_when_fed ==
  /\ Running /\ feeder = "feeding" /\ queue = <<>>
  /\ feeder' = "done" /\ jobs_closed' = TRUE
  /\ UNCHANGED <<trace, count, policy, in, queue, pc, job, results,
                 results_closed, out, ctx_done, returned>>

(* The feeder has fed everything, or sees the context done: close(jobs).   *)
feeder_ends ==
  /\ Running /\ feeder = "feeding"
  /\ queue = <<>> \/ ctx_done
  /\ feeder' = "done"
  /\ jobs_closed' = TRUE
  /\ UNCHANGED <<trace, count, policy, in, queue, pc, job, results,
                 results_closed, out, ctx_done, returned>>

(* A worker returns: the jobs channel is closed, or the context is done at *)
(* one of its three selects.                                               *)
worker_ends(w) ==
  /\ Running /\ pc[w] # "done"
  /\ ctx_done \/ (pc[w] = "idle" /\ jobs_closed)
  /\ pc' = [pc EXCEPT ![w] = "done"]
  /\ job' = [job EXCEPT ![w] = None]
  /\ UNCHANGED <<trace, count, policy, in, queue, feeder, jobs_closed, results,
                 results_closed, out, ctx_done, returned>>

(* <-time.After(request.Delay)                                             *)
timer(w) ==
  /\ pc[w] = "delay"
  /\ pc' = [pc EXCEPT ![w] = "send"]
  /\ UNCHANGED <<trace, count, policy, in, queue, feeder, jobs_closed, job,
                 results, results_closed, out, ctx_done, returned>>

(* results <- Result: the buffer holds one result per request.             *)
send(w) ==
  /\ pc[w] = "send" /\ Len(results) < Len(in)
  /\ results' = Append(results, job[w].id)
  /\ pc' = [pc EXCEPT ![w] = "idle"]
  /\ job' = [job EXCEPT ![w] = None]
  /\ UNCHANGED <<trace, count, policy, in, queue, feeder, jobs_closed,
                 results_closed, out, ctx_done, returned>>

\* Defect: results is closed without waiting for the workers.
close_results_early ==
  /\ Running /\ ~results_closed /\ feeder = "done"
  /\ results_closed' = TRUE
  /\ UNCHANGED <<trace, count, policy, in, queue, feeder, jobs_closed, pc, job,
                 results, out, ctx_done, returned>>

(* workers.Wait(); close(results)                                          *)
close_results ==
  /\ Running /\ ~results_closed
  /\ \A w \in Workers : pc[w] = "done"
  /\ results_closed' = TRUE
  /\ UNCHANGED <<trace, count, policy, in, queue, feeder, jobs_closed, pc, job,
                 results, out, ctx_done, returned>>

(* One round of for result := range results.                               *)
collect ==
  /\ returned = "running" /\ results # <<>>
  /\ out' = Append(out, Head(results))
  /\ results' = Tail(results)
  /\ UNCHANGED <<trace, count, policy, in, queue, feeder, jobs_closed, pc, job,
                 results_closed, ctx_done, returned>>

\* Defect: the number of results is checked before the context.
return_count_first ==
  /\ returned = "running" /\ results = <<>> /\ results_closed
  /\ returned' = IF Len(out) # Len(in) THEN "incomplete"
                 ELSE IF ctx_done THEN "cancelled" ELSE "ok"
  /\ UNCHANGED <<trace, count, policy, in, queue, feeder, jobs_closed, pc, job,
                 results, results_closed, out, ctx_done>>

(* The range ends; Run checks the context, then the number of results.     *)
return ==
  /\ returned = "running" /\ results = <<>> /\ results_closed
  /\ returned' = IF ctx_done THEN "cancelled"
                 ELSE IF Len(out) # Len(in) THEN "incomplete" ELSE "ok"
  /\ UNCHANGED <<trace, count, policy, in, queue, feeder, jobs_closed, pc, job,
                 results, results_closed, out, ctx_done>>

worker(w) == handoff(w) \/ worker_ends(w) \/ timer(w) \/ send(w)

Next ==
  \/ start \/ cancel
  \/ \E w \in Workers : handoff(w) \/ worker_ends(w) \/ timer(w) \/ send(w)
  \/ feeder_ends \/ close_results \/ collect \/ return

(* The Go scheduler runs every runnable goroutine and timers fire; nothing *)
(* makes the caller cancel.                                                *)
Fairness ==
  /\ WF_vars(start) /\ WF_vars(feeder_ends) /\ WF_vars(close_results)
  /\ WF_vars(collect) /\ WF_vars(return)
  /\ \A w \in 1..MaxWorkers : WF_vars(w \in Workers /\ worker(w))

Spec == Init /\ [][Next]_vars /\ Fairness

-----------------------------------------------------------------------------
Ids(s) == {s[i].id : i \in 1..Len(s)}
Elements(s) == {s[i] : i \in 1..Len(s)}

(* No goroutine sends on a closed channel or blocks on a full one: while a *)
(* worker holds a request, results is open and has room for its answer,    *)
(* and jobs is not closed under the feeder.                                *)
NoSendOnClosed ==
  /\ \A w \in Workers : pc[w] \in {"delay", "send"} =>
       ~results_closed /\ Len(results) < Len(in)
  /\ jobs_closed => feeder = "done"

(* Run keeps the gateway's contract: each request answered at most once,   *)
(* "ok" only with all of them, "incomplete" never, failure only by refusal *)
(* or cancellation, and it always returns.                                 *)
Contract ==
  INSTANCE GatewayContract WITH
    Requests <- UNION {Ids(t) : t \in Traces},
    asked <- Ids(trace),
    answered <- Elements(results) \cup Elements(out),
    cancelled <- ctx_done,
    returned <- IF returned = "parse" THEN "running" ELSE returned

KeepsContract == Contract!CSpec

(* Every goroutine of an admitted run ends, also after a cancellation: no  *)
(* leak, no deadlock ("exhaustive deadlock absence" is an open question of *)
(* the study's assurance case).                                            *)
NoGoroutineLeak ==
  <>[](\/ returned = "refused"
       \/ /\ returned # "running" /\ feeder = "done" /\ results_closed
          /\ \A w \in Workers : pc[w] = "done")
============================================================================
