--------------------------- MODULE DeadlineHandler ---------------------------
(***************************************************************************)
(* pkg/burstmath/burstmath.go: DeadlineRequestHandler, which gathers calls *)
(* of CalcDeadline into batches for the vector instructions.               *)
(*                                                                         *)
(* A collector goroutine accepts requests one by one into its slots.  It   *)
(* sends the slots as a batch to the channel of the workers when they are  *)
(* full, or when the timer it armed with the first of them fires.  A       *)
(* worker computes a batch and answers its requests one after the other.   *)
(*                                                                         *)
(* The channels reqs, done and stop have no buffer: a send is one step of  *)
(* both sides.  batchReqs has room for as many batches as there are        *)
(* workers.  The AVX2 and the SSE4 collector differ in Parallel and in the *)
(* duration of the timer, which is abstracted: it fires at any time after  *)
(* it was armed, also when its batch is long gone.  Of the results only    *)
(* the deadline is modelled: the scoop is never asked for, as withScoop is *)
(* not copied to the native request.                                       *)
(***************************************************************************)
EXTENDS Integers, Sequences, FiniteSets

CONSTANTS
    Request,    \* each is made once: its caller builds a new one every time
    Parallel,   \* requests per batch: 8 for AVX2, 4 for SSE4
    Workers,    \* workerCount
    NoRequest   \* the empty request a slot holds at first

ASSUME HandlerAssumption ==
    /\ NoRequest \notin Request
    /\ Parallel \in Nat /\ Parallel >= 2
    /\ Workers \in Nat \ {0}

VARIABLES
    req,        \* how far the call of each request is
    computed,   \* requests whose deadline is computed
    collector,  \* what the collector is at
    pending,    \* the slots in use
    slots,
    timer,      \* armed, or fired since it was
    batches,    \* the channel batchReqs
    worker,     \* what each worker is at
    task,       \* the batch it has
    upto,       \* the request of it that is answered next
    stopper     \* what Stop is at: 0 before, then the worker, then the collector

vars == <<req, computed, collector, pending, slots, timer, batches, worker,
          task, upto, stopper>>
collectorVars == <<collector, pending, slots, timer>>
workerVars    == <<worker, task, upto, computed>>

Worker  == 1..Workers
Slots   == [1..Parallel -> Request \cup {NoRequest}]
Batch   == [pending : 0..Parallel, reqs : Slots]
Empty   == [i \in 1..Parallel |-> NoRequest]
NoBatch == [pending |-> 0, reqs |-> Empty]
AtCollector == Workers + 1
Returned    == Workers + 2

TypeOK ==
    /\ req \in [Request -> {"new", "calling", "waiting", "answered"}]
    /\ computed \subseteq Request \cup {NoRequest}
    /\ collector \in {"select", "send", "stopped"}
    /\ pending \in 0..Parallel /\ (collector = "select" => pending < Parallel)
    /\ slots \in Slots
    /\ timer \in {"armed", "off"}
    /\ batches \in Seq(Batch) /\ Len(batches) <= Workers
    /\ worker \in [Worker -> {"select", "answer", "stopped"}]
    /\ task \in [Worker -> Batch]
    /\ upto \in [Worker -> 1..Parallel]
    /\ stopper \in 0..Returned

Init ==
    /\ req = [r \in Request |-> "new"] /\ computed = {}
    /\ collector = "select" /\ pending = 0 /\ slots = Empty /\ timer = "off"
    /\ batches = <<>>
    /\ worker = [w \in Worker |-> "select"]
    /\ task = [w \in Worker |-> NoBatch] /\ upto = [w \in Worker |-> 1]
    /\ stopper = 0

-----------------------------------------------------------------------------
(* Callers and the collector *)

\* CalcDeadline and CalcDeadlineAndScoop: the request is offered to the collector.
Call(r) ==
    /\ req[r] = "new"
    /\ req' = [req EXCEPT ![r] = "calling"]
    /\ UNCHANGED <<collectorVars, workerVars, batches, stopper>>

\* MUTANT of Accept: the second request arms the timer.
Accept_ArmsSecond(r) ==
    /\ collector = "select" /\ req[r] = "calling"
    /\ req' = [req EXCEPT ![r] = "waiting"]
    /\ slots' = [slots EXCEPT ![pending + 1] = r]
    /\ pending' = pending + 1
    /\ timer' = IF pending = 1 THEN "armed" ELSE timer
    /\ collector' = IF pending' = Parallel THEN "send" ELSE "select"
    /\ UNCHANGED <<workerVars, batches, stopper>>

\* The collector takes a request.  The first arms the timer; the last of a batch
\* has the batch sent.
Accept(r) ==
    /\ collector = "select" /\ req[r] = "calling"
    /\ req' = [req EXCEPT ![r] = "waiting"]
    /\ slots' = [slots EXCEPT ![pending + 1] = r]
    /\ pending' = pending + 1
    /\ timer' = IF pending = 0 THEN "armed" ELSE timer
    /\ collector' = IF pending' = Parallel THEN "send" ELSE "select"
    /\ UNCHANGED <<workerVars, batches, stopper>>

\* MUTANT of Timeout: the timer is a ticker.
Timeout_Ticks ==
    /\ collector = "select" /\ timer = "armed"
    /\ collector' = "send"
    /\ UNCHANGED <<pending, slots, timer, workerVars, req, batches, stopper>>

\* The timer fires.  A full batch does not disarm it: what it then sends may be
\* empty.
Timeout ==
    /\ collector = "select" /\ timer = "armed"
    /\ timer' = "off"
    /\ collector' = "send"
    /\ UNCHANGED <<pending, slots, workerVars, req, batches, stopper>>

\* MUTANT of SendBatch: the slots stay in use.
SendBatch_KeepsPending ==
    /\ collector = "send" /\ Len(batches) < Workers
    /\ batches' = Append(batches, [pending |-> pending, reqs |-> slots])
    /\ pending' = IF pending = Parallel THEN 0 ELSE pending
    /\ collector' = "select"
    /\ UNCHANGED <<slots, timer, workerVars, req, stopper>>

\* The slots, with what earlier batches left in them, go to the channel as soon as
\* it has room.
SendBatch ==
    /\ collector = "send" /\ Len(batches) < Workers
    /\ batches' = Append(batches, [pending |-> pending, reqs |-> slots])
    /\ pending' = 0
    /\ collector' = "select"
    /\ UNCHANGED <<slots, timer, workerVars, req, stopper>>

-----------------------------------------------------------------------------
(* The workers *)

\* MUTANT of Computes: the last request of the batch is not handed over.
Computes_SkipsLast(b) == {b.reqs[i] : i \in {1} \cup 1..(b.pending - 1)}

\* The requests handed to the native code.  Where the batch is not full, its first
\* slot stands in: an empty batch has the request of an earlier one computed again.
Computes(b) == {b.reqs[i] : i \in {1} \cup 1..b.pending}

\* A batch is taken from the channel and computed.
Take(w) ==
    /\ worker[w] = "select" /\ batches # <<>>
    /\ batches' = Tail(batches)
    /\ LET b == Head(batches) IN
         /\ computed' = computed \cup Computes(b)
         /\ worker' = [worker EXCEPT ![w] = IF b.pending = 0 THEN "select" ELSE "answer"]
         /\ task' = [task EXCEPT ![w] = b]
         /\ upto' = [upto EXCEPT ![w] = 1]
    /\ UNCHANGED <<collectorVars, req, stopper>>

\* The worker answers the next request of its batch, whose caller waits for it.
Answer(w) ==
    LET r == task[w].reqs[upto[w]] IN
    /\ worker[w] = "answer" /\ req[r] = "waiting"
    /\ req' = [req EXCEPT ![r] = "answered"]
    /\ IF upto[w] < task[w].pending
       THEN upto' = [upto EXCEPT ![w] = @ + 1] /\ UNCHANGED worker
       ELSE worker' = [worker EXCEPT ![w] = "select"] /\ UNCHANGED upto
    /\ UNCHANGED <<collectorVars, task, computed, batches, stopper>>

-----------------------------------------------------------------------------
(* Stop *)

Stop ==
    /\ stopper = 0
    /\ stopper' = 1
    /\ UNCHANGED <<req, collectorVars, workerVars, batches>>

\* One worker after the other takes the stop, which it does in its select.
StopWorker ==
    /\ stopper \in Worker
    /\ worker[stopper] = "select"
    /\ worker' = [worker EXCEPT ![stopper] = "stopped"]
    /\ stopper' = stopper + 1
    /\ UNCHANGED <<req, collectorVars, task, upto, computed, batches>>

\* Then the collector does.
StopCollector ==
    /\ stopper = AtCollector
    /\ collector = "select"
    /\ collector' = "stopped"
    /\ stopper' = Returned
    /\ UNCHANGED <<req, pending, slots, timer, workerVars, batches>>

-----------------------------------------------------------------------------

Serve ==
    \/ \E r \in Request : Accept(r)
    \/ Timeout \/ SendBatch
    \/ \E w \in Worker : Take(w) \/ Answer(w)

Stopping == StopWorker \/ StopCollector

\* It is stopped when every call has returned, and not called afterwards.
Quiet == \A r \in Request : req[r] \in {"new", "answered"}
NextQuiet == (stopper = 0 /\ \E r \in Request : Call(r)) \/ Serve \/ (Quiet /\ Stop) \/ Stopping

Next == (\E r \in Request : Call(r)) \/ Serve \/ Stop \/ Stopping

\* Goroutines run.  Callers queue at the channel reqs, and select chooses among
\* what is ready at random: who is ready again and again is chosen at last.
Fairness ==
    /\ \A r \in Request : SF_vars(Accept(r))
    /\ SF_vars(Timeout) /\ WF_vars(SendBatch)
    /\ WF_vars(\E w \in Worker : Take(w)) /\ \A w \in Worker : WF_vars(Answer(w))
    /\ SF_vars(StopWorker) /\ SF_vars(StopCollector)

Spec        == Init /\ [][Next]_vars
FairSpec    == Spec /\ Fairness
FairQuiet   == Init /\ [][NextQuiet]_vars /\ Fairness

-----------------------------------------------------------------------------
(* Properties *)

\* The places that hold request r to be answered: slots in use, batches in the
\* channel, and what a worker has still to answer.
Places(r) ==
    {<<"slot", 0, i>> : i \in {j \in 1..pending : slots[j] = r}}
    \cup (UNION {{<<"batch", n, i>> : i \in {j \in 1..batches[n].pending : batches[n].reqs[j] = r}}
                  : n \in DOMAIN batches})
    \cup (UNION {{<<"task", w, i>> : i \in {j \in upto[w]..task[w].pending : task[w].reqs[j] = r}}
                  : w \in {v \in Worker : worker[v] = "answer"}})

\* A waiting call is in exactly one place, so that it is neither forgotten nor
\* answered twice, which would block the worker for good; no other call is in any,
\* though slots are reused and sent with what they held before.
InOnePlace == \A r \in Request : Cardinality(Places(r)) = IF req[r] = "waiting" THEN 1 ELSE 0

\* Requests that wait in the slots have a timer running that will send them.
PendingHasTimer == collector = "select" /\ pending > 0 => timer = "armed"

\* A call returns the deadline of its own request, computed before.
AnsweredComputed == \A r \in Request : req[r] = "answered" => r \in computed

\* The first slot, which stands in for missing requests, is never empty when a
\* batch is computed: the native code follows the pointer in it.
StandInExists == \A n \in DOMAIN batches : batches[n].reqs[1] # NoRequest

\* Every call is answered where the handler is stopped between calls, whether or
\* not other calls come to fill the batch.  (A call made after Stop waits for ever.)
Answered == \A r \in Request : (req[r] = "calling") ~> (req[r] = "answered")

\* Stop comes to its end: every goroutine of the handler is stopped.
Stops == (stopper # 0) ~> (stopper = Returned)
=============================================================================
