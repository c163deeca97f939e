------------------------ MODULE DeadlineHandlerProofs ------------------------
(***************************************************************************)
(* What DeadlineHandler does whatever the number of requests, workers and  *)
(* slots, also while it is being stopped: requests in the slots have a     *)
(* timer, the slot that stands in for missing requests is never empty,     *)
(* only computed requests are answered, and a waiting call is neither lost *)
(* nor answered twice.                                                     *)
(***************************************************************************)
EXTENDS DeadlineHandler, SequenceTheorems, FiniteSetTheorems, TLAPS

\* Once a request was accepted the first slot holds one: the timer is not armed, and
\* nothing is sent, before that.
SlotInv ==
    /\ PendingHasTimer
    /\ timer = "armed" \/ collector = "send" \/ pending > 0 => slots[1] # NoRequest
    /\ StandInExists

\* What a worker has to answer is computed.
TaskInv ==
    /\ AnsweredComputed
    /\ \A w \in Worker : worker[w] = "answer" =>
         /\ upto[w] <= task[w].pending
         /\ \A i \in 1..task[w].pending : task[w].reqs[i] \in computed

DInv == TypeOK /\ SlotInv /\ TaskInv

-----------------------------------------------------------------------------

LEMMA SlotsSent ==
    ASSUME TypeOK, SendBatch
    PROVE  /\ batches' \in Seq(Batch) /\ Len(batches') = Len(batches) + 1
           /\ \A n \in DOMAIN batches' :
                \/ n \in DOMAIN batches /\ batches'[n] = batches[n]
                \/ batches'[n] = [pending |-> pending, reqs |-> slots]
<1>1. [pending |-> pending, reqs |-> slots] \in Batch
  BY DEF TypeOK, Batch
<1> QED BY <1>1, AppendProperties DEF TypeOK, SendBatch

LEMMA BatchTaken ==
    ASSUME TypeOK, NEW w \in Worker, Take(w)
    PROVE  /\ Head(batches) \in Batch
           /\ batches' \in Seq(Batch) /\ Len(batches') = Len(batches) - 1
           /\ \A n \in DOMAIN batches' : n + 1 \in DOMAIN batches /\ batches'[n] = batches[n + 1]
BY HeadTailProperties DEF TypeOK, Take

LEMMA DInit == Init => DInv
<1> SUFFICES ASSUME Init PROVE DInv
  OBVIOUS
<1> USE HandlerAssumption DEF Init
<1>1. NoBatch \in Batch
  BY DEF NoBatch, Empty, Batch, Slots
<1>2. TypeOK
  BY <1>1 DEF TypeOK, Empty, Slots, Worker, Returned
<1>3. SlotInv
  BY DEF SlotInv, PendingHasTimer, StandInExists
<1>4. TaskInv
  BY DEF TaskInv, AnsweredComputed
<1> QED BY <1>2, <1>3, <1>4 DEF DInv

LEMMA AcceptInv == ASSUME NEW r \in Request PROVE DInv /\ Accept(r) => DInv'
<1> SUFFICES ASSUME DInv, Accept(r) PROVE DInv'
  OBVIOUS
<1>1. pending \in 0..(Parallel - 1) /\ pending + 1 \in 1..Parallel
  BY HandlerAssumption DEF DInv, TypeOK, Accept
<1>2. slots' \in Slots /\ slots'[pending + 1] = r
  BY <1>1 DEF DInv, TypeOK, Accept, Slots
<1>3. \A i \in 1..Parallel : i # pending + 1 => slots'[i] = slots[i]
  BY <1>1 DEF DInv, TypeOK, Accept, Slots
<1>4. TypeOK'
  BY <1>1, <1>2, HandlerAssumption DEF DInv, TypeOK, Accept, workerVars
<1>5. SlotInv'
  <2>1. slots'[1] # NoRequest
    BY <1>1, <1>2, <1>3, HandlerAssumption DEF DInv, SlotInv
  <2>2. timer' = "armed"
    BY <1>1 DEF DInv, SlotInv, PendingHasTimer, Accept
  <2> QED BY <2>1, <2>2 DEF DInv, SlotInv, PendingHasTimer, StandInExists, Accept
<1>6. TaskInv'
  BY DEF DInv, TypeOK, TaskInv, AnsweredComputed, Accept, workerVars
<1> QED BY <1>4, <1>5, <1>6 DEF DInv

LEMMA SendBatchInv == DInv /\ SendBatch => DInv'
<1> SUFFICES ASSUME DInv, SendBatch PROVE DInv'
  OBVIOUS
<1>1. TypeOK'
  BY SlotsSent, HandlerAssumption DEF DInv, TypeOK, SendBatch, workerVars
<1>2. StandInExists'
  BY SlotsSent DEF DInv, SlotInv, StandInExists, SendBatch
<1>3. SlotInv'
  BY <1>2 DEF DInv, SlotInv, PendingHasTimer, SendBatch
<1>4. TaskInv'
  BY DEF DInv, TaskInv, AnsweredComputed, SendBatch, workerVars
<1> QED BY <1>1, <1>3, <1>4 DEF DInv

LEMMA TakeInv == ASSUME NEW w \in Worker PROVE DInv /\ Take(w) => DInv'
<1> SUFFICES ASSUME DInv, Take(w) PROVE DInv'
  OBVIOUS
<1> DEFINE b == Head(batches)
<1>1. b \in Batch /\ b.pending \in 0..Parallel /\ b.reqs \in Slots
  BY BatchTaken DEF DInv, Batch
<1>2. computed' = computed \cup Computes(b)
  BY DEF Take
<1>3. Computes(b) \subseteq Request \cup {NoRequest}
  BY <1>1, HandlerAssumption DEF Computes, Slots
<1>5. TypeOK'
  BY <1>1, <1>2, <1>3, BatchTaken, HandlerAssumption
     DEF DInv, TypeOK, Take, collectorVars
<1>6. SlotInv'
  <2>1. StandInExists'
    BY BatchTaken DEF DInv, SlotInv, StandInExists
  <2> QED BY <2>1 DEF DInv, SlotInv, PendingHasTimer, Take, collectorVars
<1>7. TaskInv'
  <2>1. AnsweredComputed'
    BY <1>2 DEF DInv, TaskInv, AnsweredComputed, Take
  <2>2. task' = [task EXCEPT ![w] = b] /\ upto' = [upto EXCEPT ![w] = 1]
    BY DEF Take
  <2>3. worker' = [worker EXCEPT ![w] = IF b.pending = 0 THEN "select" ELSE "answer"]
    BY DEF Take
  <2>4. \A i \in 1..b.pending : b.reqs[i] \in Computes(b)
    BY DEF Computes
  <2>5. ASSUME NEW v \in Worker, worker'[v] = "answer"
        PROVE  /\ upto'[v] <= task'[v].pending
               /\ \A i \in 1..task'[v].pending : task'[v].reqs[i] \in computed'
    <3>1. CASE v = w
      BY <3>1, <2>2, <2>3, <2>4, <2>5, <1>1, <1>2 DEF DInv, TypeOK
    <3>2. CASE v # w
      BY <3>2, <2>2, <2>3, <2>5, <1>2 DEF DInv, TypeOK, TaskInv
    <3> QED BY <3>1, <3>2
  <2> QED BY <2>1, <2>5 DEF TaskInv
<1> QED BY <1>5, <1>6, <1>7 DEF DInv

LEMMA AnswerInv == ASSUME NEW w \in Worker PROVE DInv /\ Answer(w) => DInv'
<1> SUFFICES ASSUME DInv, Answer(w) PROVE DInv'
  OBVIOUS
<1> DEFINE r == task[w].reqs[upto[w]]
<1>1. task[w] \in Batch /\ upto[w] \in 1..Parallel /\ task[w].pending \in 0..Parallel
  BY DEF DInv, TypeOK, Batch
<1>2. upto[w] \in 1..task[w].pending /\ r \in computed
  BY <1>1 DEF DInv, TaskInv, Answer
<1>3. /\ upto' \in [Worker -> 1..Parallel]
      /\ upto'[w] \in {upto[w], upto[w] + 1} /\ upto'[w] <= task[w].pending
      /\ \A v \in Worker \ {w} : upto'[v] = upto[v]
  <2>1. CASE upto[w] < task[w].pending
    <3>1. upto' = [upto EXCEPT ![w] = upto[w] + 1]
      BY <2>1 DEF Answer
    <3>2. upto[w] + 1 \in 1..Parallel /\ upto[w] + 1 <= task[w].pending
      BY <1>1, <2>1, HandlerAssumption
    <3> QED BY <3>1, <3>2 DEF DInv, TypeOK
  <2>2. CASE ~(upto[w] < task[w].pending)
    BY <1>1, <1>2, <2>2 DEF DInv, TypeOK, Answer
  <2> QED BY <2>1, <2>2
<1>4. /\ worker' \in [Worker -> {"select", "answer", "stopped"}]
      /\ \A v \in Worker \ {w} : worker'[v] = worker[v]
  BY DEF DInv, TypeOK, Answer
<1>5. req' \in [Request -> {"new", "calling", "waiting", "answered"}]
  BY DEF DInv, TypeOK, Answer
<1>6. TypeOK'
  BY <1>3, <1>4, <1>5 DEF DInv, TypeOK, Answer, collectorVars
<1>7. SlotInv'
  BY DEF DInv, SlotInv, PendingHasTimer, StandInExists, Answer, collectorVars
<1>8. AnsweredComputed'
  BY <1>2 DEF DInv, TypeOK, TaskInv, AnsweredComputed, Answer
<1>9. TaskInv'
  <2>1. task' = task /\ computed' = computed /\ worker[w] = "answer"
    BY DEF Answer
  <2>2. upto'[w] <= task[w].pending
    BY <1>1, <1>2, <1>3
  <2> QED BY <2>1, <2>2, <1>8, <1>3, <1>4 DEF DInv, TaskInv
<1> QED BY <1>6, <1>7, <1>9 DEF DInv

LEMMA StoppingInv == DInv /\ (Stop \/ Stopping) => DInv'
<1> SUFFICES ASSUME DInv, Stop \/ Stopping PROVE DInv'
  OBVIOUS
<1> USE HandlerAssumption
<1>1. TypeOK'
  <2>1. CASE Stop
    BY <2>1 DEF DInv, TypeOK, Stop, Worker, Returned, workerVars, collectorVars
  <2>2. CASE StopWorker
    BY <2>2 DEF DInv, TypeOK, StopWorker, Worker, Returned, collectorVars
  <2>3. CASE StopCollector
    BY <2>3 DEF DInv, TypeOK, StopCollector, Returned, workerVars
  <2> QED BY <2>1, <2>2, <2>3 DEF Stopping
<1>2. SlotInv'
  BY DEF DInv, SlotInv, PendingHasTimer, StandInExists, Stopping, Stop, StopWorker,
         StopCollector, collectorVars
<1>3. TaskInv'
  BY DEF DInv, TypeOK, TaskInv, AnsweredComputed, Stopping, Stop, StopWorker,
         StopCollector, workerVars
<1> QED BY <1>1, <1>2, <1>3 DEF DInv

LEMMA DStep == DInv /\ [Next]_vars => DInv'
<1> SUFFICES ASSUME DInv, [Next]_vars PROVE DInv'
  OBVIOUS
<1>1. ASSUME NEW r \in Request, Call(r) PROVE DInv'
  BY <1>1 DEF Call, DInv, TypeOK, SlotInv, PendingHasTimer, StandInExists, TaskInv,
              AnsweredComputed, collectorVars, workerVars
<1>2. ASSUME NEW r \in Request, Accept(r) PROVE DInv'
  BY <1>2, AcceptInv
<1>3. CASE Timeout
  BY <1>3 DEF Timeout, DInv, TypeOK, SlotInv, PendingHasTimer, StandInExists, TaskInv,
              AnsweredComputed, workerVars
<1>4. CASE SendBatch
  BY <1>4, SendBatchInv
<1>5. ASSUME NEW w \in Worker, Take(w) \/ Answer(w) PROVE DInv'
  BY <1>5, TakeInv, AnswerInv
<1>6. CASE Stop \/ Stopping
  BY <1>6, StoppingInv
<1>7. CASE UNCHANGED vars
  BY <1>7 DEF vars, DInv, TypeOK, SlotInv, PendingHasTimer, StandInExists, TaskInv,
              AnsweredComputed
<1> QED BY <1>1, <1>2, <1>3, <1>4, <1>5, <1>6, <1>7 DEF Next, Serve

\* The inductive invariant of the handler.
THEOREM HandlerInvariant == Spec => []DInv
BY DInit, DStep, PTL DEF Spec

\* The handler's variables keep their types: pending never passes the slots, and the
\* channel of batches never holds more than it has room for, also during Stop.
THEOREM TypeCorrect == Spec => []TypeOK
<1>1. DInv => TypeOK
  BY DEF DInv
<1> QED BY <1>1, HandlerInvariant, PTL

\* Requests in the slots of the collector always have a timer that will send them.
THEOREM TimerIsArmed == Spec => []PendingHasTimer
<1>1. DInv => PendingHasTimer
  BY DEF DInv, SlotInv
<1> QED BY <1>1, HandlerInvariant, PTL

\* The native code never gets the empty request the slots start with.
THEOREM StandIn == Spec => []StandInExists
<1>1. DInv => StandInExists
  BY DEF DInv, SlotInv
<1> QED BY <1>1, HandlerInvariant, PTL

\* CalcDeadline never returns before its deadline is computed.
THEOREM AnswersAreComputed == Spec => []AnsweredComputed
<1>1. DInv => AnsweredComputed
  BY DEF DInv, TaskInv
<1> QED BY <1>1, HandlerInvariant, PTL

-----------------------------------------------------------------------------
(* Where a waiting call is *)

\* A call that waits is in one place, any other in none.
PlaceInv ==
    \A r \in Request : IF req[r] = "waiting" THEN \E p : Places(r) = {p} ELSE Places(r) = {}

InSlot(r, i)     == i \in 1..pending /\ slots[i] = r
InBatch(r, n, i) == n \in DOMAIN batches /\ i \in 1..batches[n].pending /\ batches[n].reqs[i] = r
InTask(r, w, i)  ==
    w \in Worker /\ worker[w] = "answer" /\ i \in upto[w]..task[w].pending /\ task[w].reqs[i] = r

LEMMA InPlaces ==
    ASSUME NEW r, NEW p
    PROVE  p \in Places(r) <=> \/ \E i : InSlot(r, i) /\ p = <<"slot", 0, i>>
                               \/ \E n, i : InBatch(r, n, i) /\ p = <<"batch", n, i>>
                               \/ \E w, i : InTask(r, w, i) /\ p = <<"task", w, i>>
<1> DEFINE inSlots   == {<<"slot", 0, i>> : i \in {j \in 1..pending : slots[j] = r}}
           inBatch(n) == {<<"batch", n, i>> : i \in {j \in 1..batches[n].pending : batches[n].reqs[j] = r}}
           inBatches == UNION {inBatch(n) : n \in DOMAIN batches}
           answers   == {v \in Worker : worker[v] = "answer"}
           inTask(w) == {<<"task", w, i>> : i \in {j \in upto[w]..task[w].pending : task[w].reqs[j] = r}}
           inTasks   == UNION {inTask(w) : w \in answers}
<1>1. Places(r) = inSlots \cup inBatches \cup inTasks
  BY DEF Places
<1>2. p \in inSlots <=> \E i : InSlot(r, i) /\ p = <<"slot", 0, i>>
  BY DEF InSlot
<1>3. \A n : p \in inBatch(n) <=> \E i : i \in 1..batches[n].pending /\ batches[n].reqs[i] = r /\ p = <<"batch", n, i>>
  OBVIOUS
<1>4. p \in inBatches <=> \E n \in DOMAIN batches : p \in inBatch(n)
  OBVIOUS
<1>5. \A w : p \in inTask(w) <=> \E i : i \in upto[w]..task[w].pending /\ task[w].reqs[i] = r /\ p = <<"task", w, i>>
  OBVIOUS
<1>6. p \in inTasks <=> \E w \in answers : p \in inTask(w)
  OBVIOUS
<1>7. \A w : w \in answers <=> w \in Worker /\ worker[w] = "answer"
  OBVIOUS
<1> HIDE DEF inSlots, inBatch, inBatches, inTask, inTasks, answers
<1>8. p \in inBatches <=> \E n, i : InBatch(r, n, i) /\ p = <<"batch", n, i>>
  BY <1>3, <1>4 DEF InBatch
<1>9. p \in inTasks <=> \E w, i : InTask(r, w, i) /\ p = <<"task", w, i>>
  BY <1>5, <1>6, <1>7 DEF InTask
<1> QED BY <1>1, <1>2, <1>8, <1>9

\* The same of the next state.
LEMMA InPlacesNext ==
    ASSUME NEW r, NEW p
    PROVE  p \in Places(r)' <=> \/ \E i : InSlot(r, i)' /\ p = <<"slot", 0, i>>
                                \/ \E n, i : InBatch(r, n, i)' /\ p = <<"batch", n, i>>
                                \/ \E w, i : InTask(r, w, i)' /\ p = <<"task", w, i>>
<1> DEFINE inSlots   == {<<"slot", 0, i>> : i \in {j \in 1..pending : slots[j] = r}}
           inBatch(n) == {<<"batch", n, i>> : i \in {j \in 1..batches[n].pending : batches[n].reqs[j] = r}}
           inBatches == UNION {inBatch(n) : n \in DOMAIN batches}
           answers   == {v \in Worker : worker[v] = "answer"}
           inTask(w) == {<<"task", w, i>> : i \in {j \in upto[w]..task[w].pending : task[w].reqs[j] = r}}
           inTasks   == UNION {inTask(w) : w \in answers}
<1>1. Places(r)' = inSlots' \cup inBatches' \cup inTasks'
  BY DEF Places
<1>2. p \in inSlots' <=> \E i : InSlot(r, i)' /\ p = <<"slot", 0, i>>
  BY DEF InSlot
<1>3. \A n : p \in inBatch(n)' <=> \E i : i \in 1..batches'[n].pending /\ batches'[n].reqs[i] = r /\ p = <<"batch", n, i>>
  OBVIOUS
<1>4. p \in inBatches' <=> \E n \in DOMAIN batches' : p \in inBatch(n)'
  OBVIOUS
<1>5. \A w : p \in inTask(w)' <=> \E i : i \in upto'[w]..task'[w].pending /\ task'[w].reqs[i] = r /\ p = <<"task", w, i>>
  OBVIOUS
<1>6. p \in inTasks' <=> \E w \in answers' : p \in inTask(w)'
  OBVIOUS
<1>7. \A w : w \in answers' <=> w \in Worker /\ worker'[w] = "answer"
  OBVIOUS
<1> HIDE DEF inSlots, inBatch, inBatches, inTask, inTasks, answers
<1>8. p \in inBatches' <=> \E n, i : InBatch(r, n, i)' /\ p = <<"batch", n, i>>
  BY <1>3, <1>4 DEF InBatch
<1>9. p \in inTasks' <=> \E w, i : InTask(r, w, i)' /\ p = <<"task", w, i>>
  BY <1>5, <1>6, <1>7 DEF InTask
<1> QED BY <1>1, <1>2, <1>8, <1>9

\* Nobody moves where neither the slots nor the batches nor what workers have to
\* answer changes.
LEMMA NobodyMoves ==
    ASSUME NEW r,
           \A i : InSlot(r, i)' <=> InSlot(r, i),
           \A n, i : InBatch(r, n, i)' <=> InBatch(r, n, i),
           \A w, i : InTask(r, w, i)' <=> InTask(r, w, i)
    PROVE  Places(r)' = Places(r)
<1>1. ASSUME NEW p PROVE p \in Places(r)' <=> p \in Places(r)
  BY InPlaces, InPlacesNext
<1> QED BY <1>1

LEMMA AcceptPlace == ASSUME NEW r \in Request PROVE DInv /\ PlaceInv /\ Accept(r) => PlaceInv'
<1> SUFFICES ASSUME DInv, PlaceInv, Accept(r) PROVE PlaceInv'
  OBVIOUS
<1>1. pending \in 0..(Parallel - 1) /\ pending' = pending + 1
  BY HandlerAssumption DEF DInv, TypeOK, Accept
<1>2. \A i \in 1..Parallel : slots'[i] = IF i = pending + 1 THEN r ELSE slots[i]
  BY <1>1 DEF DInv, TypeOK, Accept, Slots
<1>3. \A q, i : InSlot(q, i)' <=> InSlot(q, i) \/ (q = r /\ i = pending + 1)
  BY <1>1, <1>2, HandlerAssumption DEF InSlot
<1>4. \A q, n, i : InBatch(q, n, i)' <=> InBatch(q, n, i)
  BY DEF InBatch, Accept
<1>5. \A q, v, i : InTask(q, v, i)' <=> InTask(q, v, i)
  BY DEF InTask, Accept, workerVars
<1>6. \A q \in Request \ {r} : Places(q)' = Places(q) /\ req'[q] = req[q]
  <2> TAKE q \in Request \ {r}
  <2>1. Places(q)' = Places(q)
    BY <1>3, <1>4, <1>5, NobodyMoves
  <2> QED BY <2>1 DEF DInv, TypeOK, Accept
<1>7. Places(r)' = {<<"slot", 0, pending + 1>>}
  <2>1. Places(r) = {}
    BY DEF PlaceInv, Accept
  <2>2. ASSUME NEW p PROVE p \in Places(r)' <=> p = <<"slot", 0, pending + 1>>
    <3>1. p \in Places(r)' <=> p \in Places(r) \/ p = <<"slot", 0, pending + 1>>
      BY <1>3, <1>4, <1>5, InPlaces, InPlacesNext
    <3> QED BY <2>1, <3>1
  <2> QED BY <2>2
<1>8. req'[r] = "waiting"
  BY DEF DInv, TypeOK, Accept
<1> QED BY <1>6, <1>7, <1>8 DEF PlaceInv

LEMMA SendPlace == DInv /\ PlaceInv /\ SendBatch => PlaceInv'
<1> SUFFICES ASSUME DInv, PlaceInv, SendBatch PROVE PlaceInv'
  OBVIOUS
<1> DEFINE sent == [pending |-> pending, reqs |-> slots]
<1>0. PICK last : last = Len(batches) + 1
  OBVIOUS
<1>1. /\ DOMAIN batches' = DOMAIN batches \cup {last} /\ last \notin DOMAIN batches
      /\ batches'[last] = sent /\ \A n \in DOMAIN batches : batches'[n] = batches[n]
  <2>1. sent \in Batch /\ batches \in Seq(Batch) /\ batches' = Append(batches, sent)
    BY DEF DInv, TypeOK, Batch, SendBatch
  <2> QED BY <1>0, <2>1, AppendProperties
<1>2. \A r, i : ~InSlot(r, i)'
  BY DEF InSlot, SendBatch
<1>3. \A r, n, i : InBatch(r, n, i)' <=> InBatch(r, n, i) \/ (n = last /\ InSlot(r, i))
  BY <1>1 DEF InBatch, InSlot
<1>4. \A r, v, i : InTask(r, v, i)' <=> InTask(r, v, i)
  BY DEF InTask, SendBatch, workerVars
<1> DEFINE Moved(p) == IF p[1] = "slot" THEN <<"batch", last, p[3]>> ELSE p
<1>5. ASSUME NEW r \in Request, NEW q
      PROVE  q \in Places(r)' <=> \E p \in Places(r) : q = Moved(p)
  <2>1. ASSUME q \in Places(r)' PROVE \E p \in Places(r) : q = Moved(p)
    <3>1. CASE \E n, i : InBatch(r, n, i) /\ q = <<"batch", n, i>>
      <4>1. q \in Places(r) /\ Moved(q) = q
        BY <3>1, InPlaces
      <4> QED BY <4>1
    <3>2. CASE \E i : InSlot(r, i) /\ q = <<"batch", last, i>>
      <4>1. PICK i : InSlot(r, i) /\ q = <<"batch", last, i>>
        BY <3>2
      <4>2. <<"slot", 0, i>> \in Places(r) /\ Moved(<<"slot", 0, i>>) = q
        BY <4>1, InPlaces
      <4> QED BY <4>2
    <3>3. CASE \E v, i : InTask(r, v, i) /\ q = <<"task", v, i>>
      <4>1. q \in Places(r) /\ Moved(q) = q
        BY <3>3, InPlaces
      <4> QED BY <4>1
    <3> HIDE DEF Moved
    <3> QED BY <2>1, <3>1, <3>2, <3>3, <1>2, <1>3, <1>4, InPlacesNext
  <2>2. ASSUME NEW p \in Places(r), q = Moved(p) PROVE q \in Places(r)'
    <3>1. CASE \E i : InSlot(r, i) /\ p = <<"slot", 0, i>>
      <4>1. PICK i : InSlot(r, i) /\ p = <<"slot", 0, i>>
        BY <3>1
      <4>2. q = <<"batch", last, i>>
        BY <2>2, <4>1
      <4>3. InBatch(r, last, i)'
        BY <4>1, <1>3
      <4> QED BY <4>2, <4>3, InPlacesNext
    <3>2. CASE \E n, i : InBatch(r, n, i) /\ p = <<"batch", n, i>>
      <4>1. PICK n, i : InBatch(r, n, i) /\ p = <<"batch", n, i>>
        BY <3>2
      <4>2. q = <<"batch", n, i>> /\ InBatch(r, n, i)'
        BY <2>2, <4>1, <1>3
      <4> QED BY <4>2, InPlacesNext
    <3>3. CASE \E v, i : InTask(r, v, i) /\ p = <<"task", v, i>>
      <4>1. PICK v, i : InTask(r, v, i) /\ p = <<"task", v, i>>
        BY <3>3
      <4>2. q = <<"task", v, i>> /\ InTask(r, v, i)'
        BY <2>2, <4>1, <1>4
      <4> QED BY <4>2, InPlacesNext
    <3> HIDE DEF Moved
    <3> QED BY <3>1, <3>2, <3>3, InPlaces
  <2> HIDE DEF Moved
  <2> QED BY <2>1, <2>2
<1> HIDE DEF Moved
<1>6. req' = req
  BY DEF SendBatch
<1>7. ASSUME NEW r \in Request
      PROVE  IF req'[r] = "waiting" THEN \E p : Places(r)' = {p} ELSE Places(r)' = {}
  <2>1. CASE req[r] = "waiting"
    <3>1. PICK p : Places(r) = {p}
      BY <2>1 DEF PlaceInv
    <3>2. Places(r)' = {Moved(p)}
      BY <3>1, <1>5
    <3> QED BY <2>1, <3>2, <1>6
  <2>2. CASE req[r] # "waiting"
    <3>1. Places(r) = {}
      BY <2>2 DEF PlaceInv
    <3>2. Places(r)' = {}
      BY <3>1, <1>5
    <3> QED BY <2>2, <3>2, <1>6
  <2> QED BY <2>1, <2>2
<1> QED BY <1>7 DEF PlaceInv

LEMMA TakePlace == ASSUME NEW w \in Worker PROVE DInv /\ PlaceInv /\ Take(w) => PlaceInv'
<1> SUFFICES ASSUME DInv, PlaceInv, Take(w) PROVE PlaceInv'
  OBVIOUS
<1>1. PICK b : b = Head(batches)
  OBVIOUS
<1>2. /\ b.pending \in 0..Parallel /\ b = batches[1] /\ 1 \in DOMAIN batches
      /\ \A n : n \in DOMAIN batches' <=> n \in Nat \ {0} /\ n + 1 \in DOMAIN batches
      /\ \A n \in DOMAIN batches' : batches'[n] = batches[n + 1]
      /\ \A n \in DOMAIN batches : n \in Nat \ {0}
  <2>1. /\ batches \in Seq(Batch) /\ batches # <<>> /\ batches' = Tail(batches)
        /\ Head(batches) \in Batch
    BY BatchTaken DEF DInv, TypeOK, Take
  <2> QED BY <1>1, <2>1, HeadTailProperties DEF Batch
<1>3. /\ worker[w] = "select"
      /\ \A v : v \in Worker =>
           /\ worker'[v] = IF v = w THEN (IF b.pending = 0 THEN "select" ELSE "answer") ELSE worker[v]
           /\ task'[v] = IF v = w THEN b ELSE task[v]
           /\ upto'[v] = IF v = w THEN 1 ELSE upto[v]
  BY <1>1 DEF DInv, TypeOK, Take
<1>4. \A r, i : InSlot(r, i)' <=> InSlot(r, i)
  BY DEF InSlot, Take, collectorVars
<1>5. \A r, n, i : InBatch(r, n, i)' <=> n \in Nat \ {0} /\ InBatch(r, n + 1, i)
  BY <1>2 DEF InBatch
<1>6. \A r, v, i : InTask(r, v, i)' <=> InTask(r, v, i) \/ (v = w /\ InBatch(r, 1, i))
  BY <1>2, <1>3 DEF InTask, InBatch
<1>7. \A r, n, i : InBatch(r, n, i) => n = 1 \/ (n - 1 \in Nat \ {0} /\ InBatch(r, n - 1, i)')
  BY <1>2, <1>5 DEF InBatch
<1> DEFINE Moved(p) == IF p[1] = "batch"
                       THEN IF p[2] = 1 THEN <<"task", w, p[3]>> ELSE <<"batch", p[2] - 1, p[3]>>
                       ELSE p
<1>8. ASSUME NEW r \in Request, NEW q
      PROVE  q \in Places(r)' <=> \E p \in Places(r) : q = Moved(p)
  <2>1. ASSUME q \in Places(r)' PROVE \E p \in Places(r) : q = Moved(p)
    <3>1. CASE \E i : InSlot(r, i) /\ q = <<"slot", 0, i>>
      <4>1. q \in Places(r) /\ Moved(q) = q
        BY <3>1, InPlaces
      <4> QED BY <4>1
    <3>2. CASE \E n, i : n \in Nat \ {0} /\ InBatch(r, n + 1, i) /\ q = <<"batch", n, i>>
      <4>1. PICK n, i : n \in Nat \ {0} /\ InBatch(r, n + 1, i) /\ q = <<"batch", n, i>>
        BY <3>2
      <4>2. <<"batch", n + 1, i>> \in Places(r)
        BY <4>1, InPlaces
      <4>3. Moved(<<"batch", n + 1, i>>) = q
        BY <4>1
      <4> QED BY <4>2, <4>3
    <3>3. CASE \E v, i : InTask(r, v, i) /\ q = <<"task", v, i>>
      <4>1. q \in Places(r) /\ Moved(q) = q
        BY <3>3, InPlaces
      <4> QED BY <4>1
    <3>4. CASE \E i : InBatch(r, 1, i) /\ q = <<"task", w, i>>
      <4>1. PICK i : InBatch(r, 1, i) /\ q = <<"task", w, i>>
        BY <3>4
      <4>2. <<"batch", 1, i>> \in Places(r) /\ Moved(<<"batch", 1, i>>) = q
        BY <4>1, InPlaces
      <4> QED BY <4>2
    <3> HIDE DEF Moved
    <3> QED BY <2>1, <3>1, <3>2, <3>3, <3>4, <1>4, <1>5, <1>6, InPlacesNext
  <2>2. ASSUME NEW p \in Places(r), q = Moved(p) PROVE q \in Places(r)'
    <3>1. CASE \E i : InSlot(r, i) /\ p = <<"slot", 0, i>>
      <4>1. PICK i : InSlot(r, i) /\ p = <<"slot", 0, i>>
        BY <3>1
      <4>2. q = <<"slot", 0, i>> /\ InSlot(r, i)'
        BY <2>2, <4>1, <1>4
      <4> QED BY <4>2, InPlacesNext
    <3>2. CASE \E n, i : InBatch(r, n, i) /\ p = <<"batch", n, i>>
      <4>1. PICK n, i : InBatch(r, n, i) /\ p = <<"batch", n, i>>
        BY <3>2
      <4>2. CASE n = 1
        <5>1. q = <<"task", w, i>>
          BY <2>2, <4>1, <4>2
        <5>2. InTask(r, w, i)'
          BY <4>1, <4>2, <1>6
        <5> QED BY <5>1, <5>2, InPlacesNext
      <4>3. CASE n # 1
        <5>1. q = <<"batch", n - 1, i>>
          BY <2>2, <4>1, <4>3
        <5>2. InBatch(r, n - 1, i)'
          BY <4>1, <4>3, <1>7
        <5> QED BY <5>1, <5>2, InPlacesNext
      <4> QED BY <4>2, <4>3
    <3>3. CASE \E v, i : InTask(r, v, i) /\ p = <<"task", v, i>>
      <4>1. PICK v, i : InTask(r, v, i) /\ p = <<"task", v, i>>
        BY <3>3
      <4>2. q = <<"task", v, i>> /\ InTask(r, v, i)'
        BY <2>2, <4>1, <1>6
      <4> QED BY <4>2, InPlacesNext
    <3> HIDE DEF Moved
    <3> QED BY <3>1, <3>2, <3>3, InPlaces
  <2> HIDE DEF Moved
  <2> QED BY <2>1, <2>2
<1> HIDE DEF Moved
<1>9. req' = req
  BY DEF Take
<1>10. ASSUME NEW r \in Request
       PROVE  IF req'[r] = "waiting" THEN \E p : Places(r)' = {p} ELSE Places(r)' = {}
  <2>1. CASE req[r] = "waiting"
    <3>1. PICK p : Places(r) = {p}
      BY <2>1 DEF PlaceInv
    <3>2. Places(r)' = {Moved(p)}
      BY <3>1, <1>8
    <3> QED BY <2>1, <3>2, <1>9
  <2>2. CASE req[r] # "waiting"
    <3>1. Places(r) = {}
      BY <2>2 DEF PlaceInv
    <3>2. Places(r)' = {}
      BY <3>1, <1>8
    <3> QED BY <2>2, <3>2, <1>9
  <2> QED BY <2>1, <2>2
<1> QED BY <1>10 DEF PlaceInv

\* Only the answered request leaves its place: the worker goes on to the next one, or
\* it has answered its last.
LEMMA AnswerPlace == ASSUME NEW w \in Worker PROVE DInv /\ PlaceInv /\ Answer(w) => PlaceInv'
<1> SUFFICES ASSUME DInv, PlaceInv, Answer(w) PROVE PlaceInv'
  OBVIOUS
<1>1. PICK r : r = task[w].reqs[upto[w]]
  OBVIOUS
<1>2. PICK k : k = upto[w]
  OBVIOUS
<1>3. k \in Nat /\ task[w].pending \in Nat /\ k <= task[w].pending
  BY <1>2 DEF DInv, TypeOK, TaskInv, Answer, Batch
<1>4. \A q, i : InSlot(q, i)' <=> InSlot(q, i)
  BY DEF InSlot, Answer, collectorVars
<1>5. \A q, n, i : InBatch(q, n, i)' <=> InBatch(q, n, i)
  BY DEF InBatch, Answer
<1>6. InTask(r, w, k)
  BY <1>1, <1>2, <1>3 DEF InTask, Answer
<1>7. \A q, v, i : InTask(q, v, i)' <=> InTask(q, v, i) /\ ~(v = w /\ i = k)
  <2>1. \A q, v, i : v # w => (InTask(q, v, i)' <=> InTask(q, v, i))
    BY DEF DInv, TypeOK, InTask, Answer
  <2>2. \A q, i : InTask(q, w, i)' <=> InTask(q, w, i) /\ i # k
    <3>1. CASE k < task[w].pending
      <4>1. upto'[w] = k + 1 /\ worker' = worker /\ task' = task
        BY <3>1, <1>2 DEF DInv, TypeOK, Answer
      <4> QED BY <4>1, <1>2, <1>3 DEF InTask
    <3>2. CASE ~(k < task[w].pending)
      <4>1. worker'[w] = "select"
        BY <3>2, <1>2 DEF DInv, TypeOK, Answer
      <4>2. k = task[w].pending
        BY <3>2, <1>3
      <4> QED BY <4>1, <4>2, <1>2, <1>3 DEF InTask
    <3> QED BY <3>1, <3>2
  <2> QED BY <2>1, <2>2
<1>8. \A q : InTask(q, w, k) => q = r
  BY <1>1, <1>2 DEF InTask
<1>9. /\ req[r] = "waiting"
      /\ r \in Request => req'[r] = "answered"
      /\ \A q \in Request \ {r} : req'[q] = req[q]
  BY <1>1 DEF DInv, TypeOK, Answer
<1>10. \A q \in Request \ {r} : Places(q)' = Places(q)
  <2> TAKE q \in Request \ {r}
  <2>1. \A v, i : InTask(q, v, i)' <=> InTask(q, v, i)
    BY <1>7, <1>8
  <2> QED BY <2>1, <1>4, <1>5, NobodyMoves
<1>11. ASSUME r \in Request PROVE Places(r)' = {}
  <2>1. <<"task", w, k>> \in Places(r)
    BY <1>6, InPlaces
  <2>2. Places(r) = {<<"task", w, k>>}
    BY <1>9, <1>11, <2>1 DEF PlaceInv
  <2>3. ASSUME NEW p \in Places(r)' PROVE FALSE
    <3>1. ~(\E i : InSlot(r, i)' /\ p = <<"slot", 0, i>>)
      BY <1>4, <2>2, InPlaces
    <3>2. ~(\E n, i : InBatch(r, n, i)' /\ p = <<"batch", n, i>>)
      BY <1>5, <2>2, InPlaces
    <3>3. ~(\E v, i : InTask(r, v, i)' /\ p = <<"task", v, i>>)
      BY <1>7, <2>2, InPlaces
    <3> QED BY <2>3, <3>1, <3>2, <3>3, InPlacesNext
  <2> QED BY <2>3
<1> QED BY <1>9, <1>10, <1>11 DEF PlaceInv

LEMMA PlaceStep == DInv /\ PlaceInv /\ [Next]_vars => PlaceInv'
<1> SUFFICES ASSUME DInv, PlaceInv, [Next]_vars PROVE PlaceInv'
  OBVIOUS
<1>1. ASSUME NEW r \in Request, Call(r) PROVE PlaceInv'
  <2>1. \A q \in Request : Places(q)' = Places(q)
    BY <1>1, NobodyMoves DEF Call, InSlot, InBatch, InTask, collectorVars, workerVars
  <2> QED BY <1>1, <2>1 DEF DInv, TypeOK, PlaceInv, Call
<1>2. ASSUME NEW r \in Request, Accept(r) PROVE PlaceInv'
  BY <1>2, AcceptPlace
<1>3. CASE SendBatch
  BY <1>3, SendPlace
<1>4. ASSUME NEW w \in Worker, Take(w) \/ Answer(w) PROVE PlaceInv'
  BY <1>4, TakePlace, AnswerPlace
<1>5. CASE Timeout \/ Stop \/ Stopping \/ UNCHANGED vars
  <2>1. /\ pending' = pending /\ slots' = slots /\ batches' = batches /\ task' = task
        /\ upto' = upto /\ req' = req
        /\ \A w \in Worker : worker'[w] = "answer" <=> worker[w] = "answer"
    BY <1>5 DEF DInv, TypeOK, Timeout, Stop, Stopping, StopWorker, StopCollector, vars,
                collectorVars, workerVars
  <2>2. \A q \in Request : Places(q)' = Places(q)
    BY <2>1, NobodyMoves DEF InSlot, InBatch, InTask
  <2> QED BY <2>1, <2>2 DEF PlaceInv
<1> QED BY <1>1, <1>2, <1>3, <1>4, <1>5 DEF Next, Serve

\* A waiting call is in exactly one place, so that it is neither forgotten nor
\* answered twice, though slots are sent with what they held before.
THEOREM NeitherLostNorTwice == Spec => []InOnePlace
<1>1. Init => PlaceInv
  <2> SUFFICES ASSUME Init, NEW r \in Request PROVE Places(r) = {} /\ req[r] # "waiting"
    BY DEF PlaceInv
  <2>1. \A i, n, v : ~InSlot(r, i) /\ ~InBatch(r, n, i) /\ ~InTask(r, v, i)
    BY DEF Init, InSlot, InBatch, InTask
  <2>2. ASSUME NEW p \in Places(r) PROVE FALSE
    BY <2>1, InPlaces
  <2> QED BY <2>2 DEF Init
<1>2. PlaceInv => InOnePlace
  BY FS_EmptySet, FS_Singleton DEF PlaceInv, InOnePlace
<1> QED BY <1>1, <1>2, PlaceStep, HandlerInvariant, PTL DEF Spec
=============================================================================
