-------------------------- MODULE ParallelFetchProofs --------------------------
(***************************************************************************)
(* What a parallel fetch guarantees for any number of threads, workers,    *)
(* attempts, kills and resumptions.                                        *)
(*                                                                         *)
(* The inductive invariant has five parts, each resting on those before:   *)
(*   Shape      types; a consumer past the queue has a task in hand;       *)
(*   Balanced   unfinished_tasks counts the queue and what was taken from  *)
(*              it and not acknowledged;                                   *)
(*   OneCopy    a thread still to be fetched is in one place, the queue or *)
(*              one consumer, and the log does not call it persisted;      *)
(*   Truthful   what log, results and database say of one another, and     *)
(*              which threads the discovery has passed;                    *)
(*   Lasting    as long as nothing disturbed the run, a thread has an      *)
(*              attempt under way or an outcome, and who puts one back is  *)
(*              still there when worker 0 looks whether to go.             *)
(***************************************************************************)
EXTENDS ParallelFetch, FiniteSetTheorems, FunctionTheorems, SequenceTheorems, TLAPS

\* A consumer that has a task in hand, and one that is past its fetch.
Busy(c) == pc[c] \in {"picked", "fetching", "fetched", "recorded"}
Fetched(c) == pc[c] \in {"fetched", "recorded"}

FirstLabels == {"discover", "drain", "get", "empty", "picked", "fetching", "fetched",
                "recorded", "wait", "ended", "down"}
OtherLabels == {"idle", "get", "empty", "leaving", "picked", "fetching", "fetched",
                "recorded", "off"}
Labels == FirstLabels \cup OtherLabels

Outcome == [status : Statuses, attempt : 1 .. MaxAttempts] \cup {Unknown}

\* What is on disk and in the results.
DataOK ==
    /\ log \in [tasks : SUBSET Threads, results : [Threads -> Statuses \cup {"none"}],
                discovered : BOOLEAN]
    /\ saved \subseteq Threads
    /\ marker \in BOOLEAN
    /\ final \in [Threads -> Outcome]

EventsOK ==
    /\ stop \in BOOLEAN /\ discoveryDone \in BOOLEAN /\ closed \in BOOLEAN
    /\ blocked \in BOOLEAN /\ interrupted \in BOOLEAN /\ partial \in BOOLEAN
    /\ next \in 1 .. NumThreads + 1
    /\ runs \in 1 .. MaxRuns

\* The consumers' variables, and the queue they share.
ConsumersOK ==
    /\ queue \in Seq(Task)
    /\ pc \in [Consumers -> Labels]
    /\ pc[0] \in FirstLabels /\ \A w \in Workers : pc[w] \in OtherLabels
    /\ hand \in [Consumers -> Task \cup {NoTask}]
    /\ got \in [Consumers -> Statuses \cup {"none"}]
    /\ shared \in [Consumers -> BOOLEAN]
    /\ local \in [Consumers -> Task \cup {NoTask}]
    /\ streak \in [Consumers -> Nat]

\* Busy consumers hold a task, those past the fetch know its outcome.
HandsFull == \A c \in Consumers : /\ Busy(c) => hand[c] \in Task
                                  /\ Fetched(c) => got[c] \in Statuses

Shape == DataOK /\ EventsOK /\ ConsumersOK /\ HandsFull

-----------------------------------------------------------------------------
(* Types.                                                                  *)

\* The parameters as the proofs use them.
LEMMA Parameters ==
    /\ NumThreads \in Nat /\ MaxAttempts \in Nat /\ 1 <= MaxAttempts
    /\ 0 \in Consumers /\ Workers \subseteq Consumers /\ 0 \notin Workers
    /\ IsFiniteSet(Consumers) /\ IsFiniteSet(Threads) /\ MaxRuns \in Nat /\ 1 <= MaxRuns
    /\ NoTask \notin Task
    /\ "none" \notin Statuses
  <1>1. IsFiniteSet(Workers \cup {0})
    BY WorkersAssumption, FS_AddElement
  <1>2. Workers \cup {0} = Consumers
    BY DEF Consumers
  <1>3. IsFiniteSet(Threads)
    BY ThreadsAssumption, FS_Interval DEF Threads
  <1>4. NoTask \notin Task
    BY DEF NoTask, Task, Threads
  <1> QED
    BY <1>1, <1>2, <1>3, <1>4, ThreadsAssumption, WorkersAssumption, AttemptsAssumption,
       RunsAssumption DEF Consumers, Statuses

\* What _requeue_failed puts back is a task.
LEMMA RequeueTypes ==
    ASSUME queue \in Seq(Task), NEW task \in Task, NEW status, Requeue(task, status)
    PROVE  queue' \in Seq(Task)
  <1>1. CASE status = "failed" /\ task.attempt < MaxAttempts
    <2>1. [task EXCEPT !.attempt = @ + 1] \in Task
      BY <1>1, Parameters DEF Task
    <2> QED
      BY <1>1, <2>1 DEF Requeue, Put
  <1>2. CASE ~(status = "failed" /\ task.attempt < MaxAttempts)
    BY <1>2 DEF Requeue
  <1> QED
    BY <1>1, <1>2

LEMMA InitShape == Init => Shape
  <1> SUFFICES ASSUME Init PROVE Shape
    OBVIOUS
  <1>1. PICK started \in SUBSET Workers :
            pc = [c \in Consumers |-> IF c = 0 THEN "discover"
                                      ELSE IF c \in started THEN "idle" ELSE "off"]
    BY DEF Init
  <1>2. DataOK
    BY Parameters DEF Init, DataOK, Outcome
  <1>3. EventsOK
    <2>1. 1 \in 1 .. NumThreads + 1 /\ 1 \in 1 .. MaxRuns
      BY Parameters
    <2>2. /\ next = 1 /\ runs = 1 /\ stop = FALSE /\ discoveryDone = FALSE /\ closed = FALSE
          /\ blocked = FALSE /\ interrupted = FALSE /\ partial = FALSE
      BY DEF Init
    <2> QED
      BY <2>1, <2>2 DEF EventsOK
  <1>4. ConsumersOK
    BY <1>1, Parameters DEF Init, ConsumersOK, FirstLabels, OtherLabels, Labels
  <1>5. HandsFull
    BY <1>1, Parameters DEF Init, HandsFull, Busy, Fetched
  <1> QED
    BY <1>2, <1>3, <1>4, <1>5 DEF Shape

\* The data that steps of consumers and discovery leave behind.
LEMMA DataStep ==
    ASSUME Shape, Next
    PROVE  DataOK'
  <1>0. DataOK /\ HandsFull
    BY DEF Shape
  <1>1. CASE UNCHANGED <<log, saved, marker, final>>
    BY <1>0, <1>1 DEF DataOK
  <1>2. ASSUME NEW c \in Consumers, Fetch(c)
        PROVE  DataOK'
    <2>1. hand[c] \in Task
      BY <1>0, <1>2 DEF Fetch, HandsFull, Busy
    <2>2. saved' \in {saved, saved \cup {hand[c].thread}} /\ UNCHANGED <<log, marker, final>>
      BY <1>2 DEF Fetch
    <2> QED
      BY <1>0, <2>1, <2>2 DEF DataOK, Task
  <1>3. ASSUME NEW c \in Consumers, Record(c)
        PROVE  DataOK'
    <2>1. hand[c] \in Task /\ got[c] \in Statuses
      BY <1>0, <1>3 DEF Record, HandsFull, Busy, Fetched
    <2>2. hand[c].thread \in Threads /\ hand[c].attempt \in 1 .. MaxAttempts
      BY <2>1 DEF Task
    <2>3. Apply(log.results, hand[c].thread, got[c]) \in [Threads -> Statuses \cup {"none"}]
      BY <1>0, <2>1, <2>2 DEF Apply, DataOK
    <2>4. log' = [log EXCEPT !.results = Apply(log.results, hand[c].thread, got[c])]
      BY <1>3 DEF Record
    <2>5. final' \in [Threads -> Outcome]
      BY <1>0, <1>3, <2>1, <2>2 DEF Record, DataOK, Outcome
    <2> QED
      BY <1>0, <1>3, <2>3, <2>4, <2>5 DEF Record, DataOK
  <1>4. CASE Dispatch
    <2>1. next \in Threads
      BY <1>4 DEF Dispatch
    <2>2. log' = [log EXCEPT !.tasks = log.tasks \cup {next}] /\ UNCHANGED <<saved, marker, final>>
      BY <1>4 DEF Dispatch
    <2> QED
      BY <1>0, <2>1, <2>2 DEF DataOK
  <1>5. CASE DiscoveryEnds
    <2>1. /\ log' = log \/ log' = [log EXCEPT !.discovered = TRUE]
          /\ UNCHANGED <<saved, marker, final>>
      BY <1>5 DEF DiscoveryEnds, taskVars
    <2>2. log' \in [tasks : SUBSET Threads, results : [Threads -> Statuses \cup {"none"}],
                    discovered : BOOLEAN]
      <3>1. CASE log' = log
        BY <1>0, <3>1 DEF DataOK
      <3>2. CASE log' = [log EXCEPT !.discovered = TRUE]
        BY <1>0, <3>2 DEF DataOK
      <3> QED
        BY <2>1, <3>1, <3>2
    <2> QED
      BY <1>0, <2>1, <2>2 DEF DataOK
  <1>6. CASE End
    BY <1>0, <1>6 DEF End, DataOK, taskVars
  <1>7. CASE Crash
    BY <1>0, <1>7 DEF Crash, diskVars, DataOK, Outcome
  <1>8. CASE Resume
    <2> DEFINE results == [t \in Threads |-> IF /\ t \in Excluded \ Pending
                                                /\ log.results[t] \in Terminal \ {"persisted"}
                                             THEN "skipped" ELSE log.results[t]]
    <2>1. results \in [Threads -> Statuses \cup {"none"}]
      BY <1>0 DEF DataOK, Statuses
    <2>2. \A t \in log.tasks \ Pending : results[t] \in Statuses
      BY <1>0 DEF DataOK, Pending, Terminal, Statuses
    <2>3. log' = [log EXCEPT !.results = results]
      BY <1>8 DEF Resume
    <2> HIDE DEF results
    <2>4. log'.results = results
      BY <1>0, <2>3 DEF DataOK
    <2>5. final' = [t \in Threads |-> IF t \in log.tasks \ Pending
                                   THEN [status |-> results[t], attempt |-> 1] ELSE Unknown]
      BY <1>8, <2>4 DEF Resume
    <2>6. final' \in [Threads -> Outcome]
      <3>1. Unknown \in Outcome /\ \A status \in Statuses : [status |-> status, attempt |-> 1] \in Outcome
        BY Parameters DEF Outcome
      <3>2. \A t \in Threads : final'[t] \in Outcome
        BY <2>2, <2>5, <3>1
      <3> QED
        BY <2>5, <3>2
    <2> QED
      BY <1>0, <1>8, <2>1, <2>3, <2>6 DEF Resume, DataOK
  <1>9. ASSUME NEW c \in Consumers, Get(c) \/ PutBack(c) \/ BeginFetch(c) \/ Settle(c)
        PROVE  DataOK'
    BY <1>1, <1>9 DEF Get, PutBack, BeginFetch, Settle, diskVars, taskVars
  <1>10. ASSUME NEW w \in Workers, TabLost(w) \/ Idle(w) \/ CheckUnfinished(w) \/ CheckDiscovery(w)
         PROVE  DataOK'
    BY <1>1, <1>10 DEF TabLost, Idle, CheckUnfinished, CheckDiscovery, diskVars, taskVars
  <1>11. CASE DispatchKnown \/ Drain \/ CheckPeers \/ DiscoveryRaises \/ Interrupt \/ PageCloses
    BY <1>1, <1>11 DEF DispatchKnown, Drain, CheckPeers, DiscoveryRaises, Interrupt, PageCloses,
                       diskVars, taskVars
  <1> QED
    BY <1>2, <1>3, <1>4, <1>5, <1>6, <1>7, <1>8, <1>9, <1>10, <1>11, Parameters
       DEF Next, Orchestrator, Background, Consume

LEMMA EventsStep ==
    ASSUME Shape, Next
    PROVE  EventsOK'
  <1> USE Parameters DEF Shape
  <1>1. CASE UNCHANGED <<eventVars, next, runs>>
    BY <1>1 DEF EventsOK, eventVars
  <1>2. ASSUME NEW c \in Consumers, Consume(c)
        PROVE  EventsOK'
    BY <1>2 DEF Consume, Get, PutBack, BeginFetch, Fetch, Record, Settle, EventsOK, eventVars
  <1>3. ASSUME NEW w \in Workers, TabLost(w) \/ Idle(w) \/ CheckUnfinished(w) \/ CheckDiscovery(w)
        PROVE  EventsOK'
    BY <1>1, <1>3 DEF TabLost, Idle, CheckUnfinished, CheckDiscovery
  <1>4. CASE Dispatch \/ DispatchKnown
    <2>1. next \in Threads
      <3>1. Known \subseteq Threads
        BY ExcludedAssumption DEF Known, Ignored, DataOK, Threads
      <3> QED
        BY <1>4, <3>1 DEF Dispatch, DispatchKnown
    <2>2. next' \in 1 .. NumThreads + 1
      BY <1>4, <2>1 DEF Dispatch, DispatchKnown, Threads
    <2>3. partial' \in BOOLEAN /\ UNCHANGED <<stop, discoveryDone, closed, blocked, interrupted, runs>>
      BY <1>4 DEF Dispatch, DispatchKnown, EventsOK, eventVars
    <2> QED
      BY <2>2, <2>3 DEF EventsOK
  <1>5. CASE DiscoveryEnds \/ Drain \/ CheckPeers \/ End
    BY <1>5 DEF DiscoveryEnds, Drain, CheckPeers, End, EventsOK, eventVars
  <1>6. CASE DiscoveryRaises \/ Interrupt \/ PageCloses
    BY <1>6 DEF DiscoveryRaises, Interrupt, PageCloses, EventsOK
  <1>7. CASE Crash
    <2>1. 1 \in 1 .. NumThreads + 1
      OBVIOUS
    <2> QED
      BY <1>7, <2>1 DEF Crash, FreshMemory, EventsOK
  <1>8. CASE Resume
    <2>1. 1 \in 1 .. NumThreads + 1
      OBVIOUS
    <2>2. runs' \in 1 .. MaxRuns
      BY <1>8 DEF Resume, EventsOK
    <2>3. discoveryDone' \in BOOLEAN
      BY <1>8 DEF Resume, DataOK
    <2>4. FreshMemory
      BY <1>8 DEF Resume
    <2> QED
      BY <2>1, <2>2, <2>3, <2>4 DEF FreshMemory, EventsOK
  <1> QED
    BY <1>2, <1>3, <1>4, <1>5, <1>6, <1>7, <1>8 DEF Next, Orchestrator, Background

\* A sequence a resumed run starts with.
LEMMA ResumedQueue ==
    ASSUME Shape, Resume
    PROVE  /\ queue' \in Seq(Task)
           /\ Len(queue') = Cardinality(Pending)
           /\ \A i \in 1 .. Len(queue') : queue'[i].thread \in Pending
           /\ \A i, j \in 1 .. Len(queue') : queue'[i].thread = queue'[j].thread => i = j
  <1>1. PICK order \in [1 .. Cardinality(Pending) -> Pending] :
            /\ \A i, j \in DOMAIN order : i < j => order[i] < order[j]
            /\ queue' = [i \in DOMAIN order |-> FirstAttempt(order[i])]
    BY DEF Resume
  <1>2. Pending \subseteq Threads
    BY DEF Pending, Shape, DataOK
  <1>3. Cardinality(Pending) \in Nat
    BY <1>2, Parameters, FS_Subset, FS_CardinalityType
  <1> DEFINE n == Cardinality(Pending)
  <1> HIDE DEF n
  <1>4. n \in Nat /\ order \in [1 .. n -> Pending] /\ queue' = [i \in 1 .. n |-> FirstAttempt(order[i])]
    BY <1>1, <1>3 DEF n
  <1>5. \A i \in 1 .. n : queue'[i] \in Task /\ queue'[i].thread = order[i] /\ order[i] \in Pending
    <2>1. \A t \in Threads : FirstAttempt(t) \in Task /\ FirstAttempt(t).thread = t
      BY Parameters DEF FirstAttempt, Task
    <2>2. \A i \in 1 .. n : queue'[i] = FirstAttempt(order[i]) /\ order[i] \in Pending
      BY <1>4
    <2> QED
      BY <1>2, <2>1, <2>2
  <1>6. queue' \in Seq(Task) /\ Len(queue') = n
    BY <1>4, <1>5
  <1>7. \A i, j \in 1 .. n : order[i] = order[j] => i = j
    <2> SUFFICES ASSUME NEW i \in 1 .. n, NEW j \in 1 .. n, order[i] = order[j], i < j
                 PROVE  FALSE
      BY <1>4
    <2>1. DOMAIN order = 1 .. n
      BY <1>4
    <2>2. order[i] < order[j]
      BY <1>1, <2>1
    <2>3. order[i] \in Pending /\ order[j] \in Pending
      BY <1>4
    <2>4. Threads \subseteq Int
      BY DEF Threads
    <2>5. order[i] \in Int /\ order[j] \in Int
      BY <1>2, <2>3, <2>4
    <2> QED
      BY <2>2, <2>5
  <1> QED
    BY <1>5, <1>6, <1>7 DEF n

\* The step of one consumer: its label is one of its own, and its hands fit it.
LEMMA OneMoves ==
    ASSUME ConsumersOK, HandsFull, NEW c \in Consumers, NEW label \in Labels,
           pc' = [pc EXCEPT ![c] = label], label \in FirstLabels \/ c # 0,
           label \in OtherLabels \/ c = 0,
           queue' \in Seq(Task),
           hand' \in [Consumers -> Task \cup {NoTask}], got' \in [Consumers -> Statuses \cup {"none"}],
           shared' \in [Consumers -> BOOLEAN], local' \in [Consumers -> Task \cup {NoTask}],
           streak' \in [Consumers -> Nat],
           \A d \in Consumers \ {c} : hand'[d] = hand[d] /\ got'[d] = got[d],
           label \in {"picked", "fetching", "fetched", "recorded"} => hand'[c] \in Task,
           label \in {"fetched", "recorded"} => got'[c] \in Statuses
    PROVE  ConsumersOK' /\ HandsFull'
  <1>1. /\ pc \in [Consumers -> Labels] /\ 0 \in Consumers
        /\ pc[0] \in FirstLabels /\ \A w \in Workers : w \in Consumers /\ w # 0 /\ pc[w] \in OtherLabels
    BY Parameters DEF ConsumersOK
  <1>2. pc' \in [Consumers -> Labels] /\ pc'[c] = label /\ \A d \in Consumers \ {c} : pc'[d] = pc[d]
    BY <1>1
  <1>3. pc'[0] \in FirstLabels /\ \A w \in Workers : pc'[w] \in OtherLabels
    BY <1>1, <1>2
  <1>4. ConsumersOK'
    BY <1>2, <1>3 DEF ConsumersOK
  <1>5. ASSUME NEW d \in Consumers
        PROVE  /\ Busy(d)' => hand'[d] \in Task
               /\ Fetched(d)' => got'[d] \in Statuses
    <2>1. CASE d = c
      BY <1>2, <2>1 DEF Busy, Fetched
    <2>2. CASE d # c
      BY <1>2, <2>2 DEF Busy, Fetched, HandsFull
    <2> QED
      BY <2>1, <2>2
  <1> QED
    BY <1>4, <1>5 DEF HandsFull

\* Consumers whose hands are full.
LEMMA FullHands ==
    ASSUME Shape, NEW c \in Consumers
    PROVE  /\ pc[c] \in {"picked", "fetching", "fetched", "recorded"} => hand[c] \in Task
           /\ pc[c] \in {"fetched", "recorded"} => got[c] \in Statuses
  BY DEF Shape, HandsFull, Busy, Fetched

LEMMA ConsumersStep ==
    ASSUME Shape, Next
    PROVE  ConsumersOK' /\ HandsFull'
  <1>1. CASE UNCHANGED <<queue, consumerVars>>
    BY <1>1 DEF Shape, ConsumersOK, HandsFull, Busy, Fetched, consumerVars
  <1>2. ConsumersOK /\ HandsFull
    BY DEF Shape
  <1>3. /\ queue \in Seq(Task) /\ streak \in [Consumers -> Nat] /\ shared \in [Consumers -> BOOLEAN]
        /\ hand \in [Consumers -> Task \cup {NoTask}] /\ local \in [Consumers -> Task \cup {NoTask}]
        /\ got \in [Consumers -> Statuses \cup {"none"}]
    BY <1>2 DEF ConsumersOK
  <1>4. \A w \in Workers : w \in Consumers /\ w # 0
    BY Parameters
  <1>5. 0 \in Consumers /\ MaxAttempts \in Nat
    BY Parameters
  <1> USE DEF Labels, FirstLabels, OtherLabels
  <1>6. ASSUME NEW c \in Consumers, Free(c)
        PROVE  /\ hand' \in [Consumers -> Task \cup {NoTask}]
               /\ got' \in [Consumers -> Statuses \cup {"none"}]
               /\ shared' \in [Consumers -> BOOLEAN]
               /\ \A d \in Consumers \ {c} : hand'[d] = hand[d] /\ got'[d] = got[d]
    BY <1>3, <1>6 DEF Free
  <1>7. ASSUME NEW c \in Consumers, Get(c)
        PROVE  ConsumersOK' /\ HandsFull'
    <2>1. UNCHANGED <<got, local, streak>>
      BY <1>7 DEF Get
    <2>2. CASE queue = <<>>
      BY <1>2, <1>3, <1>7, <2>1, <2>2, OneMoves DEF Get, Goto
    <2>3. CASE queue # <<>>
      <3>1. Head(queue) \in Task /\ Tail(queue) \in Seq(Task)
        BY <1>3, <2>3
      <3>2. /\ hand' = [hand EXCEPT ![c] = Head(queue)] /\ queue' = Tail(queue)
            /\ shared' = [shared EXCEPT ![c] = TRUE] /\ pc' = [pc EXCEPT ![c] = "picked"]
        BY <1>7, <2>3 DEF Get, Goto
      <3>3. /\ hand' \in [Consumers -> Task \cup {NoTask}] /\ shared' \in [Consumers -> BOOLEAN]
            /\ hand'[c] \in Task /\ \A d \in Consumers \ {c} : hand'[d] = hand[d]
        BY <1>3, <3>1, <3>2
      <3> QED
        BY <1>2, <1>3, <2>1, <3>1, <3>2, <3>3, OneMoves
    <2> QED
      BY <2>2, <2>3
  <1>8. ASSUME NEW c \in Consumers, PutBack(c)
        PROVE  ConsumersOK' /\ HandsFull'
    <2>1. /\ pc[c] = "picked" /\ queue' = Append(queue, hand[c]) /\ Free(c)
          /\ UNCHANGED <<local, streak>>
      BY <1>8 DEF PutBack
    <2>2. PICK label \in IF c = 0 THEN {"wait"} ELSE {"off"} : pc' = [pc EXCEPT ![c] = label]
      BY <1>8 DEF PutBack, Goto, Exit
    <2>3. queue' \in Seq(Task)
      BY <1>3, <2>1, FullHands
    <2> QED
      BY <1>2, <1>3, <1>6, <2>1, <2>2, <2>3, OneMoves
  <1>9. ASSUME NEW c \in Consumers, BeginFetch(c)
        PROVE  ConsumersOK' /\ HandsFull'
    <2>1. /\ pc[c] = "picked" /\ pc' = [pc EXCEPT ![c] = "fetching"]
          /\ UNCHANGED <<queue, hand, got, shared, local, streak>>
      BY <1>9 DEF BeginFetch, Goto, taskVars
    <2> QED
      BY <1>2, <1>3, <2>1, FullHands, OneMoves
  <1>10. ASSUME NEW c \in Consumers, Fetch(c)
         PROVE  ConsumersOK' /\ HandsFull'
    <2>1. PICK status \in Statuses : got' = [got EXCEPT ![c] = status] /\ Requeue(hand[c], status)
      BY <1>10 DEF Fetch, Statuses
    <2>2. /\ pc[c] = "fetching" /\ pc' = [pc EXCEPT ![c] = "fetched"]
          /\ UNCHANGED <<hand, shared, local, streak>>
      BY <1>10 DEF Fetch, Goto
    <2>3. hand[c] \in Task
      BY <2>2, FullHands
    <2>4. queue' \in Seq(Task)
      BY <1>3, <2>1, <2>3, RequeueTypes
    <2>5. /\ got' \in [Consumers -> Statuses \cup {"none"}] /\ got'[c] \in Statuses
          /\ \A d \in Consumers \ {c} : got'[d] = got[d]
      BY <1>3, <2>1
    <2> QED
      BY <1>2, <1>3, <2>2, <2>3, <2>4, <2>5, OneMoves
  <1>11. ASSUME NEW c \in Consumers, Record(c)
         PROVE  ConsumersOK' /\ HandsFull'
    <2>1. /\ pc[c] = "fetched" /\ pc' = [pc EXCEPT ![c] = "recorded"]
          /\ UNCHANGED <<queue, hand, got, shared, local, streak>>
      BY <1>11 DEF Record, Goto
    <2> QED
      BY <1>2, <1>3, <2>1, FullHands, OneMoves
  <1>12. ASSUME NEW c \in Consumers, Settle(c)
         PROVE  ConsumersOK' /\ HandsFull'
    <2>1. Free(c) /\ UNCHANGED <<queue, local>>
      BY <1>12 DEF Settle
    <2>2. \/ streak' = streak
          \/ streak' = [streak EXCEPT ![c] = streak[c] + 1]
          \/ streak' = [streak EXCEPT ![c] = 0]
      BY <1>12 DEF Settle
    <2>3. streak' \in [Consumers -> Nat]
      <3>1. streak[c] \in Nat /\ streak[c] + 1 \in Nat /\ 0 \in Nat
        BY <1>3
      <3> QED
        BY <1>3, <2>2, <3>1, Zenon
    <2>4. PICK label \in IF c = 0 THEN {"discover", "wait", "drain"} ELSE {"off", "idle"} :
              pc' = [pc EXCEPT ![c] = label]
      BY <1>12 DEF Settle, Exit, Loop, Goto
    <2> QED
      BY <1>2, <1>3, <1>6, <2>1, <2>3, <2>4, OneMoves
  <1>13. ASSUME NEW w \in Workers, TabLost(w)
         PROVE  ConsumersOK' /\ HandsFull'
    <2>1. pc[w] = "fetching" /\ UNCHANGED <<queue, streak>> /\ hand[w] \in Task
      BY <1>4, <1>13, FullHands DEF TabLost
    <2>2. CASE hand[w].attempt < MaxAttempts
      <3>1. [hand[w] EXCEPT !.attempt = @ + 1] \in Task
        BY <1>5, <2>1, <2>2 DEF Task
      <3>2. /\ local' = [local EXCEPT ![w] = [hand[w] EXCEPT !.attempt = @ + 1]] /\ Free(w)
            /\ pc' = [pc EXCEPT ![w] = "idle"]
        BY <1>13, <2>2 DEF TabLost, Goto
      <3>3. local' \in [Consumers -> Task \cup {NoTask}]
        BY <1>3, <3>1, <3>2
      <3> QED
        BY <1>2, <1>3, <1>4, <1>6, <2>1, <3>2, <3>3, OneMoves
    <2>3. CASE ~(hand[w].attempt < MaxAttempts)
      <3>1. /\ got' = [got EXCEPT ![w] = "failed"] /\ pc' = [pc EXCEPT ![w] = "fetched"]
            /\ UNCHANGED <<local, hand, shared>>
        BY <1>13, <2>3 DEF TabLost, Goto
      <3>2. /\ got' \in [Consumers -> Statuses \cup {"none"}] /\ got'[w] \in Statuses
            /\ \A d \in Consumers \ {w} : got'[d] = got[d]
        BY <1>3, <1>4, <3>1 DEF Statuses
      <3> QED
        BY <1>2, <1>3, <1>4, <2>1, <3>1, <3>2, OneMoves
    <2> QED
      BY <2>2, <2>3
  <1>14. ASSUME NEW w \in Workers, Idle(w)
         PROVE  ConsumersOK' /\ HandsFull'
    <2>1. UNCHANGED <<queue, got, streak>>
      BY <1>14 DEF Idle, taskVars
    <2>2. CASE UNCHANGED <<hand, shared, local>> /\ pc' = [pc EXCEPT ![w] = "off"]
      BY <1>2, <1>3, <1>4, <2>1, <2>2, OneMoves
    <2>3. CASE UNCHANGED <<hand, shared, local>> /\ pc' = [pc EXCEPT ![w] = "get"]
      BY <1>2, <1>3, <1>4, <2>1, <2>3, OneMoves
    <2>4. CASE ~stop /\ local[w] # NoTask
      <3>1. /\ hand' = [hand EXCEPT ![w] = local[w]] /\ local' = [local EXCEPT ![w] = NoTask]
            /\ shared' = [shared EXCEPT ![w] = FALSE] /\ pc' = [pc EXCEPT ![w] = "picked"]
        BY <1>14, <2>4 DEF Idle, Goto
      <3>2. /\ hand' \in [Consumers -> Task \cup {NoTask}] /\ local' \in [Consumers -> Task \cup {NoTask}]
            /\ shared' \in [Consumers -> BOOLEAN] /\ hand'[w] \in Task
            /\ \A d \in Consumers \ {w} : hand'[d] = hand[d]
        BY <1>3, <1>4, <2>4, <3>1
      <3> QED
        BY <1>2, <1>3, <1>4, <2>1, <3>1, <3>2, OneMoves
    <2> QED
      BY <1>14, <2>2, <2>3, <2>4 DEF Idle, Goto
  <1>15. ASSUME NEW w \in Workers, CheckUnfinished(w) \/ CheckDiscovery(w)
         PROVE  ConsumersOK' /\ HandsFull'
    <2>1. UNCHANGED <<queue, hand, got, shared, local, streak>>
      BY <1>15 DEF CheckUnfinished, CheckDiscovery, taskVars
    <2>2. PICK label \in {"leaving", "idle", "off"} : pc' = [pc EXCEPT ![w] = label]
      BY <1>15 DEF CheckUnfinished, CheckDiscovery, Goto
    <2> QED
      BY <1>2, <1>3, <1>4, <2>1, <2>2, OneMoves
  <1>16. CASE Dispatch
    <2> DEFINE task == [thread |-> next, attempt |-> 1]
    <2>1. task \in Task /\ UNCHANGED <<got, local, streak>>
      BY <1>5, <1>16, Parameters DEF Dispatch, Task
    <2> HIDE DEF task
    <2>2. CASE Put(task) /\ UNCHANGED <<hand, shared, pc>>
      <3>1. queue' \in Seq(Task)
        BY <1>3, <2>1, <2>2 DEF Put
      <3> QED
        BY <1>2, <2>1, <2>2, <3>1 DEF ConsumersOK, HandsFull, Busy, Fetched
    <2>3. CASE /\ hand' = [hand EXCEPT ![0] = task] /\ shared' = [shared EXCEPT ![0] = FALSE]
               /\ pc' = [pc EXCEPT ![0] = "fetching"] /\ queue' = queue
      <3>1. /\ hand' \in [Consumers -> Task \cup {NoTask}] /\ shared' \in [Consumers -> BOOLEAN]
            /\ hand'[0] \in Task /\ \A d \in Consumers \ {0} : hand'[d] = hand[d]
        BY <1>3, <1>5, <2>1, <2>3
      <3> QED
        BY <1>2, <1>3, <1>5, <2>1, <2>3, <3>1, OneMoves
    <2> QED
      BY <1>16, <2>2, <2>3 DEF Dispatch, Goto, task
  <1>17. CASE DispatchKnown \/ PageCloses
    BY <1>1, <1>17 DEF DispatchKnown, PageCloses, taskVars
  <1>18. CASE DiscoveryEnds \/ Drain \/ CheckPeers \/ End
    <2>1. UNCHANGED <<queue, hand, got, shared, local, streak>>
      BY <1>18 DEF DiscoveryEnds, Drain, CheckPeers, End, taskVars
    <2>2. PICK label \in {"drain", "wait", "get", "ended"} : pc' = [pc EXCEPT ![0] = label]
      BY <1>18 DEF DiscoveryEnds, Drain, CheckPeers, End, Goto
    <2> QED
      BY <1>2, <1>3, <1>5, <2>1, <2>2, OneMoves
  <1>19. CASE DiscoveryRaises \/ Interrupt
    <2>1. /\ UNCHANGED <<queue, local, streak>> /\ Free(0) /\ pc' = [pc EXCEPT ![0] = "wait"]
      BY <1>19 DEF DiscoveryRaises, Interrupt, Goto, taskVars
    <2> QED
      BY <1>2, <1>3, <1>5, <1>6, <2>1, OneMoves
  <1>20. CASE Crash \/ Resume
    <2>1. /\ hand' = [c \in Consumers |-> NoTask] /\ local' = [c \in Consumers |-> NoTask]
          /\ got' = [c \in Consumers |-> "none"] /\ shared' = [c \in Consumers |-> FALSE]
          /\ streak' = [c \in Consumers |-> 0]
      BY <1>20 DEF Crash, Resume, FreshMemory
    <2>2. queue' \in Seq(Task)
      <3>1. CASE Crash
        BY <3>1 DEF Crash
      <3>2. CASE Resume
        BY <3>2, ResumedQueue
      <3> QED
        BY <1>20, <3>1, <3>2
    <2>3. /\ pc' \in [Consumers -> {"down", "discover", "drain", "idle", "off"}]
          /\ pc'[0] \in {"down", "drain", "discover"}
          /\ \A w \in Workers : pc'[w] \in {"idle", "off"}
      BY <1>4, <1>5, <1>20 DEF Crash, Resume, StartWorkers
    <2>4. ConsumersOK'
      BY <2>1, <2>2, <2>3 DEF ConsumersOK
    <2>5. HandsFull'
      BY <2>3 DEF HandsFull, Busy, Fetched
    <2> QED
      BY <2>4, <2>5
  <1> QED
    BY <1>4, <1>5, <1>7, <1>8, <1>9, <1>10, <1>11, <1>12, <1>13, <1>14, <1>15, <1>16, <1>17, <1>18,
       <1>19, <1>20 DEF Next, Orchestrator, Background, Consume

LEMMA ShapeStep ==
    ASSUME Shape, [Next]_vars
    PROVE  Shape'
  <1>1. CASE Next
    BY <1>1, DataStep, EventsStep, ConsumersStep DEF Shape
  <1>2. CASE UNCHANGED vars
    BY <1>2 DEF vars, diskVars, taskVars, eventVars, consumerVars, Shape, DataOK, EventsOK,
                ConsumersOK, HandsFull, Busy, Fetched
  <1> QED
    BY <1>1, <1>2

-----------------------------------------------------------------------------
(* task_done: the count of unfinished tasks.                               *)

\* Consumers whose task came from the shared queue and is not acknowledged.
Taken == {c \in Consumers : shared[c]}

\* What worker 0 does after its discovery, it does when discovery_done is set.
Past == /\ pc[0] \in {"drain", "get", "empty", "picked", "wait"} => discoveryDone
        /\ shared[0] => discoveryDone

Balanced ==
    /\ unfinished = Len(queue) + Cardinality(Taken)
    /\ \A c \in Consumers : shared[c] => Busy(c)
    /\ Past

\* Taking and acknowledging a task moves the count by one.
LEMMA TakenFacts ==
    ASSUME shared \in [Consumers -> BOOLEAN]
    PROVE  /\ IsFiniteSet(Taken) /\ Cardinality(Taken) \in Nat
           /\ \A c \in Consumers :
                /\ ~shared[c] /\ shared' = [shared EXCEPT ![c] = TRUE]
                     => Cardinality(Taken') = Cardinality(Taken) + 1
                /\ shared' = [shared EXCEPT ![c] = FALSE]
                     => Cardinality(Taken') = Cardinality(Taken) - (IF shared[c] THEN 1 ELSE 0)
  <1>1. IsFiniteSet(Taken) /\ Cardinality(Taken) \in Nat
    BY Parameters, FS_Subset, FS_CardinalityType DEF Taken
  <1>2. ASSUME NEW c \in Consumers, ~shared[c], shared' = [shared EXCEPT ![c] = TRUE]
        PROVE  Cardinality(Taken') = Cardinality(Taken) + 1
    <2>1. Taken' = Taken \cup {c} /\ c \notin Taken
      BY <1>2 DEF Taken
    <2> QED
      BY <1>1, <2>1, FS_AddElement
  <1>3. ASSUME NEW c \in Consumers, shared' = [shared EXCEPT ![c] = FALSE]
        PROVE  Cardinality(Taken') = Cardinality(Taken) - (IF shared[c] THEN 1 ELSE 0)
    <2>1. Taken' = Taken \ {c} /\ (c \in Taken <=> shared[c])
      BY <1>3 DEF Taken
    <2>2. Cardinality(Taken \ {c}) = IF c \in Taken THEN Cardinality(Taken) - 1
                                                   ELSE Cardinality(Taken)
      BY <1>1, FS_RemoveElement
    <2> QED
      BY <1>1, <2>1, <2>2
  <1> QED
    BY <1>1, <1>2, <1>3

\* Where queue and acknowledgements are left alone, so is the balance.
LEMMA BalanceKept ==
    ASSUME Balanced, UNCHANGED <<queue, unfinished, shared>>,
           \A c \in Consumers : shared[c] => Busy(c)', Past'
    PROVE  Balanced'
  BY DEF Balanced, Taken

\* A task more in the queue is one more unfinished.
LEMMA PutBalance ==
    ASSUME queue \in Seq(Task), NEW task \in Task, Put(task)
    PROVE  Len(queue') = Len(queue) + 1 /\ unfinished' = unfinished + 1
  BY DEF Put

LEMMA InitBalanced == Init => Balanced
  <1> SUFFICES ASSUME Init PROVE Balanced
    OBVIOUS
  <1>1. Taken = {}
    BY DEF Init, Taken
  <1>2. unfinished = Len(queue) + Cardinality(Taken)
    BY <1>1, FS_EmptySet DEF Init
  <1>3. pc[0] = "discover" /\ \A c \in Consumers : ~shared[c]
    BY Parameters DEF Init
  <1> QED
    BY <1>2, <1>3, Parameters DEF Balanced, Past

LEMMA BalancedStep ==
    ASSUME Shape, Balanced, Next
    PROVE  Balanced'
  <1> USE Parameters
  <1>1. /\ queue \in Seq(Task) /\ Len(queue) \in Nat /\ shared \in [Consumers -> BOOLEAN]
        /\ pc \in [Consumers -> Labels] /\ hand \in [Consumers -> Task \cup {NoTask}]
        /\ \A c \in Consumers : Busy(c) => hand[c] \in Task
    BY DEF Shape, ConsumersOK, HandsFull
  <1>2. ASSUME NEW c \in Consumers, Consume(c)
        PROVE  Balanced'
    <2>1. CASE Get(c)
      <3>1. CASE queue = <<>>
        <4>1. pc' = [pc EXCEPT ![c] = "empty"] /\ UNCHANGED <<queue, unfinished, shared, discoveryDone>>
          BY <2>1, <3>1 DEF Get, Goto, eventVars
        <4>2. ~Busy(c)
          BY <2>1 DEF Get, Busy
        <4> QED
          BY <1>1, <2>1, <4>1, <4>2, BalanceKept DEF Balanced, Past, Busy, Get
      <3>2. CASE queue # <<>>
        <4>1. /\ pc' = [pc EXCEPT ![c] = "picked"] /\ shared' = [shared EXCEPT ![c] = TRUE]
              /\ Len(queue') = Len(queue) - 1 /\ UNCHANGED <<unfinished, discoveryDone>>
          BY <1>1, <2>1, <3>2 DEF Get, Goto, eventVars
        <4>2. ~Busy(c) /\ ~shared[c] /\ (c = 0 => discoveryDone)
          BY <1>1, <2>1 DEF Get, Busy, Balanced, Past
        <4>3. Cardinality(Taken') = Cardinality(Taken) + 1
          BY <1>1, <4>1, <4>2, TakenFacts
        <4>4. unfinished' = Len(queue') + Cardinality(Taken')
          BY <1>1, <4>1, <4>3, TakenFacts DEF Balanced
        <4>5. Past' /\ \A d \in Consumers : shared'[d] => Busy(d)'
          BY <1>1, <4>1, <4>2 DEF Balanced, Past, Busy
        <4> QED
          BY <4>4, <4>5 DEF Balanced
      <3> QED
        BY <3>1, <3>2
    <2>2. CASE PutBack(c)
      <3>1. /\ Len(queue') = Len(queue) + 1 /\ shared' = [shared EXCEPT ![c] = FALSE]
            /\ unfinished' = unfinished + 1 - (IF shared[c] THEN 1 ELSE 0)
            /\ pc' = [pc EXCEPT ![c] = Exit(c)] /\ UNCHANGED discoveryDone
        BY <1>1, <2>2 DEF PutBack, Free, Goto, Busy, eventVars
      <3>2. Cardinality(Taken') = Cardinality(Taken) - (IF shared[c] THEN 1 ELSE 0)
        BY <1>1, <3>1, TakenFacts
      <3>3. unfinished' = Len(queue') + Cardinality(Taken')
        BY <1>1, <3>1, <3>2, TakenFacts DEF Balanced
      <3>4. Past' /\ \A d \in Consumers : shared'[d] => Busy(d)'
        BY <1>1, <2>2, <3>1 DEF Balanced, Past, Busy, PutBack, Exit
      <3> QED
        BY <3>3, <3>4 DEF Balanced
    <2>3. CASE BeginFetch(c) \/ Record(c)
      <3>1. /\ UNCHANGED <<queue, unfinished, shared, discoveryDone>>
            /\ pc' = [pc EXCEPT ![c] = IF pc[c] = "picked" THEN "fetching" ELSE "recorded"]
        BY <2>3 DEF BeginFetch, Record, Goto, eventVars, taskVars
      <3> QED
        BY <1>1, <3>1, BalanceKept DEF Balanced, Past, Busy
    <2>4. CASE Fetch(c)
      <3>1. PICK status : Requeue(hand[c], status)
        BY <2>4 DEF Fetch
      <3>2. /\ UNCHANGED <<shared, discoveryDone>> /\ pc' = [pc EXCEPT ![c] = "fetched"]
            /\ hand[c] \in Task
        BY <1>1, <2>4 DEF Fetch, Goto, Busy
      <3>3. Taken' = Taken
        BY <3>2 DEF Taken
      <3>4. CASE UNCHANGED <<queue, unfinished>>
        BY <1>1, <3>2, <3>4, BalanceKept DEF Balanced, Past, Busy
      <3>5. CASE status = "failed" /\ hand[c].attempt < MaxAttempts
        <4>1. [hand[c] EXCEPT !.attempt = @ + 1] \in Task
          BY <3>2, <3>5 DEF Task
        <4>2. Len(queue') = Len(queue) + 1 /\ unfinished' = unfinished + 1
          BY <1>1, <3>1, <3>5, <4>1, PutBalance DEF Requeue
        <4>3. unfinished' = Len(queue') + Cardinality(Taken')
          <5>1. Cardinality(Taken) \in Nat /\ unfinished = Len(queue) + Cardinality(Taken)
            BY <1>1, TakenFacts DEF Balanced
          <5> QED
            BY <1>1, <3>3, <4>2, <5>1
        <4>4. Past' /\ \A d \in Consumers : shared'[d] => Busy(d)'
          BY <1>1, <3>2 DEF Balanced, Past, Busy
        <4> QED
          BY <4>3, <4>4 DEF Balanced
      <3> QED
        BY <3>1, <3>4, <3>5 DEF Requeue
    <2>5. CASE Settle(c)
      <3>1. /\ shared' = [shared EXCEPT ![c] = FALSE] /\ UNCHANGED <<queue, discoveryDone>>
            /\ unfinished' = unfinished - (IF shared[c] THEN 1 ELSE 0)
        BY <2>5 DEF Settle, Free, Done
      <3>2. /\ pc' = [pc EXCEPT ![c] = pc'[c]]
            /\ c = 0 /\ ~discoveryDone => pc'[c] = "discover"
        BY <1>1, <2>5 DEF Settle, Goto
      <3>3. Cardinality(Taken') = Cardinality(Taken) - (IF shared[c] THEN 1 ELSE 0)
        BY <1>1, <3>1, TakenFacts
      <3>4. unfinished' = Len(queue') + Cardinality(Taken')
        BY <1>1, <3>1, <3>3, TakenFacts DEF Balanced
      <3>5. Past' /\ \A d \in Consumers : shared'[d] => Busy(d)'
        BY <1>1, <3>1, <3>2 DEF Balanced, Past, Busy
      <3> QED
        BY <3>4, <3>5 DEF Balanced
    <2> QED
      BY <1>2, <2>1, <2>2, <2>3, <2>4, <2>5 DEF Consume
  <1>3. ASSUME NEW w \in Workers, TabLost(w) \/ Idle(w) \/ CheckUnfinished(w) \/ CheckDiscovery(w)
        PROVE  Balanced'
    <2>1. w \in Consumers /\ w # 0
      OBVIOUS
    <2>2. CASE TabLost(w) /\ hand[w].attempt < MaxAttempts
      <3>1. /\ shared' = [shared EXCEPT ![w] = FALSE] /\ UNCHANGED <<queue, discoveryDone>>
            /\ unfinished' = unfinished - (IF shared[w] THEN 1 ELSE 0)
            /\ pc' = [pc EXCEPT ![w] = "idle"]
        BY <2>2 DEF TabLost, Free, Done, Goto, eventVars
      <3>2. Cardinality(Taken') = Cardinality(Taken) - (IF shared[w] THEN 1 ELSE 0)
        BY <1>1, <2>1, <3>1, TakenFacts
      <3>3. unfinished' = Len(queue') + Cardinality(Taken')
        BY <1>1, <3>1, <3>2, TakenFacts DEF Balanced
      <3>4. Past' /\ \A d \in Consumers : shared'[d] => Busy(d)'
        BY <1>1, <2>1, <3>1 DEF Balanced, Past, Busy
      <3> QED
        BY <3>3, <3>4 DEF Balanced
    <2>3. CASE TabLost(w) /\ ~(hand[w].attempt < MaxAttempts)
      <3>1. UNCHANGED <<queue, unfinished, shared, discoveryDone>> /\ pc' = [pc EXCEPT ![w] = "fetched"]
        BY <2>3 DEF TabLost, Goto, eventVars
      <3> QED
        BY <1>1, <2>1, <3>1, BalanceKept DEF Balanced, Past, Busy
    <2>4. CASE Idle(w)
      <3>1. ~shared[w]
        BY <2>1, <2>4 DEF Idle, Balanced, Busy
      <3>2. UNCHANGED <<queue, unfinished, shared, discoveryDone>>
        BY <1>1, <2>1, <2>4, <3>1 DEF Idle, eventVars, taskVars
      <3>3. \A d \in Consumers \ {w} : pc'[d] = pc[d]
        BY <1>1, <2>4 DEF Idle, Goto
      <3> QED
        BY <2>1, <3>1, <3>2, <3>3, BalanceKept DEF Balanced, Past, Busy
    <2>5. CASE CheckUnfinished(w) \/ CheckDiscovery(w)
      <3>1. UNCHANGED <<queue, unfinished, shared, discoveryDone>> /\ ~Busy(w)
        BY <2>5 DEF CheckUnfinished, CheckDiscovery, eventVars, taskVars, Busy
      <3>2. \A d \in Consumers \ {w} : pc'[d] = pc[d]
        BY <1>1, <2>5 DEF CheckUnfinished, CheckDiscovery, Goto
      <3> QED
        BY <2>1, <3>1, <3>2, BalanceKept DEF Balanced, Past, Busy
    <2> QED
      BY <1>3, <2>2, <2>3, <2>4, <2>5
  <1>4. CASE Dispatch
    <2>1. ~shared[0] /\ UNCHANGED discoveryDone
      BY <1>4 DEF Dispatch, Balanced, Busy
    <2>2. CASE shared' = [shared EXCEPT ![0] = FALSE] /\ Goto(0, "fetching") /\ UNCHANGED <<queue, unfinished>>
      <3>1. shared' = shared
        BY <1>1, <2>1, <2>2
      <3> QED
        BY <1>1, <2>1, <2>2, <3>1, BalanceKept DEF Balanced, Past, Busy, Goto
    <2>3. CASE Put([thread |-> next, attempt |-> 1]) /\ UNCHANGED <<hand, shared, pc>>
      <3>1. [thread |-> next, attempt |-> 1] \in Task
        BY <1>4 DEF Dispatch, Task
      <3>2. Len(queue') = Len(queue) + 1 /\ unfinished' = unfinished + 1 /\ Taken' = Taken
        BY <1>1, <2>3, <3>1, PutBalance DEF Taken
      <3>3. unfinished' = Len(queue') + Cardinality(Taken')
        BY <1>1, <3>2, TakenFacts DEF Balanced
      <3> QED
        BY <2>1, <2>3, <3>3 DEF Balanced, Past, Busy
    <2> QED
      BY <1>4, <2>2, <2>3 DEF Dispatch
  <1>5. CASE DispatchKnown \/ PageCloses
    BY <1>5, BalanceKept DEF DispatchKnown, PageCloses, taskVars, eventVars, consumerVars, Balanced,
                             Past, Busy
  <1>6. CASE DiscoveryEnds \/ Drain \/ CheckPeers \/ End
    <2>1. /\ UNCHANGED <<queue, unfinished, shared>> /\ ~Busy(0)
          /\ \A d \in Consumers \ {0} : pc'[d] = pc[d]
      BY <1>1, <1>6 DEF DiscoveryEnds, Drain, CheckPeers, End, taskVars, Busy, Goto
    <2>2. (discoveryDone' /\ ~shared[0]) \/ pc'[0] = "ended"
      BY <1>1, <1>6, <2>1 DEF DiscoveryEnds, Drain, CheckPeers, End, eventVars, Balanced, Past, Goto
    <2> QED
      BY <2>1, <2>2, BalanceKept DEF Balanced, Past, Busy
  <1>7. CASE DiscoveryRaises
    <2>1. ~shared[0] /\ shared' = [shared EXCEPT ![0] = FALSE] /\ UNCHANGED <<queue, unfinished>>
      BY <1>7 DEF DiscoveryRaises, Balanced, Past, Free, taskVars
    <2>2. shared' = shared /\ discoveryDone' /\ \A d \in Consumers \ {0} : pc'[d] = pc[d]
      BY <1>1, <1>7, <2>1 DEF DiscoveryRaises, Goto
    <2> QED
      BY <2>1, <2>2, BalanceKept DEF Balanced, Past, Busy
  <1>8. CASE Interrupt
    <2>1. /\ shared' = [shared EXCEPT ![0] = FALSE] /\ UNCHANGED <<queue, discoveryDone>>
          /\ unfinished' = unfinished - (IF shared[0] THEN 1 ELSE 0)
          /\ pc' = [pc EXCEPT ![0] = "wait"] /\ discoveryDone
      BY <1>8 DEF Interrupt, Free, Done, Goto
    <2>2. Cardinality(Taken') = Cardinality(Taken) - (IF shared[0] THEN 1 ELSE 0)
      BY <1>1, <2>1, TakenFacts
    <2>3. unfinished' = Len(queue') + Cardinality(Taken')
      BY <1>1, <2>1, <2>2, TakenFacts DEF Balanced
    <2>4. Past' /\ \A d \in Consumers : shared'[d] => Busy(d)'
      BY <1>1, <2>1 DEF Balanced, Past, Busy
    <2> QED
      BY <2>3, <2>4 DEF Balanced
  <1>9. CASE Crash
    <2>1. Taken' = {} /\ queue' = <<>> /\ unfinished' = 0
      BY <1>9 DEF Crash, FreshMemory, Taken
    <2>2. pc'[0] = "down" /\ \A d \in Consumers : ~shared'[d]
      BY <1>9 DEF Crash, FreshMemory
    <2> QED
      BY <2>1, <2>2, FS_EmptySet DEF Balanced, Past
  <1>10. CASE Resume
    <2>1. Taken' = {} /\ \A d \in Consumers : ~shared'[d]
      BY <1>10 DEF Resume, FreshMemory, Taken
    <2>2. Len(queue') = Cardinality(Pending) /\ unfinished' = Cardinality(Pending)
      BY <1>10, ResumedQueue DEF Resume
    <2>3. Cardinality(Pending) \in Nat
      <3>1. Pending \subseteq Threads
        BY DEF Pending, Shape, DataOK
      <3> QED
        BY <3>1, FS_Subset, FS_CardinalityType
    <2>4. Past'
      BY <1>10, <2>1 DEF Resume, Past, Shape, DataOK
    <2> QED
      BY <2>1, <2>2, <2>3, <2>4, FS_EmptySet DEF Balanced
  <1> QED
    BY <1>2, <1>3, <1>4, <1>5, <1>6, <1>7, <1>8, <1>9, <1>10 DEF Next, Orchestrator, Background

-----------------------------------------------------------------------------
(* One copy of every task.                                                 *)

\* A consumer that is about to fetch its task, fetches it, or is about to record
\* that it is persisted.
Working(c) == \/ pc[c] \in {"picked", "fetching"}
              \/ pc[c] = "fetched" /\ got[c] = "persisted"

\* The consumer has a copy of the thread's task.
Held(c, t) == \/ Working(c) /\ hand[c].thread = t
              \/ local[c] # NoTask /\ local[c].thread = t

\* The checkpoint knows the thread and does not call it persisted.
Owed(t) == t \in log.tasks /\ log.results[t] # "persisted"

\* What is persisted or in a hand was dispatched.
InLog == /\ \A t \in Threads : log.results[t] = "persisted" => t \in log.tasks
         /\ \A c \in Consumers : Busy(c) => hand[c].thread \in log.tasks

\* A task kept for the next round is taken before any other.
LocalWaits == \A c \in Consumers : local[c] # NoTask => pc[c] \in {"idle", "off"}

Queued == 1 .. Len(queue)

OneCopy ==
    /\ \A i, j \in Queued : queue[i].thread = queue[j].thread => i = j
    /\ \A i \in Queued, t \in Threads : queue[i].thread = t =>
          Owed(t) /\ \A c \in Consumers : ~Held(c, t)
    /\ \A c \in Consumers, t \in Threads : Held(c, t) =>
          Owed(t) /\ \A d \in Consumers : Held(d, t) => d = c
    /\ InLog /\ LocalWaits

\* Consumers that hold no more than before, of what is still owed.
LEMMA HeldLess ==
    ASSUME OneCopy, queue' = queue, InLog', LocalWaits',
           \A i \in Queued, t \in Threads : queue[i].thread = t => Owed(t)',
           \A c \in Consumers, t \in Threads : Held(c, t)' => Held(c, t) /\ Owed(t)'
    PROVE  OneCopy'
  <1>1. Queued' = Queued
    BY DEF Queued
  <1>2. \A i, j \in Queued' : queue'[i].thread = queue'[j].thread => i = j
    BY <1>1 DEF OneCopy
  <1>3. \A i \in Queued', t \in Threads : queue'[i].thread = t =>
            Owed(t)' /\ \A c \in Consumers : ~Held(c, t)'
    BY <1>1 DEF OneCopy
  <1>4. \A c \in Consumers, t \in Threads : Held(c, t)' =>
            Owed(t)' /\ \A d \in Consumers : Held(d, t)' => d = c
    BY DEF OneCopy
  <1> QED
    BY <1>2, <1>3, <1>4 DEF OneCopy

\* A task that goes to the queue while nobody else has it.
LEMMA HeldPut ==
    ASSUME OneCopy, queue \in Seq(Task), NEW task \in Task, queue' = Append(queue, task),
           InLog', LocalWaits',
           \A i \in Queued : queue[i].thread # task.thread,
           \A t \in Threads : Owed(t) \/ t = task.thread => Owed(t)',
           \A c \in Consumers, t \in Threads : Held(c, t)' => Held(c, t) /\ t # task.thread
    PROVE  OneCopy'
  <1> DEFINE n == Len(queue)
  <1>1. n \in Nat /\ Queued = 1 .. n /\ Queued' = 1 .. n + 1
    BY DEF Queued
  <1>2. queue'[n + 1] = task /\ \A i \in 1 .. n : queue'[i] = queue[i]
    OBVIOUS
  <1> HIDE DEF n
  <1>3. \A i \in Queued' : \/ i = n + 1 /\ queue'[i] = task
                           \/ i \in Queued /\ queue'[i] = queue[i]
    BY <1>1, <1>2
  <1>4. \A i, j \in Queued' : queue'[i].thread = queue'[j].thread => i = j
    BY <1>3 DEF OneCopy
  <1>5. \A i \in Queued', t \in Threads : queue'[i].thread = t =>
            Owed(t)' /\ \A c \in Consumers : ~Held(c, t)'
    <2> SUFFICES ASSUME NEW i \in Queued', NEW t \in Threads, queue'[i].thread = t
                 PROVE  Owed(t)' /\ \A c \in Consumers : ~Held(c, t)'
      OBVIOUS
    <2>1. CASE t = task.thread
      BY <2>1
    <2>2. CASE i \in Queued /\ queue[i].thread = t
      BY <2>2 DEF OneCopy
    <2> QED
      BY <1>3, <2>1, <2>2
  <1>6. \A c \in Consumers, t \in Threads : Held(c, t)' =>
            Owed(t)' /\ \A d \in Consumers : Held(d, t)' => d = c
    BY DEF OneCopy
  <1> QED
    BY <1>4, <1>5, <1>6 DEF OneCopy

\* The head of the queue goes to one consumer.
LEMMA HeldTake ==
    ASSUME OneCopy, queue \in Seq(Task), queue # <<>>, queue' = Tail(queue), log' = log,
           InLog', LocalWaits', NEW c \in Consumers,
           \A d \in Consumers, t \in Threads :
               Held(d, t)' => Held(d, t) \/ (d = c /\ t = Head(queue).thread)
    PROVE  OneCopy'
  <1> DEFINE n == Len(queue)
  <1>1. n \in Nat /\ n > 0 /\ Queued = 1 .. n /\ Queued' = 1 .. n - 1 /\ Head(queue) = queue[1]
    BY DEF Queued
  <1>2. \A i \in 1 .. n - 1 : queue'[i] = queue[i + 1]
    OBVIOUS
  <1> HIDE DEF n
  <1>3. 1 \in Queued /\ \A i \in Queued' : /\ i + 1 \in Queued /\ i + 1 # 1 /\ i \in Int
                                           /\ queue'[i] = queue[i + 1]
    <2>1. 1 \in Queued
      BY <1>1
    <2>2. ASSUME NEW i \in Queued'
          PROVE  i + 1 \in Queued /\ i + 1 # 1 /\ i \in Int /\ queue'[i] = queue[i + 1]
      <3>1. i \in 1 .. n - 1
        BY <1>1
      <3>2. i \in Int /\ i + 1 \in 1 .. n /\ i + 1 # 1
        BY <1>1, <3>1
      <3> QED
        BY <1>1, <1>2, <3>1, <3>2
    <2> QED
      BY <2>1, <2>2
  <1>4. \A t \in Threads : Owed(t)' <=> Owed(t)
    BY DEF Owed
  <1>5. \A i, j \in Queued' : queue'[i].thread = queue'[j].thread => i = j
    <2> SUFFICES ASSUME NEW i \in Queued', NEW j \in Queued', queue'[i].thread = queue'[j].thread
                 PROVE  i = j
      OBVIOUS
    <2>1. /\ i + 1 \in Queued /\ j + 1 \in Queued /\ i \in Int /\ j \in Int
          /\ queue[i + 1].thread = queue[j + 1].thread
      BY <1>3
    <2>2. i + 1 = j + 1
      BY <2>1 DEF OneCopy
    <2> QED
      BY <2>1, <2>2
  <1>6. \A i \in Queued', t \in Threads : queue'[i].thread = t =>
            Owed(t)' /\ \A d \in Consumers : ~Held(d, t)'
    <2> SUFFICES ASSUME NEW i \in Queued', NEW t \in Threads, queue'[i].thread = t
                 PROVE  Owed(t)' /\ \A d \in Consumers : ~Held(d, t)'
      OBVIOUS
    <2>1. i + 1 \in Queued /\ queue[i + 1].thread = t
      BY <1>3
    <2>2. t # queue[1].thread
      BY <1>3, <2>1 DEF OneCopy
    <2> QED
      BY <1>1, <1>4, <2>1, <2>2 DEF OneCopy
  <1>7. \A d \in Consumers, t \in Threads : Held(d, t)' =>
            Owed(t)' /\ \A e \in Consumers : Held(e, t)' => e = d
    <2> SUFFICES ASSUME NEW d \in Consumers, NEW t \in Threads, Held(d, t)'
                 PROVE  Owed(t)' /\ \A e \in Consumers : Held(e, t)' => e = d
      OBVIOUS
    <2>1. CASE t = queue[1].thread
      <3>1. Owed(t) /\ \A e \in Consumers : ~Held(e, t)
        BY <1>3, <2>1 DEF OneCopy
      <3> QED
        BY <1>4, <3>1
    <2>2. CASE t # queue[1].thread
      <3>1. Held(d, t) /\ \A e \in Consumers : Held(e, t)' => Held(e, t)
        BY <1>1, <2>2
      <3> QED
        BY <1>4, <3>1 DEF OneCopy
    <2> QED
      BY <2>1, <2>2
  <1> QED
    BY <1>5, <1>6, <1>7 DEF OneCopy

LEMMA InitOneCopy == Init => OneCopy
  <1> SUFFICES ASSUME Init PROVE OneCopy
    OBVIOUS
  <1>1. Queued = {}
    BY DEF Init, Queued
  <1>2. \A c \in Consumers : /\ pc[c] \in {"discover", "idle", "off"} /\ local[c] = NoTask
    BY DEF Init
  <1>3. \A c \in Consumers, t \in Threads : ~Held(c, t)
    BY <1>2 DEF Held, Working
  <1>4. InLog /\ LocalWaits
    BY <1>2 DEF Init, InLog, LocalWaits, Busy
  <1> QED
    BY <1>1, <1>3, <1>4 DEF OneCopy

\* Nobody's hands change.
LEMMA SameHands ==
    ASSUME OneCopy, UNCHANGED <<queue, hand, got, local, log>>,
           \A c \in Consumers : /\ Working(c)' => Working(c)
                                /\ Busy(c)' => Busy(c)
                                /\ local[c] # NoTask => pc'[c] \in {"idle", "off"}
    PROVE  OneCopy'
  <1>1. \A t \in Threads : Owed(t)' <=> Owed(t)
    BY DEF Owed
  <1>2. \A c \in Consumers, t \in Threads : Held(c, t)' => Held(c, t)
    BY DEF Held
  <1>3. InLog' /\ LocalWaits'
    BY DEF OneCopy, InLog, LocalWaits
  <1> QED
    BY <1>1, <1>2, <1>3, HeldLess DEF OneCopy

\* One consumer's task leaves its hand, and nobody gets it.
LEMMA HandEmptied ==
    ASSUME Shape, OneCopy, UNCHANGED <<queue, local, log>>, NEW c \in Consumers,
           NEW label, pc' = [pc EXCEPT ![c] = label], Free(c),
           label \notin {"picked", "fetching", "fetched", "recorded"},
           local[c] # NoTask => label \in {"idle", "off"}
    PROVE  OneCopy'
  <1>1. /\ \A d \in Consumers \ {c} : /\ pc'[d] = pc[d] /\ hand'[d] = hand[d] /\ got'[d] = got[d]
                                      /\ local'[d] = local[d]
        /\ pc'[c] = label
    BY DEF Shape, ConsumersOK, Free
  <1>2. \A t \in Threads : Owed(t)' <=> Owed(t)
    BY DEF Owed
  <1>3. \A d \in Consumers, t \in Threads : Held(d, t)' => Held(d, t)
    BY <1>1 DEF Held, Working
  <1>4. InLog' /\ LocalWaits'
    BY <1>1 DEF OneCopy, InLog, LocalWaits, Busy
  <1> QED
    BY <1>2, <1>3, <1>4, HeldLess DEF OneCopy

\* The steps every consumer takes.
LEMMA ConsumeOneCopy ==
    ASSUME Shape, OneCopy, NEW c \in Consumers, Consume(c)
    PROVE  OneCopy'
  <1> USE Parameters
  <1>1. /\ queue \in Seq(Task) /\ pc \in [Consumers -> Labels]
        /\ hand \in [Consumers -> Task \cup {NoTask}] /\ got \in [Consumers -> Statuses \cup {"none"}]
        /\ local \in [Consumers -> Task \cup {NoTask}]
        /\ \A d \in Consumers : Busy(d) => hand[d] \in Task
    BY DEF Shape, ConsumersOK, HandsFull
  <1>2. \A d \in Consumers : Busy(d) => hand[d].thread \in Threads
    BY <1>1 DEF Task
  <1>3. CASE Get(c)
    <2>1. local[c] = NoTask
      BY <1>3 DEF Get, OneCopy, LocalWaits
    <2>2. CASE queue = <<>>
      BY <1>1, <1>3, <2>1, <2>2, SameHands DEF Get, Goto, Working, Busy, OneCopy, LocalWaits, diskVars
    <2>3. CASE queue # <<>>
      <3>1. /\ queue' = Tail(queue) /\ hand' = [hand EXCEPT ![c] = Head(queue)]
            /\ pc' = [pc EXCEPT ![c] = "picked"] /\ UNCHANGED <<log, got, local>>
        BY <1>3, <2>3 DEF Get, Goto, diskVars
      <3>2. /\ \A d \in Consumers \ {c} : pc'[d] = pc[d] /\ hand'[d] = hand[d]
            /\ pc'[c] = "picked" /\ hand'[c] = Head(queue)
        BY <1>1, <3>1
      <3>3. \A d \in Consumers, t \in Threads :
               Held(d, t)' => Held(d, t) \/ (d = c /\ t = Head(queue).thread)
        BY <2>1, <3>1, <3>2 DEF Held, Working
      <3>4. Head(queue) \in Task /\ Head(queue) = queue[1] /\ 1 \in Queued
        BY <1>1, <2>3 DEF Queued
      <3>5. Head(queue).thread \in Threads
        BY <3>4 DEF Task
      <3>6. Head(queue).thread \in log.tasks
        BY <3>4, <3>5 DEF OneCopy, Owed
      <3>7. InLog'
        BY <3>1, <3>2, <3>6 DEF OneCopy, InLog, Busy
      <3>8. LocalWaits'
        BY <2>1, <3>1, <3>2 DEF OneCopy, LocalWaits
      <3> QED
        BY <1>1, <2>3, <3>1, <3>3, <3>7, <3>8, HeldTake
    <2> QED
      BY <2>2, <2>3
  <1>4. CASE PutBack(c)
    <2>1. /\ queue' = Append(queue, hand[c]) /\ pc' = [pc EXCEPT ![c] = Exit(c)]
          /\ hand' = [hand EXCEPT ![c] = NoTask] /\ got' = [got EXCEPT ![c] = "none"]
          /\ UNCHANGED <<log, local>> /\ pc[c] = "picked"
      BY <1>4 DEF PutBack, Goto, Free, diskVars
    <2>2. local[c] = NoTask /\ hand[c] \in Task /\ hand[c].thread \in Threads
      BY <1>1, <1>2, <2>1 DEF OneCopy, LocalWaits, Busy
    <2>3. Held(c, hand[c].thread)
      BY <2>1 DEF Held, Working
    <2>4. /\ \A d \in Consumers \ {c} : /\ pc'[d] = pc[d] /\ hand'[d] = hand[d]
                                        /\ got'[d] = got[d] /\ local'[d] = local[d]
          /\ pc'[c] \in {"wait", "off"} /\ local'[c] = NoTask
      BY <1>1, <2>1, <2>2 DEF Exit
    <2>5. \A d \in Consumers, t \in Threads : Held(d, t)' => Held(d, t) /\ d # c
      BY <2>4 DEF Held, Working
    <2>6. \A d \in Consumers, t \in Threads : Held(d, t)' => Held(d, t) /\ t # hand[c].thread
      BY <2>2, <2>3, <2>5 DEF OneCopy
    <2>7. \A i \in Queued : queue[i].thread # hand[c].thread
      BY <2>2, <2>3 DEF OneCopy
    <2>8. \A t \in Threads : Owed(t) \/ t = hand[c].thread => Owed(t)'
      BY <2>1, <2>2, <2>3 DEF OneCopy, Owed
    <2>9. InLog' /\ LocalWaits'
      BY <2>1, <2>4 DEF OneCopy, InLog, LocalWaits, Busy
    <2> QED
      BY <1>1, <2>1, <2>2, <2>6, <2>7, <2>8, <2>9, HeldPut
  <1>5. CASE BeginFetch(c)
    <2>1. /\ pc' = [pc EXCEPT ![c] = "fetching"] /\ pc[c] = "picked"
          /\ UNCHANGED <<queue, hand, got, local, log>>
      BY <1>5 DEF BeginFetch, Goto, diskVars, taskVars
    <2>2. \A d \in Consumers : /\ Working(d)' => Working(d)
                               /\ Busy(d)' => Busy(d)
                               /\ local[d] # NoTask => pc'[d] \in {"idle", "off"}
      BY <1>1, <2>1 DEF Working, Busy, OneCopy, LocalWaits
    <2> QED
      BY <2>1, <2>2, SameHands
  <1>6. CASE Fetch(c)
    <2>1. PICK status : got' = [got EXCEPT ![c] = status] /\ Requeue(hand[c], status)
      BY <1>6 DEF Fetch
    <2>2. /\ pc' = [pc EXCEPT ![c] = "fetched"] /\ pc[c] = "fetching"
          /\ UNCHANGED <<hand, local, log>>
      BY <1>6 DEF Fetch, Goto
    <2>3. /\ \A d \in Consumers \ {c} : pc'[d] = pc[d] /\ got'[d] = got[d]
          /\ pc'[c] = "fetched" /\ got'[c] = status
          /\ local[c] = NoTask /\ hand[c] \in Task /\ hand[c].thread \in Threads
      BY <1>1, <1>2, <2>1, <2>2 DEF OneCopy, LocalWaits, Busy
    <2>4. InLog' /\ LocalWaits'
      BY <2>2, <2>3 DEF OneCopy, InLog, LocalWaits, Busy
    <2>5. \A d \in Consumers, t \in Threads :
              Held(d, t)' => Held(d, t) /\ (d = c => status = "persisted")
      BY <2>2, <2>3 DEF Held, Working
    <2>6. \A t \in Threads : Owed(t)' <=> Owed(t)
      BY <2>2 DEF Owed
    <2>7. CASE queue' = queue
      BY <2>4, <2>5, <2>6, <2>7, HeldLess DEF OneCopy
    <2>8. CASE status = "failed" /\ hand[c].attempt < MaxAttempts
      <3> DEFINE task == [hand[c] EXCEPT !.attempt = @ + 1]
      <3>1. task \in Task /\ task.thread = hand[c].thread
        BY <2>3, <2>8 DEF Task
      <3>2. queue' = Append(queue, task)
        BY <2>1, <2>8 DEF Requeue, Put
      <3> HIDE DEF task
      <3>3. Held(c, task.thread) /\ task.thread \in Threads
        BY <2>2, <2>3, <3>1 DEF Held, Working
      <3>4. \A d \in Consumers, t \in Threads : Held(d, t)' => Held(d, t) /\ t # task.thread
        BY <2>5, <2>8, <3>3 DEF OneCopy
      <3>5. \A i \in Queued : queue[i].thread # task.thread
        BY <3>3 DEF OneCopy
      <3>6. \A t \in Threads : Owed(t) \/ t = task.thread => Owed(t)'
        BY <2>6, <3>3 DEF OneCopy
      <3> QED
        BY <1>1, <2>4, <3>1, <3>2, <3>4, <3>5, <3>6, HeldPut
    <2> QED
      BY <2>1, <2>7, <2>8 DEF Requeue
  <1>7. CASE Record(c)
    <2>1. /\ pc' = [pc EXCEPT ![c] = "recorded"] /\ pc[c] = "fetched"
          /\ log' = [log EXCEPT !.results = Apply(log.results, hand[c].thread, got[c])]
          /\ UNCHANGED <<queue, hand, got, local>>
      BY <1>7 DEF Record, Goto
    <2>2. /\ \A d \in Consumers \ {c} : pc'[d] = pc[d]
          /\ pc'[c] = "recorded"
          /\ local[c] = NoTask /\ hand[c].thread \in Threads
      BY <1>1, <1>2, <2>1 DEF OneCopy, LocalWaits, Busy
    <2>3. /\ log'.tasks = log.tasks
          /\ \A t \in Threads : log'.results[t] = log.results[t]
                                \/ (t = hand[c].thread /\ log'.results[t] = got[c])
      BY <2>1, <2>2 DEF Apply, Shape, DataOK
    <2>4. \A d \in Consumers, t \in Threads : Held(d, t)' => Held(d, t) /\ d # c
      BY <2>1, <2>2 DEF Held, Working
    <2>5. got[c] = "persisted" => Held(c, hand[c].thread)
      BY <2>1 DEF Held, Working
    <2>6. \A i \in Queued, t \in Threads : queue[i].thread = t => Owed(t)'
      BY <2>2, <2>3, <2>5 DEF OneCopy, Owed
    <2>7. \A d \in Consumers, t \in Threads : Held(d, t)' => Owed(t)'
      <3> SUFFICES ASSUME NEW d \in Consumers, NEW t \in Threads, Held(d, t)'
                   PROVE  Owed(t)'
        OBVIOUS
      <3>1. Held(d, t) /\ d # c /\ Owed(t)
        BY <2>4 DEF OneCopy
      <3>2. ~(t = hand[c].thread /\ got[c] = "persisted")
        BY <2>5, <3>1 DEF OneCopy
      <3> QED
        BY <2>3, <3>1, <3>2 DEF Owed
    <2>8. InLog' /\ LocalWaits'
      <3>1. hand[c].thread \in log.tasks
        BY <2>1 DEF OneCopy, InLog, Busy
      <3>2. InLog'
        BY <2>1, <2>2, <2>3, <3>1 DEF OneCopy, InLog, Busy
      <3>3. LocalWaits'
        BY <2>1, <2>2 DEF OneCopy, LocalWaits
      <3> QED
        BY <3>2, <3>3
    <2> QED
      BY <2>1, <2>4, <2>6, <2>7, <2>8, HeldLess
  <1>8. CASE Settle(c)
    <2>1. PICK label \in {"discover", "wait", "off", "drain", "idle"} : pc' = [pc EXCEPT ![c] = label]
      BY <1>8 DEF Settle, Goto, Exit, Loop
    <2>2. Free(c) /\ UNCHANGED <<queue, local, log>> /\ local[c] = NoTask
      BY <1>8 DEF Settle, OneCopy, LocalWaits, diskVars
    <2> QED
      BY <2>1, <2>2, HandEmptied
  <1> QED
    BY <1>3, <1>4, <1>5, <1>6, <1>7, <1>8 DEF Consume

LEMMA OneCopyStep ==
    ASSUME Shape, Balanced, OneCopy, Next
    PROVE  OneCopy'
  <1> USE Parameters
  <1>1. /\ queue \in Seq(Task) /\ pc \in [Consumers -> Labels] /\ pc[0] \in FirstLabels
        /\ hand \in [Consumers -> Task \cup {NoTask}] /\ got \in [Consumers -> Statuses \cup {"none"}]
        /\ local \in [Consumers -> Task \cup {NoTask}]
        /\ \A w \in Workers : pc[w] \in OtherLabels
        /\ \A d \in Consumers : Busy(d) => hand[d] \in Task
    BY DEF Shape, ConsumersOK, HandsFull
  <1>2. local[0] # NoTask => FALSE
    BY <1>1 DEF OneCopy, LocalWaits, FirstLabels
  <1>3. ASSUME NEW c \in Consumers, Consume(c)
        PROVE  OneCopy'
    BY <1>3, ConsumeOneCopy
  <1>4. ASSUME NEW w \in Workers, TabLost(w)
        PROVE  OneCopy'
    <2>1. /\ pc[w] = "fetching" /\ local[w] = NoTask
          /\ hand[w] \in Task /\ hand[w].thread \in Threads
      <3>1. pc[w] = "fetching"
        BY <1>4 DEF TabLost
      <3> QED
        BY <1>1, <3>1 DEF Busy, Task, OneCopy, LocalWaits
    <2>2. CASE hand[w].attempt < MaxAttempts
      <3>1. /\ local' = [local EXCEPT ![w] = [hand[w] EXCEPT !.attempt = @ + 1]]
            /\ pc' = [pc EXCEPT ![w] = "idle"] /\ UNCHANGED <<queue, log>> /\ Free(w)
        BY <1>4, <2>2 DEF TabLost, Goto, diskVars
      <3>2. /\ \A d \in Consumers \ {w} : /\ pc'[d] = pc[d] /\ hand'[d] = hand[d]
                                          /\ got'[d] = got[d] /\ local'[d] = local[d]
            /\ pc'[w] = "idle" /\ local'[w] = [hand[w] EXCEPT !.attempt = @ + 1]
        BY <1>1, <3>1 DEF Free
      <3>3. local'[w].thread = hand[w].thread
        BY <2>1, <3>2 DEF Task
      <3>4. \A d \in Consumers, t \in Threads : Held(d, t)' => Held(d, t)
        BY <2>1, <3>2, <3>3 DEF Held, Working
      <3>5. \A t \in Threads : Owed(t)' <=> Owed(t)
        BY <3>1 DEF Owed
      <3>6. InLog' /\ LocalWaits'
        BY <3>1, <3>2 DEF OneCopy, InLog, LocalWaits, Busy
      <3> QED
        BY <3>1, <3>4, <3>5, <3>6, HeldLess DEF OneCopy
    <2>3. CASE ~(hand[w].attempt < MaxAttempts)
      <3>1. /\ got' = [got EXCEPT ![w] = "failed"] /\ pc' = [pc EXCEPT ![w] = "fetched"]
            /\ UNCHANGED <<queue, log, local, hand>>
        BY <1>4, <2>3 DEF TabLost, Goto, diskVars
      <3>2. /\ \A d \in Consumers \ {w} : pc'[d] = pc[d] /\ got'[d] = got[d]
            /\ pc'[w] = "fetched" /\ got'[w] = "failed"
        BY <1>1, <3>1
      <3>3. \A d \in Consumers, t \in Threads : Held(d, t)' => Held(d, t)
        BY <2>1, <3>1, <3>2 DEF Held, Working
      <3>4. \A t \in Threads : Owed(t)' <=> Owed(t)
        BY <3>1 DEF Owed
      <3>5. InLog' /\ LocalWaits'
        BY <2>1, <3>1, <3>2 DEF OneCopy, InLog, LocalWaits, Busy
      <3> QED
        BY <3>1, <3>3, <3>4, <3>5, HeldLess DEF OneCopy
    <2> QED
      BY <2>2, <2>3
  <1>5. ASSUME NEW w \in Workers, Idle(w)
        PROVE  OneCopy'
    <2>1. CASE stop \/ local[w] = NoTask
      <3>1. /\ UNCHANGED <<queue, hand, got, local, log>>
            /\ \/ pc' = [pc EXCEPT ![w] = "off"]
               \/ local[w] = NoTask /\ pc' = [pc EXCEPT ![w] = "get"]
        BY <1>5, <2>1 DEF Idle, Goto, diskVars, taskVars
      <3>2. \A d \in Consumers : /\ Working(d)' => Working(d)
                                 /\ Busy(d)' => Busy(d)
                                 /\ local[d] # NoTask => pc'[d] \in {"idle", "off"}
        BY <1>1, <3>1 DEF Working, Busy, OneCopy, LocalWaits
      <3> QED
        BY <3>1, <3>2, SameHands
    <2>2. CASE ~stop /\ local[w] # NoTask
      <3>1. /\ local[w] # NoTask /\ hand' = [hand EXCEPT ![w] = local[w]]
            /\ local' = [local EXCEPT ![w] = NoTask] /\ pc' = [pc EXCEPT ![w] = "picked"]
            /\ UNCHANGED <<queue, got, log>>
        BY <1>5, <2>2 DEF Idle, Goto, diskVars, taskVars
      <3>2. /\ \A d \in Consumers \ {w} : /\ pc'[d] = pc[d] /\ hand'[d] = hand[d]
                                          /\ got'[d] = got[d] /\ local'[d] = local[d]
            /\ pc'[w] = "picked" /\ local'[w] = NoTask /\ hand'[w] = local[w]
        BY <1>1, <3>1
      <3>3. local[w] \in Task /\ local[w].thread \in Threads
        BY <1>1, <3>1 DEF Task
      <3>4. \A d \in Consumers, t \in Threads : Held(d, t)' => Held(d, t)
        BY <3>1, <3>2 DEF Held, Working
      <3>5. \A t \in Threads : Owed(t)' <=> Owed(t)
        BY <3>1 DEF Owed
      <3>6. Held(w, local[w].thread)
        BY <3>1 DEF Held
      <3>7. local[w].thread \in log.tasks
        BY <3>3, <3>6 DEF OneCopy, Owed
      <3>8. InLog' /\ LocalWaits'
        BY <3>1, <3>2, <3>7 DEF OneCopy, InLog, LocalWaits, Busy
      <3> QED
        BY <3>1, <3>4, <3>5, <3>8, HeldLess DEF OneCopy
    <2> QED
      BY <2>1, <2>2
  <1>6. CASE \E w \in Workers : CheckUnfinished(w) \/ CheckDiscovery(w)
    <2>1. PICK w \in Workers : CheckUnfinished(w) \/ CheckDiscovery(w)
      BY <1>6
    <2>2. PICK label \in {"leaving", "idle", "off"} : pc' = [pc EXCEPT ![w] = label]
      BY <2>1 DEF CheckUnfinished, CheckDiscovery, Goto
    <2>3. /\ UNCHANGED <<queue, hand, got, local, log>>
          /\ local[w] = NoTask
      BY <2>1 DEF CheckUnfinished, CheckDiscovery, diskVars, taskVars, OneCopy, LocalWaits
    <2>4. \A d \in Consumers : /\ Working(d)' => Working(d)
                               /\ Busy(d)' => Busy(d)
                               /\ local[d] # NoTask => pc'[d] \in {"idle", "off"}
      BY <1>1, <2>2, <2>3 DEF Working, Busy, OneCopy, LocalWaits
    <2> QED
      BY <2>3, <2>4, SameHands
  <1>7. CASE Dispatch
    <2>1. /\ next \in Threads /\ next \notin log.tasks /\ pc[0] = "discover"
          /\ log' = [log EXCEPT !.tasks = log.tasks \cup {next}] /\ UNCHANGED <<got, local>>
      BY <1>7 DEF Dispatch, Known
    <2>2. log'.tasks = log.tasks \cup {next} /\ log'.results = log.results
      BY <2>1 DEF Shape, DataOK
    <2>3. \A t \in Threads : Owed(t) \/ t = next => Owed(t)'
      BY <2>1, <2>2 DEF Owed, OneCopy, InLog
    <2>4. \A i \in Queued : queue[i].thread # next
      BY <2>1 DEF OneCopy, Owed
    <2>5. \A c \in Consumers : ~Held(c, next)
      BY <2>1 DEF OneCopy, Owed
    <2>6. CASE /\ hand' = [hand EXCEPT ![0] = [thread |-> next, attempt |-> 1]]
               /\ pc' = [pc EXCEPT ![0] = "fetching"] /\ queue' = queue
      <3>1. /\ \A d \in Consumers \ {0} : pc'[d] = pc[d] /\ hand'[d] = hand[d]
            /\ pc'[0] = "fetching" /\ hand'[0].thread = next
        BY <1>1, <2>6
      <3>2. \A c \in Consumers, t \in Threads : Held(c, t)' => Held(c, t) \/ (c = 0 /\ t = next)
        BY <1>2, <2>1, <3>1 DEF Held, Working
      <3>3. InLog' /\ LocalWaits'
        BY <1>2, <2>1, <2>2, <3>1 DEF OneCopy, InLog, LocalWaits, Busy
      <3>4. Queued' = Queued
        BY <2>6 DEF Queued
      <3>5. \A i, j \in Queued' : queue'[i].thread = queue'[j].thread => i = j
        BY <2>6, <3>4 DEF OneCopy
      <3>6. \A i \in Queued', t \in Threads : queue'[i].thread = t =>
                Owed(t)' /\ \A c \in Consumers : ~Held(c, t)'
        BY <2>3, <2>4, <2>6, <3>2, <3>4 DEF OneCopy
      <3>7. \A c \in Consumers, t \in Threads : Held(c, t)' =>
                Owed(t)' /\ \A d \in Consumers : Held(d, t)' => d = c
        BY <2>3, <2>5, <3>2 DEF OneCopy
      <3> QED
        BY <3>3, <3>5, <3>6, <3>7 DEF OneCopy
    <2>7. CASE Put([thread |-> next, attempt |-> 1]) /\ UNCHANGED <<hand, pc>>
      <3> DEFINE task == [thread |-> next, attempt |-> 1]
      <3>1. task \in Task /\ task.thread = next
        BY <2>1 DEF Task
      <3>2. queue' = Append(queue, task)
        BY <2>7 DEF Put
      <3> HIDE DEF task
      <3>3. InLog' /\ LocalWaits'
        BY <2>1, <2>2, <2>7 DEF OneCopy, InLog, LocalWaits, Busy
      <3>4. \A c \in Consumers, t \in Threads : Held(c, t)' => Held(c, t) /\ t # next
        BY <2>1, <2>5, <2>7 DEF Held, Working
      <3> QED
        BY <1>1, <2>3, <2>4, <3>1, <3>2, <3>3, <3>4, HeldPut
    <2> QED
      BY <1>7, <2>6, <2>7 DEF Dispatch, Goto
  <1>8. CASE DispatchKnown \/ PageCloses
    <2>1. UNCHANGED <<queue, hand, got, local, log, pc>>
      BY <1>8 DEF DispatchKnown, PageCloses, diskVars, taskVars, consumerVars
    <2>2. \A d \in Consumers : /\ Working(d)' => Working(d)
                               /\ Busy(d)' => Busy(d)
                               /\ local[d] # NoTask => pc'[d] \in {"idle", "off"}
      BY <2>1 DEF Working, Busy, OneCopy, LocalWaits
    <2> QED
      BY <2>1, <2>2, SameHands
  <1>9. CASE DiscoveryEnds
    <2>1. /\ pc' = [pc EXCEPT ![0] = "drain"] /\ UNCHANGED <<queue, hand, got, local>>
          /\ \/ log' = log
             \/ log' = [log EXCEPT !.discovered = TRUE]
      BY <1>9 DEF DiscoveryEnds, Goto, taskVars
    <2>2. log'.tasks = log.tasks /\ log'.results = log.results
      BY <2>1 DEF Shape, DataOK
    <2>3. \A d \in Consumers : /\ Working(d)' => Working(d)
                               /\ Busy(d)' => Busy(d)
                               /\ local[d] # NoTask => pc'[d] \in {"idle", "off"}
      BY <1>1, <1>2, <2>1 DEF Working, Busy, OneCopy, LocalWaits
    <2>4. \A c \in Consumers, t \in Threads : Held(c, t)' => Held(c, t)
      BY <2>1, <2>3 DEF Held
    <2>5. \A t \in Threads : Owed(t)' <=> Owed(t)
      BY <2>2 DEF Owed
    <2>6. InLog' /\ LocalWaits'
      BY <2>1, <2>2, <2>3 DEF OneCopy, InLog, LocalWaits
    <2> QED
      BY <2>1, <2>4, <2>5, <2>6, HeldLess DEF OneCopy
  <1>10. CASE Drain \/ CheckPeers \/ End
    <2>1. /\ UNCHANGED <<queue, hand, got, local, log>>
          /\ \E label \in {"wait", "get", "drain", "ended"} : pc' = [pc EXCEPT ![0] = label]
      BY <1>10 DEF Drain, CheckPeers, End, Goto, diskVars, taskVars
    <2>2. \A d \in Consumers : /\ Working(d)' => Working(d)
                               /\ Busy(d)' => Busy(d)
                               /\ local[d] # NoTask => pc'[d] \in {"idle", "off"}
      BY <1>1, <1>2, <2>1 DEF Working, Busy, OneCopy, LocalWaits
    <2> QED
      BY <2>1, <2>2, SameHands
  <1>11. CASE DiscoveryRaises \/ Interrupt
    <2>1. /\ UNCHANGED <<queue, local, log>> /\ Free(0) /\ pc' = [pc EXCEPT ![0] = "wait"]
      BY <1>11 DEF DiscoveryRaises, Interrupt, Goto, diskVars, taskVars
    <2> QED
      BY <1>2, <2>1, HandEmptied
  <1>12. CASE Crash \/ Resume
    <2>1. /\ \A c \in Consumers : /\ pc'[c] \notin {"picked", "fetching", "fetched", "recorded"}
                                  /\ local'[c] = NoTask
          /\ \A c \in Consumers, t \in Threads : ~Held(c, t)'
      <3>1. \A c \in Consumers : pc'[c] \in {"down", "off", "discover", "drain", "idle"}
        BY <1>12 DEF Crash, Resume, StartWorkers
      <3>2. \A c \in Consumers : local'[c] = NoTask
        BY <1>12 DEF Crash, Resume, FreshMemory
      <3> QED
        BY <3>1, <3>2 DEF Held, Working
    <2>2. CASE Crash
      <3>1. Queued' = {} /\ log' = log
        BY <2>2 DEF Crash, Queued, diskVars
      <3>2. InLog' /\ LocalWaits'
        BY <2>1, <3>1 DEF OneCopy, InLog, LocalWaits, Busy
      <3> QED
        BY <2>1, <3>1, <3>2 DEF OneCopy
    <2>3. CASE Resume
      <3>1. /\ log'.tasks = log.tasks
            /\ \A t \in Threads : (log'.results[t] = "persisted" <=> log.results[t] = "persisted")
        BY <2>3 DEF Resume, Shape, DataOK
      <3>2. InLog' /\ LocalWaits'
        BY <2>1, <3>1 DEF OneCopy, InLog, LocalWaits, Busy
      <3>3. \A t \in Pending : t \in Threads /\ Owed(t)'
        BY <3>1 DEF Pending, Owed, Terminal, Shape, DataOK
      <3> QED
        BY <2>1, <2>3, <3>2, <3>3, ResumedQueue DEF OneCopy, Queued
    <2> QED
      BY <1>12, <2>2, <2>3
  <1> QED
    BY <1>3, <1>4, <1>5, <1>6, <1>7, <1>8, <1>9, <1>10, <1>11, <1>12
       DEF Next, Orchestrator, Background

-----------------------------------------------------------------------------
(* What the records say is so.                                             *)

\* The outcome in a consumer's hand.
HandsTrue == \A c \in Consumers : Fetched(c) =>
                 /\ got[c] = "persisted" => hand[c].thread \in saved
                 /\ got[c] = "skipped" => hand[c].thread \in Excluded

\* The outcomes in the checkpoint, and those of this run.
RecordsTrue == \A t \in Threads :
                   /\ log.results[t] = "persisted" => t \in saved
                   /\ log.results[t] = "skipped" => t \in Excluded
                   /\ final[t].status = "persisted" => log.results[t] = "persisted"
                   /\ final[t].status = "skipped" => t \in Excluded

\* Discovery passes no thread by, and says so when it breaks off.
DiscoveryTrue ==
    /\ \A t \in Threads : t < next => t \in log.tasks \cup Excluded
    /\ log.discovered => \A t \in Threads : t \in log.tasks \cup Excluded
    /\ discoveryDone => log.discovered \/ partial \/ interrupted

Truthful == HandsTrue /\ RecordsTrue /\ DiscoveryTrue /\ MarkerHonest

LEMMA InitTruthful == Init => Truthful
  <1> SUFFICES ASSUME Init PROVE Truthful
    OBVIOUS
  <1>1. \A c \in Consumers : ~Fetched(c)
    BY DEF Init, Fetched
  <1>2. \A t \in Threads : log.results[t] = "none" /\ final[t].status = "none" /\ ~(t < next)
    BY DEF Init, Unknown, Threads
  <1>3. ~log.discovered /\ ~discoveryDone /\ ~marker
    BY DEF Init
  <1> QED
    BY <1>1, <1>2, <1>3 DEF Truthful, HandsTrue, RecordsTrue, DiscoveryTrue, MarkerHonest

\* Consumers whose outcome is no other than it was.
LEMMA HandsKept ==
    ASSUME HandsTrue, saved \subseteq saved',
           \A c \in Consumers : Fetched(c)' => Fetched(c) /\ hand'[c] = hand[c] /\ got'[c] = got[c]
    PROVE  HandsTrue'
  BY DEF HandsTrue

LEMMA HandsTrueStep ==
    ASSUME Shape, Truthful, Next
    PROVE  HandsTrue'
  <1> USE Parameters DEF Truthful
  <1>1. /\ pc \in [Consumers -> Labels] /\ hand \in [Consumers -> Task \cup {NoTask}]
        /\ got \in [Consumers -> Statuses \cup {"none"}]
        /\ \A d \in Consumers : Busy(d) => hand[d] \in Task
    BY DEF Shape, ConsumersOK, HandsFull
  <1>2. ASSUME NEW c \in Consumers, Fetch(c)
        PROVE  HandsTrue'
    <2>1. PICK status \in IF hand[c].thread \in Ignored THEN {"skipped", "failed"}
                                                        ELSE Statuses \ {"skipped"} :
              /\ got' = [got EXCEPT ![c] = status]
              /\ saved' = IF status = "persisted" THEN saved \cup {hand[c].thread} ELSE saved
      BY <1>2 DEF Fetch
    <2>2. pc' = [pc EXCEPT ![c] = "fetched"] /\ hand' = hand
      BY <1>2 DEF Fetch, Goto
    <2>3. /\ status = "skipped" => hand[c].thread \in Excluded
          /\ status = "persisted" => hand[c].thread \in saved'
          /\ saved \subseteq saved'
      BY <2>1 DEF Ignored
    <2>4. \A d \in Consumers \ {c} : pc'[d] = pc[d] /\ got'[d] = got[d]
      BY <1>1, <2>1, <2>2
    <2> QED
      BY <1>1, <2>1, <2>2, <2>3, <2>4 DEF HandsTrue, Fetched
  <1>3. ASSUME NEW c \in Consumers, Get(c) \/ PutBack(c) \/ BeginFetch(c) \/ Settle(c)
        PROVE  HandsTrue'
    <2>1. saved' = saved /\ \A d \in Consumers \ {c} : /\ pc'[d] = pc[d] /\ hand'[d] = hand[d]
                                                       /\ got'[d] = got[d]
      BY <1>1, <1>3 DEF Get, PutBack, BeginFetch, Settle, Goto, Free, diskVars, taskVars
    <2>2. pc'[c] \in {"empty", "picked", "fetching", "discover", "wait", "off", "drain", "idle"}
      BY <1>1, <1>3 DEF Get, PutBack, BeginFetch, Settle, Goto, Exit, Loop
    <2> QED
      BY <2>1, <2>2, HandsKept DEF Fetched
  <1>4. ASSUME NEW c \in Consumers, Record(c)
        PROVE  HandsTrue'
    <2>1. pc' = [pc EXCEPT ![c] = "recorded"] /\ pc[c] = "fetched" /\ UNCHANGED <<hand, got, saved>>
      BY <1>4 DEF Record, Goto
    <2>2. \A d \in Consumers : Fetched(d)' => Fetched(d)
      BY <1>1, <2>1 DEF Fetched
    <2> QED
      BY <2>1, <2>2, HandsKept
  <1>5. ASSUME NEW w \in Workers, TabLost(w)
        PROVE  HandsTrue'
    <2>1. saved' = saved /\ \A d \in Consumers \ {w} : /\ pc'[d] = pc[d] /\ hand'[d] = hand[d]
                                                       /\ got'[d] = got[d]
      BY <1>1, <1>5 DEF TabLost, Goto, Free, diskVars
    <2>2. pc'[w] = "idle" \/ (pc'[w] = "fetched" /\ got'[w] = "failed")
      BY <1>1, <1>5 DEF TabLost, Goto
    <2> QED
      BY <2>1, <2>2 DEF HandsTrue, Fetched
  <1>6. ASSUME NEW w \in Workers, Idle(w) \/ CheckUnfinished(w) \/ CheckDiscovery(w)
        PROVE  HandsTrue'
    <2>1. saved' = saved /\ \A d \in Consumers \ {w} : /\ pc'[d] = pc[d] /\ hand'[d] = hand[d]
                                                       /\ got'[d] = got[d]
      BY <1>1, <1>6 DEF Idle, CheckUnfinished, CheckDiscovery, Goto, diskVars, taskVars
    <2>2. pc'[w] \in {"off", "picked", "get", "leaving", "idle"}
      BY <1>1, <1>6 DEF Idle, CheckUnfinished, CheckDiscovery, Goto
    <2> QED
      BY <2>1, <2>2, HandsKept DEF Fetched
  <1>7. CASE DispatchKnown \/ PageCloses
    BY <1>7, HandsKept DEF DispatchKnown, PageCloses, diskVars, consumerVars, Fetched
  <1>8. CASE Dispatch \/ DiscoveryEnds \/ Drain \/ CheckPeers \/ End
             \/ DiscoveryRaises \/ Interrupt
    <2>1. saved' = saved /\ \A d \in Consumers \ {0} : /\ pc'[d] = pc[d] /\ hand'[d] = hand[d]
                                                       /\ got'[d] = got[d]
      BY <1>1, <1>8 DEF Dispatch, DiscoveryEnds, Drain, CheckPeers, End, DiscoveryRaises, Interrupt,
                        Goto, Free, diskVars
    <2>2. \/ pc'[0] \in {"fetching", "drain", "wait", "get", "ended"}
          \/ pc'[0] = pc[0] /\ pc[0] = "discover"
      BY <1>1, <1>8 DEF Dispatch, DiscoveryEnds, Drain, CheckPeers, End, DiscoveryRaises, Interrupt,
                        Goto
    <2> QED
      BY <2>1, <2>2, HandsKept DEF Fetched
  <1>9. CASE Crash \/ Resume
    <2>1. \A c \in Consumers : pc'[c] \in {"down", "off", "discover", "drain", "idle"}
      BY <1>9 DEF Crash, Resume, StartWorkers
    <2> QED
      BY <2>1 DEF HandsTrue, Fetched
  <1> QED
    BY <1>2, <1>3, <1>4, <1>5, <1>6, <1>7, <1>8, <1>9
       DEF Next, Orchestrator, Background, Consume

\* Records that are as they were, over a database that only grows.
LEMMA RecordsKept ==
    ASSUME RecordsTrue, MarkerHonest, saved \subseteq saved',
           \A t \in Threads : log'.results[t] = log.results[t], UNCHANGED <<final, marker>>
    PROVE  RecordsTrue' /\ MarkerHonest'
  BY DEF RecordsTrue, MarkerHonest

LEMMA RecordsTrueStep ==
    ASSUME Shape, Balanced, Truthful, Next
    PROVE  RecordsTrue' /\ MarkerHonest'
  <1> USE Parameters DEF Truthful
  <1>1. \A d \in Consumers : /\ Busy(d) => hand[d] \in Task
                             /\ Fetched(d) => got[d] \in Statuses
    BY DEF Shape, HandsFull
  <1>2. ASSUME NEW c \in Consumers, Record(c)
        PROVE  RecordsTrue' /\ MarkerHonest'
    <2> DEFINE thread == hand[c].thread
    <2>1. /\ thread \in Threads /\ got[c] \in Statuses
          /\ got[c] = "persisted" => thread \in saved
          /\ got[c] = "skipped" => thread \in Excluded
      BY <1>1, <1>2 DEF Record, Busy, Fetched, Task, HandsTrue
    <2>2. saved' = saved /\ marker' = marker
      BY <1>2 DEF Record
    <2>3. log' = [log EXCEPT !.results = Apply(log.results, thread, got[c])]
      BY <1>2 DEF Record
    <2>4. /\ \A t \in Threads \ {thread} : log'.results[t] = log.results[t]
          /\ log'.results[thread] = IF log.results[thread] = "persisted" THEN "persisted" ELSE got[c]
      BY <2>1, <2>3 DEF Apply, Shape, DataOK
    <2>5. /\ \A t \in Threads \ {thread} : final'[t] = final[t]
          /\ final'[thread] = final[thread] \/ final'[thread].status = got[c]
      BY <1>2, <2>1 DEF Record, Shape, DataOK
    <2> HIDE DEF thread
    <2>6. RecordsTrue'
      BY <2>1, <2>2, <2>4, <2>5 DEF RecordsTrue
    <2>7. MarkerHonest'
      BY <2>1, <2>2, <2>4 DEF MarkerHonest
    <2> QED
      BY <2>6, <2>7
  <1>3. ASSUME NEW c \in Consumers, Get(c) \/ PutBack(c) \/ BeginFetch(c) \/ Fetch(c) \/ Settle(c)
        PROVE  RecordsTrue' /\ MarkerHonest'
    <2>1. UNCHANGED <<log, final, marker>> /\ saved \subseteq saved'
      BY <1>3 DEF Get, PutBack, BeginFetch, Fetch, Settle, diskVars, taskVars
    <2> QED
      BY <2>1, RecordsKept
  <1>4. ASSUME NEW w \in Workers, TabLost(w) \/ Idle(w) \/ CheckUnfinished(w) \/ CheckDiscovery(w)
        PROVE  RecordsTrue' /\ MarkerHonest'
    BY <1>4, RecordsKept DEF TabLost, Idle, CheckUnfinished, CheckDiscovery, diskVars, taskVars
  <1>5. CASE DispatchKnown \/ Drain \/ CheckPeers \/ DiscoveryRaises \/ Interrupt \/ PageCloses
    BY <1>5, RecordsKept DEF DispatchKnown, Drain, CheckPeers, DiscoveryRaises, Interrupt,
                             PageCloses, diskVars, taskVars
  <1>6. CASE Dispatch \/ DiscoveryEnds
    <2>1. log'.results = log.results /\ UNCHANGED <<saved, final, marker>>
      BY <1>6 DEF Dispatch, DiscoveryEnds, taskVars, Shape, DataOK
    <2> QED
      BY <2>1, RecordsKept
  <1>7. CASE End
    <2>1. UNCHANGED <<log, saved, final>> /\ marker' = (marker \/ (Complete /\ ~blocked))
      BY <1>7 DEF End, taskVars
    <2>2. RecordsTrue'
      BY <2>1 DEF RecordsTrue
    <2>3. ASSUME Complete, NEW t \in Threads \ Excluded
          PROVE  log.results[t] = "persisted" /\ t \in saved
      <3>1. pc[0] = "wait"
        BY <1>7 DEF End
      <3>2. log.discovered
        BY <2>3, <3>1 DEF Complete, DiscoveryTrue, Balanced, Past
      <3>3. final[t].status \in Success
        BY <2>3, <3>2 DEF Complete, DiscoveryTrue
      <3> QED
        BY <3>3 DEF Success, RecordsTrue
    <2>4. MarkerHonest'
      BY <2>1, <2>3 DEF MarkerHonest
    <2> QED
      BY <2>2, <2>4
  <1>8. CASE Crash
    <2>1. UNCHANGED <<log, saved, marker>> /\ final' = [t \in Threads |-> Unknown]
      BY <1>8 DEF Crash, diskVars
    <2> QED
      BY <2>1 DEF RecordsTrue, MarkerHonest, Unknown
  <1>9. CASE Resume
    <2>1. UNCHANGED <<saved, marker>>
      BY <1>9 DEF Resume
    <2>2. \A t \in Threads : \/ log'.results[t] = log.results[t]
                             \/ /\ log'.results[t] = "skipped" /\ t \in Excluded
                                /\ log.results[t] # "persisted"
      BY <1>9 DEF Resume, Shape, DataOK
    <2>3. \A t \in Threads : final'[t].status \in {log'.results[t], "none"}
      BY <1>9 DEF Resume, Unknown
    <2> QED
      BY <2>1, <2>2, <2>3 DEF RecordsTrue, MarkerHonest
  <1> QED
    BY <1>2, <1>3, <1>4, <1>5, <1>6, <1>7, <1>8, <1>9
       DEF Next, Orchestrator, Background, Consume

LEMMA DiscoveryTrueStep ==
    ASSUME Shape, Truthful, Next
    PROVE  DiscoveryTrue'
  <1> USE Parameters DEF Truthful
  <1>1. /\ partial \in BOOLEAN /\ interrupted \in BOOLEAN /\ next \in 1 .. NumThreads + 1
        /\ Ignored \subseteq Excluded
    BY DEF Shape, EventsOK, Ignored
  <1>2. ASSUME UNCHANGED <<log, next, discoveryDone>>, partial => partial', interrupted => interrupted'
        PROVE  DiscoveryTrue'
    BY <1>2 DEF DiscoveryTrue
  <1>3. ASSUME NEW c \in Consumers, Get(c) \/ PutBack(c) \/ BeginFetch(c) \/ Fetch(c) \/ Settle(c)
        PROVE  DiscoveryTrue'
    BY <1>2, <1>3 DEF Get, PutBack, BeginFetch, Fetch, Settle, diskVars, taskVars, eventVars
  <1>4. ASSUME NEW c \in Consumers, Record(c)
        PROVE  DiscoveryTrue'
    <2>1. /\ log'.tasks = log.tasks /\ log'.discovered = log.discovered
          /\ UNCHANGED <<next, discoveryDone, partial, interrupted>>
      BY <1>4 DEF Record, eventVars, Shape, DataOK
    <2> QED
      BY <2>1 DEF DiscoveryTrue
  <1>5. ASSUME NEW w \in Workers, TabLost(w) \/ Idle(w) \/ CheckUnfinished(w) \/ CheckDiscovery(w)
        PROVE  DiscoveryTrue'
    BY <1>2, <1>5 DEF TabLost, Idle, CheckUnfinished, CheckDiscovery, diskVars, taskVars, eventVars
  <1>6. CASE Drain \/ CheckPeers \/ End \/ Interrupt \/ PageCloses
    BY <1>2, <1>6 DEF Drain, CheckPeers, End, Interrupt, PageCloses, diskVars, eventVars
  <1>7. CASE Dispatch \/ DispatchKnown
    <2>1. /\ next' = next + 1
          /\ \/ log'.tasks = log.tasks \cup {next}
             \/ log' = log /\ next \in log.tasks \cup Excluded
          /\ log'.discovered = log.discovered
          /\ ~partial /\ UNCHANGED <<discoveryDone, interrupted>>
      BY <1>1, <1>7 DEF Dispatch, DispatchKnown, Known, diskVars, eventVars, Shape, DataOK
    <2>2. log.tasks \subseteq log'.tasks /\ next \in log'.tasks \cup Excluded
      BY <2>1
    <2>3. \A t \in Threads : t < next' => t < next \/ t = next
      BY <1>1, <2>1 DEF Threads
    <2> QED
      BY <2>1, <2>2, <2>3 DEF DiscoveryTrue
  <1>8. CASE DiscoveryEnds
    <2>1. /\ UNCHANGED <<next, interrupted>> /\ log'.tasks = log.tasks
          /\ \/ next \notin Threads /\ log'.discovered
             \/ partial' /\ log' = log
      BY <1>8 DEF DiscoveryEnds, Shape, DataOK
    <2>2. next \notin Threads => \A t \in Threads : t < next
      BY <1>1 DEF Threads
    <2> QED
      BY <2>1, <2>2 DEF DiscoveryTrue
  <1>9. CASE DiscoveryRaises
    BY <1>9 DEF DiscoveryRaises, DiscoveryTrue, diskVars
  <1>10. CASE Crash \/ Resume
    <2>1. /\ next' = 1 /\ log'.tasks = log.tasks /\ log'.discovered = log.discovered
          /\ discoveryDone' => log.discovered
      BY <1>10 DEF Crash, Resume, FreshMemory, diskVars, Shape, DataOK
    <2>2. \A t \in Threads : ~(t < 1)
      BY DEF Threads
    <2> QED
      BY <2>1, <2>2 DEF DiscoveryTrue
  <1> QED
    BY <1>3, <1>4, <1>5, <1>6, <1>7, <1>8, <1>9, <1>10
       DEF Next, Orchestrator, Background, Consume

-----------------------------------------------------------------------------
(* Nothing is left behind.                                                 *)

\* Nothing stopped, closed or wore out the run so far.
Undisturbed == /\ ~stop /\ ~closed /\ pc[0] # "down"
               /\ \A c \in Consumers : streak[c] < RetireAt

\* A failed attempt that is not recorded yet and whose next one is already queued.
Leftover(c) == pc[c] = "fetched" /\ got[c] = "failed" /\ hand[c].attempt < MaxAttempts

\* Consumer c has an attempt at thread t, the b-th or a later one, yet to record.
Carries(c, t, b) ==
    \/ /\ pc[c] \in {"picked", "fetching"} \/ (pc[c] = "fetched" /\ ~Leftover(c))
       /\ hand[c].thread = t /\ hand[c].attempt >= b
    \/ /\ pc[c] = "idle" /\ local[c] # NoTask
       /\ local[c].thread = t /\ local[c].attempt >= b

Queues(t, b) == \E i \in Queued : queue[i].thread = t /\ queue[i].attempt >= b

\* The b-th attempt, a later one or a success is the outcome of thread t.
Dealt(t, b) == /\ final[t] # Unknown
               /\ final[t].status = "failed" => final[t].attempt = MaxAttempts
               /\ final[t].attempt >= b \/ final[t].status = "persisted"

Live(t, b) == Queues(t, b) \/ Dealt(t, b) \/ \E c \in Consumers : Carries(c, t, b)

\* Thread t is owed its b-th attempt: the first one once it was dispatched, the
\* next one after a failure.
Due(t, b) == \/ t \in log.tasks /\ b = 1
             \/ \E c \in Consumers :
                    Leftover(c) /\ hand[c].thread = t /\ b = hand[c].attempt + 1
             \/ /\ final[t].status = "failed" /\ final[t].attempt < MaxAttempts
                /\ b = final[t].attempt + 1

Attempts == 1 .. MaxAttempts

Kept == Undisturbed => \A t \in Threads, b \in Attempts : Due(t, b) => Live(t, b)

\* Who retired is gone.
Retired == \A c \in Consumers : streak[c] >= RetireAt => pc[c] \in {"off", "wait", "ended", "down"}

\* While worker 0 looks for peers, whoever put a task back is still there to take
\* it; when it waits, all are gone and the queue is empty.
Drained ==
    /\ Undisturbed /\ pc[0] = "empty" /\ queue # <<>> =>
           \E w \in Workers : pc[w] \notin {"leaving", "off"}
    /\ Undisturbed /\ pc[0] \in {"wait", "ended"} =>
           queue = <<>> /\ \A w \in Workers : pc[w] = "off"

Lasting == Kept /\ Retired /\ Drained

LEMMA InitLasting == Init => Lasting
  <1> SUFFICES ASSUME Init PROVE Lasting
    OBVIOUS
  <1>1. ~stop /\ pc[0] = "discover" /\ queue = <<>> /\ log.tasks = {}
    BY Parameters DEF Init
  <1>2. \A c \in Consumers : streak[c] = 0 /\ pc[c] # "fetched"
    BY DEF Init
  <1>3. \A t \in Threads : final[t].status = "none"
    BY DEF Init, Unknown
  <1>4. \A t \in Threads, b \in Attempts : ~Due(t, b)
    BY <1>1, <1>2, <1>3 DEF Due, Leftover
  <1> QED
    BY <1>1, <1>2, <1>4, RetireAssumption DEF Lasting, Kept, Retired, Drained

\* No step but a resumption makes good what disturbed the run.
LEMMA DisturbedStays ==
    ASSUME Shape, Retired, Next, ~Resume, Undisturbed'
    PROVE  Undisturbed
  <1> USE Parameters
  <1>1. /\ stop \in BOOLEAN /\ closed \in BOOLEAN /\ pc \in [Consumers -> Labels]
        /\ streak \in [Consumers -> Nat] /\ RetireAt \in Nat
    BY RetireAssumption DEF Shape, EventsOK, ConsumersOK
  <1>2. ~Crash
    BY DEF Crash, Undisturbed
  <1>3. ASSUME NEW c \in Consumers, Settle(c)
        PROVE  Undisturbed
    <2>1. pc[c] = "recorded" /\ UNCHANGED <<stop, closed>>
      BY <1>3 DEF Settle
    <2>2. \A d \in Consumers \ {c} : streak'[d] = streak[d]
      BY <1>1, <1>3 DEF Settle
    <2>3. streak[c] < RetireAt
      BY <1>1, <2>1 DEF Retired
    <2>4. pc[0] # "down"
      <3>1. c # 0 => pc'[0] = pc[0]
        BY <1>1, <1>3 DEF Settle, Goto
      <3> QED
        BY <2>1, <3>1 DEF Undisturbed
    <2> QED
      BY <1>1, <2>1, <2>2, <2>3, <2>4 DEF Undisturbed
  <1>4. CASE /\ streak' = streak /\ (stop => stop') /\ (closed => closed')
             /\ pc[0] = "down" => pc'[0] = "down"
    BY <1>4 DEF Undisturbed
  <1>5. ASSUME NEW c \in Consumers, Get(c) \/ PutBack(c) \/ BeginFetch(c) \/ Fetch(c) \/ Record(c)
        PROVE  Undisturbed
    BY <1>1, <1>4, <1>5 DEF Get, PutBack, BeginFetch, Fetch, Record, Goto, eventVars
  <1>6. ASSUME NEW w \in Workers, TabLost(w) \/ Idle(w) \/ CheckUnfinished(w) \/ CheckDiscovery(w)
        PROVE  Undisturbed
    BY <1>1, <1>4, <1>6 DEF TabLost, Idle, CheckUnfinished, CheckDiscovery, Goto, eventVars
  <1>7. CASE Dispatch \/ DispatchKnown \/ DiscoveryEnds \/ DiscoveryRaises \/ Drain \/ CheckPeers
             \/ Interrupt \/ End \/ PageCloses
    <2>1. pc[0] # "down" \/ PageCloses
      BY <1>7 DEF Dispatch, DispatchKnown, DiscoveryEnds, DiscoveryRaises, Drain, CheckPeers,
                  Interrupt, End
    <2>2. streak' = streak /\ (stop => stop') /\ (closed => closed')
      BY <1>7 DEF Dispatch, DispatchKnown, DiscoveryEnds, DiscoveryRaises, Drain, CheckPeers,
                  Interrupt, End, PageCloses, eventVars, consumerVars
    <2>3. PageCloses => pc' = pc
      BY DEF PageCloses, consumerVars
    <2> QED
      BY <1>4, <2>1, <2>2, <2>3
  <1> QED
    BY <1>2, <1>3, <1>5, <1>6, <1>7 DEF Next, Orchestrator, Background, Consume

LEMMA RetiredStep ==
    ASSUME Shape, Retired, Next
    PROVE  Retired'
  <1> USE Parameters
  <1>1. /\ pc \in [Consumers -> Labels] /\ streak \in [Consumers -> Nat]
        /\ RetireAt \in Nat /\ RetireAt > 0
    BY RetireAssumption DEF Shape, ConsumersOK
  <1> DEFINE Gone == {"off", "wait", "ended", "down"}
  <1>2. ASSUME NEW c \in Consumers, \A d \in Consumers \ {c} : streak'[d] = streak[d] /\ pc'[d] = pc[d],
               streak'[c] >= RetireAt => pc'[c] \in Gone
        PROVE  Retired'
    BY <1>2 DEF Retired
  <1>3. ASSUME NEW c \in Consumers, streak' = streak,
               \A d \in Consumers \ {c} : pc'[d] = pc[d], pc[c] \notin Gone \/ pc'[c] \in Gone
        PROVE  Retired'
    BY <1>1, <1>3 DEF Retired
  <1>4. ASSUME NEW c \in Consumers, Get(c) \/ PutBack(c) \/ BeginFetch(c) \/ Fetch(c) \/ Record(c)
        PROVE  Retired'
    <2>1. streak' = streak /\ pc[c] \notin Gone
      BY <1>4 DEF Get, PutBack, BeginFetch, Fetch, Record
    <2>2. \A d \in Consumers \ {c} : pc'[d] = pc[d]
      BY <1>1, <1>4 DEF Get, PutBack, BeginFetch, Fetch, Record, Goto
    <2> QED
      BY <1>3, <2>1, <2>2
  <1>5. ASSUME NEW c \in Consumers, Settle(c)
        PROVE  Retired'
    <2>1. pc[c] = "recorded"
      BY <1>5 DEF Settle
    <2>2. \A d \in Consumers \ {c} : streak'[d] = streak[d] /\ pc'[d] = pc[d]
      BY <1>1, <1>5 DEF Settle, Goto
    <2>3. streak'[c] >= RetireAt => pc'[c] \in Gone
      BY <1>1, <1>5, <2>1 DEF Settle, Goto, Exit, Retired
    <2> QED
      BY <1>2, <2>2, <2>3
  <1>6. ASSUME NEW w \in Workers, TabLost(w) \/ Idle(w) \/ CheckUnfinished(w) \/ CheckDiscovery(w)
        PROVE  Retired'
    <2>1. streak' = streak /\ pc[w] \notin Gone
      BY <1>6 DEF TabLost, Idle, CheckUnfinished, CheckDiscovery
    <2>2. \A d \in Consumers \ {w} : pc'[d] = pc[d]
      BY <1>1, <1>6 DEF TabLost, Idle, CheckUnfinished, CheckDiscovery, Goto
    <2> QED
      BY <1>3, <2>1, <2>2
  <1>7. CASE Dispatch \/ DiscoveryEnds \/ DiscoveryRaises \/ Drain \/ CheckPeers \/ Interrupt \/ End
    <2>1. streak' = streak /\ (pc[0] \notin Gone \/ pc'[0] \in Gone)
      BY <1>1, <1>7 DEF Dispatch, DiscoveryEnds, DiscoveryRaises, Drain, CheckPeers, Interrupt, End,
                        Goto
    <2>2. \A d \in Consumers \ {0} : pc'[d] = pc[d]
      BY <1>1, <1>7 DEF Dispatch, DiscoveryEnds, DiscoveryRaises, Drain, CheckPeers, Interrupt, End,
                        Goto
    <2> QED
      BY <1>3, <2>1, <2>2
  <1>8. CASE DispatchKnown \/ PageCloses
    BY <1>8 DEF DispatchKnown, PageCloses, consumerVars, Retired
  <1>9. CASE Crash \/ Resume
    <2>1. \A c \in Consumers : streak'[c] = 0
      BY <1>9 DEF Crash, Resume, FreshMemory
    <2> QED
      BY <1>1, <2>1 DEF Retired
  <1> QED
    BY <1>4, <1>5, <1>6, <1>7, <1>8, <1>9 DEF Next, Orchestrator, Background, Consume

LEMMA DrainedStep ==
    ASSUME Shape, Balanced, Lasting, Next
    PROVE  Drained'
  <1> USE Parameters DEF Lasting
  <1>1. /\ pc \in [Consumers -> Labels] /\ streak \in [Consumers -> Nat] /\ queue \in Seq(Task)
        /\ RetireAt \in Nat
    BY RetireAssumption DEF Shape, ConsumersOK
  <1>2. CASE Resume
    BY <1>2 DEF Resume, Drained
  <1> SUFFICES ASSUME Undisturbed', Undisturbed, Drained, ~Resume
               PROVE  Drained'
    BY <1>2, DisturbedStays DEF Drained
  <1>3. ~stop /\ ~stop' /\ ~closed' /\ \A c \in Consumers : streak'[c] < RetireAt
    BY DEF Undisturbed
  <1>4. ASSUME NEW w \in Workers, pc'[0] = pc[0], pc[w] # "off", pc'[w] \notin {"leaving", "off"}
        PROVE  Drained'
    BY <1>4 DEF Drained
  <1>5. CASE pc'[0] \notin {"empty", "wait", "ended"}
    BY <1>5 DEF Drained
  <1>6. CASE Consume(0)
    <2>1. CASE Get(0)
      BY <1>1, <1>5, <2>1 DEF Get, Goto, Drained
    <2>2. CASE PutBack(0)
      BY <1>3, <2>2 DEF PutBack
    <2>3. CASE Settle(0)
      <3>1. pc'[0] = "wait" => streak'[0] >= RetireAt
        BY <1>1, <2>3 DEF Settle, Goto, Exit, Loop
      <3>2. pc'[0] \in {"discover", "wait", "drain"}
        BY <1>1, <2>3 DEF Settle, Goto, Exit, Loop
      <3> QED
        BY <1>1, <1>3, <1>5, <3>1, <3>2 DEF Settle
    <2>4. CASE BeginFetch(0) \/ Fetch(0) \/ Record(0)
      BY <1>1, <1>5, <2>4 DEF BeginFetch, Fetch, Record, Goto
    <2> QED
      BY <1>6, <2>1, <2>2, <2>3, <2>4 DEF Consume
  <1>7. ASSUME NEW w \in Workers, Consume(w)
        PROVE  Drained'
    <2>1. pc'[0] = pc[0] /\ pc[w] # "off"
      BY <1>1, <1>7 DEF Consume, Get, PutBack, BeginFetch, Fetch, Record, Settle, Goto
    <2>2. CASE PutBack(w)
      BY <1>3, <2>2 DEF PutBack
    <2>3. CASE Settle(w)
      <3>1. pc'[w] = "idle" \/ streak'[w] >= RetireAt
        BY <1>1, <2>3 DEF Settle, Goto, Loop
      <3>2. pc'[w] = "idle"
        BY <1>1, <1>3, <3>1, <2>3 DEF Settle
      <3> QED
        BY <1>4, <2>1, <3>2
    <2>4. CASE Get(w) \/ BeginFetch(w) \/ Fetch(w) \/ Record(w)
      <3>1. pc'[w] \notin {"leaving", "off"}
        BY <1>1, <2>4 DEF Get, BeginFetch, Fetch, Record, Goto
      <3> QED
        BY <1>4, <2>1, <3>1
    <2> QED
      BY <1>7, <2>2, <2>3, <2>4 DEF Consume
  <1>8. ASSUME NEW w \in Workers, TabLost(w) \/ Idle(w)
        PROVE  Drained'
    <2>1. pc'[0] = pc[0] /\ pc[w] # "off" /\ pc'[w] \notin {"leaving", "off"}
      BY <1>1, <1>3, <1>8 DEF TabLost, Idle, Goto
    <2> QED
      BY <1>4, <2>1
  <1>9. ASSUME NEW w \in Workers, CheckUnfinished(w)
        PROVE  Drained'
    <2>1. pc'[0] = pc[0] /\ pc[w] # "off" /\ queue' = queue
      BY <1>1, <1>9 DEF CheckUnfinished, Goto, taskVars
    <2>2. CASE unfinished = 0
      <3>1. Len(queue) \in Nat /\ Cardinality(Taken) \in Nat
        BY <1>1, TakenFacts DEF Shape, ConsumersOK
      <3>2. queue = <<>>
        BY <1>1, <2>2, <3>1 DEF Balanced
      <3> QED
        BY <2>1, <3>2 DEF Drained
    <2>3. CASE unfinished # 0
      BY <1>1, <1>4, <1>9, <2>1, <2>3 DEF CheckUnfinished, Goto
    <2> QED
      BY <2>2, <2>3
  <1>10. ASSUME NEW w \in Workers, CheckDiscovery(w)
         PROVE  Drained'
    <2>1. /\ pc[w] = "leaving" /\ queue' = queue
          /\ \A d \in Consumers \ {w} : pc'[d] = pc[d]
      BY <1>1, <1>10 DEF CheckDiscovery, Goto, taskVars
    <2>2. pc'[0] = pc[0] /\ \A d \in Workers : pc[d] \notin {"leaving", "off"} => pc'[d] = pc[d]
      BY <2>1
    <2> QED
      BY <2>1, <2>2 DEF Drained
  <1>11. CASE Dispatch \/ DispatchKnown \/ DiscoveryEnds
    <2>1. pc'[0] \in {"fetching", "discover", "drain"}
      BY <1>1, <1>11 DEF Dispatch, DispatchKnown, DiscoveryEnds, Goto, consumerVars
    <2> QED
      BY <1>5, <2>1
  <1>12. CASE DiscoveryRaises \/ Interrupt \/ PageCloses \/ Crash
    BY <1>3, <1>12 DEF DiscoveryRaises, Interrupt, PageCloses, Crash, Undisturbed
  <1>13. CASE Drain
    BY <1>1, <1>3, <1>5, <1>13 DEF Drain, Goto, eventVars
  <1>14. CASE CheckPeers
    <2>1. /\ pc[0] = "empty" /\ queue' = queue /\ \A w \in Workers : pc'[w] = pc[w]
          /\ \/ pc'[0] = "drain"
             \/ pc'[0] = "wait" /\ \A w \in Workers : pc[w] = "off"
      BY <1>1, <1>14 DEF CheckPeers, Goto, Alive, taskVars
    <2> QED
      BY <2>1 DEF Drained
  <1>15. CASE End
    <2>1. /\ pc[0] = "wait" /\ pc'[0] = "ended" /\ queue' = queue /\ \A w \in Workers : pc'[w] = pc[w]
      BY <1>1, <1>15 DEF End, Goto, taskVars
    <2> QED
      BY <2>1 DEF Drained
  <1> QED
    BY <1>6, <1>7, <1>8, <1>9, <1>10, <1>11, <1>12, <1>13, <1>14, <1>15
       DEF Next, Orchestrator, Background

\* What is newly due is alive, and what was alive still is.
LEMMA KeptBy ==
    ASSUME Kept, Undisturbed' => Undisturbed,
           \A t \in Threads, b \in Attempts : Due(t, b)' => Due(t, b) \/ Live(t, b)',
           \A t \in Threads, b \in Attempts : Due(t, b) /\ Live(t, b) => Live(t, b)'
    PROVE  Kept'
  BY DEF Kept, Attempts

\* Attempts only go from hand to hand, if at all.
LEMMA HandsMove ==
    ASSUME Kept, Undisturbed' => Undisturbed, queue' = queue, final' = final,
           log'.tasks = log.tasks,
           \A c \in Consumers, t \in Threads, b \in Attempts : Carries(c, t, b) => Carries(c, t, b)',
           \A c \in Consumers : Leftover(c)' => Leftover(c) /\ hand'[c] = hand[c]
    PROVE  Kept'
  <1>1. Queued' = Queued
    BY DEF Queued
  <1>2. \A t \in Threads, b \in Attempts : Due(t, b)' => Due(t, b)
    BY DEF Due
  <1>3. \A t \in Threads, b \in Attempts : Live(t, b) => Live(t, b)'
    BY <1>1 DEF Live, Queues, Dealt
  <1> QED
    BY <1>2, <1>3, KeptBy

\* An attempt is added to the queue.
LEMMA QueueGrows ==
    ASSUME queue \in Seq(Task), NEW task \in Task, queue' = Append(queue, task)
    PROVE  /\ \A t \in Threads, b \in Attempts : Queues(t, b) => Queues(t, b)'
           /\ \A t \in Threads, b \in Attempts :
                  t = task.thread /\ b <= task.attempt => Queues(t, b)'
  <1> DEFINE n == Len(queue)
  <1>1. n \in Nat /\ Queued = 1 .. n /\ Queued' = 1 .. n + 1
    BY DEF Queued
  <1>2. queue'[n + 1] = task /\ \A i \in 1 .. n : queue'[i] = queue[i]
    OBVIOUS
  <1>3. task.attempt \in Nat
    BY Parameters DEF Task
  <1> HIDE DEF n
  <1>4. n + 1 \in 1 .. n + 1 /\ \A i \in 1 .. n : i \in 1 .. n + 1
    BY <1>1
  <1>5. \A b \in Attempts : b <= task.attempt => task.attempt >= b
    BY <1>3, Parameters DEF Attempts
  <1>6. \A t \in Threads, b \in Attempts : Queues(t, b) => Queues(t, b)'
    BY <1>1, <1>2, <1>4 DEF Queues
  <1>7. \A t \in Threads, b \in Attempts :
            t = task.thread /\ b <= task.attempt => Queues(t, b)'
    BY <1>1, <1>2, <1>4, <1>5 DEF Queues
  <1> QED
    BY <1>6, <1>7

LEMMA TakenKept ==
    ASSUME Shape, OneCopy, Kept, NEW c \in Consumers, Get(c), Undisturbed' => Undisturbed
    PROVE  Kept'
  <1> USE Parameters
  <1>1. /\ queue \in Seq(Task) /\ pc \in [Consumers -> Labels]
        /\ hand \in [Consumers -> Task \cup {NoTask}]
    BY DEF Shape, ConsumersOK
  <1>2. /\ pc[c] = "get" /\ UNCHANGED <<final, log, got, local>>
    BY <1>1 DEF Get, diskVars
  <1>3. CASE queue = <<>>
    <2>1. pc' = [pc EXCEPT ![c] = "empty"] /\ UNCHANGED <<queue, hand>>
      BY <1>3 DEF Get, Goto
    <2>2. \A d \in Consumers, t \in Threads, b \in Attempts : Carries(d, t, b) => Carries(d, t, b)'
      BY <1>1, <1>2, <2>1 DEF Carries, Leftover
    <2>3. \A d \in Consumers : Leftover(d)' => Leftover(d)
      BY <1>1, <1>2, <2>1 DEF Leftover
    <2> QED
      BY <1>2, <2>1, <2>2, <2>3, HandsMove
  <1>4. CASE queue # <<>>
    <2> DEFINE n == Len(queue)
    <2>1. /\ n \in Nat /\ n > 0 /\ Queued = 1 .. n /\ Queued' = 1 .. n - 1
          /\ hand' = [hand EXCEPT ![c] = queue[1]] /\ pc' = [pc EXCEPT ![c] = "picked"]
          /\ queue' = Tail(queue)
      BY <1>1, <1>4 DEF Get, Goto, Queued
    <2>2. \A i \in 1 .. n - 1 : queue'[i] = queue[i + 1]
      BY <1>1, <2>1
    <2> HIDE DEF n
    <2>3. \A i \in Queued : i = 1 \/ (i - 1 \in Queued' /\ queue'[i - 1] = queue[i])
      <3> SUFFICES ASSUME NEW i \in Queued, i # 1
                   PROVE  i - 1 \in Queued' /\ queue'[i - 1] = queue[i]
        OBVIOUS
      <3>1. i - 1 \in 1 .. n - 1 /\ (i - 1) + 1 = i
        BY <2>1
      <3>2. queue'[i - 1] = queue[(i - 1) + 1]
        BY <2>2, <3>1
      <3> QED
        BY <2>1, <3>1, <3>2
    <2>4. /\ \A d \in Consumers \ {c} : pc'[d] = pc[d] /\ hand'[d] = hand[d]
          /\ pc'[c] = "picked" /\ hand'[c] = queue[1]
      BY <1>1, <2>1
    <2>5. \A t \in Threads, b \in Attempts : Queues(t, b) => Queues(t, b)' \/ Carries(c, t, b)'
      BY <2>3, <2>4 DEF Queues, Carries
    <2>6. \A d \in Consumers, t \in Threads, b \in Attempts : Carries(d, t, b) => Carries(d, t, b)'
      BY <1>2, <2>4 DEF Carries, Leftover
    <2>7. \A t \in Threads, b \in Attempts : Live(t, b) => Live(t, b)'
      BY <1>2, <2>5, <2>6 DEF Live, Dealt
    <2>8. \A d \in Consumers : Leftover(d)' => Leftover(d) /\ hand'[d] = hand[d]
      BY <1>2, <2>4 DEF Leftover
    <2>9. \A t \in Threads, b \in Attempts : Due(t, b)' => Due(t, b)
      BY <1>2, <2>8 DEF Due
    <2> QED
      BY <2>7, <2>9, KeptBy
  <1> QED
    BY <1>3, <1>4

LEMMA FetchedKept ==
    ASSUME Shape, Kept, NEW c \in Consumers, Fetch(c), Undisturbed' => Undisturbed
    PROVE  Kept'
  <1> USE Parameters
  <1>1. PICK status : got' = [got EXCEPT ![c] = status] /\ Requeue(hand[c], status)
    BY DEF Fetch
  <1>2. /\ pc' = [pc EXCEPT ![c] = "fetched"] /\ pc[c] = "fetching"
        /\ UNCHANGED <<hand, local, log, final>>
    BY DEF Fetch, Goto
  <1>3. /\ queue \in Seq(Task) /\ pc \in [Consumers -> Labels] /\ hand[c] \in Task
        /\ got \in [Consumers -> Statuses \cup {"none"}]
    BY <1>2 DEF Shape, ConsumersOK, HandsFull, Busy
  <1>4. /\ \A d \in Consumers \ {c} : pc'[d] = pc[d] /\ got'[d] = got[d]
        /\ pc'[c] = "fetched" /\ got'[c] = status
    BY <1>1, <1>2, <1>3
  <1>5. \A d \in Consumers \ {c}, t \in Threads, b \in Attempts :
            Carries(d, t, b) => Carries(d, t, b)'
    BY <1>2, <1>4 DEF Carries, Leftover
  <1>6. CASE status = "failed" /\ hand[c].attempt < MaxAttempts
    <2> DEFINE task == [hand[c] EXCEPT !.attempt = @ + 1]
    <2>1. /\ task \in Task /\ task.thread = hand[c].thread /\ task.attempt = hand[c].attempt + 1
          /\ hand[c].attempt \in Nat
      BY <1>3, <1>6 DEF Task
    <2>2. queue' = Append(queue, task)
      BY <1>1, <1>6 DEF Requeue, Put
    <2> HIDE DEF task
    <2>3. /\ \A t \in Threads, b \in Attempts : Queues(t, b) => Queues(t, b)'
          /\ \A t \in Threads, b \in Attempts :
                 t = hand[c].thread /\ b <= hand[c].attempt + 1 => Queues(t, b)'
      BY <1>3, <2>1, <2>2, QueueGrows
    <2>4. \A t \in Threads, b \in Attempts : Carries(c, t, b) => Queues(t, b)'
      <3> SUFFICES ASSUME NEW t \in Threads, NEW b \in Attempts, Carries(c, t, b)
                   PROVE  Queues(t, b)'
        OBVIOUS
      <3>1. hand[c].thread = t /\ hand[c].attempt >= b
        BY <1>2 DEF Carries
      <3>2. b <= hand[c].attempt + 1
        BY <2>1, <3>1 DEF Attempts
      <3> QED
        BY <2>3, <3>1, <3>2
    <2>5. \A t \in Threads, b \in Attempts : Live(t, b) => Live(t, b)'
      BY <1>2, <1>5, <2>3, <2>4 DEF Live, Dealt
    <2>6. \A d \in Consumers \ {c} : Leftover(d)' => Leftover(d)
      BY <1>2, <1>4 DEF Leftover
    <2>7. \A t \in Threads, b \in Attempts :
              t = hand[c].thread /\ b = hand[c].attempt + 1 => Live(t, b)'
      BY <2>1, <2>3 DEF Live
    <2>8. \A t \in Threads, b \in Attempts : Due(t, b)' => Due(t, b) \/ Live(t, b)'
      BY <1>2, <2>6, <2>7 DEF Due
    <2> QED
      BY <2>5, <2>8, KeptBy
  <1>7. CASE ~(status = "failed" /\ hand[c].attempt < MaxAttempts)
    <2>1. queue' = queue
      BY <1>1, <1>7 DEF Requeue
    <2>2. ~Leftover(c)'
      BY <1>2, <1>4, <1>7 DEF Leftover
    <2>3. \A t \in Threads, b \in Attempts : Carries(c, t, b) => Carries(c, t, b)'
      BY <1>2, <1>4, <2>2 DEF Carries
    <2>4. \A d \in Consumers : Leftover(d)' => Leftover(d) /\ hand'[d] = hand[d]
      BY <1>2, <1>4, <2>2 DEF Leftover
    <2> QED
      BY <1>2, <1>5, <2>1, <2>3, <2>4, HandsMove
  <1> QED
    BY <1>6, <1>7

\* A recorded outcome replaces what it is not behind of, and nothing else.
LEMMA RecordedKept ==
    ASSUME Shape, Kept, NEW c \in Consumers, Record(c), Undisturbed' => Undisturbed
    PROVE  Kept'
  <1> USE Parameters
  <1>1. SUFFICES ASSUME Undisturbed', Undisturbed, NEW t \in Threads, NEW b \in Attempts, Due(t, b)'
                 PROVE  Live(t, b)'
    BY DEF Kept
  <1> DEFINE a == hand[c].attempt
             Elsewhere(x) == Queues(t, x) \/ \E d \in Consumers \ {c} : Carries(d, t, x)
  <1>2. /\ pc[c] = "fetched" /\ pc' = [pc EXCEPT ![c] = "recorded"]
        /\ UNCHANGED <<queue, hand, got, local>>
    BY DEF Record, Goto
  <1>3. /\ hand[c].thread \in Threads /\ a \in 1 .. MaxAttempts /\ got[c] \in Statuses
        /\ pc \in [Consumers -> Labels] /\ final \in [Threads -> Outcome] /\ queue \in Seq(Task)
        /\ log'.tasks = log.tasks
    BY <1>2 DEF Record, Shape, ConsumersOK, DataOK, HandsFull, Busy, Fetched, Task
  <1>4. /\ \A d \in Consumers \ {c} : pc'[d] = pc[d]
        /\ pc'[c] = "recorded"
    BY <1>2, <1>3
  <1>5. /\ \A x : Queues(t, x)' <=> Queues(t, x)
        /\ \A d \in Consumers \ {c} : /\ \A x : Carries(d, t, x)' <=> Carries(d, t, x)
                                      /\ Leftover(d)' <=> Leftover(d)
        /\ ~Leftover(c)'
    BY <1>2, <1>4 DEF Queues, Queued, Carries, Leftover
  <1>6. \A x : Elsewhere(x) => Live(t, x)'
    BY <1>5 DEF Live
  <1>7. \A x, y \in Nat : x <= y /\ Elsewhere(y) => Elsewhere(x)
    <2> SUFFICES ASSUME NEW x \in Nat, NEW y \in Nat, x <= y, Elsewhere(y)
                 PROVE  Elsewhere(x)
      OBVIOUS
    <2>1. \A i \in Queued : queue[i].attempt \in Nat
      <3>1. \A task \in Task : task.attempt \in Nat
        BY DEF Task
      <3>2. \A i \in Queued : queue[i] \in Task
        BY <1>3 DEF Queued
      <3> QED
        BY <3>1, <3>2
    <2>2. Queues(t, y) => Queues(t, x)
      BY <2>1 DEF Queues
    <2>3. ASSUME NEW d \in Consumers, Carries(d, t, y)
          PROVE  Carries(d, t, x)
      <3>1. hand[d].attempt \in Nat /\ local[d].attempt \in Nat
        BY DEF Shape, ConsumersOK, Task, NoTask
      <3> QED
        BY <2>3, <3>1 DEF Carries
    <2> QED
      BY <2>2, <2>3
  <1>8. /\ final[t].attempt \in Nat /\ Unknown.status = "none" /\ b \in Nat /\ a \in Nat
        /\ MaxAttempts \in Nat
    BY <1>3 DEF Outcome, Unknown, Attempts
  <1>9. \A x : Live(t, x) => Elsewhere(x) \/ Dealt(t, x) \/ Carries(c, t, x)
    BY DEF Live
  <1>10. Carries(c, t, b) => hand[c].thread = t /\ a >= b /\ ~Leftover(c)
    BY <1>2 DEF Carries
  <1>11. \A x \in Attempts : Due(t, x) => Live(t, x)
    BY <1>1 DEF Kept
  <1> HIDE DEF Elsewhere
  <1>12. CASE final'[t] = final[t]
    <2>1. Due(t, b)
      BY <1>1, <1>3, <1>5, <1>12, <1>2 DEF Due
    <2>2. CASE Elsewhere(b)
      BY <1>6, <2>2
    <2>3. CASE Dealt(t, b)
      BY <1>12, <2>3 DEF Dealt, Live
    <2>4. CASE Carries(c, t, b)
      <3>1. CASE Better(t, got[c], a)
        <4>1. final'[t] = [status |-> got[c], attempt |-> a]
          BY <1>3, <1>10, <2>4, <3>1 DEF Record
        <4>2. got[c] = "failed" => a = MaxAttempts
          BY <1>2, <1>3, <1>8, <1>10, <2>4 DEF Leftover
        <4> QED
          BY <1>8, <1>10, <2>4, <1>3, <4>1, <4>2 DEF Live, Dealt, Unknown, Statuses
      <3>2. CASE ~Better(t, got[c], a)
        <4>1. /\ final[t] # Unknown
              /\ final[t].status = "persisted" \/ a < final[t].attempt
          BY <1>8, <3>2 DEF Better
        <4>2. CASE final[t].status = "failed" /\ final[t].attempt < MaxAttempts
          <5> DEFINE f == final[t].attempt + 1
          <5>1. f \in Attempts /\ f \in Nat /\ b <= f /\ a < f
            BY <1>8, <1>10, <2>4, <4>1, <4>2 DEF Attempts
          <5>2. Due(t, f)
            BY <4>2 DEF Due
          <5>3. ~Dealt(t, f)
            BY <4>2, <1>8 DEF Dealt
          <5>4. ~Carries(c, t, f)
            BY <1>2, <1>8, <5>1 DEF Carries
          <5>5. Elsewhere(f)
            BY <1>9, <1>11, <5>1, <5>2, <5>3, <5>4
          <5> QED
            BY <1>6, <1>7, <1>8, <5>1, <5>5
        <4>3. CASE ~(final[t].status = "failed" /\ final[t].attempt < MaxAttempts)
          <5>1. final[t].status = "failed" => final[t].attempt = MaxAttempts
            BY <1>3, <1>8, <4>1, <4>3 DEF Outcome
          <5> QED
            BY <1>8, <1>10, <1>12, <2>4, <4>1, <5>1 DEF Live, Dealt
        <4> QED
          BY <4>2, <4>3
      <3> QED
        BY <3>1, <3>2
    <2> QED
      BY <1>9, <1>11, <2>1, <2>2, <2>3, <2>4
  <1>13. CASE final'[t] # final[t]
    <2>1. /\ t = hand[c].thread /\ Better(t, got[c], a)
          /\ final'[t] = [status |-> got[c], attempt |-> a]
      BY <1>3, <1>13 DEF Record
    <2>2. \/ final[t] = Unknown
          \/ got[c] = "persisted"
          \/ final[t].status # "persisted" /\ a >= final[t].attempt
      BY <2>1 DEF Better
    <2>3. CASE Leftover(c)
      <3> DEFINE n == a + 1
      <3>1. got[c] = "failed" /\ n \in Attempts /\ Due(t, n) /\ n \in Nat
        BY <1>3, <1>8, <2>1, <2>3 DEF Leftover, Due, Attempts
      <3>2. ~Dealt(t, n) /\ ~Carries(c, t, n)
        BY <1>2, <1>8, <2>2, <2>3, <3>1 DEF Dealt, Carries
      <3>3. Elsewhere(n)
        BY <1>9, <1>11, <3>1, <3>2
      <3>4. CASE b <= n
        BY <1>6, <1>7, <1>8, <3>1, <3>3, <3>4
      <3>5. CASE b > n
        <4>1. Due(t, b)
          BY <1>1, <1>2, <1>3, <1>5, <1>8, <2>1, <3>5 DEF Due
        <4>2. ~Dealt(t, b) /\ ~Carries(c, t, b)
          BY <1>8, <1>10, <2>2, <2>3, <3>1, <3>5 DEF Dealt
        <4> QED
          BY <1>6, <1>9, <1>11, <4>1, <4>2
      <3> QED
        BY <1>8, <3>1, <3>4, <3>5
    <2>4. CASE ~Leftover(c)
      <3>1. got[c] = "failed" => a = MaxAttempts
        BY <1>2, <1>3, <2>4 DEF Leftover
      <3>2. Due(t, b)
        BY <1>1, <1>2, <1>3, <1>5, <1>8, <2>1, <3>1 DEF Due
      <3>3. \A x \in Nat : a >= x \/ got[c] = "persisted" => Dealt(t, x)'
        BY <1>3, <2>1, <3>1 DEF Dealt, Unknown, Statuses
      <3>4. CASE Elsewhere(b)
        BY <1>6, <3>4
      <3>5. CASE Dealt(t, b) \/ Carries(c, t, b)
        <4>1. a >= b \/ got[c] = "persisted"
          BY <1>8, <1>10, <2>2, <3>5 DEF Dealt
        <4> QED
          BY <1>8, <3>3, <4>1 DEF Live
      <3> QED
        BY <1>9, <1>11, <3>2, <3>4, <3>5
    <2> QED
      BY <2>3, <2>4
  <1> QED
    BY <1>12, <1>13

\* A resumed run has every pending thread in its queue.
LEMMA AllResumed ==
    ASSUME Shape, Resume, NEW t \in Pending
    PROVE  \E i \in 1 .. Len(queue') : queue'[i].thread = t /\ queue'[i].attempt = 1
  <1>1. PICK order \in [1 .. Cardinality(Pending) -> Pending] :
            queue' = [i \in DOMAIN order |-> FirstAttempt(order[i])]
    BY DEF Resume
  <1>2. IsFiniteSet(Pending) /\ Cardinality(Pending) \in Nat
    <2>1. Pending \subseteq Threads
      BY DEF Pending, Shape, DataOK
    <2> QED
      BY <2>1, Parameters, FS_Subset, FS_CardinalityType
  <1> DEFINE n == Cardinality(Pending)
  <1>3. n \in Nat /\ order \in [1 .. n -> Pending] /\ queue' = [i \in 1 .. n |-> FirstAttempt(order[i])]
    BY <1>1, <1>2
  <1>4. Len(queue') = n
    BY ResumedQueue
  <1>5. \A i \in 1 .. n : queue'[i].thread = order[i] /\ queue'[i].attempt = 1
    BY <1>3 DEF FirstAttempt
  <1>6. \A i, j \in 1 .. n : order[i] = order[j] => i = j
    BY <1>4, <1>5, ResumedQueue
  <1>7. IsFiniteSet(1 .. n) /\ Cardinality(1 .. n) = n
    BY <1>3, FS_Interval
  <1>8. order \in Injection(1 .. n, Pending)
    BY <1>3, <1>6, Fun_IsInj
  <1>9. order \in Surjection(1 .. n, Pending)
    BY <1>2, <1>7, <1>8, FS_Injection
  <1> HIDE DEF n
  <1>10. \A x \in Pending : \E i \in 1 .. n : order[i] = x
    BY <1>9 DEF Surjection
  <1>11. PICK i \in 1 .. n : order[i] = t
    BY <1>10
  <1> QED
    BY <1>4, <1>5, <1>11

LEMMA KeptStep ==
    ASSUME Shape, Balanced, OneCopy, Lasting, Next
    PROVE  Kept'
  <1> USE Parameters DEF Lasting
  <1>1. /\ pc \in [Consumers -> Labels] /\ pc[0] \in FirstLabels /\ queue \in Seq(Task)
        /\ hand \in [Consumers -> Task \cup {NoTask}] /\ got \in [Consumers -> Statuses \cup {"none"}]
        /\ local \in [Consumers -> Task \cup {NoTask}]
    BY DEF Shape, ConsumersOK
  <1>2. CASE Resume
    <2> SUFFICES ASSUME NEW t \in Threads, NEW b \in Attempts, Due(t, b)'
                 PROVE  Live(t, b)'
      BY DEF Kept
    <2>1. \A c \in Consumers : pc'[c] # "fetched"
      BY <1>2 DEF Resume, StartWorkers
    <2>2. /\ log'.tasks = log.tasks
          /\ \A x \in log.tasks \ Pending : x \in Threads /\ log'.results[x] \in Terminal
      BY <1>2 DEF Resume, Pending, Terminal, Shape, DataOK
    <2>3. final' = [x \in Threads |-> IF x \in log.tasks \ Pending
                                    THEN [status |-> log'.results[x], attempt |-> 1] ELSE Unknown]
      BY <1>2 DEF Resume
    <2>4. final'[t].status # "failed"
      BY <2>2, <2>3 DEF Terminal, Unknown
    <2>5. t \in log.tasks /\ b = 1
      BY <2>1, <2>2, <2>4 DEF Due, Leftover
    <2>6. CASE t \in Pending
      <3>1. PICK i \in 1 .. Len(queue') : queue'[i].thread = t /\ queue'[i].attempt = 1
        BY <1>2, <2>6, AllResumed
      <3> QED
        BY <2>5, <3>1 DEF Live, Queues, Queued
    <2>7. CASE t \notin Pending
      <3>1. final'[t] = [status |-> log'.results[t], attempt |-> 1]
        BY <2>3, <2>5, <2>7
      <3> QED
        BY <2>2, <2>5, <2>7, <3>1 DEF Live, Dealt, Unknown, Terminal
    <2> QED
      BY <2>6, <2>7
  <1> SUFFICES ASSUME Undisturbed', Undisturbed, ~Resume
               PROVE  Kept'
    BY <1>2, DisturbedStays DEF Kept
  <1>3. ~stop /\ ~stop' /\ ~closed' /\ pc'[0] # "down"
    BY DEF Undisturbed
  <1>4. ASSUME NEW c \in Consumers, UNCHANGED <<queue, final, got, hand, local>>,
               log'.tasks = log.tasks, \A d \in Consumers \ {c} : pc'[d] = pc[d],
               \/ pc[c] \notin {"picked", "fetching", "fetched", "idle"} /\ pc'[c] # "fetched"
               \/ pc[c] = "picked" /\ pc'[c] = "fetching"
               \/ pc[c] = "idle" /\ local[c] = NoTask /\ pc'[c] # "fetched"
        PROVE  Kept'
    <2>1. \A d \in Consumers, t \in Threads, b \in Attempts : Carries(d, t, b) => Carries(d, t, b)'
      BY <1>4 DEF Carries, Leftover
    <2>2. \A d \in Consumers : Leftover(d)' => Leftover(d) /\ hand'[d] = hand[d]
      BY <1>4 DEF Leftover
    <2> QED
      BY <1>4, <2>1, <2>2, HandsMove
  <1>5. ASSUME NEW c \in Consumers, Get(c) \/ Fetch(c) \/ Record(c)
        PROVE  Kept'
    BY <1>5, TakenKept, FetchedKept, RecordedKept
  <1>6. ASSUME NEW c \in Consumers, PutBack(c) \/ BeginFetch(c)
        PROVE  Kept'
    <2>1. CASE PutBack(c)
      BY <1>3, <2>1 DEF PutBack
    <2>2. CASE BeginFetch(c)
      <3>1. /\ pc[c] = "picked" /\ pc'[c] = "fetching" /\ \A d \in Consumers \ {c} : pc'[d] = pc[d]
            /\ UNCHANGED <<queue, final, got, hand, local, log>>
        BY <1>1, <2>2 DEF BeginFetch, Goto, diskVars, taskVars
      <3> QED
        BY <1>4, <3>1
    <2> QED
      BY <1>6, <2>1, <2>2
  <1>7. ASSUME NEW c \in Consumers, Settle(c)
        PROVE  Kept'
    <2>1. /\ pc[c] = "recorded" /\ UNCHANGED <<queue, final, log, local>> /\ Free(c)
          /\ pc'[c] \in {"discover", "wait", "off", "drain", "idle"}
          /\ \A d \in Consumers \ {c} : pc'[d] = pc[d]
      BY <1>1, <1>7 DEF Settle, Goto, Exit, Loop, diskVars
    <2>2. \A d \in Consumers \ {c} : hand'[d] = hand[d] /\ got'[d] = got[d]
      BY <1>1, <2>1 DEF Free
    <2>3. \A d \in Consumers, t \in Threads, b \in Attempts : Carries(d, t, b) => Carries(d, t, b)'
      BY <2>1, <2>2 DEF Carries, Leftover
    <2>4. \A d \in Consumers : Leftover(d)' => Leftover(d) /\ hand'[d] = hand[d]
      BY <2>1, <2>2 DEF Leftover
    <2> QED
      BY <2>1, <2>3, <2>4, HandsMove
  <1>8. ASSUME NEW w \in Workers, TabLost(w)
        PROVE  Kept'
    <2>1. /\ pc[w] = "fetching" /\ UNCHANGED <<queue, final, log>>
          /\ \A d \in Consumers \ {w} : pc'[d] = pc[d]
      BY <1>1, <1>8 DEF TabLost, Goto, diskVars
    <2>2. hand[w] \in Task /\ hand[w].attempt \in 1 .. MaxAttempts
      BY <2>1 DEF Shape, HandsFull, Busy, Task
    <2>3. CASE hand[w].attempt < MaxAttempts
      <3>1. /\ local' = [local EXCEPT ![w] = [hand[w] EXCEPT !.attempt = @ + 1]]
            /\ Free(w) /\ pc'[w] = "idle"
        BY <1>1, <1>8, <2>3 DEF TabLost, Goto
      <3>2. /\ \A d \in Consumers \ {w} : /\ hand'[d] = hand[d] /\ got'[d] = got[d]
                                          /\ local'[d] = local[d]
            /\ local'[w] = [hand[w] EXCEPT !.attempt = @ + 1]
        BY <1>1, <3>1 DEF Free
      <3>3. /\ local'[w].thread = hand[w].thread /\ local'[w].attempt = hand[w].attempt + 1
            /\ local'[w] # NoTask
        BY <2>2, <3>2 DEF Task, NoTask
      <3>4. \A t \in Threads, b \in Attempts : Carries(w, t, b) => Carries(w, t, b)'
        BY <2>1, <2>2, <3>1, <3>3 DEF Carries, Attempts
      <3>5. \A d \in Consumers, t \in Threads, b \in Attempts : Carries(d, t, b) => Carries(d, t, b)'
        <4>1. \A d \in Consumers \ {w}, t \in Threads, b \in Attempts :
                  Carries(d, t, b) => Carries(d, t, b)'
          BY <2>1, <3>2 DEF Carries, Leftover
        <4> QED
          BY <3>4, <4>1
      <3>6. \A d \in Consumers : Leftover(d)' => Leftover(d) /\ hand'[d] = hand[d]
        BY <2>1, <3>1, <3>2 DEF Leftover
      <3> QED
        BY <2>1, <3>5, <3>6, HandsMove
    <2>4. CASE ~(hand[w].attempt < MaxAttempts)
      <3>1. /\ got' = [got EXCEPT ![w] = "failed"] /\ pc'[w] = "fetched" /\ UNCHANGED <<local, hand>>
        BY <1>1, <1>8, <2>4 DEF TabLost, Goto
      <3>2. \A d \in Consumers \ {w} : got'[d] = got[d]
        BY <1>1, <3>1
      <3>3. ~Leftover(w)'
        BY <2>4, <3>1 DEF Leftover
      <3>4. \A d \in Consumers, t \in Threads, b \in Attempts : Carries(d, t, b) => Carries(d, t, b)'
        BY <2>1, <3>1, <3>2, <3>3 DEF Carries, Leftover
      <3>5. \A d \in Consumers : Leftover(d)' => Leftover(d) /\ hand'[d] = hand[d]
        BY <2>1, <3>1, <3>2, <3>3 DEF Leftover
      <3> QED
        BY <2>1, <3>4, <3>5, HandsMove
    <2> QED
      BY <2>3, <2>4
  <1>9. ASSUME NEW w \in Workers, Idle(w)
        PROVE  Kept'
    <2>1. /\ pc[w] = "idle" /\ UNCHANGED <<queue, final, log, got>>
          /\ \A d \in Consumers \ {w} : pc'[d] = pc[d]
      BY <1>1, <1>9 DEF Idle, Goto, diskVars, taskVars
    <2>2. CASE local[w] = NoTask
      <3>1. UNCHANGED <<hand, local>> /\ pc'[w] = "get"
        BY <1>1, <1>3, <1>9, <2>2 DEF Idle, Goto
      <3> QED
        BY <1>4, <2>1, <2>2, <3>1
    <2>3. CASE local[w] # NoTask
      <3>1. /\ hand' = [hand EXCEPT ![w] = local[w]] /\ local' = [local EXCEPT ![w] = NoTask]
            /\ pc'[w] = "picked"
        BY <1>1, <1>3, <1>9, <2>3 DEF Idle, Goto
      <3>2. /\ \A d \in Consumers \ {w} : hand'[d] = hand[d] /\ local'[d] = local[d]
            /\ hand'[w] = local[w]
        BY <1>1, <3>1
      <3>3. \A d \in Consumers, t \in Threads, b \in Attempts : Carries(d, t, b) => Carries(d, t, b)'
        BY <2>1, <3>1, <3>2 DEF Carries, Leftover
      <3>4. \A d \in Consumers : Leftover(d)' => Leftover(d) /\ hand'[d] = hand[d]
        BY <2>1, <3>1, <3>2 DEF Leftover
      <3> QED
        BY <2>1, <3>3, <3>4, HandsMove
    <2> QED
      BY <2>2, <2>3
  <1>10. ASSUME NEW w \in Workers, CheckUnfinished(w) \/ CheckDiscovery(w)
         PROVE  Kept'
    <2>1. /\ pc[w] \in {"empty", "leaving"} /\ pc'[w] \in {"leaving", "idle", "off"}
          /\ UNCHANGED <<queue, final, log, got, hand, local>>
          /\ \A d \in Consumers \ {w} : pc'[d] = pc[d]
      BY <1>1, <1>10 DEF CheckUnfinished, CheckDiscovery, Goto, diskVars, taskVars
    <2> QED
      BY <1>4, <2>1
  <1>11. CASE Dispatch
    <2> DEFINE task == [thread |-> next, attempt |-> 1]
    <2>1. /\ pc[0] = "discover" /\ next \in Threads /\ UNCHANGED <<final, got, local>>
          /\ log' = [log EXCEPT !.tasks = log.tasks \cup {next}]
      BY <1>11 DEF Dispatch
    <2>2. log'.tasks = log.tasks \cup {next}
      BY <2>1 DEF Shape, DataOK
    <2>3. task \in Task /\ task.thread = next /\ task.attempt = 1
      BY <2>1 DEF Task
    <2>4. CASE hand' = [hand EXCEPT ![0] = task] /\ pc' = [pc EXCEPT ![0] = "fetching"] /\ queue' = queue
      <3>1. /\ \A d \in Consumers \ {0} : pc'[d] = pc[d] /\ hand'[d] = hand[d]
            /\ pc'[0] = "fetching" /\ hand'[0] = task
        BY <1>1, <2>4
      <3>2. \A d \in Consumers, t \in Threads, b \in Attempts : Carries(d, t, b) => Carries(d, t, b)'
        BY <2>1, <3>1 DEF Carries, Leftover
      <3>3. \A d \in Consumers : Leftover(d)' => Leftover(d) /\ hand'[d] = hand[d]
        BY <2>1, <3>1 DEF Leftover
      <3>4. \A t \in Threads, b \in Attempts : Live(t, b) => Live(t, b)'
        BY <2>1, <2>4, <3>2 DEF Live, Queues, Queued, Dealt
      <3>5. \A t \in Threads, b \in Attempts : t = next /\ b = 1 => Carries(0, t, b)'
        BY <2>3, <3>1 DEF Carries
      <3>6. \A t \in Threads, b \in Attempts : Due(t, b)' => Due(t, b) \/ Live(t, b)'
        BY <2>1, <2>2, <3>3, <3>5 DEF Due, Live
      <3> QED
        BY <3>4, <3>6, KeptBy
    <2>5. CASE Put(task) /\ UNCHANGED <<hand, pc>>
      <3> HIDE DEF task
      <3>1. queue' = Append(queue, task)
        BY <2>5 DEF Put
      <3>2. /\ \A t \in Threads, b \in Attempts : Queues(t, b) => Queues(t, b)'
            /\ \A t \in Threads, b \in Attempts :
                   t = task.thread /\ b <= task.attempt => Queues(t, b)'
        BY <1>1, <2>3, <3>1, QueueGrows
      <3>3. \A d \in Consumers : /\ \A t \in Threads, b \in Attempts : Carries(d, t, b) => Carries(d, t, b)'
                                 /\ Leftover(d)' => Leftover(d)
        BY <2>1, <2>5 DEF Carries, Leftover
      <3>4. \A t \in Threads, b \in Attempts : Live(t, b) => Live(t, b)'
        BY <2>1, <3>2, <3>3 DEF Live, Dealt
      <3>5. \A t \in Threads, b \in Attempts : t = next /\ b = 1 => Queues(t, b)'
        BY <2>3, <3>2
      <3>6. \A t \in Threads, b \in Attempts : Due(t, b)' => Due(t, b) \/ Live(t, b)'
        BY <2>1, <2>2, <2>5, <3>3, <3>5 DEF Due, Live
      <3> QED
        BY <3>4, <3>6, KeptBy
    <2> QED
      BY <1>11, <2>4, <2>5 DEF Dispatch, Goto
  <1>12. CASE DispatchKnown
    <2>1. pc[0] = "discover" /\ UNCHANGED <<queue, final, log, got, hand, local, pc>>
      BY <1>12 DEF DispatchKnown, diskVars, taskVars, consumerVars
    <2> QED
      BY <1>4, <2>1
  <1>13. CASE DiscoveryEnds \/ Drain \/ CheckPeers \/ End
    <2>1. /\ pc[0] \in {"discover", "drain", "empty", "wait"}
          /\ pc'[0] \in {"drain", "get", "wait", "ended"}
          /\ UNCHANGED <<queue, final, got, hand, local>>
          /\ \A d \in Consumers \ {0} : pc'[d] = pc[d]
      BY <1>1, <1>13 DEF DiscoveryEnds, Drain, CheckPeers, End, Goto, taskVars
    <2>2. log'.tasks = log.tasks
      BY <1>13 DEF DiscoveryEnds, Drain, CheckPeers, End, diskVars, Shape, DataOK
    <2> QED
      BY <1>4, <2>1, <2>2
  <1>14. CASE DiscoveryRaises \/ Interrupt \/ PageCloses \/ Crash
    BY <1>3, <1>14 DEF DiscoveryRaises, Interrupt, PageCloses, Crash
  <1> QED
    BY <1>5, <1>6, <1>7, <1>8, <1>9, <1>10, <1>11, <1>12, <1>13, <1>14
       DEF Next, Orchestrator, Background, Consume

-----------------------------------------------------------------------------
(* The theorems.                                                           *)

Inductive == Shape /\ Balanced /\ OneCopy /\ Truthful /\ Lasting

LEMMA InductiveStep ==
    ASSUME Inductive, [Next]_vars
    PROVE  Inductive'
  <1> USE DEF Inductive
  <1>1. CASE Next
    BY <1>1, ShapeStep, BalancedStep, OneCopyStep, HandsTrueStep, RecordsTrueStep,
       DiscoveryTrueStep, KeptStep, RetiredStep, DrainedStep DEF Truthful, Lasting
  <1>2. CASE UNCHANGED vars
    <2>1. UNCHANGED <<log, saved, marker, next, queue, unfinished, final, discoveryDone, partial,
                      interrupted, pc, hand, got, shared, local, stop, closed, streak>>
      BY <1>2 DEF vars, diskVars, taskVars, eventVars, consumerVars
    <2>2. Shape'
      BY <1>2, ShapeStep
    <2>3. Balanced'
      BY <2>1 DEF Balanced, Past, Taken, Busy
    <2>4. OneCopy'
      BY <2>1 DEF OneCopy, Queued, Owed, Held, Working, InLog, LocalWaits, Busy
    <2>5. Truthful'
      BY <2>1 DEF Truthful, HandsTrue, RecordsTrue, DiscoveryTrue, MarkerHonest, Fetched
    <2>6. Lasting'
      <3>1. /\ \A t \in Threads, b \in Attempts : Due(t, b)' => Due(t, b)
            /\ \A t \in Threads, b \in Attempts : Live(t, b) => Live(t, b)'
        BY <2>1 DEF Due, Live, Leftover, Queues, Queued, Dealt, Carries
      <3> QED
        BY <2>1, <3>1 DEF Lasting, Kept, Retired, Drained, Undisturbed
    <2> QED
      BY <2>2, <2>3, <2>4, <2>5, <2>6
  <1> QED
    BY <1>1, <1>2

LEMMA Inductively == Spec => []Inductive
  <1>1. Init => Inductive
    BY InitShape, InitBalanced, InitOneCopy, InitTruthful, InitLasting DEF Inductive
  <1>2. Inductive /\ [Next]_vars => Inductive'
    BY InductiveStep
  <1> QED
    BY <1>1, <1>2, PTL DEF Spec

\* Every variable keeps its type, unfinished_tasks among them: task_done is
\* never called more often than put.
THEOREM FetchTypes == Spec => []TypeOK
  <1>1. Inductive => TypeOK
    <2> SUFFICES ASSUME Inductive PROVE TypeOK
      OBVIOUS
    <2>1. Len(queue) \in Nat /\ Cardinality(Taken) \in Nat
      BY TakenFacts DEF Inductive, Shape, ConsumersOK
    <2>2. unfinished \in Nat
      BY <2>1 DEF Inductive, Balanced
    <2> QED
      BY <2>2 DEF Inductive, Shape, DataOK, EventsOK, ConsumersOK, Outcome, FirstLabels,
                  OtherLabels, TypeOK
  <1> QED
    BY <1>1, Inductively, PTL

\* No thread is fetched by two consumers at once, nor again once the checkpoint
\* says it is persisted, whatever is requeued, lost, killed and resumed.
THEOREM NoDouble == Spec => []NoDoubleFetch
  <1>1. Inductive => NoDoubleFetch
    <2> SUFFICES ASSUME Inductive, NEW c \in Consumers, pc[c] = "fetching"
                 PROVE  /\ log.results[hand[c].thread] # "persisted"
                        /\ \A d \in Consumers \ {c} :
                               pc[d] = "fetching" => hand[d].thread # hand[c].thread
      BY DEF NoDoubleFetch
    <2>1. hand[c].thread \in Threads
      BY DEF Inductive, Shape, HandsFull, Busy, Task
    <2>2. \A d \in Consumers : pc[d] = "fetching" => Held(d, hand[d].thread)
      BY DEF Held, Working
    <2> QED
      BY <2>1, <2>2 DEF Inductive, OneCopy, Owed
  <1> QED
    BY <1>1, Inductively, PTL

\* The success marker is written only when every thread the operator did not
\* exclude is persisted in the checkpoint and committed to the database.
THEOREM MarkerTrue == Spec => []MarkerHonest
  <1>1. Inductive => MarkerHonest
    BY DEF Inductive, Truthful
  <1> QED
    BY <1>1, Inductively, PTL

\* A run that nothing stopped, closed or wore out ends with an outcome for every
\* thread it dispatched or took over, and a failed one used up its attempts.
THEOREM NothingLost == Spec => []NothingStranded
  <1>1. Inductive => NothingStranded
    <2> SUFFICES ASSUME Inductive, Undisturbed, pc[0] = "ended", NEW t \in log.tasks
                 PROVE  /\ final[t] # Unknown
                        /\ final[t].status = "failed" => final[t].attempt = MaxAttempts
      BY DEF NothingStranded, Undisturbed
    <2>1. t \in Threads /\ 1 \in Attempts /\ Due(t, 1)
      BY Parameters DEF Inductive, Shape, DataOK, Attempts, Due
    <2>2. queue = <<>> /\ \A w \in Workers : pc[w] = "off"
      BY DEF Inductive, Lasting, Drained
    <2>3. \A c \in Consumers : ~Carries(c, t, 1)
      BY <2>2 DEF Carries, Consumers
    <2>4. ~Queues(t, 1)
      BY <2>2 DEF Queues, Queued
    <2> QED
      BY <2>1, <2>3, <2>4 DEF Inductive, Lasting, Kept, Live, Dealt
  <1> QED
    BY <1>1, Inductively, PTL
=============================================================================
