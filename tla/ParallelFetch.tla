---------------------------- MODULE ParallelFetch ----------------------------
(***************************************************************************)
(* The inbox fetch of fb_pipeline/inbox/l3_parallel_fetch.py: worker 0     *)
(* discovers threads in the sidebar, fetches some of them on its own tab   *)
(* and shares the others with background workers; a failed thread goes     *)
(* back to the shared queue once; every outcome is appended to a           *)
(* checkpoint (l3_fetch_checkpoint.py) a killed run can be resumed from.   *)
(*                                                                         *)
(* Threads are numbered as the sidebar lists them; those Stage 1 decides   *)
(* to skip are left out.  target_total_messages is not given (the          *)
(* default), so that only a Facebook block or an interrupt stops a run.    *)
(***************************************************************************)
EXTENDS Integers, Sequences, FiniteSets

CONSTANTS
    NumThreads,   \* threads the discovery comes upon
    Workers,      \* background workers, at most MAX_TOTAL_TABS - 1
    MaxAttempts,  \* MAX_TASK_ATTEMPTS
    RetireAt,     \* WORKER_FAILURE_STREAK_RETIRE
    Excluded,     \* threads the operator excludes from the second run on
    MaxRuns       \* bound: the first run and its resumptions

ASSUME ThreadsAssumption == NumThreads \in Nat
ASSUME WorkersAssumption == IsFiniteSet(Workers) /\ 0 \notin Workers
ASSUME AttemptsAssumption == MaxAttempts \in Nat \ {0}
ASSUME RetireAssumption == RetireAt \in Nat \ {0}
ASSUME ExcludedAssumption == Excluded \subseteq 1 .. NumThreads
ASSUME RunsAssumption == MaxRuns \in Nat \ {0}

VARIABLES
    log,            \* the checkpoint: tasks, results, whether discovery is over
    saved,          \* threads whose messages are committed to the database
    marker,         \* record_fetch was called for the range
    next,           \* the thread discovery comes upon next
    queue,          \* task_q, which is retry_q too
    unfinished,     \* task_q.unfinished_tasks
    stop,           \* stop_event
    discoveryDone,  \* the event of that name
    closed,         \* orchestrator_dead, or the page is closed
    blocked,        \* the Facebook block gate has tripped
    interrupted,    \* an exception or Ctrl-C ended a stage
    partial,        \* discovery["interrupted"]
    final,          \* _final_results so far
    pc, hand, got,  \* each consumer: where it is, its task, the status it got
    shared,         \* its from_shared_queue
    local,          \* its pending_retries
    streak,         \* its failure streak
    runs

diskVars == <<log, saved, marker>>
eventVars == <<stop, discoveryDone, closed, blocked, interrupted, partial>>
taskVars == <<queue, unfinished, final>>
consumerVars == <<pc, hand, got, shared, local, streak>>
vars == <<diskVars, next, taskVars, eventVars, consumerVars, runs>>

-----------------------------------------------------------------------------
Threads == 1 .. NumThreads
Consumers == {0} \cup Workers

Task == [thread : Threads, attempt : 1 .. MaxAttempts]
NoTask == [thread |-> 0, attempt |-> 0]

\* "rejected" is an error report with code fetch_integrity_failed, "failed" any
\* other status of _FAILED_STATUSES; "no_messages" is treated like "needs_review".
Statuses == {"persisted", "skipped", "needs_review", "rejected", "failed", "blocked"}
Unknown == [status |-> "none", attempt |-> 0]

\* Statuses FetchCheckpoint.pending() passes over, and those a run that is
\* complete may end with.
Terminal == {"persisted", "skipped", "needs_review", "rejected"}
Success == {"persisted", "skipped"}

Pending == {t \in log.tasks : log.results[t] \notin Terminal}

\* A rejected thread is an "error" for the circuit breaker.
CountsAsFailure(status) == status \in {"failed", "rejected"}

\* is_ignored_inbox_name, a list that grows between runs.
Ignored == IF runs = 1 THEN {} ELSE Excluded

Alive(w) == pc[w] # "off"

\* FetchCheckpoint._apply of a result: what is persisted stays so.
Apply(results, thread, status) ==
    IF results[thread] = "persisted" THEN results
                                     ELSE [results EXCEPT ![thread] = status]

\* One more result for _final_results.
Better(thread, status, attempt) ==
    \/ final[thread] = Unknown
    \/ status = "persisted"
    \/ final[thread].status # "persisted" /\ attempt >= final[thread].attempt

Put(task) == /\ queue' = Append(queue, task)
             /\ unfinished' = unfinished + 1

\* Mutant: the acknowledgement is forgotten.
DoneNever(c) == UNCHANGED unfinished

\* task_done, for a task that came from the shared queue.
Done(c) == unfinished' = unfinished - (IF shared[c] THEN 1 ELSE 0)

\* The consumer's task is out of its hands.
Free(c) == /\ hand' = [hand EXCEPT ![c] = NoTask]
           /\ got' = [got EXCEPT ![c] = "none"]
           /\ shared' = [shared EXCEPT ![c] = FALSE]

Goto(c, label) == pc' = [pc EXCEPT ![c] = label]

-----------------------------------------------------------------------------
(* What every consumer does: take a task, fetch it, record the outcome.    *)

Exit(c) == IF c = 0 THEN "wait" ELSE "off"
Loop(c) == IF c = 0 THEN "drain" ELSE "idle"

\* task_q.get(timeout=0.1)
Get(c) ==
    /\ pc[c] = "get"
    /\ IF queue = <<>>
       THEN Goto(c, "empty") /\ UNCHANGED <<queue, hand, shared>>
       ELSE /\ hand' = [hand EXCEPT ![c] = Head(queue)]
            /\ queue' = Tail(queue)
            /\ shared' = [shared EXCEPT ![c] = TRUE]
            /\ Goto(c, "picked")
    /\ UNCHANGED <<diskVars, next, unfinished, final, eventVars, got, local, streak, runs>>

\* Stop raced with get(): the task is put back before it is acknowledged.
PutBack(c) ==
    /\ pc[c] = "picked"
    /\ stop
    /\ queue' = Append(queue, hand[c])
    /\ unfinished' = unfinished + 1 - (IF shared[c] THEN 1 ELSE 0)
    /\ Free(c)
    /\ Goto(c, Exit(c))
    /\ UNCHANGED <<diskVars, next, final, eventVars, local, streak, runs>>

BeginFetch(c) ==
    /\ pc[c] = "picked"
    /\ ~stop
    /\ Goto(c, "fetching")
    /\ UNCHANGED <<diskVars, next, taskVars, eventVars, hand, got, shared, local, streak, runs>>

\* Mutants: the bound on attempts is missing, or off by one.
RequeueForever(task, status) ==
    IF status = "failed" THEN Put([task EXCEPT !.attempt = @ + 1])
                         ELSE UNCHANGED <<queue, unfinished>>

RequeueLate(task, status) ==
    IF status = "failed" /\ task.attempt + 1 < MaxAttempts
    THEN Put([task EXCEPT !.attempt = @ + 1])
    ELSE UNCHANGED <<queue, unfinished>>

\* _requeue_failed: once, and never what the evidence gate rejected.
Requeue(task, status) ==
    IF status = "failed" /\ task.attempt < MaxAttempts
    THEN Put([task EXCEPT !.attempt = @ + 1])
    ELSE UNCHANGED <<queue, unfinished>>

\* process_thread_task and what follows it up to the result queue.
Fetch(c) ==
    /\ pc[c] = "fetching"
    /\ \E status \in IF hand[c].thread \in Ignored THEN {"skipped", "failed"}
                                                 ELSE Statuses \ {"skipped"} :
         /\ got' = [got EXCEPT ![c] = status]
         /\ saved' = IF status = "persisted" THEN saved \cup {hand[c].thread} ELSE saved
         /\ stop' = (stop \/ status = "blocked")
         /\ blocked' = (blocked \/ status = "blocked")
         /\ Requeue(hand[c], status)
    /\ Goto(c, "fetched")
    /\ UNCHANGED <<log, marker, next, final, discoveryDone, closed, interrupted, partial,
                   hand, shared, local, streak, runs>>

\* The tab of a background worker is lost: the task is kept for the next round,
\* on a new tab, or given up.
TabLost(w) ==
    /\ w \in Workers
    /\ pc[w] = "fetching"
    /\ IF hand[w].attempt < MaxAttempts
       THEN /\ local' = [local EXCEPT ![w] = [hand[w] EXCEPT !.attempt = @ + 1]]
            /\ Free(w)
            /\ Done(w)
            /\ Goto(w, "idle")
       ELSE /\ got' = [got EXCEPT ![w] = "failed"]
            /\ Goto(w, "fetched")
            /\ UNCHANGED <<local, hand, shared, unfinished>>
    /\ UNCHANGED <<diskVars, next, queue, final, eventVars, streak, runs>>

\* ResultQueue.put: the log first, then the queue of results.
Record(c) ==
    /\ pc[c] = "fetched"
    /\ log' = [log EXCEPT !.results = Apply(@, hand[c].thread, got[c])]
    /\ final' = IF Better(hand[c].thread, got[c], hand[c].attempt)
                THEN [final EXCEPT ![hand[c].thread] =
                          [status |-> got[c], attempt |-> hand[c].attempt]]
                ELSE final
    /\ Goto(c, "recorded")
    /\ UNCHANGED <<saved, marker, next, queue, unfinished, eventVars,
                   hand, got, shared, local, streak, runs>>

\* _WorkerHealth.record, task_done.  What worker 0 fetches during discovery
\* counts for neither; a stop ends that discovery.
Settle(c) ==
    LET discovering == c = 0 /\ ~discoveryDone
        failures == IF CountsAsFailure(got[c]) THEN streak[c] + 1 ELSE 0
        retired == failures >= RetireAt
    IN  /\ pc[c] = "recorded"
        /\ Done(c)
        /\ Free(c)
        /\ IF discovering
           THEN /\ Goto(c, "discover")
                /\ partial' = (partial \/ stop)
                /\ UNCHANGED streak
           ELSE /\ streak' = [streak EXCEPT ![c] = failures]
                /\ Goto(c, IF retired THEN Exit(c) ELSE Loop(c))
                /\ UNCHANGED partial
        /\ UNCHANGED <<diskVars, next, queue, final, stop, discoveryDone, closed, blocked,
                       interrupted, local, runs>>

-----------------------------------------------------------------------------
(* worker_main: the loop around it, for a background worker.               *)

Idle(w) ==
    /\ pc[w] = "idle"
    /\ IF stop THEN Goto(w, "off") /\ UNCHANGED <<hand, shared, local>>
       ELSE IF local[w] # NoTask
       THEN /\ hand' = [hand EXCEPT ![w] = local[w]]
            /\ local' = [local EXCEPT ![w] = NoTask]
            /\ shared' = [shared EXCEPT ![w] = FALSE]
            /\ Goto(w, "picked")
       ELSE Goto(w, "get") /\ UNCHANGED <<hand, shared, local>>
    /\ UNCHANGED <<diskVars, next, taskVars, eventVars, got, streak, runs>>

\* queue.Empty: unfinished_tasks is read first, discovery_done after it.
CheckUnfinished(w) ==
    /\ w \in Workers
    /\ pc[w] = "empty"
    /\ Goto(w, IF unfinished = 0 THEN "leaving" ELSE "idle")
    /\ UNCHANGED <<diskVars, next, taskVars, eventVars, hand, got, shared, local, streak,
                   runs>>

CheckDiscovery(w) ==
    /\ pc[w] = "leaving"
    /\ Goto(w, IF discoveryDone THEN "off" ELSE "idle")
    /\ UNCHANGED <<diskVars, next, taskVars, eventVars, hand, got, shared, local, streak,
                   runs>>

-----------------------------------------------------------------------------
(* Worker 0: discovery, then its own drain of the queue.                   *)

\* Mutant: what the checkpoint holds is dispatched again.
KnownIgnored == Ignored

\* known_ids and known_sidebar_keys of a resumed run; an ignored name is no
\* thread to discovery either.
Known == log.tasks \cup Ignored

\* _dispatch of a thread that is not in the checkpoint yet.  Which of the
\* two ways a thread goes depends on its stable id and on a count; worker 0
\* fetches it itself when nobody else is there.
Dispatch ==
    LET here == ~stop /\ ~closed
    IN  /\ pc[0] = "discover"
        /\ ~partial /\ ~blocked
        /\ next \in Threads \ Known
        /\ log' = [log EXCEPT !.tasks = @ \cup {next}]
        /\ next' = next + 1
        /\ \/ /\ here
              /\ hand' = [hand EXCEPT ![0] = [thread |-> next, attempt |-> 1]]
              /\ shared' = [shared EXCEPT ![0] = FALSE]
              /\ Goto(0, "fetching")
              /\ UNCHANGED <<queue, unfinished, partial>>
           \/ /\ here => \E w \in Workers : Alive(w)
              /\ Put([thread |-> next, attempt |-> 1])
              /\ partial' = stop
              /\ UNCHANGED <<hand, shared, pc>>
        /\ UNCHANGED <<saved, marker, final, stop, discoveryDone, closed, blocked, interrupted,
                       got, local, streak, runs>>

DispatchKnown ==
    /\ pc[0] = "discover"
    /\ ~partial /\ ~blocked
    /\ next \in Known
    /\ next' = next + 1
    /\ UNCHANGED <<diskVars, taskVars, eventVars, consumerVars, runs>>

\* The end of the range, or of its patience: a sidebar that no longer moves
\* leaves discovery unfinished, and so does a stop.
DiscoveryEnds ==
    /\ pc[0] = "discover"
    /\ discoveryDone' = TRUE
    /\ \/ /\ next \notin Threads /\ ~partial
          /\ log' = [log EXCEPT !.discovered = TRUE]
          /\ UNCHANGED partial
       \/ partial' = TRUE /\ UNCHANGED log
    /\ Goto(0, "drain")
    /\ UNCHANGED <<saved, marker, next, taskVars, stop, closed, blocked, interrupted,
                   hand, got, shared, local, streak, runs>>

\* An exception out of discover_threads: a tripped gate, a closed page, Ctrl-C.
DiscoveryRaises ==
    /\ ~discoveryDone
    /\ pc[0] \in {"discover", "fetching", "fetched"}
    /\ stop' = TRUE /\ interrupted' = TRUE /\ discoveryDone' = TRUE
    /\ Free(0)
    /\ Goto(0, "wait")
    /\ UNCHANGED <<diskVars, next, taskVars, closed, blocked, partial,
                   local, streak, runs>>

Drain ==
    /\ pc[0] = "drain"
    /\ Goto(0, IF stop \/ closed THEN "wait" ELSE "get")
    /\ UNCHANGED <<diskVars, next, taskVars, eventVars, hand, got, shared, local, streak,
                   runs>>

\* queue.Empty for worker 0: it stays as long as a peer lives.
CheckPeers ==
    /\ pc[0] = "empty"
    /\ Goto(0, IF \E w \in Workers : Alive(w) THEN "drain" ELSE "wait")
    /\ UNCHANGED <<diskVars, next, taskVars, eventVars, hand, got, shared, local, streak,
                   runs>>

\* Ctrl-C in Stage 2.
Interrupt ==
    /\ discoveryDone /\ ~interrupted
    /\ pc[0] \in {"drain", "get", "empty", "picked", "fetching", "fetched", "recorded", "wait"}
    /\ stop' = TRUE /\ interrupted' = TRUE
    /\ Done(0)
    /\ Free(0)
    /\ Goto(0, "wait")
    /\ UNCHANGED <<diskVars, next, queue, final, discoveryDone, closed, blocked, partial,
                   local, streak, runs>>

\* Mutant: tasks nobody took are not looked for.
CompleteOfResults ==
    /\ ~interrupted /\ ~partial
    /\ \A t \in log.tasks : final[t].status \in Success \cup {"none"}

\* stats["fetch_complete"]
Complete ==
    /\ ~interrupted /\ ~partial
    /\ \A t \in log.tasks : final[t].status \in Success

\* _wait_for_worker_drain is over: the report, and the success marker.
End ==
    /\ pc[0] = "wait"
    /\ \A w \in Workers : ~Alive(w)
    /\ marker' = (marker \/ (Complete /\ ~blocked))
    /\ Goto(0, "ended")
    /\ UNCHANGED <<log, saved, next, taskVars, eventVars, hand, got, shared, local, streak,
                   runs>>

-----------------------------------------------------------------------------
(* The page, the process, the operator.                                    *)

PageCloses ==
    /\ ~closed
    /\ pc[0] \notin {"ended", "down"}
    /\ closed' = TRUE
    /\ UNCHANGED <<diskVars, next, taskVars, stop, discoveryDone, blocked, interrupted, partial,
                   consumerVars, runs>>

\* What a process starts with, its queue and its results aside.
FreshMemory ==
    /\ next' = 1
    /\ stop' = FALSE /\ closed' = FALSE /\ blocked' = FALSE
    /\ interrupted' = FALSE /\ partial' = FALSE
    /\ hand' = [c \in Consumers |-> NoTask] /\ local' = [c \in Consumers |-> NoTask]
    /\ got' = [c \in Consumers |-> "none"] /\ shared' = [c \in Consumers |-> FALSE]
    /\ streak' = [c \in Consumers |-> 0]

\* The process is killed: the checkpoint and the database are what is left.  A
\* record it was writing is torn, and the next open cuts it off.
Crash ==
    /\ pc[0] \notin {"ended", "down"}
    /\ pc' = [c \in Consumers |-> IF c = 0 THEN "down" ELSE "off"]
    /\ queue' = <<>> /\ unfinished' = 0
    /\ final' = [t \in Threads |-> Unknown]
    /\ discoveryDone' = FALSE
    /\ FreshMemory
    /\ UNCHANGED <<diskVars, runs>>

FirstAttempt(t) == [thread |-> t, attempt |-> 1]

\* A worker whose database connection fails never starts its loop.
StartWorkers == pc' \in [Consumers -> {"discover", "drain", "idle", "off"}]
                /\ \A w \in Workers : pc'[w] \in {"idle", "off"}

\* run_parallel_fetch(resume_run=...): threads pending in the checkpoint get a
\* fresh budget; names the operator excluded since are no longer failures.
Resume ==
    /\ pc[0] \in {"ended", "down"}
    /\ runs < MaxRuns
    /\ runs' = runs + 1
    /\ log' = [log EXCEPT !.results =
                   [t \in Threads |-> IF /\ t \in Excluded \ Pending
                                         /\ @[t] \in Terminal \ {"persisted"}
                                      THEN "skipped" ELSE @[t]]]
    /\ final' = [t \in Threads |-> IF t \in log.tasks \ Pending
                                   THEN [status |-> log'.results[t], attempt |-> 1]
                                   ELSE Unknown]
    /\ \E order \in [1 .. Cardinality(Pending) -> Pending] :
         /\ \A i, j \in DOMAIN order : i < j => order[i] < order[j]
         /\ queue' = [i \in DOMAIN order |-> FirstAttempt(order[i])]
    /\ unfinished' = Cardinality(Pending)
    /\ StartWorkers
    /\ pc'[0] = IF log.discovered THEN "drain" ELSE "discover"
    /\ discoveryDone' = log.discovered
    /\ FreshMemory
    /\ UNCHANGED <<saved, marker>>

-----------------------------------------------------------------------------
(* Specification.                                                          *)

Init ==
    /\ log = [tasks |-> {}, results |-> [t \in Threads |-> "none"], discovered |-> FALSE]
    /\ saved = {} /\ marker = FALSE
    /\ next = 1
    /\ queue = <<>> /\ unfinished = 0
    /\ final = [t \in Threads |-> Unknown]
    /\ stop = FALSE /\ discoveryDone = FALSE /\ closed = FALSE
    /\ blocked = FALSE /\ interrupted = FALSE /\ partial = FALSE
    /\ \E started \in SUBSET Workers :
         pc = [c \in Consumers |-> IF c = 0 THEN "discover"
                                   ELSE IF c \in started THEN "idle" ELSE "off"]
    /\ hand = [c \in Consumers |-> NoTask] /\ local = [c \in Consumers |-> NoTask]
    /\ got = [c \in Consumers |-> "none"] /\ shared = [c \in Consumers |-> FALSE]
    /\ streak = [c \in Consumers |-> 0]
    /\ runs = 1

Consume(c) == Get(c) \/ PutBack(c) \/ BeginFetch(c) \/ Fetch(c) \/ Record(c) \/ Settle(c)

Background(w) == \/ Consume(w) \/ TabLost(w)
                 \/ Idle(w) \/ CheckUnfinished(w) \/ CheckDiscovery(w)

Orchestrator == \/ Consume(0) \/ Dispatch \/ DispatchKnown \/ DiscoveryEnds
                \/ Drain \/ CheckPeers \/ End

Next == \/ Orchestrator \/ \E w \in Workers : Background(w)
        \/ DiscoveryRaises \/ Interrupt \/ PageCloses \/ Crash \/ Resume

Spec == Init /\ [][Next]_vars

\* Threads run, and each call of the browser has a timeout.  Nobody has to
\* interrupt, close, kill or resume anything.
FairSpec == Spec /\ WF_vars(Orchestrator) /\ \A w \in Workers : WF_vars(Background(w))

-----------------------------------------------------------------------------
(* Properties.                                                             *)

\* Every variable has its type.
TypeOK ==
    /\ log \in [tasks : SUBSET Threads, results : [Threads -> Statuses \cup {"none"}],
                discovered : BOOLEAN]
    /\ saved \subseteq Threads
    /\ {marker, stop, discoveryDone, closed, blocked, interrupted, partial} \subseteq BOOLEAN
    /\ next \in 1 .. NumThreads + 1
    /\ queue \in Seq(Task)
    /\ unfinished \in Nat
    /\ final \in [Threads -> [status : Statuses, attempt : 1 .. MaxAttempts] \cup {Unknown}]
    /\ DOMAIN pc = Consumers
    /\ pc[0] \in {"discover", "drain", "get", "empty", "picked", "fetching", "fetched",
                  "recorded", "wait", "ended", "down"}
    /\ \A w \in Workers : pc[w] \in {"idle", "get", "empty", "leaving", "picked", "fetching",
                                     "fetched", "recorded", "off"}
    /\ hand \in [Consumers -> Task \cup {NoTask}]
    /\ got \in [Consumers -> Statuses \cup {"none"}]
    /\ shared \in [Consumers -> BOOLEAN]
    /\ local \in [Consumers -> Task \cup {NoTask}]
    /\ streak \in [Consumers -> Nat]
    /\ runs \in 1 .. MaxRuns

\* The success marker of a range, which later runs rely on to stop early, is
\* written only when every thread of the range is dealt with, durably: nothing
\* is left for a resumed run (l3_parallel_fetch.py:983-984).
MarkerHonest ==
    marker => \A t \in Threads \ Excluded : /\ log.results[t] = "persisted"
                                            /\ t \in saved

\* Two consumers never fetch one thread together, and a thread the checkpoint
\* says is persisted is not fetched again, in this run or a resumed one.
NoDoubleFetch ==
    \A c \in Consumers : pc[c] = "fetching" =>
        /\ log.results[hand[c].thread] # "persisted"
        /\ \A d \in Consumers \ {c} : pc[d] = "fetching" => hand[d].thread # hand[c].thread

\* A run that nothing stopped, closed or wore out leaves no thread behind: each
\* has an outcome, and one that failed used up its attempts (the queue is
\* drained, late retries included).
NothingStranded ==
    pc[0] = "ended" /\ ~stop /\ ~closed /\ (\A c \in Consumers : streak[c] < RetireAt) =>
        \A t \in log.tasks : /\ final[t] # Unknown
                             /\ final[t].status = "failed" => final[t].attempt = MaxAttempts

\* A run comes to its end: nobody waits for a task another one will never hand
\* back, and nobody's retirement keeps the others (_wait_for_worker_drain).
RunEnds == pc[0] \notin {"ended", "down"} ~> pc[0] \in {"ended", "down"}
=============================================================================
