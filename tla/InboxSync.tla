------------------------------ MODULE InboxSync ------------------------------
(***************************************************************************)
(* Which conversations a fetch run opens.  Stage 1 (browser/l3_inbox.py,   *)
(* discover_threads) goes down the sidebar, newest conversation first, and *)
(* compares each card with the marker of the thread's last sync            *)
(* (inbox/l3_sync_decision.py).  Two unchanged cards end it early, unless  *)
(* an earlier run stopped part-way.  Stage 2 opens what Stage 1 passed on; *)
(* how its tabs share the work is ParallelFetch's subject, here a task is  *)
(* fetched or fails.  Messages arrive all the while.                       *)
(***************************************************************************)
EXTENDS Integers, Sequences, FiniteSets

CONSTANTS
    NumThreads,  \* conversations of the page
    Utterances,  \* what messages say: side and normalised text
    MaxEvents,   \* bound: messages that arrive and days that pass
    MaxRuns,     \* bound: runs
    Limits       \* the max_threads a run may be started with

ASSUME SyncAssumption ==
    /\ {NumThreads, MaxEvents, MaxRuns} \subseteq Nat
    /\ \A said \in Utterances : said.side \in {"Customer", "Page"}
    /\ Limits \subseteq Nat \ {0}

VARIABLES
    exact,    \* cards carry the exact time of their last message
    chats,    \* thread -> its messages on Facebook
    clock,    \* number of messages so far, the day, the minute
    rows,     \* thread -> its row: messages stored, fetched marker
    marked,   \* fetch_log has a completed run
    touched,  \* a thread was synced after it
    run,      \* the run that is going on
    journal,  \* the tasks left in the checkpoint of the last run that stopped
    runs,     \* number of runs so far
    stale,    \* ghost: threads skipped though messages were missing
    narrow    \* ghost: a Stage 1 stopped at its max_threads

syncVars == <<exact, chats, clock, rows, marked, touched, run, journal, runs, stale, narrow>>

SyncThreads == 1 .. NumThreads
Unknown == 0

Newest(t) == chats[t][Len(chats[t])]

\* A card: the exact time, if the page renders it, and the token, which names a
\* minute only on the day itself.
Card(message, timed) ==
    [utime |-> IF timed THEN message.n ELSE Unknown,
     day |-> message.day,
     minute |-> IF message.day = clock.day THEN message.minute ELSE Unknown,
     preview |-> message.text]

Off == [step |-> "off", limit |-> 0, allow |-> FALSE, clean |-> 0, cursor |-> 0,
        seen |-> {}, tasks |-> {}, errors |-> {}, stuck |-> FALSE]

SyncTypeOK ==
    /\ \A t \in SyncThreads : rows[t].have \in 0 .. Len(chats[t])
    /\ {marked, touched, narrow} \subseteq BOOLEAN
    /\ run.step \in {"off", "scan", "drain"}
    /\ run.clean \in 0 .. 2
    /\ run.seen \subseteq SyncThreads /\ stale \subseteq SyncThreads
    /\ runs \in 0 .. MaxRuns

\* Each thread began with one message, thread 1's the oldest.  A first run got
\* through when thread 1 was the only one, and may have had to do without exact
\* times.
SyncInit ==
    /\ exact \in BOOLEAN
    /\ chats = [t \in SyncThreads |->
                  <<[n |-> t, day |-> 1, minute |-> 1, side |-> "Customer", text |-> "hello"]>>]
    /\ clock = [n |-> NumThreads, day |-> 1, minute |-> 1]
    /\ \E timed \in BOOLEAN :
           rows = [t \in SyncThreads |->
                      [have |-> IF t = 1 THEN 1 ELSE 0, complete |-> TRUE, synced |-> 1,
                       card |-> Card(chats[t][1], timed)]]
    /\ marked = TRUE /\ touched = FALSE
    /\ run = Off /\ journal = {} /\ runs = 0
    /\ stale = {} /\ narrow = FALSE

-----------------------------------------------------------------------------
(* The decision about a card.                                              *)

Synced(t) == rows[t].have > 0

\* decide_by_fetched_marker, the first case that applies.  `recent`: the last
\* sync was less than INCOMPLETE_HISTORY_RETRY_HOURS ago.
DecideByMarker(t, card, recent) ==
    LET then == rows[t].card
        minutesDiffer == /\ then.minute # Unknown /\ card.minute # Unknown
                         /\ then.minute # card.minute
    IN  IF ~rows[t].complete
        THEN IF recent /\ card.utime # Unknown /\ card.utime = then.utime
             THEN "skip" ELSE "fetch"
        ELSE IF card.utime # Unknown /\ then.utime # Unknown
             THEN IF card.utime = then.utime THEN "skip" ELSE "fetch"
        ELSE IF card.utime = Unknown THEN "undecided"
        ELSE IF card.day # then.day \/ minutesDiffer THEN "fetch"
        ELSE IF card.day < clock.day \/ card.preview = then.preview THEN "skip"
        ELSE "fetch"

\* The last three stored messages with the card's wording.
Resembling(t) == {k \in 1 .. rows[t].have : /\ k > rows[t].have - 3
                                            /\ chats[t][k].text = Newest(t).text}

\* The preview-match fallback.  A reply of ours on the card that resembles a
\* customer's turn only was never stored.
PreviewMatches(t) ==
    /\ Resembling(t) # {}
    /\ LET row == CHOOSE k \in Resembling(t) : \A j \in Resembling(t) : j <= k
       IN  Newest(t).side = "Page" => chats[t][row].side # "Customer"

\* Mutant: an unreadable time counts as an unchanged one.
SkipsUnread(t, card, recent) ==
    Synced(t) /\ DecideByMarker(t, card, recent) \in {"skip", "undecided"}

Skips(t, card, recent) ==
    /\ Synced(t)
    /\ LET decision == DecideByMarker(t, card, recent)
       IN  decision = "skip" \/ (decision = "undecided" /\ PreviewMatches(t))

-----------------------------------------------------------------------------
(* Stage 1.                                                                *)

\* Mutant: whether the last run got through is not asked.
PreviousIncompleteNever == FALSE

\* previous_fetch_incomplete.
PreviousIncomplete == ~marked \/ touched

StartRun(limit) ==
    /\ run.step = "off" /\ runs < MaxRuns
    /\ runs' = runs + 1
    /\ run' = [Off EXCEPT !.step = "scan", !.limit = limit,
                          !.allow = ~PreviousIncomplete, !.cursor = clock.n + 1]
    /\ UNCHANGED <<exact, chats, clock, rows, marked, touched, journal, stale, narrow>>

\* Threads whose card is among the first three of the sidebar.
Top == {t \in SyncThreads : Cardinality({u \in SyncThreads : Newest(u).n > Newest(t).n}) < 3}

\* validate_quick_fetch_cache: the last stored message of each reads like its
\* card.  The run ends, and is not marked complete.
CacheHit ==
    /\ run.step = "scan" /\ run.allow /\ run.seen = {}
    /\ \A t \in Top : /\ Synced(t)
                      /\ chats[t][rows[t].have].text = Newest(t).text
                      /\ Newest(t).side = "Page" => chats[t][rows[t].have].side = "Page"
    /\ run' = Off
    /\ UNCHANGED <<exact, chats, clock, rows, marked, touched, journal, runs, stale, narrow>>

\* Cards still below the scroll position; one that moved up meanwhile is not.
Below == {t \in SyncThreads \ run.seen : Newest(t).n < run.cursor}

\* Mutant: clean cards do not end the scan.
ScanningOn == run.step = "scan" /\ Cardinality(run.seen) < run.limit

Scanning == /\ run.step = "scan"
            /\ Cardinality(run.seen) < run.limit
            /\ run.clean < 2

\* The next card is unchanged: its marker is refreshed, its messages are not.
SkipCard(t, card) ==
    /\ rows' = [rows EXCEPT ![t].card = card, ![t].synced = clock.day]
    /\ touched' = TRUE
    /\ run' = [run EXCEPT !.seen = @ \cup {t}, !.cursor = Newest(t).n,
                          !.clean = IF run.allow THEN @ + 1 ELSE @]
    /\ stale' = IF rows[t].have < Len(chats[t]) THEN stale \cup {t} ELSE stale

PassOn(t, card) ==
    /\ run' = [run EXCEPT !.seen = @ \cup {t}, !.cursor = Newest(t).n, !.clean = 0,
                          !.tasks = @ \cup {[thread |-> t, card |-> card]}]
    /\ UNCHANGED <<rows, touched, stale>>

ScanCard ==
    /\ Scanning
    /\ \E t \in Below, recent \in BOOLEAN :
           LET card == Card(Newest(t), exact)
           IN  /\ \A u \in Below : Newest(u).n <= Newest(t).n
               /\ IF Skips(t, card, recent) THEN SkipCard(t, card) ELSE PassOn(t, card)
    /\ UNCHANGED <<exact, chats, clock, marked, journal, runs, narrow>>

\* Stage 1 is over; a sidebar that does not move ends it as a failure.
ScanEnds ==
    /\ run.step = "scan"
    /\ \/ /\ ~Scanning \/ Below = {}
          /\ run' = [run EXCEPT !.step = "drain"]
          /\ narrow' = (narrow \/ (Cardinality(run.seen) = run.limit /\ Below # {}))
       \/ run' = [run EXCEPT !.step = "drain", !.stuck = TRUE] /\ UNCHANGED narrow
    /\ UNCHANGED <<exact, chats, clock, rows, marked, touched, journal, runs, stale>>

-----------------------------------------------------------------------------
(* Stage 2 and the end of a run.                                           *)

\* The thread is stored with what it holds by now, under the card Stage 1 saw.
\* Messages without evidence are left out: the history is incomplete.
FetchTask(task) ==
    /\ task \in run.tasks
    /\ \E have \in rows[task.thread].have .. Len(chats[task.thread]) :
           /\ have > 0
           /\ rows' = [rows EXCEPT ![task.thread] =
                  [have |-> have, complete |-> have = Len(chats[task.thread]),
                   synced |-> clock.day, card |-> task.card]]
    /\ touched' = TRUE
    /\ run' = [run EXCEPT !.tasks = @ \ {task}]
    /\ stale' = stale \ {task.thread}
    /\ UNCHANGED <<exact, chats, clock, marked, journal, runs, narrow>>

FailTask(task) ==
    /\ task \in run.tasks
    /\ run' = [run EXCEPT !.tasks = @ \ {task}, !.errors = @ \cup {task}]
    /\ UNCHANGED <<exact, chats, clock, rows, marked, touched, journal, runs, stale, narrow>>

\* record_fetch, the success marker, for a run without failures.
Complete ==
    /\ run.step = "drain" /\ run.tasks = {} /\ run.errors = {} /\ ~run.stuck
    /\ marked' = TRUE /\ touched' = FALSE
    /\ run' = Off
    /\ UNCHANGED <<exact, chats, clock, rows, journal, runs, stale, narrow>>

\* Otherwise, or when the process dies, the checkpoint can be resumed.  (A run
\* whose Stage 1 had not ended scans again, like a new run.)
Stops ==
    /\ run.step # "off"
    /\ journal' = IF run.step = "drain" /\ ~run.stuck THEN run.tasks \cup run.errors ELSE {}
    /\ run' = Off
    /\ UNCHANGED <<exact, chats, clock, rows, marked, touched, runs, stale, narrow>>

\* --resume: what was left or failed is fetched, under the cards of that time.
ResumeRun ==
    /\ run.step = "off" /\ journal # {} /\ runs < MaxRuns
    /\ runs' = runs + 1
    /\ run' = [Off EXCEPT !.step = "drain", !.tasks = journal]
    /\ journal' = {}
    /\ UNCHANGED <<exact, chats, clock, rows, marked, touched, stale, narrow>>

-----------------------------------------------------------------------------
(* Facebook.                                                               *)

Events == clock.n - NumThreads + clock.day - 1

Arrive(t, said, later) ==
    /\ Events < MaxEvents
    /\ clock' = [clock EXCEPT !.n = @ + 1, !.minute = IF later THEN @ + 1 ELSE @]
    /\ chats' = [chats EXCEPT ![t] = Append(@, [n |-> clock'.n, day |-> clock.day,
                                              minute |-> clock'.minute, side |-> said.side,
                                              text |-> said.text])]
    /\ UNCHANGED <<exact, rows, marked, touched, run, journal, runs, stale, narrow>>

\* No run goes over midnight.
NextDay ==
    /\ Events < MaxEvents /\ run.step = "off"
    /\ clock' = [clock EXCEPT !.day = @ + 1, !.minute = 1]
    /\ UNCHANGED <<exact, chats, rows, marked, touched, run, journal, runs, stale, narrow>>

SyncNext ==
    \/ \E limit \in Limits : StartRun(limit)
    \/ CacheHit \/ ScanCard \/ ScanEnds
    \/ \E task \in run.tasks : FetchTask(task) \/ FailTask(task)
    \/ Complete \/ Stops \/ ResumeRun
    \/ \E t \in SyncThreads, said \in Utterances, later \in BOOLEAN : Arrive(t, said, later)
    \/ NextDay

SyncSpec == SyncInit /\ [][SyncNext]_syncVars

-----------------------------------------------------------------------------
\* l3_sync_decision.py:15-18: a comparison that is not trustworthy never leads
\* to a skip, "skipping one that has a new message loses a seeker's reply".  A
\* thread with messages missing is skipped only when the newest one repeats the
\* wording of a stored one or of the marker, or the thread was last synced, by a
\* card without exact time, on the very day the token names.
SkipIsExcused ==
    [][\A t \in stale' \ stale :
           \/ Resembling(t) # {}
           \/ rows[t].card.preview = Newest(t).text
           \/ rows[t].card.utime = Unknown /\ rows[t].synced = Newest(t).day
           \/ ~rows[t].complete]_syncVars

\* l3_inbox.py:122-124: two clean cards mean everything below is clean when the
\* previous run finished.  With exact times on the cards, and as long as no
\* thread was skipped wrongly, Stage 1 stops early only when no thread further
\* down has messages that were never stored, whatever failed, was killed or
\* resumed before and however messages reorder the sidebar; excepted are threads
\* that say their history is incomplete, and runs after one that stopped at
\* its max_threads.
EarlyExitSound ==
    exact /\ run.step = "scan" /\ run.clean = 2 /\ stale = {} /\ ~narrow =>
        \A t \in Below : rows[t].have = Len(chats[t]) \/ ~rows[t].complete
=============================================================================
