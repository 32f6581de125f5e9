---------------------------- MODULE InboxSyncProofs ----------------------------
(***************************************************************************)
(* What a fetch run may leave unopened, for any number of conversations,   *)
(* messages, runs, failures, kills and resumptions.                        *)
(*                                                                         *)
(* Two invariants carry it.  SyncInv is the bookkeeping: messages are      *)
(* numbered in the order they were sent, every card a row or a task keeps  *)
(* shows a message of its own conversation, and a row that claims to be    *)
(* complete lacks nothing from before the day it was last synced.  A card  *)
(* is then compared with what it can be compared with (SkipIsExcused).     *)
(*                                                                         *)
(* FrontierInv follows the threads that hide a message.  The sidebar is in *)
(* the order of the newest messages, so a thread with something new is     *)
(* above every thread whose marker still shows its newest message; when    *)
(* the last run got through, that is so for all of them (Settled), and a   *)
(* scan that is allowed to end early keeps it for what it has not seen     *)
(* (ScanAllowed).  Whatever a run does not get to keeps its place: it is   *)
(* below, or among the tasks, or on top again (ScanLeaves, DrainLeaves,    *)
(* JournalLeaves).  Thread 1, whose marker may be older than exact times,  *)
(* can only ever make one clean card too many, and two are needed.         *)
(***************************************************************************)
EXTENDS InboxSync, SequenceTheorems, FiniteSetTheorems, TLAPS

Wordings == {"hello"} \cup {said.text : said \in Utterances}
SentMessages == [n : Nat, day : Nat, minute : Nat, side : {"Customer", "Page"}, text : Wordings]
Cards == [utime : Nat, day : Nat, minute : Nat, preview : Wordings]
Tasks == [thread : SyncThreads, card : Cards]

RunRecords == [step : {"off", "scan", "drain"}, limit : Nat, allow : BOOLEAN, clean : Nat,
               cursor : Nat, seen : SUBSET SyncThreads, tasks : SUBSET Tasks,
               errors : SUBSET Tasks, stuck : BOOLEAN]

Shapes ==
    /\ chats \in [SyncThreads -> Seq(SentMessages) \ {<<>>}]
    /\ clock \in [n : Nat, day : Nat, minute : Nat]
    /\ rows \in [SyncThreads -> [have : Nat, complete : BOOLEAN, synced : Nat, card : Cards]]
    /\ run \in RunRecords
    /\ journal \in SUBSET Tasks
    /\ stale \in SUBSET SyncThreads

-----------------------------------------------------------------------------

\* Messages are numbered through all conversations in the order they were sent.
Numbered ==
    /\ \A t \in SyncThreads : \A k \in DOMAIN chats[t] :
           chats[t][k].n \in 1 .. clock.n /\ chats[t][k].day <= clock.day
    /\ \A t \in SyncThreads : \A j, k \in DOMAIN chats[t] : j < k => chats[t][j].n < chats[t][k].n
    /\ \A t, u \in SyncThreads : t # u => Newest(t).n # Newest(u).n

\* A card shows a message of its conversation.
Shows(card, t) == \E k \in DOMAIN chats[t] : /\ card.utime \in {Unknown, chats[t][k].n}
                                            /\ card.day = chats[t][k].day
                                            /\ card.preview = chats[t][k].text

AllTasks == run.tasks \cup run.errors \cup journal

Genuine ==
    /\ \A t \in SyncThreads : rows[t].have <= Len(chats[t])
    /\ \A t \in SyncThreads : Shows(rows[t].card, t)
    /\ \A task \in AllTasks : Shows(task.card, task.thread)

\* Stored up to its last sync.
UpToSync == \A t \in SyncThreads :
    Synced(t) => /\ rows[t].card.day <= rows[t].synced
                 /\ rows[t].synced <= clock.day
                 /\ rows[t].complete /\ t \notin stale =>
                      \A k \in rows[t].have + 1 .. Len(chats[t]) :
                          chats[t][k].day >= rows[t].synced

SyncInv == Shapes /\ Numbered /\ Genuine /\ UpToSync

\* Conversations are numbered.
LEMMA SyncThreadsNat == SyncThreads \subseteq Nat \ {0} /\ NumThreads \in Nat
  BY SyncAssumption DEF SyncThreads

\* A conversation has a newest message.
LEMMA NewestIs ==
    ASSUME Shapes, NEW t \in SyncThreads
    PROVE  /\ Len(chats[t]) \in Nat \ {0}
           /\ DOMAIN chats[t] = 1 .. Len(chats[t])
           /\ Len(chats[t]) \in DOMAIN chats[t]
           /\ Newest(t) = chats[t][Len(chats[t])]
           /\ Newest(t) \in SentMessages
           /\ \A k \in DOMAIN chats[t] : chats[t][k] \in SentMessages
  <1>1. chats[t] \in Seq(SentMessages) /\ chats[t] # <<>>
    BY DEF Shapes
  <1>2. Len(chats[t]) \in Nat /\ DOMAIN chats[t] = 1 .. Len(chats[t]) /\ Len(chats[t]) # 0
    BY <1>1
  <1> QED
    BY <1>1, <1>2 DEF Newest

\* The card of the newest message.
LEMMA CardOfNewest ==
    ASSUME SyncInv, NEW t \in SyncThreads
    PROVE  LET card == Card(Newest(t), exact)
           IN  /\ card \in Cards /\ Shows(card, t)
               /\ card.day = Newest(t).day /\ card.preview = Newest(t).text
               /\ card.utime = IF exact THEN Newest(t).n ELSE Unknown
               /\ Newest(t).n \in Nat \ {0}
               /\ Newest(t).n <= clock.n /\ Newest(t).day <= clock.day
  <1> DEFINE card == Card(Newest(t), exact)
  <1>1. Newest(t) \in SentMessages /\ Len(chats[t]) \in DOMAIN chats[t]
        /\ Newest(t) = chats[t][Len(chats[t])]
    BY NewestIs DEF SyncInv
  <1>2. /\ Newest(t).n \in Nat /\ Newest(t).day \in Nat /\ Newest(t).minute \in Nat
        /\ Newest(t).text \in Wordings
    BY <1>1 DEF SentMessages
  <1>3. card = [utime |-> IF exact THEN Newest(t).n ELSE Unknown, day |-> Newest(t).day,
                minute |-> IF Newest(t).day = clock.day THEN Newest(t).minute ELSE Unknown,
                preview |-> Newest(t).text]
    BY DEF Card
  <1>4. Unknown \in Nat
    BY DEF Unknown
  <1>5. card \in Cards
    BY <1>2, <1>3, <1>4 DEF Cards
  <1>6. Newest(t).n \in 1 .. clock.n /\ Newest(t).day <= clock.day /\ clock.n \in Nat
    BY <1>1 DEF SyncInv, Numbered, Shapes
  <1>7. Shows(card, t)
    BY <1>1, <1>3 DEF Shows
  <1> QED
    BY <1>2, <1>3, <1>5, <1>6, <1>7

\* No run at all.
LEMMA OffRecord == Off \in RunRecords /\ Off.tasks = {} /\ Off.errors = {} /\ Off.seen = {}
  BY DEF Off, RunRecords

\* A step of the run's own bookkeeping: no row, no message, no new card.
LEMMA BookkeepingInv ==
    ASSUME SyncInv, UNCHANGED <<chats, clock, rows, stale>>, run' \in RunRecords,
           journal' \in SUBSET Tasks, AllTasks' \subseteq AllTasks
    PROVE  SyncInv'
  <1>1. Shapes'
    BY DEF SyncInv, Shapes
  <1>2. Numbered'
    BY DEF SyncInv, Numbered, Newest
  <1>3. Genuine'
    BY DEF SyncInv, Genuine, Shows
  <1>4. UpToSync'
    BY DEF SyncInv, UpToSync, Synced
  <1> QED
    BY <1>1, <1>2, <1>3, <1>4 DEF SyncInv

Bookkeeping == \/ \E limit \in Limits : StartRun(limit)
               \/ CacheHit \/ ScanEnds \/ Complete \/ Stops \/ ResumeRun
               \/ \E task \in run.tasks : FailTask(task)

\* The steps of that kind: a run starts, ends, stops, resumes, or a task fails.
LEMMA BookkeepingSteps ==
    ASSUME SyncInv, Bookkeeping
    PROVE  SyncInv'
  <1>1. /\ run \in RunRecords /\ journal \in SUBSET Tasks
        /\ run.tasks \in SUBSET Tasks /\ run.errors \in SUBSET Tasks
        /\ clock.n \in Nat
    BY DEF SyncInv, Shapes, RunRecords
  <1>2. ASSUME NEW limit \in Limits, StartRun(limit) PROVE SyncInv'
    <2>1. run' = [Off EXCEPT !.step = "scan", !.limit = limit,
                             !.allow = ~PreviousIncomplete, !.cursor = clock.n + 1]
      BY <1>2 DEF StartRun
    <2>2. limit \in Nat /\ clock.n + 1 \in Nat
      BY <1>1, SyncAssumption
    <2>3. (~PreviousIncomplete) \in BOOLEAN
      BY Zenon
    <2>4. run' \in RunRecords /\ run'.tasks = {} /\ run'.errors = {}
      <3> DEFINE allow == ~PreviousIncomplete
      <3>1. run' = [Off EXCEPT !.step = "scan", !.limit = limit, !.allow = allow,
                               !.cursor = clock.n + 1]
        BY <2>1
      <3>2. allow \in BOOLEAN
        BY <2>3
      <3> HIDE DEF allow
      <3> QED
        BY <2>2, <3>1, <3>2, OffRecord DEF RunRecords
    <2> QED
      BY <1>1, <1>2, <2>4, BookkeepingInv DEF StartRun, AllTasks
  <1>3. CASE CacheHit \/ Complete \/ Stops
    <2>1. run' = Off /\ UNCHANGED <<chats, clock, rows, stale>>
      BY <1>3 DEF CacheHit, Complete, Stops
    <2>2. journal' \subseteq AllTasks /\ journal' \in SUBSET Tasks
      BY <1>1, <1>3 DEF CacheHit, Complete, Stops, AllTasks
    <2> QED
      BY <2>1, <2>2, OffRecord, BookkeepingInv DEF AllTasks
  <1>4. CASE ScanEnds
    <2>1. PICK stuck \in BOOLEAN : run' = [run EXCEPT !.step = "drain", !.stuck = stuck]
      <3>1. run' = [run EXCEPT !.step = "drain"] => run' = [run EXCEPT !.step = "drain", !.stuck = run.stuck]
        BY <1>1 DEF RunRecords
      <3>2. run.stuck \in BOOLEAN
        BY <1>1 DEF RunRecords
      <3> QED
        BY <1>4, <3>1, <3>2 DEF ScanEnds
    <2>2. run' \in RunRecords /\ run'.tasks = run.tasks /\ run'.errors = run.errors
      BY <1>1, <2>1 DEF RunRecords
    <2> QED
      BY <1>1, <1>4, <2>2, BookkeepingInv DEF ScanEnds, AllTasks
  <1>5. CASE ResumeRun
    <2>1. run' \in RunRecords /\ run'.tasks = journal /\ run'.errors = {}
      BY <1>1, <1>5, OffRecord DEF ResumeRun, RunRecords
    <2> QED
      BY <1>1, <1>5, <2>1, BookkeepingInv DEF ResumeRun, AllTasks
  <1>6. ASSUME NEW task \in run.tasks, FailTask(task) PROVE SyncInv'
    <2>1. /\ run' \in RunRecords /\ run'.tasks = run.tasks \ {task}
          /\ run'.errors = run.errors \cup {task}
      BY <1>1, <1>6 DEF FailTask, RunRecords
    <2> QED
      BY <1>1, <1>6, <2>1, BookkeepingInv DEF FailTask, AllTasks
  <1> QED
    BY <1>2, <1>3, <1>4, <1>5, <1>6 DEF Bookkeeping

\* What a step that reads or writes one row leaves of the others.
LEMMA RowsOf ==
    ASSUME Shapes, NEW t \in SyncThreads, NEW row, rows' = [rows EXCEPT ![t] = row]
    PROVE  rows'[t] = row /\ \A u \in SyncThreads \ {t} : rows'[u] = rows[u]
  BY DEF Shapes

\* What Stage 1 writes into the run when it takes a card.
LEMMA ScanRecord ==
    ASSUME run \in RunRecords, NEW t \in SyncThreads, NEW n \in Nat,
           NEW tasks \in SUBSET Tasks, NEW clean \in Nat,
           run' = [run EXCEPT !.seen = @ \cup {t}, !.cursor = n, !.clean = clean,
                              !.tasks = tasks]
    PROVE  /\ run' \in RunRecords
           /\ run'.seen = run.seen \cup {t} /\ run'.cursor = n /\ run'.clean = clean
           /\ run'.tasks = tasks
           /\ UNCHANGED <<run.step, run.limit, run.allow, run.errors, run.stuck>>
  BY DEF RunRecords

\* Stage 1 skips a card.
LEMMA SkipFields ==
    ASSUME SyncInv, NEW t \in SyncThreads, NEW card, SkipCard(t, card)
    PROVE  /\ run' \in RunRecords
           /\ run'.seen = run.seen \cup {t} /\ run'.cursor = Newest(t).n
           /\ run.allow => run'.clean = run.clean + 1
           /\ ~run.allow => run'.clean = run.clean
           /\ UNCHANGED <<run.step, run.limit, run.allow, run.tasks, run.errors, run.stuck>>
  <1>1. run \in RunRecords /\ run.clean \in Nat /\ run.tasks \in SUBSET Tasks
    BY DEF SyncInv, Shapes, RunRecords
  <1>2. Newest(t).n \in Nat
    BY CardOfNewest
  <1>3. PICK clean \in Nat : clean = IF run.allow THEN run.clean + 1 ELSE run.clean
    BY <1>1
  <1>4. run' = [run EXCEPT !.seen = @ \cup {t}, !.cursor = Newest(t).n, !.clean = clean,
                           !.tasks = run.tasks]
    BY <1>1, <1>3 DEF SkipCard, RunRecords
  <1>5. (run.allow => clean = run.clean + 1) /\ (~run.allow => clean = run.clean)
    BY <1>3
  <1>6. /\ run' \in RunRecords
        /\ run'.seen = run.seen \cup {t} /\ run'.cursor = Newest(t).n /\ run'.clean = clean
        /\ UNCHANGED <<run.step, run.limit, run.allow, run.tasks, run.errors, run.stuck>>
    BY <1>1, <1>2, <1>4, ScanRecord, ZenonT(40)
  <1> QED
    BY <1>5, <1>6

\* Stage 1 passes a card on.
LEMMA PassFields ==
    ASSUME SyncInv, NEW t \in SyncThreads, NEW card \in Cards, PassOn(t, card)
    PROVE  /\ run' \in RunRecords
           /\ run'.seen = run.seen \cup {t} /\ run'.cursor = Newest(t).n /\ run'.clean = 0
           /\ run'.tasks = run.tasks \cup {[thread |-> t, card |-> card]}
           /\ UNCHANGED <<run.step, run.limit, run.allow, run.errors, run.stuck>>
  <1>1. run \in RunRecords /\ run.tasks \in SUBSET Tasks
    BY DEF SyncInv, Shapes, RunRecords
  <1>2. Newest(t).n \in Nat
    BY CardOfNewest
  <1>3. run.tasks \cup {[thread |-> t, card |-> card]} \in SUBSET Tasks
    BY <1>1 DEF Tasks
  <1>4. run' = [run EXCEPT !.seen = @ \cup {t}, !.cursor = Newest(t).n, !.clean = 0,
                           !.tasks = run.tasks \cup {[thread |-> t, card |-> card]}]
    BY <1>1 DEF PassOn, RunRecords
  <1> QED
    BY <1>1, <1>2, <1>3, <1>4, ScanRecord

\* A skipped card refreshes the marker; a thread it wrongs is stale from then on.
LEMMA SkipInv ==
    ASSUME SyncInv, NEW t \in SyncThreads, SkipCard(t, Card(Newest(t), exact)),
           UNCHANGED <<chats, clock, journal>>
    PROVE  SyncInv'
  <1> DEFINE card == Card(Newest(t), exact)
             row == [rows[t] EXCEPT !.card = card, !.synced = clock.day]
  <1>1. card \in Cards /\ Shows(card, t) /\ card.day <= clock.day
    BY CardOfNewest
  <1>2. rows' = [rows EXCEPT ![t] = row]
    BY DEF SkipCard
  <1>3. rows[t] \in [have : Nat, complete : BOOLEAN, synced : Nat, card : Cards]
        /\ clock.day \in Nat
    BY DEF SyncInv, Shapes
  <1>4. /\ row \in [have : Nat, complete : BOOLEAN, synced : Nat, card : Cards]
        /\ row.have = rows[t].have /\ row.synced = clock.day /\ row.card = card
        /\ row.complete = rows[t].complete
    BY <1>1, <1>3
  <1>5. rows'[t] = row /\ \A u \in SyncThreads \ {t} : rows'[u] = rows[u]
    <2> HIDE DEF row
    <2> QED
      BY <1>2, RowsOf DEF SyncInv
  <1>6. run' \in RunRecords /\ UNCHANGED <<run.tasks, run.errors>>
    BY SkipFields
  <1>7. /\ stale' \in SUBSET SyncThreads /\ stale \subseteq stale'
        /\ rows[t].have < Len(chats[t]) => t \in stale'
    BY DEF SkipCard, SyncInv, Shapes
  <1> HIDE DEF row, card
  <1>8. Shapes'
    <2>1. rows' \in [SyncThreads -> [have : Nat, complete : BOOLEAN, synced : Nat, card : Cards]]
      BY <1>2, <1>4 DEF SyncInv, Shapes
    <2> QED
      BY <2>1, <1>6, <1>7 DEF SyncInv, Shapes
  <1>9. Numbered'
    BY DEF SyncInv, Numbered, Newest
  <1>10. Genuine'
    <2>1. \A u \in SyncThreads : rows'[u].have = rows[u].have
      BY <1>4, <1>5
    <2>2. \A u \in SyncThreads : Shows(rows'[u].card, u)
      BY <1>1, <1>4, <1>5 DEF SyncInv, Genuine
    <2> QED
      BY <1>6, <2>1, <2>2 DEF SyncInv, Genuine, Shows, AllTasks
  <1>11. UpToSync'
    <2> SUFFICES ASSUME NEW u \in SyncThreads, Synced(u)'
                 PROVE  /\ rows'[u].card.day <= rows'[u].synced
                        /\ rows'[u].synced <= clock.day
                        /\ rows'[u].complete /\ u \notin stale' =>
                             \A k \in rows'[u].have + 1 .. Len(chats[u]) :
                                 chats[u][k].day >= rows'[u].synced
      BY DEF UpToSync
    <2>1. CASE u = t
      <3>1. Len(chats[t]) \in Nat
        BY NewestIs DEF SyncInv
      <3>2. t \notin stale' => rows'[t].have + 1 .. Len(chats[t]) = {}
        BY <1>3, <1>4, <1>5, <1>7, <3>1
      <3> QED
        BY <2>1, <1>1, <1>3, <1>4, <1>5, <3>2
    <2>2. CASE u # t
      BY <2>2, <1>5, <1>7 DEF SyncInv, UpToSync, Synced
    <2> QED
      BY <2>1, <2>2
  <1> QED
    BY <1>8, <1>9, <1>10, <1>11 DEF SyncInv

\* A card passed on is of the thread it is passed on with.
LEMMA PassInv ==
    ASSUME SyncInv, NEW t \in SyncThreads, PassOn(t, Card(Newest(t), exact)),
           UNCHANGED <<chats, clock, journal>>
    PROVE  SyncInv'
  <1> DEFINE card == Card(Newest(t), exact)
  <1>1. card \in Cards /\ Shows(card, t)
    BY CardOfNewest
  <1> HIDE DEF card
  <1>2. /\ run' \in RunRecords /\ run'.errors = run.errors
        /\ run'.tasks = run.tasks \cup {[thread |-> t, card |-> card]}
    BY <1>1, PassFields DEF card
  <1>3. UNCHANGED <<rows, stale>>
    BY DEF PassOn
  <1>4. Shapes'
    BY <1>2, <1>3 DEF SyncInv, Shapes
  <1>5. Numbered'
    BY DEF SyncInv, Numbered, Newest
  <1>6. Genuine'
    <2>1. \A task \in AllTasks' : Shows(task.card, task.thread)
      BY <1>1, <1>2 DEF SyncInv, Genuine, AllTasks
    <2> QED
      BY <1>3, <2>1 DEF SyncInv, Genuine, Shows
  <1>7. UpToSync'
    BY <1>3 DEF SyncInv, UpToSync, Synced
  <1> QED
    BY <1>4, <1>5, <1>6, <1>7 DEF SyncInv

\* Stage 2 stores a thread.
LEMMA FetchFields ==
    ASSUME SyncInv, NEW task \in run.tasks, FetchTask(task)
    PROVE  LET t == task.thread
           IN  /\ t \in SyncThreads /\ task.card \in Cards /\ Shows(task.card, t)
               /\ rows'[t].have \in Nat /\ rows'[t].have <= Len(chats[t]) /\ rows'[t].have > 0
               /\ rows'[t].complete \in BOOLEAN /\ rows'[t].card = task.card
               /\ rows'[t].complete => rows'[t].have = Len(chats[t])
               /\ rows'[t].synced = clock.day
               /\ \A u \in SyncThreads \ {t} : rows'[u] = rows[u]
               /\ rows' \in [SyncThreads ->
                               [have : Nat, complete : BOOLEAN, synced : Nat, card : Cards]]
               /\ run' \in RunRecords /\ run'.tasks = run.tasks \ {task}
               /\ UNCHANGED <<run.step, run.limit, run.allow, run.clean, run.cursor, run.seen,
                              run.errors, run.stuck>>
               /\ stale' = stale \ {t}
  <1> DEFINE t == task.thread
  <1>1. run \in RunRecords /\ task \in Tasks
    BY DEF SyncInv, Shapes, RunRecords
  <1>2. t \in SyncThreads /\ task.card \in Cards
    BY <1>1 DEF Tasks
  <1>3. Shows(task.card, t)
    BY DEF SyncInv, Genuine, AllTasks
  <1>4. PICK have \in rows[t].have .. Len(chats[t]) :
            /\ have > 0
            /\ rows' = [rows EXCEPT ![t] = [have |-> have, complete |-> have = Len(chats[t]),
                                           synced |-> clock.day, card |-> task.card]]
    BY DEF FetchTask
  <1>5. PICK complete \in BOOLEAN : complete <=> have = Len(chats[t])
    BY Zenon
  <1>6. (have = Len(chats[t])) = complete
    BY <1>5, Zenon
  <1> DEFINE row == [have |-> have, complete |-> complete, synced |-> clock.day,
                     card |-> task.card]
  <1>7. rows' = [rows EXCEPT ![t] = row]
    BY <1>4, <1>6
  <1>8. rows[t].have \in Nat /\ Len(chats[t]) \in Nat /\ clock.day \in Nat
    BY <1>2, NewestIs DEF SyncInv, Shapes
  <1>9. have \in Nat /\ have <= Len(chats[t])
    BY <1>8
  <1>10. row \in [have : Nat, complete : BOOLEAN, synced : Nat, card : Cards]
    BY <1>2, <1>8, <1>9
  <1>11. rows'[t] = row /\ \A u \in SyncThreads \ {t} : rows'[u] = rows[u]
    <2> HIDE DEF row, t
    <2> QED
      BY <1>2, <1>7, RowsOf DEF SyncInv
  <1>12. rows' \in [SyncThreads -> [have : Nat, complete : BOOLEAN, synced : Nat, card : Cards]]
    BY <1>7, <1>10 DEF SyncInv, Shapes
  <1>13. run' = [run EXCEPT !.tasks = @ \ {task}] /\ stale' = stale \ {t}
    BY DEF FetchTask
  <1>14. /\ run' \in RunRecords /\ run'.tasks = run.tasks \ {task}
         /\ UNCHANGED <<run.step, run.limit, run.allow, run.clean, run.cursor, run.seen,
                        run.errors, run.stuck>>
    BY <1>1, <1>13 DEF RunRecords
  <1> QED
    BY <1>2, <1>3, <1>4, <1>5, <1>9, <1>11, <1>12, <1>13, <1>14

\* A stored thread is complete, or says that it is not.
LEMMA FetchTaskInv ==
    ASSUME SyncInv, NEW task \in run.tasks, FetchTask(task)
    PROVE  SyncInv'
  <1> DEFINE t == task.thread
  <1>0. UNCHANGED <<chats, clock, journal>>
    BY DEF FetchTask
  <1>1. Shapes'
    BY <1>0, FetchFields DEF SyncInv, Shapes
  <1>2. Numbered'
    BY <1>0 DEF SyncInv, Numbered, Newest
  <1>3. Genuine'
    <2>1. \A u \in SyncThreads : rows'[u].have <= Len(chats[u])
      BY FetchFields DEF SyncInv, Genuine
    <2>2. \A u \in SyncThreads : Shows(rows'[u].card, u)
      BY FetchFields DEF SyncInv, Genuine
    <2>3. AllTasks' \subseteq AllTasks
      BY <1>0, FetchFields DEF AllTasks
    <2> QED
      BY <1>0, <2>1, <2>2, <2>3 DEF SyncInv, Genuine, Shows
  <1>4. UpToSync'
    <2> SUFFICES ASSUME NEW u \in SyncThreads, Synced(u)'
                 PROVE  /\ rows'[u].card.day <= rows'[u].synced
                        /\ rows'[u].synced <= clock.day
                        /\ rows'[u].complete /\ u \notin stale' =>
                             \A k \in rows'[u].have + 1 .. Len(chats[u]) :
                                 chats[u][k].day >= rows'[u].synced
      BY <1>0 DEF UpToSync
    <2>1. CASE u = t
      <3>1. task.card.day <= clock.day
        BY FetchFields DEF SyncInv, Numbered, Shows
      <3>2. Len(chats[t]) \in Nat /\ clock.day \in Nat
        BY FetchFields, NewestIs DEF SyncInv, Shapes
      <3>3. rows'[t].complete => rows'[t].have + 1 .. Len(chats[t]) = {}
        BY <3>2, FetchFields
      <3> QED
        BY <2>1, <3>1, <3>2, <3>3, FetchFields
    <2>2. CASE u # t
      <3>1. rows'[u] = rows[u] /\ (u \notin stale' => u \notin stale)
        BY <2>2, FetchFields
      <3> QED
        BY <3>1 DEF SyncInv, UpToSync, Synced
    <2> QED
      BY <2>1, <2>2
  <1> QED
    BY <1>1, <1>2, <1>3, <1>4 DEF SyncInv

\* A message arrives.
LEMMA ArriveFields ==
    ASSUME SyncInv, NEW t \in SyncThreads, NEW said \in Utterances, NEW later \in BOOLEAN,
           Arrive(t, said, later)
    PROVE  /\ clock' \in [n : Nat, day : Nat, minute : Nat]
           /\ clock'.n = clock.n + 1 /\ clock'.day = clock.day
           /\ chats' \in [SyncThreads -> Seq(SentMessages) \ {<<>>}]
           /\ \A u \in SyncThreads \ {t} : chats'[u] = chats[u]
           /\ Len(chats'[t]) = Len(chats[t]) + 1
           /\ \A k \in DOMAIN chats[t] : k \in DOMAIN chats'[t] /\ chats'[t][k] = chats[t][k]
           /\ DOMAIN chats'[t] = DOMAIN chats[t] \cup {Len(chats[t]) + 1}
           /\ chats'[t][Len(chats[t]) + 1].n = clock.n + 1
           /\ chats'[t][Len(chats[t]) + 1].day = clock.day
           /\ UNCHANGED <<exact, rows, marked, touched, run, journal, runs, stale, narrow>>
  <1> DEFINE minute == IF later THEN clock.minute + 1 ELSE clock.minute
             message == [n |-> clock'.n, day |-> clock.day, minute |-> clock'.minute,
                         side |-> said.side, text |-> said.text]
  <1>1. clock \in [n : Nat, day : Nat, minute : Nat] /\ chats \in [SyncThreads -> Seq(SentMessages) \ {<<>>}]
    BY DEF SyncInv, Shapes
  <1>2. minute \in Nat
    BY <1>1
  <1>3. clock' = [clock EXCEPT !.n = @ + 1, !.minute = minute]
    BY DEF Arrive
  <1> HIDE DEF minute
  <1>4. /\ clock' \in [n : Nat, day : Nat, minute : Nat]
        /\ clock'.n = clock.n + 1 /\ clock'.day = clock.day
    <2>1. clock' = [n |-> clock.n + 1, day |-> clock.day, minute |-> minute]
      BY <1>1, <1>3
    <2>2. clock.n \in Nat /\ clock.day \in Nat
      BY <1>1
    <2> QED
      BY <1>2, <2>1, <2>2
  <1>5. message \in SentMessages /\ message.n = clock.n + 1 /\ message.day = clock.day
    BY <1>1, <1>4, SyncAssumption DEF SentMessages, Wordings
  <1>6. chats' = [chats EXCEPT ![t] = Append(@, message)]
    BY DEF Arrive
  <1> HIDE DEF message
  <1>7. chats[t] \in Seq(SentMessages)
    BY <1>1
  <1>8. chats'[t] = Append(chats[t], message) /\ \A u \in SyncThreads \ {t} : chats'[u] = chats[u]
    BY <1>1, <1>6
  <1>9. /\ Append(chats[t], message) \in Seq(SentMessages) \ {<<>>}
        /\ Len(Append(chats[t], message)) = Len(chats[t]) + 1
        /\ DOMAIN Append(chats[t], message) = DOMAIN chats[t] \cup {Len(chats[t]) + 1}
        /\ \A k \in DOMAIN chats[t] : Append(chats[t], message)[k] = chats[t][k]
        /\ Append(chats[t], message)[Len(chats[t]) + 1] = message
    BY <1>5, <1>7
  <1>10. chats' \in [SyncThreads -> Seq(SentMessages) \ {<<>>}]
    BY <1>1, <1>6, <1>9
  <1>11. UNCHANGED <<exact, rows, marked, touched, run, journal, runs, stale, narrow>>
    BY DEF Arrive
  <1> QED
    BY <1>4, <1>5, <1>8, <1>9, <1>10, <1>11

\* A message is the newest of all, and not from before today.
LEMMA ArriveInv ==
    ASSUME SyncInv, NEW t \in SyncThreads, NEW said \in Utterances, NEW later \in BOOLEAN,
           Arrive(t, said, later)
    PROVE  SyncInv'
  <1> DEFINE last == Len(chats[t]) + 1
  <1>0. UNCHANGED <<exact, rows, marked, touched, run, journal, runs, stale, narrow>>
    BY ArriveFields
  <1>1. Shapes' /\ clock.n \in Nat /\ clock.day \in Nat
    BY <1>0, ArriveFields DEF SyncInv, Shapes
  <1>2. \A u \in SyncThreads : /\ Len(chats[u]) \in Nat \ {0} /\ DOMAIN chats[u] = 1 .. Len(chats[u])
                               /\ Newest(u) \in SentMessages /\ Newest(u).n \in 1 .. clock.n
                               /\ \A k \in DOMAIN chats[u] : chats[u][k] \in SentMessages
    <2> TAKE u \in SyncThreads
    <2>1. Newest(u).n \in 1 .. clock.n
      BY NewestIs DEF SyncInv, Numbered
    <2> QED
      BY <2>1, NewestIs DEF SyncInv
  <1>3. Newest(t)'.n = clock.n + 1 /\ \A u \in SyncThreads \ {t} : Newest(u)' = Newest(u)
    BY ArriveFields DEF Newest
  <1>4. Numbered'
    <2>1. \A u \in SyncThreads : \A k \in DOMAIN chats'[u] :
              chats'[u][k].n \in 1 .. clock'.n /\ chats'[u][k].day <= clock'.day
      <3> TAKE u \in SyncThreads
      <3>1. \A k \in DOMAIN chats[u] : chats[u][k].n \in 1 .. clock.n /\ chats[u][k].day <= clock.day
        BY DEF SyncInv, Numbered
      <3>2. CASE u = t
        BY <3>1, <3>2, <1>1, ArriveFields
      <3>3. CASE u # t
        BY <3>1, <3>3, <1>1, ArriveFields
      <3> QED
        BY <3>2, <3>3
    <2>2. \A u \in SyncThreads : \A j, k \in DOMAIN chats'[u] :
              j < k => chats'[u][j].n < chats'[u][k].n
      <3> TAKE u \in SyncThreads
      <3>1. \A j, k \in DOMAIN chats[u] : j < k => chats[u][j].n < chats[u][k].n
        BY DEF SyncInv, Numbered
      <3>2. CASE u = t
        <4> SUFFICES ASSUME NEW j \in DOMAIN chats'[t], NEW k \in DOMAIN chats'[t], j < k
                     PROVE  chats'[t][j].n < chats'[t][k].n
          BY <3>2
        <4>1. \A i \in DOMAIN chats[t] : chats[t][i].n \in 1 .. clock.n /\ i \in 1 .. Len(chats[t])
          BY <1>2 DEF SyncInv, Numbered
        <4>2. DOMAIN chats'[t] = DOMAIN chats[t] \cup {last}
          BY ArriveFields
        <4>3. j \in DOMAIN chats[t]
          BY <4>1, <4>2, <1>2
        <4>4. chats'[t][j] = chats[t][j]
          BY <4>3, ArriveFields
        <4>5. CASE k = last
          <5>1. chats'[t][k].n = clock.n + 1
            BY <4>5, ArriveFields
          <5>2. chats[t][j].n \in 1 .. clock.n
            BY <4>1, <4>3
          <5> QED
            BY <4>4, <5>1, <5>2, <1>1
        <4>6. CASE k # last
          <5>1. k \in DOMAIN chats[t]
            BY <4>2, <4>6
          <5>2. chats'[t][k] = chats[t][k]
            BY <5>1, ArriveFields
          <5>3. chats[t][j].n < chats[t][k].n
            BY <3>1, <3>2, <4>3, <5>1
          <5> QED
            BY <4>4, <5>2, <5>3
        <4> QED
          BY <4>5, <4>6
      <3>3. CASE u # t
        BY <3>1, <3>3, ArriveFields
      <3> QED
        BY <3>2, <3>3
    <2>3. \A u, w \in SyncThreads : u # w => Newest(u)'.n # Newest(w)'.n
      <3>1. \A u, w \in SyncThreads : u # w => Newest(u).n # Newest(w).n
        BY DEF SyncInv, Numbered
      <3> QED
        BY <3>1, <1>1, <1>2, <1>3
    <2> QED
      BY <2>1, <2>2, <2>3 DEF Numbered
  <1>5. Genuine'
    <2>2. \A u \in SyncThreads : rows[u].have <= Len(chats'[u])
      <3> TAKE u \in SyncThreads
      <3>1. rows[u].have \in Nat /\ Len(chats[u]) \in Nat /\ rows[u].have <= Len(chats[u])
        BY <1>2 DEF SyncInv, Genuine, Shapes
      <3>2. Len(chats'[u]) = Len(chats[u]) \/ Len(chats'[u]) = Len(chats[u]) + 1
        BY ArriveFields
      <3> QED
        BY <3>1, <3>2
    <2>3. \A u \in SyncThreads : Shows(rows[u].card, u)'
      <3> TAKE u \in SyncThreads
      <3>1. Shows(rows[u].card, u)
        BY DEF SyncInv, Genuine
      <3>2. \A k \in DOMAIN chats[u] : k \in DOMAIN chats'[u] /\ chats'[u][k] = chats[u][k]
        BY ArriveFields
      <3> QED
        BY <1>0, <3>1, <3>2 DEF Shows
    <2>4. \A task \in AllTasks : Shows(task.card, task.thread)'
      <3> TAKE task \in AllTasks
      <3>1. task.thread \in SyncThreads
        BY DEF SyncInv, Shapes, RunRecords, AllTasks, Tasks
      <3>2. Shows(task.card, task.thread)
        BY DEF SyncInv, Genuine
      <3>3. \A k \in DOMAIN chats[task.thread] :
                k \in DOMAIN chats'[task.thread] /\ chats'[task.thread][k] = chats[task.thread][k]
        BY <3>1, ArriveFields
      <3> QED
        BY <3>2, <3>3 DEF Shows
    <2> QED
      BY <1>0, <2>2, <2>3, <2>4 DEF Genuine, AllTasks, Shows
  <1>6. UpToSync'
    <2> SUFFICES ASSUME NEW u \in SyncThreads, Synced(u)'
                 PROVE  /\ rows[u].card.day <= rows[u].synced
                        /\ rows[u].synced <= clock'.day
                        /\ rows[u].complete /\ u \notin stale =>
                             \A k \in rows[u].have + 1 .. Len(chats'[u]) :
                                 chats'[u][k].day >= rows[u].synced
      BY <1>0 DEF UpToSync
    <2>1. /\ rows[u].card.day <= rows[u].synced
          /\ rows[u].synced <= clock.day
          /\ rows[u].complete /\ u \notin stale =>
               \A k \in rows[u].have + 1 .. Len(chats[u]) : chats[u][k].day >= rows[u].synced
          /\ rows[u].have \in Nat
      BY <1>0 DEF SyncInv, UpToSync, Synced, Shapes
    <2>2. CASE u = t
      <3>1. \A k \in rows[t].have + 1 .. Len(chats'[t]) :
                \/ k \in rows[t].have + 1 .. Len(chats[t]) /\ k \in DOMAIN chats[t]
                \/ k = last
        BY <1>2, <2>1, <2>2, ArriveFields
      <3>2. rows[t].synced \in Nat
        BY DEF SyncInv, Shapes
      <3>3. ASSUME rows[t].complete, t \notin stale,
                   NEW k \in rows[t].have + 1 .. Len(chats'[t])
            PROVE  chats'[t][k].day >= rows[t].synced
        <4>1. CASE k = last
          <5>1. chats'[t][k].day = clock.day
            BY <4>1, ArriveFields
          <5> QED
            BY <2>1, <2>2, <3>2, <5>1, <1>1
        <4>2. CASE k # last
          <5>1. chats'[t][k] = chats[t][k] /\ k \in rows[t].have + 1 .. Len(chats[t])
            BY <3>1, <4>2, ArriveFields
          <5> QED
            BY <2>1, <2>2, <3>3, <5>1
        <4> QED
          BY <4>1, <4>2
      <3>4. clock'.day = clock.day
        BY ArriveFields
      <3> QED
        BY <2>1, <2>2, <3>3, <3>4
    <2>3. CASE u # t
      <3>1. clock'.day = clock.day /\ chats'[u] = chats[u]
        BY <2>3, ArriveFields
      <3> QED
        BY <2>1, <3>1
    <2> QED
      BY <2>2, <2>3
  <1> QED
    BY <1>1, <1>4, <1>5, <1>6 DEF SyncInv

\* What was synced by yesterday was synced by today.
LEMMA NextDayInv ==
    ASSUME SyncInv, NextDay
    PROVE  SyncInv'
  <1>0. UNCHANGED <<chats, rows, run, journal, stale>>
    BY DEF NextDay
  <1>1. clock \in [n : Nat, day : Nat, minute : Nat]
    BY DEF SyncInv, Shapes
  <1>2. clock' \in [n : Nat, day : Nat, minute : Nat] /\ clock'.n = clock.n
        /\ clock'.day = clock.day + 1
    <2>1. clock' = [n |-> clock.n, day |-> clock.day + 1, minute |-> 1]
      BY <1>1 DEF NextDay
    <2>2. clock.n \in Nat /\ clock.day \in Nat
      BY <1>1
    <2> QED
      BY <2>1, <2>2
  <1>3. Shapes'
    BY <1>0, <1>2 DEF SyncInv, Shapes
  <1>4. Numbered'
    <2>1. \A t \in SyncThreads : \A k \in DOMAIN chats[t] :
              chats[t][k].n \in 1 .. clock.n /\ chats[t][k].day <= clock'.day
      <3> TAKE t \in SyncThreads
      <3> TAKE k \in DOMAIN chats[t]
      <3>1. chats[t][k] \in SentMessages
        BY NewestIs DEF SyncInv
      <3>2. chats[t][k].day \in Nat
        BY <3>1 DEF SentMessages
      <3> QED
        BY <1>1, <1>2, <3>2 DEF SyncInv, Numbered
    <2> QED
      BY <1>0, <1>2, <2>1 DEF SyncInv, Numbered, Newest
  <1>5. Genuine'
    BY <1>0 DEF SyncInv, Genuine, Shows, AllTasks
  <1>6. UpToSync'
    <2>1. \A t \in SyncThreads : Synced(t) => rows[t].synced <= clock'.day
      BY <1>1, <1>2 DEF SyncInv, UpToSync, Shapes
    <2> QED
      BY <1>0, <2>1 DEF SyncInv, UpToSync, Synced
  <1> QED
    BY <1>3, <1>4, <1>5, <1>6 DEF SyncInv

\* One message in each thread, thread 1 synced.
LEMMA SyncInvStart == SyncInit => SyncInv
  <1> SUFFICES ASSUME SyncInit PROVE SyncInv
    OBVIOUS
  <1> DEFINE hello(t) == [n |-> t, day |-> 1, minute |-> 1, side |-> "Customer", text |-> "hello"]
  <1>1. /\ chats = [t \in SyncThreads |-> <<hello(t)>>]
        /\ clock = [n |-> NumThreads, day |-> 1, minute |-> 1]
        /\ run = Off /\ journal = {} /\ stale = {}
    BY DEF SyncInit
  <1>2. \A t \in SyncThreads : /\ hello(t) \in SentMessages /\ hello(t).n = t /\ hello(t).day = 1
                               /\ hello(t).text = "hello"
    BY SyncThreadsNat DEF SentMessages, Wordings
  <1>3. \A t \in SyncThreads : /\ Len(chats[t]) = 1 /\ DOMAIN chats[t] = {1}
                               /\ chats[t][1] = hello(t) /\ Newest(t) = hello(t)
    BY <1>1 DEF Newest
  <1>4. PICK timed \in BOOLEAN :
            rows = [t \in SyncThreads |->
                      [have |-> IF t = 1 THEN 1 ELSE 0, complete |-> TRUE, synced |-> 1,
                       card |-> Card(chats[t][1], timed)]]
    BY DEF SyncInit
  <1>5. \A t \in SyncThreads : Card(hello(t), timed) =
            [utime |-> IF timed THEN t ELSE 0, day |-> 1, minute |-> 1, preview |-> "hello"]
    BY <1>1 DEF Card, Unknown
  <1>6. \A t \in SyncThreads : /\ Card(hello(t), timed) \in Cards
                               /\ Card(hello(t), timed).utime \in {0, t}
                               /\ Card(hello(t), timed).day = 1
                               /\ Card(hello(t), timed).preview = "hello"
    <2> TAKE t \in SyncThreads
    <2>1. PICK n \in {0, t} : n = IF timed THEN t ELSE 0
      OBVIOUS
    <2>2. Card(hello(t), timed) = [utime |-> n, day |-> 1, minute |-> 1, preview |-> "hello"]
      BY <1>5, <2>1
    <2>3. n \in Nat /\ "hello" \in Wordings
      BY <2>1, SyncThreadsNat DEF Wordings
    <2> HIDE DEF hello
    <2> QED
      BY <2>1, <2>2, <2>3 DEF Cards
  <1> HIDE DEF hello
  <1>7. \A t \in SyncThreads : /\ rows[t].have \in {0, 1} /\ (t = 1 <=> rows[t].have = 1)
                               /\ rows[t].complete = TRUE
                               /\ rows[t].synced = 1 /\ rows[t].card = Card(hello(t), timed)
    BY <1>3, <1>4
  <1>8. Shapes
    <2>1. \A t \in SyncThreads : <<hello(t)>> \in Seq(SentMessages) \ {<<>>}
      BY <1>2
    <2>2. chats \in [SyncThreads -> Seq(SentMessages) \ {<<>>}]
      BY <1>1, <2>1
    <2>3. rows \in [SyncThreads -> [have : Nat, complete : BOOLEAN, synced : Nat, card : Cards]]
      BY <1>3, <1>4, <1>6
    <2>4. clock \in [n : Nat, day : Nat, minute : Nat]
      BY <1>1, SyncThreadsNat
    <2> QED
      BY <1>1, <2>2, <2>3, <2>4, OffRecord DEF Shapes
  <1>9. Numbered
    <2>1. \A t \in SyncThreads : t \in 1 .. clock.n /\ clock.day = 1
      BY <1>1 DEF SyncThreads
    <2> QED
      BY <1>2, <1>3, <2>1 DEF Numbered
  <1>10. Genuine
    <2>1. AllTasks = {}
      BY <1>1, OffRecord DEF AllTasks
    <2>2. \A t \in SyncThreads : Shows(rows[t].card, t)
      BY <1>2, <1>3, <1>6, <1>7 DEF Shows, Unknown
    <2> QED
      BY <1>3, <1>7, <2>1, <2>2 DEF Genuine
  <1>11. UpToSync
    <2> SUFFICES ASSUME NEW t \in SyncThreads, Synced(t)
                 PROVE  /\ rows[t].card.day <= rows[t].synced
                        /\ rows[t].synced <= clock.day
                        /\ rows[t].have + 1 .. Len(chats[t]) = {}
      BY DEF UpToSync
    <2> QED
      BY <1>1, <1>3, <1>6, <1>7 DEF Synced
  <1> QED
    BY <1>8, <1>9, <1>10, <1>11 DEF SyncInv

\* The bookkeeping is inductive.
LEMMA SyncInvStep == SyncInv /\ [SyncNext]_syncVars => SyncInv'
  <1> SUFFICES ASSUME SyncInv, [SyncNext]_syncVars PROVE SyncInv'
    OBVIOUS
  <1>1. CASE Bookkeeping
    BY <1>1, BookkeepingSteps
  <1>2. CASE ScanCard
    <2>1. PICK t \in SyncThreads : \/ SkipCard(t, Card(Newest(t), exact))
                                  \/ PassOn(t, Card(Newest(t), exact))
      BY <1>2 DEF ScanCard, Below
    <2>2. UNCHANGED <<chats, clock, journal>>
      BY <1>2 DEF ScanCard
    <2> QED
      BY <2>1, <2>2, SkipInv, PassInv
  <1>3. ASSUME NEW task \in run.tasks, FetchTask(task) PROVE SyncInv'
    BY <1>3, FetchTaskInv
  <1>4. ASSUME NEW t \in SyncThreads, NEW said \in Utterances, NEW later \in BOOLEAN,
               Arrive(t, said, later)
        PROVE  SyncInv'
    BY <1>4, ArriveInv
  <1>5. CASE NextDay
    BY <1>5, NextDayInv
  <1>6. CASE UNCHANGED syncVars
    <2>1. UNCHANGED <<chats, clock, rows, stale, run, journal>>
      BY <1>6 DEF syncVars
    <2>2. run \in RunRecords /\ journal \in SUBSET Tasks /\ AllTasks' = AllTasks
      BY <2>1 DEF SyncInv, Shapes, AllTasks
    <2> QED
      BY <2>1, <2>2, BookkeepingInv
  <1> QED
    BY <1>1, <1>2, <1>3, <1>4, <1>5, <1>6 DEF SyncNext, Bookkeeping

-----------------------------------------------------------------------------

\* Messages are numbered in order, cards are genuine and complete rows are up to
\* their last sync, in every state of every sequence of runs.
THEOREM SyncInvariant == SyncSpec => []SyncInv
  <1> QED
    BY SyncInvStart, SyncInvStep, PTL DEF SyncSpec

\* A skipped thread that lacks a message: the times were equal, and then so is
\* the wording; or one of them was not known, and the day or the wording decided.
LEMMA SkippedCard ==
    ASSUME SyncInv, NEW t \in SyncThreads, NEW recent \in BOOLEAN,
           Skips(t, Card(Newest(t), exact), recent),
           rows[t].have < Len(chats[t]), t \notin stale, rows[t].complete
    PROVE  \/ Resembling(t) # {}
           \/ rows[t].card.preview = Newest(t).text
           \/ rows[t].card.utime = Unknown /\ rows[t].synced = Newest(t).day
  <1> DEFINE card == Card(Newest(t), exact)
             then == rows[t].card
             decision == DecideByMarker(t, card, recent)
  <1>1. card.day = Newest(t).day /\ card.preview = Newest(t).text
    BY CardOfNewest
  <1>2. card.utime # Unknown => card.utime = Newest(t).n
    BY CardOfNewest
  <1>3. Synced(t) /\ (decision = "skip" \/ (decision = "undecided" /\ PreviewMatches(t)))
    BY DEF Skips
  <1>4. PICK k \in DOMAIN chats[t] : /\ then.utime \in {Unknown, chats[t][k].n}
                                    /\ then.day = chats[t][k].day
                                    /\ then.preview = chats[t][k].text
    BY DEF SyncInv, Genuine, Shows
  <1>5. /\ Len(chats[t]) \in Nat \ {0} /\ DOMAIN chats[t] = 1 .. Len(chats[t])
        /\ Newest(t) = chats[t][Len(chats[t])]
        /\ \A j \in DOMAIN chats[t] : chats[t][j] \in SentMessages
    BY NewestIs DEF SyncInv
  <1>6. CASE decision = "undecided"
    BY <1>3, <1>6 DEF PreviewMatches
  <1>7. CASE decision = "skip" /\ card.utime # Unknown /\ then.utime # Unknown
    <2>1. card.utime = then.utime
      BY <1>7 DEF DecideByMarker
    <2>2. chats[t][k].n = Newest(t).n
      BY <1>2, <1>4, <1>7, <2>1
    <2>3. \A j \in DOMAIN chats[t] : j < Len(chats[t]) => chats[t][j].n < Newest(t).n
      BY <1>5 DEF SyncInv, Numbered
    <2>4. \A j \in DOMAIN chats[t] : chats[t][j].n \in Nat
      BY <1>5 DEF SentMessages
    <2>5. k = Len(chats[t])
      BY <1>5, <2>2, <2>3, <2>4
    <2> QED
      BY <1>4, <1>5, <2>5
  <1>8. CASE decision = "skip" /\ card.utime # Unknown /\ then.utime = Unknown
    <2>1. card.day = then.day /\ (card.day < clock.day \/ card.preview = then.preview)
      BY <1>8 DEF DecideByMarker
    <2>2. CASE card.preview = then.preview
      BY <1>1, <2>2
    <2>3. CASE card.day < clock.day
      <3>1. /\ then.day <= rows[t].synced
            /\ \A j \in rows[t].have + 1 .. Len(chats[t]) : chats[t][j].day >= rows[t].synced
        BY <1>3 DEF SyncInv, UpToSync
      <3>2. rows[t].have \in Nat /\ rows[t].synced \in Nat
        BY DEF SyncInv, Shapes
      <3>3. Newest(t).day >= rows[t].synced
        BY <1>5, <3>1, <3>2
      <3>4. Newest(t).day \in Nat
        BY <1>5 DEF SentMessages
      <3>5. rows[t].synced = Newest(t).day
        BY <1>1, <2>1, <3>1, <3>2, <3>3, <3>4
      <3> QED
        BY <1>8, <3>5
    <2> QED
      BY <2>1, <2>2, <2>3
  <1>9. CASE decision = "skip" /\ card.utime = Unknown
    BY <1>9 DEF DecideByMarker
  <1> QED
    BY <1>3, <1>6, <1>7, <1>8, <1>9

\* Only a skip can leave a thread behind, and this is when.
LEMMA SkipStep == SyncInv /\ [SyncNext]_syncVars =>
    \A t \in stale' \ stale :
           \/ Resembling(t) # {}
           \/ rows[t].card.preview = Newest(t).text
           \/ rows[t].card.utime = Unknown /\ rows[t].synced = Newest(t).day
           \/ ~rows[t].complete
  <1> SUFFICES ASSUME SyncInv, [SyncNext]_syncVars, NEW t \in stale' \ stale, rows[t].complete
               PROVE  \/ Resembling(t) # {}
                      \/ rows[t].card.preview = Newest(t).text
                      \/ rows[t].card.utime = Unknown /\ rows[t].synced = Newest(t).day
    OBVIOUS
  <1>1. ScanCard
    BY DEF SyncNext, StartRun, CacheHit, ScanEnds, FetchTask, FailTask, Complete, Stops,
           ResumeRun, Arrive, NextDay, syncVars
  <1>2. PICK u \in SyncThreads, recent \in BOOLEAN :
            IF Skips(u, Card(Newest(u), exact), recent) THEN SkipCard(u, Card(Newest(u), exact))
            ELSE PassOn(u, Card(Newest(u), exact))
    BY <1>1 DEF ScanCard, Below
  <1>3. Skips(u, Card(Newest(u), exact), recent) /\ SkipCard(u, Card(Newest(u), exact))
    BY <1>2 DEF PassOn
  <1>4. t = u /\ rows[u].have < Len(chats[u])
    BY <1>3 DEF SkipCard
  <1> QED
    BY <1>3, <1>4, SkippedCard

\* A thread with messages missing is skipped in the excused cases only, for any
\* wording, clock and history of syncs (l3_sync_decision.py:15-18).
THEOREM SkipsExcused == SyncSpec => SkipIsExcused
  <1>1. SyncInv /\ [SyncNext]_syncVars => [\A t \in stale' \ stale :
           \/ Resembling(t) # {}
           \/ rows[t].card.preview = Newest(t).text
           \/ rows[t].card.utime = Unknown /\ rows[t].synced = Newest(t).day
           \/ ~rows[t].complete]_syncVars
    BY SkipStep
  <1> QED
    BY <1>1, SyncInvariant, PTL DEF SyncSpec, SkipIsExcused

-----------------------------------------------------------------------------

\* Once a thread has been synced in a run with exact times its marker has one;
\* thread 1's may date from before.
Timed == \A t \in SyncThreads \ {1} : Synced(t) => rows[t].card.utime # Unknown
TimedTasks == \A task \in AllTasks : task.card.utime # Unknown

\* A thread that lacks messages and neither says so nor was skipped wrongly.
Hidden(t) == rows[t].have < Len(chats[t]) /\ rows[t].complete /\ t \notin stale

\* What a thread's newest message is newer than: the markers of threads, the
\* cards of tasks.
AheadOfRows(t, threads) == \A c \in threads : Synced(c) => Newest(t).n > rows[c].card.utime
AheadOfTasks(t, tasks) == \A task \in tasks : Newest(t).n > task.card.utime
Covers(tasks, t) == \E task \in tasks : task.thread = t

\* A hidden thread is about to be opened, or on top of all the others.
Left(t, tasks) == Covers(tasks, t) \/ (AheadOfRows(t, SyncThreads) /\ AheadOfTasks(t, tasks))

ScanOrder == run.step = "scan" =>
    /\ \A t \in run.seen : Newest(t).n >= run.cursor
    /\ Cardinality(run.seen) <= run.limit
    /\ ~run.allow => run.clean = 0
    /\ run.clean > 0 => run.cursor <= clock.n

TaskShape ==
    /\ run.step = "scan" => \A task \in run.tasks \cup run.errors : task.thread \in run.seen
    /\ run.step = "off" => run.tasks = {}

Settled == ~touched => \A t \in SyncThreads : Hidden(t) => AheadOfRows(t, SyncThreads)

ScanAllowed == run.step = "scan" /\ run.allow =>
    /\ \A t \in SyncThreads : Hidden(t) => AheadOfRows(t, SyncThreads \ run.seen)
    /\ \/ run.clean = 0
       \/ run.clean = 1 /\ 1 \in run.seen
       \/ run.clean \in {1, 2} /\ \A t \in SyncThreads : Hidden(t) => Newest(t).n > run.cursor

ScanLeaves == run.step = "scan" =>
    \A t \in SyncThreads : Hidden(t) => t \in Below \/ Left(t, run.tasks \cup run.errors)

DrainLeaves == run.step = "drain" /\ ~run.stuck =>
    \A t \in SyncThreads : Hidden(t) => Left(t, run.tasks \cup run.errors)

JournalLeaves ==
    \A t \in SyncThreads : Hidden(t) =>
        /\ Covers(journal, t) \/ AheadOfTasks(t, journal)
        /\ run.step = "off" /\ journal # {} => Covers(journal, t) \/ AheadOfRows(t, SyncThreads)

Leaves == Settled /\ ScanAllowed /\ ScanLeaves /\ DrainLeaves /\ JournalLeaves

FrontierInv ==
    /\ ScanOrder /\ TaskShape
    /\ exact => Timed /\ TimedTasks
    /\ exact /\ ~narrow => Leaves

-----------------------------------------------------------------------------

\* SyncInv in numbers.
LEMMA SyncFacts ==
    ASSUME SyncInv
    PROVE  /\ clock.n \in Nat
           /\ \A t \in SyncThreads : Newest(t).n \in Nat /\ 1 <= Newest(t).n /\ Newest(t).n <= clock.n
           /\ \A t, u \in SyncThreads : t # u => Newest(t).n # Newest(u).n
           /\ \A t \in SyncThreads : rows[t].card.utime \in Nat /\ rows[t].card.utime <= clock.n
           /\ \A task \in AllTasks : /\ task.thread \in SyncThreads
                                     /\ task.card.utime \in Nat /\ task.card.utime <= clock.n
           /\ \A t \in SyncThreads : /\ rows[t].have \in Nat /\ Len(chats[t]) \in Nat
                                     /\ rows[t].have <= Len(chats[t])
           /\ run \in RunRecords
           /\ run.cursor \in Nat /\ run.clean \in Nat /\ run.limit \in Nat
           /\ run.seen \subseteq SyncThreads
           /\ run.tasks \subseteq AllTasks /\ run.errors \subseteq AllTasks /\ journal \subseteq AllTasks
  <1>1. clock.n \in Nat
    BY DEF SyncInv, Shapes
  <1>2. \A t \in SyncThreads : Newest(t).n \in Nat /\ 1 <= Newest(t).n /\ Newest(t).n <= clock.n
    <2> TAKE t \in SyncThreads
    <2>1. Newest(t).n \in Nat \ {0} /\ Newest(t).n <= clock.n
      BY CardOfNewest
    <2> QED
      BY <2>1
  <1>3. \A t, u \in SyncThreads : t # u => Newest(t).n # Newest(u).n
    BY DEF SyncInv, Numbered
  <1>4. \A t \in SyncThreads, card \in Cards : Shows(card, t) => card.utime \in Nat /\ card.utime <= clock.n
    <2> SUFFICES ASSUME NEW t \in SyncThreads, NEW card \in Cards, Shows(card, t)
                 PROVE  card.utime \in Nat /\ card.utime <= clock.n
      OBVIOUS
    <2>1. PICK k \in DOMAIN chats[t] : card.utime \in {Unknown, chats[t][k].n}
      BY DEF Shows
    <2>2. chats[t][k].n \in 1 .. clock.n
      BY DEF SyncInv, Numbered
    <2> QED
      BY <1>1, <2>1, <2>2 DEF Unknown
  <1>5. \A t \in SyncThreads : rows[t].card \in Cards /\ rows[t].have \in Nat
    BY DEF SyncInv, Shapes
  <1>6. \A task \in AllTasks : task.thread \in SyncThreads /\ task.card \in Cards
    BY DEF SyncInv, Shapes, RunRecords, Tasks, AllTasks
  <1>7. \A t \in SyncThreads : Len(chats[t]) \in Nat
    BY NewestIs DEF SyncInv
  <1>8. /\ run \in RunRecords
        /\ run.cursor \in Nat /\ run.clean \in Nat /\ run.limit \in Nat
        /\ run.seen \subseteq SyncThreads
        /\ run.tasks \subseteq AllTasks /\ run.errors \subseteq AllTasks /\ journal \subseteq AllTasks
    BY DEF SyncInv, Shapes, RunRecords, AllTasks
  <1>9. /\ \A t \in SyncThreads : Shows(rows[t].card, t) /\ rows[t].have <= Len(chats[t])
        /\ \A task \in AllTasks : Shows(task.card, task.thread)
    BY DEF SyncInv, Genuine
  <1> QED
    BY <1>1, <1>2, <1>3, <1>4, <1>5, <1>6, <1>7, <1>8, <1>9

\* Two clean cards with a thread below that has something to tell.
LEMMA FrontierMeans == SyncInv /\ FrontierInv => EarlyExitSound
  <1> SUFFICES ASSUME SyncInv, FrontierInv, exact, run.step = "scan", run.clean = 2, stale = {},
                      ~narrow, NEW t \in Below, rows[t].have # Len(chats[t]), rows[t].complete
               PROVE  FALSE
    BY DEF EarlyExitSound
  <1>1. t \in SyncThreads /\ Newest(t).n < run.cursor
    BY DEF Below
  <1>2. Hidden(t)
    BY <1>1, SyncFacts DEF Hidden
  <1>3. run.allow
    BY DEF FrontierInv, ScanOrder
  <1>4. Newest(t).n > run.cursor
    BY <1>1, <1>2, <1>3 DEF FrontierInv, Leaves, ScanAllowed
  <1> QED
    BY <1>1, <1>4, SyncFacts

\* A message puts its thread on top.
LEMMA ArriveFrontier ==
    ASSUME SyncInv, FrontierInv, NEW t \in SyncThreads, NEW said \in Utterances,
           NEW later \in BOOLEAN, Arrive(t, said, later)
    PROVE  FrontierInv'
  <1>0. UNCHANGED <<exact, rows, marked, touched, run, journal, runs, stale, narrow>>
    BY ArriveFields
  <1>1. Newest(t)'.n = clock.n + 1 /\ \A u \in SyncThreads \ {t} : Newest(u)' = Newest(u)
    BY ArriveFields DEF Newest
  <1>2. \A u \in SyncThreads \ {t} : Hidden(u)' <=> Hidden(u)
    BY <1>0, ArriveFields DEF Hidden
  <1>3. clock'.n = clock.n + 1
    BY ArriveFields
  <1>4. \A u \in SyncThreads : Synced(u)' <=> Synced(u)
    BY <1>0 DEF Synced
  <1>5. \A c \in SyncThreads : Newest(t)'.n > rows[c].card.utime
    BY <1>1, SyncFacts
  <1>6. \A task \in AllTasks : Newest(t)'.n > task.card.utime
    BY <1>1, SyncFacts
  <1>7. ASSUME NEW threads \in SUBSET SyncThreads
        PROVE  /\ AheadOfRows(t, threads)'
               /\ \A u \in SyncThreads \ {t} : AheadOfRows(u, threads) => AheadOfRows(u, threads)'
    BY <1>0, <1>1, <1>4, <1>5 DEF AheadOfRows
  <1>8. ASSUME NEW tasks \in SUBSET AllTasks
        PROVE  /\ AheadOfTasks(t, tasks)'
               /\ \A u \in SyncThreads \ {t} : AheadOfTasks(u, tasks) => AheadOfTasks(u, tasks)'
    BY <1>0, <1>1, <1>6 DEF AheadOfTasks
  <1>9. ASSUME NEW tasks \in SUBSET AllTasks
        PROVE  /\ Left(t, tasks)'
               /\ \A u \in SyncThreads \ {t} : Left(u, tasks) => Left(u, tasks)'
    BY <1>7, <1>8, <1>9 DEF Left, Covers
  <1>10. ScanOrder'
    <2> SUFFICES ASSUME run.step = "scan"
                 PROVE  /\ \A u \in run.seen : Newest(u)'.n >= run.cursor
                        /\ Cardinality(run.seen) <= run.limit
                        /\ ~run.allow => run.clean = 0
                        /\ run.clean > 0 => run.cursor <= clock'.n
      BY <1>0 DEF ScanOrder
    <2>1. \A u \in run.seen : Newest(u).n >= run.cursor
      BY DEF FrontierInv, ScanOrder
    <2>2. \A u \in run.seen : Newest(u)'.n >= run.cursor
      BY <1>1, <2>1, SyncFacts
    <2> QED
      BY <1>3, <2>2, SyncFacts DEF FrontierInv, ScanOrder
  <1>11. TaskShape'
    BY <1>0 DEF FrontierInv, TaskShape
  <1>12. exact' => Timed' /\ TimedTasks'
    BY <1>0 DEF FrontierInv, Timed, TimedTasks, AllTasks, Synced
  <1>13. ASSUME exact', ~narrow' PROVE Leaves'
    <2>0. Leaves
      BY <1>0, <1>13 DEF FrontierInv
    <2>1. Settled'
      BY <1>0, <1>2, <1>7, <2>0 DEF Leaves, Settled
    <2>2. ScanAllowed'
      <3> SUFFICES ASSUME run.step = "scan", run.allow
                   PROVE  /\ \A u \in SyncThreads : Hidden(u)' => AheadOfRows(u, SyncThreads \ run.seen)'
                          /\ \/ run.clean = 0
                             \/ run.clean = 1 /\ 1 \in run.seen
                             \/ /\ run.clean \in {1, 2}
                                /\ \A u \in SyncThreads : Hidden(u)' => Newest(u)'.n > run.cursor
        BY <1>0 DEF ScanAllowed
      <3>1. /\ \A u \in SyncThreads : Hidden(u) => AheadOfRows(u, SyncThreads \ run.seen)
            /\ \/ run.clean = 0
               \/ run.clean = 1 /\ 1 \in run.seen
               \/ /\ run.clean \in {1, 2}
                  /\ \A u \in SyncThreads : Hidden(u) => Newest(u).n > run.cursor
        BY <2>0 DEF Leaves, ScanAllowed
      <3>2. run.clean \in {1, 2} => Newest(t)'.n > run.cursor
        BY <1>1, SyncFacts DEF FrontierInv, ScanOrder
      <3>3. \A u \in SyncThreads : Hidden(u)' => AheadOfRows(u, SyncThreads \ run.seen)'
        BY <1>0, <1>2, <1>7, <3>1
      <3> QED
        BY <1>1, <1>2, <3>1, <3>2, <3>3
    <2>3. ScanLeaves'
      <3> SUFFICES ASSUME run.step = "scan", NEW u \in SyncThreads, Hidden(u)'
                   PROVE  u \in Below' \/ Left(u, run.tasks \cup run.errors)'
        BY <1>0 DEF ScanLeaves
      <3>1. run.tasks \cup run.errors \in SUBSET AllTasks
        BY SyncFacts
      <3>2. CASE u = t
        BY <1>0, <1>9, <3>1, <3>2
      <3>3. CASE u # t
        <4>1. u \in Below \/ Left(u, run.tasks \cup run.errors)
          BY <1>2, <2>0, <3>3 DEF Leaves, ScanLeaves
        <4>2. u \in Below => u \in Below'
          BY <1>0, <1>1, <3>3 DEF Below
        <4> QED
          BY <1>0, <1>9, <3>1, <3>3, <4>1, <4>2
      <3> QED
        BY <3>2, <3>3
    <2>4. DrainLeaves'
      <3>1. run.tasks \cup run.errors \in SUBSET AllTasks
        BY SyncFacts
      <3> QED
        BY <1>0, <1>2, <1>9, <2>0, <3>1 DEF Leaves, DrainLeaves
    <2>5. JournalLeaves'
      <3>1. journal \in SUBSET AllTasks
        BY SyncFacts
      <3> QED
        BY <1>0, <1>2, <1>7, <1>8, <2>0, <3>1 DEF Leaves, JournalLeaves, Covers
    <2> QED
      BY <2>1, <2>2, <2>3, <2>4, <2>5 DEF Leaves
  <1> QED
    BY <1>10, <1>11, <1>12, <1>13 DEF FrontierInv

-----------------------------------------------------------------------------

\* A step that leaves messages and rows alone leaves what hides where it is.
LEMMA SameRows ==
    ASSUME UNCHANGED <<chats, rows, stale>>
    PROVE  /\ \A u \in SyncThreads : /\ Newest(u)' = Newest(u)
                                     /\ Hidden(u)' <=> Hidden(u)
                                     /\ Synced(u)' <=> Synced(u)
           /\ \A u \in SyncThreads : \A threads : AheadOfRows(u, threads)' <=> AheadOfRows(u, threads)
           /\ \A u \in SyncThreads : \A tasks : AheadOfTasks(u, tasks)' <=> AheadOfTasks(u, tasks)
           /\ \A u \in SyncThreads : \A tasks : Left(u, tasks)' <=> Left(u, tasks)
  <1>1. \A u \in SyncThreads : Newest(u)' = Newest(u) /\ (Hidden(u)' <=> Hidden(u))
                               /\ (Synced(u)' <=> Synced(u))
    BY DEF Newest, Hidden, Synced
  <1>2. \A u \in SyncThreads : \A threads : AheadOfRows(u, threads)' <=> AheadOfRows(u, threads)
    BY DEF AheadOfRows, Newest, Synced
  <1>3. \A u \in SyncThreads : \A tasks : AheadOfTasks(u, tasks)' <=> AheadOfTasks(u, tasks)
    BY DEF AheadOfTasks, Newest
  <1>4. \A u \in SyncThreads : \A tasks : Left(u, tasks)' <=> Left(u, tasks)
    BY DEF Left, AheadOfRows, AheadOfTasks, Covers, Newest, Synced
  <1> QED
    BY <1>1, <1>2, <1>3, <1>4

\* No step of the run's bookkeeping finds new cards.
LEMMA SameTimes ==
    ASSUME FrontierInv, UNCHANGED <<exact, rows>>, AllTasks' \subseteq AllTasks
    PROVE  exact' => Timed' /\ TimedTasks'
  BY DEF FrontierInv, Timed, TimedTasks, Synced

\* Nothing seen yet.
LEMMA NoThreads == Cardinality({}) = 0
  BY FS_EmptySet

\* A new run starts above everything, and may end early if nothing was left.
LEMMA StartFrontier ==
    ASSUME SyncInv, FrontierInv, NEW limit \in Limits, StartRun(limit)
    PROVE  FrontierInv'
  <1>1. UNCHANGED <<exact, chats, clock, rows, marked, touched, journal, stale, narrow>>
    BY DEF StartRun
  <1>2. /\ run'.step = "scan" /\ run'.limit = limit /\ (run'.allow => ~touched)
        /\ run'.clean = 0 /\ run'.cursor = clock.n + 1 /\ run'.seen = {}
        /\ run'.tasks = {} /\ run'.errors = {}
    <2> DEFINE allow == ~PreviousIncomplete
    <2>1. run' = [Off EXCEPT !.step = "scan", !.limit = limit, !.allow = allow,
                             !.cursor = clock.n + 1]
      BY DEF StartRun
    <2>2. allow => ~touched
      BY DEF PreviousIncomplete
    <2> HIDE DEF allow
    <2> QED
      BY <2>1, <2>2 DEF Off
  <1>3. AllTasks' \subseteq AllTasks
    BY <1>1, <1>2 DEF AllTasks
  <1>4. ScanOrder'
    BY <1>2, NoThreads, SyncAssumption DEF ScanOrder
  <1>5. TaskShape'
    BY <1>2 DEF TaskShape
  <1>6. ASSUME exact', ~narrow' PROVE Leaves'
    <2>0. Leaves
      BY <1>1, <1>6 DEF FrontierInv
    <2>1. Settled'
      BY <1>1, <2>0, SameRows DEF Leaves, Settled
    <2>2. ScanAllowed'
      <3>1. run'.allow => \A t \in SyncThreads : Hidden(t) => AheadOfRows(t, SyncThreads)
        BY <1>2, <2>0 DEF Leaves, Settled
      <3>2. SyncThreads \ run'.seen = SyncThreads
        BY <1>2
      <3> QED
        BY <1>1, <1>2, <3>1, <3>2, SameRows DEF ScanAllowed
    <2>3. ScanLeaves'
      <3>1. \A t \in SyncThreads : Newest(t).n < run'.cursor /\ t \notin run'.seen
        BY <1>2, SyncFacts
      <3> QED
        BY <1>1, <3>1, SameRows DEF ScanLeaves, Below
    <2>4. DrainLeaves'
      BY <1>2 DEF DrainLeaves
    <2>5. JournalLeaves'
      BY <1>1, <1>2, <2>0, SameRows DEF Leaves, JournalLeaves, Covers
    <2> QED
      BY <2>1, <2>2, <2>3, <2>4, <2>5 DEF Leaves
  <1> QED
    BY <1>1, <1>3, <1>4, <1>5, <1>6, SameTimes DEF FrontierInv

\* Nothing runs any more.
LEMMA OffFrontier ==
    ASSUME SyncInv, FrontierInv, CacheHit \/ Complete \/ Stops
    PROVE  FrontierInv'
  <1>1. UNCHANGED <<exact, chats, clock, rows, stale, narrow>> /\ run' = Off
    BY DEF CacheHit, Complete, Stops
  <1>2. run'.step = "off" /\ run'.tasks = {} /\ run'.errors = {}
    BY <1>1 DEF Off
  <1>3. AllTasks' \subseteq AllTasks
    BY <1>2 DEF CacheHit, Complete, Stops, AllTasks
  <1>4. ScanOrder' /\ TaskShape'
    BY <1>2 DEF ScanOrder, TaskShape
  <1>5. ASSUME exact', ~narrow' PROVE Leaves'
    <2>0. Leaves
      BY <1>1, <1>5 DEF FrontierInv
    <2>1. ScanAllowed' /\ ScanLeaves' /\ DrainLeaves'
      BY <1>2 DEF ScanAllowed, ScanLeaves, DrainLeaves
    <2>2. CASE CacheHit
      <3>1. UNCHANGED <<touched, journal>> /\ run.step = "scan" /\ run.allow /\ run.seen = {}
        BY <2>2 DEF CacheHit
      <3>2. \A t \in SyncThreads : Hidden(t) => AheadOfRows(t, SyncThreads)
        <4>1. SyncThreads \ run.seen = SyncThreads
          BY <3>1
        <4> QED
          BY <2>0, <3>1, <4>1 DEF Leaves, ScanAllowed
      <3>3. Settled'
        BY <1>1, <3>2, SameRows DEF Settled
      <3>4. JournalLeaves'
        BY <1>1, <2>0, <3>1, <3>2, SameRows DEF Leaves, JournalLeaves, Covers
      <3> QED
        BY <2>1, <3>3, <3>4 DEF Leaves
    <2>3. CASE Complete
      <3>1. /\ journal' = journal /\ run.step = "drain" /\ ~run.stuck
            /\ run.tasks \cup run.errors = {}
        BY <2>3 DEF Complete
      <3>2. \A t \in SyncThreads : Hidden(t) => AheadOfRows(t, SyncThreads)
        <4>1. \A t \in SyncThreads : Hidden(t) => Left(t, {})
          BY <2>0, <3>1 DEF Leaves, DrainLeaves
        <4> QED
          BY <4>1 DEF Left, Covers
      <3>3. Settled'
        BY <1>1, <3>2, SameRows DEF Settled
      <3>4. JournalLeaves'
        BY <1>1, <2>0, <3>1, <3>2, SameRows DEF Leaves, JournalLeaves, Covers
      <3> QED
        BY <2>1, <3>3, <3>4 DEF Leaves
    <2>4. CASE Stops
      <3>1. touched' = touched
        BY <2>4 DEF Stops
      <3>2. Settled'
        BY <1>1, <2>0, <3>1, SameRows DEF Leaves, Settled
      <3>3. \/ journal' = {}
            \/ /\ run.step = "drain" /\ ~run.stuck
               /\ journal' = run.tasks \cup run.errors
        BY <2>4 DEF Stops
      <3>4. CASE journal' = {}
        <4>1. \A t \in SyncThreads : AheadOfTasks(t, {})
          BY DEF AheadOfTasks
        <4>2. JournalLeaves'
          BY <1>1, <3>4, <4>1, SameRows DEF JournalLeaves
        <4> QED
          BY <2>1, <3>2, <4>2 DEF Leaves
      <3>5. CASE /\ run.step = "drain" /\ ~run.stuck
                 /\ journal' = run.tasks \cup run.errors
        <4>1. \A t \in SyncThreads : Hidden(t) => Left(t, journal')
          BY <2>0, <3>5 DEF Leaves, DrainLeaves
        <4>2. \A t \in SyncThreads : Hidden(t) =>
                  \/ Covers(journal', t)
                  \/ AheadOfRows(t, SyncThreads) /\ AheadOfTasks(t, journal')
          BY <4>1 DEF Left
        <4>3. JournalLeaves'
          BY <1>1, <4>2, SameRows DEF JournalLeaves, Covers
        <4> QED
          BY <2>1, <3>2, <4>3 DEF Leaves
      <3> QED
        BY <3>3, <3>4, <3>5
    <2> QED
      BY <2>2, <2>3, <2>4
  <1> QED
    BY <1>1, <1>3, <1>4, <1>5, SameTimes DEF FrontierInv

\* Stage 1 ends: what it did not reach has nothing, is opened or stays on top.
LEMMA ScanEndsFrontier ==
    ASSUME SyncInv, FrontierInv, ScanEnds
    PROVE  FrontierInv'
  <1>1. /\ UNCHANGED <<exact, chats, clock, rows, marked, touched, journal, stale>>
        /\ run.step = "scan"
    BY DEF ScanEnds
  <1>2. /\ run'.step = "drain" /\ run'.tasks = run.tasks /\ run'.errors = run.errors
        /\ narrow => narrow'
        /\ \/ run'.stuck
           \/ /\ ~Scanning \/ Below = {}
              /\ Cardinality(run.seen) = run.limit /\ Below # {} => narrow'
    <2>1. run \in RunRecords
      BY SyncFacts
    <2>2. CASE /\ run' = [run EXCEPT !.step = "drain"]
               /\ ~Scanning \/ Below = {}
               /\ narrow' = (narrow \/ (Cardinality(run.seen) = run.limit /\ Below # {}))
      <3>1. run'.step = "drain" /\ run'.tasks = run.tasks /\ run'.errors = run.errors
        BY <2>1, <2>2 DEF RunRecords
      <3>2. /\ narrow => narrow'
            /\ Cardinality(run.seen) = run.limit /\ Below # {} => narrow'
        BY <2>2, Zenon
      <3> QED
        BY <2>2, <3>1, <3>2
    <2>3. CASE run' = [run EXCEPT !.step = "drain", !.stuck = TRUE] /\ UNCHANGED narrow
      <3>1. /\ run'.step = "drain" /\ run'.tasks = run.tasks /\ run'.errors = run.errors
            /\ run'.stuck
        BY <2>1, <2>3 DEF RunRecords
      <3>2. narrow => narrow'
        BY <2>3
      <3> QED
        BY <3>1, <3>2
    <2> QED
      BY <2>2, <2>3 DEF ScanEnds
  <1>3. AllTasks' \subseteq AllTasks
    BY <1>1, <1>2 DEF AllTasks
  <1>4. ScanOrder' /\ TaskShape'
    BY <1>2 DEF ScanOrder, TaskShape
  <1>5. ASSUME exact', ~narrow' PROVE Leaves'
    <2>0. Leaves
      BY <1>1, <1>2, <1>5 DEF FrontierInv
    <2>1. ScanAllowed' /\ ScanLeaves'
      BY <1>2 DEF ScanAllowed, ScanLeaves
    <2>2. Settled'
      BY <1>1, <2>0, SameRows DEF Leaves, Settled
    <2>3. JournalLeaves'
      BY <1>1, <1>2, <2>0, SameRows DEF Leaves, JournalLeaves, Covers
    <2>4. ASSUME ~run'.stuck, NEW t \in SyncThreads, Hidden(t)
          PROVE  Left(t, run.tasks \cup run.errors)
      <3>1. t \in Below \/ Left(t, run.tasks \cup run.errors)
        BY <1>1, <2>0, <2>4 DEF Leaves, ScanLeaves
      <3>2. ASSUME t \in Below PROVE FALSE
        <4>1. ~Scanning /\ Cardinality(run.seen) # run.limit
          BY <1>2, <1>5, <2>4, <3>2
        <4>2. Cardinality(run.seen) <= run.limit
          BY <1>1 DEF FrontierInv, ScanOrder
        <4>3. Cardinality(run.seen) \in Nat
          <5>1. IsFiniteSet(SyncThreads)
            BY SyncThreadsNat, FS_Interval DEF SyncThreads
          <5>2. IsFiniteSet(run.seen)
            BY <5>1, SyncFacts, FS_Subset
          <5> QED
            BY <5>2, FS_CardinalityType
        <4>4. Cardinality(run.seen) < run.limit
          BY <4>1, <4>2, <4>3, SyncFacts
        <4>5. run.clean >= 2
          BY <1>1, <4>1, <4>4, SyncFacts DEF Scanning
        <4>6. run.allow
          BY <1>1, <4>5, SyncFacts DEF FrontierInv, ScanOrder
        <4>7. Newest(t).n > run.cursor
          BY <1>1, <2>0, <2>4, <4>5, <4>6, SyncFacts DEF Leaves, ScanAllowed
        <4> QED
          BY <3>2, <4>7, SyncFacts DEF Below
      <3> QED
        BY <3>1, <3>2
    <2>5. DrainLeaves'
      BY <1>1, <1>2, <2>4, SameRows DEF DrainLeaves
    <2> QED
      BY <2>1, <2>2, <2>3, <2>5 DEF Leaves
  <1> QED
    BY <1>1, <1>3, <1>4, <1>5, SameTimes DEF FrontierInv

\* A resumed run has the journal for its tasks.
LEMMA ResumeFrontier ==
    ASSUME SyncInv, FrontierInv, ResumeRun
    PROVE  FrontierInv'
  <1>1. /\ UNCHANGED <<exact, chats, clock, rows, marked, touched, stale, narrow>>
        /\ run.step = "off" /\ journal # {} /\ journal' = {}
    BY DEF ResumeRun
  <1>2. run'.step = "drain" /\ run'.tasks \cup run'.errors = journal
    BY DEF ResumeRun, Off
  <1>3. AllTasks' \subseteq AllTasks
    BY <1>1, <1>2 DEF AllTasks
  <1>4. ScanOrder' /\ TaskShape'
    BY <1>2 DEF ScanOrder, TaskShape
  <1>5. ASSUME exact', ~narrow' PROVE Leaves'
    <2>0. Leaves
      BY <1>1, <1>5 DEF FrontierInv
    <2>1. ScanAllowed' /\ ScanLeaves'
      BY <1>2 DEF ScanAllowed, ScanLeaves
    <2>2. Settled'
      BY <1>1, <2>0, SameRows DEF Leaves, Settled
    <2>3. JournalLeaves'
      <3>1. \A t \in SyncThreads : AheadOfTasks(t, {})
        BY DEF AheadOfTasks
      <3> QED
        BY <1>1, <3>1, SameRows DEF JournalLeaves
    <2>4. \A t \in SyncThreads : Hidden(t) => Left(t, journal)
      BY <1>1, <2>0 DEF Leaves, JournalLeaves, Left
    <2>5. DrainLeaves'
      BY <1>1, <1>2, <2>4, SameRows DEF DrainLeaves
    <2> QED
      BY <2>1, <2>2, <2>3, <2>5 DEF Leaves
  <1> QED
    BY <1>1, <1>3, <1>4, <1>5, SameTimes DEF FrontierInv

\* A task fails, a day passes, or nothing happens.
LEMMA IdleFrontier ==
    ASSUME SyncInv, FrontierInv,
           (\E task \in run.tasks : FailTask(task)) \/ NextDay \/ UNCHANGED syncVars
    PROVE  FrontierInv'
  <1>1. /\ UNCHANGED <<exact, chats, rows, marked, touched, journal, stale, narrow>>
        /\ clock'.n = clock.n
    <2>1. clock \in [n : Nat, day : Nat, minute : Nat]
      BY DEF SyncInv, Shapes
    <2> QED
      BY <2>1 DEF FailTask, NextDay, syncVars
  <1>2. /\ UNCHANGED <<run.step, run.limit, run.allow, run.clean, run.cursor, run.seen, run.stuck>>
        /\ run'.tasks \cup run'.errors = run.tasks \cup run.errors
        /\ run'.tasks \subseteq run.tasks
    <2>1. CASE \E task \in run.tasks : FailTask(task)
      <3>1. PICK task \in run.tasks : FailTask(task)
        BY <2>1
      <3>2. run \in RunRecords
        BY SyncFacts
      <3>3. run' = [run EXCEPT !.tasks = @ \ {task}, !.errors = @ \cup {task}]
        BY <3>1 DEF FailTask
      <3>4. /\ UNCHANGED <<run.step, run.limit, run.allow, run.clean, run.cursor, run.seen,
                           run.stuck>>
            /\ run'.tasks = run.tasks \ {task} /\ run'.errors = run.errors \cup {task}
        BY <3>2, <3>3 DEF RunRecords
      <3> QED
        BY <3>4
    <2>2. CASE NextDay \/ UNCHANGED syncVars
      BY <2>2 DEF NextDay, syncVars
    <2> QED
      BY <2>1, <2>2
  <1>3. AllTasks' \subseteq AllTasks
    BY <1>1, <1>2 DEF AllTasks
  <1>4. ScanOrder' /\ TaskShape'
    BY <1>1, <1>2, SameRows, SyncFacts DEF FrontierInv, ScanOrder, TaskShape
  <1>5. Leaves => Leaves'
    <2> SUFFICES ASSUME Leaves PROVE Leaves'
      OBVIOUS
    <2>1. Settled'
      BY <1>1, SameRows DEF Leaves, Settled
    <2>2. ScanAllowed'
      BY <1>1, <1>2, SameRows DEF Leaves, ScanAllowed
    <2>3. ScanLeaves'
      BY <1>1, <1>2, SameRows DEF Leaves, ScanLeaves, Below
    <2>4. DrainLeaves'
      BY <1>1, <1>2, SameRows DEF Leaves, DrainLeaves
    <2>5. JournalLeaves'
      BY <1>1, <1>2, SameRows DEF Leaves, JournalLeaves, Covers
    <2> QED
      BY <2>1, <2>2, <2>3, <2>4, <2>5 DEF Leaves
  <1> QED
    BY <1>1, <1>3, <1>4, <1>5, SameTimes DEF FrontierInv

-----------------------------------------------------------------------------

\* The next card of Stage 1: the newest one below, whatever is hidden further
\* up stays further up.
LEMMA NextCard ==
    ASSUME SyncInv, FrontierInv, Scanning, NEW t \in Below,
           \A u \in Below : Newest(u).n <= Newest(t).n,
           UNCHANGED <<exact, chats, clock>>,
           run'.seen = run.seen \cup {t}, run'.cursor = Newest(t).n
    PROVE  /\ t \in SyncThreads /\ t \notin run.seen /\ Newest(t).n < run.cursor
           /\ \A u \in SyncThreads : Newest(u)' = Newest(u)
           /\ \A u \in SyncThreads \ {t} :
                  IF u \in Below THEN u \in Below' ELSE Newest(u).n > Newest(t).n
           /\ \A u \in run'.seen : Newest(u)'.n >= run'.cursor
           /\ Cardinality(run'.seen) <= run.limit
           /\ run'.cursor <= clock'.n
  <1>1. t \in SyncThreads /\ t \notin run.seen /\ Newest(t).n < run.cursor
    BY DEF Below
  <1>2. \A u \in SyncThreads : Newest(u)' = Newest(u)
    BY DEF Newest
  <1>3. \A u \in run.seen : Newest(u).n >= run.cursor
    BY DEF FrontierInv, ScanOrder, Scanning
  <1>4. ASSUME NEW u \in SyncThreads \ {t}, u \in Below PROVE u \in Below'
    <2>1. Newest(u).n <= Newest(t).n /\ Newest(u).n # Newest(t).n
      BY <1>1, <1>4, SyncFacts
    <2>2. Newest(u).n < Newest(t).n
      BY <1>1, <2>1, SyncFacts
    <2> QED
      BY <1>2, <1>4, <2>2 DEF Below
  <1>5. ASSUME NEW u \in SyncThreads \ {t}, u \notin Below PROVE Newest(u).n > Newest(t).n
    <2>1. u \in run.seen \/ ~(Newest(u).n < run.cursor)
      BY <1>5 DEF Below
    <2>2. Newest(u).n >= run.cursor
      BY <1>3, <2>1, SyncFacts
    <2> QED
      BY <1>1, <2>2, SyncFacts
  <1>6. \A u \in run'.seen : Newest(u)'.n >= run'.cursor
    BY <1>1, <1>2, <1>3, SyncFacts
  <1>7. Cardinality(run'.seen) <= run.limit
    <2>1. IsFiniteSet(run.seen)
      <3>1. IsFiniteSet(SyncThreads)
        BY SyncThreadsNat, FS_Interval DEF SyncThreads
      <3> QED
        BY <3>1, SyncFacts, FS_Subset
    <2>2. Cardinality(run'.seen) = Cardinality(run.seen) + 1 /\ Cardinality(run.seen) \in Nat
      BY <1>1, <2>1, FS_AddElement, FS_CardinalityType
    <2> QED
      BY <2>2, SyncFacts DEF Scanning
  <1>8. run'.cursor <= clock'.n
    BY <1>1, SyncFacts
  <1> QED
    BY <1>1, <1>2, <1>4, <1>5, <1>6, <1>7, <1>8

\* An unchanged card with an exact time carries the time of the marker, but
\* for thread 1 no marker is without one.
LEMMA CleanCard ==
    ASSUME SyncInv, NEW t \in SyncThreads \ {1}, NEW recent \in BOOLEAN, exact, Timed,
           Skips(t, Card(Newest(t), exact), recent)
    PROVE  rows[t].card.utime = Newest(t).n /\ Synced(t)
  <1>1. Synced(t) /\ rows[t].card.utime # Unknown
    BY DEF Skips, Timed
  <1>2. Card(Newest(t), exact).utime = Newest(t).n /\ Newest(t).n # Unknown
    BY CardOfNewest, SyncFacts DEF Unknown
  <1>3. DecideByMarker(t, Card(Newest(t), exact), recent) # "undecided"
    BY <1>2 DEF DecideByMarker
  <1>4. DecideByMarker(t, Card(Newest(t), exact), recent) = "skip"
    BY <1>3 DEF Skips
  <1>5. Card(Newest(t), exact).utime = rows[t].card.utime
    BY <1>1, <1>2, <1>4 DEF DecideByMarker
  <1> QED
    BY <1>1, <1>2, <1>5

\* A clean card: all that is hidden is above it, unless it is thread 1's.
LEMMA SkipFrontier ==
    ASSUME SyncInv, FrontierInv, Scanning, NEW t \in Below, NEW recent \in BOOLEAN,
           \A u \in Below : Newest(u).n <= Newest(t).n,
           Skips(t, Card(Newest(t), exact), recent), SkipCard(t, Card(Newest(t), exact)),
           UNCHANGED <<exact, chats, clock, marked, journal, runs, narrow>>
    PROVE  FrontierInv'
  <1> DEFINE card == Card(Newest(t), exact)
  <1>1. t \in SyncThreads
    BY DEF Below
  <1>2. /\ run.step = "scan" /\ run.clean < 2
        /\ run'.seen = run.seen \cup {t} /\ run'.cursor = Newest(t).n
        /\ run.allow => run'.clean = run.clean + 1
        /\ ~run.allow => run'.clean = run.clean
        /\ UNCHANGED <<run.step, run.limit, run.allow, run.tasks, run.errors, run.stuck>>
    BY <1>1, SkipFields DEF Scanning
  <1>3. /\ t \in SyncThreads /\ t \notin run.seen /\ Newest(t).n < run.cursor
        /\ \A u \in SyncThreads : Newest(u)' = Newest(u)
        /\ \A u \in SyncThreads \ {t} :
               IF u \in Below THEN u \in Below' ELSE Newest(u).n > Newest(t).n
        /\ \A u \in run'.seen : Newest(u)'.n >= run'.cursor
        /\ Cardinality(run'.seen) <= run.limit
        /\ run'.cursor <= clock'.n
    BY <1>2, NextCard
  <1>4. /\ rows'[t].card = card /\ rows'[t].have = rows[t].have
        /\ rows'[t].complete = rows[t].complete
        /\ \A u \in SyncThreads \ {t} : rows'[u] = rows[u]
    BY <1>1 DEF SkipCard, SyncInv, Shapes
  <1>5. touched' /\ stale \subseteq stale' /\ stale' \subseteq stale \cup {t}
        /\ (rows[t].have < Len(chats[t]) => t \in stale')
    BY DEF SkipCard
  <1>6. card.utime = IF exact THEN Newest(t).n ELSE Unknown
    BY <1>1, CardOfNewest
  <1> HIDE DEF card
  <1>7. \A u \in SyncThreads : Synced(u)' <=> Synced(u)
    BY <1>4 DEF Synced
  <1>8. ~Hidden(t)' /\ \A u \in SyncThreads \ {t} : Hidden(u)' <=> Hidden(u)
    BY <1>4, <1>5 DEF Hidden
  <1>9. AllTasks' = AllTasks
    BY <1>2 DEF AllTasks
  <1>10. ScanOrder'
    BY <1>2, <1>3 DEF FrontierInv, ScanOrder
  <1>11. TaskShape'
    BY <1>2 DEF FrontierInv, TaskShape
  <1>12. ASSUME exact' PROVE Timed' /\ TimedTasks'
    <2>1. Timed /\ TimedTasks /\ card.utime # Unknown
      BY <1>1, <1>6, <1>12, SyncFacts DEF FrontierInv, Unknown
    <2>2. Timed'
      BY <1>4, <1>7, <2>1 DEF Timed
    <2> QED
      BY <1>9, <2>1, <2>2 DEF TimedTasks
  <1>13. ASSUME exact', ~narrow' PROVE Leaves'
    <2>0. Leaves /\ Timed /\ card.utime = Newest(t).n
      BY <1>6, <1>13 DEF FrontierInv
    <2>1. Settled'
      BY <1>5 DEF Settled
    <2>2. ASSUME run.allow, NEW u \in SyncThreads, Hidden(u)'
          PROVE  AheadOfRows(u, SyncThreads \ run.seen)'
      <3>1. Hidden(u)
        BY <1>8, <2>2
      <3>2. AheadOfRows(u, SyncThreads \ run.seen)
        BY <1>2, <2>0, <2>2, <3>1 DEF Leaves, ScanAllowed
      <3>3. \A c \in SyncThreads \ run'.seen : c \in SyncThreads \ run.seen /\ c # t
        BY <1>2
      <3>4. \A c \in SyncThreads \ run'.seen :
                rows'[c] = rows[c] /\ (Synced(c)' <=> Synced(c))
        BY <1>4, <1>7, <3>3
      <3>5. \A c \in SyncThreads \ run'.seen : Synced(c)' => Newest(u)'.n > rows'[c].card.utime
        BY <1>3, <3>2, <3>3, <3>4 DEF AheadOfRows
      <3> QED
        BY <3>5 DEF AheadOfRows
    <2>3. ASSUME run.allow
          PROVE  \/ run'.clean = 0
                 \/ run'.clean = 1 /\ 1 \in run'.seen
                 \/ run'.clean \in {1, 2} /\ \A u \in SyncThreads : Hidden(u)' => Newest(u)'.n > run'.cursor
      <3>1. /\ \A u \in SyncThreads : Hidden(u) => AheadOfRows(u, SyncThreads \ run.seen)
            /\ \/ run.clean = 0
               \/ run.clean = 1 /\ 1 \in run.seen
               \/ run.clean \in {1, 2} /\ \A u \in SyncThreads : Hidden(u) => Newest(u).n > run.cursor
        BY <1>2, <2>0, <2>3 DEF Leaves, ScanAllowed
      <3>2. ASSUME t # 1 PROVE \A u \in SyncThreads : Hidden(u) => Newest(u).n > Newest(t).n
        <4>1. rows[t].card.utime = Newest(t).n /\ Synced(t)
          BY <1>1, <1>13, <2>0, <3>2, CleanCard
        <4> QED
          BY <1>3, <3>1, <4>1 DEF AheadOfRows
      <3>3. (run.clean = 0 \/ run.clean = 1) /\ run'.clean = run.clean + 1
        BY <1>2, <2>3, SyncFacts
      <3>4. CASE t = 1 /\ run.clean = 0
        BY <1>2, <3>3, <3>4
      <3>5. CASE t # 1
        <4>1. \A u \in SyncThreads : Hidden(u)' => Newest(u)'.n > run'.cursor
          BY <1>2, <1>3, <1>8, <3>2, <3>5
        <4> QED
          BY <3>3, <4>1
      <3>6. CASE t = 1 /\ run.clean = 1
        <4>1. \A u \in SyncThreads : Hidden(u) => Newest(u).n > run.cursor
          BY <1>3, <3>1, <3>6
        <4>2. \A u \in SyncThreads : Hidden(u)' => Newest(u)'.n > run'.cursor
          BY <1>2, <1>3, <1>8, <4>1, SyncFacts
        <4> QED
          BY <3>3, <3>6, <4>2
      <3> QED
        BY <3>3, <3>4, <3>5, <3>6
    <2>4. ScanAllowed'
      BY <1>2, <2>2, <2>3 DEF ScanAllowed
    <2>5. ScanLeaves'
      <3> SUFFICES ASSUME NEW u \in SyncThreads, Hidden(u)', u \notin Below'
                   PROVE  Left(u, run.tasks \cup run.errors)'
        BY DEF ScanLeaves
      <3>1. u # t /\ Hidden(u)
        BY <1>8
      <3>2. u \notin Below /\ Newest(u).n > Newest(t).n
        BY <1>3, <3>1
      <3>3. Left(u, run.tasks \cup run.errors)
        BY <1>2, <2>0, <3>1, <3>2 DEF Leaves, ScanLeaves
      <3>4. AheadOfRows(u, SyncThreads) => AheadOfRows(u, SyncThreads)'
        BY <1>3, <1>4, <1>7, <2>0, <3>2 DEF AheadOfRows
      <3>5. \A tasks : AheadOfTasks(u, tasks) => AheadOfTasks(u, tasks)'
        BY <1>3 DEF AheadOfTasks
      <3> QED
        BY <1>2, <3>3, <3>4, <3>5 DEF Left, Covers
    <2>6. DrainLeaves'
      BY <1>2 DEF DrainLeaves
    <2>7. JournalLeaves'
      <3>1. \A u \in SyncThreads : \A tasks : AheadOfTasks(u, tasks) => AheadOfTasks(u, tasks)'
        BY <1>3 DEF AheadOfTasks
      <3>2. \A u \in SyncThreads : Hidden(u)' => Hidden(u)
        BY <1>8
      <3> QED
        BY <1>2, <2>0, <3>1, <3>2 DEF Leaves, JournalLeaves, Covers
    <2> QED
      BY <2>1, <2>4, <2>5, <2>6, <2>7 DEF Leaves
  <1> QED
    BY <1>10, <1>11, <1>12, <1>13 DEF FrontierInv

\* A card passed on: its thread will be opened.
LEMMA PassFrontier ==
    ASSUME SyncInv, FrontierInv, Scanning, NEW t \in Below,
           \A u \in Below : Newest(u).n <= Newest(t).n,
           PassOn(t, Card(Newest(t), exact)),
           UNCHANGED <<exact, chats, clock, marked, journal, runs, narrow>>
    PROVE  FrontierInv'
  <1> DEFINE card == Card(Newest(t), exact)
             task == [thread |-> t, card |-> card]
  <1>1. t \in SyncThreads /\ run.step = "scan"
    BY DEF Below, Scanning
  <1>2. card \in Cards /\ card.utime = IF exact THEN Newest(t).n ELSE Unknown
    BY <1>1, CardOfNewest
  <1> HIDE DEF card
  <1>3. /\ run'.seen = run.seen \cup {t} /\ run'.cursor = Newest(t).n /\ run'.clean = 0
        /\ run'.tasks = run.tasks \cup {task}
        /\ UNCHANGED <<run.step, run.limit, run.allow, run.errors, run.stuck>>
    BY <1>1, <1>2, PassFields DEF card
  <1>4. /\ t \in SyncThreads /\ t \notin run.seen /\ Newest(t).n < run.cursor
        /\ \A u \in SyncThreads : Newest(u)' = Newest(u)
        /\ \A u \in SyncThreads \ {t} :
               IF u \in Below THEN u \in Below' ELSE Newest(u).n > Newest(t).n
        /\ \A u \in run'.seen : Newest(u)'.n >= run'.cursor
        /\ Cardinality(run'.seen) <= run.limit
        /\ run'.cursor <= clock'.n
    BY <1>3, NextCard
  <1>5. UNCHANGED <<rows, touched, stale>>
    BY DEF PassOn
  <1>6. task.thread = t /\ task.card = card
    OBVIOUS
  <1> HIDE DEF task
  <1>7. AllTasks' = AllTasks \cup {task}
    BY <1>3 DEF AllTasks
  <1>8. ScanOrder'
    BY <1>3, <1>4 DEF ScanOrder
  <1>9. TaskShape'
    BY <1>1, <1>3, <1>6 DEF FrontierInv, TaskShape
  <1>10. ASSUME exact' PROVE Timed' /\ TimedTasks'
    <2>1. Timed /\ TimedTasks /\ card.utime # Unknown
      BY <1>1, <1>2, <1>10, SyncFacts DEF FrontierInv, Unknown
    <2> QED
      BY <1>5, <1>6, <1>7, <2>1 DEF Timed, TimedTasks, Synced
  <1>11. ASSUME exact', ~narrow' PROVE Leaves'
    <2>0. Leaves /\ card.utime = Newest(t).n
      BY <1>2, <1>11 DEF FrontierInv
    <2>1. Settled'
      BY <1>5, <2>0, SameRows DEF Leaves, Settled
    <2>2. ASSUME run.allow, NEW u \in SyncThreads, Hidden(u)'
          PROVE  AheadOfRows(u, SyncThreads \ run.seen)'
      <3>1. AheadOfRows(u, SyncThreads \ run.seen)
        BY <1>1, <1>5, <2>0, <2>2, SameRows DEF Leaves, ScanAllowed
      <3>2. \A c \in SyncThreads \ run'.seen : Synced(c) => Newest(u).n > rows[c].card.utime
        BY <1>3, <3>1 DEF AheadOfRows
      <3> QED
        BY <1>4, <1>5, <3>2 DEF AheadOfRows, Synced
    <2>3. ScanAllowed'
      BY <1>3, <2>2 DEF ScanAllowed
    <2>4. ScanLeaves'
      <3> SUFFICES ASSUME NEW u \in SyncThreads, Hidden(u)', u \notin Below'
                   PROVE  Left(u, run.tasks \cup run.errors)'
        BY DEF ScanLeaves
      <3>1. CASE u = t
        <4>1. Covers(run.tasks \cup run.errors, u)'
          BY <1>3, <1>6, <3>1 DEF Covers
        <4> QED
          BY <4>1 DEF Left
      <3>2. CASE u # t
        <4>1. u \notin Below /\ Newest(u).n > Newest(t).n
          BY <1>4, <3>2
        <4>2. Left(u, run.tasks \cup run.errors)
          BY <1>1, <1>5, <2>0, <4>1, SameRows DEF Leaves, ScanLeaves
        <4>3. CASE Covers(run.tasks \cup run.errors, u)
          <5>1. Covers(run.tasks \cup run.errors, u)'
            BY <1>3, <4>3 DEF Covers
          <5> QED
            BY <5>1 DEF Left
        <4>4. CASE AheadOfRows(u, SyncThreads) /\ AheadOfTasks(u, run.tasks \cup run.errors)
          <5>1. AheadOfRows(u, SyncThreads)'
            BY <1>5, <4>4, SameRows
          <5>2. AheadOfTasks(u, run.tasks \cup run.errors)'
            BY <1>3, <1>4, <1>6, <2>0, <4>1, <4>4 DEF AheadOfTasks
          <5> QED
            BY <5>1, <5>2 DEF Left
        <4> QED
          BY <4>2, <4>3, <4>4 DEF Left
      <3> QED
        BY <3>1, <3>2
    <2>5. DrainLeaves'
      BY <1>1, <1>3 DEF DrainLeaves
    <2>6. JournalLeaves'
      BY <1>1, <1>3, <1>5, <2>0, SameRows DEF Leaves, JournalLeaves, Covers
    <2> QED
      BY <2>1, <2>3, <2>4, <2>5, <2>6 DEF Leaves
  <1> QED
    BY <1>8, <1>9, <1>10, <1>11 DEF FrontierInv

\* A stored thread has nothing hidden, and what is hidden elsewhere is still
\* newer than the card it was stored under.
LEMMA FetchFrontier ==
    ASSUME SyncInv, FrontierInv, NEW task \in run.tasks, FetchTask(task)
    PROVE  FrontierInv'
  <1> DEFINE t == task.thread
  <1>1. UNCHANGED <<exact, chats, clock, marked, journal, runs, narrow>> /\ touched'
    BY DEF FetchTask
  <1>2. /\ t \in SyncThreads /\ rows'[t].card = task.card
        /\ rows'[t].complete => rows'[t].have = Len(chats[t])
        /\ \A u \in SyncThreads \ {t} : rows'[u] = rows[u]
        /\ run'.tasks = run.tasks \ {task}
        /\ UNCHANGED <<run.step, run.limit, run.allow, run.clean, run.cursor, run.seen,
                       run.errors, run.stuck>>
        /\ stale' = stale \ {t}
    BY FetchFields
  <1>3. task \in AllTasks /\ AllTasks' \subseteq AllTasks
    BY <1>1, <1>2 DEF AllTasks
  <1>4. \A u \in SyncThreads : Newest(u)' = Newest(u)
    BY <1>1 DEF Newest
  <1>5. ~Hidden(t)' /\ \A u \in SyncThreads \ {t} : Hidden(u)' <=> Hidden(u)
    <2>1. ~Hidden(t)'
      BY <1>1, <1>2, SyncFacts DEF Hidden
    <2>2. \A u \in SyncThreads \ {t} : Hidden(u)' <=> Hidden(u)
      BY <1>1, <1>2 DEF Hidden
    <2> QED
      BY <2>1, <2>2
  <1>6. \A u \in SyncThreads \ {t} : Synced(u)' <=> Synced(u)
    BY <1>2 DEF Synced
  <1>7. /\ run.step # "off"
        /\ run.step = "scan" => t \in run.seen
    BY DEF FrontierInv, TaskShape
  <1> HIDE DEF t
  <1>8. ScanOrder' /\ TaskShape'
    BY <1>1, <1>2, <1>4, <1>7, SyncFacts DEF FrontierInv, ScanOrder, TaskShape
  <1>9. ASSUME exact' PROVE Timed' /\ TimedTasks'
    BY <1>1, <1>2, <1>3, <1>6, <1>9 DEF FrontierInv, Timed, TimedTasks
  <1>10. ASSUME exact', ~narrow' PROVE Leaves'
    <2>0. Leaves
      BY <1>1, <1>10 DEF FrontierInv
    <2>1. Settled'
      BY <1>1 DEF Settled
    <2>2. ScanAllowed'
      <3> SUFFICES ASSUME run.step = "scan", run.allow
                   PROVE  /\ \A u \in SyncThreads : Hidden(u)' => AheadOfRows(u, SyncThreads \ run.seen)'
                          /\ \/ run.clean = 0
                             \/ run.clean = 1 /\ 1 \in run.seen
                             \/ /\ run.clean \in {1, 2}
                                /\ \A u \in SyncThreads : Hidden(u)' => Newest(u)'.n > run.cursor
        BY <1>2 DEF ScanAllowed
      <3>1. /\ \A u \in SyncThreads : Hidden(u) => AheadOfRows(u, SyncThreads \ run.seen)
            /\ \/ run.clean = 0
               \/ run.clean = 1 /\ 1 \in run.seen
               \/ run.clean \in {1, 2} /\ \A u \in SyncThreads : Hidden(u) => Newest(u).n > run.cursor
        BY <2>0 DEF Leaves, ScanAllowed
      <3>2. ASSUME NEW u \in SyncThreads, Hidden(u)' PROVE AheadOfRows(u, SyncThreads \ run.seen)'
        <4>1. u # t /\ Hidden(u)
          BY <1>5, <3>2
        <4>2. \A c \in SyncThreads \ run.seen :
                  rows'[c] = rows[c] /\ (Synced(c)' <=> Synced(c))
          BY <1>2, <1>6, <1>7
        <4>3. \A c \in SyncThreads \ run.seen : Synced(c)' => Newest(u)'.n > rows'[c].card.utime
          BY <1>4, <3>1, <4>1, <4>2 DEF AheadOfRows
        <4> QED
          BY <1>2, <4>3 DEF AheadOfRows
      <3> QED
        BY <1>4, <1>5, <3>1, <3>2
    <2>3. ASSUME NEW u \in SyncThreads, Hidden(u)', Left(u, run.tasks \cup run.errors)
          PROVE  Left(u, run.tasks \cup run.errors)'
      <3>1. u # t
        BY <1>5, <2>3
      <3>2. CASE Covers(run.tasks \cup run.errors, u)
        <4>1. Covers(run.tasks \cup run.errors, u)'
          BY <1>2, <3>1, <3>2 DEF Covers, t
        <4> QED
          BY <4>1 DEF Left
      <3>3. CASE AheadOfRows(u, SyncThreads) /\ AheadOfTasks(u, run.tasks \cup run.errors)
        <4>1. Newest(u).n > task.card.utime
          BY <3>3 DEF AheadOfTasks
        <4>2. AheadOfRows(u, SyncThreads)'
          BY <1>2, <1>4, <1>6, <3>3, <4>1 DEF AheadOfRows
        <4>3. AheadOfTasks(u, run.tasks \cup run.errors)'
          BY <1>2, <1>4, <3>3 DEF AheadOfTasks
        <4> QED
          BY <4>2, <4>3 DEF Left
      <3> QED
        BY <2>3, <3>2, <3>3 DEF Left
    <2>4. \A u \in SyncThreads : Hidden(u)' => Hidden(u)
      BY <1>5
    <2>5. ScanLeaves'
      <3>1. \A u \in SyncThreads : u \in Below => u \in Below'
        BY <1>2, <1>4 DEF Below
      <3> QED
        BY <1>2, <2>0, <2>3, <2>4, <3>1 DEF Leaves, ScanLeaves
    <2>6. DrainLeaves'
      BY <1>2, <2>0, <2>3, <2>4 DEF Leaves, DrainLeaves
    <2>7. JournalLeaves'
      <3>1. \A u \in SyncThreads : \A tasks : AheadOfTasks(u, tasks) => AheadOfTasks(u, tasks)'
        BY <1>4 DEF AheadOfTasks
      <3> QED
        BY <1>1, <1>2, <1>7, <2>0, <2>4, <3>1 DEF Leaves, JournalLeaves, Covers
    <2> QED
      BY <2>1, <2>2, <2>5, <2>6, <2>7 DEF Leaves
  <1> QED
    BY <1>8, <1>9, <1>10 DEF FrontierInv

-----------------------------------------------------------------------------

\* Only thread 1 was ever synced, and its message is the oldest.
LEMMA FrontierStart == SyncInit => FrontierInv
  <1> SUFFICES ASSUME SyncInit PROVE FrontierInv
    OBVIOUS
  <1>0. SyncInv
    BY SyncInvStart
  <1>1. /\ run = Off /\ journal = {} /\ touched = FALSE
        /\ run.step = "off" /\ run.tasks = {} /\ run.errors = {}
    BY DEF SyncInit, Off
  <1>2. /\ \A t \in SyncThreads : Newest(t).n = t /\ Len(chats[t]) = 1
        /\ clock.n = NumThreads
    <2>1. \A t \in SyncThreads : chats[t] =
              <<[n |-> t, day |-> 1, minute |-> 1, side |-> "Customer", text |-> "hello"]>>
      BY DEF SyncInit
    <2> QED
      BY <2>1 DEF SyncInit, Newest
  <1>3. PICK timed \in BOOLEAN :
            rows = [t \in SyncThreads |->
                      [have |-> IF t = 1 THEN 1 ELSE 0, complete |-> TRUE, synced |-> 1,
                       card |-> Card(chats[t][1], timed)]]
    BY DEF SyncInit
  <1>4. \A t \in SyncThreads : (Synced(t) <=> t = 1) /\ (t = 1 <=> rows[t].have = 1)
    BY <1>3 DEF Synced
  <1>5. \A t \in SyncThreads : Hidden(t) => t > 1
    <2> TAKE t \in SyncThreads
    <2>1. t \in Nat /\ t # 0
      BY SyncThreadsNat
    <2>2. ASSUME t = 1 PROVE ~Hidden(t)
      <3>1. rows[t].have = 1
        BY <1>4, <2>2
      <3>2. Len(chats[t]) = 1
        BY <1>2
      <3>3. ~(rows[t].have < Len(chats[t]))
        BY <3>1, <3>2
      <3> QED
        BY <3>3 DEF Hidden
    <2> QED
      BY <2>1, <2>2
  <1>6. 1 \in SyncThreads => rows[1].card.utime <= 1 /\ rows[1].card.utime \in Nat
    <2> SUFFICES ASSUME 1 \in SyncThreads
                 PROVE  rows[1].card.utime <= 1 /\ rows[1].card.utime \in Nat
      OBVIOUS
    <2>1. Shows(rows[1].card, 1) /\ DOMAIN chats[1] = {1} /\ chats[1][1] = Newest(1)
      BY <1>0, <1>2, NewestIs DEF SyncInv, Genuine
    <2> QED
      BY <1>2, <2>1 DEF Shows, Unknown
  <1>7. \A t \in SyncThreads : Hidden(t) => AheadOfRows(t, SyncThreads)
    BY <1>2, <1>4, <1>5, <1>6, SyncThreadsNat DEF AheadOfRows
  <1>8. ScanOrder /\ TaskShape /\ Timed /\ TimedTasks
    BY <1>1, <1>4 DEF ScanOrder, TaskShape, Timed, TimedTasks, AllTasks
  <1>9. Leaves
    <2>1. \A t \in SyncThreads : AheadOfTasks(t, {})
      BY DEF AheadOfTasks
    <2> QED
      BY <1>1, <1>7, <2>1 DEF Leaves, Settled, ScanAllowed, ScanLeaves, DrainLeaves, JournalLeaves
  <1> QED
    BY <1>8, <1>9 DEF FrontierInv

\* The frontier is inductive beside the bookkeeping.
LEMMA FrontierStep == SyncInv /\ FrontierInv /\ [SyncNext]_syncVars => FrontierInv'
  <1> SUFFICES ASSUME SyncInv, FrontierInv, [SyncNext]_syncVars PROVE FrontierInv'
    OBVIOUS
  <1>1. CASE ScanCard
    <2>1. PICK t \in Below, recent \in BOOLEAN :
              /\ \A u \in Below : Newest(u).n <= Newest(t).n
              /\ IF Skips(t, Card(Newest(t), exact), recent)
                 THEN SkipCard(t, Card(Newest(t), exact)) ELSE PassOn(t, Card(Newest(t), exact))
      BY <1>1 DEF ScanCard
    <2>2. Scanning /\ UNCHANGED <<exact, chats, clock, marked, journal, runs, narrow>>
      BY <1>1 DEF ScanCard
    <2>3. CASE Skips(t, Card(Newest(t), exact), recent)
      BY <2>1, <2>2, <2>3, SkipFrontier
    <2>4. CASE ~Skips(t, Card(Newest(t), exact), recent)
      BY <2>1, <2>2, <2>4, PassFrontier
    <2> QED
      BY <2>3, <2>4
  <1> QED
    BY <1>1, StartFrontier, OffFrontier, ScanEndsFrontier, ResumeFrontier, IdleFrontier,
       FetchFrontier, ArriveFrontier DEF SyncNext

\* Stage 1 stops early only above threads that have nothing new, for any number
\* of threads, messages, runs, crashes and resumptions.
THEOREM EarlyExitIsSound == SyncSpec => []EarlyExitSound
  <1>1. SyncInit => FrontierInv
    BY FrontierStart
  <1>2. SyncInv /\ FrontierInv /\ [SyncNext]_syncVars => FrontierInv'
    BY FrontierStep
  <1>3. SyncInv /\ FrontierInv => EarlyExitSound
    BY FrontierMeans
  <1> QED
    BY <1>1, <1>2, <1>3, SyncInvariant, PTL DEF SyncSpec

-----------------------------------------------------------------------------
(* The types of the run as a whole.                                        *)

Counted == /\ marked \in BOOLEAN /\ touched \in BOOLEAN /\ narrow \in BOOLEAN
           /\ run.clean \in 0 .. 2
           /\ runs \in 0 .. MaxRuns

\* A scan that goes on has seen one clean card at most.
LEMMA CountedScan ==
    ASSUME SyncInv, Counted, ScanCard
    PROVE  Counted'
  <1>1. PICK t \in SyncThreads : \/ SkipCard(t, Card(Newest(t), exact))
                                \/ PassOn(t, Card(Newest(t), exact))
    BY DEF ScanCard, Below
  <1>2. run.clean \in 0 .. 1 /\ UNCHANGED <<marked, narrow, runs>>
    BY DEF Counted, ScanCard, Scanning
  <1>3. CASE SkipCard(t, Card(Newest(t), exact))
    <2>1. run'.clean = run.clean + 1 \/ run'.clean = run.clean
      BY <1>3, SkipFields
    <2>2. run'.clean \in 0 .. 2
      BY <1>2, <2>1
    <2> QED
      BY <1>2, <1>3, <2>2 DEF Counted, SkipCard
  <1>4. CASE PassOn(t, Card(Newest(t), exact))
    <2>1. run'.clean = 0 /\ touched' = touched
      BY <1>4, CardOfNewest, PassFields DEF PassOn
    <2> QED
      BY <1>2, <2>1 DEF Counted
  <1> QED
    BY <1>1, <1>3, <1>4

LEMMA CountedStep == SyncInv /\ Counted /\ [SyncNext]_syncVars => Counted'
  <1> SUFFICES ASSUME SyncInv, Counted, [SyncNext]_syncVars PROVE Counted'
    OBVIOUS
  <1>1. run \in RunRecords /\ MaxRuns \in Nat /\ runs \in 0 .. MaxRuns
    BY SyncAssumption DEF SyncInv, Shapes, Counted
  <1>2. ASSUME NEW limit \in Limits, StartRun(limit) PROVE Counted'
    <2>1. run'.clean = 0
      BY <1>2 DEF StartRun, Off
    <2> QED
      BY <1>1, <1>2, <2>1 DEF StartRun, Counted
  <1>3. CASE CacheHit \/ Complete \/ Stops
    <2>1. run'.clean = 0
      BY <1>3 DEF CacheHit, Complete, Stops, Off
    <2>2. /\ run'.clean \in 0 .. 2 /\ runs' \in 0 .. MaxRuns
          /\ narrow' \in BOOLEAN
      BY <1>3, <2>1 DEF CacheHit, Complete, Stops, Counted
    <2>3. CASE Complete
      BY <2>2, <2>3 DEF Complete, Counted
    <2>4. CASE CacheHit \/ Stops
      BY <2>2, <2>4 DEF CacheHit, Stops, Counted
    <2> QED
      BY <1>3, <2>3, <2>4
  <1>4. CASE ScanEnds
    <2>1. run'.clean = run.clean
      BY <1>1, <1>4 DEF ScanEnds, RunRecords
    <2>2. narrow' \in BOOLEAN
      <3> DEFINE narrowed == narrow \/ (Cardinality(run.seen) = run.limit /\ Below # {})
      <3>1. narrowed \in BOOLEAN
        BY Zenon
      <3>2. narrow' = narrowed \/ narrow' = narrow
        BY <1>4 DEF ScanEnds
      <3> HIDE DEF narrowed
      <3> QED
        BY <3>1, <3>2 DEF Counted
    <2> QED
      BY <1>4, <2>1, <2>2 DEF ScanEnds, Counted
  <1>5. CASE ResumeRun
    <2>1. run'.clean = 0
      BY <1>5 DEF ResumeRun, Off
    <2> QED
      BY <1>1, <1>5, <2>1 DEF ResumeRun, Counted
  <1>6. ASSUME NEW task \in run.tasks, FetchTask(task) \/ FailTask(task) PROVE Counted'
    <2>1. run'.clean = run.clean
      BY <1>1, <1>6 DEF FetchTask, FailTask, RunRecords
    <2> QED
      BY <1>6, <2>1 DEF FetchTask, FailTask, Counted
  <1>7. ASSUME NEW t \in SyncThreads, NEW said \in Utterances, NEW later \in BOOLEAN,
               Arrive(t, said, later)
        PROVE  Counted'
    BY <1>7 DEF Arrive, Counted
  <1>8. CASE NextDay \/ UNCHANGED syncVars
    BY <1>8 DEF NextDay, syncVars, Counted
  <1> QED
    BY <1>2, <1>3, <1>4, <1>5, <1>6, <1>7, <1>8, CountedScan DEF SyncNext

LEMMA CountedStart == SyncInit => Counted
  <1> SUFFICES ASSUME SyncInit PROVE Counted
    OBVIOUS
  <1>1. run.clean = 0 /\ runs = 0
    BY DEF SyncInit, Off
  <1>2. marked \in BOOLEAN /\ touched \in BOOLEAN /\ narrow \in BOOLEAN
    BY Zenon DEF SyncInit
  <1>3. runs \in 0 .. MaxRuns
    BY <1>1, SyncAssumption
  <1> QED
    BY <1>1, <1>2, <1>3 DEF Counted

\* What is counted and noted, with the bookkeeping, is the type of the module.
LEMMA CountedTypes == SyncInv /\ Counted => SyncTypeOK
  <1> SUFFICES ASSUME SyncInv, Counted PROVE SyncTypeOK
    OBVIOUS
  <1>1. \A t \in SyncThreads : rows[t].have \in 0 .. Len(chats[t])
    <2> TAKE t \in SyncThreads
    <2>1. rows[t].have \in Nat /\ rows[t].have <= Len(chats[t]) /\ Len(chats[t]) \in Nat
      BY NewestIs DEF SyncInv, Shapes, Genuine
    <2> QED
      BY <2>1
  <1>2. run.step \in {"off", "scan", "drain"} /\ run.seen \subseteq SyncThreads
    BY DEF SyncInv, Shapes, RunRecords
  <1>3. {marked, touched, narrow} \subseteq BOOLEAN
    BY Zenon DEF Counted
  <1> QED
    BY <1>1, <1>2, <1>3 DEF SyncInv, Shapes, Counted, SyncTypeOK

\* Rows, run and marks of a fetch have the shape the code gives them: no row has more
\* messages than the conversation, no scan counts a third clean card.
THEOREM SyncTypes == SyncSpec => []SyncTypeOK
  <1>1. SyncSpec => []Counted
    BY SyncInvariant, CountedStart, CountedStep, PTL DEF SyncSpec
  <1> QED
    BY <1>1, SyncInvariant, CountedTypes, PTL
=============================================================================
