---------------------------- MODULE OrdersProofs ----------------------------
(***************************************************************************)
(* The orders of the dashboard (RecommendationJobs), for any number of     *)
(* orders, threads and rows, restarts and killed engines, on both          *)
(* backends.                                                               *)
(*                                                                         *)
(* Whatever an order does to action_queue is a step of that module, so     *)
(* that its theorems hold here too (UsesQueue).  The invariant adds        *)
(* RegenMatches: the rows an open regeneration is about to reject are of   *)
(* the slot its new row takes, however late it commits and whatever other  *)
(* regenerations are open beside it.                                       *)
(***************************************************************************)
EXTENDS RecommendationJobs, ActionQueueProofs, SequenceTheorems, FiniteSetTheorems, TLAPS

-----------------------------------------------------------------------------
(* Orders of the dashboard.                                                *)

RegenMatches == \A e \in Engines : regen[e] # NoTx =>
    \A id \in regen[e].old : /\ queue[id].target_id = regen[e].row.target_id
                             /\ queue[id].queue_type = regen[e].row.queue_type

OrdersInv == QueueInv /\ JobsTypeOK /\ RegenMatches

-----------------------------------------------------------------------------
(* What the types say.                                                     *)

JobRow == [status : {"queued", "running", "completed", "failed"}, request : Requests]

\* The orders, one by one.
LEMMA JobFacts ==
    ASSUME JobsTypeOK, NEW j \in DOMAIN jobs
    PROVE  /\ j \in JobIds /\ jobs[j] \in JobRow
           /\ Request(j).type \in {"reply", "care"} /\ Request(j).threads \in Seq(Targets)
  <1>1. jobs \in Seq(JobRow) /\ Len(jobs) <= MaxJobs
    BY DEF JobsTypeOK, JobRow
  <1>2. Len(jobs) \in Nat /\ DOMAIN jobs = 1 .. Len(jobs)
    BY <1>1, LenProperties
  <1>3. j \in 1 .. Len(jobs) /\ MaxJobs \in Nat
    BY <1>2, JobsAssumption
  <1>4. j \in JobIds
    BY <1>1, <1>2, <1>3 DEF JobIds
  <1>5. jobs[j] \in JobRow
    BY <1>1, <1>3, ElementOfSeq
  <1>6. Request(j) \in Orders
    BY <1>5, JobsAssumption DEF Request, JobRow
  <1> QED
    BY <1>4, <1>5, <1>6 DEF Orders

\* A change of an order's status.
LEMMA StatusChanged ==
    ASSUME JobsTypeOK, NEW j \in DOMAIN jobs,
           NEW status \in {"queued", "running", "completed", "failed"},
           jobs' = [jobs EXCEPT ![j].status = status]
    PROVE  jobs' \in Seq(JobRow) /\ Len(jobs') = Len(jobs) /\ Len(jobs') <= MaxJobs
  <1>1. jobs \in Seq(JobRow) /\ Len(jobs) <= MaxJobs /\ DOMAIN jobs = 1 .. Len(jobs)
    BY LenProperties DEF JobsTypeOK, JobRow
  <1> DEFINE row == [jobs[j] EXCEPT !.status = status]
  <1>2. row \in JobRow
    BY JobFacts DEF JobRow
  <1>3. jobs' = [jobs EXCEPT ![j] = row]
    BY <1>1
  <1> HIDE DEF row
  <1> QED
    BY <1>1, <1>2, <1>3, ExceptSeq

\* The first thread that is left, and the others.
LEMMA TodoFacts ==
    ASSUME NEW todo \in Seq(Targets), todo # <<>>
    PROVE  Head(todo) \in Targets /\ Tail(todo) \in Seq(Targets)
  BY HeadTailProperties

\* A draft of the engine, and a template.
LEMMA DraftRows ==
    ASSUME NEW qtype \in OutboundQueueTypes, NEW target \in Targets, NEW kind \in Kinds
    PROVE  /\ \E text \in Texts, before \in Snapshots :
                  Drafted(qtype, target, kind) = Proposal(qtype, target, kind, text, before)
           /\ Drafted(qtype, target, kind) \in Row
           /\ Drafted(qtype, target, kind).status = "pending"
           /\ qtype \in QueueTypes
  <1>1. NoSnapshot \in Snapshots /\ (CHOOSE t \in Texts : TRUE) \in Texts /\ qtype \in QueueTypes
    BY SnapshotsAssumption, JobsAssumption, QueueTypesAssumption
  <1> QED
    BY <1>1, ProposalRow DEF Drafted

LEMMA MasRows ==
    ASSUME JobsTypeOK, NEW j \in DOMAIN jobs, child[j].todo # <<>>
    PROVE  \E qtype \in OutboundQueueTypes, target \in Targets, kind \in Kinds :
               MasRow(j) = Drafted(qtype, target, kind)
  <1>1. j \in JobIds
    BY JobFacts
  <1>2. Target(j) \in Targets
    BY <1>1, TodoFacts DEF JobsTypeOK, Target
  <1>3. Outbound(Request(j).type) \in OutboundQueueTypes
    BY JobFacts DEF Outbound, OutboundQueueTypes
  <1>4. PayloadKind(j) \in Kinds
    BY <1>1, JobsAssumption DEF PayloadKind
  <1> QED
    BY <1>2, <1>3, <1>4 DEF MasRow

LEMMA TemplateRows ==
    ASSUME JobsTypeOK, NEW j \in JobIds, server[j].step = "insert"
    PROVE  LET target == Head(server[j].todo)
           IN  /\ target \in Targets
               /\ TemplateRow(target) = Drafted("reply_message", target, ReplyKind("template"))
               /\ "reply_message" \in OutboundQueueTypes /\ ReplyKind("template") \in Kinds
  <1>1. Head(server[j].todo) \in Targets
    BY TodoFacts DEF JobsTypeOK
  <1> QED
    BY <1>1, JobsAssumption DEF TemplateRow, OutboundQueueTypes

-----------------------------------------------------------------------------
(* Every order uses the queue by its operations.                           *)

\* An INSERT, or the opening of a regeneration, of a draft.
LEMMA ProposesStep ==
    ASSUME NEW qtype \in OutboundQueueTypes, NEW target \in Targets, NEW kind \in Kinds,
           \/ EnqueueAction(Drafted(qtype, target, kind))
           \/ \E e \in Engines : ReplaceSelect(e, Drafted(qtype, target, kind))
    PROVE  Propose
  BY DraftRows DEF Propose

LEMMA RunUsesQueue ==
    ASSUME JobsTypeOK, NEW j \in DOMAIN jobs, JobRuns(j)
    PROVE  QueueNext \/ UNCHANGED queueVars
  <1>1. j \in JobIds /\ j \in Engines
    BY JobFacts, JobsAssumption
  <1>2. CASE Insert(j)
    <2>1. PICK qtype \in OutboundQueueTypes, target \in Targets, kind \in Kinds :
              MasRow(j) = Drafted(qtype, target, kind)
      BY <1>2, MasRows DEF Insert, At
    <2> QED
      BY <1>1, <1>2, <2>1, ProposesStep DEF Insert, QueueNext
  <1>3. CASE TemplateInsert(j)
    <2>1. PICK target \in Targets, kind \in Kinds :
              /\ \/ EnqueueAction(Drafted("reply_message", target, kind))
                 \/ UNCHANGED queueVars
      BY <1>1, <1>3, TemplateRows DEF TemplateInsert
    <2> QED
      BY <2>1, ProposesStep DEF QueueNext, OutboundQueueTypes
  <1>4. CASE Commit(j) \/ Timeout(j)
    BY <1>1, <1>4 DEF Commit, Timeout, QueueNext, Replace
  <1>5. CASE \/ ClaimJob(j) \/ Launch(j) \/ EngineEnded(j) \/ DatabaseFails(j)
            \/ Guarded(j) \/ Llm(j) \/ EngineDone(j)
    BY <1>5 DEF ClaimJob, Launch, EngineEnded, DatabaseFails, Guarded, Llm, EngineDone
  <1>6. CASE TemplateLook(j) \/ TemplateDone(j)
    BY <1>6 DEF TemplateLook, TemplateDone
  <1> QED
    BY <1>2, <1>3, <1>4, <1>5, <1>6 DEF JobRuns

LEMMA NextUsesQueue ==
    ASSUME JobsTypeOK, [JobsNext]_recommendationVars
    PROVE  [QueueNext]_queueVars
  <1>1. CASE UNCHANGED recommendationVars
    BY <1>1 DEF recommendationVars
  <1>2. ASSUME NEW request, PostJob(request)
        PROVE  UNCHANGED queueVars
    BY <1>2 DEF PostJob
  <1>3. CASE ServerDies
    BY <1>3 DEF ServerDies
  <1>4. ASSUME NEW id \in Rows, Delivers(id)
        PROVE  QueueNext
    BY <1>4 DEF Delivers, QueueNext, Work, OutboundQueueTypes
  <1>5. Decide => QueueNext
    BY DEF QueueNext
  <1> QED
    BY <1>1, <1>2, <1>3, <1>4, <1>5, RunUsesQueue DEF JobsNext

-----------------------------------------------------------------------------
(* The types of the orders.                                                *)

ChildRow == [step : {"none", "guard", "llm", "insert", "commit", "ok", "error"},
             todo : Seq(Targets)]
ServerRow == [step : {"none", "launch", "engine", "template", "insert"}, todo : Seq(Targets)]

LEMMA JobsParts ==
    JobsTypeOK <=> /\ jobs \in Seq(JobRow) /\ Len(jobs) <= MaxJobs
                   /\ child \in [JobIds -> ChildRow]
                   /\ server \in [JobIds -> ServerRow]
                   /\ \A j \in JobIds : server[j].step = "insert" => server[j].todo # <<>>
                   /\ failures \in 0 .. MaxFailures
  BY DEF JobsTypeOK, JobRow, ChildRow, ServerRow

\* The engine goes to another step, or on to the next thread.
LEMMA ChildGoes ==
    ASSUME JobsTypeOK, NEW j \in JobIds,
           \/ \E step \in {"guard", "llm", "insert", "commit", "ok", "error"} : Goes(j, step)
           \/ child[j].todo # <<>> /\ Skip(j)
    PROVE  child' \in [JobIds -> ChildRow]
  <1>1. child \in [JobIds -> ChildRow]
    BY JobsParts
  <1>2. ASSUME NEW step \in {"guard", "llm", "insert", "commit", "ok", "error"}, Goes(j, step)
        PROVE  child' \in [JobIds -> ChildRow]
    BY <1>1, <1>2 DEF Goes, ChildRow
  <1>3. ASSUME child[j].todo # <<>>, Skip(j)
        PROVE  child' \in [JobIds -> ChildRow]
    <2> DEFINE rest == Tail(child[j].todo)
               row == [step |-> "guard", todo |-> rest]
    <2>1. rest \in Seq(Targets)
      BY <1>1, <1>3, TodoFacts DEF ChildRow
    <2>2. child' = [child EXCEPT ![j] = row]
      BY <1>1, <1>3 DEF Skip, ChildRow
    <2>3. row \in ChildRow
      BY <2>1 DEF ChildRow
    <2> HIDE DEF row
    <2> QED
      BY <1>1, <2>2, <2>3
  <1> QED
    BY <1>2, <1>3

\* The server goes to another step, with what is left to do or fewer threads.
LEMMA ServerGoes ==
    ASSUME JobsTypeOK, NEW j \in JobIds, NEW row \in ServerRow,
           row.step = "insert" => row.todo # <<>>,
           server' = [server EXCEPT ![j] = row]
    PROVE  /\ server' \in [JobIds -> ServerRow]
           /\ \A i \in JobIds : server'[i].step = "insert" => server'[i].todo # <<>>
  BY JobsParts

LEMMA ServerSteps ==
    ASSUME JobsTypeOK, NEW j \in JobIds, NEW step \in {"none", "launch", "engine", "template"},
           server' = [server EXCEPT ![j].step = step]
    PROVE  /\ server' \in [JobIds -> ServerRow]
           /\ \A i \in JobIds : server'[i].step = "insert" => server'[i].todo # <<>>
  <1> DEFINE row == [step |-> step, todo |-> server[j].todo]
  <1>1. server[j] \in ServerRow /\ server \in [JobIds -> ServerRow]
    BY JobsParts
  <1>2. row \in ServerRow /\ row.step # "insert"
    BY <1>1 DEF ServerRow
  <1>3. server' = [server EXCEPT ![j] = row]
    <2>1. [server[j] EXCEPT !.step = step] = row
      BY <1>1 DEF ServerRow
    <2>2. server' = [server EXCEPT ![j] = [server[j] EXCEPT !.step = step]]
      BY <1>1
    <2> QED
      BY <2>1, <2>2
  <1> HIDE DEF row
  <1> QED
    BY <1>2, <1>3, ServerGoes

\* An order is posted, launched, ended, timed out; the server dies.
LEMMA ServerTypes ==
    ASSUME JobsTypeOK,
           \/ \E request \in Requests : PostJob(request)
           \/ \E j \in DOMAIN jobs : \/ ClaimJob(j) \/ Launch(j) \/ EngineEnded(j)
                                     \/ DatabaseFails(j) \/ Timeout(j)
           \/ ServerDies
    PROVE  JobsTypeOK'
  <1>1. /\ jobs \in Seq(JobRow) /\ Len(jobs) <= MaxJobs
        /\ child \in [JobIds -> ChildRow] /\ server \in [JobIds -> ServerRow]
        /\ \A j \in JobIds : server[j].step = "insert" => server[j].todo # <<>>
        /\ failures \in 0 .. MaxFailures
    BY JobsParts
  <1>2. ASSUME NEW request \in Requests, PostJob(request)
        PROVE  JobsTypeOK'
    <2> DEFINE row == [status |-> "queued", request |-> request]
    <2>1. row \in JobRow
      BY DEF JobRow
    <2>2. /\ jobs' = Append(jobs, row) /\ Len(jobs) < MaxJobs
          /\ UNCHANGED <<child, server, failures>>
      BY <1>2 DEF PostJob
    <2> HIDE DEF row
    <2>3. jobs' \in Seq(JobRow) /\ Len(jobs') = Len(jobs) + 1
      BY <1>1, <2>1, <2>2, AppendProperties
    <2>4. Len(jobs) \in Nat /\ MaxJobs \in Nat
      BY <1>1, LenProperties, JobsAssumption
    <2>5. Len(jobs') <= MaxJobs
      BY <2>2, <2>3, <2>4
    <2> QED
      BY <1>1, <2>2, <2>3, <2>5, JobsParts DEF JobsTypeOK, JobRow, ChildRow, ServerRow
  <1>3. ASSUME NEW j \in DOMAIN jobs, ClaimJob(j)
        PROVE  JobsTypeOK'
    <2>1. j \in JobIds
      BY JobFacts
    <2>2. jobs' \in Seq(JobRow) /\ Len(jobs') <= MaxJobs
      BY <1>3, StatusChanged DEF ClaimJob
    <2>3. /\ server' \in [JobIds -> ServerRow]
          /\ \A i \in JobIds : server'[i].step = "insert" => server'[i].todo # <<>>
      BY <1>3, <2>1, ServerSteps DEF ClaimJob
    <2>4. child' = child /\ failures' = failures
      BY <1>3 DEF ClaimJob
    <2> QED
      BY <1>1, <2>2, <2>3, <2>4 DEF JobsTypeOK, JobRow, ChildRow, ServerRow
  <1>7. ASSUME NEW j \in DOMAIN jobs, Launch(j)
        PROVE  JobsTypeOK'
    <2>1. j \in JobIds /\ Request(j).threads \in Seq(Targets)
      BY JobFacts
    <2>2. /\ server' \in [JobIds -> ServerRow]
          /\ \A i \in JobIds : server'[i].step = "insert" => server'[i].todo # <<>>
      BY <1>7, <2>1, ServerSteps DEF Launch
    <2>3. child' \in [JobIds -> ChildRow]
      <3> DEFINE row == [step |-> "guard", todo |-> Request(j).threads]
      <3>1. row \in ChildRow /\ child' = [child EXCEPT ![j] = row]
        BY <1>7, <2>1 DEF ChildRow, Launch
      <3> HIDE DEF row
      <3> QED
        BY <1>1, <3>1
    <2>4. jobs' = jobs /\ failures' = failures
      BY <1>7 DEF Launch
    <2> QED
      BY <1>1, <2>2, <2>3, <2>4 DEF JobsTypeOK, JobRow, ChildRow, ServerRow
  <1>8. ASSUME NEW j \in DOMAIN jobs, DatabaseFails(j)
        PROVE  JobsTypeOK'
    <2>1. j \in JobIds
      BY JobFacts
    <2>2. failures' \in 0 .. MaxFailures
      <3>1. failures < MaxFailures /\ failures' = failures + 1 /\ MaxFailures \in Nat
        BY <1>8, JobsAssumption DEF DatabaseFails
      <3> QED
        BY <1>1, <3>1
    <2>3. jobs' \in Seq(JobRow) /\ Len(jobs') <= MaxJobs
      BY <1>1, <1>8, StatusChanged DEF DatabaseFails, Ends
    <2>4. /\ server' \in [JobIds -> ServerRow]
          /\ \A i \in JobIds : server'[i].step = "insert" => server'[i].todo # <<>>
      BY <1>8, <2>1, ServerSteps DEF DatabaseFails, Ends
    <2>5. child' = child
      BY <1>8 DEF DatabaseFails
    <2> QED
      BY <1>1, <2>2, <2>3, <2>4, <2>5 DEF JobsTypeOK, JobRow, ChildRow, ServerRow
  <1>4. ASSUME NEW j \in DOMAIN jobs, EngineEnded(j)
        PROVE  JobsTypeOK'
    <2>1. j \in JobIds /\ Request(j).threads \in Seq(Targets)
      BY JobFacts
    <2>2. child' = child /\ failures' = failures
      BY <1>4 DEF EngineEnded
    <2>3. ASSUME NEW status \in {"completed", "failed"}, Ends(j, status)
          PROVE  JobsTypeOK'
      <3>1. jobs' \in Seq(JobRow) /\ Len(jobs') <= MaxJobs
        BY <2>3, StatusChanged DEF Ends
      <3>2. /\ server' \in [JobIds -> ServerRow]
            /\ \A i \in JobIds : server'[i].step = "insert" => server'[i].todo # <<>>
        BY <2>1, <2>3, ServerSteps DEF Ends
      <3> QED
        BY <1>1, <2>2, <3>1, <3>2 DEF JobsTypeOK, JobRow, ChildRow, ServerRow
    <2>4. ASSUME server' = [server EXCEPT ![j] = [step |-> "template",
                                                  todo |-> Request(j).threads]],
                 jobs' = jobs
          PROVE  JobsTypeOK'
      <3> DEFINE row == [step |-> "template", todo |-> Request(j).threads]
      <3>1. row \in ServerRow /\ row.step # "insert"
        BY <2>1 DEF ServerRow
      <3> HIDE DEF row
      <3>2. /\ server' \in [JobIds -> ServerRow]
            /\ \A i \in JobIds : server'[i].step = "insert" => server'[i].todo # <<>>
        BY <2>1, <2>4, <3>1, ServerGoes DEF row
      <3> QED
        BY <1>1, <2>2, <2>4, <3>2 DEF JobsTypeOK, JobRow, ChildRow, ServerRow
    <2> QED
      BY <1>4, <2>3, <2>4 DEF EngineEnded
  <1>5. ASSUME NEW j \in DOMAIN jobs, Timeout(j)
        PROVE  JobsTypeOK'
    <2>1. j \in JobIds
      BY JobFacts
    <2>2. child' \in [JobIds -> ChildRow] /\ UNCHANGED <<jobs, server, failures>>
      BY <1>5, <2>1, ChildGoes DEF Timeout, Goes
    <2> QED
      BY <1>1, <2>2 DEF JobsTypeOK, JobRow, ChildRow, ServerRow
  <1>6. CASE ServerDies
    <2>1. /\ server' = [j \in JobIds |-> [step |-> "none", todo |-> <<>>]]
          /\ UNCHANGED <<jobs, child>>
      BY <1>6 DEF ServerDies
    <2>2. failures' \in 0 .. MaxFailures
      <3>1. failures < MaxFailures /\ failures' = failures + 1 /\ MaxFailures \in Nat
        BY <1>6, JobsAssumption DEF ServerDies
      <3> QED
        BY <1>1, <3>1
    <2>3. [step |-> "none", todo |-> <<>>] \in ServerRow
      BY EmptySeq DEF ServerRow
    <2>4. /\ server' \in [JobIds -> ServerRow]
          /\ \A j \in JobIds : server'[j].step # "insert"
      BY <2>1, <2>3
    <2> QED
      BY <1>1, <2>1, <2>2, <2>4 DEF JobsTypeOK, JobRow, ChildRow, ServerRow
  <1> QED
    BY <1>2, <1>3, <1>4, <1>5, <1>6, <1>7, <1>8

\* The engine's steps.
LEMMA EngineTypes ==
    ASSUME JobsTypeOK, NEW j \in DOMAIN jobs,
           Guarded(j) \/ Llm(j) \/ Insert(j) \/ Commit(j) \/ EngineDone(j)
    PROVE  JobsTypeOK'
  <1>1. j \in JobIds
    BY JobFacts
  <1>2. \/ \E step \in {"guard", "llm", "insert", "commit", "ok", "error"} : Goes(j, step)
        \/ child[j].todo # <<>> /\ Skip(j)
    BY DEF Guarded, Llm, Insert, Commit, EngineDone, At
  <1>3. child' \in [JobIds -> ChildRow]
    BY <1>1, <1>2, ChildGoes
  <1>4. UNCHANGED <<jobs, server, failures>>
    BY DEF Guarded, Llm, Insert, Commit, EngineDone
  <1> QED
    BY <1>3, <1>4, JobsParts DEF JobsTypeOK, JobRow, ChildRow, ServerRow

\* The templates.
LEMMA TemplateTypes ==
    ASSUME JobsTypeOK, NEW j \in DOMAIN jobs,
           TemplateLook(j) \/ TemplateInsert(j) \/ TemplateDone(j)
    PROVE  JobsTypeOK'
  <1>1. j \in JobIds
    BY JobFacts
  <1>2. child' = child /\ failures' = failures
    BY DEF TemplateLook, TemplateInsert, TemplateDone
  <1>3. /\ jobs \in Seq(JobRow) /\ Len(jobs) <= MaxJobs /\ failures \in 0 .. MaxFailures
        /\ child \in [JobIds -> ChildRow] /\ server \in [JobIds -> ServerRow]
        /\ server[j].step = "insert" => server[j].todo # <<>>
    BY <1>1, JobsParts
  <1>4. ASSUME NEW row \in ServerRow, row.step = "insert" => row.todo # <<>>,
               server' = [server EXCEPT ![j] = row], jobs' = jobs
        PROVE  JobsTypeOK'
    <2>1. /\ server' \in [JobIds -> ServerRow]
          /\ \A i \in JobIds : server'[i].step = "insert" => server'[i].todo # <<>>
      BY <1>1, <1>4, ServerGoes
    <2> QED
      BY <1>2, <1>3, <1>4, <2>1 DEF JobsTypeOK, JobRow, ChildRow, ServerRow
  <1>5. ASSUME NEW status \in {"completed", "failed"}, Ends(j, status)
        PROVE  JobsTypeOK'
    <2>1. jobs' \in Seq(JobRow) /\ Len(jobs') <= MaxJobs
      BY <1>5, StatusChanged DEF Ends
    <2>2. /\ server' \in [JobIds -> ServerRow]
          /\ \A i \in JobIds : server'[i].step = "insert" => server'[i].todo # <<>>
      BY <1>1, <1>5, ServerSteps DEF Ends
    <2> QED
      BY <1>2, <1>3, <2>1, <2>2 DEF JobsTypeOK, JobRow, ChildRow, ServerRow
  <1> DEFINE todo == server[j].todo
             rest == [step |-> "template", todo |-> Tail(todo)]
             insert == [step |-> "insert", todo |-> todo]
  <1>6. server[j] \in ServerRow /\ server[j] = [step |-> server[j].step, todo |-> todo]
    BY <1>1, <1>3 DEF ServerRow
  <1>7. todo # <<>> => rest \in ServerRow /\ insert \in ServerRow
    BY <1>6, TodoFacts DEF ServerRow
  <1>8. CASE TemplateLook(j)
    <2>1. todo # <<>> /\ server[j].step = "template" /\ jobs' = jobs
      BY <1>8 DEF TemplateLook
    <2>2. \/ server' = [server EXCEPT ![j].todo = Tail(@)]
          \/ server' = [server EXCEPT ![j].step = "insert"]
      BY <1>8 DEF TemplateLook
    <2>3. \/ server' = [server EXCEPT ![j] = [server[j] EXCEPT !.todo = Tail(todo)]]
          \/ server' = [server EXCEPT ![j] = [server[j] EXCEPT !.step = "insert"]]
      BY <1>1, <1>3, <2>2
    <2>4. /\ [server[j] EXCEPT !.todo = Tail(todo)] = rest
          /\ [server[j] EXCEPT !.step = "insert"] = insert
      BY <1>6, <2>1 DEF ServerRow
    <2>5. server' = [server EXCEPT ![j] = rest] \/ server' = [server EXCEPT ![j] = insert]
      BY <2>3, <2>4
    <2>6. rest.step # "insert" /\ insert.todo # <<>>
      BY <2>1
    <2> HIDE DEF rest, insert
    <2> QED
      BY <1>4, <1>7, <2>1, <2>5, <2>6
  <1>9. CASE TemplateInsert(j)
    <2>1. todo # <<>>
      BY <1>3, <1>9 DEF TemplateInsert
    <2>2. \/ Ends(j, "failed")
          \/ /\ jobs' = jobs
             /\ server' = [server EXCEPT ![j].step = "template", ![j].todo = Tail(@)]
      BY <1>9 DEF TemplateInsert
    <2>3. CASE /\ jobs' = jobs
               /\ server' = [server EXCEPT ![j].step = "template", ![j].todo = Tail(@)]
      <3>1. server' = [server EXCEPT ![j] = [server[j] EXCEPT !.step = "template",
                                                              !.todo = Tail(todo)]]
        BY <1>1, <1>3, <2>3
      <3>2. [server[j] EXCEPT !.step = "template", !.todo = Tail(todo)] = rest
        <4> DEFINE was == server[j].step
                   left == Tail(todo)
        <4> SUFFICES [server[j] EXCEPT !.step = "template", !.todo = left]
                         = [step |-> "template", todo |-> left]
          OBVIOUS
        <4> HIDE DEF todo, was, left
        <4>1. server[j] = [step |-> was, todo |-> todo]
          BY <1>6 DEF was
        <4>2. [[step |-> was, todo |-> todo] EXCEPT !.step = "template"]
                  = [step |-> "template", todo |-> todo]
          OBVIOUS
        <4>3. [[step |-> "template", todo |-> todo] EXCEPT !.todo = left]
                  = [step |-> "template", todo |-> left]
          OBVIOUS
        <4> QED
          BY <4>1, <4>2, <4>3
      <3>3. rest.step # "insert" /\ server' = [server EXCEPT ![j] = rest]
        BY <3>1, <3>2
      <3> HIDE DEF rest
      <3> QED
        BY <1>4, <1>7, <2>1, <2>3, <3>3
    <2> QED
      BY <1>5, <2>2, <2>3
  <1> QED
    BY <1>5, <1>8, <1>9 DEF TemplateDone

\* Every step keeps them.
LEMMA TypesKept == JobsTypeOK /\ [JobsNext]_recommendationVars => JobsTypeOK'
  <1>1. ASSUME JobsTypeOK, UNCHANGED jobVars
        PROVE  JobsTypeOK'
    BY <1>1 DEF JobsTypeOK, jobVars
  <1> QED
    BY <1>1, ServerTypes, EngineTypes, TemplateTypes
       DEF JobsNext, JobRuns, Delivers, recommendationVars

-----------------------------------------------------------------------------
(* The open regeneration.                                                  *)

\* A row keeps its recipient and its queue.
SameTargets ==
    \A id \in Rows : /\ queue'[id].target_id = queue[id].target_id
                     /\ queue'[id].queue_type = queue[id].queue_type

LEMMA UpdatedTargets ==
    ASSUME QueueTypeOK, NEW table, Updates(table),
           \/ queue' = table
           \/ \E row \in Row : queue' = Inserted(table, row)
    PROVE  SameTargets
  <1>1. lastId \in Nat /\ table \in [Rows -> Row]
    BY MaxIdAssumption DEF QueueTypeOK, Updates
  <1>2. \A id \in Rows : queue'[id] = table[id]
    BY <1>1, InsertedRow
  <1> QED
    BY <1>2 DEF Updates, SameTargets

\* No step of the queue moves a row to another recipient or queue.
LEMMA TargetsStay ==
    ASSUME QueueInv, [QueueNext]_queueVars
    PROVE  SameTargets
  <1>1. QueueTypeOK /\ queue \in [Rows -> Row]
    BY DEF QueueInv, QueueTypeOK
  <1>2. Updates(queue)
    BY <1>1 DEF Updates
  <1>3. CASE queue' = queue
    BY <1>3 DEF SameTargets
  <1>4. CASE Propose
    <2>1. PICK row \in Row : EnqueueAction(row) \/ \E e \in Engines : ReplaceSelect(e, row)
      BY <1>4, ProposalRow DEF Propose
    <2> QED
      BY <1>1, <1>2, <1>3, <2>1, UpdatedTargets DEF EnqueueAction, ReplaceSelect
  <1>5. ASSUME NEW e \in Engines, ReplaceCommit(e)
        PROVE  SameTargets
    <2>1. regen[e].row \in Row
      BY <1>1, <1>5, OpenTx DEF ReplaceCommit
    <2> QED
      BY <1>1, <1>5, <2>1, RejectedUpdates, UpdatedTargets DEF ReplaceCommit, NoneLivelier
  <1>6. CASE Decide
    <2>1. PICK id \in Rows : queue' = SetApproved(id)
                            \/ \E status \in {"rejected", "deleted"} : queue' = SetStatus(id, status)
      BY <1>6 DEF Decide, ApproveAction, RejectAction, WebApprove, WebReject, WebReprocess, WebDelete
    <2> QED
      BY <1>1, <2>1, SetApprovedUpdates, SetStatusUpdates, StatusesWritten, UpdatedTargets
  <1>7. CASE Work
    <2>1. PICK id \in Rows :
            \/ \E qtype \in OutboundQueueTypes : ClaimSelect(id, qtype)
            \/ \E outcome \in {"executed", "failed"} : FinishAction(id, outcome)
            \/ \E outcome \in {"drafted", "outdated"} : SetDelivery(id, outcome)
            \/ \E outcome \in {"completed", "needs_review"} : RefreshWrite(id, outcome)
      BY <1>7 DEF Work
    <2>2. ASSUME NEW qtype, ClaimSelect(id, qtype) PROVE SameTargets
      BY <1>3, <2>2 DEF ClaimSelect
    <2>3. ASSUME NEW outcome \in {"executed", "failed"}, FinishAction(id, outcome)
          PROVE  SameTargets
      <3>1. queue' = queue \/ queue' = SetStatus(id, outcome)
        BY <2>3 DEF FinishAction
      <3> QED
        BY <1>1, <1>3, <3>1, SetStatusUpdates, StatusesWritten, UpdatedTargets
    <2>4. ASSUME NEW outcome, SetDelivery(id, outcome) PROVE SameTargets
      BY <1>1, <2>4 DEF SetDelivery, SameTargets, Row
    <2>5. ASSUME NEW outcome, RefreshWrite(id, outcome) PROVE SameTargets
      BY <1>1, <2>5 DEF RefreshWrite, SameTargets, Row
    <2> QED
      BY <2>1, <2>2, <2>3, <2>4, <2>5
  <1>8. CASE ClaimUpdate
    <2>1. claim \in Rows /\ (queue' = queue \/ queue' = SetStatus(claim, "executing"))
      BY <1>1, <1>8 DEF QueueTypeOK, ClaimUpdate
    <2> QED
      BY <1>1, <1>3, <2>1, SetStatusUpdates, StatusesWritten, UpdatedTargets
  <1> QED
    BY <1>3, <1>4, <1>5, <1>6, <1>7, <1>8
       DEF QueueNext, Replace, ReplaceRollback, ClaimRollback, queueVars

\* So an open regeneration goes on naming rows of the slot it fills.
LEMMA RegenKept ==
    ASSUME QueueInv, RegenMatches, [QueueNext]_queueVars
    PROVE  RegenMatches'
  <1>1. SameTargets
    BY TargetsStay
  <1>2. QueueTypeOK /\ regen \in [Engines -> Txs]
    BY DEF QueueInv, QueueTypeOK
  <1>3. ASSUME NEW e \in Engines, regen'[e] = regen[e], regen[e] # NoTx
        PROVE  \A id \in regen'[e].old : /\ queue'[id].target_id = regen'[e].row.target_id
                                         /\ queue'[id].queue_type = regen'[e].row.queue_type
    BY <1>1, <1>2, <1>3, OpenTx DEF RegenMatches, SameTargets
  <1>4. CASE \/ regen' = regen
            \/ \E e \in Engines : regen' = [regen EXCEPT ![e] = NoTx]
    <2>1. \A e \in Engines : regen'[e] \in {regen[e], NoTx}
      BY <1>2, <1>4
    <2> QED
      BY <1>3, <2>1 DEF RegenMatches
  <1>5. ASSUME NEW e \in Engines, NEW row, ReplaceSelect(e, row)
        PROVE  RegenMatches'
    <2> DEFINE tx == [open |-> TRUE, row |-> row, old |-> Superseded(row)]
    <2>1. regen' = [regen EXCEPT ![e] = tx] /\ queue' = queue
      BY <1>5 DEF ReplaceSelect
    <2>2. \A id \in tx.old : /\ queue[id].target_id = tx.row.target_id
                             /\ queue[id].queue_type = tx.row.queue_type
      BY DEF Superseded
    <2> HIDE DEF tx
    <2>3. regen'[e] = tx /\ \A other \in Engines : other # e => regen'[other] = regen[other]
      BY <1>2, <2>1
    <2> QED
      BY <1>3, <2>1, <2>2, <2>3 DEF RegenMatches
  <1>6. \/ regen' = regen
        \/ \E e \in Engines : regen' = [regen EXCEPT ![e] = NoTx]
        \/ \E e \in Engines : \E row : ReplaceSelect(e, row)
    BY DEF QueueNext, queueVars, Propose, EnqueueAction, Replace, ReplaceCommit, ReplaceRollback,
           Decide, ApproveAction, RejectAction, WebApprove, WebReject, WebReprocess, WebDelete,
           Work, ClaimSelect, FinishAction, SetDelivery, RefreshWrite, ClaimUpdate, ClaimRollback
  <1> QED
    BY <1>4, <1>5, <1>6

-----------------------------------------------------------------------------
(* The theorems.                                                           *)

\* What a step of a job does to the table: nothing, an INSERT, or the commit of
\* a regeneration.
LEMMA RunWrites ==
    ASSUME JobsTypeOK, NEW j \in DOMAIN jobs, JobRuns(j)
    PROVE  \/ UNCHANGED <<queue, lastId>>
           \/ \E row \in Row : EnqueueAction(row) /\ row.status = "pending"
           \/ \E e \in Engines : ReplaceCommit(e)
  <1>1. j \in JobIds /\ j \in Engines
    BY JobFacts, JobsAssumption
  <1>2. CASE Insert(j)
    <2>1. MasRow(j) \in Row /\ MasRow(j).status = "pending"
      BY <1>2, MasRows, DraftRows DEF Insert, At
    <2> QED
      BY <1>2, <2>1 DEF Insert, ReplaceSelect, queueVars
  <1>3. CASE TemplateInsert(j)
    <2> DEFINE row == TemplateRow(Head(server[j].todo))
    <2>1. EnqueueAction(row) \/ UNCHANGED queueVars
      BY <1>3 DEF TemplateInsert
    <2>2. row \in Row /\ row.status = "pending"
      BY <1>1, <1>3, TemplateRows, DraftRows DEF TemplateInsert
    <2> QED
      BY <2>1, <2>2 DEF queueVars
  <1>4. CASE Commit(j) \/ Timeout(j)
    BY <1>1, <1>4 DEF Commit, Timeout, ReplaceRollback, queueVars
  <1>5. CASE \/ ClaimJob(j) \/ Launch(j) \/ EngineEnded(j) \/ DatabaseFails(j)
            \/ Guarded(j) \/ Llm(j) \/ EngineDone(j)
    BY <1>5 DEF ClaimJob, Launch, EngineEnded, DatabaseFails, Guarded, Llm, EngineDone, queueVars
  <1>6. CASE TemplateLook(j) \/ TemplateDone(j)
    BY <1>6 DEF TemplateLook, TemplateDone, queueVars
  <1> QED
    BY <1>2, <1>3, <1>4, <1>5, <1>6 DEF JobRuns

\* A live draft of the recipient is kept, or another one takes its place.
LEMMA DraftStays ==
    ASSUME OrdersInv, NEW j \in DOMAIN jobs, JobRuns(j), NEW target, NEW qtype,
           LiveRow(target, qtype) # {}
    PROVE  LiveRow(target, qtype)' # {}
  <1>1. PICK id \in Rows : /\ queue[id].target_id = target /\ queue[id].queue_type = qtype
                          /\ Live(queue[id])
    BY DEF LiveRow
  <1>2. QueueTypeOK /\ JobsTypeOK /\ RegenMatches /\ PendingRegen
    BY DEF OrdersInv, QueueInv
  <1>3. lastId \in Nat /\ queue \in [Rows -> Row]
    BY <1>2, MaxIdAssumption DEF QueueTypeOK
  <1>4. CASE UNCHANGED <<queue, lastId>>
    BY <1>1, <1>4 DEF LiveRow, Rows
  <1>5. ASSUME NEW row \in Row, EnqueueAction(row)
        PROVE  LiveRow(target, qtype)' # {}
    <2>1. queue'[id] = queue[id] /\ id \in Rows'
      BY <1>1, <1>3, <1>5, InsertedRow DEF EnqueueAction, Rows
    <2> QED
      BY <1>1, <2>1 DEF LiveRow
  <1>6. ASSUME NEW e \in Engines, ReplaceCommit(e)
        PROVE  LiveRow(target, qtype)' # {}
    <2> DEFINE table == Rejected(regen[e].old)
               new == lastId + 1
    <2>1. regen[e].row \in Row /\ regen[e].row.status = "pending" /\ regen[e] # NoTx
      BY <1>2, <1>6, OpenTx DEF PendingRegen, ReplaceCommit
    <2>2. table \in [Rows -> Row]
      BY <1>2, RejectedUpdates DEF NoneLivelier, Updates
    <2>3. /\ queue' = Inserted(table, regen[e].row) /\ Rows' = 1 .. new
          /\ id \in Rows' /\ new \in Rows'
      BY <1>1, <1>3, <1>6 DEF ReplaceCommit, Rows
    <2>4. queue'[new] = regen[e].row /\ queue'[id] = table[id]
      BY <1>1, <1>3, <2>1, <2>2, <2>3, InsertedRow
    <2>5. CASE id \in regen[e].old
      <3>1. /\ queue'[new].target_id = target /\ queue'[new].queue_type = qtype
            /\ queue'[new].status = "pending"
        BY <1>1, <1>2, <2>1, <2>4, <2>5 DEF RegenMatches
      <3> QED
        BY <2>3, <3>1 DEF LiveRow, Live, TerminalStatuses
    <2>6. CASE id \notin regen[e].old
      <3>1. queue'[id] = queue[id]
        BY <1>1, <2>4, <2>6 DEF Rejected
      <3> QED
        BY <1>1, <2>3, <3>1 DEF LiveRow
    <2> QED
      BY <2>5, <2>6
  <1> QED
    BY <1>2, <1>4, <1>5, <1>6, RunWrites

\* The invariant holds at the start, and every step keeps it.
LEMMA OrdersStart == JobsInit => OrdersInv
  <1> SUFFICES ASSUME JobsInit PROVE OrdersInv
    OBVIOUS
  <1>1. QueueInv /\ RegenMatches
    BY InitInv DEF JobsInit, RegenMatches, QueueInit
  <1>2. JobsTypeOK
    <2>1. /\ jobs \in Seq(JobRow) /\ Len(jobs) = 0
          /\ NoChild \in ChildRow /\ [step |-> "none", todo |-> <<>>] \in ServerRow
      BY EmptySeq DEF JobsInit, NoChild, ChildRow, ServerRow
    <2>2. 0 \in 0 .. MaxFailures /\ 0 <= MaxJobs
      BY JobsAssumption
    <2>3. /\ child \in [JobIds -> ChildRow] /\ server \in [JobIds -> ServerRow]
          /\ \A j \in JobIds : server[j].step # "insert"
      BY <2>1 DEF JobsInit
    <2> QED
      BY <2>1, <2>2, <2>3, JobsParts DEF JobsInit
  <1> QED
    BY <1>1, <1>2 DEF OrdersInv

LEMMA OrdersStep == OrdersInv /\ [JobsNext]_recommendationVars => OrdersInv'
  BY NextUsesQueue, NextInv, TypesKept, RegenKept DEF OrdersInv

\* The inductive invariant holds throughout.
THEOREM OrdersInvariant == JobsSpec => []OrdersInv
  BY OrdersStart, OrdersStep, PTL DEF JobsSpec

\* The queue and the orders are well-typed: an engine or a template run names
\* threads only, and a template that is about to be inserted has one.
THEOREM OrdersTypes == JobsSpec => []OrdersTypeOK
  <1>1. OrdersInv => OrdersTypeOK
    BY DEF OrdersInv, QueueInv, OrdersTypeOK
  <1> QED
    BY <1>1, OrdersInvariant, PTL

\* Orders, engines, templates and the deliveries beside them use the queue by its
\* operations only: what ActionQueue promises holds for them.
THEOREM UsesQueue == JobsSpec => QueueSpec
  <1>1. JobsInit => QueueInit
    BY DEF JobsInit
  <1>2. OrdersInv /\ [JobsNext]_recommendationVars => [QueueNext]_queueVars
    BY NextUsesQueue DEF OrdersInv
  <1> QED
    BY <1>1, <1>2, OrdersInvariant, PTL DEF JobsSpec, QueueSpec

\* So however orders, their children and the server interleave, and whichever of
\* them dies, a target has one live proposal of a kind, and one DM executing.
THEOREM OrdersKeepQueue == JobsSpec => [](OneDmPerRecipient /\ OneLivePerSlot)
  BY UsesQueue, OneDm, OneLive, PTL

\* l5_mas_recommend.py:69-72: no step of an order takes away a seeker's last live
\* draft, whatever fails, is killed, or commits late.
THEOREM KeepsDraft == JobsSpec => RegenerateKeepsDraft
  <1>1. OrdersInv /\ [JobsNext]_recommendationVars =>
            [(\E j \in DOMAIN jobs : JobRuns(j)) =>
             \A target \in Targets, qtype \in OutboundQueueTypes :
                 LiveRow(target, qtype) # {} => LiveRow(target, qtype)' # {}]_recommendationVars
    BY DraftStays
  <1> QED
    BY <1>1, OrdersInvariant, PTL DEF JobsSpec, RegenerateKeepsDraft
=============================================================================
