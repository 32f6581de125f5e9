-------------------------- MODULE RecommendationJobs --------------------------
(***************************************************************************)
(* MAS recommendations the operator orders on the dashboard.  The web      *)
(* server (api/action-queue/recommendations/route.ts) keeps an order as a  *)
(* durable job and runs the Python engine (tools/l5_mas_recommend.py) in a *)
(* child process, which drafts thread by thread and commits each draft on  *)
(* its own.  The server may kill the child on a timeout and write template *)
(* drafts instead; the server itself may die and leave the child running.  *)
(***************************************************************************)
EXTENDS ActionQueue, Sequences

CONSTANTS
    Requests,   \* orders: type, threads, regenerate
    MaxJobs,    \* bound: orders
    CommandKey, \* job id -> the dedupe_key of its care proposals
    Care,       \* the payload type of care proposals
    MaxFailures \* bound: deaths of the web server, errors of its database

Orders == [type : {"reply", "care"}, threads : Seq(Targets), regenerate : BOOLEAN]
JobIds == 1 .. MaxJobs

\* What the payload of a draft says: of the engine's replies and care messages,
\* and of the templates.
ReplyKind(source) == [type |-> "", dedupe_key |-> "", source |-> source]
CareKind(j) == [type |-> Care, dedupe_key |-> CommandKey[j], source |-> "mas"]

ASSUME JobsAssumption ==
    /\ \A request \in Requests : request \in Orders
    /\ MaxJobs \in Nat /\ MaxFailures \in Nat
    /\ {ReplyKind("mas"), ReplyKind("template")} \subseteq Kinds
    /\ \A j \in JobIds : CareKind(j) \in Kinds
    /\ JobIds \subseteq Engines
    /\ Texts # {}

VARIABLES
    jobs,    \* mas_recommendation_jobs, a sequence: the index is the id
    child,   \* job id -> its engine process
    server,  \* job id -> what the web server still does for it
    failures

jobVars == <<jobs, child, server, failures>>
recommendationVars == <<queueVars, jobVars>>

NoChild == [step |-> "none", todo |-> <<>>]

JobsTypeOK ==
    /\ jobs \in Seq([status : {"queued", "running", "completed", "failed"},
                    request : Requests])
    /\ Len(jobs) <= MaxJobs
    /\ child \in [JobIds -> [step : {"none", "guard", "llm", "insert", "commit", "ok", "error"},
                             todo : Seq(Targets)]]
    /\ server \in [JobIds -> [step : {"none", "launch", "engine", "template", "insert"},
                              todo : Seq(Targets)]]
    /\ \A j \in JobIds : server[j].step = "insert" => server[j].todo # <<>>
    /\ failures \in 0 .. MaxFailures

\* The queue and the orders hold what their schema allows.
OrdersTypeOK == QueueTypeOK /\ JobsTypeOK

JobsInit ==
    /\ QueueInit
    /\ jobs = <<>>
    /\ child = [j \in JobIds |-> NoChild]
    /\ server = [j \in JobIds |-> [step |-> "none", todo |-> <<>>]]
    /\ failures = 0

Request(j) == jobs[j].request
Outbound(type) == IF type = "reply" THEN "reply_message" ELSE "proactive_message"

PayloadKind(j) == IF Request(j).type = "reply" THEN ReplyKind("mas") ELSE CareKind(j)

LiveRow(target, qtype) ==
    {id \in Rows : /\ queue[id].target_id = target
                   /\ queue[id].queue_type = qtype
                   /\ Live(queue[id])}

-----------------------------------------------------------------------------
(* The job table.                                                          *)

\* POST: the job is durable before anything is launched.
PostJob(request) ==
    /\ Len(jobs) < MaxJobs
    /\ jobs' = Append(jobs, [status |-> "queued", request |-> request])
    /\ UNCHANGED <<child, server, failures, queueVars>>

\* Mutant: only the POST launches a job, and the server has died since.
ClaimJobOnce(j) ==
    /\ jobs[j].status = "queued"
    /\ failures = 0
    /\ jobs' = [jobs EXCEPT ![j].status = "running"]
    /\ server' = [server EXCEPT ![j].step = "launch"]
    /\ UNCHANGED <<child, failures, queueVars>>

\* runRecommendationJob, launched by the POST or by any later GET: the UPDATE
\* lets one of them through.
ClaimJob(j) ==
    /\ jobs[j].status = "queued"
    /\ jobs' = [jobs EXCEPT ![j].status = "running"]
    /\ server' = [server EXCEPT ![j].step = "launch"]
    /\ UNCHANGED <<child, failures, queueVars>>

\* The order is read back and its phase noted, and the engine is spawned.
Launch(j) ==
    /\ server[j].step = "launch"
    /\ server' = [server EXCEPT ![j].step = "engine"]
    /\ child' = [child EXCEPT ![j] = [step |-> "guard", todo |-> Request(j).threads]]
    /\ UNCHANGED <<jobs, failures, queueVars>>

Ends(j, status) ==
    /\ jobs' = [jobs EXCEPT ![j].status = status]
    /\ server' = [server EXCEPT ![j].step = "none"]

\* Mutant: the job takes over what the engine's last line says.
EngineEndedAs(j) ==
    /\ server[j].step = "engine" /\ child[j].step \in {"ok", "error"}
    /\ Ends(j, child[j].step)
    /\ UNCHANGED <<child, failures, queueVars>>

\* The engine's last line is there, or its process is gone.  Only replies fall
\* back on templates.
EngineEnded(j) ==
    /\ server[j].step = "engine"
    /\ \/ child[j].step = "ok" /\ Ends(j, "completed")
       \/ child[j].step = "error" /\ Request(j).type = "care" /\ Ends(j, "failed")
       \/ /\ child[j].step = "error" /\ Request(j).type = "reply"
          /\ server' = [server EXCEPT ![j] = [step |-> "template",
                                              todo |-> Request(j).threads]]
          /\ UNCHANGED jobs
    /\ UNCHANGED <<child, failures, queueVars>>

\* A statement of the job raises.  Inside its try the job fails; before it, or if
\* the UPDATE that says so raises too, the row stays running with nobody on it.
DatabaseFails(j) ==
    /\ \/ server[j].step \in {"launch", "template", "insert"}
       \/ server[j].step = "engine" /\ child[j].step \in {"ok", "error"}
    /\ failures < MaxFailures
    /\ failures' = failures + 1
    /\ \/ Ends(j, "failed")
       \/ server' = [server EXCEPT ![j].step = "none"] /\ UNCHANGED jobs
    /\ UNCHANGED <<child, queueVars>>

\* MAS_TIMEOUT_MS: the child is killed, its open transaction rolled back.
Timeout(j) ==
    /\ server[j].step = "engine"
    /\ child[j].step \in {"guard", "llm", "insert", "commit"}
    /\ child' = [child EXCEPT ![j].step = "error"]
    /\ IF child[j].step = "commit" THEN ReplaceRollback(j) ELSE UNCHANGED queueVars
    /\ UNCHANGED <<jobs, server, failures>>

\* The web server dies and is started again; the engines run on.
ServerDies ==
    /\ failures < MaxFailures
    /\ jobs # <<>>
    /\ failures' = failures + 1
    /\ server' = [j \in JobIds |-> [step |-> "none", todo |-> <<>>]]
    /\ UNCHANGED <<jobs, child, queueVars>>

-----------------------------------------------------------------------------
(* The engine: recommend_replies, recommend_care.                          *)

At(j, step) == child[j].step = step /\ child[j].todo # <<>>
Target(j) == Head(child[j].todo)

Skip(j) == child' = [child EXCEPT ![j].step = "guard", ![j].todo = Tail(@)]
Goes(j, step) == child' = [child EXCEPT ![j].step = step]

\* What a draft says, and which messages it answers, is left open: no step here
\* looks at it.
Drafted(qtype, target, kind) ==
    Proposal(qtype, target, kind, CHOOSE t \in Texts : TRUE, NoSnapshot)

MasRow(j) == Drafted(Outbound(Request(j).type), Target(j), PayloadKind(j))

\* active_proposal_status reads the newest live row: for a reply of any kind,
\* for care of the same command.
Active(j) ==
    {id \in LiveRow(Target(j), Outbound(Request(j).type)) :
        Request(j).type = "care" => queue[id].kind.dedupe_key = CommandKey[j]}

Newest(ids) == CHOOSE id \in ids : \A other \in ids : other <= id

Blocked(j) == /\ Active(j) # {}
              /\ \/ queue[Newest(Active(j))].status = "executing"
                 \/ ~Request(j).regenerate

\* A reminder for the session was sent, or the seeker opted out: care is
\* skipped unless the operator's words allow it.
Guarded(j) ==
    /\ At(j, "guard")
    /\ \/ Blocked(j) /\ Skip(j)
       \/ Request(j).type = "care" /\ Skip(j)
       \/ ~Blocked(j) /\ Goes(j, "llm")
    /\ UNCHANGED <<jobs, server, failures, queueVars>>

\* A usable text; an escalation, a sentinel or no text; an exception.
Llm(j) ==
    /\ At(j, "llm")
    /\ Goes(j, "insert") \/ Skip(j) \/ Goes(j, "error")
    /\ UNCHANGED <<jobs, server, failures, queueVars>>

\* Mutant: a regeneration rejects the old draft before the new one is there.
InsertRejecting(j) ==
    /\ At(j, "insert")
    /\ Request(j).regenerate
    /\ queue' = Rejected(Superseded(MasRow(j)))
    /\ Goes(j, "commit")
    /\ regen' = [regen EXCEPT ![j] = [open |-> TRUE, row |-> MasRow(j), old |-> {}]]
    /\ UNCHANGED <<lastId, claim, jobs, server, failures>>

\* _enqueue.  A refusal by the unique index is an exception of the whole run.
Insert(j) ==
    /\ At(j, "insert")
    /\ \/ ~Request(j).regenerate /\ EnqueueAction(MasRow(j)) /\ Skip(j)
       \/ /\ ~Request(j).regenerate /\ ~IndexAdmits(queue, MasRow(j), NoId)
          /\ Goes(j, "error") /\ UNCHANGED queueVars
       \/ Request(j).regenerate /\ ReplaceSelect(j, MasRow(j)) /\ Goes(j, "commit")
    /\ UNCHANGED <<jobs, server, failures>>

Commit(j) ==
    /\ At(j, "commit")
    /\ \/ ReplaceCommit(j) /\ Skip(j)
       \/ /\ ~IndexAdmits(Rejected(regen[j].old), regen[j].row, NoId)
          /\ ReplaceRollback(j) /\ Goes(j, "error")
    /\ UNCHANGED <<jobs, server, failures>>

EngineDone(j) ==
    /\ child[j].step = "guard" /\ child[j].todo = <<>>
    /\ Goes(j, "ok")
    /\ UNCHANGED <<jobs, server, failures, queueVars>>

-----------------------------------------------------------------------------
(* runTemplateEngine for the selected threads of a reply order.            *)

\* insertProposal looks for a pending reply and inserts in a second statement.
TemplateLook(j) ==
    /\ server[j].step = "template" /\ server[j].todo # <<>>
    /\ LET target == Head(server[j].todo)
           pending == {id \in LiveRow(target, "reply_message") : queue[id].status = "pending"}
       IN  \/ server' = [server EXCEPT ![j].todo = Tail(@)]   \* stale or answered
           \/ /\ pending = {}
              /\ server' = [server EXCEPT ![j].step = "insert"]
    /\ UNCHANGED <<jobs, child, failures, queueVars>>

TemplateRow(target) ==
    Drafted("reply_message", target, ReplyKind("template"))

TemplateInsert(j) ==
    /\ server[j].step = "insert"
    /\ LET row == TemplateRow(Head(server[j].todo))
       IN  \/ /\ EnqueueAction(row)
              /\ server' = [server EXCEPT ![j].step = "template", ![j].todo = Tail(@)]
              /\ UNCHANGED jobs
           \/ ~IndexAdmits(queue, row, NoId) /\ Ends(j, "failed") /\ UNCHANGED queueVars
    /\ UNCHANGED <<child, failures>>

TemplateDone(j) ==
    /\ server[j].step = "template" /\ server[j].todo = <<>>
    /\ Ends(j, "completed")
    /\ UNCHANGED <<child, failures, queueVars>>

-----------------------------------------------------------------------------
JobRuns(j) == \/ ClaimJob(j) \/ Launch(j) \/ EngineEnded(j) \/ Timeout(j)
              \/ DatabaseFails(j)
              \/ Guarded(j) \/ Llm(j) \/ Insert(j) \/ Commit(j) \/ EngineDone(j)
              \/ TemplateLook(j) \/ TemplateInsert(j) \/ TemplateDone(j)

\* The executor claims a draft and finishes it, one transaction each here.
Delivers(id) ==
    /\ UNCHANGED jobVars
    /\ \/ ClaimSelect(id, "reply_message")
       \/ ClaimUpdate
       \/ queue[id].queue_type = "reply_message" /\ FinishAction(id, "executed")

JobsNext == \/ \E request \in Requests : PostJob(request)
            \/ \E j \in DOMAIN jobs : JobRuns(j)
            \/ ServerDies
            \/ \E id \in Rows : Delivers(id)
            \/ Decide /\ UNCHANGED jobVars

\* The page that ordered a job polls it, and the engine gets on with its work.
JobsFairness == \A j \in JobIds :
    /\ WF_recommendationVars(j \in DOMAIN jobs /\ ClaimJob(j))
    /\ WF_recommendationVars(j \in DOMAIN jobs /\ JobRuns(j))

JobsSpec == JobsInit /\ [][JobsNext]_recommendationVars /\ JobsFairness

-----------------------------------------------------------------------------
\* l5_mas_recommend.py:69-72: a failed LLM call never leaves the seeker with no
\* proposal.  No step of a job takes away a seeker's last live draft, whatever
\* fails, is killed or refused.
RegenerateKeepsDraft ==
    [][(\E j \in DOMAIN jobs : JobRuns(j)) =>
       \A target \in Targets, qtype \in OutboundQueueTypes :
           LiveRow(target, qtype) # {} => LiveRow(target, qtype)' # {}]_recommendationVars

\* route.ts:403: a poll after a restart of the server resumes a queued job.  An
\* order is answered unless the server died, or the database failed, while it ran.
JobLost(j) == server[j].step = "none" /\ jobs[j].status = "running"
JobOpen(j) == j \in DOMAIN jobs /\ jobs[j].status \in {"queued", "running"}

JobSettles == \A j \in JobIds : JobOpen(j) ~> (~JobOpen(j) \/ JobLost(j))
=============================================================================
