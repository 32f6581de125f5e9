---------------------------- MODULE CareSessions ----------------------------
(***************************************************************************)
(* The proactive care routes of the scheduler (tools/l5_proactive_routes): *)
(* a digest proposes a class session, the operator approves it in Telegram *)
(* or on the dashboard, the open cycle drafts one reminder per registered  *)
(* seeker, and the morning after the checklist asks who attended.          *)
(*                                                                         *)
(* The scheduler runs its jobs one after the other in one thread, so at    *)
(* most one `job` is open; the operator, the Telegram poll and the HITL    *)
(* worker act between any two of its database calls.  One class session is *)
(* modelled.  A seeker's draft and attendance question have the seeker as  *)
(* their target_id: the queue types keep them apart.                       *)
(***************************************************************************)
EXTENDS TelegramHitl

CONSTANTS
    Session,    \* target_id of the class session, <class_key>|<session_date>
    MaxRestarts \* bound: how often the scheduler is killed and started again

Seekers == Targets \ {Session}

\* What the payload of a proactive proposal says of it.
TheKind(type) == [type |-> type, dedupe_key |-> "", source |-> ""]

ASSUME CareAssumption ==
    /\ Session \in Targets /\ MaxRestarts \in Nat
    /\ {"session_proposal", "attendance_check"} \subseteq QueueTypes
    /\ {TheKind("class_reminder"), TheKind("attendance")} \subseteq Kinds
    /\ Texts # {}

VARIABLES
    job,        \* the scheduler's open job
    invited,    \* action id -> the seekers named in a session proposal's payload
    reminded,   \* reminder_log: seekers reminded of the session
    attendance, \* attendance: seeker -> "" (no row), "present" or "absent"
    approved,   \* ghost: approvals of a session proposal not yet acted on
    restarts

careVars == <<job, invited, reminded, attendance, approved, restarts>>
deskVars == <<queueVars, telegramVars, careVars>>

Idle == [name |-> "idle", todo |-> {}, left |-> {}, ok |-> FALSE,
         item |-> NoId, who |-> Session]

CareTypeOK ==
    /\ job \in [name : {"idle", "post", "persist", "claim", "draft", "log", "attend"},
                todo : SUBSET [id : Rows, status : Statuses],
                left : SUBSET Seekers, ok : BOOLEAN,
                item : Rows \cup {NoId}, who : Targets]
    /\ job.name \in {"post", "persist", "draft", "log"} => job.item # NoId
    /\ job.name \in {"claim", "attend"} => job.todo # {}
    /\ job.name = "log" => job.who \in Seekers
    /\ invited \in [Ids -> SUBSET Seekers]
    /\ reminded \subseteq Seekers
    /\ attendance \in [Seekers -> {"", "present", "absent"}]
    /\ approved \subseteq Rows
    /\ restarts \in 0 .. MaxRestarts

CareInit ==
    /\ job = Idle
    /\ invited = [id \in Ids |-> {}]
    /\ reminded = {}
    /\ attendance = [s \in Seekers |-> ""]
    /\ approved = {}
    /\ restarts = 0

-----------------------------------------------------------------------------
NewRow(qtype, target, type) ==
    Proposal(qtype, target, TheKind(type), CHOOSE t \in Texts : TRUE, NoSnapshot)

\* _active_internal_item and has_active_proposal.
HasActive(qtype, target) ==
    \E id \in Rows : /\ queue[id].queue_type = qtype
                     /\ queue[id].target_id = target
                     /\ queue[id].status \in {"pending", "approved", "executing"}

\* The rows a job read, with the status it read; it takes them by their ids.
Read(ids) == {[id |-> id, status |-> queue[id].status] : id \in ids}

NextItem(item) == /\ item \in job.todo
                  /\ \A other \in job.todo : item.id <= other.id

Next1(todo, name) == IF todo = {} THEN Idle
                     ELSE [Idle EXCEPT !.name = name, !.todo = todo]

-----------------------------------------------------------------------------
(* run_class_reminder_digest and run_post_session_checklist: one proposal, *)
(* posted to Telegram afterwards.                                          *)

Digest ==
    /\ job = Idle
    /\ Seekers \ reminded # {}
    /\ ~HasActive("session_proposal", Session)
    /\ EnqueueAction(NewRow("session_proposal", Session, "class_reminder"))
    /\ invited' = [invited EXCEPT ![lastId + 1] = Seekers \ reminded]
    /\ job' = [Idle EXCEPT !.name = "post", !.item = lastId + 1]
    /\ UNCHANGED <<reminded, attendance, approved, restarts, telegramVars>>

Checklist(seeker) ==
    /\ job = Idle
    /\ seeker \in reminded /\ attendance[seeker] = ""
    /\ ~HasActive("attendance_check", seeker)
    /\ EnqueueAction(NewRow("attendance_check", seeker, "attendance"))
    /\ job' = [Idle EXCEPT !.name = "post", !.item = lastId + 1]
    /\ UNCHANGED <<invited, reminded, attendance, approved, restarts, telegramVars>>

PostItem ==
    /\ job.name = "post"
    /\ \/ Post(job.item)
       \/ UNCHANGED <<queueVars, telegramVars>>
    /\ job' = [job EXCEPT !.name = "persist"]
    /\ UNCHANGED <<invited, reminded, attendance, approved, restarts>>

PersistItem ==
    /\ job.name = "persist"
    /\ Persist(job.item)
    /\ job' = Idle
    /\ UNCHANGED <<invited, reminded, attendance, approved, restarts>>

-----------------------------------------------------------------------------
(* run_session_open_cycle.                                                 *)

ApprovedSessions == {id \in Rows : /\ queue[id].queue_type = "session_proposal"
                                   /\ queue[id].status = "approved"}

OpenRead ==
    /\ job = Idle
    /\ ApprovedSessions # {}
    /\ job' = Next1(Read(ApprovedSessions), "claim")
    /\ UNCHANGED <<invited, reminded, attendance, approved, restarts,
                   queueVars, telegramVars>>

\* Mutant: the session is drafted without being claimed.
OpenUnclaimed ==
    /\ job.name = "claim"
    /\ \E item \in job.todo :
           /\ NextItem(item)
           /\ approved' = approved \ {item.id}
           /\ job' = [job EXCEPT !.name = "draft", !.todo = @ \ {item},
                                 !.item = item.id, !.left = invited[item.id]]
    /\ UNCHANGED <<invited, reminded, attendance, restarts, queueVars, telegramVars>>

\* UPDATE ... SET status='executing' WHERE id=?, whatever the row has become;
\* only the unique index can refuse it, and the cycle raises.
OpenClaim ==
    /\ job.name = "claim"
    /\ Unlocked
    /\ \E item \in job.todo :
           /\ NextItem(item)
           /\ \/ /\ IndexAdmits(queue, queue[item.id], item.id)
                 /\ queue' = SetStatus(item.id, "executing")
                 /\ approved' = approved \ {item.id}
                 /\ job' = [job EXCEPT !.name = "draft", !.todo = @ \ {item},
                                       !.item = item.id, !.left = invited[item.id]]
              \/ /\ ~IndexAdmits(queue, queue[item.id], item.id)
                 /\ job' = Idle
                 /\ UNCHANGED <<queue, approved>>
    /\ UNCHANGED <<lastId, regen, claim, invited, reminded, attendance, restarts,
                   telegramVars>>

\* The next seeker is skipped (no users row, or a reminder already in the
\* queue), or composing fails (no text, an exception, the index refuses).
OpenSkip(seeker) ==
    /\ job.name = "draft" /\ seeker \in job.left
    /\ job' = [job EXCEPT !.left = @ \ {seeker}]
    /\ UNCHANGED <<invited, reminded, attendance, approved, restarts,
                   queueVars, telegramVars>>

OpenDraft(seeker) ==
    /\ job.name = "draft" /\ seeker \in job.left
    /\ ~HasActive("proactive_message", seeker)
    /\ EnqueueAction(NewRow("proactive_message", seeker, "class_reminder"))
    /\ job' = [job EXCEPT !.name = "log", !.who = seeker]
    /\ UNCHANGED <<invited, reminded, attendance, approved, restarts, telegramVars>>

\* INSERT OR IGNORE INTO reminder_log; a failure leaves the draft unlogged.
OpenLog ==
    /\ job.name = "log"
    /\ \/ /\ reminded' = reminded \cup {job.who}
          /\ job' = [job EXCEPT !.name = "draft", !.left = @ \ {job.who}, !.ok = TRUE]
       \/ /\ job' = [job EXCEPT !.name = "draft", !.left = @ \ {job.who}]
          /\ UNCHANGED reminded
    /\ UNCHANGED <<invited, attendance, approved, restarts, queueVars, telegramVars>>

\* Mutant: only a session that got a draft is finished.
OpenFinishDrafted ==
    /\ job.name = "draft" /\ job.left = {}
    /\ IF job.ok THEN FinishAction(job.item, "executed") ELSE UNCHANGED queueVars
    /\ job' = Next1(job.todo, "claim")
    /\ UNCHANGED <<invited, reminded, attendance, approved, restarts, telegramVars>>

OpenFinish ==
    /\ job.name = "draft" /\ job.left = {}
    /\ FinishAction(job.item, IF job.ok \/ invited[job.item] = {} THEN "executed"
                                                                  ELSE "failed")
    /\ job' = Next1(job.todo, "claim")
    /\ UNCHANGED <<invited, reminded, attendance, approved, restarts, telegramVars>>

-----------------------------------------------------------------------------
(* run_attendance_sync.                                                    *)

Undone == {id \in Rows : /\ queue[id].queue_type = "attendance_check"
                         /\ queue[id].status \in {"approved", "rejected"}
                         /\ attendance[queue[id].target_id] = ""}

AttendanceRead ==
    /\ job = Idle
    /\ Undone # {}
    /\ job' = Next1(Read(Undone), "attend")
    /\ UNCHANGED <<invited, reminded, attendance, approved, restarts,
                   queueVars, telegramVars>>

\* Mutant: the decision is stored as it stands in the queue.
AttendedAs(status) == status

Attended(status) == IF status = "approved" THEN "present" ELSE "absent"

\* INSERT OR IGNORE; finish_action, which finds an executing row only.
AttendanceRecord ==
    /\ job.name = "attend"
    /\ \E item \in job.todo :
           /\ NextItem(item)
           /\ LET seeker == queue[item.id].target_id
              IN  attendance' = IF attendance[seeker] = ""
                                THEN [attendance EXCEPT ![seeker] = Attended(item.status)]
                                ELSE attendance
           /\ IF item.status = "approved" THEN FinishAction(item.id, "executed")
                                          ELSE UNCHANGED queueVars
           /\ job' = Next1(job.todo \ {item}, "attend")
    /\ UNCHANGED <<invited, reminded, approved, restarts, telegramVars>>

-----------------------------------------------------------------------------
\* The scheduler is killed inside a job and started again.
Restart ==
    /\ job # Idle
    /\ restarts < MaxRestarts
    /\ restarts' = restarts + 1
    /\ job' = Idle
    /\ UNCHANGED <<invited, reminded, attendance, approved, queueVars, telegramVars>>

Continue == \/ PostItem \/ PersistItem
            \/ OpenClaim \/ OpenLog \/ OpenFinish \/ AttendanceRecord
            \/ \E seeker \in Seekers : OpenSkip(seeker) \/ OpenDraft(seeker)

Scheduler == \/ Digest \/ OpenRead \/ AttendanceRead
             \/ \E seeker \in Seekers : Checklist(seeker)
             \/ Continue \/ Restart

\* Ghost: which session proposals have become approved since they were opened.
NoteApprovals ==
    approved' = approved \cup {id \in Rows : /\ queue'[id].status = "approved"
                                            /\ queue[id].queue_type = "session_proposal"}

\* The operator decides in the chat or on the dashboard.
Operator ==
    /\ UNCHANGED <<job, invited, reminded, attendance, restarts>>
    /\ \/ \E id \in Rows, says \in {"like", "reply"} : React(id, says)
       \/ Decide /\ UNCHANGED telegramVars
    /\ NoteApprovals

\* The HITL worker polls the chat, and delivers approved reminders.
Deliver ==
    \/ \E id \in Rows : ClaimSelect(id, "proactive_message")
    \/ ClaimUpdate
    \/ \E id \in Rows : /\ queue[id].queue_type = "proactive_message"
                        /\ queue[id].status = "executing"
                        /\ \E outcome \in {"executed", "failed"} : FinishAction(id, outcome)

Worker ==
    /\ UNCHANGED <<job, invited, reminded, attendance, restarts>>
    /\ \/ Polling
       \/ PollAbort
       \/ Deliver /\ UNCHANGED telegramVars
    /\ NoteApprovals

DeskInit == QueueInit /\ TelegramInit /\ CareInit
DeskNext == Scheduler \/ Operator \/ Worker

\* The loop of the scheduler and the poll of the worker go on (they are
\* started in a loop and catch what their jobs raise).
DeskFairness == /\ WF_deskVars(Continue) /\ WF_deskVars(OpenRead)
                /\ WF_deskVars(AttendanceRead)
                /\ WF_deskVars(Polling /\ Worker)
                /\ WF_deskVars(ClaimUpdate /\ Worker)

DeskSpec == DeskInit /\ [][DeskNext]_deskVars /\ DeskFairness

-----------------------------------------------------------------------------
\* The queue, the chat and the scheduler's job hold what their schema allows, and
\* a job names rows that exist.
CareDeskTypeOK == QueueTypeOK /\ TelegramTypeOK /\ CareTypeOK

\* l5_proactive_routes.py:157: the cycle turns approved sessions into drafts.
\* Each approval opens its session at most once, though the cycle reads the
\* approved rows once and the operator may change them until they are claimed.
OneOpeningPerApproval ==
    [][job.name = "claim" /\ job'.name = "draft" => job'.item \in approved]_deskVars

\* An approved session is drafted to its end (or taken back); only a scheduler
\* that dies inside the session leaves it executing for good.
SessionOpen == \E id \in Rows : /\ queue[id].queue_type = "session_proposal"
                                /\ queue[id].status \in {"approved", "executing"}

SessionSettles == SessionOpen ~> (~SessionOpen \/ restarts > 0)
=============================================================================
