------------------------------ MODULE CareProofs ------------------------------
(***************************************************************************)
(* Proactive care and the Telegram approvals for any number of proposals,  *)
(* seekers, reactions, aborted batches and restarts, on both backends.     *)
(*                                                                         *)
(* The inductive invariant adds to the types                               *)
(*   DecisionsLeft    a decision in telegram_hitl_queue, or one an open    *)
(*                    batch is about to commit there, concerns a row that  *)
(*                    has left "pending" in action_queue;                  *)
(*   ApprovedKnown    an approved session proposal has an approval that no *)
(*                    open cycle has used;                                 *)
(*   JobApproved      so have the sessions the open cycle still holds, and *)
(*                    it holds each of them once.                          *)
(* Moves is what every database call of the desk does to action_queue.     *)
(* TableInv joins the queue's own invariant to it: the open cycle claims   *)
(* past the queue's operations, and what that leaves of the queue's        *)
(* promises is proved at the end.                                          *)
(***************************************************************************)
EXTENDS CareSessions, ActionQueueProofs, SequenceTheorems

Settled(id) == id \in Rows /\ queue[id].status # "pending"

DecisionsLeft ==
    /\ \A id \in Ids : hitl[id] \in {"approved", "rejected"} => Settled(id)
    /\ poll # NoPoll => \A id \in Ids : poll.writes[id] # "" => Settled(id)

ApprovedKnown ==
    \A id \in Rows : /\ queue[id].queue_type = "session_proposal"
                     /\ queue[id].status = "approved"
                     => id \in approved

JobApproved ==
    /\ job.name \in {"claim", "draft", "log"} => \A item \in job.todo : item.id \in approved
    /\ \A a, b \in job.todo : a.id = b.id => a = b

DeskInv == CareDeskTypeOK /\ DecisionsLeft /\ ApprovedKnown /\ JobApproved

\* What a call of the desk does to the queue: at most one row more, undecided;
\* no row changes its queue, and none is undecided again.
Moves ==
    /\ lastId' \in {lastId, lastId + 1} /\ lastId' <= MaxId
    /\ queue' \in [Rows' -> Row]
    /\ regen' = regen
    /\ claim' \in {NoId} \cup Rows
    /\ \A id \in Rows : /\ queue'[id].queue_type = queue[id].queue_type
                        /\ queue'[id].status = "pending" => queue[id].status = "pending"
    /\ \A id \in Rows' \ Rows : queue'[id].status = "pending"

NoneApproved ==
    \A id \in Rows : queue'[id].status = "approved" => queue[id].status = "approved"

-----------------------------------------------------------------------------
(* The calls on action_queue.                                              *)

\* What the queue's types say, taken apart.
LEMMA QueueFacts ==
    ASSUME QueueTypeOK
    PROVE  /\ MaxId \in Nat /\ lastId \in Nat /\ lastId <= MaxId
           /\ Rows \subseteq Ids /\ NoId \notin Ids
           /\ queue \in [Rows -> Row]
           /\ claim \in {NoId} \cup Rows
  BY MaxIdAssumption DEF QueueTypeOK, Rows, Ids, NoId

\* A call on another table.
LEMMA StayMoves ==
    ASSUME QueueTypeOK, UNCHANGED queueVars
    PROVE  Moves /\ NoneApproved
  BY QueueFacts DEF queueVars, Moves, NoneApproved, Rows

\* An UPDATE that makes no row undecided.
LEMMA UpdateMoves ==
    ASSUME QueueTypeOK, Updates(queue'), lastId' = lastId, regen' = regen,
           claim' \in {NoId} \cup Rows,
           \A id \in Rows : queue'[id].status = "pending" => queue[id].status = "pending"
    PROVE  Moves
  BY QueueFacts DEF Updates, Moves, Rows

\* An INSERT of a fresh proposal.
LEMMA InsertMoves ==
    ASSUME QueueTypeOK, NEW row \in Row, row.status = "pending", EnqueueAction(row)
    PROVE  Moves /\ NoneApproved /\ lastId' = lastId + 1 /\ lastId' \in Rows'
  <1>1. /\ lastId \in Nat /\ lastId' = lastId + 1 /\ lastId' <= MaxId
        /\ Rows' = 1 .. lastId + 1 /\ Rows' \ Rows = {lastId + 1}
    BY QueueFacts DEF EnqueueAction, Rows
  <1>2. /\ queue' \in [Rows' -> Row] /\ queue'[lastId + 1] = row
        /\ \A id \in Rows : queue'[id] = queue[id]
    BY <1>1, QueueFacts, InsertedRow DEF EnqueueAction
  <1>3. regen' = regen /\ claim' = claim
    BY DEF EnqueueAction
  <1> QED
    BY <1>1, <1>2, <1>3, QueueFacts DEF Moves, NoneApproved

\* A status change to anything but "pending".
LEMMA StatusMoves ==
    ASSUME QueueTypeOK, NEW id \in Rows, NEW status \in Statuses \ {"pending"},
           queue' \in {queue, SetStatus(id, status)}, lastId' = lastId, regen' = regen,
           claim' \in {NoId} \cup Rows
    PROVE  Moves /\ (status # "approved" => NoneApproved)
  <1>1. CASE queue' = queue
    <2>1. Updates(queue')
      BY <1>1, QueueFacts DEF Updates
    <2> QED
      BY <1>1, <2>1, UpdateMoves DEF NoneApproved
  <1>2. CASE queue' = SetStatus(id, status)
    BY <1>2, SetStatusUpdates, UpdateMoves DEF NoneApproved
  <1> QED
    BY <1>1, <1>2

\* An approval.
LEMMA ApprovalMoves ==
    ASSUME QueueTypeOK, NEW id \in Rows, queue' = SetApproved(id), lastId' = lastId,
           regen' = regen, claim' = claim
    PROVE  Moves
  BY QueueFacts, SetApprovedUpdates, UpdateMoves

\* finish_action.
LEMMA FinishMoves ==
    ASSUME QueueTypeOK, NEW id \in Rows, NEW outcome \in {"executed", "failed"},
           FinishAction(id, outcome)
    PROVE  Moves /\ NoneApproved
  <1>1. outcome \in Statuses \ {"pending"} /\ outcome # "approved"
    BY DEF Statuses, TerminalStatuses
  <1>2. /\ queue' \in {queue, SetStatus(id, outcome)} /\ lastId' = lastId /\ regen' = regen
        /\ claim' \in {NoId} \cup Rows
    BY QueueFacts DEF FinishAction
  <1> QED
    BY <1>1, <1>2, StatusMoves

\* What the operator decides on the dashboard.
LEMMA DecideMoves ==
    ASSUME QueueTypeOK, Decide
    PROVE  Moves
  <1>1. PICK id \in Rows : \/ ApproveAction(id) \/ RejectAction(id)
                          \/ WebApprove(id)    \/ WebReject(id)
                          \/ WebReprocess(id)  \/ WebDelete(id)
    BY DEF Decide
  <1>2. lastId' = lastId /\ regen' = regen /\ claim' = claim /\ claim' \in {NoId} \cup Rows
    BY <1>1, QueueFacts DEF ApproveAction, RejectAction, WebApprove, WebReject,
                            WebReprocess, WebDelete
  <1>3. CASE ApproveAction(id) \/ WebApprove(id) \/ WebReprocess(id)
    <2>1. queue' = SetApproved(id)
      BY <1>3 DEF ApproveAction, WebApprove, WebReprocess
    <2> QED
      BY <1>2, <2>1, ApprovalMoves
  <1>4. CASE RejectAction(id) \/ WebReject(id) \/ WebDelete(id)
    <2>1. \E status \in {"rejected", "deleted"} : queue' = SetStatus(id, status)
      BY <1>4 DEF RejectAction, WebReject, WebDelete
    <2> QED
      BY <1>2, <2>1, StatusMoves, StatusesWritten
  <1> QED
    BY <1>1, <1>3, <1>4

\* What the HITL worker does with approved reminders.
LEMMA DeliverMoves ==
    ASSUME QueueTypeOK, Deliver
    PROVE  Moves
  <1>1. ASSUME NEW id \in Rows, ClaimSelect(id, "proactive_message")
        PROVE  Moves
    <2>1. queue' = queue /\ lastId' = lastId /\ regen' = regen /\ claim' = id
      BY <1>1 DEF ClaimSelect
    <2>2. Updates(queue')
      BY <2>1, QueueFacts DEF Updates
    <2> QED
      BY <2>1, <2>2, UpdateMoves
  <1>2. CASE ClaimUpdate
    <2>1. claim \in Rows /\ lastId' = lastId /\ regen' = regen /\ claim' = NoId
      BY <1>2, QueueFacts DEF ClaimUpdate
    <2>2. queue' \in {queue, SetStatus(claim, "executing")}
      BY <1>2 DEF ClaimUpdate
    <2> QED
      BY <2>1, <2>2, StatusMoves, StatusesWritten
  <1> QED
    BY <1>1, <1>2, FinishMoves DEF Deliver

\* A proposal of the proactive routes.
LEMMA NewRowRow ==
    ASSUME NEW qtype \in {"session_proposal", "attendance_check", "proactive_message"},
           NEW target \in Targets, NEW type \in {"class_reminder", "attendance"}
    PROVE  NewRow(qtype, target, type) \in Row /\ NewRow(qtype, target, type).status = "pending"
  <1>1. qtype \in QueueTypes /\ TheKind(type) \in Kinds /\ NoSnapshot \in Snapshots
    BY CareAssumption, QueueTypesAssumption, SnapshotsAssumption DEF OutboundQueueTypes
  <1>2. (CHOOSE t \in Texts : TRUE) \in Texts
    BY CareAssumption
  <1> QED
    BY <1>1, <1>2, ProposalRow DEF NewRow

-----------------------------------------------------------------------------
(* What such a call leaves as it was.                                      *)

\* The queue stays typed and settled rows stay settled.
LEMMA MovesKeep ==
    ASSUME QueueTypeOK, Moves
    PROVE  /\ QueueTypeOK' /\ Rows \subseteq Rows'
           /\ \A id : Settled(id) => Settled(id)'
  <1>1. /\ lastId \in Nat /\ lastId' \in {lastId, lastId + 1} /\ lastId' <= MaxId
        /\ MaxId \in Nat
    BY QueueFacts DEF Moves
  <1>2. lastId' \in 0 .. MaxId /\ Rows \subseteq Rows'
    BY <1>1 DEF Rows
  <1>3. regen' \in [Engines -> Txs']
    <2>1. Txs \subseteq Txs'
      BY <1>2 DEF Txs
    <2> QED
      BY <2>1 DEF QueueTypeOK, Moves
  <1>4. claim' \in {NoId} \cup Rows' /\ queue' \in [Rows' -> Row]
    BY <1>2 DEF Moves
  <1>5. QueueTypeOK'
    BY <1>2, <1>3, <1>4 DEF QueueTypeOK
  <1>6. \A id : Settled(id) => Settled(id)'
    BY <1>2 DEF Settled, Moves
  <1> QED
    BY <1>2, <1>5, <1>6

\* The chat is not looked at.
LEMMA ChatStays ==
    ASSUME DeskInv, Moves, UNCHANGED telegramVars
    PROVE  TelegramTypeOK' /\ DecisionsLeft'
  <1>1. QueueTypeOK /\ TelegramTypeOK /\ DecisionsLeft
    BY DEF DeskInv, CareDeskTypeOK
  <1>2. /\ chat' = chat /\ hitl' = hitl /\ updates' = updates /\ offset' = offset
        /\ poll' = poll /\ aborts' = aborts
    BY DEF telegramVars
  <1>3. Rows \subseteq Rows' /\ \A id : Settled(id) => Settled(id)'
    BY <1>1, MovesKeep
  <1>4. updates \in Seq([id : Rows', says : {"like", "reply"}])
    BY <1>1, <1>3, SeqMonotonic DEF TelegramTypeOK
  <1>5. TelegramTypeOK'
    BY <1>1, <1>2, <1>3, <1>4 DEF TelegramTypeOK
  <1>6. DecisionsLeft'
    BY <1>1, <1>2, <1>3 DEF DecisionsLeft
  <1> QED
    BY <1>5, <1>6

\* Nothing is approved, and no approval is used up.
LEMMA ApprovalsStay ==
    ASSUME DeskInv, Moves, NoneApproved, approved' = approved
    PROVE  ApprovedKnown'
  <1>1. QueueTypeOK /\ ApprovedKnown
    BY DEF DeskInv, CareDeskTypeOK
  <1>2. \A id \in Rows' \ Rows : queue'[id].status # "approved"
    BY DEF Moves
  <1> QED
    BY <1>1, <1>2 DEF ApprovedKnown, Moves, NoneApproved

\* The approvals of the operator and the poll are noted.
LEMMA ApprovalsNoted ==
    ASSUME DeskInv, Moves, NoteApprovals
    PROVE  ApprovedKnown' /\ approved \subseteq approved' /\ approved' \subseteq Rows'
  <1>1. QueueTypeOK /\ ApprovedKnown /\ approved \subseteq Rows
    BY DEF DeskInv, CareDeskTypeOK, CareTypeOK
  <1>2. \A id \in Rows' \ Rows : queue'[id].status # "approved"
    BY DEF Moves
  <1>3. Rows \subseteq Rows'
    BY <1>1, MovesKeep
  <1> QED
    BY <1>1, <1>2, <1>3 DEF ApprovedKnown, Moves, NoteApprovals

-----------------------------------------------------------------------------
(* The chat and its poll.                                                  *)

\* The chat's part of the types, taken apart: its rows,
LEMMA ChatFacts ==
    ASSUME TelegramTypeOK
    PROVE  /\ hitl \in [Ids -> {"none", "local", "pending", "approved", "rejected"}]
           /\ \A n \in 1 .. Len(updates) : /\ updates[n].id \in Rows
                                           /\ updates[n].says \in {"like", "reply"}
  <1>1. \A n \in 1 .. Len(updates) : updates[n] \in [id : Rows, says : {"like", "reply"}]
    BY ElementOfSeq DEF TelegramTypeOK
  <1> QED
    BY <1>1 DEF TelegramTypeOK

\* its counters,
LEMMA ChatCounts ==
    ASSUME TelegramTypeOK
    PROVE  /\ Len(updates) \in Nat /\ Len(updates) <= MaxUpdates
           /\ offset \in Nat /\ offset <= Len(updates)
           /\ aborts \in Nat /\ aborts <= MaxAborts
           /\ MaxUpdates \in Nat /\ MaxAborts \in Nat
  <1>1. Len(updates) \in Nat
    BY LenProperties DEF TelegramTypeOK
  <1>2. /\ Len(updates) <= MaxUpdates /\ offset \in 0 .. Len(updates)
        /\ aborts \in 0 .. MaxAborts
    BY DEF TelegramTypeOK
  <1> QED
    BY <1>1, <1>2, TelegramAssumption

\* and its open batch.
LEMMA PollFacts ==
    ASSUME TelegramTypeOK, poll # NoPoll
    PROVE  /\ poll \in [open : {TRUE}, at : Nat, end : Nat,
                         writes : [Ids -> {"", "approved", "rejected"}]]
           /\ poll.writes \in [Ids -> {"", "approved", "rejected"}]
  BY DEF TelegramTypeOK

LEMMA PollCounts ==
    ASSUME TelegramTypeOK, poll # NoPoll
    PROVE  /\ poll.at \in Nat /\ poll.end \in Nat
           /\ offset <= poll.at /\ poll.at <= poll.end /\ poll.end <= Len(updates)
  <1>1. /\ poll.at \in offset .. poll.end /\ poll.end <= Len(updates)
        /\ poll.at \in Nat /\ poll.end \in Nat
    BY DEF TelegramTypeOK
  <1>2. offset \in Nat
    BY ChatCounts
  <1> QED
    BY <1>1, <1>2

\* The update an open batch comes to concerns a posted row.
LEMMA UpdateFacts ==
    ASSUME QueueTypeOK, TelegramTypeOK, poll # NoPoll, poll.at < poll.end
    PROVE  Update.id \in Rows /\ Update.id \in Ids /\ Update.says \in {"like", "reply"}
  <1>1. poll.at + 1 \in 1 .. Len(updates)
    BY ChatCounts, PollCounts
  <1> QED
    BY <1>1, QueueFacts, ChatFacts DEF Update

\* The message is posted, its row written.
LEMMA PostKeeps ==
    ASSUME DeskInv, NEW id \in Rows, Post(id) \/ Persist(id)
    PROVE  TelegramTypeOK' /\ DecisionsLeft'
  <1>1. QueueTypeOK /\ TelegramTypeOK /\ DecisionsLeft
    BY DEF DeskInv, CareDeskTypeOK
  <1>2. /\ queue' = queue /\ lastId' = lastId /\ Rows' = Rows
        /\ updates' = updates /\ offset' = offset /\ poll' = poll
        /\ \A i : Settled(i)' <=> Settled(i)
    BY DEF Post, Persist, queueVars, Rows, Settled
  <1>3. CASE Post(id)
    <2>1. hitl' = hitl /\ chat' = chat \cup {id} /\ aborts' = aborts
      BY <1>3 DEF Post
    <2> QED
      BY <1>1, <1>2, <2>1 DEF TelegramTypeOK, DecisionsLeft
  <1>4. CASE Persist(id)
    <2>1. /\ chat' = chat
          /\ hitl' \in [Ids -> {"none", "local", "pending", "approved", "rejected"}]
          /\ \A i \in Ids : hitl'[i] \in {hitl[i], "pending", "local"}
      BY <1>1, <1>4, ChatFacts DEF Persist
    <2>4. aborts' \in 0 .. MaxAborts
      <3>1. aborts \in 0 .. MaxAborts
        BY <1>1 DEF TelegramTypeOK
      <3>2. aborts' = aborts \/ (aborts < MaxAborts /\ aborts' = aborts + 1)
        BY <1>4 DEF Persist
      <3> QED
        BY <3>1, <3>2, TelegramAssumption
    <2>2. TelegramTypeOK'
      BY <1>1, <1>2, <2>1, <2>4 DEF TelegramTypeOK
    <2>3. DecisionsLeft'
      BY <1>1, <1>2, <2>1 DEF DecisionsLeft
    <2> QED
      BY <2>2, <2>3
  <1> QED
    BY <1>3, <1>4

\* The operator answers in the chat.
LEMMA ReactKeeps ==
    ASSUME DeskInv, NEW id \in Rows, NEW says \in {"like", "reply"}, React(id, says)
    PROVE  TelegramTypeOK' /\ DecisionsLeft'
  <1>1. QueueTypeOK /\ TelegramTypeOK /\ DecisionsLeft
    BY DEF DeskInv, CareDeskTypeOK
  <1>2. /\ queue' = queue /\ lastId' = lastId /\ Rows' = Rows
        /\ chat' = chat /\ hitl' = hitl /\ offset' = offset /\ poll' = poll /\ aborts' = aborts
        /\ \A i : Settled(i)' <=> Settled(i)
    BY DEF React, queueVars, Rows, Settled
  <1>3. /\ updates' = Append(updates, [id |-> id, says |-> says])
        /\ Len(updates) < MaxUpdates
    BY DEF React
  <1>4. /\ updates' \in Seq([id : Rows, says : {"like", "reply"}])
        /\ Len(updates') = Len(updates) + 1
    <2>1. updates \in Seq([id : Rows, says : {"like", "reply"}])
      BY <1>1 DEF TelegramTypeOK
    <2>2. [id |-> id, says |-> says] \in [id : Rows, says : {"like", "reply"}]
      OBVIOUS
    <2> QED
      BY <1>3, <2>1, <2>2, AppendProperties
  <1>5. Len(updates) \in Nat /\ MaxUpdates \in Nat
    BY <1>1, ChatCounts
  <1>6. offset \in 0 .. Len(updates') /\ Len(updates') <= MaxUpdates
    BY <1>1, <1>3, <1>4, <1>5, ChatCounts
  <1>7. poll # NoPoll => poll.end <= Len(updates')
    BY <1>1, <1>4, <1>5, PollCounts
  <1>8. TelegramTypeOK'
    BY <1>1, <1>2, <1>4, <1>6, <1>7 DEF TelegramTypeOK
  <1>9. DecisionsLeft'
    BY <1>1, <1>2 DEF DecisionsLeft
  <1> QED
    BY <1>8, <1>9

\* A batch is begun, committed, or given up: the queue is not touched.
LEMMA BatchKeeps ==
    ASSUME DeskInv, PollBegin \/ PollCommit \/ PollAbort
    PROVE  TelegramTypeOK' /\ DecisionsLeft'
  <1>1. QueueTypeOK /\ TelegramTypeOK /\ DecisionsLeft
    BY DEF DeskInv, CareDeskTypeOK
  <1>2. /\ queue' = queue /\ lastId' = lastId /\ Rows' = Rows
        /\ chat' = chat /\ updates' = updates
        /\ \A i : Settled(i)' <=> Settled(i)
    BY DEF PollBegin, PollCommit, PollAbort, queueVars, Rows, Settled
  <1>3. CASE PollBegin
    <2>1. /\ hitl' = hitl /\ offset' = offset /\ aborts' = aborts
          /\ poll' = [open |-> TRUE, at |-> offset, end |-> Len(updates),
                      writes |-> [i \in Ids |-> ""]]
      BY <1>3 DEF PollBegin
    <2>2. TelegramTypeOK'
      <3>1. /\ poll' \in [open : {TRUE}, at : Nat, end : Nat,
                           writes : [Ids -> {"", "approved", "rejected"}]]
            /\ poll'.at \in offset .. poll'.end /\ poll'.end <= Len(updates)
        <4>1. offset \in Nat /\ Len(updates) \in Nat /\ offset <= Len(updates)
          BY <1>1, ChatCounts
        <4>2. poll'.at = offset /\ poll'.end = Len(updates)
          BY <2>1
        <4>3. poll' \in [open : {TRUE}, at : Nat, end : Nat,
                         writes : [Ids -> {"", "approved", "rejected"}]]
          BY <2>1, <4>1
        <4>4. offset \in offset .. Len(updates) /\ Len(updates) <= Len(updates)
          BY <4>1
        <4> QED
          BY <4>2, <4>3, <4>4
      <3> QED
        BY <1>1, <1>2, <2>1, <3>1 DEF TelegramTypeOK
    <2>3. \A i \in Ids : poll'.writes[i] = ""
      BY <2>1
    <2>4. DecisionsLeft'
      BY <1>1, <1>2, <2>1, <2>3 DEF DecisionsLeft
    <2> QED
      BY <2>2, <2>4
  <1>4. CASE PollCommit
    <2>1. /\ poll # NoPoll /\ aborts' = aborts /\ offset' = poll.end /\ poll' = NoPoll
          /\ hitl' = [i \in Ids |-> IF poll.writes[i] # "" THEN poll.writes[i] ELSE hitl[i]]
      BY <1>4 DEF PollCommit
    <2>2. TelegramTypeOK'
      <3>1. hitl' \in [Ids -> {"none", "local", "pending", "approved", "rejected"}]
        BY <1>1, <2>1, ChatFacts, PollFacts
      <3>2. offset' \in 0 .. Len(updates)
        <4>1. poll # NoPoll
          BY <2>1
        <4>2. poll.end \in 0 .. Len(updates)
          BY <1>1, <4>1, ChatCounts, PollCounts
        <4> QED
          BY <2>1, <4>2
      <3> QED
        BY <1>1, <1>2, <2>1, <3>1, <3>2 DEF TelegramTypeOK
    <2>3. DecisionsLeft'
      BY <1>1, <1>2, <2>1 DEF DecisionsLeft
    <2> QED
      BY <2>2, <2>3
  <1>5. CASE PollAbort
    <2>1. /\ poll # NoPoll /\ offset' = offset /\ hitl' = hitl /\ poll' = NoPoll
      BY <1>5 DEF PollAbort
    <2>2. aborts' = aborts \/ (aborts < MaxAborts /\ aborts' = aborts + 1)
      BY <1>5 DEF PollAbort
    <2>3. aborts' \in 0 .. MaxAborts
      BY <1>1, <2>2, ChatCounts
    <2> QED
      BY <1>1, <1>2, <2>1, <2>3 DEF TelegramTypeOK, DecisionsLeft
  <1> QED
    BY <1>3, <1>4, <1>5

\* The row of the update at hand is decided after the step.
DecidedRow == Update.id \in Rows' /\ queue'[Update.id].status # "pending"

\* approve_action and reject_action leave the row decided, whether they found it
\* or somebody else had decided it before.
LEMMA DecidedSettles ==
    ASSUME QueueTypeOK, TelegramTypeOK, poll # NoPoll, poll.at < poll.end, Decided
    PROVE  Moves /\ DecidedRow
  <1> DEFINE id == Update.id
  <1>1. id \in Rows /\ Update.says \in {"like", "reply"}
    BY UpdateFacts
  <1> HIDE DEF id
  <1>2. CASE ApproveAction(id)
    <2>1. /\ queue' = SetApproved(id) /\ lastId' = lastId /\ regen' = regen /\ claim' = claim
      BY <1>2 DEF ApproveAction
    <2>2. Moves /\ queue'[id].status = "approved"
      BY <1>1, <2>1, ApprovalMoves, SetApprovedUpdates
    <2>3. Update.id \in Rows' /\ queue'[Update.id].status # "pending"
      BY <1>1, <2>1, <2>2 DEF Rows, id
    <2> QED
      BY <2>2, <2>3 DEF DecidedRow
  <1>3. CASE RejectAction(id)
    <2>1. /\ queue' = SetStatus(id, "rejected") /\ lastId' = lastId /\ regen' = regen
          /\ claim' \in {NoId} \cup Rows
      BY <1>3, QueueFacts DEF RejectAction
    <2>2. Moves /\ queue'[id].status = "rejected"
      BY <1>1, <2>1, StatusMoves, SetStatusUpdates, StatusesWritten
    <2>3. Update.id \in Rows' /\ queue'[Update.id].status # "pending"
      BY <1>1, <2>1, <2>2 DEF Rows, id
    <2> QED
      BY <2>2, <2>3 DEF DecidedRow
  <1>4. CASE queue[id].status # "pending" /\ UNCHANGED queueVars
    <2>1. Moves /\ queue' = queue /\ Rows' = Rows
      BY <1>4, StayMoves DEF queueVars, Rows
    <2>2. Update.id \in Rows' /\ queue'[Update.id].status # "pending"
      BY <1>1, <1>4, <2>1 DEF id
    <2> QED
      BY <2>1, <2>2 DEF DecidedRow
  <1>5. \/ ApproveAction(id) \/ RejectAction(id)
        \/ queue[id].status # "pending" /\ UNCHANGED queueVars
    BY <1>1 DEF Decided, id
  <1> QED
    BY <1>2, <1>3, <1>4, <1>5

\* One update of the batch.
LEMMA PollUpdateKeeps ==
    ASSUME DeskInv, PollUpdate
    PROVE  Moves /\ TelegramTypeOK' /\ DecisionsLeft'
  <1> DEFINE id == Update.id
             write == IF Matched THEN Verdict ELSE poll.writes[id]
  <1>1. QueueTypeOK /\ TelegramTypeOK /\ DecisionsLeft
    BY DEF DeskInv, CareDeskTypeOK
  <1>2. poll # NoPoll /\ poll.at < poll.end
    BY DEF PollUpdate
  <1>3. id \in Rows /\ id \in Ids
    BY <1>1, <1>2, UpdateFacts
  <1>4. Moves /\ (Matched => DecidedRow)
    BY <1>1, <1>2, StayMoves, DecidedSettles DEF PollUpdate
  <1>5. /\ chat' = chat /\ hitl' = hitl /\ updates' = updates /\ offset' = offset
        /\ aborts' = aborts
    BY DEF PollUpdate
  <1>6. /\ poll \in [open : {TRUE}, at : Nat, end : Nat,
                      writes : [Ids -> {"", "approved", "rejected"}]]
        /\ poll.at \in Nat /\ poll.end \in Nat /\ offset <= poll.at /\ poll.at < poll.end
        /\ poll.end <= Len(updates) /\ offset \in Nat /\ Len(updates) \in Nat
        /\ poll.writes \in [Ids -> {"", "approved", "rejected"}]
    BY <1>1, <1>2, ChatCounts, PollFacts, PollCounts
  <1>7. /\ poll' = [open |-> TRUE, at |-> poll.at + 1, end |-> poll.end,
                    writes |-> [poll.writes EXCEPT ![id] = write]]
        /\ poll' # NoPoll
    <2>1. poll' = [poll EXCEPT !.at = poll.at + 1, !.writes = [poll.writes EXCEPT ![id] = write]]
      BY <1>6 DEF PollUpdate
    <2> HIDE DEF id, write
    <2>2. poll' = [open |-> TRUE, at |-> poll.at + 1, end |-> poll.end,
                   writes |-> [poll.writes EXCEPT ![id] = write]]
      BY <1>6, <2>1
    <2>3. DOMAIN poll' # DOMAIN NoPoll
      BY <2>2 DEF NoPoll
    <2> QED
      BY <2>2, <2>3
  <1>8. write \in {"", "approved", "rejected"}
    BY <1>3, <1>6 DEF Verdict
  <1>9. Rows \subseteq Rows' /\ \A i : Settled(i) => Settled(i)'
    BY <1>1, <1>4, MovesKeep
  <1>10. updates \in Seq([id : Rows', says : {"like", "reply"}])
    BY <1>1, <1>9, SeqMonotonic DEF TelegramTypeOK
  <1> HIDE DEF write, id
  <1>11. /\ poll' \in [open : {TRUE}, at : Nat, end : Nat,
                        writes : [Ids -> {"", "approved", "rejected"}]]
         /\ poll'.at \in offset .. poll'.end /\ poll'.end <= Len(updates)
    <2>1. [poll.writes EXCEPT ![id] = write] \in [Ids -> {"", "approved", "rejected"}]
      BY <1>6, <1>8
    <2>2. poll'.at = poll.at + 1 /\ poll'.end = poll.end
      BY <1>7
    <2>3. poll.at + 1 \in Nat /\ poll.at + 1 \in offset .. poll.end
      <3>1. poll.at \in Nat /\ poll.end \in Nat /\ offset <= poll.at /\ poll.at < poll.end
        BY <1>6
      <3>2. offset \in Nat
        BY <1>6
      <3> QED
        BY <3>1, <3>2
    <2>4. poll' \in [open : {TRUE}, at : Nat, end : Nat,
                     writes : [Ids -> {"", "approved", "rejected"}]]
      BY <1>6, <1>7, <2>1, <2>3
    <2> QED
      BY <1>6, <2>2, <2>3, <2>4
  <1>12. TelegramTypeOK'
    BY <1>1, <1>5, <1>9, <1>10, <1>11 DEF TelegramTypeOK
  <1>13. \A i \in Ids : poll'.writes[i] = IF i = id THEN write ELSE poll.writes[i]
    BY <1>6, <1>7
  <1>14. write # "" => id \in Rows' /\ queue'[id].status # "pending"
    <2>1. CASE Matched
      BY <1>4, <2>1 DEF DecidedRow, id
    <2>2. CASE ~Matched /\ write # ""
      <3>1. Settled(id)
        BY <1>1, <1>2, <1>3, <2>2 DEF DecisionsLeft, write
      <3> QED
        BY <3>1, <1>9 DEF Settled
    <2> QED
      BY <2>1, <2>2
  <1>15. DecisionsLeft'
    <2>1. ASSUME NEW i \in Ids, hitl[i] \in {"approved", "rejected"}
          PROVE  Settled(i)'
      BY <1>1, <1>9, <2>1 DEF DecisionsLeft
    <2>2. ASSUME NEW i \in Ids, poll'.writes[i] # ""
          PROVE  i \in Rows' /\ queue'[i].status # "pending"
      <3>1. CASE i = id
        BY <1>13, <1>14, <2>2, <3>1
      <3>2. CASE i # id
        <4>1. Settled(i)
          BY <1>1, <1>2, <1>13, <2>2, <3>2 DEF DecisionsLeft
        <4> QED
          BY <4>1, <1>9 DEF Settled
      <3> QED
        BY <3>1, <3>2
    <2> QED
      BY <1>5, <2>1, <2>2 DEF DecisionsLeft, Settled
  <1> QED
    BY <1>4, <1>12, <1>15

-----------------------------------------------------------------------------
(* The scheduler's job.                                                    *)

\* What the open job may be when the table has `rows`.
JobOK(j, rows) ==
    /\ j \in [name : {"idle", "post", "persist", "claim", "draft", "log", "attend"},
              todo : SUBSET [id : rows, status : Statuses],
              left : SUBSET Seekers, ok : BOOLEAN,
              item : rows \cup {NoId}, who : Targets]
    /\ j.name \in {"post", "persist", "draft", "log"} => j.item # NoId
    /\ j.name \in {"claim", "attend"} => j.todo # {}
    /\ j.name = "log" => j.who \in Seekers

\* The tables of the proactive routes.
CareTables ==
    /\ invited \in [Ids -> SUBSET Seekers]
    /\ reminded \subseteq Seekers
    /\ attendance \in [Seekers -> {"", "present", "absent"}]
    /\ approved \subseteq Rows
    /\ restarts \in 0 .. MaxRestarts

LEMMA CareParts == CareTypeOK <=> JobOK(job, Rows) /\ CareTables
  BY DEF CareTypeOK, JobOK, CareTables

\* A job may be what it was when rows are added.
LEMMA JobGrows ==
    ASSUME NEW rows, NEW more, rows \subseteq more, NEW j, JobOK(j, rows)
    PROVE  JobOK(j, more)
  BY DEF JobOK

\* No job, and a job that has just proposed something.
LEMMA FreshJobs ==
    ASSUME NEW rows, NEW id \in rows, NoId \notin rows
    PROVE  /\ JobOK(Idle, rows)
           /\ JobOK([Idle EXCEPT !.name = "post", !.item = id], rows)
  BY CareAssumption DEF JobOK, Idle

LEMMA IdleJob ==
    ASSUME NEW rows
    PROVE  /\ JobOK(Idle, rows) /\ Idle.todo = {} /\ Idle.name = "idle"
  BY CareAssumption DEF JobOK, Idle

\* The job that goes on with what is left to do.
LEMMA NextJob ==
    ASSUME NEW rows, NEW todo \in SUBSET [id : rows, status : Statuses],
           NEW name \in {"claim", "attend"}
    PROVE  /\ JobOK(Next1(todo, name), rows)
           /\ Next1(todo, name).todo = todo
           /\ Next1(todo, name).name \in {"idle", name}
  <1>1. CASE todo = {}
    BY <1>1, IdleJob DEF Next1
  <1>2. CASE todo # {}
    <2>1. Next1(todo, name) = [name |-> name, todo |-> todo, left |-> {}, ok |-> FALSE,
                               item |-> NoId, who |-> Session]
      BY <1>2 DEF Next1, Idle
    <2> QED
      BY <1>2, <2>1, CareAssumption DEF JobOK
  <1> QED
    BY <1>1, <1>2

\* A step of the job that approves nothing: its own variables are left to see to.
LEMMA SchedulerKeeps ==
    ASSUME DeskInv, Moves, NoneApproved, approved' = approved, UNCHANGED telegramVars,
           JobOK(job', Rows'), CareTables', JobApproved'
    PROVE  DeskInv'
  <1>1. QueueTypeOK
    BY DEF DeskInv, CareDeskTypeOK
  <1>2. QueueTypeOK' /\ TelegramTypeOK' /\ DecisionsLeft' /\ ApprovedKnown'
    BY <1>1, MovesKeep, ChatStays, ApprovalsStay
  <1>3. CareTypeOK'
    BY DEF CareTypeOK, JobOK, CareTables
  <1> QED
    BY <1>2, <1>3 DEF DeskInv, CareDeskTypeOK

\* What the invariant says of the job, taken apart.
LEMMA DeskFacts ==
    ASSUME DeskInv
    PROVE  /\ QueueTypeOK /\ TelegramTypeOK /\ DecisionsLeft /\ ApprovedKnown /\ JobApproved
           /\ JobOK(job, Rows) /\ CareTables
  BY CareParts DEF DeskInv, CareDeskTypeOK

\* A digest or a checklist proposes.
LEMMA ProposeKeeps ==
    ASSUME DeskInv, Digest \/ \E seeker \in Seekers : Checklist(seeker)
    PROVE  DeskInv'
  <1>1. PICK qtype \in {"session_proposal", "attendance_check"}, target \in Targets,
             type \in {"class_reminder", "attendance"} : EnqueueAction(NewRow(qtype, target, type))
    BY CareAssumption DEF Digest, Checklist, Seekers
  <1>2. Moves /\ NoneApproved /\ lastId' = lastId + 1 /\ lastId' \in Rows'
    BY <1>1, NewRowRow, InsertMoves, DeskFacts
  <1>3. job' = [Idle EXCEPT !.name = "post", !.item = lastId']
    BY <1>2 DEF Digest, Checklist
  <1>4. Rows \subseteq Rows' /\ NoId \notin Rows'
    BY <1>2, MovesKeep, DeskFacts, QueueFacts DEF Rows, NoId
  <1>5. JobOK(job', Rows')
    BY <1>2, <1>3, <1>4, FreshJobs
  <1>6. CareTables'
    <2>1. invited' \in [Ids -> SUBSET Seekers]
      BY DeskFacts DEF CareTables, Digest, Checklist
    <2> QED
      BY <1>4, <2>1, DeskFacts DEF CareTables, Digest, Checklist
  <1>7. JobApproved'
    BY <1>3 DEF JobApproved, Idle
  <1>8. approved' = approved /\ UNCHANGED telegramVars
    BY DEF Digest, Checklist
  <1> QED
    BY <1>2, <1>5, <1>6, <1>7, <1>8, SchedulerKeeps

\* The proposal is posted.
LEMMA PostItemKeeps ==
    ASSUME DeskInv, PostItem \/ PersistItem
    PROVE  DeskInv'
  <1>1. job.item \in Rows /\ job.name \in {"post", "persist"}
    BY DeskFacts DEF PostItem, PersistItem, JobOK
  <1>2. UNCHANGED queueVars
    BY DEF PostItem, PersistItem, Post, Persist
  <1>3. Moves /\ NoneApproved /\ Rows' = Rows
    BY <1>2, StayMoves, DeskFacts DEF queueVars, Rows
  <1>4. TelegramTypeOK' /\ DecisionsLeft'
    BY <1>1, <1>2, <1>3, PostKeeps, ChatStays DEF PostItem, PersistItem
  <1>5. UNCHANGED <<invited, reminded, attendance, approved, restarts>>
    BY DEF PostItem, PersistItem
  <1>6. JobOK(job', Rows') /\ JobApproved'
    <2>1. CASE PostItem
      <3>1. job' = [job EXCEPT !.name = "persist"]
        BY <2>1 DEF PostItem
      <3> QED
        BY <1>1, <1>3, <1>5, <3>1, DeskFacts DEF JobOK, JobApproved
    <2>2. CASE PersistItem
      BY <2>2, IdleJob DEF PersistItem, JobApproved
    <2> QED
      BY <2>1, <2>2
  <1>7. CareTables' /\ ApprovedKnown' /\ QueueTypeOK'
    BY <1>3, <1>5, DeskFacts, ApprovalsStay, MovesKeep DEF CareTables
  <1>8. CareTypeOK'
    BY <1>6, <1>7 DEF CareTypeOK, JobOK, CareTables
  <1> QED
    BY <1>4, <1>6, <1>7, <1>8 DEF DeskInv, CareDeskTypeOK

\* What a cycle read: rows that exist, each once.
LEMMA ReadRows ==
    ASSUME QueueTypeOK, NEW ids \in SUBSET Rows
    PROVE  /\ Read(ids) \in SUBSET [id : Rows, status : Statuses]
           /\ \A item \in Read(ids) : item.id \in ids
           /\ \A a, b \in Read(ids) : a.id = b.id => a = b
  <1>1. \A id \in ids : queue[id].status \in Statuses
    BY QueueFacts DEF Row
  <1> QED
    BY <1>1 DEF Read

\* The open cycle and the attendance sync read their rows.
LEMMA ReadKeeps ==
    ASSUME DeskInv, OpenRead \/ AttendanceRead
    PROVE  DeskInv'
  <1>1. /\ UNCHANGED <<invited, reminded, attendance, approved, restarts, telegramVars>>
        /\ UNCHANGED queueVars
    BY DEF OpenRead, AttendanceRead
  <1>2. Moves /\ NoneApproved /\ Rows' = Rows
    BY <1>1, StayMoves, DeskFacts DEF queueVars, Rows
  <1>3. ASSUME OpenRead
        PROVE  JobOK(job', Rows') /\ JobApproved'
    <2>1. job' = Next1(Read(ApprovedSessions), "claim")
      BY <1>3 DEF OpenRead
    <2>2. ApprovedSessions \subseteq Rows /\ \A id \in ApprovedSessions : id \in approved
      BY DeskFacts DEF ApprovedSessions, ApprovedKnown
    <2>3. /\ Read(ApprovedSessions) \in SUBSET [id : Rows, status : Statuses]
          /\ \A item \in Read(ApprovedSessions) : item.id \in ApprovedSessions
          /\ \A a, b \in Read(ApprovedSessions) : a.id = b.id => a = b
      BY <2>2, ReadRows, DeskFacts
    <2>4. JobOK(job', Rows) /\ job'.todo = Read(ApprovedSessions)
      BY <2>1, <2>3, NextJob
    <2> QED
      BY <1>1, <1>2, <2>2, <2>3, <2>4 DEF JobApproved
  <1>4. ASSUME AttendanceRead
        PROVE  JobOK(job', Rows') /\ JobApproved'
    <2>1. job' = Next1(Read(Undone), "attend") /\ Undone \in SUBSET Rows
      BY <1>4 DEF AttendanceRead, Undone
    <2>2. /\ Read(Undone) \in SUBSET [id : Rows, status : Statuses]
          /\ \A a, b \in Read(Undone) : a.id = b.id => a = b
      BY <2>1, ReadRows, DeskFacts
    <2>3. /\ JobOK(job', Rows) /\ job'.todo = Read(Undone)
          /\ job'.name \in {"idle", "attend"}
      BY <2>1, <2>2, NextJob
    <2> QED
      BY <1>1, <1>2, <2>2, <2>3 DEF JobApproved
  <1>5. JobOK(job', Rows') /\ JobApproved'
    BY <1>3, <1>4
  <1>6. CareTables'
    BY <1>1, <1>2, DeskFacts DEF CareTables
  <1> QED
    BY <1>1, <1>2, <1>5, <1>6, SchedulerKeeps

\* A session is claimed: its approval is used up, and the other sessions of the
\* cycle still have theirs.
LEMMA ClaimKeeps ==
    ASSUME DeskInv, OpenClaim
    PROVE  DeskInv'
  <1>1. PICK item \in job.todo :
           \/ /\ queue' = SetStatus(item.id, "executing")
              /\ approved' = approved \ {item.id}
              /\ job' = [job EXCEPT !.name = "draft", !.todo = @ \ {item},
                                    !.item = item.id, !.left = invited[item.id]]
           \/ job' = Idle /\ UNCHANGED <<queue, approved>>
    BY DEF OpenClaim
  <1>2. /\ job.name = "claim" /\ UNCHANGED telegramVars
        /\ UNCHANGED <<lastId, regen, claim, invited, reminded, attendance, restarts>>
    BY DEF OpenClaim
  <1>3. Rows' = Rows /\ claim' \in {NoId} \cup Rows
    BY <1>2, DeskFacts, QueueFacts DEF Rows
  <1>4. item.id \in Rows /\ item.id # NoId /\ invited[item.id] \subseteq Seekers
    BY DeskFacts, QueueFacts DEF JobOK, CareTables
  <1>5. CASE job' = Idle /\ UNCHANGED <<queue, approved>>
    <2>1. Moves /\ NoneApproved
      BY <1>2, <1>5, StayMoves, DeskFacts DEF queueVars
    <2>2. JobOK(job', Rows') /\ JobApproved'
      BY <1>5, IdleJob DEF JobApproved
    <2>3. CareTables'
      BY <1>2, <1>3, <1>5, DeskFacts DEF CareTables
    <2> QED
      BY <1>2, <1>5, <2>1, <2>2, <2>3, SchedulerKeeps
  <1>6. CASE /\ queue' = SetStatus(item.id, "executing")
             /\ approved' = approved \ {item.id}
             /\ job' = [job EXCEPT !.name = "draft", !.todo = @ \ {item},
                                   !.item = item.id, !.left = invited[item.id]]
    <2>1. Moves /\ NoneApproved
      BY <1>2, <1>3, <1>4, <1>6, StatusMoves, StatusesWritten, DeskFacts
    <2>2. queue'[item.id].status = "executing"
      BY <1>4, <1>6, SetStatusUpdates, StatusesWritten, DeskFacts
    <2>3. JobOK(job', Rows')
      BY <1>3, <1>4, <1>6, DeskFacts DEF JobOK
    <2>4. JobApproved'
      <3>1. job'.todo = job.todo \ {item}
        BY <1>6, DeskFacts DEF JobOK
      <3>2. /\ \A other \in job.todo : other.id \in approved
            /\ \A a, b \in job.todo : a.id = b.id => a = b
        BY <1>2, DeskFacts DEF JobApproved
      <3> QED
        BY <1>6, <3>1, <3>2 DEF JobApproved
    <2>5. CareTables'
      BY <1>2, <1>3, <1>6, DeskFacts DEF CareTables
    <2>6. ApprovedKnown'
      <3>1. \A id \in Rows \ {item.id} :
                queue'[id].status = "approved" => queue[id].status = "approved"
        BY <2>1 DEF NoneApproved
      <3> QED
        BY <1>3, <1>6, <2>1, <2>2, <3>1, DeskFacts DEF ApprovedKnown, Moves
    <2>7. QueueTypeOK' /\ TelegramTypeOK' /\ DecisionsLeft'
      BY <1>2, <2>1, MovesKeep, ChatStays, DeskFacts
    <2>8. CareTypeOK'
      BY <2>3, <2>5 DEF CareTypeOK, JobOK, CareTables
    <2> QED
      BY <2>4, <2>6, <2>7, <2>8 DEF DeskInv, CareDeskTypeOK
  <1> QED
    BY <1>1, <1>5, <1>6

\* A seeker is skipped, gets a draft, or the draft is logged.
LEMMA DraftKeeps ==
    ASSUME DeskInv, OpenLog \/ \E seeker \in Seekers : OpenSkip(seeker) \/ OpenDraft(seeker)
    PROVE  DeskInv'
  <1>1. /\ job.name \in {"draft", "log"} /\ UNCHANGED telegramVars
        /\ UNCHANGED <<invited, attendance, approved, restarts>>
    BY DEF OpenLog, OpenSkip, OpenDraft
  <1>2. Moves /\ NoneApproved
    <2>1. CASE UNCHANGED queueVars
      BY <2>1, StayMoves, DeskFacts
    <2>2. ASSUME NEW seeker \in Seekers, OpenDraft(seeker)
          PROVE  Moves /\ NoneApproved
      <3>1. EnqueueAction(NewRow("proactive_message", seeker, "class_reminder"))
        BY <2>2 DEF OpenDraft
      <3> QED
        BY <3>1, NewRowRow, InsertMoves, DeskFacts DEF Seekers
    <2> QED
      BY <2>1, <2>2 DEF OpenLog, OpenSkip
  <1>3. Rows \subseteq Rows'
    BY <1>2, MovesKeep, DeskFacts
  <1>4. JobOK(job, Rows') /\ JobOK(job, Rows) /\ JobApproved
    BY <1>3, JobGrows, DeskFacts
  <1>5. job.item # NoId /\ (job.name = "log" => job.who \in Seekers)
    BY <1>1, <1>4 DEF JobOK
  <1>6. reminded' \in {reminded, reminded \cup {job.who}} /\ reminded' \subseteq Seekers
    BY <1>5, DeskFacts DEF OpenLog, OpenSkip, OpenDraft, CareTables
  <1>7. /\ JobOK(job', Rows') /\ job'.todo = job.todo
        /\ job'.name \in {"draft", "log"}
    <2>1. CASE OpenLog
      <3>1. \/ job' = [job EXCEPT !.name = "draft", !.left = @ \ {job.who}, !.ok = TRUE]
            \/ job' = [job EXCEPT !.name = "draft", !.left = @ \ {job.who}]
        BY <2>1 DEF OpenLog
      <3>2. PICK done \in BOOLEAN :
                job' = [name |-> "draft", todo |-> job.todo, left |-> job.left \ {job.who},
                        ok |-> done, item |-> job.item, who |-> job.who]
        <4>1. \/ job' = [name |-> "draft", todo |-> job.todo, left |-> job.left \ {job.who},
                         ok |-> TRUE, item |-> job.item, who |-> job.who]
              \/ job' = [name |-> "draft", todo |-> job.todo, left |-> job.left \ {job.who},
                         ok |-> job.ok, item |-> job.item, who |-> job.who]
          BY <1>4, <3>1 DEF JobOK
        <4>2. job.ok \in BOOLEAN
          BY <1>4 DEF JobOK
        <4> QED
          BY <4>1, <4>2
      <3>3. /\ job' \in [name : {"draft"}, todo : {job.todo}, left : SUBSET Seekers,
                         ok : BOOLEAN, item : {job.item}, who : {job.who}]
        BY <1>4, <3>2 DEF JobOK
      <3> QED
        BY <1>4, <1>5, <3>3 DEF JobOK
    <2>2. ASSUME NEW seeker \in Seekers, OpenSkip(seeker)
          PROVE  /\ JobOK(job', Rows') /\ job'.todo = job.todo
                 /\ job'.name \in {"draft", "log"}
      <3>1. job' = [job EXCEPT !.left = @ \ {seeker}] /\ job.name = "draft"
        BY <2>2 DEF OpenSkip
      <3> QED
        BY <1>4, <1>5, <3>1 DEF JobOK
    <2>3. ASSUME NEW seeker \in Seekers, OpenDraft(seeker)
          PROVE  /\ JobOK(job', Rows') /\ job'.todo = job.todo
                 /\ job'.name \in {"draft", "log"}
      <3>1. job' = [job EXCEPT !.name = "log", !.who = seeker] /\ seeker \in Targets
        BY <2>3 DEF OpenDraft, Seekers
      <3>2. job' = [name |-> "log", todo |-> job.todo, left |-> job.left, ok |-> job.ok,
                    item |-> job.item, who |-> seeker]
        BY <1>4, <3>1 DEF JobOK
      <3> QED
        BY <1>4, <1>5, <2>3, <3>1, <3>2 DEF JobOK
    <2> QED
      BY <2>1, <2>2, <2>3
  <1>8. JobApproved'
    BY <1>1, <1>4, <1>7 DEF JobApproved
  <1>9. CareTables'
    BY <1>1, <1>3, <1>6, DeskFacts DEF CareTables
  <1> QED
    BY <1>1, <1>2, <1>7, <1>8, <1>9, SchedulerKeeps

\* A session is finished, an answer recorded, the scheduler restarted.
LEMMA EndKeeps ==
    ASSUME DeskInv, OpenFinish \/ AttendanceRecord \/ Restart
    PROVE  DeskInv'
  <1>1. UNCHANGED telegramVars /\ UNCHANGED <<invited, reminded, approved>>
    BY DEF OpenFinish, AttendanceRecord, Restart
  <1>2. CASE OpenFinish
    <2>1. \E outcome \in {"executed", "failed"} : FinishAction(job.item, outcome)
      BY <1>2 DEF OpenFinish
    <2>2. job.item \in Rows /\ job.name = "draft"
      BY <1>2, DeskFacts DEF OpenFinish, JobOK
    <2>3. Moves /\ NoneApproved /\ Rows' = Rows
      BY <2>1, <2>2, FinishMoves, DeskFacts DEF FinishAction, Rows
    <2>4. job' = Next1(job.todo, "claim") /\ UNCHANGED <<attendance, restarts>>
      BY <1>2 DEF OpenFinish
    <2>5. JobOK(job', Rows') /\ job'.todo = job.todo
      <3>1. job.todo \in SUBSET [id : Rows, status : Statuses]
        BY DeskFacts DEF JobOK
      <3> QED
        BY <2>3, <2>4, <3>1, NextJob
    <2>6. JobApproved'
      BY <1>1, <2>2, <2>5, DeskFacts DEF JobApproved
    <2>7. CareTables'
      BY <1>1, <2>3, <2>4, DeskFacts DEF CareTables
    <2> QED
      BY <1>1, <2>3, <2>5, <2>6, <2>7, SchedulerKeeps
  <1>3. CASE AttendanceRecord
    <2>1. PICK item \in job.todo :
             /\ LET seeker == queue[item.id].target_id
                IN  attendance' = IF attendance[seeker] = ""
                                  THEN [attendance EXCEPT ![seeker] = Attended(item.status)]
                                  ELSE attendance
             /\ IF item.status = "approved" THEN FinishAction(item.id, "executed")
                                            ELSE UNCHANGED queueVars
             /\ job' = Next1(job.todo \ {item}, "attend")
      BY <1>3 DEF AttendanceRecord
    <2>2. item.id \in Rows /\ job.todo \ {item} \in SUBSET [id : Rows, status : Statuses]
      BY DeskFacts DEF JobOK
    <2>3. Moves /\ NoneApproved /\ Rows' = Rows
      <3>1. CASE FinishAction(item.id, "executed")
        BY <2>2, <3>1, FinishMoves, DeskFacts DEF FinishAction, Rows
      <3>2. CASE UNCHANGED queueVars
        BY <3>2, StayMoves, DeskFacts DEF queueVars, Rows
      <3> QED
        BY <2>1, <3>1, <3>2
    <2>4. /\ JobOK(job', Rows') /\ job'.todo = job.todo \ {item}
          /\ job'.name \in {"idle", "attend"}
      BY <2>1, <2>2, <2>3, NextJob
    <2>5. JobApproved'
      BY <2>4, DeskFacts DEF JobApproved
    <2>6. attendance' \in [Seekers -> {"", "present", "absent"}]
      BY <2>1, DeskFacts DEF CareTables, Attended
    <2>7. CareTables'
      BY <1>1, <1>3, <2>3, <2>6, DeskFacts DEF CareTables, AttendanceRecord
    <2> QED
      BY <1>1, <2>3, <2>4, <2>5, <2>7, SchedulerKeeps
  <1>4. CASE Restart
    <2>1. UNCHANGED queueVars /\ job' = Idle /\ attendance' = attendance
      BY <1>4 DEF Restart
    <2>2. Moves /\ NoneApproved /\ Rows' = Rows
      BY <2>1, StayMoves, DeskFacts DEF queueVars, Rows
    <2>3. restarts' \in 0 .. MaxRestarts
      <3>1. restarts \in 0 .. MaxRestarts /\ MaxRestarts \in Nat
        BY CareAssumption, DeskFacts DEF CareTables
      <3>2. restarts < MaxRestarts /\ restarts' = restarts + 1
        BY <1>4 DEF Restart
      <3> QED
        BY <3>1, <3>2
    <2>4. JobOK(job', Rows') /\ JobApproved'
      BY <2>1, IdleJob DEF JobApproved
    <2>5. CareTables'
      BY <1>1, <2>1, <2>2, <2>3, DeskFacts DEF CareTables
    <2> QED
      BY <1>1, <2>2, <2>4, <2>5, SchedulerKeeps
  <1> QED
    BY <1>2, <1>3, <1>4

\* The operator and the worker: the job stands still, approvals are noted.
LEMMA OthersKeep ==
    ASSUME DeskInv, Operator \/ Worker
    PROVE  DeskInv'
  <1>1. UNCHANGED <<job, invited, reminded, attendance, restarts>> /\ NoteApprovals
    BY DEF Operator, Worker
  <1>2. Moves /\ TelegramTypeOK' /\ DecisionsLeft'
    <2>1. ASSUME NEW id \in Rows, NEW says \in {"like", "reply"}, React(id, says)
          PROVE  Moves /\ TelegramTypeOK' /\ DecisionsLeft'
      BY <2>1, ReactKeeps, StayMoves, DeskFacts DEF React
    <2>2. CASE (Decide \/ Deliver) /\ UNCHANGED telegramVars
      BY <2>2, DecideMoves, DeliverMoves, ChatStays, DeskFacts
    <2>3. CASE PollBegin \/ PollCommit \/ PollAbort
      <3>1. UNCHANGED queueVars
        BY <2>3 DEF PollBegin, PollCommit, PollAbort
      <3> QED
        BY <2>3, <3>1, StayMoves, BatchKeeps, DeskFacts
    <2>4. CASE PollUpdate
      BY <2>4, PollUpdateKeeps
    <2> QED
      BY <2>1, <2>2, <2>3, <2>4 DEF Operator, Worker, Polling
  <1>3. QueueTypeOK' /\ Rows \subseteq Rows'
    BY <1>2, MovesKeep, DeskFacts
  <1>4. ApprovedKnown' /\ approved \subseteq approved' /\ approved' \subseteq Rows'
    BY <1>1, <1>2, ApprovalsNoted
  <1>5. JobOK(job', Rows') /\ JobApproved'
    BY <1>1, <1>3, <1>4, JobGrows, DeskFacts DEF JobApproved
  <1>6. CareTypeOK'
    BY <1>1, <1>4, <1>5, DeskFacts DEF CareTypeOK, JobOK, CareTables
  <1> QED
    BY <1>2, <1>3, <1>4, <1>5, <1>6 DEF DeskInv, CareDeskTypeOK

-----------------------------------------------------------------------------
(* The theorems.                                                           *)

\* The invariant holds of the empty desk.
LEMMA DeskStart == DeskInit => DeskInv
  <1> SUFFICES ASSUME DeskInit PROVE DeskInv
    OBVIOUS
  <1>1. QueueTypeOK /\ Rows = {}
    BY InitInv DEF DeskInit, QueueInv, QueueInit, Rows
  <1>2. TelegramTypeOK
    <2>1. /\ chat = {} /\ hitl = [id \in Ids |-> "none"] /\ updates = <<>>
          /\ offset = 0 /\ poll = NoPoll /\ aborts = 0
      BY DEF DeskInit, TelegramInit
    <2>2. updates \in Seq([id : Rows, says : {"like", "reply"}]) /\ Len(updates) = 0
      BY <2>1, EmptySeq
    <2> QED
      BY <2>1, <2>2, TelegramAssumption DEF TelegramTypeOK
  <1>3. DecisionsLeft
    BY DEF DeskInit, TelegramInit, DecisionsLeft
  <1>4. JobOK(job, Rows) /\ JobApproved /\ CareTables
    <2>1. /\ job = Idle /\ invited = [id \in Ids |-> {}] /\ reminded = {}
          /\ attendance = [s \in Seekers |-> ""] /\ approved = {} /\ restarts = 0
      BY DEF DeskInit, CareInit
    <2>2. 0 \in 0 .. MaxRestarts
      BY CareAssumption
    <2>3. JobOK(job, Rows) /\ JobApproved
      BY <2>1, IdleJob DEF JobApproved
    <2>4. CareTables
      BY <2>1, <2>2 DEF CareTables
    <2> QED
      BY <2>3, <2>4
  <1>5. ApprovedKnown
    BY <1>1 DEF ApprovedKnown
  <1> QED
    BY <1>1, <1>2, <1>3, <1>4, <1>5, CareParts DEF DeskInv, CareDeskTypeOK

\* The invariant is inductive.
LEMMA DeskStep == DeskInv /\ [DeskNext]_deskVars => DeskInv'
  <1> SUFFICES ASSUME DeskInv, [DeskNext]_deskVars PROVE DeskInv'
    OBVIOUS
  <1>1. CASE UNCHANGED deskVars
    <2>1. /\ UNCHANGED queueVars /\ UNCHANGED telegramVars
          /\ UNCHANGED <<job, invited, reminded, attendance, approved, restarts>>
      BY <1>1 DEF deskVars, careVars
    <2>2. Moves /\ NoneApproved /\ Rows' = Rows
      BY <2>1, StayMoves, DeskFacts DEF queueVars, Rows
    <2>3. JobOK(job', Rows') /\ JobApproved' /\ CareTables'
      BY <2>1, <2>2, DeskFacts DEF JobApproved, CareTables
    <2> QED
      BY <2>1, <2>2, <2>3, SchedulerKeeps
  <1>2. CASE Scheduler
    BY <1>2, ProposeKeeps, PostItemKeeps, ReadKeeps, ClaimKeeps, DraftKeeps, EndKeeps
       DEF Scheduler, Continue
  <1> QED
    BY <1>1, <1>2, OthersKeep DEF DeskNext

\* The inductive invariant holds throughout.
THEOREM DeskInvariant == DeskSpec => []DeskInv
  BY DeskStart, DeskStep, PTL DEF DeskSpec

\* The queue, the chat, the open batch and the scheduler's job are well-typed, a
\* job names rows that exist, and an update names a proposal that was made.
THEOREM DeskTypes == DeskSpec => []CareDeskTypeOK
  <1>1. DeskInv => CareDeskTypeOK
    BY DEF DeskInv
  <1> QED
    BY <1>1, DeskInvariant, PTL

\* poll_telegram_updates: what telegram_hitl_queue calls decided is decided in
\* action_queue, wherever a batch is cut short and however often it is replayed.
THEOREM TablesAgree == DeskSpec => []HitlMatchesQueue
  <1>1. DeskInv => HitlMatchesQueue
    BY DeskFacts, QueueFacts DEF DecisionsLeft, Settled, HitlMatchesQueue
  <1> QED
    BY <1>1, DeskInvariant, PTL

\* run_session_open_cycle: a session is opened on an approval nobody has used,
\* whatever the operator did to the rows since the cycle read them.
THEOREM OpenedOnApproval == DeskSpec => OneOpeningPerApproval
  <1>1. DeskInv /\ [DeskNext]_deskVars =>
            [job.name = "claim" /\ job'.name = "draft" => job'.item \in approved]_deskVars
    <2> SUFFICES ASSUME DeskInv, DeskNext, job.name = "claim", job'.name = "draft"
                 PROVE  job'.item \in approved
      OBVIOUS
    <2>1. OpenClaim
      BY IdleJob DEF DeskNext, Scheduler, Continue, Digest, Checklist, OpenRead, AttendanceRead,
         PostItem, PersistItem, OpenLog, OpenFinish, AttendanceRecord, OpenSkip, OpenDraft,
         Restart, Operator, Worker
    <2>2. PICK item \in job.todo :
             \/ job' = [job EXCEPT !.name = "draft", !.todo = @ \ {item},
                                   !.item = item.id, !.left = invited[item.id]]
             \/ job' = Idle
      BY <2>1 DEF OpenClaim
    <2>3. job'.item = item.id
      BY <2>2, IdleJob, DeskFacts DEF JobOK
    <2> QED
      BY <2>3, DeskFacts DEF JobApproved
  <1> QED
    BY <1>1, DeskStep, DeskStart, PTL DEF DeskSpec, OneOpeningPerApproval

-----------------------------------------------------------------------------
(* What the desk leaves of the queue's promises.  Every call of the desk   *)
(* is an operation of ActionQueue but one: the open cycle claims by id     *)
(* what it read as approved, whatever the row has become.                  *)

\* The open cycle holds session proposals only, and nobody here regenerates.
SessionsHeld ==
    job.name \in {"claim", "draft", "log"} =>
        \A item \in job.todo : queue[item.id].queue_type = "session_proposal"

NoneOpen == \A e \in Engines : regen[e] = NoTx

TableInv == DeskInv /\ QueueInv /\ SessionsHeld /\ NoneOpen

\* The one write that is no operation of the queue.
Reclaims(id) ==
    /\ queue[id].queue_type = "session_proposal"
    /\ IndexAdmits(queue, queue[id], id)
    /\ queue' = SetStatus(id, "executing")
    /\ UNCHANGED <<lastId, regen, claim>>

\* A fresh proposal of the proactive routes is one of the queue's.
LEMMA NewRowProposed ==
    ASSUME NEW qtype \in {"session_proposal", "attendance_check", "proactive_message"},
           NEW target \in Targets, NEW type \in {"class_reminder", "attendance"},
           EnqueueAction(NewRow(qtype, target, type))
    PROVE  QueueNext
  <1>1. /\ qtype \in QueueTypes /\ TheKind(type) \in Kinds /\ NoSnapshot \in Snapshots
        /\ (CHOOSE t \in Texts : TRUE) \in Texts
    BY CareAssumption, QueueTypesAssumption, SnapshotsAssumption DEF OutboundQueueTypes
  <1>2. EnqueueAction(Proposal(qtype, target, TheKind(type), CHOOSE t \in Texts : TRUE,
                               NoSnapshot))
    BY DEF NewRow
  <1>3. Propose
    BY <1>1, <1>2 DEF Propose
  <1> QED
    BY <1>3 DEF QueueNext

\* Finishing a row, deciding it, and the steps of the worker's claim.
LEMMA RowSteps ==
    ASSUME NEW id \in Rows,
           \/ \E outcome \in {"executed", "failed"} : FinishAction(id, outcome)
           \/ ApproveAction(id) \/ RejectAction(id)
           \/ ClaimSelect(id, "proactive_message")
    PROVE  QueueNext
  <1>1. CASE \/ \E outcome \in {"executed", "failed"} : FinishAction(id, outcome)
            \/ ClaimSelect(id, "proactive_message")
    <2>1. Work
      BY <1>1 DEF Work, OutboundQueueTypes
    <2> QED
      BY <2>1 DEF QueueNext
  <1>2. CASE ApproveAction(id) \/ RejectAction(id)
    <2>1. Decide
      BY <1>2 DEF Decide
    <2> QED
      BY <2>1 DEF QueueNext
  <1> QED
    BY <1>1, <1>2

\* What the scheduler does to the queue.
LEMMA SchedulerSteps ==
    ASSUME TableInv, Scheduler
    PROVE  /\ [QueueNext]_queueVars \/ \E item \in job.todo : Reclaims(item.id)
           /\ ~OpenClaim => [QueueNext]_queueVars
           /\ Moves
  <1>1. JobOK(job, Rows) /\ SessionsHeld /\ QueueTypeOK
    BY DeskFacts DEF TableInv
  <1> DEFINE Goal == /\ [QueueNext]_queueVars \/ \E item \in job.todo : Reclaims(item.id)
                     /\ ~OpenClaim => [QueueNext]_queueVars
                     /\ Moves
  <1>2. CASE UNCHANGED queueVars
    BY <1>1, <1>2, StayMoves
  <1>3. ASSUME NEW qtype \in {"session_proposal", "attendance_check", "proactive_message"},
               NEW target \in Targets, NEW type \in {"class_reminder", "attendance"},
               EnqueueAction(NewRow(qtype, target, type))
        PROVE  Goal
    BY <1>1, <1>3, NewRowProposed, NewRowRow, InsertMoves
  <1>4. ASSUME NEW id \in Rows, NEW outcome \in {"executed", "failed"},
               FinishAction(id, outcome)
        PROVE  Goal
    BY <1>1, <1>4, RowSteps, FinishMoves
  <1>5. CASE Digest
    BY <1>3, <1>5, CareAssumption DEF Digest
  <1>6. ASSUME NEW seeker \in Seekers, Checklist(seeker) \/ OpenDraft(seeker)
        PROVE  Goal
    BY <1>3, <1>6 DEF Checklist, OpenDraft, Seekers
  <1>7. CASE OpenClaim
    <2>1. PICK item \in job.todo :
             \/ /\ IndexAdmits(queue, queue[item.id], item.id)
                /\ queue' = SetStatus(item.id, "executing")
             \/ queue' = queue
      BY <1>7 DEF OpenClaim
    <2>2. UNCHANGED <<lastId, regen, claim>> /\ job.name = "claim"
      BY <1>7 DEF OpenClaim
    <2>3. queue[item.id].queue_type = "session_proposal" /\ item.id \in Rows
      BY <1>1, <2>2 DEF SessionsHeld, JobOK
    <2>4. Moves
      BY <1>1, <2>1, <2>2, <2>3, StatusMoves, StatusesWritten, QueueFacts
    <2> QED
      BY <1>7, <2>1, <2>2, <2>3, <2>4 DEF Reclaims, queueVars
  <1>8. CASE OpenFinish
    <2>1. \E outcome \in {"executed", "failed"} : FinishAction(job.item, outcome)
      BY <1>8 DEF OpenFinish
    <2>2. job.item \in Rows
      BY <1>1, <1>8 DEF OpenFinish, JobOK
    <2> QED
      BY <1>4, <2>1, <2>2
  <1>9. CASE AttendanceRecord
    <2>1. PICK item \in job.todo : \/ FinishAction(item.id, "executed")
                                   \/ UNCHANGED queueVars
      BY <1>9 DEF AttendanceRecord
    <2>2. item.id \in Rows
      BY <1>1 DEF JobOK
    <2> QED
      BY <1>2, <1>4, <2>1, <2>2
  <1> QED
    BY <1>2, <1>5, <1>6, <1>7, <1>8, <1>9
       DEF Scheduler, Continue, OpenRead, AttendanceRead, PostItem, PersistItem, Post, Persist,
           OpenLog, OpenSkip, Restart

\* What the operator, the poll and the worker do to it.
LEMMA OtherSteps ==
    ASSUME TableInv, Operator \/ Worker
    PROVE  [QueueNext]_queueVars /\ Moves
  <1>1. DeskInv /\ QueueTypeOK /\ TelegramTypeOK
    BY DeskFacts DEF TableInv
  <1>2. CASE UNCHANGED queueVars
    BY <1>1, <1>2, StayMoves
  <1>3. CASE Decide
    BY <1>1, <1>3, DecideMoves DEF QueueNext
  <1>4. CASE Deliver
    <2>1. QueueNext
      BY <1>4, RowSteps DEF Deliver, QueueNext
    <2> QED
      BY <1>1, <1>4, <2>1, DeliverMoves
  <1>5. CASE PollUpdate
    <2>1. Update.id \in Rows
      BY <1>1, <1>5, UpdateFacts DEF PollUpdate
    <2>2. \/ UNCHANGED queueVars
          \/ ApproveAction(Update.id) \/ RejectAction(Update.id)
      BY <1>5 DEF PollUpdate, Decided
    <2>3. [QueueNext]_queueVars
      BY <2>1, <2>2, RowSteps
    <2> QED
      BY <1>1, <1>5, <2>3, PollUpdateKeeps
  <1> QED
    BY <1>2, <1>3, <1>4, <1>5
       DEF Operator, Worker, Polling, PollBegin, PollCommit, PollAbort, React

\* Claiming a session again revives no second proposal of its slot, since the
\* unique index refuses it, and concerns no DM.
LEMMA ReclaimKeeps ==
    ASSUME QueueInv, NEW id \in Rows, Reclaims(id)
    PROVE  QueueInv'
  <1>1. QueueTypeOK /\ Rows' = Rows
    BY DEF QueueInv, Reclaims, Rows
  <1>2. /\ Updates(queue') /\ queue'[id].status = "executing"
        /\ \A r \in Rows \ {id} : queue'[r] = queue[r]
    BY <1>1, SetStatusUpdates, StatusesWritten DEF Reclaims
  <1>3. \A r \in Rows : /\ queue'[r].target_id = queue[r].target_id
                        /\ queue'[r].queue_type = queue[r].queue_type
                        /\ queue'[r].kind = queue[r].kind
    BY <1>2 DEF Updates
  <1>4. queue[id].queue_type \notin OutboundQueueTypes
    BY DEF Reclaims, OutboundQueueTypes
  <1>5. OneDmPerRecipient'
    BY <1>1, <1>2, <1>3, <1>4 DEF QueueInv, OneDmPerRecipient
  <1>6. \A r \in Rows \ {id} : Live(queue[r]) => ~SameSlot(queue[r], queue[id])
    BY <1>1 DEF IndexAdmits, QueueTypeOK, Reclaims
  <1>7. OneLivePerSlot'
    <2> SUFFICES ASSUME NEW a \in Rows, NEW b \in Rows,
                        Live(queue'[a]), Live(queue'[b]), SameSlot(queue'[a], queue'[b])
                 PROVE  a = b
      BY <1>1 DEF OneLivePerSlot
    <2>1. SameSlot(queue[a], queue[b]) /\ SameSlot(queue[b], queue[a])
      BY <1>3 DEF SameSlot
    <2>2. CASE a # id /\ b # id
      BY <1>2, <2>1, <2>2 DEF QueueInv, OneLivePerSlot
    <2>3. CASE a = id \/ b = id
      BY <1>2, <1>6, <2>1, <2>3
    <2> QED
      BY <2>2, <2>3
  <1>8. ClaimClear'
    <2> SUFFICES ASSUME claim # NoId
                 PROVE  queue'[claim].queue_type \in OutboundQueueTypes /\ ~Busy(claim)'
      BY DEF ClaimClear, Reclaims
    <2>1. claim \in Rows /\ claim' = claim
      BY <1>1 DEF QueueTypeOK, Reclaims
    <2> QED
      BY <1>1, <1>2, <1>3, <1>4, <2>1 DEF QueueInv, ClaimClear, Busy
  <1>9. QueueTypeOK' /\ PendingRegen'
    BY <1>1, <1>2, UpdateTypes DEF Reclaims, QueueInv, PendingRegen
  <1> QED
    BY <1>5, <1>7, <1>8, <1>9 DEF QueueInv

\* A cycle is opened with session proposals, and goes on with those it has left.
LEMMA SessionsStep ==
    ASSUME TableInv, [DeskNext]_deskVars, Moves
    PROVE  SessionsHeld'
  <1>1. JobOK(job, Rows) /\ SessionsHeld /\ QueueTypeOK
    BY DeskFacts DEF TableInv
  <1>2. \A item \in job.todo : /\ item.id \in Rows
                               /\ queue'[item.id].queue_type = queue[item.id].queue_type
    BY <1>1 DEF JobOK, Moves
  <1>3. CASE /\ job.name \in {"claim", "draft", "log"} /\ job'.todo \subseteq job.todo
    BY <1>1, <1>2, <1>3 DEF SessionsHeld
  <1>4. CASE job'.name \notin {"claim", "draft", "log"}
    BY <1>4 DEF SessionsHeld
  <1>5. CASE UNCHANGED job
    BY <1>3, <1>4, <1>5
  <1>6. CASE OpenRead
    <2>1. job' = Next1(Read(ApprovedSessions), "claim") /\ queue' = queue
      BY <1>6 DEF OpenRead, queueVars
    <2>2. /\ Read(ApprovedSessions) \in SUBSET [id : Rows, status : Statuses]
          /\ \A item \in Read(ApprovedSessions) : item.id \in ApprovedSessions
      BY <1>1, ReadRows DEF ApprovedSessions
    <2>3. job'.todo = Read(ApprovedSessions)
      BY <2>1, <2>2, NextJob
    <2> QED
      BY <2>1, <2>2, <2>3 DEF SessionsHeld, ApprovedSessions
  <1>7. CASE OpenFinish
    <2>1. job.name = "draft" /\ job' = Next1(job.todo, "claim")
      BY <1>7 DEF OpenFinish
    <2>2. job.todo \in SUBSET [id : Rows, status : Statuses]
      BY <1>1 DEF JobOK
    <2>3. job'.todo = job.todo
      BY <2>1, <2>2, NextJob
    <2> QED
      BY <1>3, <2>1, <2>3
  <1>8. CASE OpenClaim
    <2>1. PICK item \in job.todo :
             \/ job' = [job EXCEPT !.name = "draft", !.todo = @ \ {item},
                                   !.item = item.id, !.left = invited[item.id]]
             \/ job' = Idle
      BY <1>8 DEF OpenClaim
    <2>2. job.name = "claim"
      BY <1>8 DEF OpenClaim
    <2>3. CASE job' # Idle
      <3>1. job'.todo = job.todo \ {item}
        BY <1>1, <2>1, <2>3 DEF JobOK
      <3> QED
        BY <1>3, <2>2, <3>1
    <2> QED
      BY <1>4, <2>3, IdleJob
  <1>9. CASE OpenLog \/ \E seeker \in Seekers : OpenSkip(seeker) \/ OpenDraft(seeker)
    <2>1. job.name \in {"draft", "log"} /\ job'.todo = job.todo
      BY <1>1, <1>9 DEF OpenLog, OpenSkip, OpenDraft, JobOK
    <2> QED
      BY <1>3, <2>1
  <1>10. CASE AttendanceRead \/ AttendanceRecord
    <2>1. PICK todo : job' = Next1(todo, "attend")
      BY <1>10 DEF AttendanceRead, AttendanceRecord
    <2>2. job' = Idle \/ job' = [Idle EXCEPT !.name = "attend", !.todo = todo]
      BY <2>1 DEF Next1
    <2>3. Idle.name = "idle" /\ [Idle EXCEPT !.name = "attend", !.todo = todo].name = "attend"
      BY DEF Idle
    <2> QED
      BY <1>4, <2>2, <2>3
  <1>11. CASE \/ Digest \/ PostItem \/ PersistItem \/ Restart
             \/ \E seeker \in Seekers : Checklist(seeker)
    <2>1. CASE PostItem
      <3>1. job' = [job EXCEPT !.name = "persist"]
        BY <2>1 DEF PostItem
      <3> QED
        BY <1>1, <1>4, <3>1 DEF JobOK
    <2>2. CASE PersistItem \/ Restart
      BY <1>4, <2>2, IdleJob DEF PersistItem, Restart
    <2>3. CASE Digest \/ \E seeker \in Seekers : Checklist(seeker)
      <3>1. job' = [Idle EXCEPT !.name = "post", !.item = lastId + 1]
        BY <2>3 DEF Digest, Checklist
      <3>2. job'.name = "post"
        BY <3>1 DEF Idle
      <3> QED
        BY <1>4, <3>2
    <2> QED
      BY <1>11, <2>1, <2>2, <2>3
  <1> QED
    BY <1>5, <1>6, <1>7, <1>8, <1>9, <1>10, <1>11
       DEF DeskNext, Scheduler, Continue, Operator, Worker, deskVars, careVars

\* The queue's invariant is the desk's as well.
LEMMA TableStep == TableInv /\ [DeskNext]_deskVars => TableInv'
  <1> SUFFICES ASSUME TableInv, [DeskNext]_deskVars PROVE TableInv'
    OBVIOUS
  <1>1. DeskInv /\ QueueInv /\ NoneOpen /\ QueueTypeOK /\ JobOK(job, Rows)
    BY DeskFacts DEF TableInv
  <1>2. /\ [QueueNext]_queueVars \/ \E item \in job.todo : Reclaims(item.id)
        /\ Moves
    <2>1. CASE UNCHANGED deskVars
      BY <1>1, <2>1, StayMoves DEF deskVars
    <2> QED
      BY <2>1, SchedulerSteps, OtherSteps DEF DeskNext
  <1>3. QueueInv'
    <2>1. \A item \in job.todo : item.id \in Rows
      BY <1>1 DEF JobOK
    <2> QED
      BY <1>1, <1>2, <2>1, NextInv, ReclaimKeeps
  <1>4. NoneOpen'
    BY <1>1, <1>2 DEF Moves, NoneOpen
  <1>5. SessionsHeld'
    BY <1>2, SessionsStep
  <1> QED
    BY <1>1, <1>3, <1>4, <1>5, DeskStep DEF TableInv

LEMMA TableStart == DeskInit => TableInv
  BY DeskStart, InitInv, IdleJob DEF DeskInit, CareInit, QueueInit, TableInv, SessionsHeld,
     NoneOpen

\* The desk reclaims sessions past the queue's operations, and still no target
\* has two live proposals of one kind, and no recipient two DMs executing: the
\* unique index is asked, and a session is no DM.
THEOREM DeskKeepsQueue == DeskSpec => [](OneDmPerRecipient /\ OneLivePerSlot)
  <1>1. TableInv => OneDmPerRecipient /\ OneLivePerSlot
    BY DEF TableInv, QueueInv
  <1> QED
    BY <1>1, TableStart, TableStep, PTL DEF DeskSpec

\* l5_proactive_routes.py:181: what the open cycle claims it claims whatever
\* the row has become; nothing else of the desk brings a decided row back
\* without the operator.  The exception is a session proposal, read as approved
\* when the cycle began, and the cycle goes on to draft it.
DecidedStays ==
    [][\A id \in Rows : ~Live(queue[id]) =>
          \/ queue'[id].status \in {queue[id].status, "approved"}
          \/ /\ queue[id].queue_type = "session_proposal" /\ queue'[id].status = "executing"
             /\ job.name = "claim" /\ job'.name = "draft" /\ job'.item = id]_deskVars

THEOREM DeskDecidedStays == DeskSpec => DecidedStays
  <1>1. TableInv /\ [DeskNext]_deskVars =>
            [\A id \in Rows : ~Live(queue[id]) =>
                \/ queue'[id].status \in {queue[id].status, "approved"}
                \/ /\ queue[id].queue_type = "session_proposal" /\ queue'[id].status = "executing"
                   /\ job.name = "claim" /\ job'.name = "draft" /\ job'.item = id]_deskVars
    <2> SUFFICES ASSUME TableInv, DeskNext, NEW id \in Rows, ~Live(queue[id]),
                        queue'[id].status \notin {queue[id].status, "approved"}
                 PROVE  /\ queue[id].queue_type = "session_proposal"
                        /\ queue'[id].status = "executing"
                        /\ job.name = "claim" /\ job'.name = "draft" /\ job'.item = id
      OBVIOUS
    <2>1. QueueInv /\ RegenLive /\ QueueTypeOK /\ JobOK(job, Rows) /\ SessionsHeld
      BY DeskFacts DEF TableInv, NoneOpen, RegenLive
    <2>2. ~ [QueueNext]_queueVars
      BY <2>1, OnlyReopenedStep DEF OnlyReopened, queueVars
    <2>3. OpenClaim
      <3>1. Scheduler
        BY <2>2, OtherSteps DEF DeskNext
      <3> QED
        BY <2>2, <3>1, SchedulerSteps
    <2>4. PICK item \in job.todo :
             \/ /\ queue' = SetStatus(item.id, "executing")
                /\ job' = [job EXCEPT !.name = "draft", !.todo = @ \ {item},
                                      !.item = item.id, !.left = invited[item.id]]
             \/ queue' = queue
      BY <2>3 DEF OpenClaim
    <2>5. item.id \in Rows /\ job.name = "claim"
      BY <2>1, <2>3 DEF OpenClaim, JobOK
    <2>6. queue' # queue /\ id = item.id
      BY <2>1, <2>4, <2>5, SetStatusUpdates, StatusesWritten
    <2>7. /\ queue'[id].status = "executing"
          /\ queue[id].queue_type = "session_proposal"
      BY <2>1, <2>4, <2>5, <2>6, SetStatusUpdates, StatusesWritten DEF SessionsHeld
    <2> QED
      BY <2>1, <2>4, <2>5, <2>6, <2>7 DEF JobOK
  <1> QED
    BY <1>1, TableStart, TableStep, PTL DEF DeskSpec, DecidedStays
=============================================================================
