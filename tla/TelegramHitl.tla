---------------------------- MODULE TelegramHitl ----------------------------
(***************************************************************************)
(* Approvals in Telegram (tools/l5_telegram_hitl.py): a proposal is posted *)
(* to the chat and then written to telegram_hitl_queue; the HITL worker    *)
(* polls the chat and carries reactions and replies over to the linked     *)
(* action_queue row.                                                       *)
(*                                                                         *)
(* A poll keeps one connection open over the whole batch: the decisions on *)
(* telegram_hitl_queue and the offset are committed at its end, while      *)
(* approve_action and reject_action commit on connections of their own.    *)
(* Under SQLite the first of these waits for the write lock the poll       *)
(* itself holds, and the batch is given up.                                *)
(***************************************************************************)
EXTENDS ActionQueue, Sequences

CONSTANTS
    MaxUpdates,  \* bound: reactions and replies the operator sends
    MaxAborts    \* bound: batches an error or a kill cuts short, answers lost

ASSUME TelegramAssumption == MaxUpdates \in Nat /\ MaxAborts \in Nat

VARIABLES
    chat,     \* ids whose proposal was posted to the chat
    hitl,     \* action id -> status of its telegram_hitl_queue row
    updates,  \* what the operator sent, in the order of update_id
    offset,   \* the stored telegram_offset
    poll,     \* the open batch: the updates left, its uncommitted writes
    aborts

telegramVars == <<chat, hitl, updates, offset, poll, aborts>>

NoPoll == [open |-> FALSE]

\* "local": the row has a local:<uuid> message id, nobody can react to it.
TelegramTypeOK ==
    /\ chat \subseteq Rows
    /\ hitl \in [Ids -> {"none", "local", "pending", "approved", "rejected"}]
    /\ updates \in Seq([id : Rows, says : {"like", "reply"}])
    /\ Len(updates) <= MaxUpdates
    /\ offset \in 0 .. Len(updates)
    /\ poll = NoPoll \/ /\ poll \in [open : {TRUE}, at : Nat, end : Nat,
                                    writes : [Ids -> {"", "approved", "rejected"}]]
                        /\ poll.at \in offset .. poll.end
                        /\ poll.end <= Len(updates)
    /\ aborts \in 0 .. MaxAborts

TelegramInit ==
    /\ chat = {}
    /\ hitl = [id \in Ids |-> "none"]
    /\ updates = <<>>
    /\ offset = 0
    /\ poll = NoPoll
    /\ aborts = 0

-----------------------------------------------------------------------------
(* Posting: the message first, its row afterwards.                         *)

Post(id) == /\ chat' = chat \cup {id}
            /\ UNCHANGED <<hitl, updates, offset, poll, aborts, queueVars>>

\* _persist_hitl_proposal.  Telegram is unconfigured or refused the message, or
\* its answer or the first INSERT was lost and the message stands in the chat all
\* the same: the row is kept under a local id.
Persist(id) ==
    /\ \/ /\ hitl' = [hitl EXCEPT ![id] = IF id \in chat THEN "pending" ELSE "local"]
          /\ UNCHANGED aborts
       \/ /\ id \in chat
          /\ aborts < MaxAborts
          /\ hitl' = [hitl EXCEPT ![id] = "local"]
          /\ aborts' = aborts + 1
    /\ UNCHANGED <<chat, updates, offset, poll, queueVars>>

\* The operator reacts to a message, or answers it.
React(id, says) ==
    /\ id \in chat
    /\ Len(updates) < MaxUpdates
    /\ updates' = Append(updates, [id |-> id, says |-> says])
    /\ UNCHANGED <<chat, hitl, offset, poll, aborts, queueVars>>

-----------------------------------------------------------------------------
(* Polling.                                                                *)

PollBegin ==
    /\ poll = NoPoll
    /\ offset < Len(updates)
    /\ poll' = [open |-> TRUE, at |-> offset, end |-> Len(updates),
                writes |-> [id \in Ids |-> ""]]
    /\ UNCHANGED <<chat, hitl, updates, offset, aborts, queueVars>>

Update == updates[poll.at + 1]

\* UPDATE telegram_hitl_queue ... WHERE status='pending' found a row.
Matched == hitl[Update.id] = "pending" /\ poll.writes[Update.id] = ""
Verdict == IF Update.says = "like" THEN "approved" ELSE "rejected"

\* approve_action or reject_action; neither finds the row when it moved on.
Decided ==
    \/ Update.says = "like" /\ ApproveAction(Update.id)
    \/ Update.says = "reply" /\ RejectAction(Update.id)
    \/ /\ IF Update.says = "like" THEN queue[Update.id].status # "pending"
                                  ELSE queue[Update.id].status \notin {"pending", "approved"}
       /\ UNCHANGED queueVars

\* Mutant: the linked action is left to the dashboard.
PollUpdateAlone ==
    /\ poll # NoPoll /\ poll.at < poll.end
    /\ poll' = [poll EXCEPT !.at = @ + 1,
                            !.writes[Update.id] = IF Matched THEN Verdict ELSE @]
    /\ UNCHANGED <<chat, hitl, updates, offset, aborts, queueVars>>

\* SQLite: approve_action or reject_action waits on a second connection for
\* the lock the first one holds, and gives up ("database is locked").
LockedOut == /\ poll # NoPoll /\ poll.at < poll.end
             /\ Matched /\ Backend = "sqlite"

PollUpdate ==
    /\ poll # NoPoll /\ poll.at < poll.end
    /\ ~LockedOut
    /\ \/ ~Matched /\ UNCHANGED queueVars
       \/ Matched /\ Decided
    /\ poll' = [poll EXCEPT !.at = @ + 1,
                            !.writes[Update.id] = IF Matched THEN Verdict ELSE @]
    /\ UNCHANGED <<chat, hitl, updates, offset, aborts>>

PollCommit ==
    /\ poll # NoPoll /\ poll.at = poll.end
    /\ hitl' = [id \in Ids |-> IF poll.writes[id] # "" THEN poll.writes[id] ELSE hitl[id]]
    /\ offset' = poll.end
    /\ poll' = NoPoll
    /\ UNCHANGED <<chat, updates, aborts, queueVars>>

\* Mutant: the offset is stored even so.
PollAbortMoves ==
    /\ poll # NoPoll
    /\ aborts < MaxAborts \/ LockedOut
    /\ aborts' = IF LockedOut THEN aborts ELSE aborts + 1
    /\ offset' = poll.end
    /\ poll' = NoPoll
    /\ UNCHANGED <<chat, hitl, updates, queueVars>>

\* An error or a kill: the batch is rolled back, what the other connections
\* committed stays, and the next poll sees the same updates again.
PollAbort ==
    /\ poll # NoPoll
    /\ aborts < MaxAborts \/ LockedOut
    /\ aborts' = IF LockedOut THEN aborts ELSE aborts + 1
    /\ poll' = NoPoll
    /\ UNCHANGED <<chat, hitl, updates, offset, queueVars>>

Polling == PollBegin \/ PollUpdate \/ PollCommit

-----------------------------------------------------------------------------
\* The two tables agree: what telegram_hitl_queue calls decided is no longer
\* pending in action_queue, although the two are committed separately and a
\* batch may be cut short and replayed (l5_telegram_hitl.py:316-369).
HitlMatchesQueue ==
    \A id \in Rows : hitl[id] \in {"approved", "rejected"} => queue[id].status # "pending"

\* l4_sqlite_store.py:598-600: an approved Telegram reaction lets an executor
\* claim the row.  A reaction that finds the proposal's row written decides it,
\* however many batches are cut short before.  (One that is polled between the
\* post and its row is lost.)
Awaited(n) == /\ n \in offset + 1 .. Len(updates)
              /\ poll # NoPoll => n > poll.at
              /\ hitl[updates[n].id] = "pending"

Answered(n) == /\ n \in DOMAIN updates
               /\ hitl[updates[n].id] \in {"approved", "rejected"}

ReactionArrives == \A n \in 1 .. MaxUpdates : Awaited(n) ~> Answered(n)
=============================================================================
