----------------------------- MODULE ActionQueue -----------------------------
(***************************************************************************)
(* The action_queue table: the durable hand-over between whoever proposes  *)
(* an outbound message (MAS runs, the scheduler, the dashboard), the       *)
(* operator who approves it, and the one worker that delivers it.          *)
(*                                                                         *)
(* Every operation of tools/l5_action_queue.py and of the dashboard's      *)
(* action-queue routes is one action here; a transaction that reads before *)
(* it writes is two.  SQLite's BEGIN IMMEDIATE keeps every other writer    *)
(* out until the commit; PostgreSQL, where db.py turns it into a plain     *)
(* BEGIN, does not (constant Backend).                                     *)
(*                                                                         *)
(* One Page is modelled: target_id carries the page id as its prefix, so   *)
(* the page_id filters never mix two Pages.                                *)
(***************************************************************************)
EXTENDS Integers, FiniteSets

CONSTANTS
    QueueTypes,  \* queue_type values in use, the two DM queues among them
    Targets,     \* Facebook threads, the possible target_id values
    Kinds,       \* what the payload says of a proposal: type, dedupe_key, source
    Texts,       \* action_text values, up to equality
    Snapshots,   \* conversation_snapshot values (NoSnapshot when there is none)
    NoSnapshot,
    MaxId,       \* bound: how many proposals are ever inserted
    Engines,     \* the processes that may hold a replace_action transaction open
    Decisions,   \* the decisions the operator takes on the dashboard
    Backend      \* "sqlite" or "postgres"

OutboundQueueTypes == {"reply_message", "proactive_message"}

ASSUME QueueTypesAssumption == OutboundQueueTypes \subseteq QueueTypes
ASSUME KindsAssumption ==
    Kinds \subseteq [type : STRING, dedupe_key : STRING, source : STRING]
ASSUME SnapshotsAssumption == NoSnapshot \in Snapshots
ASSUME MaxIdAssumption == MaxId \in Nat
ASSUME DecisionsAssumption ==
    Decisions \subseteq {"approve", "reject", "reprocess", "delete"}
ASSUME BackendAssumption == Backend \in {"sqlite", "postgres"}

VARIABLES
    queue,   \* the table: a function from the ids issued so far to rows
    lastId,  \* the last id the table's sequence issued
    regen,   \* engine -> its open replace_action transaction: new row, ids it read
    claim    \* the id the open claim_next_action transaction read, or NoId

queueVars == <<queue, lastId, regen, claim>>

-----------------------------------------------------------------------------
(* The table.                                                              *)

Ids == 1 .. MaxId
NoId == 0

TerminalStatuses == {"executed", "rejected", "failed", "deleted"}
Statuses == TerminalStatuses \cup {"pending", "approved", "executing"}

Row == [queue_type : QueueTypes, target_id : Targets, kind : Kinds,
        action_text : Texts, snapshot : Snapshots,
        status : Statuses, approved_at : BOOLEAN,
        delivery_status : {"", "drafted", "outdated"},
        fetch_request : {"", "pending", "completed", "needs_review"}]

\* The row an INSERT writes: pending, with the payload of a fresh proposal.
Proposal(qtype, target, kind, text, snapshot) ==
    [queue_type |-> qtype, target_id |-> target, kind |-> kind,
     action_text |-> text, snapshot |-> snapshot,
     status |-> "pending", approved_at |-> FALSE,
     delivery_status |-> "", fetch_request |-> ""]

Rows == 1 .. lastId
Live(row) == row.status \notin TerminalStatuses

\* COALESCE(dedupe_key, type, ''): the third column of the unique index.
IndexKey(kind) == IF kind.dedupe_key # "" THEN kind.dedupe_key ELSE kind.type

SameSlot(r, s) == /\ r.target_id = s.target_id
                  /\ r.queue_type = s.queue_type
                  /\ IndexKey(r.kind) = IndexKey(s.kind)

\* Mutant: the index covers undecided rows only.
IndexAdmitsPending(table, row, self) ==
    \A id \in DOMAIN table \ {self} :
        table[id].status = "pending" => ~SameSlot(table[id], row)

\* idx_action_queue_one_active_per_target admits a live `row` beside the table
\* `table`, the row of id `self` aside.
IndexAdmits(table, row, self) ==
    \A id \in DOMAIN table \ {self} : Live(table[id]) => ~SameSlot(table[id], row)

Inserted(table, row) ==
    [id \in 1 .. lastId + 1 |-> IF id = lastId + 1 THEN row ELSE table[id]]

\* The tables an UPDATE of one row leaves.
SetStatus(id, status) == [queue EXCEPT ![id].status = status]
SetApproved(id) == [queue EXCEPT ![id].status = "approved", ![id].approved_at = TRUE]

-----------------------------------------------------------------------------
(* Transactions.                                                           *)

NoTx == [open |-> FALSE]
Txs == {NoTx} \cup [open : {TRUE}, row : Row, old : SUBSET Rows]

\* BEGIN IMMEDIATE: under SQLite nobody writes while a transaction is open.
Unlocked == Backend = "sqlite" => /\ \A e \in Engines : regen[e] = NoTx
                                  /\ claim = NoId

-----------------------------------------------------------------------------
(* Proposing.  The callers' own duplicate checks read the table long       *)
(* before they insert (an LLM run lies between), and the dashboard's POST  *)
(* has none: the unique index alone decides.  A refused INSERT raises and  *)
(* rolls back, which changes nothing.                                      *)

EnqueueAction(row) ==
    /\ Unlocked
    /\ lastId < MaxId
    /\ IndexAdmits(queue, row, NoId)
    /\ queue' = Inserted(queue, row)
    /\ lastId' = lastId + 1
    /\ UNCHANGED <<regen, claim>>

\* Mutant: a claimed row is superseded like any other.
SupersededLive(row) ==
    {id \in Rows : /\ queue[id].target_id = row.target_id
                   /\ queue[id].queue_type = row.queue_type
                   /\ Live(queue[id])
                   /\ queue[id].kind.type = row.kind.type}

\* The rows replace_action supersedes: undecided or approved, of the same type.
Superseded(row) ==
    {id \in Rows : /\ queue[id].target_id = row.target_id
                   /\ queue[id].queue_type = row.queue_type
                   /\ queue[id].status \in {"pending", "approved"}
                   /\ queue[id].kind.type = row.kind.type}

ReplaceSelect(e, row) ==
    /\ Unlocked
    /\ regen[e] = NoTx
    /\ lastId < MaxId
    /\ regen' = [regen EXCEPT ![e] = [open |-> TRUE, row |-> row, old |-> Superseded(row)]]
    /\ UNCHANGED <<queue, lastId, claim>>

\* UPDATE ... WHERE id=?: the rows read above are rejected, whatever their
\* status has become.
Rejected(ids) ==
    [id \in Rows |-> IF id \in ids THEN [queue[id] EXCEPT !.status = "rejected"]
                                   ELSE queue[id]]

ReplaceCommit(e) ==
    /\ regen[e] # NoTx
    /\ lastId < MaxId
    /\ IndexAdmits(Rejected(regen[e].old), regen[e].row, NoId)
    /\ queue' = Inserted(Rejected(regen[e].old), regen[e].row)
    /\ lastId' = lastId + 1
    /\ regen' = [regen EXCEPT ![e] = NoTx]
    /\ UNCHANGED claim

\* The index refuses the insert, or the process dies: everything is undone.
ReplaceRollback(e) ==
    /\ regen[e] # NoTx
    /\ regen' = [regen EXCEPT ![e] = NoTx]
    /\ UNCHANGED <<queue, lastId, claim>>

-----------------------------------------------------------------------------
(* Deciding.                                                               *)

ApproveAction(id) ==
    /\ Unlocked
    /\ queue[id].status = "pending"
    /\ queue' = SetApproved(id)
    /\ UNCHANGED <<lastId, regen, claim>>

RejectAction(id) ==
    /\ Unlocked
    /\ queue[id].status \in {"pending", "approved"}
    /\ queue' = SetStatus(id, "rejected")
    /\ UNCHANGED <<lastId, regen, claim>>

\* The dashboard may bring back what was rejected or deleted; the unique index
\* refuses it while another live row holds the slot.
WebApprove(id) ==
    /\ "approve" \in Decisions
    /\ Unlocked
    /\ queue[id].status \in {"pending", "approved", "rejected", "deleted"}
    /\ IndexAdmits(queue, queue[id], id)
    /\ queue' = SetApproved(id)
    /\ UNCHANGED <<lastId, regen, claim>>

WebReject(id) ==
    /\ "reject" \in Decisions
    /\ Unlocked
    /\ queue[id].status \in {"pending", "approved"}
    /\ queue' = SetStatus(id, "rejected")
    /\ UNCHANGED <<lastId, regen, claim>>

WebReprocess(id) ==
    /\ "reprocess" \in Decisions
    /\ Unlocked
    /\ \/ queue[id].status \in {"executed", "failed"}
       \/ queue[id].status = "executing" /\ queue[id].delivery_status = "drafted"
    /\ IndexAdmits(queue, queue[id], id)
    /\ queue' = SetApproved(id)
    /\ UNCHANGED <<lastId, regen, claim>>

\* Mutant: a claimed row may be deleted.
WebDeleteLive(id) ==
    /\ "delete" \in Decisions
    /\ Unlocked
    /\ Live(queue[id])
    /\ queue' = SetStatus(id, "deleted")
    /\ UNCHANGED <<lastId, regen, claim>>

WebDelete(id) ==
    /\ "delete" \in Decisions
    /\ Unlocked
    /\ queue[id].status \in {"pending", "approved"}
    /\ queue' = SetStatus(id, "deleted")
    /\ UNCHANGED <<lastId, regen, claim>>

-----------------------------------------------------------------------------
(* Claiming.  The Page-scoped claim takes the oldest candidate of its      *)
(* queue, and nothing when that one is already executing.                  *)

\* Another DM for the same recipient is executing.
Busy(id) == \E other \in Rows \ {id} :
                /\ queue[other].status = "executing"
                /\ queue[other].target_id = queue[id].target_id
                /\ queue[other].queue_type \in OutboundQueueTypes

\* Mutants: other recipients' drafts block too; nothing blocks.
CandidateDrafted(id, qtype) == /\ queue[id].queue_type = qtype
                               /\ queue[id].status \in {"approved", "executing"}
                               /\ ~Busy(id)

CandidateBusy(id, qtype) == /\ queue[id].queue_type = qtype
                            /\ queue[id].status \in {"approved", "executing"}
                            /\ queue[id].delivery_status # "drafted"

Candidate(id, qtype) == /\ queue[id].queue_type = qtype
                        /\ queue[id].status \in {"approved", "executing"}
                        /\ queue[id].delivery_status # "drafted"
                        /\ ~Busy(id)

ClaimHead(id, qtype) == /\ Candidate(id, qtype)
                        /\ \A older \in 1 .. id - 1 : ~Candidate(older, qtype)

ClaimSelect(id, qtype) ==
    /\ Unlocked
    /\ claim = NoId
    /\ ClaimHead(id, qtype)
    /\ queue[id].status = "approved"
    /\ claim' = id
    /\ UNCHANGED <<queue, lastId, regen>>

\* UPDATE ... WHERE id=? AND status='approved', then COMMIT.
ClaimUpdate ==
    /\ claim # NoId
    /\ queue' = IF queue[claim].status = "approved"
                THEN SetStatus(claim, "executing")
                ELSE queue
    /\ claim' = NoId
    /\ UNCHANGED <<lastId, regen>>

-----------------------------------------------------------------------------
(* Finishing.  Each UPDATE is guarded by status='executing' and does       *)
(* nothing otherwise.                                                      *)

\* Mutant: whatever the row has become, it is finished.
FinishAnything(id, outcome) ==
    /\ Unlocked
    /\ queue' = SetStatus(id, outcome)
    /\ UNCHANGED <<lastId, regen, claim>>

FinishAction(id, outcome) ==
    /\ Unlocked
    /\ queue' = IF queue[id].status = "executing"
                THEN SetStatus(id, outcome)
                ELSE queue
    /\ UNCHANGED <<lastId, regen, claim>>

\* Mutant: the outcome is stored as the status.
SetDeliveryStatus(id, outcome) ==
    /\ Unlocked
    /\ queue' = IF queue[id].status = "executing" THEN SetStatus(id, outcome) ELSE queue
    /\ UNCHANGED <<lastId, regen, claim>>

SetDelivery(id, outcome) ==
    /\ Unlocked
    /\ queue' = IF queue[id].status # "executing" THEN queue
                ELSE IF outcome = "drafted"
                THEN [queue EXCEPT ![id].delivery_status = "drafted"]
                ELSE [queue EXCEPT ![id].delivery_status = "outdated",
                                   ![id].fetch_request = "pending",
                                   ![id].status = "rejected"]
    /\ UNCHANGED <<lastId, regen, claim>>

\* The targeted refetch writes its payload back by id, whatever the status.
RefreshWrite(id, outcome) ==
    /\ Unlocked
    /\ queue' = [queue EXCEPT ![id].fetch_request = outcome]
    /\ UNCHANGED <<lastId, regen, claim>>

-----------------------------------------------------------------------------
(* The table under any worker: claimed work may end in any way.            *)

QueueInit ==
    /\ queue = [id \in 1 .. 0 |-> NoId]
    /\ lastId = 0
    /\ regen = [e \in Engines |-> NoTx]
    /\ claim = NoId

Propose == \E qtype \in QueueTypes, target \in Targets, kind \in Kinds,
              text \in Texts, snapshot \in Snapshots :
               LET row == Proposal(qtype, target, kind, text, snapshot)
               IN  EnqueueAction(row) \/ \E e \in Engines : ReplaceSelect(e, row)

Replace == \E e \in Engines : ReplaceCommit(e) \/ ReplaceRollback(e)

Decide == \E id \in Rows : \/ ApproveAction(id) \/ RejectAction(id)
                           \/ WebApprove(id)    \/ WebReject(id)
                           \/ WebReprocess(id)  \/ WebDelete(id)

Work == \E id \in Rows :
            \/ \E qtype \in OutboundQueueTypes : ClaimSelect(id, qtype)
            \/ \E outcome \in {"executed", "failed"} : FinishAction(id, outcome)
            \/ \E outcome \in {"drafted", "outdated"} : SetDelivery(id, outcome)
            \/ \E outcome \in {"completed", "needs_review"} : RefreshWrite(id, outcome)

\* The claiming process dies inside its transaction.
ClaimRollback ==
    /\ claim # NoId
    /\ claim' = NoId
    /\ UNCHANGED <<queue, lastId, regen>>

QueueNext == \/ Propose \/ Replace
             \/ Decide
             \/ Work \/ ClaimUpdate \/ ClaimRollback

QueueSpec == QueueInit /\ [][QueueNext]_queueVars

-----------------------------------------------------------------------------
(* Properties of the table.                                                *)

\* Every variable has its type; an open transaction refers to issued ids.
QueueTypeOK ==
    /\ lastId \in 0 .. MaxId
    /\ queue \in [Rows -> Row]
    /\ regen \in [Engines -> Txs]
    /\ claim \in {NoId} \cup Rows

\* README.md:69: another active DM for the same recipient blocks delivery.
\* Whatever is claimed, reopened, replaced or crashes, no two DMs to one
\* recipient are ever executing together (claim_next_action's NOT EXISTS).
OneDmPerRecipient ==
    \A a, b \in Rows :
        /\ queue[a].status = "executing" /\ queue[a].queue_type \in OutboundQueueTypes
        /\ queue[b].status = "executing" /\ queue[b].queue_type \in OutboundQueueTypes
        /\ queue[a].target_id = queue[b].target_id
        => a = b

\* l5_action_queue.py:58-61: a target never has two live proposals of one kind,
\* however proposals, regenerations and reopened rows interleave.
OneLivePerSlot ==
    \A a, b \in Rows :
        Live(queue[a]) /\ Live(queue[b]) /\ SameSlot(queue[a], queue[b]) => a = b

\* What reached a terminal status leaves it for "approved" only, so a finished,
\* rejected or deleted message comes back through a human decision and never
\* through a late worker write (the status guards of l5_action_queue.py:247-254
\* and l5_delivery_guard.py:171-175).
TerminalOnlyReopened ==
    [][\A id \in Rows : ~Live(queue[id]) =>
            queue'[id].status \in {queue[id].status, "approved"}]_queueVars
=============================================================================
