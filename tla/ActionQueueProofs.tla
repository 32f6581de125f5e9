--------------------------- MODULE ActionQueueProofs ---------------------------
(***************************************************************************)
(* What ActionQueue guarantees for every table size, every set of          *)
(* recipients and both database backends.                                  *)
(*                                                                         *)
(* One inductive invariant carries the safety theorems:                    *)
(*   QueueTypeOK      types, and open transactions name issued ids;        *)
(*   PendingRegen     a regeneration inserts an undecided row;             *)
(*   ClaimClear       the row an open claim read is a DM whose recipient   *)
(*                    no other DM is executing for, so that the claim's    *)
(*                    UPDATE may run late and still be safe;               *)
(*   OneDmPerRecipient, OneLivePerSlot                                     *)
(* and SerialWriters, which SQLite's write lock adds.                      *)
(***************************************************************************)
EXTENDS ActionQueue, TLAPS

PendingRegen == \A e \in Engines : regen[e] # NoTx => regen[e].row.status = "pending"

ClaimClear == claim # NoId => /\ queue[claim].queue_type \in OutboundQueueTypes
                              /\ ~Busy(claim)

SerialWriters == Backend = "sqlite" =>
    /\ claim # NoId => \A e \in Engines : regen[e] = NoTx
    /\ \A e, other \in Engines : regen[e] # NoTx /\ regen[other] # NoTx => e = other
    /\ \A e \in Engines : regen[e] # NoTx => \A id \in regen[e].old : Live(queue[id])

QueueInv == QueueTypeOK /\ PendingRegen /\ ClaimClear /\ OneDmPerRecipient /\ OneLivePerSlot

\* An UPDATE: the same rows, none of which changes what it is about.
Updates(table) ==
    /\ table \in [Rows -> Row]
    /\ \A id \in Rows : /\ table[id].target_id = queue[id].target_id
                        /\ table[id].queue_type = queue[id].queue_type
                        /\ table[id].kind = queue[id].kind

\* An UPDATE that brings no row back and starts no delivery.
NoneLivelier(table) ==
    /\ Updates(table)
    /\ \A id \in Rows : Live(table[id]) => Live(queue[id])
    /\ \A id \in Rows : table[id].status = "executing" => queue[id].status = "executing"

-----------------------------------------------------------------------------
(* Lemmas on the table operators.                                          *)

\* A status change leaves the rest of the table alone (every UPDATE of the code
\* names its row by id).
LEMMA SetStatusUpdates ==
    ASSUME QueueTypeOK, NEW id \in Rows, NEW status \in Statuses
    PROVE  /\ Updates(SetStatus(id, status))
           /\ SetStatus(id, status)[id].status = status
           /\ \A other \in Rows \ {id} : SetStatus(id, status)[other] = queue[other]
  BY ZenonT(40) DEF QueueTypeOK, Updates, SetStatus, Row

\* Approval is a status change that also records when.
LEMMA SetApprovedUpdates ==
    ASSUME QueueTypeOK, NEW id \in Rows
    PROVE  /\ Updates(SetApproved(id))
           /\ SetApproved(id)[id].status = "approved"
           /\ \A other \in Rows \ {id} : SetApproved(id)[other] = queue[other]
  <1>1. "approved" \in Statuses
    BY DEF Statuses, TerminalStatuses
  <1> QED
    BY <1>1, ZenonT(40) DEF QueueTypeOK, Updates, SetApproved, Row

\* Rejecting a set of rows by id brings none back and starts no delivery.
LEMMA RejectedUpdates ==
    ASSUME QueueTypeOK, NEW ids
    PROVE  NoneLivelier(Rejected(ids))
  <1>1. "rejected" \in Statuses
    BY DEF Statuses, TerminalStatuses
  <1>2. \A id \in Rows : /\ queue[id] \in Row
                         /\ [queue[id] EXCEPT !.status = "rejected"] \in Row
    BY <1>1, ZenonT(40) DEF QueueTypeOK, Row
  <1>3. Rejected(ids) \in [Rows -> Row]
    BY <1>2 DEF Rejected
  <1>4. \A id \in Rows : Rejected(ids)[id] =
            IF id \in ids THEN [queue[id] EXCEPT !.status = "rejected"] ELSE queue[id]
    BY DEF Rejected
  <1>5. \A id \in Rows : /\ Rejected(ids)[id].target_id = queue[id].target_id
                         /\ Rejected(ids)[id].queue_type = queue[id].queue_type
                         /\ Rejected(ids)[id].kind = queue[id].kind
                         /\ Rejected(ids)[id].status \in {queue[id].status, "rejected"}
    BY <1>2, <1>4 DEF Row
  <1> QED
    BY <1>3, <1>5 DEF NoneLivelier, Updates, Live, TerminalStatuses

\* INSERT adds one row under the next id.
LEMMA InsertedRow ==
    ASSUME lastId \in Nat, NEW table, NEW row,
           table \in [Rows -> Row], row \in Row
    PROVE  /\ Inserted(table, row) \in [1 .. lastId + 1 -> Row]
           /\ Inserted(table, row)[lastId + 1] = row
           /\ \A id \in Rows : Inserted(table, row)[id] = table[id]
  BY DEF Inserted, Rows

\* What a fresh proposal is.
LEMMA ProposalRow ==
    ASSUME NEW qtype \in QueueTypes, NEW target \in Targets, NEW kind \in Kinds,
           NEW text \in Texts, NEW snapshot \in Snapshots
    PROVE  /\ Proposal(qtype, target, kind, text, snapshot) \in Row
           /\ Proposal(qtype, target, kind, text, snapshot).status = "pending"
  BY DEF Proposal, Row, Statuses, TerminalStatuses

-----------------------------------------------------------------------------
(* Preservation lemmas, one per kind of step.                              *)

\* An UPDATE that revives nothing and starts no delivery breaks nothing.
LEMMA QuietUpdate ==
    ASSUME QueueInv, NoneLivelier(queue'), lastId' = lastId,
           claim' \in {claim, NoId}
    PROVE  ClaimClear' /\ OneDmPerRecipient' /\ OneLivePerSlot'
  <1>1. Rows' = Rows
    BY DEF Rows
  <1>2. \A id \in Rows : /\ queue'[id].target_id = queue[id].target_id
                         /\ queue'[id].queue_type = queue[id].queue_type
                         /\ queue'[id].kind = queue[id].kind
                         /\ Live(queue'[id]) => Live(queue[id])
                         /\ queue'[id].status = "executing" => queue[id].status = "executing"
    BY DEF NoneLivelier, Updates
  <1>3. OneDmPerRecipient'
    BY <1>1, <1>2 DEF QueueInv, OneDmPerRecipient
  <1>4. OneLivePerSlot'
    BY <1>1, <1>2 DEF QueueInv, OneLivePerSlot, SameSlot
  <1>5. ClaimClear'
    <2> SUFFICES ASSUME claim' # NoId
                 PROVE  queue'[claim'].queue_type \in OutboundQueueTypes /\ ~Busy(claim)'
      BY DEF ClaimClear
    <2>1. claim' = claim /\ claim \in Rows
      BY DEF QueueInv, QueueTypeOK
    <2> QED
      BY <1>1, <1>2, <2>1 DEF QueueInv, ClaimClear, Busy
  <1> QED
    BY <1>3, <1>4, <1>5

\* So does an INSERT of an undecided row the unique index admits, into a table
\* from which an UPDATE of that kind came.
LEMMA QuietInsert ==
    ASSUME QueueInv, NEW table, NEW row \in Row, NoneLivelier(table),
           row.status = "pending", IndexAdmits(table, row, NoId),
           queue' = Inserted(table, row), lastId' = lastId + 1, claim' = claim
    PROVE  ClaimClear' /\ OneDmPerRecipient' /\ OneLivePerSlot'
  <1> DEFINE new == lastId + 1
  <1>1. lastId \in Nat /\ MaxId \in Nat
    BY MaxIdAssumption DEF QueueInv, QueueTypeOK
  <1>2. Rows' = Rows \cup {new} /\ new \notin Rows
    BY <1>1 DEF Rows
  <1>3. table \in [Rows -> Row]
    BY DEF NoneLivelier, Updates
  <1>4. queue'[new] = row /\ \A id \in Rows : queue'[id] = table[id]
    BY <1>1, <1>3, InsertedRow
  <1>5. \A id \in Rows : /\ queue'[id].target_id = queue[id].target_id
                         /\ queue'[id].queue_type = queue[id].queue_type
                         /\ queue'[id].kind = queue[id].kind
                         /\ Live(queue'[id]) => Live(queue[id])
                         /\ queue'[id].status = "executing" => queue[id].status = "executing"
    BY <1>4 DEF NoneLivelier, Updates
  <1>6. queue'[new].status # "executing"
    BY <1>4
  <1>7. OneDmPerRecipient'
    BY <1>2, <1>5, <1>6 DEF QueueInv, OneDmPerRecipient
  <1>8. \A id \in Rows : Live(queue'[id]) => ~SameSlot(queue'[id], queue'[new])
    <2>1. DOMAIN table \ {NoId} = Rows
      BY <1>1, <1>3 DEF Rows, NoId
    <2> QED
      BY <1>4, <2>1 DEF IndexAdmits
  <1>9. OneLivePerSlot'
    <2> SUFFICES ASSUME NEW a \in Rows', NEW b \in Rows',
                        Live(queue'[a]), Live(queue'[b]), SameSlot(queue'[a], queue'[b])
                 PROVE  a = b
      BY DEF OneLivePerSlot
    <2>1. CASE a \in Rows /\ b \in Rows
      BY <1>5, <2>1 DEF QueueInv, OneLivePerSlot, SameSlot
    <2>2. CASE a = new /\ b \in Rows
      BY <1>8, <2>2 DEF SameSlot
    <2>3. CASE a \in Rows /\ b = new
      BY <1>8, <2>3
    <2>4. CASE a = new /\ b = new
      BY <2>4
    <2> QED
      BY <1>2, <2>1, <2>2, <2>3, <2>4
  <1>10. ClaimClear'
    <2> SUFFICES ASSUME claim # NoId
                 PROVE  queue'[claim].queue_type \in OutboundQueueTypes /\ ~Busy(claim)'
      BY DEF ClaimClear
    <2>1. claim \in Rows
      BY DEF QueueInv, QueueTypeOK
    <2> QED
      BY <1>2, <1>5, <1>6, <2>1 DEF QueueInv, ClaimClear, Busy
  <1> QED
    BY <1>7, <1>9, <1>10

\* Bringing a row back to "approved" is what the unique index must allow.
LEMMA Reopening ==
    ASSUME QueueInv, NEW id \in Rows, IndexAdmits(queue, queue[id], id),
           queue' = SetApproved(id), lastId' = lastId, claim' = claim
    PROVE  ClaimClear' /\ OneDmPerRecipient' /\ OneLivePerSlot'
  <1>1. QueueTypeOK /\ Rows' = Rows
    BY DEF QueueInv, Rows
  <1>2. /\ \A r \in Rows : /\ queue'[r].target_id = queue[r].target_id
                           /\ queue'[r].queue_type = queue[r].queue_type
                           /\ queue'[r].kind = queue[r].kind
        /\ queue'[id].status = "approved"
        /\ \A r \in Rows \ {id} : queue'[r] = queue[r]
    BY <1>1, SetApprovedUpdates DEF Updates
  <1>3. OneDmPerRecipient'
    BY <1>1, <1>2 DEF QueueInv, OneDmPerRecipient
  <1>4. \A r \in Rows \ {id} : Live(queue[r]) => ~SameSlot(queue[r], queue[id])
    BY <1>1 DEF IndexAdmits, QueueTypeOK
  <1>5. OneLivePerSlot'
    <2> SUFFICES ASSUME NEW a \in Rows, NEW b \in Rows,
                        Live(queue'[a]), Live(queue'[b]), SameSlot(queue'[a], queue'[b])
                 PROVE  a = b
      BY <1>1 DEF OneLivePerSlot
    <2>1. SameSlot(queue[a], queue[b]) /\ SameSlot(queue[b], queue[a])
      BY <1>2 DEF SameSlot
    <2>2. CASE a # id /\ b # id
      BY <1>2, <2>1, <2>2 DEF QueueInv, OneLivePerSlot
    <2>3. CASE a = id \/ b = id
      BY <1>2, <1>4, <2>1, <2>3
    <2> QED
      BY <2>2, <2>3
  <1>6. ClaimClear'
    <2> SUFFICES ASSUME claim # NoId
                 PROVE  queue'[claim].queue_type \in OutboundQueueTypes /\ ~Busy(claim)'
      BY DEF ClaimClear
    <2>1. claim \in Rows
      BY <1>1 DEF QueueTypeOK
    <2> QED
      BY <1>1, <1>2, <2>1 DEF QueueInv, ClaimClear, Busy
  <1> QED
    BY <1>3, <1>5, <1>6

-----------------------------------------------------------------------------
(* The inductive invariant.                                                *)

\* The empty table satisfies everything.
LEMMA InitInv == QueueInit => QueueInv /\ SerialWriters
  <1> SUFFICES ASSUME QueueInit PROVE QueueInv /\ SerialWriters
    OBVIOUS
  <1>1. Rows = {} /\ 1 .. 0 = {}
    BY DEF QueueInit, Rows
  <1>2. queue \in [Rows -> Row]
    BY <1>1 DEF QueueInit
  <1>3. QueueTypeOK
    BY <1>2, MaxIdAssumption DEF QueueInit, QueueTypeOK, Txs
  <1> QED
    BY <1>1, <1>3 DEF QueueInit, QueueInv, PendingRegen, ClaimClear, OneDmPerRecipient,
                      OneLivePerSlot, SerialWriters

\* Every status the code writes is one of the seven.
LEMMA StatusesWritten ==
    {"pending", "approved", "executing", "executed", "rejected", "failed", "deleted"} = Statuses
  BY DEF Statuses, TerminalStatuses

\* Inserting a typed row keeps the types.
LEMMA InsertTypes ==
    ASSUME QueueTypeOK, NEW table \in [Rows -> Row], NEW row \in Row, lastId < MaxId,
           queue' = Inserted(table, row), lastId' = lastId + 1,
           regen' = regen \/ \E e \in Engines : regen' = [regen EXCEPT ![e] = NoTx],
           claim' = claim
    PROVE  QueueTypeOK'
  <1>1. lastId \in Nat /\ lastId' \in 0 .. MaxId /\ Rows' = 1 .. lastId + 1 /\ Rows \subseteq Rows'
    BY MaxIdAssumption DEF QueueTypeOK, Rows
  <1>2. queue' \in [Rows' -> Row]
    BY <1>1, InsertedRow
  <1>3. /\ regen' \in [Engines -> Txs'] /\ claim' \in {NoId} \cup Rows'
    <2>1. Txs \subseteq Txs' /\ NoTx \in Txs'
      BY <1>1 DEF Txs
    <2> QED
      BY <1>1, <2>1 DEF QueueTypeOK
  <1> QED
    BY <1>1, <1>2, <1>3 DEF QueueTypeOK

\* Updating rows keeps the types.
LEMMA UpdateTypes ==
    ASSUME QueueTypeOK, Updates(queue'), lastId' = lastId, regen' = regen,
           claim' \in {claim, NoId}
    PROVE  QueueTypeOK'
  BY DEF QueueTypeOK, Updates, Rows, Txs

\* An open regeneration has a row to insert and rows to reject.
LEMMA OpenTx ==
    ASSUME QueueTypeOK, NEW e \in Engines, regen[e] # NoTx
    PROVE  regen[e].row \in Row /\ regen[e].old \in SUBSET Rows
  <1>1. regen[e] \in Txs
    BY DEF QueueTypeOK
  <1> QED
    BY <1>1 DEF Txs

\* A single-row UPDATE to a status that is terminal, or live where it was live.
LEMMA QuietStatus ==
    ASSUME QueueTypeOK, NEW id \in Rows, NEW status \in Statuses \ {"executing"},
           Live(queue[id]) \/ status \in TerminalStatuses
    PROVE  NoneLivelier(SetStatus(id, status))
  BY SetStatusUpdates DEF NoneLivelier, Live

\* Approving an undecided row revives nothing.
LEMMA QuietApproval ==
    ASSUME QueueTypeOK, NEW id \in Rows, queue[id].status = "pending"
    PROVE  NoneLivelier(SetApproved(id))
  BY SetApprovedUpdates DEF NoneLivelier, Live, TerminalStatuses

\* Proposing, by INSERT alone or by opening a regeneration.
LEMMA ProposeInv ==
    ASSUME QueueInv, Propose
    PROVE  QueueInv'
  <1>1. PICK qtype \in QueueTypes, target \in Targets, kind \in Kinds,
             text \in Texts, snapshot \in Snapshots :
             LET row == Proposal(qtype, target, kind, text, snapshot)
             IN  EnqueueAction(row) \/ \E e \in Engines : ReplaceSelect(e, row)
    BY DEF Propose
  <1> DEFINE row == Proposal(qtype, target, kind, text, snapshot)
  <1>2. row \in Row /\ row.status = "pending"
    BY ProposalRow
  <1> HIDE DEF row
  <1>3. QueueTypeOK
    BY DEF QueueInv
  <1>4. CASE EnqueueAction(row)
    <2>1. NoneLivelier(queue)
      BY <1>3 DEF NoneLivelier, Updates, QueueTypeOK
    <2>2. ClaimClear' /\ OneDmPerRecipient' /\ OneLivePerSlot'
      BY <1>2, <1>4, <2>1, QuietInsert DEF EnqueueAction
    <2>3. QueueTypeOK'
      BY <1>2, <1>3, <1>4, InsertTypes DEF EnqueueAction, QueueTypeOK
    <2>4. PendingRegen'
      BY <1>4 DEF EnqueueAction, QueueInv, PendingRegen
    <2> QED
      BY <2>2, <2>3, <2>4 DEF QueueInv
  <1>5. ASSUME NEW e \in Engines, ReplaceSelect(e, row)
        PROVE  QueueInv'
    <2> DEFINE tx == [open |-> TRUE, row |-> row, old |-> Superseded(row)]
    <2>1. UNCHANGED <<queue, lastId, claim>> /\ Rows' = Rows /\ Txs' = Txs
      BY <1>5 DEF ReplaceSelect, Rows, Txs
    <2>2. regen' = [regen EXCEPT ![e] = tx]
      BY <1>5 DEF ReplaceSelect
    <2>3. tx \in Txs /\ tx.row.status = "pending"
      BY <1>2 DEF Superseded, Txs
    <2> HIDE DEF tx
    <2>4. QueueTypeOK'
      BY <1>3, <2>1, <2>2, <2>3 DEF QueueTypeOK
    <2>5. PendingRegen'
      BY <1>3, <2>2, <2>3 DEF PendingRegen, QueueInv, QueueTypeOK
    <2>6. ClaimClear' /\ OneDmPerRecipient' /\ OneLivePerSlot'
      BY <2>1 DEF QueueInv, ClaimClear, Busy, OneDmPerRecipient, OneLivePerSlot
    <2> QED
      BY <2>4, <2>5, <2>6 DEF QueueInv
  <1> QED
    BY <1>1, <1>4, <1>5 DEF row

\* The end of a regeneration.
LEMMA RegenInv ==
    ASSUME QueueInv, Replace
    PROVE  QueueInv'
  <1>1. QueueTypeOK
    BY DEF QueueInv
  <1>2. ASSUME NEW e \in Engines, ReplaceCommit(e)
        PROVE  QueueInv'
    <2>1. regen[e].row \in Row /\ regen[e].row.status = "pending"
      BY <1>1, <1>2, OpenTx DEF QueueInv, PendingRegen, ReplaceCommit
    <2>2. NoneLivelier(Rejected(regen[e].old)) /\ Rejected(regen[e].old) \in [Rows -> Row]
      BY <1>1, RejectedUpdates DEF NoneLivelier, Updates
    <2>3. ClaimClear' /\ OneDmPerRecipient' /\ OneLivePerSlot'
      BY <1>2, <2>1, <2>2, QuietInsert DEF ReplaceCommit
    <2>4. QueueTypeOK'
      BY <1>1, <1>2, <2>1, <2>2, InsertTypes DEF ReplaceCommit
    <2>5. PendingRegen'
      BY <1>1, <1>2 DEF ReplaceCommit, PendingRegen, QueueInv, QueueTypeOK
    <2> QED
      BY <2>3, <2>4, <2>5 DEF QueueInv
  <1>3. ASSUME NEW e \in Engines, ReplaceRollback(e)
        PROVE  QueueInv'
    <2>1. /\ UNCHANGED <<queue, lastId, claim>> /\ Rows' = Rows /\ Txs' = Txs
          /\ regen' = [regen EXCEPT ![e] = NoTx] /\ NoTx \in Txs
      BY <1>3 DEF ReplaceRollback, Rows, Txs
    <2>2. QueueTypeOK'
      BY <1>1, <2>1 DEF QueueTypeOK
    <2>3. PendingRegen'
      BY <1>1, <2>1 DEF PendingRegen, QueueInv, QueueTypeOK
    <2>4. ClaimClear' /\ OneDmPerRecipient' /\ OneLivePerSlot'
      BY <2>1 DEF QueueInv, ClaimClear, Busy, OneDmPerRecipient, OneLivePerSlot
    <2> QED
      BY <2>2, <2>3, <2>4 DEF QueueInv
  <1> QED
    BY <1>2, <1>3 DEF Replace

\* Decisions: quiet ones, and the two that reopen a row.
LEMMA DecideInv ==
    ASSUME QueueInv, Decide
    PROVE  QueueInv'
  <1>1. PICK id \in Rows : \/ ApproveAction(id) \/ RejectAction(id)
                          \/ WebApprove(id)    \/ WebReject(id)
                          \/ WebReprocess(id)  \/ WebDelete(id)
    BY DEF Decide
  <1>2. QueueTypeOK
    BY DEF QueueInv
  <1>3. UNCHANGED <<lastId, regen, claim>>
    BY <1>1 DEF ApproveAction, RejectAction, WebApprove, WebReject, WebReprocess, WebDelete
  <1>4. CASE NoneLivelier(queue')
    <2>1. ClaimClear' /\ OneDmPerRecipient' /\ OneLivePerSlot'
      BY <1>3, <1>4, QuietUpdate
    <2>2. QueueTypeOK'
      BY <1>2, <1>3, <1>4, UpdateTypes DEF NoneLivelier
    <2> QED
      BY <1>3, <2>1, <2>2 DEF QueueInv, PendingRegen
  <1>5. CASE queue' = SetApproved(id) /\ IndexAdmits(queue, queue[id], id)
    <2>1. ClaimClear' /\ OneDmPerRecipient' /\ OneLivePerSlot'
      BY <1>3, <1>5, Reopening
    <2>2. QueueTypeOK'
      BY <1>2, <1>3, <1>5, SetApprovedUpdates, UpdateTypes
    <2> QED
      BY <1>3, <2>1, <2>2 DEF QueueInv, PendingRegen
  <1>6. ApproveAction(id) => NoneLivelier(queue')
    BY <1>2, QuietApproval DEF ApproveAction
  <1>7. RejectAction(id) \/ WebReject(id) \/ WebDelete(id) => NoneLivelier(queue')
    <2>1. \A status \in {"rejected", "deleted"} : NoneLivelier(SetStatus(id, status))
      BY <1>2, QuietStatus, StatusesWritten DEF TerminalStatuses
    <2> QED
      BY <2>1 DEF RejectAction, WebReject, WebDelete
  <1>8. WebApprove(id) \/ WebReprocess(id) =>
            queue' = SetApproved(id) /\ IndexAdmits(queue, queue[id], id)
    BY DEF WebApprove, WebReprocess
  <1> QED
    BY <1>1, <1>4, <1>5, <1>6, <1>7, <1>8

\* What a worker does, the claim's UPDATE aside.
LEMMA WorkInv ==
    ASSUME QueueInv, Work
    PROVE  QueueInv'
  <1>1. PICK id \in Rows :
            \/ \E qtype \in OutboundQueueTypes : ClaimSelect(id, qtype)
            \/ \E outcome \in {"executed", "failed"} : FinishAction(id, outcome)
            \/ \E outcome \in {"drafted", "outdated"} : SetDelivery(id, outcome)
            \/ \E outcome \in {"completed", "needs_review"} : RefreshWrite(id, outcome)
    BY DEF Work
  <1>2. QueueTypeOK
    BY DEF QueueInv
  <1>3. CASE NoneLivelier(queue') /\ UNCHANGED <<lastId, regen, claim>>
    <2>1. ClaimClear' /\ OneDmPerRecipient' /\ OneLivePerSlot'
      BY <1>3, QuietUpdate
    <2>2. QueueTypeOK'
      BY <1>2, <1>3, UpdateTypes DEF NoneLivelier
    <2> QED
      BY <1>3, <2>1, <2>2 DEF QueueInv, PendingRegen
  <1>4. NoneLivelier(queue)
    BY <1>2 DEF NoneLivelier, Updates, QueueTypeOK
  <1>5. ASSUME NEW qtype \in OutboundQueueTypes, ClaimSelect(id, qtype)
        PROVE  QueueInv'
    <2>1. UNCHANGED <<queue, lastId, regen>> /\ claim' = id /\ Rows' = Rows
      BY <1>5 DEF ClaimSelect, Rows
    <2>2. queue[id].queue_type \in OutboundQueueTypes /\ ~Busy(id)
      BY <1>5 DEF ClaimSelect, ClaimHead, Candidate
    <2>3. ClaimClear'
      BY <2>1, <2>2 DEF ClaimClear, Busy
    <2>4. QueueTypeOK'
      BY <1>2, <2>1 DEF QueueTypeOK, Txs
    <2> QED
      BY <2>1, <2>3, <2>4 DEF QueueInv, PendingRegen, OneDmPerRecipient, OneLivePerSlot
  <1>6. ASSUME NEW outcome \in {"executed", "failed"}, FinishAction(id, outcome)
        PROVE  NoneLivelier(queue') /\ UNCHANGED <<lastId, regen, claim>>
    <2>1. NoneLivelier(SetStatus(id, outcome))
      BY <1>2, QuietStatus, StatusesWritten DEF TerminalStatuses
    <2> QED
      BY <1>4, <1>6, <2>1 DEF FinishAction
  <1>7. ASSUME NEW outcome \in {"drafted", "outdated"}, SetDelivery(id, outcome)
        PROVE  NoneLivelier(queue') /\ UNCHANGED <<lastId, regen, claim>>
    <2> DEFINE drafted == [queue EXCEPT ![id].delivery_status = "drafted"]
               outdated == [queue EXCEPT ![id].delivery_status = "outdated",
                                         ![id].fetch_request = "pending",
                                         ![id].status = "rejected"]
    <2>1. NoneLivelier(drafted)
      BY <1>2, ZenonT(40) DEF QueueTypeOK, Row, NoneLivelier, Updates, Live
    <2>2. NoneLivelier(outdated)
      <3>1. queue \in [Rows -> Row] /\ "rejected" \in Statuses
        BY <1>2, StatusesWritten DEF QueueTypeOK
      <3> DEFINE row == [queue[id] EXCEPT !.delivery_status = "outdated",
                                          !.fetch_request = "pending",
                                          !.status = "rejected"]
      <3>2. row \in Row
        BY <3>1 DEF Row
      <3>3. outdated = [queue EXCEPT ![id] = row]
        BY <3>1 DEF Row
      <3>4. outdated \in [Rows -> Row]
        <4> HIDE DEF row, outdated
        <4> QED
          BY <3>1, <3>2, <3>3
      <3>5. /\ outdated[id].target_id = queue[id].target_id
            /\ outdated[id].queue_type = queue[id].queue_type
            /\ outdated[id].kind = queue[id].kind
            /\ outdated[id].status = "rejected"
        BY <3>1 DEF Row
      <3>6. \A other \in Rows \ {id} : outdated[other] = queue[other]
        BY <3>1
      <3> HIDE DEF outdated
      <3> QED
        BY <3>4, <3>5, <3>6 DEF NoneLivelier, Updates, Live, TerminalStatuses
    <2> QED
      BY <1>4, <1>7, <2>1, <2>2 DEF SetDelivery
  <1>8. ASSUME NEW outcome \in {"completed", "needs_review"}, RefreshWrite(id, outcome)
        PROVE  NoneLivelier(queue') /\ UNCHANGED <<lastId, regen, claim>>
    BY <1>2, <1>8, ZenonT(40) DEF RefreshWrite, QueueTypeOK, Row, NoneLivelier, Updates, Live
  <1> QED
    BY <1>1, <1>3, <1>5, <1>6, <1>7, <1>8

\* The late UPDATE of a claim: ClaimClear says the recipient is still free.
LEMMA ClaimInv ==
    ASSUME QueueInv, ClaimUpdate \/ ClaimRollback
    PROVE  QueueInv'
  <1>1. QueueTypeOK
    BY DEF QueueInv
  <1>2. CASE ClaimUpdate /\ queue[claim].status = "approved"
    <2>1. claim \in Rows /\ "executing" \in Statuses
      BY <1>1, <1>2, StatusesWritten DEF ClaimUpdate, QueueTypeOK
    <2>2. /\ queue' = SetStatus(claim, "executing")
          /\ claim' = NoId /\ lastId' = lastId /\ regen' = regen /\ Rows' = Rows
      BY <1>2 DEF ClaimUpdate, Rows
    <2>3. /\ Updates(queue')
          /\ queue'[claim].status = "executing"
          /\ \A other \in Rows \ {claim} : queue'[other] = queue[other]
      BY <1>1, <2>1, <2>2, SetStatusUpdates
    <2>4. QueueTypeOK'
      BY <1>1, <2>2, <2>3, UpdateTypes
    <2>5. OneDmPerRecipient'
      BY <2>1, <2>2, <2>3 DEF QueueInv, ClaimClear, Busy, NoId, OneDmPerRecipient, Updates,
                              ClaimUpdate, Rows
    <2>6. \A id \in Rows : /\ Live(queue'[id]) => Live(queue[id])
                           /\ queue'[id].target_id = queue[id].target_id
                           /\ queue'[id].queue_type = queue[id].queue_type
                           /\ queue'[id].kind = queue[id].kind
      BY <1>2, <2>3 DEF Updates, Live, TerminalStatuses
    <2>7. OneLivePerSlot'
      BY <2>2, <2>6 DEF QueueInv, OneLivePerSlot, SameSlot
    <2> QED
      BY <2>2, <2>4, <2>5, <2>7 DEF QueueInv, PendingRegen, ClaimClear
  <1>3. CASE UNCHANGED <<queue, lastId, regen>> /\ claim' = NoId
    BY <1>1, <1>3 DEF QueueInv, QueueTypeOK, PendingRegen, ClaimClear, OneDmPerRecipient,
                      OneLivePerSlot, Rows, Txs
  <1> QED
    BY <1>2, <1>3 DEF ClaimUpdate, ClaimRollback

\* The invariant is inductive.
LEMMA NextInv == QueueInv /\ [QueueNext]_queueVars => QueueInv'
  <1> SUFFICES ASSUME QueueInv, [QueueNext]_queueVars PROVE QueueInv'
    OBVIOUS
  <1>1. CASE UNCHANGED queueVars
    BY <1>1 DEF queueVars, QueueInv, QueueTypeOK, PendingRegen, ClaimClear, Busy,
                OneDmPerRecipient, OneLivePerSlot, Rows, Txs
  <1> QED
    BY <1>1, ProposeInv, RegenInv, DecideInv, WorkInv, ClaimInv DEF QueueNext

-----------------------------------------------------------------------------
(* The theorems.                                                           *)

\* The inductive invariant holds throughout.
THEOREM Invariance == QueueSpec => []QueueInv
  <1>1. QueueInit => QueueInv
    BY InitInv
  <1>2. QueueInv /\ [QueueNext]_queueVars => QueueInv'
    BY NextInv
  <1> QED
    BY <1>1, <1>2, PTL DEF QueueSpec

\* Every reachable table is well-typed, for any number of proposals, recipients
\* and kinds, and an open transaction only names rows that exist.
THEOREM TypeCorrect == QueueSpec => []QueueTypeOK
  <1>1. QueueInv => QueueTypeOK
    BY DEF QueueInv
  <1> QED
    BY <1>1, Invariance, PTL

\* claim_next_action's NOT EXISTS: at most one DM per recipient is executing, on
\* SQLite and on PostgreSQL, as long as a single worker claims.
THEOREM OneDm == QueueSpec => []OneDmPerRecipient
  <1>1. QueueInv => OneDmPerRecipient
    BY DEF QueueInv
  <1> QED
    BY <1>1, Invariance, PTL

\* idx_action_queue_one_active_per_target: one live proposal per target and kind,
\* whatever is regenerated, reopened or claimed in between.
THEOREM OneLive == QueueSpec => []OneLivePerSlot
  <1>1. QueueInv => OneLivePerSlot
    BY DEF QueueInv
  <1> QED
    BY <1>1, Invariance, PTL

-----------------------------------------------------------------------------
(* What SQLite's write lock adds.                                          *)

\* A decided row changes its mind only through a human.
OnlyReopened == \A id \in Rows :
    ~Live(queue[id]) => queue'[id].status \in {queue[id].status, "approved"}

\* With one writer at a time, two transactions never overlap, and what a
\* regeneration read is still live when it commits.
LEMMA SerialInv ==
    ASSUME Backend = "sqlite", QueueInv, SerialWriters, [QueueNext]_queueVars
    PROVE  SerialWriters'
  <1>1. CASE UNCHANGED queueVars
    BY <1>1 DEF queueVars, SerialWriters
  <1>2. CASE Unlocked /\ regen' = regen
    BY <1>2 DEF Unlocked, SerialWriters
  <1>3. ASSUME NEW e \in Engines, ReplaceCommit(e) \/ ReplaceRollback(e)
        PROVE  SerialWriters'
    <2>1. regen \in [Engines -> Txs] /\ regen[e] # NoTx
          /\ regen' = [regen EXCEPT ![e] = NoTx] /\ claim' = claim
      BY <1>3 DEF QueueInv, QueueTypeOK, ReplaceCommit, ReplaceRollback
    <2>2. \A other \in Engines : regen'[other] = NoTx
      BY <2>1 DEF SerialWriters
    <2> QED
      BY <2>2 DEF SerialWriters
  <1>4. ASSUME NEW e \in Engines, NEW row, ReplaceSelect(e, row)
        PROVE  SerialWriters'
    <2> DEFINE tx == [open |-> TRUE, row |-> row, old |-> Superseded(row)]
    <2>1. /\ claim' = NoId /\ queue' = queue /\ regen' = [regen EXCEPT ![e] = tx]
          /\ \A other \in Engines : regen[other] = NoTx
      BY <1>4 DEF ReplaceSelect, Unlocked
    <2>2. \A id \in tx.old : Live(queue[id])
      BY DEF Superseded, Live, TerminalStatuses
    <2> HIDE DEF tx
    <2>3. regen \in [Engines -> Txs]
      BY DEF QueueInv, QueueTypeOK
    <2>4. /\ regen'[e] = tx
          /\ \A other \in Engines : other # e => regen'[other] = NoTx
      BY <2>1, <2>3
    <2> QED
      BY <2>1, <2>2, <2>4 DEF SerialWriters, Live
  <1>5. CASE ClaimUpdate \/ ClaimRollback
    <2>1. /\ regen' = regen /\ claim' = NoId
          /\ \A e \in Engines : regen[e] = NoTx
      BY <1>5 DEF ClaimUpdate, ClaimRollback, SerialWriters
    <2> QED
      BY <2>1 DEF SerialWriters
  <1>6. Propose => \/ Unlocked /\ regen' = regen
                   \/ \E e \in Engines : \E row : ReplaceSelect(e, row)
    BY DEF Propose, EnqueueAction
  <1>7. Decide \/ Work => Unlocked /\ regen' = regen
    BY DEF Decide, ApproveAction, RejectAction, WebApprove, WebReject, WebReprocess, WebDelete,
           Work, ClaimSelect, FinishAction, SetDelivery, RefreshWrite
  <1> QED
    BY <1>1, <1>2, <1>3, <1>4, <1>5, <1>6, <1>7 DEF QueueNext, Replace

\* What an open regeneration is about to reject is still live.
RegenLive ==
    \A e \in Engines : regen[e] # NoTx => \A id \in regen[e].old : Live(queue[id])

\* The steps that change a status, one by one.
LEMMA OnlyReopenedStep ==
    ASSUME QueueInv, RegenLive, QueueNext
    PROVE  OnlyReopened
  <1>1. QueueTypeOK /\ queue \in [Rows -> Row] /\ lastId \in Nat
    <2>1. QueueTypeOK
      BY DEF QueueInv
    <2>2. lastId \in 0 .. MaxId /\ queue \in [Rows -> Row]
      BY <2>1 DEF QueueTypeOK
    <2> QED
      BY <2>1, <2>2, MaxIdAssumption
  <1>2. CASE queue' = queue
    BY <1>2 DEF OnlyReopened
  <1>3. CASE Propose
    <2>1. PICK qtype \in QueueTypes, target \in Targets, kind \in Kinds,
               text \in Texts, snapshot \in Snapshots :
               LET row == Proposal(qtype, target, kind, text, snapshot)
               IN  EnqueueAction(row) \/ \E e \in Engines : ReplaceSelect(e, row)
      BY <1>3 DEF Propose
    <2>2. queue' = queue \/ queue' = Inserted(queue, Proposal(qtype, target, kind, text, snapshot))
      BY <2>1 DEF EnqueueAction, ReplaceSelect
    <2>3. Proposal(qtype, target, kind, text, snapshot) \in Row
      BY ProposalRow
    <2> QED
      BY <1>1, <1>2, <2>2, <2>3, InsertedRow DEF OnlyReopened
  <1>4. ASSUME NEW e \in Engines, ReplaceCommit(e)
        PROVE  OnlyReopened
    <2>1. regen[e].row \in Row /\ \A id \in regen[e].old : Live(queue[id])
      BY <1>1, <1>4, OpenTx DEF RegenLive, ReplaceCommit
    <2>2. Rejected(regen[e].old) \in [Rows -> Row]
      BY <1>1, RejectedUpdates DEF NoneLivelier, Updates
    <2>3. \A id \in Rows : queue'[id] = Rejected(regen[e].old)[id]
      BY <1>1, <1>4, <2>1, <2>2, InsertedRow DEF ReplaceCommit
    <2>4. \A id \in Rows : ~Live(queue[id]) => Rejected(regen[e].old)[id] = queue[id]
      BY <2>1 DEF Rejected
    <2> QED
      BY <2>3, <2>4 DEF OnlyReopened
  <1>5. ASSUME NEW id \in Rows, NEW status \in Statuses,
               Live(queue[id]), queue' = SetStatus(id, status)
        PROVE  OnlyReopened
    BY <1>1, <1>5, SetStatusUpdates DEF OnlyReopened
  <1>6. ASSUME NEW id \in Rows, queue' = SetApproved(id)
        PROVE  OnlyReopened
    BY <1>1, <1>6, SetApprovedUpdates DEF OnlyReopened
  <1>7. CASE Decide
    <2>1. PICK id \in Rows : \/ ApproveAction(id) \/ RejectAction(id)
                            \/ WebApprove(id)    \/ WebReject(id)
                            \/ WebReprocess(id)  \/ WebDelete(id)
      BY <1>7 DEF Decide
    <2>2. ApproveAction(id) \/ WebApprove(id) \/ WebReprocess(id) => queue' = SetApproved(id)
      BY DEF ApproveAction, WebApprove, WebReprocess
    <2>3. RejectAction(id) \/ WebReject(id) \/ WebDelete(id) =>
              /\ Live(queue[id])
              /\ \E status \in {"rejected", "deleted"} : queue' = SetStatus(id, status)
      BY DEF RejectAction, WebReject, WebDelete, Live, TerminalStatuses
    <2> QED
      BY <1>5, <1>6, <2>1, <2>2, <2>3, StatusesWritten
  <1>8. CASE Work
    <2>1. PICK id \in Rows :
            \/ \E qtype \in OutboundQueueTypes : ClaimSelect(id, qtype)
            \/ \E outcome \in {"executed", "failed"} : FinishAction(id, outcome)
            \/ \E outcome \in {"drafted", "outdated"} : SetDelivery(id, outcome)
            \/ \E outcome \in {"completed", "needs_review"} : RefreshWrite(id, outcome)
      BY <1>8 DEF Work
    <2>2. ASSUME NEW qtype, ClaimSelect(id, qtype) PROVE OnlyReopened
      BY <1>2, <2>2 DEF ClaimSelect
    <2>3. queue[id].status = "executing" => Live(queue[id])
      BY DEF Live, TerminalStatuses
    <2>4. ASSUME NEW outcome \in {"executed", "failed"}, FinishAction(id, outcome)
          PROVE  OnlyReopened
      BY <1>2, <1>5, <2>3, <2>4, StatusesWritten DEF FinishAction
    <2>5. ASSUME NEW outcome, SetDelivery(id, outcome)
          PROVE  OnlyReopened
      <3>1. CASE queue[id].status # "executing"
        BY <1>2, <2>5, <3>1 DEF SetDelivery
      <3>2. CASE queue[id].status = "executing"
        <4>1. \A other \in Rows \ {id} : queue'[other] = queue[other]
          BY <1>1, <2>5, <3>2 DEF SetDelivery
        <4> QED
          BY <2>3, <3>2, <4>1 DEF OnlyReopened
      <3> QED
        BY <3>1, <3>2
    <2>6. ASSUME NEW outcome, RefreshWrite(id, outcome)
          PROVE  OnlyReopened
      BY <1>1, <2>6 DEF RefreshWrite, Row, OnlyReopened
    <2> QED
      BY <2>1, <2>2, <2>4, <2>5, <2>6
  <1>9. CASE ClaimUpdate
    <2>1. claim \in Rows
      BY <1>1, <1>9 DEF QueueTypeOK, ClaimUpdate
    <2>2. queue[claim].status = "approved" => Live(queue[claim])
      BY DEF Live, TerminalStatuses
    <2> QED
      BY <1>2, <1>5, <1>9, <2>1, <2>2, StatusesWritten DEF ClaimUpdate
  <1> QED
    BY <1>2, <1>3, <1>4, <1>7, <1>8, <1>9 DEF QueueNext, Replace, ReplaceRollback, ClaimRollback

\* Under SQLite what was executed, rejected, failed or deleted stays so until a
\* human brings it back to "approved".  PostgreSQL does not give this: there a
\* regeneration rejects by id what has been executed since it read the table.
THEOREM FinalUnlessReopened ==
    ASSUME Backend = "sqlite"
    PROVE  QueueSpec => TerminalOnlyReopened
  <1>1. QueueInit => QueueInv /\ SerialWriters
    BY InitInv
  <1>2. QueueInv /\ SerialWriters /\ [QueueNext]_queueVars => QueueInv' /\ SerialWriters'
    BY NextInv, SerialInv
  <1>3. QueueInv /\ SerialWriters /\ [QueueNext]_queueVars =>
            [\A id \in Rows : ~Live(queue[id]) =>
                queue'[id].status \in {queue[id].status, "approved"}]_queueVars
    BY OnlyReopenedStep DEF OnlyReopened, RegenLive, SerialWriters, queueVars
  <1> QED
    BY <1>1, <1>2, <1>3, PTL DEF QueueSpec, TerminalOnlyReopened
=============================================================================
