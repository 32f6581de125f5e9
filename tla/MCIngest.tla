------------------------------- MODULE MCIngest -------------------------------
(***************************************************************************)
(* The parts an inbox fetch is made of, each explored on its own: which    *)
(* conversations a run opens, what a tab reads and stores of one, the      *)
(* transcript and the MAS runner that answers it, the checkpoint file, the *)
(* locks between fetch and browser jobs.  They hand each other data these  *)
(* models abstract from, and share no variable: a behaviour is one part's, *)
(* and the others rest.                                                    *)
(***************************************************************************)
EXTENDS InboxMas, InboxSync, ThreadFetch, FetchCheckpoint, ActivityLock

VARIABLE part

MCKinds == {[type |-> "", dedupe_key |-> "", source |-> "inbox_mas"]}
MCUtterances == {[side |-> "Customer", text |-> "b"]}
MCName == [c \in Conversations |-> "Anna"]

IngestInit ==
    /\ part \in {"mas", "sync", "thread", "checkpoint", "lock"}
    /\ MasInboxInit /\ SyncInit /\ FetchInit /\ CheckpointInit /\ LockInit
    \* The resting parts start in one way only.
    /\ part # "sync" => exact /\ \A t \in SyncThreads : rows[t].card.utime # Unknown
    /\ part # "thread" => \A c \in Conversations : threads[c] = NoName

IngestNext ==
    /\ UNCHANGED part
    /\ \/ /\ part = "mas" /\ MasInboxNext
          /\ UNCHANGED <<syncVars, fetchVars, checkpointVars, lockVars>>
       \/ /\ part = "sync" /\ SyncNext
          /\ UNCHANGED <<inboxVars, fetchVars, checkpointVars, lockVars>>
       \/ /\ part = "thread" /\ FetchNext
          /\ UNCHANGED <<inboxVars, syncVars, checkpointVars, lockVars>>
       \/ /\ part = "checkpoint" /\ CheckpointNext
          /\ UNCHANGED <<inboxVars, syncVars, fetchVars, lockVars>>
       \/ /\ part = "lock" /\ LockNext
          /\ UNCHANGED <<inboxVars, syncVars, fetchVars, checkpointVars>>

IngestSpec ==
    IngestInit /\ [][IngestNext]_<<part, inboxVars, syncVars, fetchVars, checkpointVars, lockVars>>

\* Every table, file and record of the parts has the shape its code gives it.
IngestTypeOK == /\ QueueTypeOK /\ StoreTypeOK /\ MasTypeOK /\ SyncTypeOK
                /\ FetchTypeOK /\ CheckpointTypeOK /\ LockTypeOK
=============================================================================
