---------------------------- MODULE MessageStore ----------------------------
(***************************************************************************)
(* The transcript of one thread in the messages table, as                  *)
(* persist_thread_record (inbox/l3_pipeline.py) grows it from snapshots of *)
(* the conversation on Facebook.                                           *)
(*                                                                         *)
(* A snapshot shows the conversation from some message to its end; how far *)
(* up it reaches differs from crawl to crawl.  A message is shown with its *)
(* Facebook id or without one, with an exact time or without one.  seq is  *)
(* the position of a row: every persist ends by renumbering the rows, so   *)
(* the sequence `store` carries it.                                        *)
(***************************************************************************)
EXTENDS Integers, SequencesExt, FiniteSetsExt

CONSTANTS
    Bodies,   \* message texts, up to equality
    MaxTalk,  \* bound: messages written in the conversation
    MaxRows   \* bound: rows, which grow when messages are shown without id

ASSUME StoreAssumption == MaxTalk \in Nat /\ MaxRows \in Nat

VARIABLES
    talk,     \* the conversation on Facebook
    store,    \* the rows of messages, in the order of seq
    snapshot, \* what the open crawl has read and not yet committed
    known     \* ghost: every message a committed snapshot has shown

storeVars == <<talk, store, snapshot, known>>

NoSource == 0
NoTime == 0

Senders == {"Customer", "Page"}
Message == [is : 1 .. MaxTalk, sender : Senders, body : Bodies,
            source : 0 .. MaxTalk, at : 0 .. MaxTalk]

StoreTypeOK ==
    /\ talk \in Seq(Message) /\ Len(talk) <= MaxTalk
    /\ store \in Seq(Message)
    /\ snapshot \in Seq(Message)
    /\ known \subseteq 1 .. Len(talk)

StoreInit == talk = <<>> /\ store = <<>> /\ snapshot = <<>> /\ known = {}

-----------------------------------------------------------------------------
(* persist_thread_record, step by step.                                    *)

\* The wording and the side that spoke: the identity of a message without id.
BodyKey(message) == <<message.sender, message.body>>

\* Mutant: wording alone, as if ids were not there.
MatchesBody(row, message) == BodyKey(row) = BodyKey(message)

\* A message shown with an id is compared by id only, never by its wording.
Matches(row, message) == IF message.source # NoSource
                         THEN row.source = message.source
                         ELSE BodyKey(row) = BodyKey(message)

\* The largest number of last rows that are the first messages of the snapshot.
Overlap(rows, shown) ==
    Max({0} \cup {n \in 1 .. Min({Len(rows), Len(shown)}) :
                     \A k \in 1 .. n : Matches(rows[Len(rows) - n + k], shown[k])})

SourcesOf(rows) == {rows[n].source : n \in DOMAIN rows} \ {NoSource}

\* A row whose id is shown again takes over what is shown now.
Updated(rows, shown) ==
    [n \in DOMAIN rows |->
        IF rows[n].source \in SourcesOf(shown)
        THEN CHOOSE message \in ToSet(shown) : message.source = rows[n].source
        ELSE rows[n]]

\* What stands at the `positions` of a sequence, arranged by a strict order on them
\* (a set of pairs).
Rank(k, positions, order) == Cardinality({j \in positions : <<j, k>> \in order}) + 1

Arranged(rows, positions, order) ==
    [n \in 1 .. Cardinality(positions) |->
        rows[CHOOSE k \in positions : Rank(k, positions, order) = n]]

\* Behind the overlap, everything whose id is not stored yet.
New(rows, shown) == {k \in Overlap(rows, shown) + 1 .. Len(shown) :
                        shown[k].source \notin SourcesOf(rows)}

AsShown(rows, shown) ==
    {p \in New(rows, shown) \X New(rows, shown) : p[1] < p[2]}

Fresh(rows, shown) == Arranged(shown, New(rows, shown), AsShown(rows, shown))

\* The exact time of a row, or of the nearest earlier row that has one.
Carried(rows, n) ==
    LET timed == {k \in 1 .. n : rows[k].at # NoTime}
    IN  IF timed = {} THEN NoTime ELSE rows[Max(timed)].at

\* Mutant: new rows stay where they were appended.
Appended(rows) == rows

\* resequence_thread_by_time: a stable sort by the carried time.
Earlier(rows) ==
    {p \in (DOMAIN rows) \X (DOMAIN rows) :
        \/ Carried(rows, p[1]) < Carried(rows, p[2])
        \/ Carried(rows, p[1]) = Carried(rows, p[2]) /\ p[1] < p[2]}

Resequenced(rows) == Arranged(rows, DOMAIN rows, Earlier(rows))

Persisted(rows, shown) == Resequenced(Updated(rows, shown) \o Fresh(rows, shown))

-----------------------------------------------------------------------------
\* Somebody writes in the conversation.
Write(sender, body, sourced) ==
    LET n == Len(talk) + 1
    IN  /\ Len(talk) < MaxTalk
        /\ talk' = Append(talk, [is |-> n, sender |-> sender, body |-> body,
                                 source |-> IF sourced THEN n ELSE NoSource, at |-> n])
        /\ UNCHANGED <<store, snapshot, known>>

\* A crawl reads the conversation from message `top` on.  The times of the
\* newest `undated` messages are clock times only, which count as no time.
ReadThread(top, undated) ==
    /\ snapshot = <<>>
    /\ top \in DOMAIN talk
    /\ snapshot' = [n \in 1 .. Len(talk) - top + 1 |->
                       LET message == talk[top + n - 1]
                       IN  IF message.is > Len(talk) - undated
                           THEN [message EXCEPT !.at = NoTime] ELSE message]
    /\ UNCHANGED <<talk, store, known>>

\* One transaction stores the snapshot.
PersistThread ==
    /\ snapshot # <<>>
    /\ Len(Persisted(store, snapshot)) <= MaxRows
    /\ store' = Persisted(store, snapshot)
    /\ known' = known \cup {snapshot[n].is : n \in DOMAIN snapshot}
    /\ snapshot' = <<>>
    /\ UNCHANGED talk

\* The thread is not persisted: an issue was found, or the crawl was killed.
DropSnapshot ==
    /\ snapshot # <<>>
    /\ snapshot' = <<>>
    /\ UNCHANGED <<talk, store, known>>

Crawl == \/ \E top \in DOMAIN talk, undated \in {0, 1} : ReadThread(top, undated)
         \/ PersistThread \/ DropSnapshot

Writes == \E sender \in Senders, body \in Bodies, sourced \in BOOLEAN :
              Write(sender, body, sourced)

StoreNext == Writes \/ Crawl

StoreSpec == StoreInit /\ [][StoreNext]_storeVars

-----------------------------------------------------------------------------
\* l3_pipeline.py:353-356: repeated wording never merges two messages, and a
\* re-crawl never doubles one.  Every message ever stored with its id is in the
\* table exactly once, however deep the snapshots reached and in what order.
StoredOnce ==
    \A n \in known : talk[n].source # NoSource =>
        Cardinality({k \in DOMAIN store : store[k].is = n}) = 1

\* l3_pipeline.py:301-305: every reader orders by seq, so seq follows the
\* conversation, for messages stored with id and exact time, though a later
\* crawl brings in older ones.
OrderFollowsTime ==
    \A j, k \in DOMAIN store :
        /\ j < k
        /\ store[j].source # NoSource /\ store[k].source # NoSource
        /\ store[j].at # NoTime /\ store[k].at # NoTime
        => store[j].is < store[k].is
=============================================================================
