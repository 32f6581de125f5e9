---------------------------- MODULE FetchCheckpoint ----------------------------
(***************************************************************************)
(* The journal file of a fetch run (inbox/l3_fetch_checkpoint.py): one     *)
(* JSON line with the run's parameters when it is created, one per task    *)
(* before its dispatch, one per outcome after the messages are committed,  *)
(* one when Stage 1 is done, each synced to disk before the next.  The     *)
(* process may be killed inside a write, and a later run resumes from the  *)
(* file.  Two tabs fetch; a task that failed is put back before its        *)
(* failure is recorded.                                                    *)
(***************************************************************************)
EXTENDS Integers, SequencesExt, FiniteSets

CONSTANTS
    Ordinals,  \* tasks
    Tabs,      \* consumers
    MaxKills,  \* bound: kills
    MaxTries   \* bound: fetches of a task in one run

ASSUME CheckpointAssumption == MaxKills \in Nat /\ MaxTries \in Nat

VARIABLES
    lines,   \* the file, line by line
    ended,   \* its last line has a newline
    alive,   \* a run has the file open
    mem,     \* what that run read from the file and wrote since
    tabs,    \* tabs -> the task it works on and how that went
    tries,   \* task -> fetches in this run
    kills,
    sure,    \* ghost: records whose append returned
    joined   \* ghost: records on a line that lacked its newline and was written on

checkpointVars == <<lines, ended, alive, mem, tabs, tries, kills, sure, joined>>

Outcomes == {"persisted", "error"}
NoOutcome == "none"
Heads == {"metadata", "discovery"}
Records == [kind : Heads, ordinal : {0}, status : {NoOutcome}]
           \cup [kind : {"task"}, ordinal : Ordinals, status : {NoOutcome}]
           \cup [kind : {"result"}, ordinal : Ordinals, status : Outcomes]

HeadRecord(kind) == [kind |-> kind, ordinal |-> 0, status |-> NoOutcome]

\* A line json.loads refuses, and one cut off inside a character: names are
\* written as UTF-8, and readlines() decodes the file before any line is parsed.
Unparsable == [kind |-> "unparsable"]
Undecodable == [kind |-> "undecodable"]
Damaged == {Unparsable, Undecodable}

Empty == [heads |-> {}, tasks |-> {}, results |-> [o \in Ordinals |-> NoOutcome]]
FreeTab == [ordinal |-> 0, status |-> NoOutcome]

CheckpointTypeOK ==
    /\ lines \in Seq(Records \cup Damaged)
    /\ {ended, alive} \subseteq BOOLEAN
    /\ mem.heads \subseteq Heads /\ mem.tasks \subseteq Ordinals
    /\ mem.results \in [Ordinals -> Outcomes \cup {NoOutcome}]
    /\ \A t \in Tabs : tabs[t].ordinal \in Ordinals \cup {0}
    /\ tries \in [Ordinals -> 0 .. MaxTries] /\ kills \in 0 .. MaxKills
    /\ sure \subseteq Records /\ joined \subseteq Records

\* The constructor has opened a new file and is about to write the metadata.
CheckpointInit ==
    /\ lines = <<>> /\ ended = TRUE
    /\ alive = TRUE /\ mem = Empty
    /\ tabs = [t \in Tabs |-> FreeTab]
    /\ tries = [o \in Ordinals |-> 0]
    /\ kills = 0 /\ sure = {} /\ joined = {}

-----------------------------------------------------------------------------
(* The file.                                                               *)

\* Mutant: the last result counts.
ApplyLatest(state, record) ==
    IF record.kind \in Heads THEN [state EXCEPT !.heads = @ \cup {record.kind}]
    ELSE IF record.kind = "task" THEN [state EXCEPT !.tasks = @ \cup {record.ordinal}]
    ELSE [state EXCEPT !.results[record.ordinal] = record.status]

\* _apply: "persisted" is never taken back.
Apply(state, record) ==
    IF record.kind \in Heads THEN [state EXCEPT !.heads = @ \cup {record.kind}]
    ELSE IF record.kind = "task" THEN [state EXCEPT !.tasks = @ \cup {record.ordinal}]
    ELSE IF state.results[record.ordinal] = "persisted" THEN state
    ELSE [state EXCEPT !.results[record.ordinal] = record.status]

\* Without a damaged last line.
Readable(file) == IF file # <<>> /\ Last(file) \in Damaged THEN Front(file) ELSE file

\* What _apply makes of records replayed one by one, in whatever order: an
\* outcome is "persisted" as soon as one record says so.
Outcome(records, o) ==
    LET said == {r.status : r \in {r \in records : r.kind = "result" /\ r.ordinal = o}}
    IN  IF said = {} THEN NoOutcome
        ELSE IF "persisted" \in said THEN "persisted" ELSE "error"

Known(records) == [heads |-> {r.kind : r \in {r \in records : r.kind \in Heads}},
                   tasks |-> {r.ordinal : r \in {r \in records : r.kind = "task"}},
                   results |-> [o \in Ordinals |-> Outcome(records, o)]]

Parsed(file) == Known(ToSet(Readable(file)))

\* pending(): a task without final outcome.
Pending(state) == {o \in state.tasks : state.results[o] # "persisted"}

\* append: onto the line before, if that has no newline.
Written(record) ==
    IF ended THEN Append(lines, record) ELSE Append(Front(lines), Unparsable)

AppendRecord(record) ==
    /\ alive
    /\ lines' = Written(record)
    /\ ended' = TRUE
    /\ joined' = IF ended THEN joined ELSE joined \cup {Last(lines), record}
    /\ mem' = Apply(mem, record)
    /\ sure' = sure \cup {record}

\* The process is gone; what it had in its tabs is, too.
Gone == /\ alive' = FALSE
        /\ tabs' = [t \in Tabs |-> FreeTab]
        /\ kills' = kills + 1
        /\ UNCHANGED <<mem, tries, sure>>

\* A kill inside an append: part of the line is on disk, perhaps part of a
\* character (a name in a task or an outcome), or all but the newline.
Torn(record) ==
    /\ alive /\ kills < MaxKills
    /\ \/ /\ \E damage \in Damaged :
                 /\ damage = Undecodable => record.kind \notin Heads
                 /\ lines' = Append(IF ended THEN lines ELSE Front(lines), damage)
          /\ joined' = IF ended THEN joined ELSE joined \cup {Last(lines)}
       \/ ended /\ lines' = Append(lines, record) /\ UNCHANGED joined
    /\ ended' = FALSE
    /\ Gone

Killed ==
    /\ alive /\ kills < MaxKills
    /\ Gone
    /\ UNCHANGED <<lines, ended, joined>>

\* All of the file decodes, and only its last line may not parse.
Legible(file) == Undecodable \notin ToSet(file) /\ Unparsable \notin ToSet(Readable(file))

\* --resume.  A file that is not legible ends the attempt with an exception and
\* stays as it is.  A torn last record is cut off; one without newline stays so.
\* Without metadata the comparison raises, as it does for other parameters.
ResumeFile ==
    /\ ~alive
    /\ Legible(lines)
    /\ lines' = Readable(lines)
    /\ ended' = (ended \/ Readable(lines) # lines)
    /\ \/ /\ "metadata" \in Parsed(lines).heads
          /\ alive' = TRUE
          /\ mem' = Parsed(lines)
          /\ tries' = [o \in Ordinals |-> 0]
       \/ UNCHANGED <<alive, mem, tries>>
    /\ UNCHANGED <<tabs, kills, sure, joined>>

-----------------------------------------------------------------------------
(* The run.                                                                *)

TaskRecord(o) == [kind |-> "task", ordinal |-> o, status |-> NoOutcome]
ResultRecord(t) == [kind |-> "result", ordinal |-> tabs[t].ordinal, status |-> tabs[t].status]

\* The constructor writes the metadata, the run "discovery" when Stage 1 is done.
AddHead(kind) ==
    /\ kind \notin mem.heads
    /\ kind = "discovery" => "metadata" \in mem.heads
    /\ \/ AppendRecord(HeadRecord(kind)) /\ UNCHANGED <<alive, tabs, tries, kills>>
       \/ Torn(HeadRecord(kind))

\* Stage 1 dispatches a task.
AddTask(o) == /\ o \notin mem.tasks /\ mem.heads = {"metadata"}
              /\ \/ AppendRecord(TaskRecord(o)) /\ UNCHANGED <<alive, tabs, tries, kills>>
                 \/ Torn(TaskRecord(o))

\* A tab fetches a task of the queue.  Others have it when it failed and was put
\* back, and its failure is still to be recorded.
FetchOrdinal(t, o) ==
    /\ alive
    /\ tabs[t] = FreeTab /\ o \in Pending(mem) /\ tries[o] < MaxTries
    /\ \A u \in Tabs : tabs[u].ordinal = o => tabs[u].status = "error"
    /\ \E status \in Outcomes : tabs' = [tabs EXCEPT ![t] = [ordinal |-> o, status |-> status]]
    /\ tries' = [tries EXCEPT ![o] = @ + 1]
    /\ UNCHANGED <<lines, ended, alive, mem, kills, sure, joined>>

AddResult(t) ==
    /\ tabs[t] # FreeTab
    /\ \/ /\ AppendRecord(ResultRecord(t))
          /\ tabs' = [tabs EXCEPT ![t] = FreeTab]
          /\ UNCHANGED <<alive, tries, kills>>
       \/ Torn(ResultRecord(t))

CheckpointNext == \/ \E kind \in Heads : AddHead(kind)
                  \/ \E o \in Ordinals : AddTask(o) \/ \E t \in Tabs : FetchOrdinal(t, o)
                  \/ \E t \in Tabs : AddResult(t)
                  \/ Killed \/ ResumeFile

CheckpointSpec == CheckpointInit /\ [][CheckpointNext]_checkpointVars

-----------------------------------------------------------------------------
\* The constructor takes the file.
Resumable == Legible(lines) /\ "metadata" \in Parsed(lines).heads

\* l3_fetch_checkpoint.py:3-4, 36-40: what kills leave behind.  Whatever order
\* outcomes were recorded in and however often the run was killed and resumed,
\* the lines that can be read hold every task whose dispatch returned, every
\* outcome recorded as persisted and the end of Stage 1; a line cut off exactly
\* before its newline and written on costs the records on that line and no other.
\* Where there is none, a run knows no more, nor less, than the file it would be
\* resumed from, and the file is refused only where its creation never returned
\* or its last record was cut off inside a character.
ResumeFindsAll ==
    /\ \A record \in sure \ joined :
           /\ record.kind \in Heads => record.kind \in Parsed(lines).heads
           /\ record.kind = "task" => record.ordinal \in Parsed(lines).tasks
           /\ record.status = "persisted" => record.ordinal \notin Pending(Parsed(lines))
    /\ joined = {} =>
           /\ alive => mem = Parsed(lines)
           /\ Damaged \cap ToSet(Readable(lines)) = {}
           /\ HeadRecord("metadata") \in sure /\ Undecodable \notin ToSet(lines) => Resumable
=============================================================================
