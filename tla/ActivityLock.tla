---------------------------- MODULE ActivityLock ----------------------------
(***************************************************************************)
(* The activity locks of session/l2_activity_lock.py: how the interactive  *)
(* inbox fetch, the scheduler's browser jobs and the HITL worker take      *)
(* turns in one Chrome.  A role is a small file naming the process that    *)
(* last published it; nothing locks the file, and a process that finds no  *)
(* live record of the other role publishes its own in a later step.  The   *)
(* fetch waits for the other role, a job skips its tick.                   *)
(*                                                                         *)
(* One Page is modelled (the file name holds the page id).  A record is    *)
(* "fresh" while its heartbeat, its file or its owner's log is younger     *)
(* than stale_after; how long that takes is the environment's choice.      *)
(***************************************************************************)
EXTENDS Naturals, FiniteSets

CONSTANTS
    Clis,       \* processes of the interactive fetch
    Jobs,       \* processes that run browser jobs: the scheduler, the HITL worker
    Fetching,   \* those whose jobs call fetch_messages in-process
    NoProc,
    MaxCrashes  \* bound: how many processes are killed

ASSUME ProcessesAssumption ==
    /\ Clis \cap Jobs = {} /\ Fetching \subseteq Jobs
    /\ NoProc \notin Clis \cup Jobs
    /\ MaxCrashes \in Nat

Procs == Clis \cup Jobs
Fetch == "inbox_fetch_cli"
Browser == "scheduler_browser"
Roles == {Fetch, Browser}
Other(role) == IF role = Fetch THEN Browser ELSE Fetch
NoRole == ""

VARIABLES
    record,   \* role -> the process its file names (NoProc: no file)
    fresh,    \* role -> whether the record was refreshed within stale_after
    held,     \* process -> the roles its ActivityLock objects hold
    step,     \* process -> what it does next for `want`
    want,     \* process -> the role it is taking or giving up
    beating,  \* process -> the role a heartbeat of another thread will rewrite
    dead,     \* processes that were killed
    noted,    \* ghost: process -> who held the other role when it last looked
    mishap    \* ghost: "quiet" and "lost", see Quiet and Overwrites

lockVars == <<record, fresh, held, step, want, beating, dead, noted, mishap>>

LockTypeOK ==
    /\ record \in [Roles -> Procs \cup {NoProc}]
    /\ fresh \in [Roles -> BOOLEAN]
    /\ held \in [Procs -> SUBSET Roles]
    /\ step \in [Procs -> {"run", "look", "unlink", "publish", "drop", "left"}]
    /\ want \in [Procs -> Roles \cup {NoRole}]
    /\ beating \in [Procs -> Roles \cup {NoRole}]
    /\ dead \subseteq Procs
    /\ noted \in [Procs -> SUBSET Procs]
    /\ mishap \subseteq {"quiet", "lost"}

LockInit ==
    /\ record = [r \in Roles |-> NoProc]
    /\ fresh = [r \in Roles |-> FALSE]
    /\ held = [p \in Procs |-> {}]
    /\ step = [p \in Procs |-> "run"]
    /\ want = [p \in Procs |-> NoRole]
    /\ beating = [p \in Procs |-> NoRole]
    /\ dead = {}
    /\ noted = [p \in Procs |-> {}]
    /\ mishap = {}

-----------------------------------------------------------------------------
Holders(role) == {p \in Procs : role \in held[p]}

Goto(p, next, role) == /\ step' = [step EXCEPT ![p] = next]
                       /\ want' = [want EXCEPT ![p] = role]

\* Ghost: a write to the file of `role` by p hides another process that holds it.
Overwrites(p, role) == IF Holders(role) \ {p} # {} THEN mishap \cup {"lost"} ELSE mishap

WriteRecord(p, role) == /\ record' = [record EXCEPT ![role] = p]
                        /\ fresh' = [fresh EXCEPT ![role] = TRUE]

Unlinked(role) == record' = [record EXCEPT ![role] = NoProc]

\* The fetch takes the fetch role, a browser job the browser role; a fetching
\* job takes the fetch role as well, inside its own cycle.
Wants(p, role) ==
    /\ role \notin held[p]
    /\ \/ role = Fetch /\ p \in Clis
       \/ role = Fetch /\ p \in Fetching /\ Browser \in held[p]
       \/ role = Browser /\ p \in Jobs /\ held[p] = {}

Begin(p, role) ==
    /\ step[p] = "run"
    /\ Wants(p, role)
    /\ Goto(p, "look", role)
    /\ UNCHANGED <<record, fresh, held, beating, dead, noted, mishap>>

\* is_active: the record counts when it names another process, alive and fresh.
Free(p, role) == record[role] \in {NoProc, p}
Stale(p, role) == ~Free(p, role) /\ (record[role] \in dead \/ ~fresh[role])
Active(p, role) == ~Free(p, role) /\ ~Stale(p, role)

\* Mutant: the scheduler's guard publishes without looking.
LookBlind(p) ==
    /\ step[p] = "look"
    /\ noted' = [noted EXCEPT ![p] = Holders(Other(want[p])) \ {p}]
    /\ \/ /\ ~Active(p, Other(want[p])) \/ want[p] = Browser
          /\ Goto(p, "publish", want[p])
       \/ /\ Active(p, Other(want[p])) /\ want[p] = Fetch
          /\ Goto(p, "left", NoRole)
    /\ UNCHANGED <<record, fresh, held, beating, dead, mishap>>

\* What a process finds of the other role decides: publish, remove the stale
\* file first, skip this tick (a job), or poll again until the timeout (a fetch).
Look(p) ==
    LET other == Other(want[p])
    IN  /\ step[p] = "look"
        /\ noted' = [noted EXCEPT ![p] = Holders(other) \ {p}]
        /\ \/ Free(p, other) /\ Goto(p, "publish", want[p])
           \/ Stale(p, other) /\ Goto(p, "unlink", want[p])
           \/ Active(p, other) /\ want[p] = Browser /\ Goto(p, "run", NoRole)
           \/ /\ Active(p, other) /\ want[p] = Fetch
              /\ \/ UNCHANGED <<step, want>>
                 \/ p \in Clis /\ Goto(p, "left", NoRole)
                 \/ p \in Jobs /\ Goto(p, "run", NoRole)
        /\ UNCHANGED <<record, fresh, held, beating, dead, mishap>>

\* unlink takes whatever file is there by now.
Unlink(p) ==
    LET other == Other(want[p])
    IN  /\ step[p] = "unlink"
        /\ Unlinked(other)
        /\ Goto(p, "publish", want[p])
        /\ mishap' = IF record[other] \in Holders(other) THEN Overwrites(p, other)
                                                         ELSE mishap
        /\ UNCHANGED <<fresh, held, beating, dead, noted>>

Publish(p) ==
    /\ step[p] = "publish"
    /\ WriteRecord(p, want[p])
    /\ held' = [held EXCEPT ![p] = @ \cup {want[p]}]
    /\ Goto(p, "run", NoRole)
    /\ mishap' = Overwrites(p, want[p])
    /\ UNCHANGED <<beating, dead, noted>>

\* A log record of any thread: `held` is read, and the file written later.
Heartbeat(p, role) ==
    /\ role \in held[p]
    /\ beating[p] = NoRole
    /\ beating' = [beating EXCEPT ![p] = role]
    /\ UNCHANGED <<record, fresh, held, step, want, dead, noted, mishap>>

HeartbeatWrite(p) ==
    /\ beating[p] # NoRole
    /\ WriteRecord(p, beating[p])
    /\ beating' = [beating EXCEPT ![p] = NoRole]
    /\ mishap' = Overwrites(p, beating[p])
    /\ UNCHANGED <<held, step, want, dead, noted>>

\* release: `held` first, then the file, unless it names another process.
Release(p, role) ==
    /\ step[p] = "run"
    /\ role \in held[p]
    /\ role = Browser => Fetch \notin held[p]
    /\ held' = [held EXCEPT ![p] = @ \ {role}]
    /\ IF Free(p, role) THEN Goto(p, "drop", role)
                        ELSE Goto(p, IF p \in Clis THEN "left" ELSE "run", NoRole)
    /\ noted' = [noted EXCEPT ![p] = {}]
    /\ UNCHANGED <<record, fresh, beating, dead, mishap>>

Drop(p) ==
    /\ step[p] = "drop"
    /\ Unlinked(want[p])
    /\ Goto(p, IF p \in Clis THEN "left" ELSE "run", NoRole)
    /\ mishap' = Overwrites(p, want[p])
    /\ UNCHANGED <<fresh, held, beating, dead, noted>>

\* The owner logs nothing for stale_after (a long LLM call, a slow page).
Quiet(role) ==
    /\ fresh[role] /\ record[role] # NoProc
    /\ fresh' = [fresh EXCEPT ![role] = FALSE]
    /\ mishap' = IF Holders(role) # {} THEN mishap \cup {"quiet"} ELSE mishap
    /\ UNCHANGED <<record, held, step, want, beating, dead, noted>>

Kill(p) ==
    /\ Cardinality(dead) < MaxCrashes
    /\ p \notin dead /\ step[p] # "left"
    /\ dead' = dead \cup {p}
    /\ held' = [held EXCEPT ![p] = {}]
    /\ beating' = [beating EXCEPT ![p] = NoRole]
    /\ Goto(p, "left", NoRole)
    /\ noted' = [noted EXCEPT ![p] = {}]
    /\ UNCHANGED <<record, fresh, mishap>>

LockNext == \/ \E p \in Procs : \/ Look(p) \/ Unlink(p) \/ Publish(p) \/ Drop(p)
                                \/ HeartbeatWrite(p) \/ Kill(p)
                                \/ \E role \in Roles : \/ Begin(p, role)
                                                       \/ Heartbeat(p, role)
                                                       \/ Release(p, role)
            \/ \E role \in Roles : Quiet(role)

LockSpec == LockInit /\ [][LockNext]_lockVars

-----------------------------------------------------------------------------
\* The fetch p and the browser job q drive Chrome together.
Together(p, q) == p # q /\ Fetch \in held[p] /\ Browser \in held[q]

\* l2_activity_lock.py:254-256: a job skips when a live fetch owns the browser,
\* and a fetch waits for a running job (l5_fetch_fb_messages.py:322-325).  The
\* two sides still meet, in exactly these cases: both looked before either
\* published, a holder logged nothing for stale_after, or a holder's file was
\* overwritten or removed by another process.  Apart from these, nobody enters
\* beside a holder it could have noted.
PublishedIsRespected ==
    \A p, q \in Procs : Together(p, q) /\ mishap = {} =>
        q \notin noted[p] /\ p \notin noted[q]
=============================================================================
