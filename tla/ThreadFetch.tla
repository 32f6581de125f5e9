----------------------------- MODULE ThreadFetch -----------------------------
(***************************************************************************)
(* Fetching one conversation in a browser tab                              *)
(* (browser/inbox/thread_worker.py process_thread_task): find the card,    *)
(* verify whose conversation is open, read the messages, verify and read   *)
(* again, and store what every check let pass.                             *)
(*                                                                         *)
(* The tab is not under the worker's control.  Business Suite loads the    *)
(* address, the heading, the selected card and the message panel on its    *)
(* own time and in any order, a click may come to nothing, an operator may *)
(* click elsewhere: each of the four shows any conversation at any moment. *)
(***************************************************************************)
EXTENDS Naturals, FiniteSets

CONSTANTS
    Conversations, \* seekers of the page, each with one conversation
    Name,          \* conversation -> the name on its card and heading
    Nobody,        \* no conversation: an address without recipient, "Inbox"
    MaxSaid,       \* bound: messages of a conversation
    MaxMoves       \* bound: changes of the tab

ASSUME FetchAssumption ==
    Nobody \notin Conversations /\ MaxSaid \in Nat \ {0} /\ MaxMoves \in Nat

VARIABLES
    tab,     \* what the tab shows: address, heading, selected card, panel
    said,    \* conversation -> number of messages written in it
    messages,\* the table: which message is stored under which thread
    threads, \* the thread rows: conversation -> thread_name, NoName without a row
    work,    \* the open task
    results, \* card -> what its task ended with
    moves

fetchVars == <<tab, said, messages, threads, work, results, moves>>

Someone == Conversations \cup {Nobody}
Parts == {"url", "heading", "card", "panel"}
Spoken == [of : Conversations, n : 1 .. MaxSaid]
NoRead == [rows |-> {}, unbound |-> {}, clash |-> FALSE]
NoName == "no name"
NoWork == [step |-> "none", card |-> Nobody, target |-> Nobody, unique |-> FALSE,
           stable |-> Nobody, identity |-> Nobody, first |-> NoRead, hard |-> FALSE]
NoResult == [status |-> "none", thread |-> Nobody, complete |-> FALSE]

FetchTypeOK ==
    /\ tab \in [Parts -> Someone]
    /\ said \in [Conversations -> 0 .. MaxSaid]
    /\ messages \subseteq [thread : Conversations, message : Spoken]
    /\ threads \in [Conversations -> {Name[c] : c \in Conversations} \cup {NoName}]
    /\ work.step \in {"none", "locate", "verify", "read", "final", "confirm", "last", "admit"}
    /\ work.first.unbound \subseteq work.first.rows /\ work.first.rows \subseteq Spoken
    /\ \A c \in Conversations : results[c].status \in
           {"none", "click_verify_failed", "no_messages", "error", "needs_review", "persisted"}

FetchInit ==
    /\ tab = [part \in Parts |-> Nobody]
    /\ said = [c \in Conversations |-> 1]
    /\ messages = {}
    /\ \E known \in SUBSET Conversations :
           threads = [c \in Conversations |-> IF c \in known THEN Name[c] ELSE NoName]
    /\ work = NoWork
    /\ results = [c \in Conversations |-> NoResult]
    /\ moves = 0

-----------------------------------------------------------------------------
(* The task's steps.                                                       *)

Goes(step) == work' = [work EXCEPT !.step = step, !.stable = Nobody]

Ends(status, thread, complete) ==
    /\ results' = [results EXCEPT ![work.card] =
                      [status |-> status, thread |-> thread, complete |-> complete]]
    /\ work' = NoWork

\* Stage 1 dispatches a card; its recipient is known from its link or from the
\* database, or it is a first contact.
Dispatch(card, target) ==
    /\ work = NoWork
    /\ results[card] = NoResult
    /\ target \in {card, Nobody}
    /\ work' = [NoWork EXCEPT !.step = "locate", !.card = card, !.target = target]
    /\ UNCHANGED <<tab, said, messages, threads, results, moves>>

SameName(c, d) == c \in Conversations /\ d \in Conversations /\ Name[c] = Name[d]

\* _heading_identity_unique: the only thread row of that name is the target's.
HeadingUnique ==
    work.target # Nobody /\ {d \in Conversations : threads[d] = Name[work.card]} = {work.target}

\* A card of that name was clicked in the sidebar; what opens is seen later.
Click ==
    /\ work.step = "locate"
    /\ work' = [work EXCEPT !.step = "verify", !.unique = HeadingUnique]
    /\ UNCHANGED <<tab, said, messages, threads, results, moves>>

\* locate_thread_direct: the address was loaded and names the target, under the
\* seeker's name or none.
Direct ==
    /\ work.step = "locate"
    /\ work.target # Nobody /\ tab["url"] = work.target
    /\ tab["heading"] = Nobody \/ SameName(tab["heading"], work.card)
    /\ work' = [work EXCEPT !.step = "verify", !.unique = HeadingUnique]
    /\ UNCHANGED <<tab, said, messages, threads, results, moves>>

NotLocated ==
    /\ work.step = "locate"
    /\ Ends("click_verify_failed", Nobody, FALSE)
    /\ UNCHANGED <<tab, said, messages, threads, moves>>

\* verify_thread_switch: whom one look at the tab identifies.  The address must
\* name the target, if there is one, below the right heading or beside the right
\* card; without a recipient in the address a unique name alone decides.
Identified ==
    IF /\ work.unique /\ tab["url"] = Nobody
       /\ SameName(tab["heading"], work.card)
    THEN work.target
    ELSE IF /\ tab["url"] # Nobody
            /\ work.target \in {Nobody, tab["url"]}
            /\ SameName(tab["heading"], work.card) \/ SameName(tab["card"], work.card)
    THEN tab["url"]
    ELSE Nobody

\* Two looks in a row must agree.
LookAt(step) ==
    /\ work.step = step
    /\ Identified # work.stable
    /\ work' = [work EXCEPT !.stable = Identified]
    /\ UNCHANGED <<tab, said, messages, threads, results, moves>>

Agreed(step) == work.step = step /\ Identified # Nobody /\ work.stable = Identified

\* The identity binds everything that follows.
Verified ==
    /\ Agreed("verify")
    /\ work' = [work EXCEPT !.step = "read", !.stable = Nobody,
                            !.identity = Identified, !.target = Identified]
    /\ UNCHANGED <<tab, said, messages, threads, results, moves>>

NotVerified ==
    /\ work.step = "verify"
    /\ Ends("click_verify_failed", Nobody, FALSE)
    /\ UNCHANGED <<tab, said, messages, threads, moves>>

-----------------------------------------------------------------------------
(* Reading: extract_thread_messages, source_messages, check_snapshot.      *)

\* Mutant: the participants of a message are not compared with the recipient.
ClashOfAddress(modelled) == tab["url"] \notin {work.identity, Nobody}

\* A message contradicts the identity: the address names somebody else, or its
\* participants, where it has a message model, are not the page and the recipient.
Clash(modelled) ==
    \/ tab["url"] \notin {work.identity, Nobody}
    \/ modelled # {} /\ tab["panel"] # work.identity

\* The panel from some message on.
Shown == IF tab["panel"] = Nobody THEN {{}}
         ELSE {{[of |-> tab["panel"], n |-> n] : n \in top .. said[tab["panel"]]} :
                   top \in 1 .. MaxSaid + 1}

\* Bubbles without message model, id or time are not evidence of anything; those
\* without model (bare) do not name their participants either.
Read(rows, unbound, bare) == [rows |-> rows, unbound |-> unbound,
                              clash |-> rows # {} /\ Clash(rows \ bare)]

FirstRead ==
    /\ work.step = "read"
    /\ \E rows \in Shown : \E unbound \in SUBSET rows : \E bare \in SUBSET unbound :
           IF rows = {} THEN Ends("no_messages", work.identity, FALSE)
           ELSE /\ work' = [work EXCEPT !.step = "final", !.first = Read(rows, unbound, bare),
                                        !.hard = Read(rows, unbound, bare).clash]
                /\ UNCHANGED results
    /\ UNCHANGED <<tab, said, messages, threads, moves>>

FinalVerified ==
    /\ Agreed("final")
    /\ Goes("confirm")
    /\ UNCHANGED <<tab, said, messages, threads, results, moves>>

\* The recipient could not be verified again: a contradiction.
Unverified ==
    /\ work.step \in {"final", "last"}
    /\ work' = [work EXCEPT !.step = "admit", !.hard = TRUE]
    /\ UNCHANGED <<tab, said, messages, threads, results, moves>>

\* compare_snapshots: any difference is a contradiction.
SecondRead ==
    /\ work.step = "confirm"
    /\ \E rows \in Shown : \E unbound \in SUBSET rows : \E bare \in SUBSET unbound :
           work' = [work EXCEPT !.step = "last", !.stable = Nobody,
                                !.hard = @ \/ Read(rows, unbound, bare) # work.first]
    /\ UNCHANGED <<tab, said, messages, threads, results, moves>>

LastVerified ==
    /\ Agreed("last")
    /\ Goes("admit")
    /\ UNCHANGED <<tab, said, messages, threads, results, moves>>

-----------------------------------------------------------------------------
(* Admission.                                                              *)

Evidenced == work.first.rows \ work.first.unbound

\* compare_stored: the message is stored under another thread.
StoredElsewhere == \E row \in messages : /\ row.message \in Evidenced
                                         /\ row.thread # work.identity

Refused ==
    /\ work.step = "admit"
    /\ work.hard \/ (Evidenced # {} /\ StoredElsewhere)
    /\ Ends("error", work.identity, FALSE)
    /\ UNCHANGED <<tab, said, messages, threads, moves>>

\* Kept as an observation only (save_unresolved_observation).
Unresolved ==
    /\ work.step = "admit"
    /\ ~work.hard /\ Evidenced = {}
    /\ Ends("needs_review", work.identity, FALSE)
    /\ UNCHANGED <<tab, said, messages, threads, moves>>

\* What has evidence is stored, what has none is quarantined.
Persist ==
    /\ work.step = "admit"
    /\ ~work.hard /\ Evidenced # {} /\ ~StoredElsewhere
    /\ messages' = messages \cup {[thread |-> work.identity, message |-> m] : m \in Evidenced}
    /\ threads' = [threads EXCEPT ![work.identity] = Name[work.card]]
    /\ Ends("persisted", work.identity, work.first.unbound = {})
    /\ UNCHANGED <<tab, said, moves>>

-----------------------------------------------------------------------------
Worker == \/ Click \/ Direct \/ NotLocated
          \/ \E step \in {"verify", "final", "last"} : LookAt(step)
          \/ Verified \/ NotVerified \/ FirstRead \/ FinalVerified \/ Unverified
          \/ SecondRead \/ LastVerified \/ Refused \/ Unresolved \/ Persist

\* A part of the tab shows something else.
TabMoves(part, shows) ==
    /\ work # NoWork
    /\ moves < MaxMoves
    /\ tab[part] # shows
    /\ tab' = [tab EXCEPT ![part] = shows]
    /\ moves' = moves + 1
    /\ UNCHANGED <<said, messages, threads, work, results>>

Speaks(c) ==
    /\ said[c] < MaxSaid
    /\ said' = [said EXCEPT ![c] = @ + 1]
    /\ UNCHANGED <<tab, messages, threads, work, results, moves>>

FetchNext == \/ Worker
             \/ \E card \in Conversations, target \in Someone : Dispatch(card, target)
             \/ \E part \in Parts, shows \in Someone : TabMoves(part, shows)
             \/ \E c \in Conversations : Speaks(c)

FetchSpec == FetchInit /\ [][FetchNext]_fetchVars

-----------------------------------------------------------------------------
\* thread_worker.py:189-194: only evidence that nothing contradicts is admitted.
\* Every stored message stands under the conversation it was written in, although
\* address, heading and panel change on their own between any two looks and
\* names are not unique.
StoredWhereWritten == \A row \in messages : row.message.of = row.thread
=============================================================================
