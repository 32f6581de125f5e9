--------------------------- MODULE DeliveryPromise ---------------------------
(***************************************************************************)
(* What the executor promises the people around it, with no queue, browser *)
(* or Facebook in sight: a message is attempted only while it is held, it  *)
(* is held only on a grant a human gave, each grant is good for one        *)
(* attempt, and a recipient has one held message at a time.                *)
(***************************************************************************)
EXTENDS Integers

CONSTANTS Messages, Recipients, NoRecipient

VARIABLES
    recipient,  \* whom each message is for; NoRecipient until it is written
    granted,    \* messages a human approved and nobody took yet
    held,       \* messages taken for delivery
    attempts    \* how often a message was sent off since its last grant

promiseVars == <<recipient, granted, held, attempts>>

Init == /\ recipient = [m \in Messages |-> NoRecipient]
        /\ granted = {}
        /\ held = {}
        /\ attempts = [m \in Messages |-> 0]

\* A new message is written; it may retire messages not yet taken.
Write(m, r, retired) ==
    /\ recipient[m] = NoRecipient
    /\ recipient' = [recipient EXCEPT ![m] = r]
    /\ granted' = granted \ retired
    /\ UNCHANGED <<held, attempts>>

\* A human approves: one attempt is allowed from here on.
Grant(m) ==
    /\ recipient[m] # NoRecipient
    /\ granted' = granted \cup {m}
    /\ held' = held \ {m}
    /\ attempts' = [attempts EXCEPT ![m] = 0]
    /\ UNCHANGED recipient

Revoke(m) ==
    /\ granted' = granted \ {m}
    /\ UNCHANGED <<recipient, held, attempts>>

Take(m) ==
    /\ m \in granted
    /\ \A other \in held : recipient[other] # recipient[m]
    /\ granted' = granted \ {m}
    /\ held' = held \cup {m}
    /\ UNCHANGED <<recipient, attempts>>

Attempt(m) ==
    /\ m \in held
    /\ attempts[m] = 0
    /\ attempts' = [attempts EXCEPT ![m] = 1]
    /\ UNCHANGED <<recipient, granted, held>>

Release(m) ==
    /\ held' = held \ {m}
    /\ UNCHANGED <<recipient, granted, attempts>>

Next == \E m \in Messages :
            \/ \E r \in Recipients, retired \in SUBSET granted : Write(m, r, retired)
            \/ Grant(m) \/ Revoke(m) \/ Take(m) \/ Attempt(m) \/ Release(m)

Spec == Init /\ [][Next]_promiseVars
=============================================================================
