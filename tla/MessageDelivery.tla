--------------------------- MODULE MessageDelivery ---------------------------
(***************************************************************************)
(* What the outreach engine promises about messages, without approvals,    *)
(* runs, retries or contacts: a message has a text, somebody clears that   *)
(* text for sending, and from then on the message is delivered with that   *)
(* text, at most once, unless it is blocked first, and at most Limit of    *)
(* them in a day.  A blocked message is blocked for good.                  *)
(***************************************************************************)
EXTENDS Integers, FiniteSets

CONSTANTS Messages, Limit

VARIABLES
    text,        \* message -> its current text, 0 before it is written
    cleared,     \* message -> is its text cleared for sending?
    blocked,     \* the messages that may not be sent any more
    delivered,   \* message -> the text it was delivered with, 0 before
    today        \* the messages delivered today

delivery == <<text, cleared, blocked, delivered, today>>

Init ==
    /\ text = [m \in Messages |-> 0]
    /\ cleared = [m \in Messages |-> FALSE]
    /\ blocked = {}
    /\ delivered = [m \in Messages |-> 0]
    /\ today = {}

Write(m) ==
    /\ ~cleared[m] /\ delivered[m] = 0
    /\ text' = [text EXCEPT ![m] = @ + 1]
    /\ UNCHANGED <<cleared, blocked, delivered, today>>

Clear(m) ==
    /\ text[m] # 0
    /\ cleared' = [cleared EXCEPT ![m] = TRUE]
    /\ UNCHANGED <<text, blocked, delivered, today>>

\* Blocking a message may take its clearance back.
Block ==
    /\ \E b, c \in SUBSET Messages :
        /\ blocked' = blocked \cup b
        /\ c \subseteq blocked'
        /\ cleared' = [m \in Messages |-> cleared[m] /\ m \notin c]
    /\ UNCHANGED <<text, delivered, today>>

Deliver(m) ==
    /\ cleared[m] /\ m \notin blocked
    /\ delivered[m] = 0
    /\ Cardinality(today) < Limit
    /\ delivered' = [delivered EXCEPT ![m] = text[m]]
    /\ today' = today \cup {m}
    /\ UNCHANGED <<text, cleared, blocked>>

Midnight ==
    /\ today' = {}
    /\ UNCHANGED <<text, cleared, blocked, delivered>>

Next ==
    \/ \E m \in Messages : Write(m) \/ Clear(m) \/ Deliver(m)
    \/ Block \/ Midnight

Spec == Init /\ [][Next]_delivery
=============================================================================
