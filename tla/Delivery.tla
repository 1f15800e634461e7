------------------------------ MODULE Delivery ------------------------------
(***************************************************************************)
(* What a message to Home Assistant promises, without attempts, pauses or  *)
(* a network: before the sender hears that it did, it has arrived or was   *)
(* swallowed; a sender that hears of a failure knows nothing, and neither  *)
(* does one that dies.  This is what a run and the OnFailure unit rely on  *)
(* (Send and SendFails in Watch, with its fault "ack" for a failure after  *)
(* the arrival).                                                           *)
(***************************************************************************)
EXTENDS Integers

VARIABLES
    count,      \* how many messages there were: the last one's number
    open,       \* whether the last one still waits for its outcome
    outcome,    \* that outcome: "none", "ok" or "failed"
    arrived,    \* the numbers of the messages Home Assistant accepted
    swallowed   \* those it answered with a 2xx without accepting them

vars == <<count, open, outcome, arrived, swallowed>>

Init ==
    /\ count = 0 /\ open = FALSE /\ outcome = "none"
    /\ arrived = {} /\ swallowed = {}

Ask ==
    /\ ~open
    /\ count' = count + 1 /\ open' = TRUE
    /\ UNCHANGED <<outcome, arrived, swallowed>>

\* At any time after it was asked for, also after its outcome.
Arrive(n) ==
    /\ n \in 1 .. count
    /\ arrived' = arrived \cup {n}
    /\ UNCHANGED <<count, open, outcome, swallowed>>

\* Only while somebody waits for the answer.
Swallow ==
    /\ open /\ outcome = "none"
    /\ swallowed' = swallowed \cup {count}
    /\ UNCHANGED <<count, open, outcome, arrived>>

Succeed ==
    /\ open /\ outcome = "none"
    /\ count \in arrived \cup swallowed
    /\ outcome' = "ok"
    /\ UNCHANGED <<count, open, arrived, swallowed>>

Fail ==
    /\ open /\ outcome = "none"
    /\ outcome' = "failed"
    /\ UNCHANGED <<count, open, arrived, swallowed>>

\* The sender goes on, or dies at any moment.
Close ==
    /\ open
    /\ open' = FALSE /\ outcome' = "none"
    /\ UNCHANGED <<count, arrived, swallowed>>

Next ==
    \/ Ask \/ Swallow \/ Succeed \/ Fail \/ Close
    \/ \E n \in 1 .. count : Arrive(n)

Spec == Init /\ [][Next]_vars
=============================================================================
