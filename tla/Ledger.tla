------------------------------- MODULE Ledger -------------------------------
(***************************************************************************)
(* What the daily run promises about deletions, without snapshots lists,   *)
(* processes and messages: a deletion can be seen as long as the reference *)
(* holds the photo, is in hand once it is counted, and is then told or     *)
(* written off.  The reference moves on only when nothing that can be seen *)
(* in the old one is left behind.  Only what was really deleted and really *)
(* counted is ever told.                                                   *)
(***************************************************************************)
CONSTANT Files

VARIABLES
    live,       \* the photos in the dataset
    gone,       \* the photos deleted from it
    reference,  \* the photos in the snapshot the next comparison uses
    hand,       \* deletions that were counted and are to be told
    told,       \* deletions that were told
    lost        \* deletions written off for a cause that is recorded

vars == <<live, gone, reference, hand, told, lost>>

\* Deletions the next comparison shows.
Visible == gone \cap reference

Init ==
    /\ live \in SUBSET Files
    /\ gone = {} /\ reference = {} /\ hand = {} /\ told = {} /\ lost = {}

Add(f) ==
    /\ f \notin live \cup gone
    /\ live' = live \cup {f}
    /\ UNCHANGED <<gone, reference, hand, told, lost>>

\* A deletion that falls between the count and the next reference is written off.
Delete(f) ==
    /\ f \in live
    /\ live' = live \ {f}
    /\ gone' = gone \cup {f}
    /\ lost' \in {lost, lost \cup {f}}
    /\ UNCHANGED <<reference, hand, told>>

\* A comparison: what it does not count of what can be seen is written off.  It may
\* count a deletion again when it is made with an older snapshot than the reference.
Count ==
    /\ hand = {}
    /\ hand' \in SUBSET gone
    /\ \E l \in SUBSET gone : lost' = lost \cup l
    /\ Visible \subseteq hand' \cup told \cup lost'
    /\ UNCHANGED <<live, gone, reference, told>>

\* Another snapshot becomes the reference, or one that was condemned is kept.
Move ==
    /\ \E r \in SUBSET (live \cup gone) : reference' = r
    /\ \E l \in SUBSET gone : lost' = lost \cup l
    /\ Visible \ reference' \subseteq hand \cup told \cup lost'
    /\ UNCHANGED <<live, gone, hand, told>>

Tell ==
    /\ told' = told \cup hand
    /\ hand' = {}
    /\ UNCHANGED <<live, gone, reference, lost>>

\* The message does not get through, or the run ends before it; the snapshots it had
\* condemned are kept.
Drop ==
    /\ lost' = lost \cup hand
    /\ hand' = {}
    /\ \/ reference' = reference
       \/ reference = {} /\ \E r \in SUBSET (live \cup gone) : reference' = r
    /\ UNCHANGED <<live, gone, told>>

Next ==
    \/ \E f \in Files : Add(f) \/ Delete(f)
    \/ Count \/ Move \/ Tell \/ Drop

Spec == Init /\ [][Next]_vars
=============================================================================
