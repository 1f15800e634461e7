----------------------------- MODULE Selection -----------------------------
(***************************************************************************)
(* The loops that choose from a list, as the code runs them: which         *)
(* snapshots go (retention.go), which one is compared with (zfs.go) and    *)
(* which photos get a thumbnail (thumbnail.go).  Retention says the same   *)
(* choices of snapshots without an order of evaluation; the invariants     *)
(* below compare the two on every list, in every order `zfs list` may      *)
(* print it.                                                               *)
(***************************************************************************)
EXTENDS Retention, SequencesExt

CONSTANTS
    Names,      \* the names snapshots may have, own and foreign
    Times,      \* the moments they may have been made
    MaxSnaps,   \* bound: the length of a list
    SampleMax   \* bound: THUMBNAIL_MAX

\* parseSnapshotList takes only whole seconds, and THUMBNAIL_MAX counts photos.
ASSUME SelectionAssumption ==
    /\ Names \subseteq Int
    /\ Times \subseteq Time
    /\ SampleMax \in Nat \ {0}

VARIABLES
    list,       \* the snapshots in the order `zfs list` prints them
    now         \* the start of the run

\* SortNewestFirst: each snapshot comes after those that are newer.
SortNewestFirst(s) ==
    LET sorted[k \in 0 .. Len(s)] ==
            IF k = 0 THEN <<>>
            ELSE LET newer == {i \in DOMAIN sorted[k - 1] : NewerThan(sorted[k - 1][i], s[k])}
                 IN  InsertAt(sorted[k - 1], Cardinality(newer) + 1, s[k])
    IN  sorted[Len(s)]

\* The loops of SnapshotsToDelete that append what passes a test, here a set.
Among(s, passing) ==
    LET kept[k \in 0 .. Len(s)] ==
            IF k = 0 THEN <<>>
            ELSE IF s[k] \in passing THEN Append(kept[k - 1], s[k]) ELSE kept[k - 1]
    IN  kept[Len(s)]

\* Mutant of OldestFirst: the list is cut before it is turned around.
OldestFirstLate(tooOld) ==
    Reverse(IF Len(tooOld) > MaxDeletePerRun THEN SubSeq(tooOld, 1, MaxDeletePerRun) ELSE tooOld)

\* The reversal and the cut at the end of SnapshotsToDelete.
OldestFirst(tooOld) ==
    LET turned == Reverse(tooOld)
    IN  IF Len(turned) > MaxDeletePerRun THEN SubSeq(turned, 1, MaxDeletePerRun) ELSE turned

\* SnapshotsToDelete, statement by statement.
ToDelete(snaps, at) ==
    LET own == SortNewestFirst(Among(snaps, {s \in ToSet(snaps) : s.name \notin ForeignNames}))
        candidates == SubSeq(own, MinimumKept + 1, Len(own))
        tooOld == Among(candidates,
                        {s \in ToSet(candidates) : Before(s.created, DaysAgo(at, KeepDays))})
    IN  IF Len(own) <= MinimumKept THEN <<>> ELSE OldestFirst(tooOld)

\* Mutant of Better: the names decide nothing.
BetterByTime(s, best) == Before(best.created, s.created)

\* The condition in the loop of LatestWithPrefix.
Better(s, best) ==
    \/ Before(best.created, s.created)
    \/ s.created = best.created /\ s.name > best.name

\* LatestWithPrefix: one pass over a list that is not empty.
LatestWithPrefix(snaps) ==
    LET best[k \in 1 .. Len(snaps)] ==
            IF k = 1 \/ Better(snaps[k], best[k - 1]) THEN snaps[k] ELSE best[k - 1]
    IN  best[Len(snaps)]

\* Mutant of SampleIndex: the steps count from 1.
SampleIndexFromOne(i, n, max) == ((i + 1) * n) \div max

\* The element evenSample takes at step i (from 0) of max, from a list of n.
SampleIndex(i, n, max) == (i * n) \div max

EvenSample(s, max) ==
    IF max <= 0 THEN <<>>
    ELSE IF Len(s) <= max THEN s
    ELSE [i \in 1 .. max |-> s[SampleIndex(i - 1, Len(s), max) + 1]]

ListInit == list = <<>> /\ now \in Times

\* One more line of `zfs list`; a name occurs once.
AddLine(s) ==
    /\ Len(list) < MaxSnaps
    /\ \A i \in 1 .. Len(list) : list[i].name # s.name
    /\ list' = Append(list, s)
    /\ UNCHANGED now

ListNext == \E n \in Names, t \in Times : AddLine([name |-> n, created |-> t])

ListSpec == ListInit /\ [][ListNext]_<<list, now>>

\* The lists of the declarative operators.
Listed == ToSet(list)

\* What the loops of SnapshotsToDelete pick is what the guardrails allow, no more
\* and no less, each snapshot once.
SameChoice ==
    LET picked == ToDelete(list, now)
    IN  /\ ToSet(picked) = SnapshotsToDelete(Listed, now)
        /\ IsInjective(picked)

\* The names come oldest first, so that a pruning that breaks off has removed
\* the oldest, and what waits for another day is newer than all that goes today.
OldestGoFirst ==
    LET picked == ToDelete(list, now)
    IN  /\ \A i, j \in 1 .. Len(picked) : i < j => NewerThan(picked[j], picked[i])
        /\ \A s \in TooOld(Listed, now) \ ToSet(picked) :
                \A t \in ToSet(picked) : NewerThan(s, t)

\* The pass over the list finds the newest snapshot, whatever the order.
SameLatest == list # <<>> => IsLatest(LatestWithPrefix(list), Listed)

\* evenSample takes no photo twice, never reads past the list, keeps its order
\* and leaves gaps that differ by at most one photo.
EvenGaps ==
    LET n == Len(list)
        at(i) == SampleIndex(i, n, SampleMax)
    IN  n > SampleMax =>
        /\ \A i \in 0 .. SampleMax - 1 : at(i) \in 0 .. n - 1
        /\ IsInjective(EvenSample(list, SampleMax))
        /\ \A i, j \in 0 .. SampleMax - 2 :
              (at(i + 1) - at(i)) - (at(j + 1) - at(j)) \in -1 .. 1
=============================================================================
