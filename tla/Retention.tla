----------------------------- MODULE Retention -----------------------------
(***************************************************************************)
(* The three guardrails on deleting snapshots, and the choice of the       *)
(* snapshot a run compares with (internal/watch/retention.go and the two   *)
(* selection helpers of zfs.go).                                           *)
(*                                                                         *)
(* The operators say what the code chooses, not how: Selection translates  *)
(* the loops of the code and is checked to agree with them.                *)
(*                                                                         *)
(* A snapshot is a record with at least the fields name and created.  A    *)
(* name is an integer that orders like the text after '@': the program     *)
(* names a snapshot after the day of its run, so an own name is that day,  *)
(* and the names of other people's snapshots that share the prefix are     *)
(* kept in ForeignNames.  A time is a day and a tick within that day;      *)
(* "KEEP_DAYS ago" is the same tick that many days earlier (a day of       *)
(* 24 hours; the hour a clock change adds or takes is not modelled).       *)
(***************************************************************************)
EXTENDS Integers, FiniteSets

CONSTANTS
    KeepDays,           \* KEEP_DAYS: the age at which an own snapshot may go
    MinimumKept,        \* the newest own snapshots that always stay (3)
    MaxDeletePerRun,    \* how many may go in one run (5)
    ForeignNames        \* names that carry the prefix but not the exact pattern

\* Two snapshots always stay in the code (it keeps three): the one of today and
\* the one it was compared with.
ASSUME RetentionAssumption ==
    /\ KeepDays \in Nat
    /\ MinimumKept \in Nat /\ MinimumKept >= 2
    /\ MaxDeletePerRun \in Nat
    /\ ForeignNames \subseteq Int

Time == [day : Int, tick : Nat]

Before(a, b) ==
    \/ a.day < b.day
    \/ a.day = b.day /\ a.tick < b.tick

DaysAgo(t, n) == [t EXCEPT !.day = @ - n]

\* The order of SortNewestFirst and of LatestWithPrefix: by creation, and at the
\* same second by name.
NewerThan(s, t) ==
    \/ Before(t.created, s.created)
    \/ s.created = t.created /\ s.name > t.name

\* LatestWithPrefix: every snapshot that carries the prefix takes part, also one
\* the program would never delete.
IsLatest(s, snaps) ==
    /\ s \in snaps
    /\ \A t \in snaps \ {s} : NewerThan(s, t)

\* Guardrail 1: only names of the exact pattern <prefix>-YYYY-MM-DD.
Own(snaps) == {s \in snaps : s.name \notin ForeignNames}

Rank(s, snaps) == Cardinality({t \in snaps : NewerThan(t, s)})

\* Mutant of Candidates: one fewer is skipped.
CandidatesOneMore(snaps) == {s \in Own(snaps) : Rank(s, Own(snaps)) >= MinimumKept - 1}

\* Mutant of Candidates: nothing is skipped.
CandidatesAll(snaps) == Own(snaps)

\* Guardrail 2: the newest MinimumKept own snapshots stay, whatever their age.
Candidates(snaps) == {s \in Own(snaps) : Rank(s, Own(snaps)) >= MinimumKept}

\* Mutant of TooOld: a day too early.
TooOldADayEarly(snaps, now) ==
    {s \in Candidates(snaps) : Before(s.created, DaysAgo(now, KeepDays - 1))}

TooOld(snaps, now) ==
    {s \in Candidates(snaps) : Before(s.created, DaysAgo(now, KeepDays))}

\* Guardrail 3: the oldest MaxDeletePerRun of them go, the rest waits a day.
SnapshotsToDelete(snaps, now) ==
    LET old == TooOld(snaps, now)
    IN  {s \in old : Cardinality({t \in old : NewerThan(s, t)}) < MaxDeletePerRun}

\* The order in which they go: oldest first.
IsOldest(s, snaps) ==
    /\ s \in snaps
    /\ \A t \in snaps \ {s} : NewerThan(t, s)
=============================================================================
