# photowatch in TLA+

photowatch runs once a day on a ZFS host: it compares the photo dataset with
yesterday's snapshot, makes today's, prunes old ones, tells Home Assistant how
many photos are gone, and leaves a report, a restore script and thumbnails
behind. This directory holds TLA+ models of that program, the TLC runs that
check them on small instances, and proofs, checked by TLAPS, of what matters
most for every value of the constants. `PROJECT.json` maps every definition to
the lines it models.

1. [The system](#1-the-system) — components, state, operations, interactions
2. [The modules](#2-the-modules) — how state and actions correspond to the code
3. [The runs](#3-the-runs) — what each checks, its bounds, fairness
4. [The proofs](#4-the-proofs) — theorems, inductive invariants, assumptions
5. [What the models found](#5-what-the-models-found)
6. [What is not modelled](#6-what-is-not-modelled)
7. [What could come next](#7-what-could-come-next)

## 1. The system

| Component | State | Operations | Speaks with |
|---|---|---|---|
| Daily run (`run.go`, `zfs.go`) | none of its own; local list, payload and aftercare plan | list snapshots, diff, snapshot, prune, send, write state, aftercare | ZFS by commands with timeouts; notifier; state file; artifacts |
| Snapshot retention (`retention.go`) | the snapshots of the dataset | choose what may go: own names, the newest 3 stay, older than KEEP_DAYS, at most 5 per run | called by the run |
| OnFailure reporter (`run.go` 971-1044, `systemd/`) | `status.json`, the invocation id systemd hands it | stay silent when the failed run reported itself, else send | started by systemd for every failed unit |
| Notifier (`notify.go`) | none | POST with three attempts | Home Assistant |
| State file (`report.go` 511-600) | `status.json`, with the side issues of the last aftercare | two writes per run, read at the next start | run, OnFailure reporter, `-status` |
| Slots, report, restore script (`report.go`, `restore.go`) | files in REPORT_DIR | choose a free slot of the day, write list and script before the message, the report after it | the message names the paths |
| Thumbnails (`thumbnail.go`) | day directories on a share | even sample, make directory, scale, remove an empty directory | people look into the directory |
| Artifact cleanup (`cleanup.go`) | the same directories | remove what is old, never the newest few, at most 20 per run, never what a person put there | runs after the message, on every run |
| Home Assistant (`homeassistant/*.yaml`) | heartbeat sensor, last payload | alert; "task is silent" at noon | the webhook |
| Parsing (`zfs.go`, `zfspath.go`), configuration (`config.go`) | none | text to values | the run |

**What is hard.** The program takes no lock and nothing stands still while it
works: photos are deleted between the diff and the snapshot, an administrator
destroys snapshots, people work in the day directories that are being cleaned.
It may be killed at any step (MemoryMax, TimeoutStartSec, power), every command,
request and write may fail, also *after* it took effect (a timed-out
`zfs snapshot`, a lost HTTP answer), or succeed in part: a line of `zfs list` or
`zfs diff` that is not understood is passed over, and Home Assistant answers 200
to a request it does not take. What was already told is judged by another
process from a file that may be stale. The order matters everywhere: snapshot
before message, list before script, message before the risky work. And two
things are only true over many days: what retention keeps, and whether silence
is noticed.

**What makes each component correct.**

- *Run*: a deletion the reference could show is told, or lost for one of five
  causes (`Accounted`, `DeletionReported`), which is what an abstract ledger
  promises (`KeepsTheBooks`); "first run" is said at most once
  (`FirstRunOnlyOnce`).
- *Retention*: never the snapshot the message points at (`PreviousKept`), never
  before the promised date (`PromiseKept`), never below the minimum
  (`HistoryKept`); the same choice for any order of `zfs list` (`SameChoice`).
- *OnFailure reporter*: silent only about an invocation that spoke for itself
  (`NoSilentFailure`, `FailureHeard`).
- *Notifier*: a nil result means that Home Assistant took this very message, or
  answered it with a 2xx without taking it (`Delivers`); but for that second case
  an alarm that counts as reported rang (`ReportedAlarmRang`), and none rings
  twice (`RingsOnce`); `Send` ends (`SendEnds`).
- *Artifacts*: nothing is overwritten (`OneRunPerSlot`); what a message names is
  there while its snapshot is promised (`PromiseHolds`); what a person put
  somewhere stays (`HumanThingsStay`).
- *Thumbnails*: a number in the copy of the report means that photo and no other
  at every moment, one in the report itself once the round has written it
  (`NoWrongPhoto`), what is there at the end is one round's and complete
  (`ReportFitsImages`), nothing hollow stays behind
  (`NoHollowDirectory`), and a directory the message named is explained when it
  is not there (`PromiseExplained`).
- *Parsing*: every line of `zfs diff` is in exactly one counter or fails the run
  (`EveryLineCounts`), in any order (`OrderDoesNotMatter`); the escape format is
  exact both ways (`RoundTripIsExact`); what counts lies within PATH_PREFIX
  (`CountsWhatIsWithin`).
- *State file*: a side issue met after a message reaches a later one
  (`NoIssueIsLost`), and only one (`ToldOnce`).
- *Dead man's switch*: no false alarm, and silence is noticed (`AlarmsAreReal`,
  `SilenceIsNoticed`).

The hazards, line by line, are listed in `PROJECT.json`.

## 2. The modules

```
Retention ── Watch ── WatchProofs ── WatchRefinementProofs
   │          │└───── MCWatch
   │        Ledger        (Watch implements it)
   ├──────── Artifacts ── ArtifactsProofs
   │            └──────── MCArtifacts
   └──────── Selection ┐
               Paths ──┴─ MCData, DataProofs
Notifier ── NotifierProofs
   │└────── MCNotifier
Delivery                  (Notifier implements it)
Aftercare ── AftercareProofs, MCAftercare
DeadMan ── DeadManProofs, MCDeadMan
Thumbnails ── ThumbnailsProofs, MCThumbnails
```

**Retention** says *what* retention.go and `LatestWithPrefix` choose: `Own`,
`Candidates` (beyond the newest `MinimumKept`), `TooOld`, `SnapshotsToDelete`,
`IsLatest`. It has no variables and no recursion, so the models and the proofs
share it. A name is an integer that orders as the text does; a time is a day and
a tick in it.

**Selection** is *how* the code chooses: the loops of `SnapshotsToDelete`,
`SortNewestFirst`, `LatestWithPrefix` and `evenSample`, on a list that grows one
line at a time in any order (`AddLine`). It is checked and proved to agree with
Retention, so that what Watch and its proofs say about the set is what the loops
pick. `sort.SliceStable` is modelled as an insertion sort: any sort that follows the
comparison gives the same list, because no two snapshots are equal in it.

**Paths** is the way from the lines of `zfs diff` to the count: the octal escapes
(`EncodeZfsPath`, decoding), what cannot be decoded, PATH_PREFIX, the counters of
`parseDiff` and the verdict that an output is unusable. The loops are recursive
functions over the turns; the arms of `parseDiff` are tried in the order of the
code.

**Watch** is the run and the OnFailure unit.

| State | In the program |
|---|---|
| `snaps`, `live`, `gone` | the dataset and its snapshots |
| `run` (`pc`, `listed`, `prev`, `counted`, `err`, `todo`, `acked`, ...) | the local variables of `Run`/`run`, and where it is |
| `status` | `status.json`: invocation, reported, error |
| `due`, `reporter` | OnFailure starts that systemd queued; the one that decided to speak |
| `ha` | the messages Home Assistant answered with a 2xx |
| `owed`, `told`, `window`, `dropped`, `uncounted`, `overlooked`, `forgotten`, `failures`, `mute` | history, never read by an action's guard |

One action per step of the code between two points at which something else can
happen: `List`, `Diff` (or `DiffFails`), `MakeSnapshot`
(`SnapshotExists`, `SnapshotFails`, which may have made it all the same),
`Destroy` once per snapshot, `Send`/`SendFails` (which may have delivered),
`WriteState`, `AfterWrite`, `Exit`; `FailureSpeaks`, `FailureStaysSilent`,
`FailureSend`. Around them `Tick`, `AddFile`, `DeleteFile`, `PersonDestroys`,
`Kill`, `PowerCut`, `TimerStart`, `TimerMerged`, `ManualStart`. `UnitFails` is
what systemd does with a failed unit: it queues the one instance of the
OnFailure unit, or merges the start with one that is queued or still works (a
merged failure lands in `mute`). The constant `Faults` chooses which failures may
happen, so that a run can look at some of them on a larger instance; the proofs
hold for every `Faults`.

Neither list nor diff is all or nothing. `List` may miss any of the snapshots, as
a line of `zfs list` that is not understood is passed over, the reference's too:
the run then compares with an older one, or with none. `Counts` takes any part of
what `zfs diff` shows: the rest is on lines that are not understood ("parse"), is
filtered out though it should not be ("filter", the finding of section 5), or is
everything, when PATH_PREFIX cannot match ("prefix"). Only an output of which
nothing at all was understood is an error (`diffUnusable`). So there are five
ways to lose a deletion, each with a history variable, and they differ in who
hears of them:

| | Lost because | What the user hears |
|---|---|---|
| `window` | deleted between the comparison and the snapshot | nothing |
| `dropped` | counted by a run whose message did not get through | that a run failed, unless that was cut off as well |
| `uncounted` | shown by `zfs diff` and not counted | the numbers `unparsed` or `skipped` in the payload; an error if nothing was understood or PATH_PREFIX is wrong |
| `overlooked` | known only to a snapshot the run did not list | a WARN in the journal; an error if no reference was left |
| `forgotten` | known to a snapshot a person destroyed | an error if no reference was left, or it went while the run compared |

**Ledger** is the abstract specification of that run: a deletion is visible as
long as the reference holds the photo, is in hand once counted, then told or
written off for one of these causes; the reference moves only when nothing visible
in the old one is left behind. `KeepsTheBooks` is Watch's refinement: the
reference is the newest snapshot's files, the hand is `InFlight`, the losses are
the union of the recorded causes.

**Notifier** is `Send`: `Attempt`, `Success`, `Refused`, `Unanswered`, `GiveUp`,
`Retry`, `PauseAborted`, with the requests on their way (`wire`), the answer that
returns (`answer`), and what Home Assistant does with a request: `Accept` sets
the sensor and rings the phones when the sensor *changed*, the payload is an
alarm and not older than `FreshFor`; `Reject` answers 4xx or 5xx; `Swallow`
answers 2xx and does nothing, as Home Assistant does for a webhook id it does not
know and for a request it does not take for a local one. The program cannot tell
that answer from the one of `Accept`; the history `swallowed` does. A request or answer may be lost, a proxy may
answer 5xx for a Home Assistant that took the request, a request may arrive after
it was given up, the context may be cancelled at any moment. Time is the age of
the payload, which timeouts and pauses add to.

**Delivery** is what `Send` promises, in six actions. `Delivers` is Notifier's
refinement, and Watch uses its outcomes: answered with a 2xx, failed, and failed
after the message arrived. Watch does not tell a swallowed message from one that
was taken, and neither does the program: `ha` and `told` mean a 2xx. The two are not composed into one state space:
Watch would multiply by the states of the network without learning anything that
Delivery does not say.

**Artifacts** is what the run leaves on disk: `disk` maps a name (kind, day,
number) to the run that wrote it and the things in it. `ChooseSlot`, `WriteList`,
`WriteScript`, `Prune`, `Send`, `MakeDayDir`, `ScaleImages`, `WriteReport`, then
the cleanup per kind: `ReadKind`, `RemoveFile`, `ReadDayDir`, `EmptyDayDir` (one
file at a time), `RemoveDayDir`, `NextKind`, each with its failures and with
`Kill` and `PersonPuts` between any two. `NewerItem` keeps a detail of the code:
files and directories of one date are ordered by their path, and the first set of
a day (which has no number) sorts as the newest among files and the oldest among
directories.

**Thumbnails** looks into one slot: the plan, the removal of what an earlier
round left (a dry run reuses its slot), one photo at a time with its failures, the
quota, the time limit, and at the end the report in REPORT_DIR (`report`) and its
copy beside the images (`copy`), each of which may fail to be written. The images
and the copy are removed before a new round makes its first image; the report is
not, it is replaced when the round writes its own.

**Aftercare** is the chain of side issues: what the aftercare of one run met waits
in `status.json` (`status`) for the message of the next (`run.earlier`).
`StateAfterRun` is the decision of `stateAfterRun`: a run whose payload was built
drops the issue, one that stranded reads the file again and hands it on. The two
writes of the file are steps of their own, each may fail, and the run may be
killed between any two.

**DeadMan** is the heartbeat sensor and the automation, in minutes.

A few modelling decisions that a reader should know:

- A snapshot's name is the day of the run; `WatchAssumption` and
  `ArtifactsAssumption` exclude foreign snapshots with the program's prefix.
  Selection includes them.
- KEEP_DAYS is "the same moment so many days earlier"; days have 24 hours.
- The constants 3, 5, 14, 20, 99 and 2 of the code are parameters. The proofs
  need `MinimumKept >= 2`; the code has 3.
- In Artifacts a run that could not compare is left out: it has no aftercare.
- A tick is longer than a run: `Tick` waits for the run to end, or to be in its
  first tick in Watch. TimeoutStartSec (30 minutes) against a day justifies it.
- The rename of `status.json` is one step. Its directory is not synced, so a power
  cut can bring back the file before it: the same states as a write that failed
  (`WriteStateFails`) before the `PowerCut`.

## 3. The runs

| Run | Instance | Shows |
|---|---|---|
| `accounting` | one photo, two days, all sixteen faults together | `Accounted`, `NoSilentFailure`, `FirstRunOnlyOnce`, `TypeOK`, the refinement `KeepsTheBooks`; `FailureHeard` and `DeletionReported` under fairness |
| `retention` | KEEP_DAYS 3, six days of two ticks, one destroy per run, failing destroys, a start by hand | `PreviousKept`, `PromiseKept`, `HistoryKept` |
| `data` | every list of up to five of the names 1-4 and a foreign one, made at four moments, in every order; samples up to 3; every text of up to five bytes of two alphabets; every output of up to three lines | `SameChoice`, `OldestGoFirst`, `SameLatest`, `EvenGaps`, `RoundTripIsExact`, `EveryLineCounts`, `OrderDoesNotMatter`, `CountsWhatIsWithin` |
| `notifier` | two calls, three attempts each, the times of the code, two overdue requests, every fault | the refinement `Delivers`, `ReportedAlarmRang`, `RingsOnce`, `TypeOK`; `SendEnds` under fairness |
| `artifacts` | three runs over five days, up to two a day, KEEP_DAYS 2, every fault, kills and a person on the share | `PromiseHolds`, `OneRunPerSlot`, `HumanThingsStay`, `TypeOK` |
| `thumbnails` | three rounds, three photos, a sample of two, every fault | `NoWrongPhoto`, `ReportFitsImages`, `NoHollowDirectory`, `PromiseExplained`, `TypeOK` |
| `aftercare` | five runs, every failure | `NoIssueIsLost`, `ToldOnce` |
| `deadman` | three days, messages just before 06:00, at 08:15 and 08:50, just before noon and in the evening, or none | `AlarmsAreReal`, `SilenceIsNoticed` |
| `window`, `through`, `missed`, `filtering` | small instances | the four findings of section 5 |

**Why the bounds are enough.** In `retention` the cap of one destroy per run
makes a backlog after two missed days; KEEP_DAYS 3 with six days leaves three
days on which something may go, and two ticks a day make "too old by a tick" and
"promised for the day" different. In `accounting` a deletion lives through at
most one comparison: the reference before it, the comparison and the snapshot
after it fit in two days. That a run compares with an older snapshot, because the
newest was not listed or was destroyed, takes a third: that part of `Accounted`
and `KeepsTheBooks` rests on the proofs, which hold for any number of days. In
`notifier` a request of the first call can arrive during, between and after the
attempts of the second; two overdue ones can arrive in either order. In
`artifacts` three runs over five days hold a killed first run, a second run of the
same day, and a later one whose cleanup takes what is beyond the minimum of one;
here too the proofs cover the rest. In `deadman` two noons after a message and a
third day cover every silence the limit of 30 hours can tell apart; 06:00 is 30
hours before a noon. In `aftercare` an issue lives through three runs at most
(met, carried by one that strands, told), and a kill between the writes of one
more run tells it again: four would do. In `data` five snapshots are three kept,
one chosen and one deferred, and an escape is five bytes long.

**Fairness.** `FairSpec` of Watch is weakly fair for the program's own steps (a
process that runs takes its next step; every command and request has a timeout),
for the OnFailure unit (systemd starts what is queued), for time, and for the
timer (`Persistent=true`). Nothing is assumed of people, of faults, or of starts
by hand. Under it `FailureHeard` says that a failed unit leads to a message, that
no message could be sent, or that systemd merged it; `DeletionReported` says that
a deletion is told, or lost for one of the five causes, while one more morning is
left in the bound, unless a run fails in the sight of systemd. `FairSpec` of
Notifier is weakly fair for the call's own steps only; nothing is asked of the
network.

Deadlock is not checked: every model stops at its last day, call, run or round.

Each property is paired in `PROJECT.json` with a mutant: a definition with a
plausible bug (a dropped condition, an off-by-one, a set not asked for) that the
same run then refutes.

## 4. The proofs

| Theorem | Module | States |
|---|---|---|
| `TypesHold` | WatchProofs | `Spec => []TypeOK` |
| `NoFailureIsSilent` | WatchProofs | `Spec => []NoSilentFailure` |
| `FirstRunIsFirst` | WatchProofs | `Spec => []FirstRunOnlyOnce` |
| `PreviousIsKept` | WatchProofs | `Spec => PreviousKept` |
| `PromiseIsKept` | WatchProofs | `Spec => PromiseKept` |
| `HistoryIsKept` | WatchProofs | `"human" \notin Faults` implies `Spec => HistoryKept` |
| `DeletionsAreAccounted` | WatchRefinementProofs | `Spec => []Accounted` |
| `BooksRefine` | WatchRefinementProofs | `Spec => KeepsTheBooks`: Watch implements Ledger |
| `NotifierTypes` | NotifierProofs | `Spec => []TypeOK` |
| `SendDelivers` | NotifierProofs | `Spec => Delivers`: Notifier implements Delivery |
| `OneRing` | NotifierProofs | `Spec => []RingsOnce` |
| `AlarmRang` | NotifierProofs | `Punctual(longest)` implies `Spec => []ReportedAlarmRang` |
| `ArtifactTypes` | ArtifactsProofs | `Spec => []TypeOK` |
| `SlotsAreOwned` | ArtifactsProofs | `Spec => OneRunPerSlot` |
| `PeoplesFilesStay` | ArtifactsProofs | `Spec => []HumanThingsStay` |
| `PromiseIsGood` | ArtifactsProofs | `ArtifactDayMargin >= 1` implies `Spec => []PromiseHolds` |
| `ThumbnailTypes` | ThumbnailsProofs | `Spec => []TypeOK` |
| `NumbersPointRight` | ThumbnailsProofs | `Spec => []NoWrongPhoto` |
| `ReportMatches` | ThumbnailsProofs | `Spec => []ReportFitsImages` |
| `NothingHollow` | ThumbnailsProofs | `Spec => []NoHollowDirectory` |
| `PromiseIsExplained` | ThumbnailsProofs | `Spec => []PromiseExplained` |
| `ChoiceIsExact` | DataProofs | `ListSpec => []SameChoice` |
| `OldestAreFirst` | DataProofs | `ListSpec => []OldestGoFirst` |
| `LatestIsTheNewest` | DataProofs | `ListSpec => []SameLatest` |
| `SampleGapsAreEven` | DataProofs | `ListSpec => []EvenGaps` |
| `RoundTripsAreExact` | DataProofs | `PathsSpec => []RoundTripIsExact` |
| `LinesAreCounted` | DataProofs | `PathsSpec => []EveryLineCounts` |
| `LineOrderIsIrrelevant` | DataProofs | `PathsSpec => []OrderDoesNotMatter` |
| `DeletionsWithinCount` | DataProofs | `PathsSpec => []CountsWhatIsWithin` |
| `IssuesAreNotLost` | AftercareProofs | `Spec => []NoIssueIsLost` |
| `IssuesAreToldOnce` | AftercareProofs | `Spec => []ToldOnce` |
| `NoFalseAlarm` | DeadManProofs | `Noon =< Limit` implies `Spec => []AlarmsAreReal` |
| `NoSilenceMissed` | DeadManProofs | `Limit =< 2 * Day` implies `Spec => []SilenceIsNoticed` |

Every invariant and every action property that a passing run checks is proved;
only liveness is not. Every theorem assumes only the named assumptions on the
constants of its module (`RetentionAssumption`, `WatchAssumption`, ...) and what
the table says. `HistoryIsKept` needs that nobody destroys snapshots by hand: a
person who does so between the list and the pruning makes the program leave fewer,
because it decides on its list. The configuration meets those conditions with room to spare: a payload that is 25
minutes old when it is sent (the longest a run takes) is 26 minutes old after
three timeouts and two pauses, below the 30 of the automation; the margin is two
days; the limit is 1800 minutes between 720 and 2880.

The invariants that carry the theorems, each inductive together with the ones
above it in its module:

**Watch.**

1. `TypeOK`.
2. `FailureInv` = `NoSilentFailure`, `ReportedWasHeard` (what `status.json` calls
   reported was accepted by Home Assistant: the reason why `sameRun` may stay
   silent) and `AckedWasHeard` (so is what the run in progress is about to call
   reported). "Accepted" is the 2xx that the code means by it. `NoSilentFailure` alone is not inductive: nothing in it says that
   the state file is truthful.
3. `LossIsNoted`: the verdict "no reference although there was a run" is made when
   the list is read and reaches the message.
4. `PruneInv` = `ComparedIsLatest` (the run compared with the newest of its
   list), `PreviousIsSpared` (and did not choose it to go), `TodoIsOld` (what it
   chose is beyond KEEP_DAYS) and `StartIsPast`. The lemma `LatestIsSpared` is
   the arithmetic of guardrail 2: today's snapshot and the one compared with have
   at most one snapshot above them, and `MinimumKept >= 2` stay. `PreviousKept`
   and `PromiseKept` are action properties and follow from it. `HistoryInv` is the
   same for the minimum: while nobody interferes, the list of the run holds nothing
   that is not there until it makes its snapshot, and then at least `MinimumKept` of
   what there is were not chosen. The lemma `EnoughIsSpared` takes the chosen snapshot of the
   least rank: everything above it stays.
5. `AccountInv` = `Accounted` and `CountedBefore` (what is owed when a run is about
   to make the new snapshot is counted or written off). Without
   `CountedBefore` the step that replaces the reference could lose everything the
   old one knew; without `PruneInv` the pruning could destroy the reference.
6. `BooksInv` follows each deletion through *all* snapshots, not only the
   reference, because a person may destroy the reference between the comparison
   and the new snapshot, and an older one takes its place. A photo exists in one
   stretch of time (`NewerHoldsLive`), new snapshots are the newest
   (`SnapsArePast`), so what is not yet settled in one snapshot is in every newer
   one as well (`HiddenByNone`); when the new one is made, everything the old ones
   show is settled or in hand (`AllKnown`): what the compared snapshot shows is
   counted or `uncounted`, what an older one on the list shows is in the compared
   one too or was told, and what only unlisted ones show is `overlooked`.

**Notifier.** `AnswerIsTrue`: a 2xx on its way belongs to the call in progress,
whose payload was accepted or swallowed. For the phones, `BodiesInv` (every request of a call
carries the payload of that call, told apart by its time) and `RungOnceInv` (while
the call runs and nothing came late, a payload that rang is what the sensor
shows). `AgeInv` bounds the age of the payload by attempts, timeouts and pauses;
with it `AlarmInv` says that an accepted alarm of a running call has rung. An
alarm that returned nil and was not accepted was swallowed, by `AnswerIsTrue`.

**Artifacts.** `DiskInv` with `OwnSlot`: everything in the slot of the run in
progress is its own, because the four names were free when it chose; and
`DirInv`: the day directory it is going to make is a new one. `PlacedInv` is
`HumanThingsStay` with the kind. `PromiseInv` = `ClockInv`, `OldTodo` (what the
cleanup chose is beyond KEEP_DAYS and the margin), `ScriptInv` (what the message
will name is on disk), `RefInv` and `ToldInv`: an artifact has the date of its
run, which is not before that of the snapshot it restores from, so a promised
script is never old (`OldIsNotPromised`).

**Thumbnails.** `Inv` = `TypeOK`, `NumbersInv` (the numbers given out are 1 to
`round.number`, each to one photo that is done), `PlaceInv` (where the round is and
what it has made of the directory: while it works in a clean directory, the images
are exactly those of its own numbers; and until it ends, the report in REPORT_DIR
is an earlier round's), `StandingInv` (what `ReportFitsImages` and
`NoHollowDirectory` say, but for every moment up to the next emptying),
`NoWrongPhoto` and `ExplainedInv`. `ReportFitsImages` alone is not inductive: it
speaks of the end of a round only, and a round that is killed leaves things behind
that the next one must be known to remove.

**Selection and Paths.** The invariants of the two specifications are small
(`ListInv`: a list of snapshots with different names; `PathsInv`: bytes and lines);
the work is in what the loops compute. A loop is a recursive function, which TLA+
defines as a CHOOSE among the functions that satisfy its equation, so the first
thing to prove of each is that there is one: `LoopExists` does it once, for any
course of steps. Induction on the turns is `NatInductionOnSets`, on the set of
the turns up to which a claim holds; the library states induction for an operator,
which the installed provers cannot instantiate, but for a set it follows from the
well-foundedness of the numbers. On these stand the facts about the helpers:
`AmongKeeps` (a filter keeps the order), `SortNewestFirstSorts`, `PlaceIsRank` (in
a list newest first the place is the rank, which is how "skip the first three" and
`Rank >= MinimumKept` are the same), `LatestIsFound`, `SampleIsEven`, `NameIsReadBack`
(decoding what was encoded, with the invariant that after k bytes the decoder
stands where the encoder did), `ParseDiffCounts` (each turn adds one to one
number), `InsertionsCommute` (two files are sorted the same in either order, because
`Earlier` is a total order on what was printed). Two assumptions are about zfs and
not about the program: a line has a mark, a kind and a path (`PathsAssumption`), and
a path that can be decoded is printed as `EncodeZfsPath` would (`FormatAssumption`,
needed by `DeletionsWithinCount` only: zfs uses one function for every path).

**Aftercare.** `LostInv` = `TypeOK`, `NoIssueIsLost` and `EarlierIsHeld`: at each
step of the run, whether the issue in `status.json` was taken along, is done, or
will be handed on. Without it the first write could drop an issue that nobody
carries. `TellInv` = `LostInv`, `ToldOnce`, `TellIsFresh` (what a run may tell was
not told, or is known to be stuck) and `RaisedInOrder` (a run's own issue is new).

**DeadMan.** `SensorInv`: the sensor shows the latest of the messages, and none
comes at noon sharp; `LookInv`: no noon to come was looked at, so that a later
message changes nothing in a verdict.

The proofs have one step per action of `Next`, grouped in lemmas.

**Only model-checked.** Liveness under fairness (`FailureHeard`,
`DeletionReported`, `SendEnds`) is out of the prover's reach.

## 5. What the models found

- **A blind window** (`window`). A photo deleted after the diff and before the
  snapshot of the same run is in neither comparison. Watch names these losses
  (`window`); `Accounted` lists them beside the four other causes.
- **The last promised day** (`through`). Messages and reports say "through" a
  date; retention counts hours, and on that date a run later in the day than the
  snapshot was made destroys it. `PromiseKept` shows that it never happens on an
  earlier date.
- **One missed morning is never noticed** (`missed`). The comment says the 30
  hours catch one missed day, but the sensor is looked at once a day: 27:40 hours
  old at the first noon, fresh at the second. Two silent days are noticed.
- **A name that cannot be decoded escapes the filter** (`filtering`). Such a path
  stays in its raw form, and the raw form is compared with PATH_PREFIX, which has
  no escapes: with a space in the prefix, a deleted file whose name holds a
  control character is not counted.

Seen while modelling, not in a run:

- A list whose script could not be written stays behind and counts among the
  newest lists, so that a script that is kept for the minimum may later lose its
  list (`cleanup.go:154` calls such a script broken); `PromiseHolds` shows that
  this cannot hit a script whose snapshot is still promised. The margin of two
  days "so that an artifact never disappears before its snapshot"
  (`cleanup.go:40`) does not cover a backlog of destroys.
- The OnFailure unit has one instance. A unit that fails while an earlier
  failure is still being reported is merged with it: the later failure is not
  reported by itself (`UnitFails`, `mute`).
- A 2xx is not acceptance: Home Assistant answers 200 for a webhook id it does not
  know and for a request that does not look local, and the code says so
  (`notify.go:224`, `run.go:978`, `report.go:517`). Such an alarm is "reported", the
  OnFailure unit stays silent about it, and only the dead man's switch notices
  (`Swallow`, `swallowed`).
- Deletions on lines that are not understood are lost without an error when any
  other line was understood (`run.go:811` wants it so), and what only an unlisted
  snapshot showed is lost with a WARN (`run.go:319`): `uncounted`, `overlooked`.
- `thumbnail.go:202` says that a second run on a day may not leave a number behind
  "that points at a different photo than the report says". That is done for the
  copy beside the images. The report in REPORT_DIR of an earlier *dry run* is
  replaced at the end only (`report.go:364`): a second dry run that is killed after
  its first image leaves number 001 of the old report on another photo. So
  `NoWrongPhoto` claims of the report only what holds from the moment it is written.
  A real run has a slot of its own.
- `run.go:796` explains an unusable diff by "not one could be parsed"; the code
  also calls it unusable when the other lines parse but lie outside PATH_PREFIX.
- The report of a dry run says that "the next dry run replaces" its neighbours
  (`report.go`): a next one that chooses no photos leaves the old thumbnails.

## 6. What is not modelled

- Text: the layout of reports, messages and the generated shell script, and the
  masking of the webhook. No property is about it.
- String checks: configuration values, name patterns, target directories.
- Decoding and scaling of images.
- The dry run of the whole program: it writes into directories of its own and
  changes nothing else. Its thumbnails, which reuse a directory, are in
  Thumbnails.
- Two runs at once (there is no lock: a start by hand outside the unit can run
  beside the timer's), a clock that jumps back, foreign snapshots with the prefix
  made between two runs, renames of scripts lost in a power cut. The code neither
  prevents nor handles them, so a model would only repeat that; each is a hazard
  in `PROJECT.json`.
- What a round of thumbnails that was killed leaves unexplained: `PromiseExplained`
  speaks of rounds that ran to their end. An `os.Remove` of an empty directory that
  fails for a reason of its own (`cleanup.go:466`): `NoneMade` takes it to succeed.
- The size of the artifacts, which travels in `status.json` the way side issues
  do, and `-status`, which prints the file.
- The automations for side issues and size: each formats or compares one field.
- `main.go` passes on an exit code; the build has no behaviour of its own.

## 7. What could come next

A power cut in Artifacts that takes renames back would show which promises need a
sync of the directory. Two runs at once in Artifacts would show the race for a
slot. Of the proofs, the step from `[]OrderDoesNotMatter`, which exchanges
neighbours, to any two orders of the same lines.
