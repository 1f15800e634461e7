------------------------------- MODULE Watch -------------------------------
(***************************************************************************)
(* The daily run: compare the photo dataset with the previous snapshot,    *)
(* make today's, prune the old ones, tell Home Assistant, write            *)
(* status.json; and the OnFailure unit that speaks when a run could not    *)
(* (internal/watch/run.go, zfs.go, retention.go; systemd/*.service).       *)
(*                                                                         *)
(* Around the program: people and programs add and delete photos at any    *)
(* moment, a person may destroy a snapshot, time passes, every command,    *)
(* request and write may fail, the process may be killed at any step and   *)
(* the host may lose power.                                                *)
(*                                                                         *)
(* One run at a time (the unit is a oneshot and the program takes no       *)
(* lock); the OnFailure unit runs beside the next run.                     *)
(***************************************************************************)
EXTENDS Retention

CONSTANTS
    Files,              \* the photos that may ever exist
    TicksPerDay,        \* moments of a day the model tells apart
    MaxDay,             \* bound: the last day
    MaxManual,          \* bound: starts by hand
    Faults              \* which failures may happen, a subset of AllFaults

\* Most are named after the step that fails.  The output of the two commands may be
\* understood in part only: "list" and "parse" are lines of `zfs list` and of
\* `zfs diff` the program cannot read, "prefix" a PATH_PREFIX that cannot match,
\* "filter" a deletion that PATH_PREFIX should let through and does not.
AllFaults == {"config", "early", "read", "list", "prefix", "diff", "parse", "filter",
              "snapshot", "destroy", "send", "ack", "state", "kill", "power", "human"}

ASSUME WatchAssumption ==
    /\ TicksPerDay \in Nat /\ TicksPerDay >= 1
    /\ MaxDay \in Nat
    /\ MaxManual \in Nat
    /\ ForeignNames = {}
    /\ Faults \subseteq AllFaults

VARIABLES
    clock,      \* the host's clock
    timer,      \* the day on which photowatch.timer last fired
    manual,     \* how many starts by hand there were (bounded by MaxManual)
    starts,     \* how many unit starts there were: the last invocation id
    live,       \* the photos in the dataset
    gone,       \* the photos deleted from it
    snaps,      \* the snapshots of the dataset
    status,     \* status.json
    run,        \* the local state of the run in progress
    due,        \* the invocation whose OnFailure start is queued, a set of one or none
    reporter,   \* the invocation the OnFailure unit is about to report, or 0
    ha          \* the messages Home Assistant answered with a 2xx

\* Nothing below is read by the program: these variables record what happened,
\* for the properties.
VARIABLES
    owed,       \* deletions the reference of the moment could have shown
    told,       \* deletions counted in a message of ha
    window,     \* deletions between a comparison and the snapshot after it
    dropped,    \* deletions counted by a run whose message did not get through
    uncounted,  \* deletions zfs diff showed and the run did not count
    overlooked, \* deletions only a snapshot still showed that the run did not list
    forgotten,  \* deletions only a snapshot destroyed by a person still knew
    failures,   \* invocations of photowatch.service that ended in failure
    mute        \* failures no message is about: Send failed, no power, or merged

world == <<clock, timer, manual, starts, live, gone>>
program == <<snaps, status, run, ha>>
history == <<owed, told, window, dropped, uncounted, overlooked, forgotten, failures, mute>>
vars == <<clock, timer, manual, starts, live, gone, snaps, status, run, due,
          reporter, ha, owed, told, window, dropped, uncounted, overlooked,
          forgotten, failures, mute>>

\* The invocation of a run started in a shell: systemd gave it no id.
NoInv == 0

\* The clock starts at day 1.
Moment == [day : Nat \ {0}, tick : Nat]

Snapshot == [name : Nat \ {0}, created : Moment, files : SUBSET Files]
NoSnap == [name |-> 0, created |-> [day |-> 0, tick |-> 0], files |-> {}]

\* compared: the run behind the message had a previous snapshot.
Message == [inv : Nat, by : {"run", "onfailure"}, error : BOOLEAN, compared : BOOLEAN]
StateFile == [exists : BOOLEAN, inv : Nat, reported : BOOLEAN, error : BOOLEAN]

\* pc is the next thing the run will do.  listed is its list of snapshots,
\* counted the deletions in its payload, problem a failure that does not stop
\* it, built whether the payload and the aftercare were prepared.
Run == [pc : {"idle", "list", "diff", "snapshot", "prune", "send", "state",
              "aftercare", "exit"},
        inv : Nat, start : Moment, prev : Snapshot \cup {NoSnap},
        listed : SUBSET Snapshot, counted : SUBSET Files, problem : BOOLEAN,
        err : BOOLEAN, built : BOOLEAN, todo : SUBSET Snapshot, acked : BOOLEAN]

Idle == [pc |-> "idle", inv |-> NoInv, start |-> [day |-> 1, tick |-> 0],
         prev |-> NoSnap, listed |-> {}, counted |-> {}, problem |-> FALSE,
         err |-> FALSE, built |-> FALSE, todo |-> {}, acked |-> FALSE]

Init ==
    /\ clock = [day |-> 1, tick |-> 0]
    /\ timer = 0 /\ manual = 0 /\ starts = 0
    /\ live \in SUBSET Files
    /\ gone = {} /\ snaps = {}
    /\ status = [exists |-> FALSE, inv |-> NoInv, reported |-> FALSE, error |-> FALSE]
    /\ run = Idle
    /\ due = {} /\ reporter = NoInv /\ ha = {}
    /\ owed = {} /\ told = {} /\ window = {} /\ dropped = {} /\ uncounted = {}
    /\ overlooked = {} /\ forgotten = {} /\ failures = {} /\ mute = {}

(***************************************************************************)
(* What the properties speak about.                                        *)
(***************************************************************************)

\* The snapshot the next comparison will use; not one that the run in progress
\* has already condemned.
IsReference(s) == IsLatest(s, snaps) /\ s \notin run.todo

\* Deletions the next comparison will show.
Waiting == {f \in gone : \E s \in snaps : IsReference(s) /\ f \in s.files}

\* Deletions the run in progress has counted and will still send.
InFlight == IF run.pc \in {"snapshot", "prune", "send"} THEN run.counted ELSE {}

Settled == told \cup window \cup dropped \cup uncounted \cup overlooked \cup forgotten

(***************************************************************************)
(* The world around the program.                                           *)
(***************************************************************************)

\* Time passes.  A run does not last: TimeoutStartSec and the timeouts on every
\* command and request end it before a second tick.
Tick ==
    /\ clock.day < MaxDay \/ clock.tick < TicksPerDay - 1
    /\ run.pc = "idle" \/ run.start = clock
    /\ clock' = IF clock.tick < TicksPerDay - 1
                THEN [clock EXCEPT !.tick = @ + 1]
                ELSE [day |-> clock.day + 1, tick |-> 0]
    /\ UNCHANGED <<timer, manual, starts, live, gone, program, due, reporter, history>>

AddFile(f) ==
    /\ f \notin live \cup gone
    /\ live' = live \cup {f}
    /\ UNCHANGED <<clock, timer, manual, starts, gone, program, due, reporter, history>>

DeleteFile(f) ==
    /\ f \in live
    /\ live' = live \ {f}
    /\ gone' = gone \cup {f}
    /\ owed' = IF \E s \in snaps : IsReference(s) /\ f \in s.files
               THEN owed \cup {f} ELSE owed
    /\ window' = IF run.pc = "snapshot" THEN window \cup {f} ELSE window
    /\ UNCHANGED <<clock, timer, manual, starts, program, due, reporter, told,
                   dropped, uncounted, overlooked, forgotten, failures, mute>>

\* Someone runs `zfs destroy` on one of the snapshots.
PersonDestroys(s) ==
    /\ "human" \in Faults
    /\ s \in snaps
    /\ snaps' = snaps \ {s}
    /\ forgotten' = forgotten \cup (gone \cap s.files)
    /\ UNCHANGED <<world, status, run, due,
                   reporter, ha, owed, told, window, dropped, uncounted,
                   overlooked, failures, mute>>

(***************************************************************************)
(* The run.                                                                *)
(***************************************************************************)

Started(inv) == [Idle EXCEPT !.pc = "list", !.inv = inv, !.start = clock]

\* photowatch.timer: once a day, and later that day when the host was off.
TimerStart ==
    /\ run.pc = "idle"
    /\ timer < clock.day
    /\ timer' = clock.day
    /\ starts' = starts + 1
    /\ run' = Started(starts')
    /\ UNCHANGED <<clock, manual, live, gone, snaps, status, due, reporter, ha, history>>

\* The timer elapses while the unit is active: systemd merges the two starts.
TimerMerged ==
    /\ run.pc # "idle" /\ run.inv # NoInv
    /\ timer < clock.day
    /\ timer' = clock.day
    /\ UNCHANGED <<clock, manual, starts, live, gone, program, due, reporter, history>>

\* `systemctl start photowatch`, or the program in a shell.
ManualStart ==
    /\ run.pc = "idle"
    /\ manual < MaxManual
    /\ manual' = manual + 1
    /\ \E byUnit \in BOOLEAN :
        /\ starts' = IF byUnit THEN starts + 1 ELSE starts
        /\ run' = Started(IF byUnit THEN starts' ELSE NoInv)
    /\ UNCHANGED <<clock, timer, live, gone, snaps, status, due, reporter, ha, history>>

\* Run: the configuration is not valid; nothing is done and nothing is sent.
InvalidConfig ==
    /\ "config" \in Faults
    /\ run.pc = "list"
    /\ run' = [run EXCEPT !.pc = "exit", !.err = TRUE]
    /\ UNCHANGED <<world, snaps, status, due, reporter, ha, history>>

\* run() returns an error before the payload was built: it goes straight to Send.
Stranded == [run EXCEPT !.pc = "send", !.err = TRUE]

\* Mutant of StrandEarly: no list is taken for an empty list.
StrandEarlyGoesOn ==
    /\ "early" \in Faults
    /\ run.pc = "list"
    /\ run' = [run EXCEPT !.pc = "snapshot", !.problem = TRUE]
    /\ UNCHANGED <<world, snaps, status, due, reporter, ha, history>>

\* The zfs binary, the dataset or the list of snapshots is not there.
StrandEarly ==
    /\ "early" \in Faults
    /\ run.pc = "list"
    /\ run' = Stranded
    /\ UNCHANGED <<world, snaps, status, due, reporter, ha, history>>

\* LatestWithPrefix: the snapshot this run compares with.
Compared(prev, listed) == IF listed = {} THEN prev = NoSnap ELSE IsLatest(prev, listed)

\* What only the snapshots that are missing from the list still show.  The program
\* warns of such lines in the journal; no message speaks of them.
Overlooked(listed) ==
    {f \in gone \ told : /\ \E s \in snaps \ listed : f \in s.files
                         /\ \A s \in snaps \cap listed : f \notin s.files}

\* Mutant of RanBefore: an unreadable status.json means that no run ever happened.
RanBeforeIfReadable(readable) == status.exists /\ readable

\* ReadState: an unreadable status.json counts as a run that has happened.
RanBefore(readable) == status.exists \/ ~readable

\* checkPathPrefix, SnapshotList and what follows from them.  A PATH_PREFIX that
\* cannot match is a failure that does not stop the run.  A line of the list that is
\* not understood is passed over, be it the reference's.  Without a previous snapshot
\* there is nothing to compare; that is a failure when a run has happened before.
List ==
    /\ run.pc = "list"
    /\ \E listed \in SUBSET snaps, prev \in snaps \cup {NoSnap},
          readable \in BOOLEAN, misplaced \in BOOLEAN :
        /\ listed # snaps => "list" \in Faults
        /\ ~readable => "read" \in Faults
        /\ misplaced => "prefix" \in Faults
        /\ Compared(prev, listed)
        /\ run' = [run EXCEPT
                    !.pc = IF listed = {} THEN "snapshot" ELSE "diff",
                    !.prev = prev,
                    !.listed = listed,
                    !.problem = misplaced \/ (listed = {} /\ RanBefore(readable))]
        /\ overlooked' = IF listed = {} THEN overlooked \cup Overlooked(listed)
                         ELSE overlooked
    /\ UNCHANGED <<world, snaps, status, due, reporter, ha, owed, told, window,
                   dropped, uncounted, forgotten, failures, mute>>

\* parseDiff: of the photos that zfs diff shows as deleted some may not be counted,
\* on a line that is not understood or by the filter, all of them when PATH_PREFIX
\* cannot match.  That is a failure only when there were lines that were not
\* understood and none that was (diffUnusable); others: one about something else
\* than a deleted photo was.
Counts(shown) ==
    /\ \E counted \in SUBSET shown, unparsed \in BOOLEAN, others \in BOOLEAN :
        /\ unparsed => "parse" \in Faults
        /\ counted # shown => unparsed \/ "filter" \in Faults \/ run.problem
        /\ run.problem => counted = {}
        /\ run' = [run EXCEPT
                    !.pc = "snapshot",
                    !.counted = counted,
                    !.problem = @ \/ (unparsed /\ counted = {} /\ ~others)]
        /\ uncounted' = uncounted \cup (shown \ counted)
    /\ overlooked' = overlooked \cup Overlooked(run.listed)
    /\ UNCHANGED <<world, snaps, status, due, reporter, ha, owed, told, window,
                   dropped, forgotten, failures, mute>>

\* Mutant of Diff: the two sides of the comparison are swapped.
DiffSwapped ==
    /\ run.pc = "diff"
    /\ run.prev \in snaps
    /\ Counts(live \ run.prev.files)

\* zfs diff <previous> <dataset>: against the dataset as it is now.
Diff ==
    /\ run.pc = "diff"
    /\ run.prev \in snaps
    /\ Counts(run.prev.files \ live)

\* Mutant of DiffFails: the failure is noted, the snapshot is made all the same.
DiffFailsGoesOn ==
    /\ run.pc = "diff"
    /\ "diff" \in Faults \/ run.prev \notin snaps
    /\ run' = [run EXCEPT !.pc = "snapshot", !.problem = TRUE]
    /\ UNCHANGED <<world, snaps, status, due, reporter, ha, history>>

\* It fails, times out, or the snapshot is gone: no snapshot is made today.
DiffFails ==
    /\ run.pc = "diff"
    /\ "diff" \in Faults \/ run.prev \notin snaps
    /\ run' = Stranded
    /\ UNCHANGED <<world, snaps, status, due, reporter, ha, history>>

\* What follows a snapshot that is there: the payload is completed and the
\* snapshots to prune are chosen from the list.
Built(listed) ==
    [run EXCEPT !.pc = "prune", !.listed = listed, !.built = TRUE,
                !.todo = SnapshotsToDelete(listed, run.start)]

Exists == \E s \in snaps : s.name = run.start.day

\* zfs snapshot; the list gets an entry that says it was created when the run
\* started.
MakeSnapshot ==
    /\ run.pc = "snapshot" /\ ~Exists
    /\ LET new == [name |-> run.start.day, created |-> clock, files |-> live]
       IN  /\ snaps' = snaps \cup {new}
           /\ run' = Built(run.listed \cup {[new EXCEPT !.created = run.start]})
    /\ UNCHANGED <<world, status, due, reporter, ha, history>>

\* ErrSnapshotExists: the second run of a day, not an error.
SnapshotExists ==
    /\ run.pc = "snapshot" /\ Exists
    /\ run' = Built(run.listed)
    /\ UNCHANGED <<world, snaps, status, due, reporter, ha, history>>

\* It fails; when it timed out the snapshot may be there all the same.
SnapshotFails ==
    /\ "snapshot" \in Faults
    /\ run.pc = "snapshot"
    /\ \/ snaps' = snaps
       \/ /\ ~Exists
          /\ snaps' = snaps \cup {[name |-> run.start.day, created |-> clock, files |-> live]}
    /\ run' = Stranded
    /\ UNCHANGED <<world, status, due, reporter, ha, history>>

\* pruneSnapshots: one zfs destroy per name, oldest first.
Destroy(s) ==
    /\ run.pc = "prune"
    /\ IsOldest(s, run.todo)
    /\ s \in snaps
    /\ snaps' = snaps \ {s}
    /\ run' = [run EXCEPT !.todo = @ \ {s}]
    /\ UNCHANGED <<world, status, due, reporter, ha, history>>

\* The first failure ends the pruning; the payload goes out as an error.
DestroyFails ==
    /\ run.pc = "prune" /\ run.todo # {}
    /\ "destroy" \in Faults \/ \E s \in run.todo \ snaps : IsOldest(s, run.todo)
    /\ run' = [Stranded EXCEPT !.todo = {}]
    /\ UNCHANGED <<world, snaps, status, due, reporter, ha, history>>

PruneDone ==
    /\ run.pc = "prune" /\ run.todo = {}
    /\ run' = [run EXCEPT !.pc = "send", !.err = run.problem]
    /\ UNCHANGED <<world, snaps, status, due, reporter, ha, history>>

Payload == [inv |-> run.inv, by |-> "run", error |-> run.err, compared |-> run.prev # NoSnap]

\* Notifier.Send: a 2xx came back.
Send ==
    /\ run.pc = "send"
    /\ ha' = ha \cup {Payload}
    /\ told' = told \cup run.counted
    /\ run' = [run EXCEPT !.pc = "state", !.acked = TRUE]
    /\ UNCHANGED <<world, snaps, status, due,
                   reporter, owed, window, dropped, uncounted, overlooked, forgotten, failures, mute>>

\* Every attempt failed; "ack": the message arrived and only the answer was lost.
SendFails ==
    /\ run.pc = "send"
    /\ \/ /\ "send" \in Faults
          /\ dropped' = dropped \cup run.counted
          /\ UNCHANGED <<ha, told>>
       \/ /\ "ack" \in Faults
          /\ ha' = ha \cup {Payload}
          /\ told' = told \cup run.counted
          /\ UNCHANGED dropped
    /\ run' = [run EXCEPT !.pc = "state"]
    /\ UNCHANGED <<world, snaps, status, due,
                   reporter, owed, window, uncounted, overlooked, forgotten, failures, mute>>

AfterWrite == IF run.pc = "state" /\ run.built THEN "aftercare" ELSE "exit"

\* WriteState, right after Send and, when there was aftercare, once more after it.
WriteState ==
    /\ run.pc \in {"state", "aftercare"}
    /\ status' = [exists |-> TRUE, inv |-> run.inv, reported |-> run.acked, error |-> run.err]
    /\ run' = [run EXCEPT !.pc = AfterWrite]
    /\ UNCHANGED <<world, snaps, due, reporter, ha, history>>

\* The write fails: only the journal says so.
WriteStateFails ==
    /\ "state" \in Faults
    /\ run.pc \in {"state", "aftercare"}
    /\ run' = [run EXCEPT !.pc = AfterWrite]
    /\ UNCHANGED <<world, snaps, status, due, reporter, ha, history>>

\* systemd has a start of the OnFailure unit in its queue, or the unit is active.
Busy == due # {} \/ reporter # NoInv

\* systemd sees the unit fail and starts its OnFailure unit.  Every failure starts
\* the same instance (%n), so that a start beside an earlier one is merged with it.
UnitFails ==
    IF run.inv = NoInv THEN UNCHANGED <<due, failures, mute>>
    ELSE /\ failures' = failures \cup {run.inv}
         /\ due' = IF Busy THEN due ELSE {run.inv}
         /\ mute' = IF Busy THEN mute \cup {run.inv} ELSE mute

\* Mutant of Exit: only an unsent message makes the unit fail.
ExitUnsent ==
    /\ run.pc = "exit"
    /\ run' = Idle
    /\ IF ~run.acked THEN UnitFails ELSE UNCHANGED <<due, failures, mute>>
    /\ UNCHANGED <<world, snaps, status,
                   reporter, ha, owed, told, window, dropped, uncounted, overlooked, forgotten>>

\* The exit code is 0 only when the run went well and its message was accepted.
Exit ==
    /\ run.pc = "exit"
    /\ run' = Idle
    /\ IF run.err \/ ~run.acked THEN UnitFails ELSE UNCHANGED <<due, failures, mute>>
    /\ UNCHANGED <<world, snaps, status,
                   reporter, ha, owed, told, window, dropped, uncounted, overlooked, forgotten>>

\* SIGKILL, out of memory, a panic: at any step.
Kill ==
    /\ "kill" \in Faults
    /\ run.pc # "idle"
    /\ run' = Idle
    /\ UnitFails
    /\ dropped' = dropped \cup InFlight
    /\ UNCHANGED <<world, snaps, status,
                   reporter, ha, owed, told, window, uncounted, overlooked, forgotten>>

\* The host loses power: no unit is left to run, and none to report it.
PowerCut ==
    /\ "power" \in Faults
    /\ run.pc # "idle" \/ due # {} \/ reporter # NoInv
    /\ run' = Idle
    /\ due' = {} /\ reporter' = NoInv
    /\ dropped' = dropped \cup InFlight
    /\ mute' = mute \cup due \cup ({reporter, run.inv} \ {NoInv})
    /\ failures' = failures \cup ({run.inv} \ {NoInv})
    /\ UNCHANGED <<world, snaps, status, ha,
                   owed, told, window, uncounted, overlooked, forgotten>>

(***************************************************************************)
(* The OnFailure unit: reportFailureOnly.                                  *)
(***************************************************************************)

\* Mutant of SameRun: whether the run reported itself is not looked at.
SameRunUnreported(inv) ==
    /\ status.inv # NoInv
    /\ status.inv = inv
    /\ status.error

\* sameRun: the state file is about exactly this invocation, which already
\* reported itself.
SameRun(inv) ==
    /\ status.inv # NoInv
    /\ status.inv = inv
    /\ status.reported
    /\ status.error

\* Two messages for one failure would be one too many: stay silent.
FailureStaysSilent(inv) ==
    /\ inv \in due /\ reporter = NoInv
    /\ status.exists /\ SameRun(inv)
    /\ due' = due \ {inv}
    /\ UNCHANGED <<world, program, reporter, history>>

\* Mutant of FailureSpeaks: without a state file there is nothing to report.
FailureNeedsState(inv) ==
    /\ inv \in due /\ reporter = NoInv
    /\ status.exists /\ ~SameRun(inv)
    /\ due' = due \ {inv}
    /\ reporter' = inv
    /\ UNCHANGED <<world, program, history>>

\* No state file, another run, not reported, or not readable: report it.
FailureSpeaks(inv) ==
    /\ inv \in due /\ reporter = NoInv
    /\ "read" \in Faults \/ ~(status.exists /\ SameRun(inv))
    /\ due' = due \ {inv}
    /\ reporter' = inv
    /\ UNCHANGED <<world, program, history>>

FailureSend ==
    /\ reporter # NoInv
    /\ ha' = ha \cup {[inv |-> reporter, by |-> "onfailure",
                      error |-> TRUE, compared |-> FALSE]}
    /\ reporter' = NoInv
    /\ UNCHANGED <<world, snaps, status, run, due, history>>

\* The webhook is not valid, or every attempt failed.
FailureSendFails ==
    /\ "send" \in Faults
    /\ reporter # NoInv
    /\ mute' = mute \cup {reporter}
    /\ reporter' = NoInv
    /\ UNCHANGED <<world, program, due, owed,
                   told, window, dropped, uncounted, overlooked, forgotten, failures>>

(***************************************************************************)
(* The specification.                                                      *)
(***************************************************************************)

RunStep ==
    \/ InvalidConfig \/ StrandEarly \/ List
    \/ Diff \/ DiffFails
    \/ MakeSnapshot \/ SnapshotExists \/ SnapshotFails
    \/ (\E s \in run.todo : Destroy(s)) \/ DestroyFails \/ PruneDone
    \/ Send \/ SendFails \/ WriteState \/ WriteStateFails \/ Exit

FailureStep ==
    \/ \E inv \in due : FailureStaysSilent(inv) \/ FailureSpeaks(inv)
    \/ FailureSend \/ FailureSendFails

Next ==
    \/ Tick
    \/ \E f \in Files : AddFile(f) \/ DeleteFile(f)
    \/ \E s \in snaps : PersonDestroys(s)
    \/ TimerStart \/ TimerMerged \/ ManualStart
    \/ RunStep \/ Kill \/ PowerCut
    \/ FailureStep

Spec == Init /\ [][Next]_vars

\* The processes take their next step, time passes and the timer fires; nobody
\* has to delete, kill or start anything by hand.
FairSpec ==
    /\ Spec
    /\ WF_vars(RunStep) /\ WF_vars(FailureStep)
    /\ WF_vars(Tick) /\ WF_vars(TimerStart)

(***************************************************************************)
(* Properties.                                                             *)
(***************************************************************************)

\* Every variable has its type; what is owed, counted, told or written off is the
\* deletion of a photo that really is gone (never one that zfs diff shows as added),
\* and a snapshot holds no photo that never was in the dataset.
TypeOK ==
    /\ clock \in Moment
    /\ timer \in Nat /\ manual \in Nat /\ starts \in Nat
    /\ live \subseteq Files /\ gone \subseteq Files \ live
    /\ snaps \subseteq Snapshot /\ \A s \in snaps : s.files \subseteq live \cup gone
    /\ status \in StateFile
    /\ run \in Run /\ run.counted \subseteq gone
    /\ due \subseteq Nat \ {NoInv} /\ reporter \in Nat
    /\ ha \subseteq Message
    /\ owed \subseteq gone /\ Settled \subseteq gone
    /\ failures \subseteq Nat \ {NoInv} /\ mute \subseteq Nat \ {NoInv}

\* No deletion gets lost between two runs but for a cause named here: one that the
\* reference of its moment could show is shown by the next comparison, is in the
\* payload of the run in progress, or is settled.  Settled is told, or written off:
\* deleted between comparison and snapshot (window), counted in a message that did
\* not get through (dropped), shown by zfs diff and not counted (uncounted), known to
\* a snapshot the run did not list (overlooked), or to one a person destroyed
\* (forgotten).  A failed comparison makes no snapshot, so it loses nothing.  Of the
\* uncounted the message has at most a number (unparsed, skipped), of the overlooked
\* nothing: neither makes the run fail.
Accounted == owed \subseteq Waiting \cup InFlight \cup Settled

\* The photos in the snapshot the next comparison will use.
Reference == UNION {s.files : s \in {x \in snaps : IsReference(x)}}

Promise == INSTANCE Ledger WITH
    reference <- Reference, hand <- InFlight,
    lost <- window \cup dropped \cup uncounted \cup overlooked \cup forgotten

\* The run keeps the books as Ledger says: the reference never moves past a deletion
\* that is neither in hand, told nor written off for one of the causes of Accounted,
\* and only what is gone and was counted is told.
KeepsTheBooks == Promise!Spec

\* Invocations Home Assistant has an error message about.
Heard == {m.inv : m \in {x \in ha : x.error}}

\* A unit that failed is never passed over in silence: an error message about
\* that very invocation was answered with a 2xx, or its OnFailure unit still has to act, or
\* nothing could be sent, or systemd merged its start with one that was not over.  In
\* particular the OnFailure unit stays silent only about an invocation that reported
\* its own failure (sameRun).
NoSilentFailure == failures \subseteq Heard \cup due \cup {reporter} \cup mute

\* The snapshots the pruning removes in this step.
Pruned == IF run.pc = "prune" /\ run' # run THEN snaps \ snaps' ELSE {}

\* A run never prunes the snapshot it compared with, the one its own message and
\* restore script tell people to restore from.
PreviousKept == [][\A s \in Pruned : s # run.prev]_vars

\* recover_until, the date in the message, is KEEP_DAYS after the day the snapshot
\* was made (run.go:494): no run prunes the snapshot before that date.
PromiseKept == [][\A s \in Pruned : clock.day >= s.created.day + KeepDays]_vars

\* Pruning leaves at least MinimumKept snapshots behind, however long the host
\* was off and however old everything is (guardrail 2).
HistoryKept == [][Pruned # {} => Cardinality(snaps') >= MinimumKept]_vars

\* "first run, nothing to compare with" is good news at most once: after a run that
\* left its status.json a missing reference is an error, also when that file cannot
\* be read, and whatever failed in between (run.go:306-354).
FirstRunOnlyOnce ==
    status.exists /\ run.pc = "send" /\ run.prev = NoSnap => run.err

\* A deletion the reference could show is told by the next run, or written off for one
\* of the causes of Accounted, unless that run, or one after it, fails in the sight of systemd: one
\* morning is left for it.
DeletionReported ==
    \A f \in Files, n \in 0 .. MaxDay + MaxManual :
        f \in owed /\ run.pc = "idle" /\ starts = n /\ clock.day < MaxDay
            ~> f \in Settled \/ \E i \in failures : i > n

\* A failed unit leads to an error message about it, unless nothing could be sent or
\* its OnFailure start was merged.
FailureHeard ==
    \A i \in 1 .. MaxDay + MaxManual : (i \in failures) ~> (i \in Heard \cup mute)

\* README.md:3 without reservations: every deletion from the compared snapshot is
\* still to be seen, on its way, or told.
EveryDeletionReported == owed \subseteq Waiting \cup InFlight \cup told
=============================================================================
