----------------------------- MODULE Aftercare -----------------------------
(***************************************************************************)
(* What a run only meets after its message: the side issues of the         *)
(* aftercare, which wait in status.json for the message of the next run    *)
(* (internal/watch/run.go, report.go).                                     *)
(*                                                                         *)
(* The work itself is in Artifacts.  Here it ends with an issue or without *)
(* one, and an issue is known by the number of the run that met it.  Every *)
(* run reads status.json once before it works; it writes it after the      *)
(* message, and again after the aftercare.  A run that strands before its  *)
(* payload is built has no aftercare.  Two runs never overlap.             *)
(***************************************************************************)
EXTENDS Integers

CONSTANTS
    MaxRuns,    \* bound: the runs
    Faults      \* which failures may happen, a subset of AllFaults

AllFaults == {"read", "early", "long", "send", "write", "kill"}

ASSUME AftercareAssumption ==
    /\ MaxRuns \in Nat
    /\ Faults \subseteq AllFaults

VARIABLES
    runs,       \* how many runs there were: the last one's number
    status,     \* the issue in status.json under aftercare, or None
    run,        \* the local state of the run in progress
    raised,     \* history: every issue there was
    told,       \* history: how many accepted messages carried an issue
    lost,       \* history: issues a failure of the named kinds took away
    stuck       \* history: issues that stayed in status.json after their message

vars == <<runs, status, run, raised, told, lost, stuck>>
history == <<raised, told, lost, stuck>>

None == 0
Issue == 1 .. MaxRuns

Run == [pc : {"idle", "read", "work", "send", "first", "aftercare", "second"},
        earlier : Issue \cup {None}, plan : BOOLEAN, issue : Issue \cup {None}]

Idle == [pc |-> "idle", earlier |-> None, plan |-> FALSE, issue |-> None]

Init ==
    /\ runs = 0
    /\ status = None
    /\ run = Idle
    /\ raised = {}
    /\ told = [i \in Issue |-> 0]
    /\ lost = {} /\ stuck = {}

Start ==
    /\ run.pc = "idle"
    /\ runs < MaxRuns
    /\ runs' = runs + 1
    /\ run' = [Idle EXCEPT !.pc = "read"]
    /\ UNCHANGED <<status, history>>

\* ReadState, before anything else.
Read ==
    /\ run.pc = "read"
    /\ run' = [run EXCEPT !.pc = "work", !.earlier = status]
    /\ UNCHANGED <<runs, status, history>>

\* status.json cannot be read: the run goes on without it.
ReadFails ==
    /\ "read" \in Faults
    /\ run.pc = "read"
    /\ run' = [run EXCEPT !.pc = "work"]
    /\ lost' = lost \cup ({status} \ {None})
    /\ UNCHANGED <<runs, status, raised, told, stuck>>

\* The payload carries "on the previous run: ..." behind the issues of today.
Build ==
    /\ run.pc = "work"
    /\ run' = [run EXCEPT !.pc = "send", !.plan = TRUE]
    /\ UNCHANGED <<runs, status, history>>

\* The text is cut off, and the issues of today came first.
BuildTooLong ==
    /\ "long" \in Faults
    /\ run.pc = "work"
    /\ run' = [run EXCEPT !.pc = "send", !.plan = TRUE, !.earlier = None]
    /\ lost' = lost \cup ({run.earlier} \ {None})
    /\ UNCHANGED <<runs, status, raised, told, stuck>>

\* A command before the new snapshot fails, or the snapshot itself: a payload
\* without side issues, and no plan.
StrandEarly ==
    /\ "early" \in Faults
    /\ run.pc = "work"
    /\ run' = [run EXCEPT !.pc = "send", !.earlier = None]
    /\ UNCHANGED <<runs, status, history>>

Send ==
    /\ run.pc = "send"
    /\ told' = [i \in Issue |-> IF i = run.earlier THEN told[i] + 1 ELSE told[i]]
    /\ run' = [run EXCEPT !.pc = "first"]
    /\ UNCHANGED <<runs, status, raised, lost, stuck>>

\* The message is refused or does not arrive; the run goes on as after any other.
SendFails ==
    /\ "send" \in Faults
    /\ run.pc = "send"
    /\ lost' = lost \cup ({run.earlier} \ {None})
    /\ run' = [run EXCEPT !.pc = "first"]
    /\ UNCHANGED <<runs, status, raised, told, stuck>>

\* Mutant of StateAfterRun: nothing is carried over.
StateFresh(read) == None

\* Mutant of StateAfterRun: the issue stays until the aftercare is over.
StateKept(read) == read

\* stateAfterRun: after a run that got as far as its payload the issue is gone;
\* one that stranded reads status.json again and carries it over.
StateAfterRun(read) == IF run.plan THEN None ELSE read

AfterFirst(r) == IF r.plan THEN [r EXCEPT !.pc = "aftercare"] ELSE Idle

\* The first write.  For a run that stranded the second reading may fail.
FirstWrite ==
    /\ run.pc = "first"
    /\ \/ /\ status' = StateAfterRun(status)
          /\ lost' = lost
       \/ /\ "read" \in Faults /\ ~run.plan
          /\ status' = StateAfterRun(None)
          /\ lost' = lost \cup ({status} \ {None})
    /\ run' = AfterFirst(run)
    /\ UNCHANGED <<runs, raised, told, stuck>>

FirstWriteFails ==
    /\ "write" \in Faults
    /\ run.pc = "first"
    /\ run' = AfterFirst(run)
    /\ stuck' = stuck \cup ({status} \ {None})
    /\ UNCHANGED <<runs, status, raised, told, lost>>

\* runAftercare, with an issue or without.
Work ==
    /\ run.pc = "aftercare"
    /\ \E issue \in {runs, None} :
        /\ run' = [run EXCEPT !.pc = "second", !.issue = issue]
        /\ raised' = raised \cup ({issue} \ {None})
    /\ UNCHANGED <<runs, status, told, lost, stuck>>

\* The second write replaces whatever the first left or failed to leave.
SecondWrite ==
    /\ run.pc = "second"
    /\ status' = run.issue
    /\ run' = Idle
    /\ UNCHANGED <<runs, history>>

SecondWriteFails ==
    /\ "write" \in Faults
    /\ run.pc = "second"
    /\ lost' = lost \cup ({run.issue} \ {None})
    /\ run' = Idle
    /\ UNCHANGED <<runs, status, raised, told, stuck>>

\* SIGKILL, an OOM kill, a panic, a power cut.
Kill ==
    /\ "kill" \in Faults
    /\ run.pc # "idle"
    /\ lost' = lost \cup ({run.issue} \ {None})
    /\ stuck' = IF run.pc = "first" THEN stuck \cup ({status} \ {None}) ELSE stuck
    /\ run' = Idle
    /\ UNCHANGED <<runs, status, raised, told>>

Next ==
    \/ Start \/ Kill
    \/ Read \/ ReadFails
    \/ Build \/ BuildTooLong \/ StrandEarly
    \/ Send \/ SendFails
    \/ FirstWrite \/ FirstWriteFails
    \/ Work
    \/ SecondWrite \/ SecondWriteFails

Spec == Init /\ [][Next]_vars

(***************************************************************************)
(* Properties.                                                             *)
(***************************************************************************)

\* Every variable has its type; only an issue that was met is passed on.
TypeOK ==
    /\ runs \in Issue \cup {0} /\ (run.pc # "idle" => runs \in Issue)
    /\ run \in Run
    /\ {status, run.earlier, run.issue} \subseteq raised \cup {None}
    /\ raised \subseteq Issue /\ lost \subseteq raised /\ stuck \subseteq raised
    /\ told \in [Issue -> Nat]

\* Issues that a later message will still carry.
OnTheirWay == {status, run.issue}

\* A side issue never disappears "from every chain" (run.go:174): it is in
\* status.json or in the hands of the run that will write it there, or was told,
\* or a failure of its own took it: a refused message, a text cut off, a file that
\* could not be read or written, a kill.  Runs that strand in between are no such
\* failure.
NoIssueIsLost ==
    \A i \in raised : i \in OnTheirWay \cup lost \/ told[i] > 0

\* An issue is told once, it does not "report itself again every day"
\* (run.go:177), unless status.json could not be brought up to date after its
\* message.
ToldOnce ==
    \A i \in Issue : told[i] > 1 => i \in stuck
=============================================================================
