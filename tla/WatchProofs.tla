---------------------------- MODULE WatchProofs ----------------------------
(***************************************************************************)
(* Theorems about Watch, for every value of its constants.                 *)
(***************************************************************************)
EXTENDS Watch, FiniteSetTheorems, WellFoundedInduction, TLAPS

USE DEF NoInv

(***************************************************************************)
(* Types.                                                                  *)
(***************************************************************************)

\* A list of snapshots yields snapshots of that list.
LEMMA ChosenAreListed ==
    ASSUME NEW listed, NEW at
    PROVE  SnapshotsToDelete(listed, at) \subseteq listed
BY DEF SnapshotsToDelete, TooOld, Candidates, Own

\* The first state has the types.
LEMMA InitTypes == Init => TypeOK
<1> SUFFICES ASSUME Init PROVE TypeOK
  OBVIOUS
<1> USE DEF Init
<1>1. clock \in Moment
  BY DEF Moment
<1>2. status \in StateFile
  BY DEF StateFile
<1>3. run \in Run /\ run.counted = {}
  BY DEF Run, Idle, Moment
<1> QED BY <1>1, <1>2, <1>3 DEF TypeOK, Settled

\* A run that starts has its type.
LEMMA StartedTypes ==
    ASSUME TypeOK PROVE \A inv \in Nat : Started(inv) \in Run /\ Started(inv).counted = {}
BY DEF TypeOK, Started, Idle, Run

\* The steps of the world: clock, photos, people and the starts.
LEMMA WorldTypes ==
    ASSUME TypeOK,
           \/ Tick
           \/ \E f \in Files : AddFile(f) \/ DeleteFile(f)
           \/ \E s \in snaps : PersonDestroys(s)
           \/ TimerStart \/ TimerMerged \/ ManualStart
    PROVE  TypeOK'
<1> USE DEF TypeOK, Settled, world, program, history
<1>1. CASE Tick
  BY <1>1 DEF Tick, Moment
<1>2. ASSUME NEW f \in Files, AddFile(f) PROVE TypeOK'
  BY <1>2 DEF AddFile
<1>3. ASSUME NEW f \in Files, DeleteFile(f) PROVE TypeOK'
  BY <1>3 DEF DeleteFile
<1>4. ASSUME NEW s \in snaps, PersonDestroys(s) PROVE TypeOK'
  BY <1>4 DEF PersonDestroys
<1>5. CASE TimerStart
  BY <1>5, StartedTypes DEF TimerStart, Moment
<1>6. CASE TimerMerged
  BY <1>6 DEF TimerMerged, Moment
<1>7. CASE ManualStart
  BY <1>7, StartedTypes DEF ManualStart
<1> QED BY <1>1, <1>2, <1>3, <1>4, <1>5, <1>6, <1>7

\* The snapshot of a run, and the run that goes on with it.
LEMMA BuiltTypes ==
    ASSUME TypeOK, NEW listed \in SUBSET Snapshot
    PROVE  Built(listed) \in Run /\ Built(listed).counted = run.counted
<1>1. SnapshotsToDelete(listed, run.start) \subseteq Snapshot
  BY ChosenAreListed
<1> QED BY <1>1 DEF TypeOK, Built, Run

\* What the choice among the lines of zfs list leaves to the rest of the run.
LEMMA ListShape ==
    ASSUME TypeOK, List
    PROVE  /\ run.pc = "list" /\ run' \in Run
           /\ UNCHANGED <<clock, timer, manual, starts, live, gone, snaps, status, due, reporter, ha, owed, told,
                          window, dropped, uncounted, forgotten, failures, mute>>
           /\ run'.inv = run.inv /\ run'.start = run.start /\ run'.counted = run.counted
           /\ run'.todo = run.todo /\ run'.acked = run.acked /\ run'.err = run.err
           /\ run'.listed \subseteq snaps
           /\ IF run'.listed = {} THEN run'.prev = NoSnap ELSE IsLatest(run'.prev, run'.listed)
           /\ run'.pc = IF run'.listed = {} THEN "snapshot" ELSE "diff"
           /\ status.exists /\ run'.listed = {} => run'.problem
           /\ overlooked' = IF run'.listed = {} THEN overlooked \cup Overlooked({})
                            ELSE overlooked
<1>1. PICK listed \in SUBSET snaps, prev \in snaps \cup {NoSnap},
           readable \in BOOLEAN, misplaced \in BOOLEAN :
        /\ Compared(prev, listed)
        /\ run' = [run EXCEPT
                    !.pc = IF listed = {} THEN "snapshot" ELSE "diff",
                    !.prev = prev,
                    !.listed = listed,
                    !.problem = misplaced \/ (listed = {} /\ RanBefore(readable))]
        /\ overlooked' = IF listed = {} THEN overlooked \cup Overlooked(listed)
                         ELSE overlooked
  BY DEF List
<1>2. (misplaced \/ (listed = {} /\ RanBefore(readable))) \in BOOLEAN
  BY DEF RanBefore
<1>3. /\ run'.listed = listed /\ run'.prev = prev
      /\ run'.problem = (misplaced \/ (listed = {} /\ RanBefore(readable)))
      /\ run'.pc = IF listed = {} THEN "snapshot" ELSE "diff"
  BY <1>1 DEF TypeOK, Run
<1>4. run' \in Run
  BY <1>1, <1>2 DEF TypeOK, Run
<1>5. /\ run'.inv = run.inv /\ run'.start = run.start /\ run'.counted = run.counted
      /\ run'.todo = run.todo /\ run'.acked = run.acked /\ run'.err = run.err
  BY <1>1 DEF TypeOK, Run
<1>6. status.exists /\ listed = {} => run'.problem
  BY <1>3 DEF RanBefore
<1>7. IF run'.listed = {} THEN run'.prev = NoSnap ELSE IsLatest(run'.prev, run'.listed)
  BY <1>1, <1>3 DEF Compared
<1>8. overlooked' = IF run'.listed = {} THEN overlooked \cup Overlooked({}) ELSE overlooked
  BY <1>1, <1>3
<1>9. run.pc = "list" /\ UNCHANGED <<clock, timer, manual, starts, live, gone, snaps, status, due, reporter, ha, owed,
                    told, window, dropped, uncounted, forgotten, failures, mute>>
  BY DEF List, world
<1> QED BY <1>3, <1>4, <1>5, <1>6, <1>7, <1>8, <1>9

\* What the count leaves to the rest of the run.
LEMMA DiffShape ==
    ASSUME TypeOK, Diff
    PROVE  /\ run.pc = "diff" /\ run' \in Run /\ run'.pc = "snapshot"
           /\ run.prev \in snaps
           /\ UNCHANGED <<clock, timer, manual, starts, live, gone, snaps, status, due, reporter, ha, owed, told,
                          window, dropped, forgotten, failures, mute>>
           /\ run'.inv = run.inv /\ run'.start = run.start /\ run'.prev = run.prev
           /\ run'.listed = run.listed
           /\ run'.todo = run.todo /\ run'.acked = run.acked /\ run'.err = run.err
           /\ run'.counted \subseteq run.prev.files \ live
           /\ uncounted' = uncounted \cup ((run.prev.files \ live) \ run'.counted)
           /\ overlooked' = overlooked \cup Overlooked(run.listed)
<1> DEFINE shown == run.prev.files \ live
<1>1. PICK counted \in SUBSET shown, unparsed \in BOOLEAN, others \in BOOLEAN :
        /\ run' = [run EXCEPT
                    !.pc = "snapshot",
                    !.counted = counted,
                    !.problem = @ \/ (unparsed /\ counted = {} /\ ~others)]
        /\ uncounted' = uncounted \cup (shown \ counted)
  BY DEF Diff, Counts
<1>2. run.prev \in snaps /\ shown \subseteq Files
  BY DEF Diff, TypeOK, Snapshot
<1>3. run'.counted = counted /\ run' \in Run /\ run'.pc = "snapshot"
  BY <1>1, <1>2 DEF TypeOK, Run
<1>4. /\ run'.inv = run.inv /\ run'.start = run.start /\ run'.prev = run.prev
      /\ run'.listed = run.listed
      /\ run'.todo = run.todo /\ run'.acked = run.acked /\ run'.err = run.err
  BY <1>1 DEF TypeOK, Run
<1>5. /\ run.pc = "diff" /\ overlooked' = overlooked \cup Overlooked(run.listed)
      /\ UNCHANGED <<clock, timer, manual, starts, live, gone, snaps, status, due, reporter, ha, owed, told,
                     window, dropped, forgotten, failures, mute>>
  BY DEF Diff, Counts, world
<1> QED BY <1>1, <1>2, <1>3, <1>4, <1>5

\* The steps of the run up to the snapshot.
LEMMA CompareTypes ==
    ASSUME TypeOK,
           \/ InvalidConfig \/ StrandEarly \/ List
           \/ Diff \/ DiffFails
           \/ MakeSnapshot \/ SnapshotExists \/ SnapshotFails
    PROVE  TypeOK'
<1> USE DEF Settled, world, program, history
<1>1. CASE InvalidConfig
  BY <1>1 DEF TypeOK, InvalidConfig, Run
<1>2. CASE StrandEarly
  BY <1>2 DEF TypeOK, StrandEarly, Stranded, Run
<1>3. CASE List
  <2>1. Overlooked({}) \subseteq gone
    BY DEF Overlooked
  <2> QED BY <1>3, <2>1, ListShape DEF TypeOK, Settled
<1>4. CASE Diff
  <2>1. run.prev.files \ live \subseteq gone
    BY <1>4 DEF TypeOK, Diff
  <2>2. Overlooked(run.listed) \subseteq gone
    BY DEF Overlooked
  <2> QED BY <1>4, <2>1, <2>2, DiffShape DEF TypeOK, Settled
<1>5. CASE DiffFails
  BY <1>5 DEF TypeOK, DiffFails, Stranded, Run
<1>6. CASE MakeSnapshot
  <2> DEFINE new == [name |-> run.start.day, created |-> clock, files |-> live]
  <2>1. run.start \in Moment /\ clock \in Moment /\ live \subseteq Files
    BY DEF TypeOK, Run
  <2>2. new \in Snapshot /\ [new EXCEPT !.created = run.start] \in Snapshot
    BY <2>1 DEF Moment, Snapshot
  <2>3. snaps' = snaps \cup {new}
        /\ run' = Built(run.listed \cup {[new EXCEPT !.created = run.start]})
    BY <1>6 DEF MakeSnapshot
  <2>4. run.listed \subseteq Snapshot
    BY DEF TypeOK, Run
  <2>5. run' \in Run /\ run'.counted = run.counted
    BY <2>2, <2>3, <2>4, BuiltTypes
  <2>6. new.files \subseteq live \cup gone
    OBVIOUS
  <2> HIDE DEF new
  <2> QED BY <1>6, <2>2, <2>3, <2>5, <2>6 DEF TypeOK, MakeSnapshot
<1>7. CASE SnapshotExists
  <2>1. run.listed \subseteq Snapshot
    BY DEF TypeOK, Run
  <2>2. run' \in Run /\ run'.counted = run.counted
    BY <1>7, <2>1, BuiltTypes DEF SnapshotExists
  <2> QED BY <1>7, <2>2 DEF TypeOK, SnapshotExists
<1>8. CASE SnapshotFails
  <2>1. run.start \in Moment /\ clock \in Moment /\ live \subseteq Files
    BY DEF TypeOK, Run
  <2>2. [name |-> run.start.day, created |-> clock, files |-> live] \in Snapshot
    BY <2>1 DEF Moment, Snapshot
  <2>3. run' \in Run /\ run'.counted = run.counted
    BY <1>8 DEF TypeOK, SnapshotFails, Stranded, Run
  <2> QED BY <1>8, <2>2, <2>3 DEF TypeOK, SnapshotFails
<1> QED BY <1>1, <1>2, <1>3, <1>4, <1>5, <1>6, <1>7, <1>8

\* The steps of the run from the pruning on.
LEMMA TellTypes ==
    ASSUME TypeOK,
           \/ \E s \in run.todo : Destroy(s)
           \/ DestroyFails \/ PruneDone
           \/ Send \/ SendFails \/ WriteState \/ WriteStateFails \/ Exit
           \/ Kill \/ PowerCut
    PROVE  TypeOK'
<1> USE DEF Settled, world, program, history
<1>0. Idle \in Run /\ Payload \in Message /\ run.counted \subseteq gone
      /\ InFlight \subseteq gone /\ Idle.counted = {}
  BY DEF TypeOK, Idle, Run, Moment, Payload, Message, InFlight
<1>1. ASSUME NEW s \in run.todo, Destroy(s) PROVE TypeOK'
  BY <1>1 DEF TypeOK, Destroy, Run
<1>2. CASE DestroyFails
  BY <1>2 DEF TypeOK, DestroyFails, Stranded, Run
<1>3. CASE PruneDone
  BY <1>3 DEF TypeOK, PruneDone, Run
<1>4. CASE Send
  <2>1. run' \in Run /\ run'.counted = run.counted
    BY <1>4 DEF TypeOK, Send, Run
  <2> QED BY <1>0, <1>4, <2>1 DEF TypeOK, Send
<1>5. CASE SendFails
  <2>1. run' \in Run /\ run'.counted = run.counted
    BY <1>5 DEF TypeOK, SendFails, Run
  <2> QED BY <1>0, <1>5, <2>1 DEF TypeOK, SendFails
<1>6. CASE WriteState
  <2>1. run' \in Run /\ status' \in StateFile /\ run'.counted = run.counted
    BY <1>6 DEF TypeOK, WriteState, AfterWrite, Run, StateFile
  <2> QED BY <1>6, <2>1 DEF TypeOK, WriteState
<1>7. CASE WriteStateFails
  <2>1. run' \in Run /\ run'.counted = run.counted
    BY <1>7 DEF TypeOK, WriteStateFails, AfterWrite, Run
  <2> QED BY <1>7, <2>1 DEF TypeOK, WriteStateFails
<1>8. CASE Exit
  <2>1. run.inv \in Nat
    BY DEF TypeOK, Run
  <2> QED BY <1>0, <1>8, <2>1 DEF TypeOK, Exit, UnitFails
<1>9. CASE Kill
  <2>1. run.inv \in Nat
    BY DEF TypeOK, Run
  <2> QED BY <1>0, <1>9, <2>1 DEF TypeOK, Kill, UnitFails
<1>10. CASE PowerCut
  <2>1. run.inv \in Nat
    BY DEF TypeOK, Run
  <2> QED BY <1>0, <1>10, <2>1 DEF TypeOK, PowerCut
<1> QED BY <1>1, <1>2, <1>3, <1>4, <1>5, <1>6, <1>7, <1>8, <1>9, <1>10

\* The steps of the OnFailure unit.
LEMMA FailureTypes ==
    ASSUME TypeOK, FailureStep
    PROVE  TypeOK'
<1> USE DEF Settled, world, program, history
<1>1. ASSUME NEW inv \in due, FailureStaysSilent(inv) \/ FailureSpeaks(inv)
      PROVE  TypeOK'
  BY <1>1 DEF TypeOK, FailureStaysSilent, FailureSpeaks
<1>2. CASE FailureSend
  <2>1. [inv |-> reporter, by |-> "onfailure", error |-> TRUE, compared |-> FALSE] \in Message
    BY DEF TypeOK, Message
  <2>2. ha' \subseteq Message
    BY <1>2, <2>1 DEF TypeOK, FailureSend
  <2> QED BY <1>2, <2>2 DEF TypeOK, FailureSend
<1>3. CASE FailureSendFails
  BY <1>3 DEF TypeOK, FailureSendFails
<1> QED BY <1>1, <1>2, <1>3 DEF FailureStep

\* Every step keeps the types.
LEMMA StepTypes == TypeOK /\ [Next]_vars => TypeOK'
<1> SUFFICES ASSUME TypeOK, [Next]_vars PROVE TypeOK'
  OBVIOUS
<1>1. CASE UNCHANGED vars
  BY <1>1 DEF TypeOK, Settled, vars
<1>2. CASE Next
  BY <1>2, WorldTypes, CompareTypes, TellTypes, FailureTypes DEF Next, RunStep
<1> QED BY <1>1, <1>2

\* Every reachable state has the types, and a deletion is owed only for a photo
\* that is gone.
THEOREM TypesHold == Spec => []TypeOK
BY InitTypes, StepTypes, PTL DEF Spec

(***************************************************************************)
(* No silent failure.  The OnFailure unit stays silent on the word of      *)
(* status.json, so the invariant says why that word can be trusted: what   *)
(* the file calls reported was heard, because the run that wrote it had    *)
(* the answer to its message, and what a run knows to be accepted was.     *)
(***************************************************************************)

ReportedWasHeard == status.exists /\ SameRun(status.inv) => status.inv \in Heard

AckedWasHeard ==
    run.acked => /\ run.pc \in {"state", "aftercare", "exit"}
                 /\ run.err => run.inv \in Heard

FailureInv == NoSilentFailure /\ ReportedWasHeard /\ AckedWasHeard

\* Nothing has been said or has failed in the first state.
LEMMA InitFailure == Init => FailureInv
BY DEF Init, FailureInv, NoSilentFailure, ReportedWasHeard, AckedWasHeard, Idle

\* Steps that touch neither the messages nor the failures and the queue.
LEMMA QuietSteps ==
    ASSUME FailureInv, UNCHANGED <<status, due, reporter, ha, failures, mute>>, AckedWasHeard'
    PROVE  FailureInv'
BY DEF FailureInv, NoSilentFailure, ReportedWasHeard, Heard, SameRun

\* Every step keeps the invariant.
LEMMA FailureStepKeeps ==
    ASSUME TypeOK, FailureInv, Next
    PROVE  FailureInv'
<1> USE DEF world, program, history
<1>1. ASSUME \/ Tick
             \/ \E f \in Files : AddFile(f) \/ DeleteFile(f)
             \/ \E s \in snaps : PersonDestroys(s)
             \/ TimerMerged
      PROVE  FailureInv'
  <2>1. UNCHANGED <<status, due, reporter, ha, failures, mute, run>>
    BY <1>1 DEF Tick, AddFile, DeleteFile, PersonDestroys, TimerMerged
  <2>2. AckedWasHeard'
    BY <2>1 DEF FailureInv, AckedWasHeard, Heard
  <2> QED BY <2>1, <2>2, QuietSteps
<1>2. ASSUME TimerStart \/ ManualStart PROVE FailureInv'
  <2>1. UNCHANGED <<status, due, reporter, ha, failures, mute>> /\ ~run'.acked
    BY <1>2 DEF TimerStart, ManualStart, Started, Idle
  <2>2. AckedWasHeard'
    BY <2>1 DEF AckedWasHeard
  <2> QED BY <2>1, <2>2, QuietSteps
<1>3. ASSUME \/ InvalidConfig \/ StrandEarly \/ List
             \/ Diff \/ DiffFails
             \/ MakeSnapshot \/ SnapshotExists \/ SnapshotFails
             \/ (\E s \in run.todo : Destroy(s)) \/ DestroyFails \/ PruneDone
      PROVE  FailureInv'
  <2>0. CASE List \/ Diff
    <3>1. /\ UNCHANGED <<status, due, reporter, ha, failures, mute>>
          /\ run.pc \notin {"state", "aftercare", "exit"} /\ run'.acked = run.acked
      BY <2>0, ListShape, DiffShape
    <3>2. AckedWasHeard'
      BY <3>1 DEF FailureInv, AckedWasHeard
    <3> QED BY <3>1, <3>2, QuietSteps
  <2> SUFFICES ASSUME ~(List \/ Diff) PROVE FailureInv'
    BY <2>0
  <2>1. UNCHANGED <<status, due, reporter, ha, failures, mute>>
    BY <1>3 DEF InvalidConfig, StrandEarly, DiffFails,
                MakeSnapshot, SnapshotExists, SnapshotFails, Destroy, DestroyFails, PruneDone
  <2>2. run.pc \notin {"state", "aftercare", "exit"}
    BY <1>3 DEF InvalidConfig, StrandEarly, DiffFails,
                MakeSnapshot, SnapshotExists, SnapshotFails, Destroy, DestroyFails, PruneDone
  <2>3. ~run.acked
    BY <2>2 DEF FailureInv, AckedWasHeard
  <2>4. run'.acked = run.acked
    BY <1>3 DEF TypeOK, Run, InvalidConfig, StrandEarly, Stranded, DiffFails,
                MakeSnapshot, SnapshotExists, SnapshotFails, Built,
                Destroy, DestroyFails, PruneDone
  <2>5. AckedWasHeard'
    BY <2>3, <2>4 DEF AckedWasHeard
  <2> QED BY <2>1, <2>5, QuietSteps
<1>4. CASE Send
  <2>0. Payload \in ha' /\ Payload.error = run.err /\ Payload.inv = run.inv /\ ha \subseteq ha'
    BY <1>4 DEF Send, Payload
  <2>1. Heard \subseteq Heard' /\ (run.err => run.inv \in Heard')
    BY <2>0 DEF Heard
  <2>2. UNCHANGED <<status, due, reporter, failures, mute>>
    BY <1>4 DEF Send
  <2>3. run' = [run EXCEPT !.pc = "state", !.acked = TRUE]
    BY <1>4 DEF Send
  <2>4. AckedWasHeard'
    BY <2>1, <2>3 DEF AckedWasHeard, TypeOK, Run
  <2> QED BY <2>1, <2>2, <2>4 DEF FailureInv, NoSilentFailure, ReportedWasHeard, SameRun
<1>5. CASE SendFails
  <2>1. Heard \subseteq Heard'
    BY <1>5 DEF SendFails, Heard
  <2>2. UNCHANGED <<status, due, reporter, failures, mute>>
    BY <1>5 DEF SendFails
  <2>3. run.pc = "send" /\ run' = [run EXCEPT !.pc = "state"]
    BY <1>5 DEF SendFails
  <2>4. AckedWasHeard'
    BY <2>3 DEF FailureInv, AckedWasHeard, TypeOK, Run
  <2> QED BY <2>1, <2>2, <2>4 DEF FailureInv, NoSilentFailure, ReportedWasHeard, SameRun
<1>6. CASE WriteState
  <2>1. UNCHANGED <<due, reporter, ha, failures, mute>>
    BY <1>6 DEF WriteState
  <2>2. Heard' = Heard
    BY <2>1 DEF Heard
  <2>3. run' = [run EXCEPT !.pc = AfterWrite]
        /\ status' = [exists |-> TRUE, inv |-> run.inv, reported |-> run.acked, error |-> run.err]
    BY <1>6 DEF WriteState
  <2>4. AckedWasHeard'
    BY <2>2, <2>3 DEF FailureInv, AckedWasHeard, AfterWrite, TypeOK, Run
  <2>5. ReportedWasHeard'
    BY <2>2, <2>3 DEF FailureInv, AckedWasHeard, ReportedWasHeard, SameRun
  <2> QED BY <2>1, <2>2, <2>4, <2>5 DEF FailureInv, NoSilentFailure
<1>7. CASE WriteStateFails
  <2>1. UNCHANGED <<status, due, reporter, ha, failures, mute>>
        /\ run' = [run EXCEPT !.pc = AfterWrite]
    BY <1>7 DEF WriteStateFails
  <2>2. AckedWasHeard'
    BY <2>1 DEF FailureInv, AckedWasHeard, AfterWrite, TypeOK, Run, Heard
  <2> QED BY <2>1, <2>2, QuietSteps
<1>8. CASE Exit
  <2>1. UNCHANGED <<status, reporter, ha>> /\ ~run'.acked
    BY <1>8 DEF Exit, Idle
  <2>2. /\ due \subseteq due' /\ mute \subseteq mute'
        /\ failures' \subseteq failures \cup due' \cup mute'
    BY <1>8 DEF Exit, UnitFails, Busy
  <2> QED BY <2>1, <2>2 DEF FailureInv, NoSilentFailure, ReportedWasHeard, AckedWasHeard, Heard, SameRun
<1>9. CASE Kill
  <2>1. UNCHANGED <<status, reporter, ha>> /\ ~run'.acked
    BY <1>9 DEF Kill, Idle
  <2>2. /\ due \subseteq due' /\ mute \subseteq mute'
        /\ failures' \subseteq failures \cup due' \cup mute'
    BY <1>9 DEF Kill, UnitFails, Busy
  <2> QED BY <2>1, <2>2 DEF FailureInv, NoSilentFailure, ReportedWasHeard, AckedWasHeard, Heard, SameRun
<1>10. CASE PowerCut
  <2>1. UNCHANGED <<status, ha>> /\ ~run'.acked
    BY <1>10 DEF PowerCut, Idle
  <2>2. failures' = failures \cup ({run.inv} \ {NoInv})
        /\ mute' = mute \cup due \cup ({reporter, run.inv} \ {NoInv})
    BY <1>10 DEF PowerCut
  <2>3. NoInv \notin failures
    BY DEF TypeOK
  <2>4. NoSilentFailure'
    BY <2>1, <2>2, <2>3 DEF FailureInv, NoSilentFailure, Heard
  <2> QED BY <2>1, <2>4 DEF FailureInv, ReportedWasHeard, AckedWasHeard, Heard, SameRun
<1>11. ASSUME NEW inv \in due, FailureStaysSilent(inv) PROVE FailureInv'
  <2>1. inv \in Heard
    BY <1>11 DEF FailureStaysSilent, SameRun, FailureInv, ReportedWasHeard
  <2> QED BY <1>11, <2>1 DEF FailureStaysSilent, FailureInv, NoSilentFailure,
             ReportedWasHeard, AckedWasHeard, Heard, SameRun
<1>12. ASSUME NEW inv \in due, FailureSpeaks(inv) PROVE FailureInv'
  <2>1. NoInv \notin failures
    BY DEF TypeOK
  <2> QED BY <1>12, <2>1 DEF FailureSpeaks, FailureInv, NoSilentFailure,
             ReportedWasHeard, AckedWasHeard, Heard, SameRun
<1>13. CASE FailureSend
  <2> DEFINE m == [inv |-> reporter, by |-> "onfailure", error |-> TRUE, compared |-> FALSE]
  <2>0. m \in ha' /\ m.error /\ m.inv = reporter /\ ha \subseteq ha'
    BY <1>13 DEF FailureSend
  <2> HIDE DEF m
  <2>1. Heard \subseteq Heard' /\ reporter \in Heard'
    BY <2>0 DEF Heard
  <2> QED BY <1>13, <2>1 DEF FailureSend, FailureInv, NoSilentFailure,
             ReportedWasHeard, AckedWasHeard, SameRun
<1>14. CASE FailureSendFails
  BY <1>14 DEF FailureSendFails, FailureInv, NoSilentFailure,
               ReportedWasHeard, AckedWasHeard, Heard, SameRun
<1> QED
  BY <1>1, <1>2, <1>3, <1>4, <1>5, <1>6, <1>7, <1>8, <1>9, <1>10, <1>11, <1>12, <1>13, <1>14
     DEF Next, RunStep, FailureStep

\* A unit that failed is never passed over in silence, whatever fails, in whatever
\* order the runs and the OnFailure unit act, for any number of days and starts.
THEOREM NoFailureIsSilent == Spec => []NoSilentFailure
<1>1. TypeOK /\ FailureInv /\ [Next]_vars => FailureInv'
  <2> SUFFICES ASSUME TypeOK, FailureInv, [Next]_vars PROVE FailureInv'
    OBVIOUS
  <2>1. CASE UNCHANGED vars
    BY <2>1 DEF vars, FailureInv, NoSilentFailure, ReportedWasHeard, AckedWasHeard, Heard, SameRun
  <2> QED BY <2>1, FailureStepKeeps
<1>2. FailureInv => NoSilentFailure
  BY DEF FailureInv
<1> QED BY <1>1, <1>2, InitFailure, TypesHold, PTL DEF Spec

(***************************************************************************)
(* The first run.  The message is built from what the run knew when it     *)
(* made its list, so the invariant carries that verdict to the message.    *)
(***************************************************************************)

LossIsNoted ==
    status.exists /\ run.prev = NoSnap =>
        /\ run.pc \in {"snapshot", "prune"} => run.problem
        /\ run.pc = "send" => run.err

LEMMA InitFirst == Init => LossIsNoted
BY DEF Init, LossIsNoted

\* Every step keeps the verdict.
LEMMA FirstStepKeeps ==
    ASSUME TypeOK, LossIsNoted, Next
    PROVE  LossIsNoted'
<1> USE DEF world, program, history
<1>1. ASSUME \/ Tick \/ TimerMerged \/ FailureStep
             \/ \E f \in Files : AddFile(f) \/ DeleteFile(f)
             \/ \E s \in snaps : PersonDestroys(s)
      PROVE  LossIsNoted'
  <2>1. UNCHANGED <<status, run>>
    BY <1>1 DEF Tick, AddFile, DeleteFile, PersonDestroys, TimerMerged, FailureStep,
                FailureStaysSilent, FailureSpeaks, FailureSend, FailureSendFails
  <2> QED BY <2>1 DEF LossIsNoted
<1>2. ASSUME TimerStart \/ ManualStart \/ Exit \/ Kill \/ PowerCut PROVE LossIsNoted'
  <2>1. CASE TimerStart
    BY <2>1 DEF TimerStart, Started, Idle, LossIsNoted
  <2>2. CASE ManualStart
    <3>1. run'.pc = "list"
      BY <2>2 DEF ManualStart, Started, Idle
    <3> QED BY <3>1 DEF LossIsNoted
  <2>3. CASE Exit \/ Kill \/ PowerCut
    <3>1. run'.pc = "idle"
      BY <2>3 DEF Exit, Kill, PowerCut, Idle
    <3> QED BY <3>1 DEF LossIsNoted
  <2> QED BY <1>2, <2>1, <2>2, <2>3
<1>3. ASSUME InvalidConfig \/ StrandEarly \/ DiffFails \/ SnapshotFails \/ DestroyFails
      PROVE  LossIsNoted'
  <2>1. run'.pc \in {"exit", "send"} /\ run'.err
    BY <1>3 DEF InvalidConfig, StrandEarly, DiffFails, SnapshotFails, DestroyFails,
                Stranded, TypeOK, Run
  <2> QED BY <2>1 DEF LossIsNoted
<1>4. CASE List
  <2>1. CASE run'.listed = {}
    BY <1>4, <2>1, ListShape DEF LossIsNoted
  <2>2. CASE run'.listed # {}
    <3>1. run'.prev \in Snapshot
      BY <1>4, <2>2, ListShape DEF IsLatest, TypeOK
    <3> QED BY <3>1 DEF LossIsNoted, Snapshot, NoSnap
  <2> QED BY <2>1, <2>2
<1>5. CASE Diff
  <2>1. run'.prev \in Snapshot
    BY <1>5, DiffShape DEF TypeOK
  <2> QED BY <2>1 DEF LossIsNoted, Snapshot, NoSnap
<1>6. ASSUME MakeSnapshot \/ SnapshotExists \/ (\E s \in run.todo : Destroy(s)) \/ PruneDone
      PROVE  LossIsNoted'
  <2>1. /\ status' = status /\ run.pc \in {"snapshot", "prune"}
        /\ run'.prev = run.prev /\ run'.problem = run.problem
        /\ run'.pc = "prune" \/ (run'.pc = "send" /\ run'.err = run.problem)
    BY <1>6 DEF MakeSnapshot, SnapshotExists, Built, Destroy, PruneDone, TypeOK, Run
  <2> QED BY <2>1 DEF LossIsNoted
<1>7. ASSUME Send \/ SendFails \/ WriteState \/ WriteStateFails PROVE LossIsNoted'
  <2>1. run'.pc \in {"state", "aftercare", "exit"}
    BY <1>7 DEF Send, SendFails, WriteState, WriteStateFails, AfterWrite, TypeOK, Run
  <2> QED BY <2>1 DEF LossIsNoted
<1> QED BY <1>1, <1>2, <1>3, <1>4, <1>5, <1>6, <1>7 DEF Next, RunStep

\* Once a run has left its status.json, a run that finds no reference reports an
\* error and never again a first run, whatever failed in between and whether or not
\* that file can be read.
THEOREM FirstRunIsFirst == Spec => []FirstRunOnlyOnce
<1>1. TypeOK /\ LossIsNoted /\ [Next]_vars => LossIsNoted'
  <2>1. ASSUME LossIsNoted, UNCHANGED vars PROVE LossIsNoted'
    BY <2>1 DEF vars, LossIsNoted
  <2> QED BY <2>1, FirstStepKeeps
<1>2. LossIsNoted => FirstRunOnlyOnce
  BY DEF LossIsNoted, FirstRunOnlyOnce
<1> QED BY <1>1, <1>2, InitFirst, TypesHold, PTL DEF Spec

(***************************************************************************)
(* The choice of Retention.                                                *)
(***************************************************************************)

\* Two snapshots cannot each be newer than the other.
LEMMA NewerIsOneWay ==
    ASSUME NEW s \in Snapshot, NEW t \in Snapshot, NewerThan(s, t)
    PROVE  ~NewerThan(t, s)
BY DEF Snapshot, Moment, NewerThan, Before

\* Guardrail 2 spares the newest of a list, also when the snapshot of today is
\* put in front of it: at most one own snapshot ranks above it.
LEMMA LatestIsSpared ==
    ASSUME NEW S \in SUBSET Snapshot, NEW p, IsLatest(p, S), NEW N, NEW n,
           N \subseteq {n}, NEW at
    PROVE  p \notin SnapshotsToDelete(S \cup N, at)
<1> DEFINE above == {t \in Own(S \cup N) : NewerThan(t, p)}
<1>1. above \subseteq {n}
  <2> SUFFICES ASSUME NEW t \in above, t # n PROVE FALSE
    OBVIOUS
  <2>1. t \in S /\ NewerThan(t, p)
    BY DEF Own
  <2>2. p \in S /\ (t # p => NewerThan(p, t))
    BY <2>1 DEF IsLatest
  <2> QED BY <2>1, <2>2, NewerIsOneWay
<1>2. Cardinality(above) \in {0, 1}
  <2>1. above = {} \/ above = {n}
    BY <1>1
  <2>2. Cardinality({}) = 0 /\ Cardinality({n}) = 1
    BY FS_EmptySet, FS_Singleton
  <2> HIDE DEF above
  <2> QED BY <2>1, <2>2
<1>3. Rank(p, Own(S \cup N)) = Cardinality(above)
  BY DEF Rank
<1>4. p \notin Candidates(S \cup N)
  <2> HIDE DEF above
  <2> QED BY <1>2, <1>3, RetentionAssumption DEF Candidates
<1> QED BY <1>4 DEF SnapshotsToDelete, TooOld

\* Guardrail 1 and 2 aside, what goes is older than KEEP_DAYS at the start of the run.
LEMMA ChosenAreOld ==
    ASSUME NEW S, NEW at, NEW s \in SnapshotsToDelete(S, at)
    PROVE  Before(s.created, DaysAgo(at, KeepDays))
BY DEF SnapshotsToDelete, TooOld

(***************************************************************************)
(* The run.                                                                *)
(***************************************************************************)

\* What a run compares with is the newest snapshot of the list it works from.
ComparedIsLatest ==
    run.pc \in {"diff", "snapshot"} =>
        IF run.listed = {} THEN run.prev = NoSnap ELSE IsLatest(run.prev, run.listed)

PreviousIsSpared == run.pc = "prune" => run.prev \notin run.todo

TodoIsOld ==
    run.pc = "prune" => \A s \in run.todo : Before(s.created, DaysAgo(run.start, KeepDays))

StartIsPast == run.pc # "idle" => ~Before(clock, run.start)

PruneInv == ComparedIsLatest /\ PreviousIsSpared /\ TodoIsOld /\ StartIsPast

\* No run, no list and no choice in the first state.
LEMMA InitPrune == Init => PruneInv
BY DEF Init, Idle, PruneInv, ComparedIsLatest, PreviousIsSpared, TodoIsOld, StartIsPast

\* NoSnap is not a snapshot.
LEMMA NoSnapIsNone == NoSnap \notin Snapshot
BY DEF NoSnap, Snapshot

\* A run that has its snapshot spares the one it compared with.
LEMMA BuiltSpares ==
    ASSUME TypeOK, PruneInv, run.pc = "snapshot", NEW N \in SUBSET Snapshot, NEW n,
           N \subseteq {n}, run' = Built(run.listed \cup N), clock' = clock
    PROVE  PruneInv'
<1>1. /\ run'.pc = "prune" /\ run'.prev = run.prev /\ run'.start = run.start
      /\ run'.todo = SnapshotsToDelete(run.listed \cup N, run.start)
  BY DEF Built, TypeOK, Run
<1>2. run.listed \in SUBSET Snapshot
  BY DEF TypeOK, Run
<1>3. run.prev \notin run'.todo
  <2>1. CASE run.listed = {}
    <3>1. run.prev = NoSnap
      BY <2>1 DEF PruneInv, ComparedIsLatest
    <3>2. SnapshotsToDelete(run.listed \cup N, run.start) \subseteq run.listed \cup N
      BY ChosenAreListed
    <3>3. run.listed \cup N \subseteq Snapshot
      BY <1>2
    <3>4. run'.todo \subseteq Snapshot
      BY <1>1, <3>2, <3>3
    <3> QED BY <3>1, <3>4, NoSnapIsNone
  <2>2. CASE run.listed # {}
    <3>1. IsLatest(run.prev, run.listed)
      BY <2>2 DEF PruneInv, ComparedIsLatest
    <3>2. run.prev \notin SnapshotsToDelete(run.listed \cup N, run.start)
      BY <1>2, <3>1, LatestIsSpared
    <3> QED BY <1>1, <3>2
  <2> QED BY <2>1, <2>2
<1>4. \A s \in run'.todo : Before(s.created, DaysAgo(run.start, KeepDays))
  BY <1>1, ChosenAreOld
<1> QED
  BY <1>1, <1>3, <1>4 DEF PruneInv, ComparedIsLatest, PreviousIsSpared, TodoIsOld, StartIsPast

\* Steps that leave the run and the clock alone.
LEMMA RunStays == ASSUME PruneInv, UNCHANGED <<run, clock>> PROVE PruneInv'
BY DEF PruneInv, ComparedIsLatest, PreviousIsSpared, TodoIsOld, StartIsPast

\* Steps to a part of the run about which only the start says something.
LEMMA RunGoesOn ==
    ASSUME PruneInv, clock' = clock, run.pc # "idle",
           run'.start = run.start, run'.pc \notin {"diff", "snapshot", "prune"}
    PROVE  PruneInv'
BY DEF PruneInv, ComparedIsLatest, PreviousIsSpared, TodoIsOld, StartIsPast

\* Every step keeps the invariant.
LEMMA PruneStepKeeps ==
    ASSUME TypeOK, PruneInv, Next
    PROVE  PruneInv'
<1> USE DEF world, program, history
<1>1. CASE Tick
  <2>1. run' = run /\ (run.pc = "idle" \/ run.start = clock)
    BY <1>1 DEF Tick
  <2>2. run.pc # "idle" => ~Before(clock', run.start)
    BY <1>1, <2>1 DEF Tick, TypeOK, Moment, Before
  <2> QED
    BY <2>1, <2>2 DEF PruneInv, ComparedIsLatest, PreviousIsSpared, TodoIsOld, StartIsPast
<1>2. ASSUME \/ \E f \in Files : AddFile(f) \/ DeleteFile(f)
             \/ \E s \in snaps : PersonDestroys(s)
             \/ TimerMerged
             \/ FailureStep
      PROVE  PruneInv'
  <2>1. UNCHANGED <<run, clock>>
    BY <1>2 DEF AddFile, DeleteFile, PersonDestroys, TimerMerged, FailureStep,
                FailureStaysSilent, FailureSpeaks, FailureSend, FailureSendFails
  <2> QED BY <2>1, RunStays
<1>3. ASSUME TimerStart \/ ManualStart PROVE PruneInv'
  <2>1. clock' = clock /\ \E inv : run' = Started(inv)
    BY <1>3 DEF TimerStart, ManualStart
  <2>2. run'.pc = "list" /\ run'.start = clock
    BY <2>1 DEF Started, Idle
  <2>3. ~Before(clock, clock)
    BY DEF TypeOK, Moment, Before
  <2> QED
    BY <2>1, <2>2, <2>3 DEF PruneInv, ComparedIsLatest, PreviousIsSpared, TodoIsOld, StartIsPast
<1>4. ASSUME \/ InvalidConfig \/ StrandEarly \/ DiffFails \/ SnapshotFails \/ DestroyFails
             \/ PruneDone \/ Send \/ SendFails \/ WriteState \/ WriteStateFails
      PROVE  PruneInv'
  <2>1. clock' = clock /\ run.pc # "idle"
    BY <1>4 DEF InvalidConfig, StrandEarly, DiffFails, SnapshotFails, DestroyFails,
                PruneDone, Send, SendFails, WriteState, WriteStateFails
  <2>2. run'.start = run.start /\ run'.pc \in {"send", "state", "aftercare", "exit"}
    BY <1>4 DEF InvalidConfig, StrandEarly, DiffFails, SnapshotFails, DestroyFails, Stranded,
                PruneDone, Send, SendFails, WriteState, WriteStateFails, AfterWrite,
                TypeOK, Run
  <2> QED BY <2>1, <2>2, RunGoesOn
<1>5. ASSUME Exit \/ Kill \/ PowerCut PROVE PruneInv'
  <2>1. run'.pc = "idle"
    BY <1>5 DEF Exit, Kill, PowerCut, Idle
  <2> QED
    BY <2>1 DEF PruneInv, ComparedIsLatest, PreviousIsSpared, TodoIsOld, StartIsPast
<1>6. CASE List
  BY <1>6, ListShape
     DEF PruneInv, ComparedIsLatest, PreviousIsSpared, TodoIsOld, StartIsPast
<1>7. CASE Diff
  BY <1>7, DiffShape
     DEF PruneInv, ComparedIsLatest, PreviousIsSpared, TodoIsOld, StartIsPast
<1>8. CASE MakeSnapshot
  <2> DEFINE entry == [name |-> run.start.day, created |-> run.start, files |-> live]
  <2>1. entry \in Snapshot
    BY DEF TypeOK, Run, Moment, Snapshot
  <2>2. /\ clock' = clock /\ run.pc = "snapshot"
        /\ run' = Built(run.listed \cup {entry})
    BY <1>8 DEF MakeSnapshot
  <2> HIDE DEF entry
  <2> QED BY <2>1, <2>2, BuiltSpares
<1>9. CASE SnapshotExists
  <2>1. clock' = clock /\ run.pc = "snapshot" /\ run' = Built(run.listed)
    BY <1>9 DEF SnapshotExists
  <2>2. run.listed \cup {} = run.listed
    OBVIOUS
  <2>3. run' = Built(run.listed \cup {})
    BY <2>1, <2>2
  <2>4. {} \in SUBSET Snapshot /\ {} \subseteq {NoSnap}
    OBVIOUS
  <2> QED BY <2>1, <2>3, <2>4, BuiltSpares
<1>10. ASSUME NEW s \in run.todo, Destroy(s) PROVE PruneInv'
  <2>1. /\ clock' = clock /\ run.pc = "prune" /\ run'.pc = "prune"
        /\ run'.todo = run.todo \ {s} /\ run'.prev = run.prev /\ run'.start = run.start
    BY <1>10 DEF Destroy, TypeOK, Run
  <2> QED
    BY <2>1 DEF PruneInv, ComparedIsLatest, PreviousIsSpared, TodoIsOld, StartIsPast
<1> QED
  BY <1>1, <1>2, <1>3, <1>4, <1>5, <1>6, <1>7, <1>8, <1>9, <1>10 DEF Next, RunStep

\* What a step prunes is what the run had condemned.
LEMMA PrunedWasCondemned ==
    ASSUME TypeOK, Next
    PROVE  Pruned \subseteq (IF run.pc = "prune" THEN run.todo ELSE {})
<1> USE DEF world, program, history, Pruned
<1>1. CASE run.pc # "prune"
  BY <1>1
<1>2. CASE run.pc = "prune" /\ run' = run
  BY <1>2
<1>3. ASSUME run.pc = "prune", NEW s \in run.todo, Destroy(s) PROVE Pruned \subseteq run.todo
  BY <1>3 DEF Destroy
<1>4. ASSUME run.pc = "prune", run' # run, ~\E s \in run.todo : Destroy(s)
      PROVE  snaps' = snaps
  <2>1. ~(\/ InvalidConfig \/ StrandEarly \/ List
          \/ Diff \/ DiffFails
          \/ MakeSnapshot \/ SnapshotExists \/ SnapshotFails)
    BY <1>4 DEF InvalidConfig, StrandEarly, List, Diff, DiffFails,
                MakeSnapshot, SnapshotExists, SnapshotFails
  <2>2. ~(\E s \in snaps : PersonDestroys(s))
    BY <1>4 DEF PersonDestroys
  <2>3. \/ Tick \/ \E f \in Files : AddFile(f) \/ DeleteFile(f)
        \/ TimerStart \/ TimerMerged \/ ManualStart
        \/ DestroyFails \/ PruneDone
        \/ Send \/ SendFails \/ WriteState \/ WriteStateFails \/ Exit
        \/ Kill \/ PowerCut
        \/ FailureStep
    BY <1>4, <2>1, <2>2 DEF Next, RunStep
  <2> QED
    BY <2>3 DEF Tick, AddFile, DeleteFile, TimerStart, TimerMerged, ManualStart,
                DestroyFails, PruneDone, Send, SendFails, WriteState, WriteStateFails, Exit,
                Kill, PowerCut, FailureStep, FailureStaysSilent, FailureSpeaks,
                FailureSend, FailureSendFails
<1> QED BY <1>1, <1>2, <1>3, <1>4

\* PruneInv holds in every reachable state.
LEMMA PruningIsSafe == Spec => []PruneInv
<1>1. TypeOK /\ PruneInv /\ [Next]_vars => PruneInv'
  <2>1. TypeOK /\ PruneInv /\ Next => PruneInv'
    BY PruneStepKeeps
  <2>2. PruneInv /\ UNCHANGED vars => PruneInv'
    BY RunStays DEF vars
  <2> QED BY <2>1, <2>2
<1> QED BY <1>1, InitPrune, TypesHold, PTL DEF Spec

\* In every behaviour, pruning spares the snapshot the run compared with.
THEOREM PreviousIsKept == Spec => PreviousKept
<1>1. TypeOK /\ PruneInv /\ [Next]_vars => [\A s \in Pruned : s # run.prev]_vars
  <2>1. ASSUME TypeOK, PruneInv, Next PROVE \A s \in Pruned : s # run.prev
    BY <2>1, PrunedWasCondemned DEF PruneInv, PreviousIsSpared
  <2> QED BY <2>1
<1> QED BY <1>1, TypesHold, PruningIsSafe, PTL DEF Spec, PreviousKept

\* In every behaviour, no run prunes a snapshot before the date its message promised.
THEOREM PromiseIsKept == Spec => PromiseKept
<1>1. TypeOK /\ PruneInv /\ [Next]_vars
        => [\A s \in Pruned : clock.day >= s.created.day + KeepDays]_vars
  <2>1. ASSUME TypeOK, PruneInv, Next, NEW s \in Pruned
        PROVE  clock.day >= s.created.day + KeepDays
    <3>1. run.pc = "prune" /\ s \in run.todo /\ s \in Snapshot
      BY <2>1, PrunedWasCondemned DEF TypeOK, Run
    <3>2. Before(s.created, DaysAgo(run.start, KeepDays)) /\ ~Before(clock, run.start)
      BY <2>1, <3>1 DEF PruneInv, TodoIsOld, StartIsPast
    <3>3. clock \in Moment /\ run.start \in Moment /\ s.created \in Moment
      BY <2>1, <3>1 DEF TypeOK, Run, Snapshot
    <3> QED BY <3>2, <3>3, RetentionAssumption DEF Moment, Before, DaysAgo
  <2> QED BY <2>1
<1> QED BY <1>1, TypesHold, PruningIsSafe, PTL DEF Spec, PromiseKept

(***************************************************************************)
(* Guardrail 2: the history that stays.  A person who destroys snapshots   *)
(* between the list and the pruning can leave fewer, so that the theorem   *)
(* is about a dataset in which nobody does.                                *)
(***************************************************************************)

\* A set of natural numbers that is not empty has a least one.
LEMMA LeastNumber ==
    ASSUME NEW T \in SUBSET Nat, T # {}
    PROVE  \E m \in T : \A n \in T : m =< n
<1>1. PICK m \in T : \A n \in T : ~ (<<n, m>> \in OpToRel(<, Nat))
  <2>1. \E m \in T : \A n \in T : ~ (<<n, m>> \in OpToRel(<, Nat))
    BY WFMin, NatLessThanWellFounded, Zenon
  <2> QED BY <2>1, Zenon
<1>2. \A n \in T : ~(n < m)
  BY <1>1, Zenon DEF OpToRel
<1> QED BY <1>2

\* The order of SortNewestFirst is transitive.
LEMMA NewerIsTransitive ==
    ASSUME NEW s \in Snapshot, NEW t \in Snapshot, NEW u \in Snapshot,
           NewerThan(s, t), NewerThan(t, u)
    PROVE  NewerThan(s, u)
BY DEF Snapshot, Moment, NewerThan, Before

\* What is newer than a snapshot ranks above it.
LEMMA NewerRanksAbove ==
    ASSUME NEW L \in SUBSET Snapshot, IsFiniteSet(L), NEW s \in L, NEW t \in L, NewerThan(t, s)
    PROVE  Rank(t, L) < Rank(s, L) /\ Rank(t, L) \in Nat /\ Rank(s, L) \in Nat
<1> DEFINE above(u) == {v \in L : NewerThan(v, u)}
<1>1. \A u : IsFiniteSet(above(u))
  BY FS_Subset
<1>2. above(t) \subseteq above(s) /\ t \in above(s) /\ t \notin above(t)
  BY NewerIsTransitive, NewerIsOneWay
<1>3. above(t) \subseteq above(s) /\ above(t) # above(s)
  BY <1>2
<1>4. Cardinality(above(t)) < Cardinality(above(s))
  <2> HIDE DEF above
  <2> QED BY <1>1, <1>3, FS_Subset, FS_CardinalityType
<1>5. Cardinality(above(t)) \in Nat /\ Cardinality(above(s)) \in Nat
  <2> HIDE DEF above
  <2> QED BY <1>1, FS_CardinalityType
<1>6. Rank(t, L) = Cardinality(above(t)) /\ Rank(s, L) = Cardinality(above(s))
  BY DEF Rank
<1> QED BY <1>4, <1>5, <1>6

\* When something is chosen at all, MinimumKept of the list are not: everything above
\* the first candidate.
LEMMA EnoughIsSpared ==
    ASSUME NEW L \in SUBSET Snapshot, IsFiniteSet(L), ForeignNames = {}, NEW at,
           SnapshotsToDelete(L, at) # {}
    PROVE  Cardinality(L \ SnapshotsToDelete(L, at)) >= MinimumKept
<1> DEFINE ranks == {Rank(s, L) : s \in Candidates(L)}
<1>1. Own(L) = L
  BY DEF Own
<1>2. Candidates(L) = {s \in L : Rank(s, L) >= MinimumKept}
  BY <1>1 DEF Candidates
<1>3. \A s : IsFiniteSet({t \in L : NewerThan(t, s)})
  BY FS_Subset
<1>4. \A s : Rank(s, L) \in Nat
  BY <1>3, FS_CardinalityType DEF Rank
<1>5. SnapshotsToDelete(L, at) \subseteq Candidates(L)
  BY DEF SnapshotsToDelete, TooOld
<1>6. ranks \in SUBSET Nat /\ ranks # {}
  BY <1>4, <1>5
<1>7. PICK first \in Candidates(L) : \A s \in Candidates(L) : Rank(first, L) =< Rank(s, L)
  <2>1. \E m \in ranks : \A n \in ranks : m =< n
    <3> HIDE DEF ranks
    <3> QED BY <1>6, LeastNumber
  <2> QED BY <2>1
<1> DEFINE above == {t \in L : NewerThan(t, first)}
<1>8. above \subseteq L \ Candidates(L)
  <2> SUFFICES ASSUME NEW t \in L, NewerThan(t, first), t \in Candidates(L) PROVE FALSE
    OBVIOUS
  <2>1. first \in L
    BY <1>2
  <2>2. Rank(t, L) < Rank(first, L) /\ Rank(t, L) \in Nat /\ Rank(first, L) \in Nat
    BY <2>1, NewerRanksAbove
  <2> QED BY <1>7, <2>2
<1>9. Cardinality(above) >= MinimumKept
  BY <1>2 DEF Rank
<1>10. above \subseteq L \ SnapshotsToDelete(L, at) /\ IsFiniteSet(L \ SnapshotsToDelete(L, at))
  BY <1>5, <1>8, FS_Subset
<1> HIDE DEF above
<1>11. /\ Cardinality(above) =< Cardinality(L \ SnapshotsToDelete(L, at))
       /\ Cardinality(above) \in Nat /\ Cardinality(L \ SnapshotsToDelete(L, at)) \in Nat
  BY <1>10, FS_Subset, FS_CardinalityType
<1> QED BY <1>9, <1>11, RetentionAssumption

\* Without a person what a run has listed is there until it makes its snapshot; then
\* enough of what there is was not chosen to go.
HistoryInv ==
    /\ IsFiniteSet(snaps)
    /\ run.pc \in {"diff", "snapshot"} => run.listed \subseteq snaps
    /\ run.pc = "prune" /\ run.todo # {} => Cardinality(snaps \ run.todo) >= MinimumKept

\* No snapshot and no run in the first state.
LEMMA InitHistory == Init => HistoryInv
BY FS_EmptySet DEF Init, Idle, HistoryInv

\* A run that chooses from what is there, or from that and a new entry in the place of
\* the new snapshot, leaves enough.
LEMMA EnoughIsLeft ==
    ASSUME NEW L \in SUBSET Snapshot, NEW S \in SUBSET Snapshot, IsFiniteSet(S),
           L \subseteq S, ForeignNames = {}, NEW at, SnapshotsToDelete(L, at) # {}
    PROVE  Cardinality(S \ SnapshotsToDelete(L, at)) >= MinimumKept
<1> DEFINE chosen == SnapshotsToDelete(L, at)
<1>1. Cardinality(L \ chosen) >= MinimumKept
  BY EnoughIsSpared, FS_Subset
<1>2. L \ chosen \subseteq S \ chosen /\ IsFiniteSet(S \ chosen)
  BY FS_Subset
<1> HIDE DEF chosen
<1>3. /\ Cardinality(L \ chosen) =< Cardinality(S \ chosen)
      /\ Cardinality(L \ chosen) \in Nat /\ Cardinality(S \ chosen) \in Nat
  BY <1>2, FS_Subset, FS_CardinalityType
<1> QED BY <1>1, <1>3, RetentionAssumption DEF chosen

\* Of what is there once the run has made its snapshot enough is left: the entry in
\* its list stands for the new snapshot.
LEMMA BuiltKeepsHistory ==
    ASSUME TypeOK, HistoryInv, MakeSnapshot
    PROVE  HistoryInv'
<1> DEFINE new == [name |-> run.start.day, created |-> clock, files |-> live]
           entry == [name |-> run.start.day, created |-> run.start, files |-> live]
           chosen == SnapshotsToDelete(run.listed \cup {entry}, run.start)
<1>1. /\ run.pc = "snapshot" /\ run.listed \subseteq snaps /\ ~Exists
      /\ snaps' = snaps \cup {new} /\ run' = Built(run.listed \cup {entry})
  BY DEF MakeSnapshot, HistoryInv
<1>2. run'.pc = "prune" /\ run'.todo = chosen
  BY <1>1 DEF Built, TypeOK, Run
<1>3. entry \in Snapshot /\ snaps \in SUBSET Snapshot /\ IsFiniteSet(snaps)
  BY DEF TypeOK, Run, Moment, Snapshot, HistoryInv
<1>4. new \notin snaps /\ entry \notin snaps
  BY <1>1 DEF Exists
<1>5. entry \notin chosen
  <2> SUFFICES ASSUME entry \in chosen PROVE FALSE
    OBVIOUS
  <2>1. Before(run.start, DaysAgo(run.start, KeepDays))
    BY ChosenAreOld
  <2> QED BY <2>1, RetentionAssumption DEF Before, DaysAgo, TypeOK, Run, Moment
<1>6. chosen \subseteq snaps
  BY <1>1, <1>5, ChosenAreListed
<1>7. chosen # {} => Cardinality((snaps \cup {entry}) \ chosen) >= MinimumKept
  <2>1. /\ run.listed \cup {entry} \in SUBSET Snapshot /\ snaps \cup {entry} \in SUBSET Snapshot
        /\ run.listed \cup {entry} \subseteq snaps \cup {entry}
        /\ IsFiniteSet(snaps \cup {entry})
    BY <1>1, <1>3, FS_AddElement
  <2> HIDE DEF entry
  <2> QED BY <2>1, EnoughIsLeft, WatchAssumption
<1> HIDE DEF new, entry, chosen
<1>8. /\ (snaps \cup {entry}) \ chosen = (snaps \ chosen) \cup {entry}
      /\ (snaps \cup {new}) \ chosen = (snaps \ chosen) \cup {new}
  BY <1>4, <1>6
<1>9. IsFiniteSet(snaps \ chosen)
  BY <1>3, FS_Subset
<1>10. Cardinality((snaps \cup {new}) \ chosen) = Cardinality((snaps \cup {entry}) \ chosen)
  BY <1>4, <1>8, <1>9, FS_AddElement
<1> QED BY <1>1, <1>2, <1>3, <1>7, <1>10, FS_AddElement DEF HistoryInv

\* Every step but a person's keeps it.
LEMMA HistoryStepKeeps ==
    ASSUME "human" \notin Faults, TypeOK, HistoryInv, Next
    PROVE  HistoryInv'
<1> USE DEF world, program, history
<1>1. CASE Tick \/ (\E f \in Files : AddFile(f) \/ DeleteFile(f)) \/ TimerMerged \/ FailureStep
  <2>1. UNCHANGED <<run, snaps>>
    BY <1>1 DEF Tick, AddFile, DeleteFile, TimerMerged, FailureStep,
                FailureStaysSilent, FailureSpeaks, FailureSend, FailureSendFails
  <2> QED BY <2>1 DEF HistoryInv
<1>2. CASE \E s \in snaps : PersonDestroys(s)
  BY <1>2 DEF PersonDestroys
<1>3. CASE TimerStart \/ ManualStart
  <2>1. snaps' = snaps /\ \E inv : run' = Started(inv)
    BY <1>3 DEF TimerStart, ManualStart
  <2>2. run'.pc = "list"
    BY <2>1 DEF Started, Idle
  <2> QED BY <2>1, <2>2 DEF HistoryInv
<1>4. CASE InvalidConfig \/ StrandEarly \/ DiffFails \/ DestroyFails \/ PruneDone
             \/ Send \/ SendFails \/ WriteState \/ WriteStateFails
  <2>1. snaps' = snaps
    BY <1>4 DEF InvalidConfig, StrandEarly, DiffFails, DestroyFails,
                PruneDone, Send, SendFails, WriteState, WriteStateFails
  <2>2. run'.pc \in {"send", "state", "aftercare", "exit"}
    BY <1>4 DEF InvalidConfig, StrandEarly, DiffFails, DestroyFails, Stranded,
                PruneDone, Send, SendFails, WriteState, WriteStateFails, AfterWrite,
                TypeOK, Run
  <2> QED BY <2>1, <2>2 DEF HistoryInv
<1>5. CASE Exit \/ Kill \/ PowerCut
  <2>1. run'.pc = "idle" /\ snaps' = snaps
    BY <1>5 DEF Exit, Kill, PowerCut, Idle
  <2> QED BY <2>1 DEF HistoryInv
<1>6. CASE SnapshotFails
  <2>1. run'.pc = "send"
    BY <1>6 DEF SnapshotFails, Stranded, TypeOK, Run
  <2>2. snaps' = snaps \/ \E new : snaps' = snaps \cup {new}
    BY <1>6 DEF SnapshotFails
  <2> QED BY <2>1, <2>2, FS_AddElement DEF HistoryInv
<1>7. CASE List
  BY <1>7, ListShape DEF HistoryInv
<1>8. CASE Diff
  BY <1>8, DiffShape DEF HistoryInv
<1>9. CASE MakeSnapshot
  BY <1>9, BuiltKeepsHistory
<1>10. CASE SnapshotExists
  <2>1. /\ snaps' = snaps /\ run.listed \subseteq snaps
        /\ run'.pc = "prune" /\ run'.todo = SnapshotsToDelete(run.listed, run.start)
    BY <1>10 DEF SnapshotExists, Built, HistoryInv, TypeOK, Run
  <2>2. run'.todo # {} => Cardinality(snaps \ run'.todo) >= MinimumKept
    BY <2>1, EnoughIsLeft, WatchAssumption DEF HistoryInv, TypeOK, Run
  <2> QED BY <2>1, <2>2 DEF HistoryInv
<1>11. ASSUME NEW s \in run.todo, Destroy(s) PROVE HistoryInv'
  <2>1. /\ run.pc = "prune" /\ run'.pc = "prune"
        /\ run'.todo = run.todo \ {s} /\ snaps' = snaps \ {s}
    BY <1>11 DEF Destroy, TypeOK, Run
  <2>2. snaps' \ run'.todo = snaps \ run.todo
    BY <2>1
  <2>3. IsFiniteSet(snaps')
    BY <2>1, FS_RemoveElement DEF HistoryInv
  <2> QED BY <2>1, <2>2, <2>3 DEF HistoryInv
<1> QED
  BY <1>1, <1>2, <1>3, <1>4, <1>5, <1>6, <1>7, <1>8, <1>9, <1>10, <1>11 DEF Next, RunStep

\* As long as nobody destroys snapshots by hand, pruning leaves MinimumKept of them,
\* however long the host was off and however old everything is.
THEOREM HistoryIsKept ==
    ASSUME "human" \notin Faults
    PROVE  Spec => HistoryKept
<1>1. TypeOK /\ HistoryInv /\ [Next]_vars => HistoryInv'
  <2>1. TypeOK /\ HistoryInv /\ Next => HistoryInv'
    BY HistoryStepKeeps
  <2>2. HistoryInv /\ UNCHANGED vars => HistoryInv'
    BY DEF HistoryInv, vars
  <2> QED BY <2>1, <2>2
<1>2. TypeOK /\ HistoryInv /\ [Next]_vars
        => [Pruned # {} => Cardinality(snaps') >= MinimumKept]_vars
  <2>1. ASSUME TypeOK, HistoryInv, Next, Pruned # {}
        PROVE  Cardinality(snaps') >= MinimumKept
    <3>1. HistoryInv'
      BY <2>1, HistoryStepKeeps
    <3>2. PICK s \in run.todo : s \in snaps /\ s \notin snaps' /\ run.pc = "prune"
      BY <2>1, PrunedWasCondemned DEF Pruned
    <3>3. snaps \ run.todo \subseteq snaps'
      BY <2>1, PrunedWasCondemned DEF Pruned
    <3>4. /\ IsFiniteSet(snaps') /\ IsFiniteSet(snaps \ run.todo)
          /\ Cardinality(snaps \ run.todo) >= MinimumKept
      BY <2>1, <3>1, <3>2, FS_Subset DEF HistoryInv
    <3>5. /\ Cardinality(snaps \ run.todo) =< Cardinality(snaps')
          /\ Cardinality(snaps \ run.todo) \in Nat /\ Cardinality(snaps') \in Nat
      BY <3>3, <3>4, FS_Subset, FS_CardinalityType
    <3> QED BY <3>4, <3>5, RetentionAssumption
  <2> QED BY <2>1
<1> QED BY <1>1, <1>2, InitHistory, TypesHold, PTL DEF Spec, HistoryKept
=============================================================================
