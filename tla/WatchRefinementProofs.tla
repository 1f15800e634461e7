----------------------- MODULE WatchRefinementProofs -----------------------
(***************************************************************************)
(* The purpose of Watch, for every value of the constants: no deletion     *)
(* gets lost between two runs but for a cause that has a name (Accounted), *)
(* and the run keeps its books as Ledger says.                             *)
(***************************************************************************)
EXTENDS WatchProofs

(***************************************************************************)
(* The books.                                                              *)
(*                                                                         *)
(* A step that makes a snapshot moves the reference past everything the    *)
(* older ones show.  So the invariant follows each deletion through all    *)
(* the snapshots, not only the reference: the list of the run may lack     *)
(* the reference, or a person destroys it between the comparison and the   *)
(* new snapshot, and then an older one takes its place.  What is not yet   *)
(* known to be settled in a snapshot is in every newer one as well         *)
(* (HiddenByNone), because a photo exists in one stretch of time           *)
(* (NewerHoldsLive), and new snapshots are the newest (SnapsArePast).      *)
(***************************************************************************)

\* A deletion that is on its way or settled.
Known == InFlight \cup Settled

SnapsArePast ==
    \A s \in snaps : /\ ~Before(clock, s.created)
                     /\ s.name =< clock.day
                     /\ run.pc # "idle" => s.name =< run.start.day

NewerHoldsLive == \A s, t \in snaps : NewerThan(t, s) => s.files \cap live \subseteq t.files

HiddenByNone ==
    \A s, t \in snaps : NewerThan(t, s) => s.files \cap gone \subseteq Known \cup t.files

AllKnown == run.pc = "snapshot" => \A s \in snaps : s.files \cap gone \subseteq Known

NothingInHand ==
    /\ run.pc \in {"list", "diff"} => run.counted = {}
    /\ run.pc # "prune" => run.todo = {}

BooksInv ==
    /\ SnapsArePast /\ NewerHoldsLive
    /\ HiddenByNone /\ AllKnown /\ NothingInHand

\* No snapshot and no run in the first state.
LEMMA InitBooks == Init => BooksInv
BY DEF Init, Idle, BooksInv, SnapsArePast, NewerHoldsLive, HiddenByNone,
       AllKnown, NothingInHand

(***************************************************************************)
(* The invariant.                                                          *)
(***************************************************************************)

\* What every step does to the dataset and its snapshots: photos come and go, the
\* snapshots only get fewer unless one is made.
LEMMA FewerSnaps ==
    ASSUME BooksInv, UNCHANGED <<clock, live, gone>>, snaps' \subseteq snaps, Known \subseteq Known',
           run'.pc # "idle" => run.pc # "idle" /\ run'.start = run.start,
           run'.pc = "snapshot" => run.pc = "snapshot" \/ \A s \in snaps' : s.files \cap gone \subseteq Known',
           NothingInHand'
    PROVE  BooksInv'
<1> USE DEF BooksInv
<1>1. NewerHoldsLive'
  BY DEF NewerHoldsLive
<1>2. SnapsArePast'
  BY DEF SnapsArePast
<1>3. HiddenByNone'
  BY DEF HiddenByNone
<1>4. AllKnown'
  BY DEF AllKnown
<1> QED BY <1>1, <1>2, <1>3, <1>4

\* The clock, the starts and the OnFailure unit.
LEMMA TimeKeepsBooks ==
    ASSUME TypeOK, BooksInv, Tick \/ TimerMerged \/ FailureStep \/ TimerStart \/ ManualStart
    PROVE  BooksInv'
<1> USE DEF world, program, history
<1>1. ASSUME TimerMerged \/ FailureStep PROVE BooksInv'
  <2>1. UNCHANGED <<clock, live, gone, snaps, run, told, window, dropped, uncounted, overlooked, forgotten>>
    BY <1>1 DEF TimerMerged, FailureStep, FailureStaysSilent, FailureSpeaks,
                FailureSend, FailureSendFails
  <2>2. Known' = Known
    BY <2>1 DEF Known, InFlight, Settled
  <2>3. NothingInHand'
    BY <2>1 DEF BooksInv, NothingInHand
  <2> QED BY <2>1, <2>2, <2>3, FewerSnaps
<1>2. CASE Tick
  <2>1. /\ UNCHANGED <<live, gone, snaps, run, told, window, dropped, uncounted, overlooked, forgotten>>
        /\ clock' = IF clock.tick < TicksPerDay - 1 THEN [clock EXCEPT !.tick = @ + 1]
                    ELSE [day |-> clock.day + 1, tick |-> 0]
    BY <1>2 DEF Tick
  <2>2. Known' = Known
    BY <2>1 DEF Known, InFlight, Settled
  <2>3. clock \in Moment /\ \A s \in snaps : s.created \in Moment /\ s.name \in Nat
    BY DEF TypeOK, Snapshot
  <2>4. clock' \in Moment /\ clock.day =< clock'.day
    BY <2>1, <2>3 DEF Moment
  <2>5. \A s \in snaps : ~Before(clock, s.created) => ~Before(clock', s.created)
    BY <2>1, <2>3 DEF Moment, Before
  <2>6. SnapsArePast'
    BY <2>1, <2>3, <2>4, <2>5 DEF BooksInv, SnapsArePast, Moment
  <2> QED
    BY <2>1, <2>2, <2>6 DEF BooksInv, NewerHoldsLive, HiddenByNone, AllKnown, NothingInHand
<1>3. ASSUME TimerStart \/ ManualStart PROVE BooksInv'
  <2>1. /\ UNCHANGED <<clock, live, gone, snaps, told, window, dropped, uncounted, overlooked, forgotten>>
        /\ run.pc = "idle" /\ run'.pc = "list" /\ run'.start = clock
        /\ run'.counted = {} /\ run'.todo = {}
    BY <1>3 DEF TimerStart, ManualStart, Started, Idle
  <2>2. Known' = Known
    BY <2>1 DEF Known, InFlight, Settled
  <2>3. SnapsArePast'
    BY <2>1 DEF BooksInv, SnapsArePast
  <2>4. NothingInHand'
    BY <2>1 DEF NothingInHand
  <2> QED
    BY <2>1, <2>2, <2>3, <2>4 DEF BooksInv, NewerHoldsLive, HiddenByNone, AllKnown
<1> QED BY <1>1, <1>2, <1>3

\* Photos come and go, and a person destroys a snapshot.
LEMMA PeopleKeepBooks ==
    ASSUME TypeOK, BooksInv,
           \/ \E f \in Files : AddFile(f) \/ DeleteFile(f)
           \/ \E s \in snaps : PersonDestroys(s)
    PROVE  BooksInv'
<1> USE DEF world, program, history
<1>1. ASSUME NEW f \in Files, AddFile(f) PROVE BooksInv'
  <2>1. /\ UNCHANGED <<clock, gone, snaps, run, told, window, dropped, uncounted, overlooked, forgotten>>
        /\ f \notin live \cup gone /\ live' = live \cup {f}
    BY <1>1 DEF AddFile
  <2>2. Known' = Known
    BY <2>1 DEF Known, InFlight, Settled
  <2>3. NewerHoldsLive'
    BY <2>1 DEF TypeOK, BooksInv, NewerHoldsLive
  <2> QED
    BY <2>1, <2>2, <2>3 DEF BooksInv, SnapsArePast, HiddenByNone, AllKnown, NothingInHand
<1>2. ASSUME NEW f \in Files, DeleteFile(f) PROVE BooksInv'
  <2>1. /\ UNCHANGED <<clock, snaps, run, told, dropped, uncounted, overlooked, forgotten>>
        /\ f \in live /\ live' = live \ {f} /\ gone' = gone \cup {f}
        /\ window' = IF run.pc = "snapshot" THEN window \cup {f} ELSE window
    BY <1>2 DEF DeleteFile
  <2>2. Known \subseteq Known' /\ (run.pc = "snapshot" => f \in Known')
    BY <2>1 DEF Known, InFlight, Settled
  <2>3. NewerHoldsLive'
    BY <2>1 DEF TypeOK, BooksInv, NewerHoldsLive
  <2>4. HiddenByNone'
    BY <2>1, <2>2 DEF BooksInv, NewerHoldsLive, HiddenByNone
  <2>5. AllKnown'
    BY <2>1, <2>2 DEF BooksInv, AllKnown
  <2> QED
    BY <2>1, <2>3, <2>4, <2>5 DEF BooksInv, SnapsArePast, NothingInHand
<1>3. ASSUME NEW s \in snaps, PersonDestroys(s) PROVE BooksInv'
  <2>1. /\ UNCHANGED <<clock, live, gone, run, told, window, dropped, uncounted, overlooked>>
        /\ snaps' = snaps \ {s} /\ forgotten \subseteq forgotten'
    BY <1>3 DEF PersonDestroys
  <2>2. Known \subseteq Known'
    BY <2>1 DEF Known, InFlight, Settled
  <2>3. NothingInHand'
    BY <2>1 DEF BooksInv, NothingInHand
  <2> QED BY <2>1, <2>2, <2>3, FewerSnaps
<1> QED BY <1>1, <1>2, <1>3

\* What waits goes on waiting while the snapshots stay and no more of them are
\* condemned.
LEMMA WaitingStays ==
    ASSUME snaps' = snaps, gone \subseteq gone', run'.todo \subseteq run.todo
    PROVE  Waiting \subseteq Waiting'
BY DEF Waiting, IsReference

\* There is one newest snapshot.
LEMMA LatestIsUnique ==
    ASSUME NEW S \in SUBSET Snapshot, NEW s, NEW t, IsLatest(s, S), IsLatest(t, S)
    PROVE  s = t
<1> SUFFICES ASSUME s # t PROVE FALSE
  OBVIOUS
<1>1. s \in Snapshot /\ t \in Snapshot /\ NewerThan(s, t) /\ NewerThan(t, s)
  BY DEF IsLatest
<1> QED BY <1>1, NewerIsOneWay

\* A snapshot that goes takes with it only what its own files show.
LEMMA OthersStayLatest ==
    ASSUME NEW s, NEW r, r # s, IsLatest(r, snaps), snaps' = snaps \ {s}
    PROVE  IsLatest(r, snaps')
BY DEF IsLatest

\* A comparison shows what all the listed snapshots show; the rest is overlooked.
LEMMA PreviousShowsAll ==
    ASSUME TypeOK, PruneInv, BooksInv, run.pc = "diff", run.prev \in snaps
    PROVE  \A s \in snaps : s.files \cap gone
                \subseteq Settled \cup (run.prev.files \ live) \cup Overlooked(run.listed)
<1>1. IsLatest(run.prev, run.listed)
  BY NoSnapIsNone DEF PruneInv, ComparedIsLatest, TypeOK
<1>2. Known = Settled /\ gone \cap live = {}
  BY DEF Known, InFlight, TypeOK
<1>3. \A t \in snaps \cap run.listed : t.files \cap gone \subseteq Settled \cup (run.prev.files \ live)
  <2>1. \A t \in snaps \cap run.listed : t = run.prev \/ NewerThan(run.prev, t)
    BY <1>1 DEF IsLatest
  <2> QED BY <1>2, <2>1 DEF BooksInv, HiddenByNone
<1>4. ASSUME NEW s \in snaps, NEW f \in s.files \cap gone,
             ~\E t \in snaps \cap run.listed : f \in t.files
      PROVE  f \in told \cup Overlooked(run.listed)
  BY <1>4 DEF Overlooked
<1> QED BY <1>3, <1>4 DEF Settled

\* Without a list everything the snapshots show is overlooked, or was told.
LEMMA NothingListed ==
    \A s \in snaps : s.files \cap gone \subseteq told \cup Overlooked({})
BY DEF Overlooked

\* The new snapshot is the newest, and what is not in it is known.
LEMMA NewSnapshotKeepsBooks ==
    ASSUME TypeOK, PruneInv, BooksInv, run.pc = "snapshot", ~Exists,
           snaps' = snaps \cup {[name |-> run.start.day, created |-> clock, files |-> live]},
           UNCHANGED <<clock, live, gone>>, Known' = Known,
           run'.pc # "snapshot", run'.start = run.start, NothingInHand'
    PROVE  BooksInv'
<1> DEFINE new == [name |-> run.start.day, created |-> clock, files |-> live]
<1>1. snaps' = snaps \cup {new} /\ new.name = run.start.day /\ new.created = clock /\ new.files = live
  OBVIOUS
<1>2. /\ run.start \in Moment /\ clock \in Moment
      /\ \A s \in snaps : s.created \in Moment /\ s.name \in Nat
  BY DEF TypeOK, Run, Snapshot
<1>3. ~Before(clock, run.start)
  BY DEF PruneInv, StartIsPast
<1> HIDE DEF new
<1>4. \A s \in snaps : ~NewerThan(s, new)
  <2> SUFFICES ASSUME NEW s \in snaps PROVE ~NewerThan(s, new)
    OBVIOUS
  <2>1. ~Before(clock, s.created) /\ s.name =< run.start.day
    BY DEF BooksInv, SnapsArePast
  <2> QED BY <1>1, <1>2, <2>1 DEF NewerThan, Moment
<1>5. ~NewerThan(new, new)
  BY <1>1, <1>2 DEF NewerThan, Before, Moment
<1>6. SnapsArePast'
  <2>1. ~Before(clock, clock) /\ run.start.day =< clock.day
    BY <1>2, <1>3 DEF Before, Moment
  <2> QED BY <1>1, <1>2, <2>1 DEF BooksInv, SnapsArePast, Moment
<1>7. NewerHoldsLive'
  BY <1>1, <1>4, <1>5 DEF BooksInv, NewerHoldsLive
<1>8. HiddenByNone'
  <2>1. \A s \in snaps : s.files \cap gone \subseteq Known
    BY DEF BooksInv, AllKnown
  <2>2. new.files \cap gone = {}
    BY <1>1 DEF TypeOK
  <2> QED BY <1>1, <2>1, <2>2 DEF HiddenByNone
<1>9. AllKnown'
  BY DEF AllKnown
<1> QED BY <1>6, <1>7, <1>8, <1>9 DEF BooksInv

\* The steps of the run up to the snapshot.
LEMMA CompareKeepsBooks ==
    ASSUME TypeOK, PruneInv, BooksInv,
           \/ InvalidConfig \/ StrandEarly \/ List
           \/ Diff \/ DiffFails
           \/ MakeSnapshot \/ SnapshotExists \/ SnapshotFails
    PROVE  BooksInv'
<1> USE DEF world, program, history
<1>0. run.pc \in {"list", "diff"} => run.counted = {} /\ run.todo = {}
  BY DEF BooksInv, NothingInHand
<1>1. ASSUME InvalidConfig \/ StrandEarly \/ DiffFails PROVE BooksInv'
  <2>1. /\ UNCHANGED <<clock, live, gone, snaps, told, window, dropped, uncounted, overlooked, forgotten>>
        /\ run.pc \in {"list", "diff"} /\ run'.pc \in {"send", "exit"}
        /\ run'.todo = run.todo /\ run'.start = run.start
    BY <1>1 DEF InvalidConfig, StrandEarly, DiffFails, Stranded, TypeOK, Run
  <2>2. Known \subseteq Known' /\ NothingInHand'
    BY <1>0, <2>1 DEF Known, InFlight, Settled, NothingInHand
  <2> QED BY <2>1, <2>2, FewerSnaps
<1>2. CASE List
  <2>1. Known \subseteq Known' /\ NothingInHand'
    BY <1>0, <1>2, ListShape DEF Known, InFlight, Settled, NothingInHand
  <2>2. CASE run'.pc = "snapshot"
    <3>1. told \cup Overlooked({}) \subseteq Known'
      BY <1>2, <2>2, ListShape DEF Known, Settled
    <3>2. \A s \in snaps' : s.files \cap gone \subseteq Known'
      BY <1>2, <3>1, ListShape, NothingListed
    <3> QED BY <1>2, <2>1, <3>2, ListShape, FewerSnaps
  <2>3. CASE run'.pc # "snapshot"
    BY <1>2, <2>1, <2>3, ListShape, FewerSnaps
  <2> QED BY <2>2, <2>3
<1>3. CASE Diff
  <2>1. Known \subseteq Known' /\ NothingInHand'
    BY <1>0, <1>3, DiffShape DEF Known, InFlight, Settled, NothingInHand
  <2>2. Settled \cup (run.prev.files \ live) \cup Overlooked(run.listed) \subseteq Known'
    BY <1>3, DiffShape DEF Known, InFlight, Settled
  <2>3. \A s \in snaps' : s.files \cap gone \subseteq Known'
    BY <1>3, <2>2, DiffShape, PreviousShowsAll
  <2> QED BY <1>3, <2>1, <2>3, DiffShape, FewerSnaps
<1>4. ASSUME MakeSnapshot \/ SnapshotExists \/ SnapshotFails PROVE BooksInv'
  <2>1. /\ UNCHANGED <<clock, live, gone, told, window, dropped, uncounted, overlooked, forgotten>>
        /\ run.pc = "snapshot" /\ run'.counted = run.counted /\ run'.start = run.start
        /\ \/ run'.pc = "prune"
           \/ run'.pc = "send" /\ run'.todo = run.todo
    BY <1>4 DEF MakeSnapshot, SnapshotExists, SnapshotFails, Built, Stranded, TypeOK, Run
  <2>2. Known' = Known /\ NothingInHand'
    BY <2>1 DEF Known, InFlight, Settled, BooksInv, NothingInHand
  <2>3. CASE snaps' = snaps
    BY <2>1, <2>2, <2>3, FewerSnaps
  <2>4. CASE snaps' # snaps
    <3>1. /\ ~Exists
          /\ snaps' = snaps \cup {[name |-> run.start.day, created |-> clock, files |-> live]}
      BY <1>4, <2>4 DEF MakeSnapshot, SnapshotExists, SnapshotFails
    <3> QED BY <2>1, <2>2, <3>1, NewSnapshotKeepsBooks
  <2> QED BY <2>3, <2>4
<1> QED BY <1>1, <1>2, <1>3, <1>4

\* The steps of the run from the pruning on.
LEMMA TellKeepsBooks ==
    ASSUME TypeOK, BooksInv,
           \/ \E s \in run.todo : Destroy(s)
           \/ DestroyFails \/ PruneDone
           \/ Send \/ SendFails \/ WriteState \/ WriteStateFails \/ Exit
           \/ Kill \/ PowerCut
    PROVE  BooksInv'
<1> USE DEF world, program, history
<1>1. ASSUME \/ \E s \in run.todo : Destroy(s)
             \/ DestroyFails \/ PruneDone \/ WriteState \/ WriteStateFails
      PROVE  BooksInv'
  <2>1. /\ UNCHANGED <<clock, live, gone, told, window, dropped, uncounted, overlooked, forgotten>>
        /\ snaps' \subseteq snaps
        /\ run.pc # "idle" /\ run'.start = run.start
        /\ \/ run.pc = "prune" /\ run'.pc = "prune" /\ run'.counted = run.counted
           \/ run.pc = "prune" /\ run'.pc = "send" /\ run'.counted = run.counted /\ run'.todo = {}
           \/ /\ run.pc \in {"state", "aftercare"} /\ run'.pc \in {"aftercare", "exit"}
              /\ run'.todo = run.todo
    BY <1>1 DEF Destroy, DestroyFails, PruneDone, WriteState, WriteStateFails, AfterWrite,
                Stranded, TypeOK, Run
  <2>2. Known \subseteq Known' /\ NothingInHand'
    BY <2>1 DEF Known, InFlight, Settled, BooksInv, NothingInHand
  <2> QED BY <2>1, <2>2, FewerSnaps
<1>2. ASSUME Send \/ SendFails PROVE BooksInv'
  <2>1. /\ UNCHANGED <<clock, live, gone, snaps, window, uncounted, overlooked, forgotten>>
        /\ run.pc = "send" /\ run'.pc = "state" /\ run'.start = run.start /\ run'.todo = run.todo
        /\ told \subseteq told' /\ dropped \subseteq dropped'
        /\ run.counted \subseteq told' \cup dropped'
    BY <1>2 DEF Send, SendFails, TypeOK, Run
  <2>2. Known \subseteq Known' /\ NothingInHand'
    BY <2>1 DEF Known, InFlight, Settled, BooksInv, NothingInHand
  <2> QED BY <2>1, <2>2, FewerSnaps
<1>3. ASSUME Exit \/ Kill \/ PowerCut PROVE BooksInv'
  <2>1. /\ UNCHANGED <<clock, live, gone, snaps, told, window, uncounted, overlooked, forgotten>>
        /\ run'.pc = "idle" /\ run'.todo = {} /\ dropped \cup InFlight \subseteq dropped'
    BY <1>3 DEF Exit, Kill, PowerCut, Idle, InFlight
  <2>2. Known \subseteq Known' /\ NothingInHand'
    BY <2>1 DEF Known, Settled, NothingInHand
  <2> QED BY <2>1, <2>2, FewerSnaps
<1> QED BY <1>1, <1>2, <1>3

\* BooksInv holds in every reachable state.
LEMMA BooksAreKept == Spec => []BooksInv
<1>1. TypeOK /\ PruneInv /\ BooksInv /\ [Next]_vars => BooksInv'
  <2>1. ASSUME TypeOK, PruneInv, BooksInv, Next PROVE BooksInv'
    BY <2>1, TimeKeepsBooks, PeopleKeepBooks, CompareKeepsBooks, TellKeepsBooks DEF Next, RunStep
  <2>2. ASSUME BooksInv, UNCHANGED vars PROVE BooksInv'
    BY <2>2 DEF InFlight, Settled, vars, Known, BooksInv, SnapsArePast,
                NewerHoldsLive, HiddenByNone, AllKnown, NothingInHand
  <2> QED BY <2>1, <2>2
<1> QED BY <1>1, InitBooks, TypesHold, PruningIsSafe, PTL DEF Spec

(***************************************************************************)
(* The account of what was owed.  When the run makes a snapshot, the old   *)
(* reference stops being one, and what it showed must have been counted or *)
(* written off by then: CountedBefore, which follows from the books.       *)
(***************************************************************************)

CountedBefore == run.pc = "snapshot" => owed \subseteq InFlight \cup Settled

AccountInv == Accounted /\ CountedBefore

\* Nothing is owed and nothing runs in the first state.
LEMMA InitAccount == Init => AccountInv
BY DEF Init, AccountInv, Accounted, CountedBefore, Idle

\* Steps after which whatever was in flight still is, or is settled.
LEMMA StaysAccounted ==
    ASSUME AccountInv, owed' = owed, Waiting \subseteq Waiting', Settled \subseteq Settled',
           InFlight \subseteq InFlight' \cup Settled',
           run'.pc # "snapshot"
    PROVE  AccountInv'
BY DEF AccountInv, Accounted, CountedBefore

\* Steps that bring the run to its snapshot, or past it, with everything counted.
LEMMA CountedIsAccounted ==
    ASSUME owed' \subseteq InFlight' \cup Settled'
    PROVE  AccountInv'
BY DEF AccountInv, Accounted, CountedBefore

\* The steps of the world.
LEMMA WorldAccounts ==
    ASSUME TypeOK, AccountInv,
           \/ Tick
           \/ \E f \in Files : AddFile(f) \/ DeleteFile(f)
           \/ \E s \in snaps : PersonDestroys(s)
           \/ TimerStart \/ TimerMerged \/ ManualStart
           \/ FailureStep
    PROVE  AccountInv'
<1> USE DEF world, program, history
<1>1. ASSUME \/ Tick \/ TimerMerged \/ FailureStep \/ \E f \in Files : AddFile(f)
      PROVE  AccountInv'
  <2>1. UNCHANGED <<gone, snaps, run, owed, told, window, dropped, uncounted, overlooked, forgotten>>
    BY <1>1 DEF Tick, AddFile, TimerMerged, FailureStep, FailureStaysSilent,
                FailureSpeaks, FailureSend, FailureSendFails
  <2>2. Waiting' = Waiting /\ InFlight' = InFlight /\ Settled' = Settled
    BY <2>1 DEF Waiting, IsReference, InFlight, Settled
  <2> QED BY <2>1, <2>2 DEF AccountInv, Accounted, CountedBefore
<1>2. ASSUME NEW f \in Files, DeleteFile(f) PROVE AccountInv'
  <2>1. /\ UNCHANGED <<snaps, run, told, dropped, uncounted, overlooked, forgotten>>
        /\ gone' = gone \cup {f}
        /\ owed' = IF \E s \in snaps : IsReference(s) /\ f \in s.files
                   THEN owed \cup {f} ELSE owed
        /\ window' = IF run.pc = "snapshot" THEN window \cup {f} ELSE window
    BY <1>2 DEF DeleteFile
  <2>2. Waiting \subseteq Waiting' /\ InFlight' = InFlight /\ Settled \subseteq Settled'
    BY <2>1, WaitingStays DEF InFlight, Settled
  <2>3. owed' \subseteq owed \cup Waiting'
    BY <2>1 DEF Waiting, IsReference
  <2>4. Accounted'
    BY <2>2, <2>3 DEF AccountInv, Accounted
  <2>5. CountedBefore'
    <3>1. run'.pc = "snapshot" => f \in Settled'
      BY <2>1 DEF Settled
    <3>2. owed' \subseteq owed \cup {f}
      BY <2>1
    <3> QED BY <2>1, <2>2, <3>1, <3>2 DEF AccountInv, CountedBefore
  <2> QED BY <2>4, <2>5 DEF AccountInv
<1>3. ASSUME NEW s \in snaps, PersonDestroys(s) PROVE AccountInv'
  <2>1. /\ UNCHANGED <<gone, run, owed, told, window, dropped, uncounted, overlooked>>
        /\ snaps' = snaps \ {s}
        /\ forgotten' = forgotten \cup (gone \cap s.files)
    BY <1>3 DEF PersonDestroys
  <2>2. InFlight' = InFlight /\ Settled \subseteq Settled'
    BY <2>1 DEF InFlight, Settled
  <2>3. ASSUME NEW f \in Waiting PROVE f \in Waiting' \cup Settled'
    <3>1. PICK r \in snaps : IsReference(r) /\ f \in r.files /\ f \in gone
      BY <2>3 DEF Waiting
    <3>2. CASE r = s
      BY <2>1, <3>1, <3>2 DEF Settled
    <3>3. CASE r # s
      <4>1. IsLatest(r, snaps') /\ r \in snaps'
        BY <2>1, <3>1, <3>3, OthersStayLatest DEF IsReference
      <4> QED BY <2>1, <3>1, <4>1 DEF Waiting, IsReference
    <3> QED BY <3>2, <3>3
  <2> QED
    BY <2>1, <2>2, <2>3 DEF AccountInv, Accounted, CountedBefore
<1>4. ASSUME TimerStart \/ ManualStart PROVE AccountInv'
  <2>1. /\ UNCHANGED <<gone, snaps, owed, told, window, dropped, uncounted, overlooked, forgotten>>
        /\ run.pc = "idle" /\ run'.pc = "list" /\ run'.todo = {}
    BY <1>4 DEF TimerStart, ManualStart, Started, Idle
  <2>2. Waiting \subseteq Waiting' /\ InFlight = {} /\ Settled \subseteq Settled'
    BY <2>1, WaitingStays DEF InFlight, Settled
  <2> QED BY <2>1, <2>2, StaysAccounted
<1> QED BY <1>1, <1>2, <1>3, <1>4

\* The steps of the run up to the snapshot.
LEMMA CompareAccounts ==
    ASSUME TypeOK, AccountInv, BooksInv',
           \/ InvalidConfig \/ StrandEarly \/ List
           \/ Diff \/ DiffFails
           \/ MakeSnapshot \/ SnapshotExists \/ SnapshotFails
    PROVE  AccountInv'
<1> USE DEF world, program, history
<1>1. ASSUME InvalidConfig \/ StrandEarly \/ DiffFails PROVE AccountInv'
  <2>1. /\ UNCHANGED <<gone, snaps, owed, told, window, dropped, uncounted, overlooked, forgotten>>
        /\ run.pc \in {"list", "diff"} /\ run'.pc \in {"send", "exit"}
        /\ run'.todo = run.todo
    BY <1>1 DEF InvalidConfig, StrandEarly, DiffFails, Stranded, TypeOK, Run
  <2>2. Waiting \subseteq Waiting' /\ InFlight = {} /\ Settled \subseteq Settled'
    BY <2>1, WaitingStays DEF InFlight, Settled
  <2> QED BY <2>1, <2>2, StaysAccounted
<1>2. ASSUME List \/ Diff PROVE AccountInv'
  <2>1. /\ UNCHANGED <<gone, snaps, owed>> /\ run.pc \in {"list", "diff"}
        /\ run'.todo = run.todo /\ Settled \subseteq Settled'
    BY <1>2, ListShape, DiffShape DEF Settled
  <2>2. Waiting \subseteq Waiting' /\ InFlight = {}
    BY <2>1, WaitingStays DEF InFlight
  <2>3. CASE run'.pc = "snapshot"
    <3>1. \A s \in snaps : s.files \cap gone \subseteq InFlight' \cup Settled'
      BY <2>1, <2>3 DEF BooksInv, AllKnown, Known
    <3>2. Waiting \subseteq InFlight' \cup Settled'
      BY <3>1 DEF Waiting
    <3>3. owed' \subseteq InFlight' \cup Settled'
      BY <2>1, <2>2, <3>2 DEF AccountInv, Accounted
    <3> QED BY <3>3, CountedIsAccounted
  <2>4. CASE run'.pc # "snapshot"
    BY <2>1, <2>2, <2>4, StaysAccounted
  <2> QED BY <2>3, <2>4
<1>3. ASSUME MakeSnapshot \/ SnapshotExists \/ SnapshotFails PROVE AccountInv'
  <2>1. /\ UNCHANGED <<owed, told, window, dropped, uncounted, overlooked, forgotten>>
        /\ run.pc = "snapshot"
        /\ run'.pc \in {"prune", "send"} /\ run'.counted = run.counted
    BY <1>3 DEF MakeSnapshot, SnapshotExists, SnapshotFails, Built, Stranded, TypeOK, Run
  <2>2. owed \subseteq InFlight \cup Settled
    BY <2>1 DEF AccountInv, CountedBefore
  <2>3. InFlight' = InFlight /\ Settled' = Settled
    BY <2>1 DEF InFlight, Settled
  <2> QED BY <2>1, <2>2, <2>3, CountedIsAccounted
<1> QED BY <1>1, <1>2, <1>3

\* The steps of the run from the pruning on.
LEMMA TellAccounts ==
    ASSUME TypeOK, AccountInv,
           \/ \E s \in run.todo : Destroy(s)
           \/ DestroyFails \/ PruneDone
           \/ Send \/ SendFails \/ WriteState \/ WriteStateFails \/ Exit
           \/ Kill \/ PowerCut
    PROVE  AccountInv'
<1> USE DEF world, program, history
<1>1. ASSUME NEW s \in run.todo, Destroy(s) PROVE AccountInv'
  <2>1. /\ UNCHANGED <<gone, owed, told, window, dropped, uncounted, overlooked, forgotten>>
        /\ run.pc = "prune" /\ run'.pc = "prune" /\ run'.counted = run.counted
        /\ run'.todo = run.todo \ {s} /\ snaps' = snaps \ {s}
    BY <1>1 DEF Destroy, TypeOK, Run
  <2>2. Waiting \subseteq Waiting'
    BY <2>1, OthersStayLatest DEF Waiting, IsReference, IsLatest
  <2>3. InFlight' = InFlight /\ Settled' = Settled
    BY <2>1 DEF InFlight, Settled
  <2> QED BY <2>1, <2>2, <2>3, StaysAccounted
<1>2. ASSUME DestroyFails \/ PruneDone \/ WriteState \/ WriteStateFails PROVE AccountInv'
  <2>1. /\ UNCHANGED <<gone, snaps, owed, told, window, dropped, uncounted, overlooked, forgotten>>
        /\ run'.todo \subseteq run.todo /\ run'.counted = run.counted
        /\ run'.pc # "snapshot"
        /\ \/ run.pc = "prune" /\ run'.pc = "send"
           \/ run.pc \in {"state", "aftercare"}
    BY <1>2 DEF DestroyFails, PruneDone, WriteState, WriteStateFails, AfterWrite, Stranded,
                TypeOK, Run
  <2>2. /\ Waiting \subseteq Waiting' /\ Settled' = Settled
        /\ InFlight \subseteq InFlight' \cup Settled'
    BY <2>1, WaitingStays DEF InFlight, Settled
  <2> QED BY <2>1, <2>2, StaysAccounted
<1>3. ASSUME Send \/ SendFails PROVE AccountInv'
  <2>1. /\ UNCHANGED <<gone, snaps, owed, window, uncounted, overlooked, forgotten>>
        /\ run'.todo = run.todo /\ run.pc = "send" /\ run'.pc = "state"
        /\ told \subseteq told' /\ dropped \subseteq dropped'
        /\ run.counted \subseteq told' \cup dropped'
    BY <1>3 DEF Send, SendFails, TypeOK, Run
  <2>2. /\ Waiting \subseteq Waiting' /\ Settled \subseteq Settled'
        /\ InFlight \subseteq InFlight' \cup Settled'
    BY <2>1, WaitingStays DEF InFlight, Settled
  <2> QED BY <2>1, <2>2, StaysAccounted
<1>4. ASSUME Exit \/ Kill \/ PowerCut PROVE AccountInv'
  <2>1. /\ UNCHANGED <<gone, snaps, owed, told, window, uncounted, overlooked, forgotten>>
        /\ run'.todo = {} /\ run'.pc = "idle" /\ dropped \subseteq dropped'
        /\ InFlight \subseteq dropped'
    BY <1>4 DEF Exit, Kill, PowerCut, Idle, InFlight
  <2>2. /\ Waiting \subseteq Waiting' /\ Settled \subseteq Settled'
        /\ InFlight \subseteq InFlight' \cup Settled'
    BY <2>1, WaitingStays DEF Settled
  <2> QED BY <2>1, <2>2, StaysAccounted
<1> QED BY <1>1, <1>2, <1>3, <1>4

\* In every reachable state, every deletion that a reference could show is still to be
\* seen, on its way, told, or written off for one of the causes of Accounted; among
\* them are the lines of zfs list and zfs diff the program does not understand.
THEOREM DeletionsAreAccounted == Spec => []Accounted
<1>1. TypeOK /\ AccountInv /\ BooksInv' /\ [Next]_vars => AccountInv'
  <2>1. ASSUME TypeOK, AccountInv, BooksInv', Next PROVE AccountInv'
    BY <2>1, WorldAccounts, CompareAccounts, TellAccounts DEF Next, RunStep
  <2>2. ASSUME AccountInv, UNCHANGED vars PROVE AccountInv'
    BY <2>2 DEF AccountInv, Accounted, CountedBefore, Waiting, IsReference,
                InFlight, Settled, vars
  <2> QED BY <2>1, <2>2
<1>2. AccountInv => Accounted
  BY DEF AccountInv
<1> QED BY <1>1, <1>2, InitAccount, TypesHold, BooksAreKept, PTL DEF Spec

(***************************************************************************)
(* The refinement.                                                         *)
(***************************************************************************)

Lost == window \cup dropped \cup uncounted \cup overlooked \cup forgotten

\* What the reference shows is what waits.
LEMMA VisibleIsWaiting == gone \cap Reference = Waiting
BY DEF Reference, Waiting

LEMMA ReferenceStays ==
    ASSUME snaps' = snaps, run'.todo = run.todo
    PROVE  Reference' = Reference
BY DEF Reference, IsReference

\* Steps the books do not see.
LEMMA StepIsStutter ==
    ASSUME UNCHANGED <<live, gone, told, window, dropped, uncounted, overlooked, forgotten>>,
           Reference' = Reference, InFlight' = InFlight
    PROVE  UNCHANGED Promise!vars
BY DEF Promise!vars

\* Steps that only change the snapshots, with what is written off for it.
LEMMA StepIsMove ==
    ASSUME TypeOK', UNCHANGED <<live, gone, told>>, InFlight' = InFlight,
           NEW l \in SUBSET gone, Lost' = Lost \cup l,
           Waiting \subseteq Reference' \cup InFlight \cup told \cup Lost'
    PROVE  Promise!Move
<1>1. Reference' \subseteq live \cup gone
  BY DEF TypeOK, Reference
<1>2. (gone \cap Reference) \ Reference' \subseteq InFlight \cup told \cup Lost'
  BY VisibleIsWaiting
<1> QED BY <1>1, <1>2 DEF Promise!Move, Promise!Visible, Lost

\* Most of them write off nothing.
LEMMA StepIsPlainMove ==
    ASSUME TypeOK', UNCHANGED <<live, gone, told>>, InFlight' = InFlight, Lost' = Lost,
           Waiting \subseteq Reference' \cup InFlight \cup told \cup Lost
    PROVE  Promise!Move
<1>1. {} \in SUBSET gone /\ Lost' = Lost \cup {}
  OBVIOUS
<1> QED BY <1>1, StepIsMove

\* A comparison, or a list with nothing to compare with.
LEMMA StepIsCount ==
    ASSUME UNCHANGED <<live, gone, told>>, Reference' = Reference, InFlight = {},
           InFlight' \in SUBSET gone, NEW l \in SUBSET gone, Lost' = Lost \cup l,
           gone \cap Reference \subseteq InFlight' \cup told \cup Lost'
    PROVE  Promise!Count
BY DEF Promise!Count, Promise!Visible, Lost

\* The initial states are initial states of the books.
LEMMA InitIsInit == Init => Promise!Init
BY DEF Init, Promise!Init, Reference, InFlight, Idle

\* The world around the run.
LEMMA WorldRefines ==
    ASSUME TypeOK, TypeOK', BooksInv,
           \/ Tick
           \/ \E f \in Files : AddFile(f) \/ DeleteFile(f)
           \/ \E s \in snaps : PersonDestroys(s)
           \/ TimerStart \/ TimerMerged \/ ManualStart
           \/ FailureStep
    PROVE  Promise!Next \/ UNCHANGED Promise!vars
<1> USE DEF world, program, history
<1>1. ASSUME Tick \/ TimerMerged \/ FailureStep PROVE UNCHANGED Promise!vars
  <2>1. UNCHANGED <<live, gone, snaps, run, told, window, dropped, uncounted, overlooked, forgotten>>
    BY <1>1 DEF Tick, TimerMerged, FailureStep, FailureStaysSilent, FailureSpeaks,
                FailureSend, FailureSendFails
  <2> QED BY <2>1, StepIsStutter, ReferenceStays DEF InFlight
<1>2. ASSUME NEW f \in Files, AddFile(f) PROVE Promise!Add(f)
  <2>1. /\ UNCHANGED <<gone, snaps, run, told, window, dropped, uncounted, overlooked, forgotten>>
        /\ f \notin live \cup gone /\ live' = live \cup {f}
    BY <1>2 DEF AddFile
  <2> QED BY <2>1, ReferenceStays DEF Promise!Add, InFlight
<1>3. ASSUME NEW f \in Files, DeleteFile(f) PROVE Promise!Delete(f)
  <2>1. /\ UNCHANGED <<snaps, run, told, dropped, uncounted, overlooked, forgotten>>
        /\ f \in live /\ live' = live \ {f} /\ gone' = gone \cup {f}
        /\ window' \in {window, window \cup {f}}
    BY <1>3 DEF DeleteFile
  <2> QED BY <2>1, ReferenceStays DEF Promise!Delete, InFlight
<1>4. ASSUME NEW s \in snaps, PersonDestroys(s) PROVE Promise!Move
  <2>1. /\ UNCHANGED <<live, gone, run, told, window, dropped, uncounted, overlooked>>
        /\ snaps' = snaps \ {s} /\ forgotten' = forgotten \cup (gone \cap s.files)
    BY <1>4 DEF PersonDestroys
  <2>2. InFlight' = InFlight /\ Lost' = Lost \cup (gone \cap s.files)
    BY <2>1 DEF InFlight, Lost
  <2>3. ASSUME NEW f \in Waiting PROVE f \in Reference' \cup Lost'
    <3>1. PICK r \in snaps : IsReference(r) /\ f \in r.files /\ f \in gone
      BY <2>3 DEF Waiting
    <3>2. CASE r = s
      BY <2>2, <3>1, <3>2
    <3>3. CASE r # s
      <4>1. IsLatest(r, snaps') /\ r \in snaps'
        BY <2>1, <3>1, <3>3, OthersStayLatest DEF IsReference
      <4> QED BY <2>1, <3>1, <4>1 DEF Reference, IsReference
    <3> QED BY <3>2, <3>3
  <2> QED BY <2>1, <2>2, <2>3, StepIsMove
<1>5. ASSUME TimerStart \/ ManualStart PROVE UNCHANGED Promise!vars
  <2>1. /\ UNCHANGED <<live, gone, snaps, told, window, dropped, uncounted, overlooked, forgotten>>
        /\ run.pc = "idle" /\ run'.pc = "list" /\ run'.todo = {}
    BY <1>5 DEF TimerStart, ManualStart, Started, Idle
  <2>2. run.todo = {}
    BY <2>1 DEF BooksInv, NothingInHand
  <2> QED BY <2>1, <2>2, StepIsStutter, ReferenceStays DEF InFlight
<1> QED BY <1>1, <1>2, <1>3, <1>4, <1>5 DEF Promise!Next

\* The steps of the run up to the snapshot.
LEMMA CompareRefines ==
    ASSUME TypeOK, TypeOK', PruneInv, BooksInv,
           \/ InvalidConfig \/ StrandEarly \/ List
           \/ Diff \/ DiffFails
           \/ MakeSnapshot \/ SnapshotExists \/ SnapshotFails
    PROVE  Promise!Next \/ UNCHANGED Promise!vars
<1> USE DEF world, program, history
<1>0. run.pc \in {"list", "diff"} => run.counted = {} /\ run.todo = {} /\ InFlight = {}
  BY DEF BooksInv, NothingInHand, InFlight
<1>1. ASSUME InvalidConfig \/ StrandEarly \/ DiffFails PROVE UNCHANGED Promise!vars
  <2>1. /\ UNCHANGED <<live, gone, snaps, told, window, dropped, uncounted, overlooked, forgotten>>
        /\ run.pc \in {"list", "diff"}
        /\ run'.todo = run.todo /\ run'.counted = run.counted
    BY <1>1 DEF InvalidConfig, StrandEarly, DiffFails, Stranded, TypeOK, Run
  <2>2. InFlight = {} /\ InFlight' = {}
    BY <1>0, <2>1 DEF InFlight
  <2> QED BY <2>1, <2>2, StepIsStutter, ReferenceStays
<1>2. CASE List
  <2>1. InFlight = {} /\ InFlight' = {} /\ Reference' = Reference
    BY <1>0, <1>2, ListShape, ReferenceStays DEF InFlight
  <2>2. CASE run'.listed = {}
    <3>1. UNCHANGED <<live, gone, told>> /\ Lost' = Lost \cup Overlooked({})
      BY <1>2, <2>2, ListShape DEF Lost
    <3>2. Overlooked({}) \subseteq gone
      BY DEF Overlooked
    <3>3. gone \cap Reference \subseteq told \cup Lost'
      BY <3>1, NothingListed DEF Reference
    <3> QED BY <2>1, <3>1, <3>2, <3>3, StepIsCount DEF Promise!Next
  <2>3. CASE run'.listed # {}
    BY <1>2, <2>1, <2>3, ListShape, StepIsStutter
  <2> QED BY <2>2, <2>3 DEF Promise!Next
<1>3. CASE Diff
  <2>1. InFlight = {} /\ InFlight' = run'.counted /\ Reference' = Reference
    BY <1>0, <1>3, DiffShape, ReferenceStays DEF InFlight
  <2> DEFINE l == ((run.prev.files \ live) \ run'.counted) \cup Overlooked(run.listed)
  <2>2. UNCHANGED <<live, gone, told>> /\ Lost' = Lost \cup l
    BY <1>3, DiffShape DEF Lost
  <2>3. run'.counted \subseteq gone /\ l \subseteq gone
    BY <1>3, DiffShape DEF TypeOK, Overlooked
  <2>4. gone \cap Reference \subseteq Settled \cup (run.prev.files \ live) \cup Overlooked(run.listed)
    BY <1>3, DiffShape, PreviousShowsAll DEF Reference
  <2>5. gone \cap Reference \subseteq run'.counted \cup told \cup Lost'
    BY <2>2, <2>4 DEF Settled, Lost
  <2> HIDE DEF l
  <2> QED BY <2>1, <2>2, <2>3, <2>5, StepIsCount DEF Promise!Next
<1>4. ASSUME MakeSnapshot \/ SnapshotExists \/ SnapshotFails PROVE Promise!Move
  <2>1. /\ UNCHANGED <<live, gone, told, window, dropped, uncounted, overlooked, forgotten>>
        /\ run.pc = "snapshot" /\ run'.pc \in {"prune", "send"} /\ run'.counted = run.counted
    BY <1>4 DEF MakeSnapshot, SnapshotExists, SnapshotFails, Built, Stranded, TypeOK, Run
  <2>2. InFlight' = InFlight /\ Lost' = Lost
    BY <2>1 DEF InFlight, Lost
  <2>3. Waiting \subseteq InFlight \cup told \cup Lost
    BY <2>1, <2>2 DEF BooksInv, AllKnown, Known, Waiting, Settled, Lost
  <2> QED BY <2>1, <2>2, <2>3, StepIsPlainMove
<1> QED BY <1>1, <1>2, <1>3, <1>4 DEF Promise!Next

\* A run that ends early keeps what it had condemned: the reference stays, or there
\* was none.
LEMMA ReferenceAfterEnd ==
    ASSUME TypeOK, snaps' = snaps, run'.todo = {}
    PROVE  Reference = {} \/ Reference' = Reference
<1>1. CASE \E l : IsLatest(l, snaps) /\ l \notin run.todo
  <2>1. \A x : IsReference(x) <=> IsLatest(x, snaps)
    BY <1>1, LatestIsUnique DEF IsReference, TypeOK
  <2>2. \A x : IsReference(x)' <=> IsLatest(x, snaps)
    BY DEF IsReference
  <2> QED BY <2>1, <2>2 DEF Reference
<1>2. CASE ~\E l : IsLatest(l, snaps) /\ l \notin run.todo
  BY <1>2 DEF Reference, IsReference
<1> QED BY <1>1, <1>2

\* The steps of the run from the pruning on.
LEMMA TellRefines ==
    ASSUME TypeOK, TypeOK', BooksInv,
           \/ \E s \in run.todo : Destroy(s)
           \/ DestroyFails \/ PruneDone
           \/ Send \/ SendFails \/ WriteState \/ WriteStateFails \/ Exit
           \/ Kill \/ PowerCut
    PROVE  Promise!Next \/ UNCHANGED Promise!vars
<1> USE DEF world, program, history
<1>1. ASSUME NEW s \in run.todo, Destroy(s) PROVE Promise!Move
  <2>1. /\ UNCHANGED <<live, gone, told, window, dropped, uncounted, overlooked, forgotten>>
        /\ run.pc = "prune" /\ run'.pc = "prune" /\ run'.counted = run.counted
        /\ run'.todo = run.todo \ {s} /\ snaps' = snaps \ {s}
    BY <1>1 DEF Destroy, TypeOK, Run
  <2>2. InFlight' = InFlight /\ Lost' = Lost
    BY <2>1 DEF InFlight, Lost
  <2>3. Waiting \subseteq Reference'
    BY <2>1, OthersStayLatest DEF Waiting, Reference, IsReference, IsLatest
  <2> QED BY <2>1, <2>2, <2>3, StepIsPlainMove
<1>2. ASSUME DestroyFails \/ PruneDone PROVE Promise!Move
  <2>1. /\ UNCHANGED <<live, gone, snaps, told, window, dropped, uncounted, overlooked, forgotten>>
        /\ run.pc = "prune" /\ run'.pc = "send" /\ run'.counted = run.counted
        /\ run'.todo = {}
    BY <1>2 DEF DestroyFails, PruneDone, Stranded, TypeOK, Run
  <2>2. InFlight' = InFlight /\ Lost' = Lost
    BY <2>1 DEF InFlight, Lost
  <2>3. Waiting \subseteq Reference'
    BY <2>1 DEF Waiting, Reference, IsReference
  <2> QED BY <2>1, <2>2, <2>3, StepIsPlainMove
<1>3. ASSUME Send \/ SendFails PROVE Promise!Next
  <2>1. /\ UNCHANGED <<live, gone, snaps, window, uncounted, overlooked, forgotten>>
        /\ run.pc = "send" /\ run'.pc = "state" /\ run'.todo = run.todo
        /\ \/ told' = told \cup run.counted /\ dropped' = dropped
           \/ told' = told /\ dropped' = dropped \cup run.counted
    BY <1>3 DEF Send, SendFails, TypeOK, Run
  <2>2. InFlight = run.counted /\ InFlight' = {} /\ Reference' = Reference
    BY <2>1, ReferenceStays DEF InFlight
  <2>3. CASE told' = told \cup run.counted /\ dropped' = dropped
    BY <2>1, <2>2, <2>3 DEF Promise!Next, Promise!Tell
  <2>4. CASE told' = told /\ dropped' = dropped \cup run.counted
    BY <2>1, <2>2, <2>4 DEF Promise!Next, Promise!Drop
  <2> QED BY <2>1, <2>3, <2>4
<1>4. ASSUME WriteState \/ WriteStateFails \/ Exit PROVE UNCHANGED Promise!vars
  <2>1. /\ UNCHANGED <<live, gone, snaps, told, window, dropped, uncounted, overlooked, forgotten>>
        /\ run.pc \in {"state", "aftercare", "exit"}
        /\ run'.pc \in {"aftercare", "exit", "idle"}
        /\ run'.todo \in {run.todo, {}}
    BY <1>4 DEF WriteState, WriteStateFails, AfterWrite, Exit, Idle, TypeOK, Run
  <2>2. run.todo = {}
    BY <2>1 DEF BooksInv, NothingInHand
  <2> QED BY <2>1, <2>2, StepIsStutter, ReferenceStays DEF InFlight
<1>5. ASSUME Kill \/ PowerCut PROVE Promise!Drop
  <2>1. /\ UNCHANGED <<live, gone, snaps, told, window, uncounted, overlooked, forgotten>>
        /\ run'.pc = "idle" /\ run'.todo = {} /\ dropped' = dropped \cup InFlight
    BY <1>5 DEF Kill, PowerCut, Idle
  <2>2. InFlight' = {}
    BY <2>1 DEF InFlight
  <2>3. Reference' \subseteq live \cup gone
    BY <2>1 DEF TypeOK, Reference
  <2>4. \/ Reference' = Reference
        \/ Reference = {} /\ \E r \in SUBSET (live \cup gone) : Reference' = r
    BY <2>1, <2>3, ReferenceAfterEnd
  <2> QED BY <2>1, <2>2, <2>4 DEF Promise!Drop
<1> QED BY <1>1, <1>2, <1>3, <1>4, <1>5 DEF Promise!Next

\* The daily run implements Ledger: whatever fails, dies, is destroyed or is not
\* understood, and however photos are deleted meanwhile, the reference never moves past
\* a deletion that is neither counted, told nor written off for one of the causes of
\* Accounted, and nothing else is ever told.
THEOREM BooksRefine == Spec => KeepsTheBooks
<1>1. TypeOK /\ TypeOK' /\ PruneInv /\ BooksInv /\ [Next]_vars
        => [Promise!Next]_(Promise!vars)
  <2>1. ASSUME TypeOK, TypeOK', PruneInv, BooksInv, Next
        PROVE  Promise!Next \/ UNCHANGED Promise!vars
    BY <2>1, WorldRefines, CompareRefines, TellRefines DEF Next, RunStep
  <2>2. ASSUME UNCHANGED vars PROVE UNCHANGED Promise!vars
    BY <2>2 DEF vars, Promise!vars, Reference, IsReference, InFlight
  <2> QED BY <2>1, <2>2
<1> QED
  BY <1>1, InitIsInit, TypesHold, PruningIsSafe, BooksAreKept, PTL
     DEF Spec, KeepsTheBooks, Promise!Spec
=============================================================================
