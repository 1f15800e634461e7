-------------------------- MODULE ArtifactsProofs --------------------------
(***************************************************************************)
(* What Artifacts guarantees for every value of its constants: a slot      *)
(* belongs to one run, nothing is overwritten by another, and what a       *)
(* person puts in a day directory stays.                                   *)
(*                                                                         *)
(* The invariant follows the one choice a run makes, that of its slot: the *)
(* four names were free then, so that everything in the slot is its own    *)
(* until it ends, and the day directory it makes is a new one.             *)
(***************************************************************************)
EXTENDS Artifacts, TLAPS

\* The run may still make its day directory.
Early == {"list", "script", "prune", "send", "mkdir"}

WorldInv ==
    /\ clock \in Moment /\ runs \in Nat
    /\ snaps \subseteq Snapshot
    /\ messages \subseteq Message

OneRun ==
    \A m, n \in Names : m.day = n.day /\ m.seq = n.seq => disk[m].run = disk[n].run

OwnSlot ==
    run.seq # 0 =>
        \A n \in Names : n.day = run.start.day /\ n.seq = run.seq => disk[n].run = runs

PlacedInv == \A n \in placed : n \in Names /\ n.kind = "dir" /\ "human" \in disk[n].things

DiskInv ==
    /\ Names \subseteq Name /\ \A n \in Names : disk[n] \in Content
    /\ OneRun /\ OwnSlot /\ PlacedInv

RunInv ==
    /\ run \in Run
    /\ run.pc \in {"idle", "compare", "slot"} => run.seq = 0 /\ ~run.thumbnails /\ ~run.script
    /\ run.pc \in {"list", "script", "mkdir", "images", "report"} => run.seq # 0
    /\ run.thumbnails => run.seq # 0
    /\ run.photos => run.ref \in Snapshot
    /\ run.script => run.photos
    /\ run.pc \in {"list", "script"} => run.photos /\ ~run.script
    /\ run.pc = "empty" => run.budget > 0 /\ run.kind = 4

TodoInv ==
    /\ run.pc \notin {"remove", "empty"} => run.todo = {}
    /\ \A n \in run.todo : n \in Names /\ n.kind = Kinds[run.kind]

DirInv ==
    /\ run.pc = "images" => NameOf("dir") \in Names
    /\ run.pc \in Early /\ run.seq # 0 => NameOf("dir") \notin Names

Inv == WorldInv /\ DiskInv /\ RunInv /\ TodoInv /\ DirInv

\* No file changes hands.
RunsStay == \A n \in Names \cap Names' : disk'[n].run = disk[n].run

(***************************************************************************)
(* What a step does to the disk.                                           *)
(***************************************************************************)

\* The step goes on with the slot it has, or gives it up.
SameSlot == runs' = runs /\ run'.start = run.start /\ run'.seq \in {run.seq, 0}

\* Nothing is written.
LEMMA DiskSame ==
    ASSUME DiskInv, disk' = disk, placed' = placed,
           SameSlot \/ run'.seq = 0
    PROVE  DiskInv' /\ RunsStay
<1>1. Names' = Names
  BY DEF Names
<1>2. RunsStay
  BY DEF RunsStay
<1>3. OneRun' /\ PlacedInv'
  BY <1>1 DEF DiskInv, OneRun, PlacedInv
<1>4. OwnSlot'
  BY <1>1 DEF DiskInv, OwnSlot, SameSlot
<1> QED BY <1>1, <1>2, <1>3, <1>4 DEF DiskInv

\* A file or directory of the run's own slot is written.
LEMMA DiskWrite ==
    ASSUME DiskInv, RunInv, WorldInv, SameSlot, placed' = placed, run.seq # 0,
           NEW kind \in {"report", "script", "list", "dir"}, NEW things \in SUBSET Thing,
           Write(kind, things), kind = "dir" => NameOf("dir") \notin Names
    PROVE  DiskInv' /\ RunsStay /\ Names' = Names \cup {NameOf(kind)}
<1> DEFINE own == NameOf(kind)
<1>1. own \in Name /\ own.day = run.start.day /\ own.seq = run.seq /\ own.kind = kind
  BY DEF NameOf, Name, RunInv, Run, Moment
<1>2. Names' = Names \cup {own}
  BY DEF Write, Names
<1>3. \A n \in Names' : disk'[n] = IF n = own THEN [run |-> runs, things |-> things] ELSE disk[n]
  BY DEF Write, Names
<1> HIDE DEF own
<1>4. Names' \subseteq Name /\ \A n \in Names' : disk'[n] \in Content
  BY <1>1, <1>2, <1>3 DEF DiskInv, Content, WorldInv
<1>5. \A n \in Names : n.day = own.day /\ n.seq = own.seq => disk[n].run = runs
  BY <1>1 DEF DiskInv, OwnSlot
<1>6. RunsStay
  BY <1>2, <1>3, <1>5 DEF RunsStay
<1>7. \A n \in Names' : n.day = own.day /\ n.seq = own.seq => disk'[n].run = runs
  BY <1>2, <1>3, <1>5
<1>8. OneRun' /\ OwnSlot'
  BY <1>1, <1>2, <1>3, <1>7 DEF DiskInv, OneRun, OwnSlot, SameSlot
<1>9. PlacedInv'
  BY <1>1, <1>2, <1>3 DEF DiskInv, PlacedInv, own
<1> QED BY <1>2, <1>4, <1>6, <1>8, <1>9 DEF DiskInv, own

\* Something goes that no person put anything in.
LEMMA DiskRemove ==
    ASSUME DiskInv, SameSlot, placed' = placed, NEW n \in Names, n \notin placed, disk' = Removed(n)
    PROVE  DiskInv' /\ RunsStay /\ Names' = Names \ {n}
<1>1. Names' = Names \ {n} /\ \A m \in Names' : disk'[m] = disk[m]
  BY DEF Removed, Names
<1>2. RunsStay
  BY <1>1 DEF RunsStay
<1>3. OneRun' /\ PlacedInv'
  BY <1>1 DEF DiskInv, OneRun, PlacedInv
<1>4. OwnSlot'
  BY <1>1 DEF DiskInv, OwnSlot, SameSlot
<1> QED BY <1>1, <1>2, <1>3, <1>4 DEF DiskInv

\* A directory gets or loses something, and never what a person put there.
LEMMA DiskThings ==
    ASSUME DiskInv, SameSlot, NEW n \in Names, NEW things \in SUBSET Thing,
           disk' = [disk EXCEPT ![n].things = things],
           "human" \in disk[n].things => "human" \in things,
           placed' = placed \/ (placed' = placed \cup {n} /\ n.kind = "dir" /\ "human" \in things)
    PROVE  DiskInv' /\ RunsStay /\ Names' = Names
<1>1. Names' = Names
  BY DEF Names
<1> DEFINE With(c) == [c EXCEPT !.things = things]
<1>2. \A m \in Names : /\ disk[m] \in Content
                       /\ disk'[m] = IF m = n THEN With(disk[m]) ELSE disk[m]
  BY DEF Names, DiskInv
<1>3. \A m \in Names : /\ disk'[m] \in Content /\ disk'[m].run = disk[m].run
                       /\ disk'[m].things = IF m = n THEN things ELSE disk[m].things
  <2>1. \A c \in Content : With(c) \in Content /\ With(c).run = c.run /\ With(c).things = things
    BY DEF Content
  <2> HIDE DEF With
  <2> QED BY <1>2, <2>1
<1>4. RunsStay
  BY <1>3 DEF RunsStay
<1>5. OneRun' /\ PlacedInv'
  BY <1>1, <1>3 DEF DiskInv, OneRun, PlacedInv
<1>6. OwnSlot'
  BY <1>1, <1>3 DEF DiskInv, OwnSlot, SameSlot
<1> QED BY <1>1, <1>3, <1>4, <1>5, <1>6 DEF DiskInv

(***************************************************************************)
(* The steps.                                                              *)
(***************************************************************************)

LEMMA IdleRun == Idle \in Run
<1>1. MaxCleanupPerRun \in Nat
  BY ArtifactsAssumption
<1>2. [day |-> 1, tick |-> 0] \in Moment
  BY DEF Moment
<1> QED BY <1>1, <1>2 DEF Idle, Run

LEMMA InitInv == Init => Inv
<1> SUFFICES ASSUME Init PROVE Inv
  OBVIOUS
<1>1. Names = {}
  BY DEF Init, Names
<1>2. WorldInv
  BY DEF Init, WorldInv, Moment
<1>3. RunInv /\ run.todo = {} /\ run.pc = "idle" /\ run.seq = 0
  BY IdleRun DEF Init, RunInv, Idle
<1>4. TodoInv /\ DirInv
  BY <1>3 DEF TodoInv, DirInv, Early
<1>5. DiskInv
  BY <1>1 DEF Init, DiskInv, OneRun, OwnSlot, PlacedInv
<1> QED BY <1>2, <1>3, <1>4, <1>5 DEF Inv

\* What is around the program, and the start of a run.
LEMMA WorldSteps ==
    ASSUME Inv, Tick \/ Start \/ \E n \in Names : PersonPuts(n)
    PROVE  Inv' /\ RunsStay
<1> USE DEF Inv
<1>1. CASE Tick
  <2>1. clock' \in Moment
    BY <1>1 DEF Tick, WorldInv, Moment
  <2>2. DiskInv' /\ RunsStay
    BY <1>1, DiskSame DEF Tick, SameSlot
  <2> QED BY <1>1, <2>1, <2>2 DEF Tick, WorldInv, RunInv, TodoInv, DirInv, Names, NameOf
<1>2. CASE Start
  <2>1. PICK mounted \in BOOLEAN :
          run' = [Idle EXCEPT !.pc = "compare", !.start = clock, !.mounted = mounted]
    BY <1>2 DEF Start
  <2>2. run' \in Run
    BY <2>1, IdleRun DEF Run, WorldInv
  <2>3. /\ run'.pc = "compare" /\ run'.seq = 0 /\ run'.todo = {}
        /\ run'.thumbnails = FALSE /\ run'.photos = FALSE /\ run'.script = FALSE
    BY <2>1 DEF Idle
  <2>4. RunInv' /\ TodoInv' /\ DirInv'
    BY <2>2, <2>3 DEF RunInv, TodoInv, DirInv, Early
  <2>5. DiskInv' /\ RunsStay
    BY <1>2, <2>3, DiskSame DEF Start
  <2>6. runs' = runs + 1 /\ UNCHANGED <<clock, snaps, messages>>
    BY <1>2 DEF Start
  <2>7. WorldInv'
    BY <2>6 DEF WorldInv
  <2> QED BY <2>4, <2>5, <2>7
<1>3. ASSUME NEW n \in Names, PersonPuts(n) PROVE Inv' /\ RunsStay
  <2> DEFINE things == disk[n].things \cup {"human"}
  <2>1. things \in SUBSET Thing
    BY DEF DiskInv, Content, Thing
  <2>2. disk' = [disk EXCEPT ![n].things = things]
    BY <1>3 DEF PersonPuts
  <2>3. /\ UNCHANGED <<clock, runs, snaps, run, messages>> /\ n.kind = "dir"
        /\ placed' = placed \cup {n}
    BY <1>3 DEF PersonPuts
  <2>4. SameSlot /\ "human" \in things
    BY <2>3 DEF SameSlot
  <2>5. DiskInv' /\ RunsStay /\ Names' = Names
    <3> HIDE DEF things
    <3> QED BY <2>1, <2>2, <2>3, <2>4, DiskThings
  <2> QED BY <2>3, <2>5 DEF WorldInv, RunInv, TodoInv, DirInv, NameOf
<1> QED BY <1>1, <1>2, <1>3

\* The comparison, the choice of the slot, and the ways on without one.
LEMMA ComparisonSteps ==
    ASSUME Inv, Compare \/ ChooseSlot \/ NoSlot
    PROVE  Inv' /\ RunsStay
<1> USE DEF Inv
<1>1. CASE Compare
  <2>1. PICK ref \in snaps \cup {NoSnap}, something \in BOOLEAN, photos \in BOOLEAN :
          /\ photos => something
          /\ something => ref # NoSnap
          /\ run' = [run EXCEPT !.pc = IF something THEN "slot" ELSE "prune",
                                !.ref = ref, !.photos = photos]
    BY <1>1 DEF Compare
  <2>2. run' \in Run
    BY <2>1 DEF RunInv, Run, WorldInv
  <2>3. /\ run'.pc \in {"slot", "prune"} /\ run'.ref = ref /\ run'.photos = photos
        /\ run'.seq = 0 /\ run'.start = run.start /\ run'.todo = {}
        /\ ~run'.thumbnails /\ ~run'.script
    BY <1>1, <2>1 DEF Compare, RunInv, TodoInv, Run
  <2>4. photos => ref \in Snapshot
    BY <2>1 DEF WorldInv
  <2>5. RunInv' /\ TodoInv' /\ DirInv'
    BY <2>2, <2>3, <2>4 DEF RunInv, TodoInv, DirInv
  <2>6. DiskInv' /\ RunsStay
    BY <1>1, <2>3, DiskSame DEF Compare
  <2>7. [name |-> clock.day, created |-> clock] \in Snapshot
    BY DEF WorldInv, Snapshot, Moment
  <2>8. WorldInv'
    BY <1>1, <2>7 DEF Compare, WorldInv
  <2> QED BY <2>5, <2>6, <2>8
<1>2. CASE ChooseSlot
  <2>1. PICK seq \in 1 .. MaxRunsPerDay, thumbnails \in BOOLEAN :
          /\ SlotFree(run.start.day, seq)
          /\ thumbnails => run.photos /\ run.mounted
          /\ run' = [run EXCEPT !.pc = IF run.photos /\ run.mounted THEN "list" ELSE "prune",
                                !.seq = seq, !.thumbnails = thumbnails]
    BY <1>2 DEF ChooseSlot
  <2>0. seq \in Nat /\ seq # 0
    <3>1. MaxRunsPerDay \in Nat
      BY ArtifactsAssumption
    <3> QED BY <3>1
  <2>2. run' \in Run
    BY <2>0, <2>1 DEF RunInv, Run
  <2>3. /\ run'.pc \in {"list", "prune"} /\ (run'.pc = "list" => run.photos)
        /\ run'.seq = seq /\ seq # 0 /\ run'.start = run.start /\ run'.todo = {}
        /\ run'.photos = run.photos /\ run'.ref = run.ref /\ ~run'.script
    BY <1>2, <2>0, <2>1 DEF ChooseSlot, RunInv, TodoInv, Run
  <2>4. \A n \in Names : ~(n.day = run.start.day /\ n.seq = seq)
    BY <2>1 DEF SlotFree
  <2>5. RunInv'
    BY <2>2, <2>3 DEF RunInv
  <2>6. disk' = disk /\ Names' = Names /\ UNCHANGED <<clock, runs, snaps, messages, placed>>
    BY <1>2 DEF ChooseSlot, Names
  <2>7. NameOf("dir")' \notin Names'
    BY <2>3, <2>4, <2>6 DEF NameOf
  <2>8. TodoInv' /\ DirInv'
    BY <2>3, <2>7 DEF TodoInv, DirInv
  <2>9. DiskInv'
    BY <2>3, <2>4, <2>6 DEF DiskInv, OneRun, OwnSlot, PlacedInv
  <2> QED BY <2>5, <2>6, <2>8, <2>9 DEF RunsStay, WorldInv
<1>3. CASE NoSlot
  <2>1. run' \in Run /\ run' = [run EXCEPT !.pc = "prune"]
    BY <1>3 DEF NoSlot, RunInv, Run
  <2>2. /\ run'.pc = "prune" /\ run'.seq = 0 /\ run'.start = run.start /\ run'.todo = {}
        /\ run'.photos = run.photos /\ run'.ref = run.ref
        /\ ~run'.script /\ ~run'.thumbnails
    BY <1>3, <2>1 DEF NoSlot, RunInv, TodoInv, Run
  <2>3. RunInv' /\ TodoInv' /\ DirInv'
    BY <2>1, <2>2 DEF RunInv, TodoInv, DirInv
  <2>4. DiskInv' /\ RunsStay
    BY <1>3, <2>2, DiskSame DEF NoSlot
  <2> QED BY <1>3, <2>3, <2>4 DEF NoSlot, WorldInv
<1> QED BY <1>1, <1>2, <1>3

\* The list and the script, and a restore that comes to nothing.
LEMMA RestoreSteps ==
    ASSUME Inv, WriteList \/ WriteScript \/ RestoreFails
    PROVE  Inv' /\ RunsStay
<1> USE DEF Inv
<1>1. /\ run.seq # 0 /\ run.photos /\ run.todo = {} /\ run.pc \in {"list", "script"}
      /\ NameOf("dir") \notin Names
  BY DEF WriteList, WriteScript, RestoreFails, RunInv, TodoInv, DirInv, Early
<1>2. run' \in Run
  BY ZenonT(40) DEF WriteList, WriteScript, RestoreFails, RunInv, Run
<1>3. /\ run'.pc \in {"script", "prune"} /\ run'.seq = run.seq /\ run'.start = run.start
      /\ run'.photos = run.photos /\ run'.ref = run.ref /\ run'.todo = run.todo
      /\ run'.pc = "script" => run'.script = run.script
  BY ZenonT(40) DEF WriteList, WriteScript, RestoreFails, RunInv, Run
<1>4. RunInv'
  BY <1>1, <1>2, <1>3 DEF RunInv
<1>5. UNCHANGED <<clock, runs, snaps, messages, placed>> /\ SameSlot /\ NameOf("dir")' = NameOf("dir")
  BY <1>3 DEF WriteList, WriteScript, RestoreFails, SameSlot, NameOf
<1>6. DiskInv' /\ RunsStay /\ NameOf("dir") \notin Names'
  <2>1. CASE RestoreFails
    BY <1>1, <1>5, <2>1, DiskSame DEF RestoreFails, Names
  <2>2. ASSUME NEW kind \in {"list", "script"}, Write(kind, {})
        PROVE  DiskInv' /\ RunsStay /\ NameOf("dir") \notin Names'
    <3>1. DiskInv' /\ RunsStay /\ Names' = Names \cup {NameOf(kind)}
      BY <1>1, <1>5, <2>2, DiskWrite
    <3>2. NameOf("dir") # NameOf(kind)
      BY DEF NameOf
    <3> QED BY <1>1, <3>1, <3>2
  <2> QED BY <2>1, <2>2 DEF WriteList, WriteScript
<1>7. TodoInv' /\ DirInv'
  BY <1>1, <1>3, <1>5, <1>6 DEF TodoInv, DirInv
<1> QED BY <1>4, <1>5, <1>6, <1>7 DEF WorldInv

\* Pruning and the message.
LEMMA TellSteps ==
    ASSUME Inv, Prune \/ Send
    PROVE  Inv' /\ RunsStay
<1> USE DEF Inv
<1>1. disk' = disk /\ UNCHANGED <<clock, runs, placed>> /\ Names' = Names /\ run.todo = {}
  BY DEF Prune, Send, Names, TodoInv
<1>2. run' \in Run
  BY DEF Prune, Send, RunInv, Run
<1>3. /\ run'.seq = run.seq /\ run'.start = run.start /\ run'.todo = run.todo
      /\ run'.photos = run.photos /\ run'.ref = run.ref /\ run'.script = run.script
      /\ run'.thumbnails = run.thumbnails
  BY DEF Prune, Send, RunInv, Run
<1>4. \/ run'.pc = "send" /\ run.pc = "prune"
      \/ /\ run.pc = "send" /\ run'.pc \in {"mkdir", "report", "read"}
         /\ run'.pc \in {"mkdir", "report"} => run.thumbnails \/ run.seq # 0
  BY DEF Prune, Send, RunInv, Run
<1>5. RunInv'
  BY <1>2, <1>3, <1>4 DEF RunInv
<1>6. TodoInv' /\ DirInv'
  BY <1>1, <1>3, <1>4 DEF TodoInv, DirInv, NameOf, Early
<1>7. DiskInv' /\ RunsStay
  BY <1>1, <1>3, DiskSame DEF SameSlot
<1>8. snaps' \subseteq snaps
  BY DEF Prune, Send
<1>9. messages' \subseteq Message
  <2>1. CASE run.script
    <3>1. [run |-> runs, day |-> run.start.day, seq |-> run.seq, ref |-> run.ref] \in Message
      BY <2>1 DEF RunInv, Run, Moment, WorldInv, Message
    <3> QED BY <3>1 DEF Prune, Send, WorldInv
  <2>2. CASE ~run.script
    BY <2>2 DEF Prune, Send, WorldInv
  <2> QED BY <2>1, <2>2
<1> QED BY <1>1, <1>5, <1>6, <1>7, <1>8, <1>9 DEF WorldInv

\* The day directory: made, filled, or taken away when it stayed empty.
LEMMA ImageSteps ==
    ASSUME Inv, MakeDayDir \/ NoDayDir \/ ScaleImages \/ NoImages
    PROVE  Inv' /\ RunsStay
<1> USE DEF Inv
<1> DEFINE dir == NameOf("dir")
<1>1. /\ run.pc \in {"mkdir", "images"} /\ run.seq # 0 /\ run.todo = {}
      /\ UNCHANGED <<clock, runs, snaps, messages, placed>>
  BY DEF MakeDayDir, NoDayDir, ScaleImages, NoImages, RunInv, TodoInv
<1>2. run' \in Run
  BY ZenonT(40) DEF MakeDayDir, NoDayDir, ScaleImages, NoImages, RunInv, Run
<1>3. /\ run'.seq = run.seq /\ run'.start = run.start /\ run'.todo = run.todo
      /\ run'.photos = run.photos /\ run'.ref = run.ref /\ run'.script = run.script
      /\ run'.thumbnails = run.thumbnails /\ run'.pc \in {"images", "report"}
  BY DEF MakeDayDir, NoDayDir, ScaleImages, NoImages, RunInv, Run
<1>4. RunInv' /\ SameSlot /\ TodoInv'
  BY <1>1, <1>2, <1>3 DEF RunInv, SameSlot, TodoInv
<1>5. DiskInv' /\ RunsStay /\ (run'.pc = "images" => NameOf("dir") \in Names')
  <2>1. CASE MakeDayDir
    <3>1. dir \notin Names /\ Write("dir", {})
      BY <1>1, <2>1 DEF MakeDayDir, DirInv, Early
    <3> QED BY <1>1, <1>4, <3>1, DiskWrite
  <2>2. CASE NoDayDir
    <3>1. run'.pc = "report" /\ disk' = disk
      BY <2>2 DEF NoDayDir, RunInv, Run
    <3> QED BY <1>1, <1>4, <3>1, DiskSame
  <2>3. CASE ScaleImages
    <3> DEFINE things == disk[dir].things \cup {"thumbnail"}
    <3>1. dir \in Names
      BY <2>3 DEF ScaleImages, DirInv
    <3>2. things \in SUBSET Thing
      BY <3>1 DEF DiskInv, Content, Thing
    <3>3. disk' = [disk EXCEPT ![dir].things = things] /\ run'.pc = "report"
      BY <2>3 DEF ScaleImages, RunInv, Run
    <3>4. "human" \in disk[dir].things => "human" \in things
      OBVIOUS
    <3> HIDE DEF dir, things
    <3> QED BY <1>1, <1>4, <3>1, <3>2, <3>3, <3>4, DiskThings
  <2>4. CASE NoImages
    <3>1. dir \in Names /\ run'.pc = "report"
      BY <2>4 DEF NoImages, DirInv, RunInv, Run
    <3>2. CASE disk[dir].things = {}
      <4>1. dir \notin placed /\ disk' = Removed(dir)
        BY <2>4, <3>2 DEF NoImages, DiskInv, PlacedInv
      <4> HIDE DEF dir
      <4> QED BY <1>1, <1>4, <3>1, <4>1, DiskRemove
    <3>3. CASE disk[dir].things # {}
      <4>1. disk' = disk
        BY <2>4, <3>3 DEF NoImages
      <4> QED BY <1>1, <1>4, <3>1, <4>1, DiskSame
    <3> QED BY <3>2, <3>3
  <2> QED BY <2>1, <2>2, <2>3, <2>4
<1>6. DirInv'
  BY <1>3, <1>5, <1>1 DEF DirInv, NameOf, Early
<1> QED BY <1>1, <1>4, <1>5, <1>6 DEF WorldInv

\* The report, and its copy beside the images.
LEMMA ReportSteps ==
    ASSUME Inv, WriteReport \/ WriteReportFails
    PROVE  Inv' /\ RunsStay
<1> USE DEF Inv
<1>1. /\ run.pc = "report" /\ run.seq # 0 /\ run.todo = {}
      /\ UNCHANGED <<clock, runs, snaps, messages, placed>>
      /\ run' = [run EXCEPT !.pc = "read"]
  BY DEF WriteReport, WriteReportFails, RunInv, TodoInv
<1>2. /\ run' \in Run /\ run'.pc = "read"
      /\ run'.seq = run.seq /\ run'.start = run.start /\ run'.todo = run.todo
      /\ run'.photos = run.photos /\ run'.ref = run.ref /\ run'.script = run.script
      /\ run'.thumbnails = run.thumbnails
  BY <1>1 DEF RunInv, Run
<1>3. RunInv' /\ TodoInv' /\ DirInv' /\ SameSlot
  BY <1>1, <1>2 DEF RunInv, TodoInv, DirInv, Early, SameSlot
<1>4. DiskInv' /\ RunsStay
  <2>1. CASE WriteReportFails
    BY <1>1, <1>3, <2>1, DiskSame DEF WriteReportFails
  <2>2. CASE WriteReport
    <3> DEFINE own == NameOf("report")
               dir == NameOf("dir")
               With(c) == [c EXCEPT !.things = @ \cup {"copy"}]
    <3>1. own \in Name /\ own.day = run.start.day /\ own.seq = run.seq /\ own.kind = "report"
      BY <1>1 DEF NameOf, Name, RunInv, Run, Moment
    <3>2. PICK copied \in BOOLEAN :
            disk' = [n \in Names \cup {own} |->
                      CASE n = own -> [run |-> runs, things |-> {}]
                        [] n = dir /\ copied -> With(disk[n])
                        [] OTHER -> disk[n]]
      BY <2>2 DEF WriteReport
    <3>3. dir # own
      BY DEF NameOf
    <3>4. Names' = Names \cup {own}
      BY <3>2 DEF Names
    <3>5. \A n \in Names' :
            \/ n = own /\ disk'[n] = [run |-> runs, things |-> {}]
            \/ n # own /\ disk'[n] \in {disk[n], With(disk[n])}
      BY <3>2, <3>3, <3>4
    <3>6. \A c \in Content : /\ With(c) \in Content /\ With(c).run = c.run
                             /\ c.things \subseteq With(c).things
      BY DEF Content, Thing
    <3>7. [run |-> runs, things |-> {}] \in Content
      BY DEF Content, WorldInv
    <3> HIDE DEF own, dir, With
    <3>8. \A n \in Names : n # own =>
            /\ disk'[n] \in Content /\ disk'[n].run = disk[n].run
            /\ disk[n].things \subseteq disk'[n].things
      BY <3>4, <3>5, <3>6 DEF DiskInv
    <3>9. disk'[own] \in Content /\ disk'[own].run = runs
      BY <3>4, <3>5, <3>7
    <3>10. \A n \in Names : n.day = own.day /\ n.seq = own.seq => disk[n].run = runs
      BY <1>1, <3>1 DEF DiskInv, OwnSlot
    <3>11. RunsStay
      BY <3>4, <3>8, <3>9, <3>10 DEF RunsStay
    <3>12. OneRun'
      BY <3>4, <3>8, <3>9, <3>10 DEF DiskInv, OneRun
    <3>13. OwnSlot'
      BY <1>1, <1>2, <3>1, <3>4, <3>8, <3>9, <3>10 DEF OwnSlot
    <3>14. PlacedInv'
      BY <1>1, <3>1, <3>4, <3>8 DEF DiskInv, PlacedInv
    <3>15. Names' \subseteq Name /\ \A n \in Names' : disk'[n] \in Content
      BY <3>1, <3>4, <3>8, <3>9 DEF DiskInv
    <3> QED BY <3>11, <3>12, <3>13, <3>14, <3>15 DEF DiskInv
  <2> QED BY <2>1, <2>2
<1> QED BY <1>1, <1>3, <1>4 DEF WorldInv

\* Cleaning up kind by kind.
LEMMA KindSteps ==
    ASSUME Inv, ReadKind \/ NextKind
    PROVE  Inv' /\ RunsStay
<1> USE DEF Inv
<1>1. disk' = disk /\ UNCHANGED <<clock, runs, snaps, messages, placed>> /\ Names' = Names
  BY DEF ReadKind, NextKind, Names
<1>2. CASE ReadKind
  <2>1. PICK todo \in SUBSET Names :
          /\ run' = [run EXCEPT !.pc = "remove", !.todo = todo]
          /\ \A n \in todo : n.kind = Kinds[run.kind]
    <3>1. \A kind : OldItems(kind) \subseteq Names /\ \A n \in OldItems(kind) : n.kind = kind
      BY DEF OldItems
    <3>2. PICK read \in BOOLEAN :
            run' = [run EXCEPT !.pc = "remove",
                      !.todo = IF read /\ (Kinds[run.kind] = "dir" => run.mounted)
                               THEN OldItems(Kinds[run.kind]) ELSE {}]
      BY <1>2 DEF ReadKind
    <3> DEFINE todo == IF read /\ (Kinds[run.kind] = "dir" => run.mounted)
                       THEN OldItems(Kinds[run.kind]) ELSE {}
    <3>3. todo \in SUBSET Names /\ \A n \in todo : n.kind = Kinds[run.kind]
      BY <3>1
    <3>4. run' = [run EXCEPT !.pc = "remove", !.todo = todo]
      BY <3>2
    <3> HIDE DEF todo
    <3> QED BY <3>3, <3>4
  <2>2. run' \in Run
    BY <2>1 DEF RunInv, Run, DiskInv
  <2>3. /\ run'.pc = "remove" /\ run'.todo = todo /\ run'.kind = run.kind
        /\ run'.seq = run.seq /\ run'.start = run.start
        /\ run'.photos = run.photos /\ run'.ref = run.ref /\ run'.script = run.script
        /\ run'.thumbnails = run.thumbnails
    BY <2>1 DEF RunInv, Run
  <2>4. RunInv' /\ TodoInv' /\ DirInv' /\ SameSlot
    BY <1>1, <2>1, <2>2, <2>3 DEF RunInv, TodoInv, DirInv, Early, SameSlot
  <2> QED BY <1>1, <2>4, DiskSame DEF WorldInv
<1>3. CASE NextKind
  <2>1. CASE run.kind = Len(Kinds)
    <3>1. run' = Finished
      BY <1>3, <2>1 DEF NextKind
    <3>2. run' \in Run
      BY <3>1, IdleRun DEF Finished, Run, RunInv
    <3>3. /\ run'.pc = "idle" /\ run'.seq = 0 /\ run'.todo = {} /\ run'.photos = FALSE
          /\ run'.script = FALSE /\ run'.thumbnails = FALSE
      BY <3>1 DEF Finished, Idle
    <3>4. RunInv' /\ TodoInv' /\ DirInv'
      BY <3>2, <3>3 DEF RunInv, TodoInv, DirInv, Early
    <3> QED BY <1>1, <3>3, <3>4, DiskSame DEF WorldInv
  <2>2. CASE run.kind # Len(Kinds)
    <3>1. run.kind \in 1 .. 3
      BY <2>2 DEF Kinds, RunInv, Run
    <3>2. run' = [run EXCEPT !.pc = "read", !.kind = @ + 1, !.todo = {}]
      BY <1>3, <2>2 DEF NextKind
    <3>3. run' \in Run
      <4>1. run.kind + 1 \in 1 .. 4
        BY <3>1
      <4> QED BY <3>2, <4>1 DEF RunInv, Run
    <3>4. /\ run'.pc = "read" /\ run'.todo = {}
          /\ run'.seq = run.seq /\ run'.start = run.start
          /\ run'.photos = run.photos /\ run'.ref = run.ref /\ run'.script = run.script
          /\ run'.thumbnails = run.thumbnails
      BY <3>2 DEF RunInv, Run
    <3>5. RunInv' /\ TodoInv' /\ DirInv' /\ SameSlot
      BY <1>1, <3>3, <3>4 DEF RunInv, TodoInv, DirInv, Early, SameSlot
    <3> QED BY <1>1, <3>5, DiskSame DEF WorldInv
  <2> QED BY <2>1, <2>2
<1> QED BY <1>2, <1>3

\* One item: a file goes, a directory is looked at, emptied and removed, or stays.
LEMMA ItemSteps ==
    ASSUME Inv, NEW n \in run.todo,
           \/ RemoveFile(n) \/ ReadDayDir(n)
           \/ EmptyDayDir(n) \/ RemoveDayDir(n) \/ DayDirStays(n)
    PROVE  Inv' /\ RunsStay /\ run'.todo \subseteq run.todo
<1> USE DEF Inv
<1>1. /\ n \in Names /\ n.kind = Kinds[run.kind] /\ run.pc \in {"remove", "empty"}
      /\ UNCHANGED <<clock, runs, snaps, messages, placed>>
  BY DEF TodoInv, RemoveFile, ReadDayDir, EmptyDayDir, RemoveDayDir, DayDirStays
<1>2. run.budget > 0 /\ run.budget - 1 \in Nat
  BY DEF RunInv, Run, RemoveFile, ReadDayDir, EmptyDayDir, RemoveDayDir, DayDirStays
<1>3. /\ run' \in Run /\ run'.kind = run.kind /\ run'.pc \in {"remove", "empty"}
      /\ run'.seq = run.seq /\ run'.start = run.start
      /\ run'.photos = run.photos /\ run'.ref = run.ref /\ run'.script = run.script
      /\ run'.thumbnails = run.thumbnails
      /\ run'.pc = "empty" => run'.budget > 0 /\ run.kind = 4
      /\ run'.todo \in {run.todo, run.todo \ {n}}
  <2>1. CASE RemoveFile(n)
    <3>1. \/ run' = [run EXCEPT !.todo = @ \ {n}, !.budget = @ - 1]
          \/ run' = [run EXCEPT !.todo = @ \ {n}]
      BY <2>1 DEF RemoveFile
    <3> QED BY <1>2, <2>1, <3>1 DEF RunInv, Run, RemoveFile
  <2>2. CASE ReadDayDir(n)
    <3>1. run.kind = 4 /\ run.pc = "remove"
      BY <2>2 DEF ReadDayDir, Kinds, RunInv, Run
    <3>2. \/ run' = [run EXCEPT !.todo = @ \ {n}]
          \/ run' = [run EXCEPT !.pc = "empty"]
      BY <2>2 DEF ReadDayDir
    <3> QED BY <1>2, <3>1, <3>2 DEF RunInv, Run
  <2>3. CASE EmptyDayDir(n)
    BY <1>2, <2>3 DEF EmptyDayDir, RunInv
  <2>4. CASE RemoveDayDir(n)
    <3>1. \E budget \in {run.budget, run.budget - 1} :
             run' = [run EXCEPT !.pc = "remove", !.todo = @ \ {n}, !.budget = budget]
      BY <2>4 DEF RemoveDayDir
    <3>2. PICK budget \in Nat :
             run' = [run EXCEPT !.pc = "remove", !.todo = @ \ {n}, !.budget = budget]
      BY <1>2, <3>1 DEF RunInv, Run
    <3> QED BY <3>2 DEF RunInv, Run
  <2>5. CASE DayDirStays(n)
    BY <2>5 DEF DayDirStays, RunInv, Run
  <2> QED BY <2>1, <2>2, <2>3, <2>4, <2>5
<1>4. RunInv' /\ DirInv' /\ SameSlot
  BY <1>1, <1>3 DEF RunInv, DirInv, Early, SameSlot
<1>5. DiskInv' /\ RunsStay /\ run'.todo \subseteq Names'
  <2>1. CASE disk' = disk
    <3>1. Names' = Names
      BY <2>1 DEF Names
    <3> QED BY <1>1, <1>3, <1>4, <2>1, <3>1, DiskSame DEF TodoInv
  <2>2. CASE disk' = Removed(n) /\ n \notin placed /\ run'.todo = run.todo \ {n}
    <3>1. DiskInv' /\ RunsStay /\ Names' = Names \ {n}
      BY <1>1, <1>4, <2>2, DiskRemove
    <3> QED BY <2>2, <3>1 DEF TodoInv
  <2>3. CASE EmptyDayDir(n)
    <3>1. PICK thing \in disk[n].things \ {"human"} :
             disk' = [disk EXCEPT ![n].things = disk[n].things \ {thing}]
      BY <2>3 DEF EmptyDayDir
    <3> DEFINE things == disk[n].things \ {thing}
    <3>2. things \in SUBSET Thing /\ ("human" \in disk[n].things => "human" \in things)
      BY <1>1 DEF DiskInv, Content
    <3>3. disk' = [disk EXCEPT ![n].things = things]
      BY <3>1
    <3> HIDE DEF things
    <3>4. DiskInv' /\ RunsStay /\ Names' = Names
      BY <1>1, <1>4, <3>2, <3>3, DiskThings
    <3> QED BY <1>3, <3>4 DEF TodoInv
  <2>4. CASE RemoveFile(n)
    <3>1. n \notin placed
      BY <1>1, <2>4 DEF RemoveFile, DiskInv, PlacedInv
    <3>2. run'.todo = run.todo \ {n}
      BY <2>4 DEF RemoveFile, RunInv, Run
    <3> QED BY <2>1, <2>2, <2>4, <3>1, <3>2 DEF RemoveFile
  <2>5. CASE RemoveDayDir(n)
    <3>1. disk[n].things = {} => n \notin placed
      BY DEF DiskInv, PlacedInv
    <3>2. run'.todo = run.todo \ {n}
      BY <2>5 DEF RemoveDayDir, RunInv, Run
    <3> QED BY <2>1, <2>2, <2>5, <3>1, <3>2 DEF RemoveDayDir
  <2> QED BY <2>1, <2>3, <2>4, <2>5 DEF ReadDayDir, DayDirStays
<1>6. TodoInv'
  BY <1>1, <1>3, <1>5 DEF TodoInv
<1> QED BY <1>1, <1>3, <1>4, <1>5, <1>6 DEF WorldInv

\* A run that dies keeps its slot occupied; a write under way leaves its temporary
\* file.
LEMMA KillStep == ASSUME Inv, Kill PROVE Inv' /\ RunsStay
<1> USE DEF Inv
<1>1. run' = Finished /\ UNCHANGED <<clock, runs, snaps, messages, placed>>
  BY DEF Kill
<1>2. run' \in Run
  BY <1>1, IdleRun DEF Finished, Run, RunInv
<1>3. /\ run'.pc = "idle" /\ run'.seq = 0 /\ run'.todo = {} /\ run'.photos = FALSE
      /\ run'.script = FALSE /\ run'.thumbnails = FALSE /\ run'.start = run.start
  BY <1>1 DEF Finished, Idle
<1>4. RunInv' /\ TodoInv' /\ DirInv' /\ SameSlot
  BY <1>1, <1>2, <1>3 DEF RunInv, TodoInv, DirInv, Early, SameSlot
<1>5. DiskInv' /\ RunsStay
  <2>1. CASE disk' = disk
    BY <1>1, <1>3, <2>1, DiskSame
  <2>2. CASE disk' # disk
    <3> DEFINE dir == NameOf("dir")
               things == disk[dir].things \cup {"temp"}
    <3>1. dir \in Names /\ disk' = [disk EXCEPT ![dir].things = things]
      BY <2>2 DEF Kill, DirInv
    <3>2. things \in SUBSET Thing /\ ("human" \in disk[dir].things => "human" \in things)
      BY <3>1 DEF DiskInv, Content, Thing
    <3> HIDE DEF dir, things
    <3> QED BY <1>1, <1>4, <3>1, <3>2, DiskThings
  <2> QED BY <2>1, <2>2
<1> QED BY <1>1, <1>4, <1>5 DEF WorldInv

(***************************************************************************)
(* The theorems.                                                           *)
(***************************************************************************)

LEMMA StepKeeps == ASSUME Inv, Next PROVE Inv' /\ RunsStay
BY WorldSteps, ComparisonSteps, RestoreSteps, TellSteps, ImageSteps, ReportSteps,
   KindSteps, ItemSteps, KillStep DEF Next

LEMMA StutterKeeps == ASSUME Inv, UNCHANGED vars PROVE Inv'
<1> USE DEF Inv, vars
<1>1. WorldInv' /\ RunInv'
  BY DEF WorldInv, RunInv
<1>2. DiskInv'
  BY DiskSame DEF SameSlot
<1>3. TodoInv' /\ DirInv'
  BY DEF TodoInv, DirInv, NameOf, Names
<1> QED BY <1>1, <1>2, <1>3

\* Every variable of the artifacts keeps its type, and a run never has something to
\* remove that is not there.
THEOREM ArtifactTypes == Spec => []TypeOK
<1>1. Inv => TypeOK
  BY DEF Inv, WorldInv, DiskInv, PlacedInv, RunInv, TodoInv, TypeOK
<1> QED BY <1>1, InitInv, StepKeeps, StutterKeeps, PTL DEF Spec

\* Nothing a person put in a day directory is removed, at whatever moment of the
\* making, emptying or removing of that directory it arrives.
THEOREM PeoplesFilesStay == Spec => []HumanThingsStay
<1>1. Inv => HumanThingsStay
  BY DEF Inv, DiskInv, PlacedInv, HumanThingsStay
<1> QED BY <1>1, InitInv, StepKeeps, StutterKeeps, PTL DEF Spec

\* No artifact is ever overwritten by another run, and what has one date and number
\* is all of one run, whatever of it was written, killed or cleaned up.
THEOREM SlotsAreOwned == Spec => OneRunPerSlot
<1> DEFINE Kept ==
      /\ \A n \in Names \cap Names' : disk'[n].run = disk[n].run
      /\ \A m, n \in Names' :
            m.day = n.day /\ m.seq = n.seq => disk'[m].run = disk'[n].run
<1>1. Inv /\ [Next]_vars => [Kept]_disk
  <2>1. ASSUME Inv, Next PROVE Kept
    <3>1. Inv' /\ RunsStay
      BY <2>1, StepKeeps
    <3> QED BY <3>1 DEF Inv, DiskInv, OneRun, RunsStay
  <2>2. UNCHANGED vars => UNCHANGED disk
    BY DEF vars
  <2> QED BY <2>1, <2>2
<1> QED BY <1>1, InitInv, StepKeeps, StutterKeeps, PTL DEF Spec, OneRunPerSlot

(***************************************************************************)
(* The promise of a message.  An artifact has the date of its run, which   *)
(* is not before that of the snapshot it restores from; so as long as the  *)
(* snapshot is young, the margin keeps the script and its list from being  *)
(* old.                                                                    *)
(***************************************************************************)

Young(s) == ~Before(s.created, DaysAgo(clock, KeepDays))

\* A day count is what the clock shows during the whole run.
ClockInv ==
    /\ run.pc # "idle" => run.start = clock
    /\ \A s \in snaps : s.created.day =< clock.day

OldTodo ==
    \A n \in run.todo :
        n.kind \in {"script", "list"} => n.day =< run.start.day - (KeepDays + ArtifactDayMargin)

\* What the message is going to name.
ScriptInv ==
    /\ run.pc = "script" => NameOf("list") \in Names
    /\ run.script /\ run.pc \in {"prune", "send"} =>
            NameOf("list") \in Names /\ NameOf("script") \in Names

RefInv ==
    run.photos /\ run.pc \in {"slot", "list", "script", "prune", "send"} =>
        run.ref.created.day =< clock.day /\ (Young(run.ref) => run.ref \in snaps)

ToldInv ==
    \A m \in messages :
        /\ m.ref.created.day =< m.day
        /\ Young(m.ref) =>
            /\ m.ref \in snaps
            /\ \A kind \in {"script", "list"} :
                LET n == [kind |-> kind, day |-> m.day, seq |-> m.seq]
                IN  n \in Names /\ disk[n].run = m.run

PromiseInv == ClockInv /\ OldTodo /\ ScriptInv /\ RefInv /\ ToldInv

\* What is young has been young at every earlier moment.
LEMMA YoungBefore ==
    ASSUME WorldInv, WorldInv', NEW s, s.created \in Moment, Young(s)',
           \/ clock'.day > clock.day
           \/ clock'.day = clock.day /\ clock'.tick >= clock.tick
    PROVE  Young(s)
<1>1. KeepDays \in Nat
  BY RetentionAssumption
<1>2. /\ DaysAgo(clock, KeepDays).day = clock.day - KeepDays
      /\ DaysAgo(clock, KeepDays).tick = clock.tick
      /\ DaysAgo(clock', KeepDays).day = clock'.day - KeepDays
      /\ DaysAgo(clock', KeepDays).tick = clock'.tick
  BY DEF WorldInv, Moment, DaysAgo
<1> QED BY <1>1, <1>2 DEF WorldInv, Moment, Young, Before

\* What the cleanup takes is not what the message about a young snapshot names.
LEMMA OldIsNotPromised ==
    ASSUME ArtifactDayMargin >= 1, WorldInv, NEW ref \in Snapshot, NEW day \in Nat,
           Young(ref), ref.created.day =< day
    PROVE  ~(day =< clock.day - (KeepDays + ArtifactDayMargin))
<1>1. KeepDays \in Nat /\ ArtifactDayMargin \in Nat
  BY RetentionAssumption, ArtifactsAssumption
<1>2. /\ DaysAgo(clock, KeepDays).day = clock.day - KeepDays
      /\ DaysAgo(clock, KeepDays).tick = clock.tick
  BY DEF WorldInv, Moment, DaysAgo
<1> QED BY <1>1, <1>2 DEF WorldInv, Moment, Young, Before, Snapshot

LEMMA InitPromise == Init => PromiseInv
<1> SUFFICES ASSUME Init PROVE PromiseInv
  OBVIOUS
<1>1. /\ run.pc = "idle" /\ run.todo = {} /\ run.script = FALSE /\ run.photos = FALSE
      /\ snaps = {} /\ messages = {}
  BY DEF Init, Idle
<1> QED BY <1>1 DEF PromiseInv, ClockInv, OldTodo, ScriptInv, RefInv, ToldInv

\* Messages stay true when their snapshots and files stay and the clock goes on.
LEMMA ToldStays ==
    ASSUME ArtifactDayMargin >= 1,
           Inv, Inv', ToldInv, RunsStay, messages' = messages,
           \/ clock'.day > clock.day
           \/ clock'.day = clock.day /\ clock'.tick >= clock.tick,
           \A s \in snaps : Young(s)' => s \in snaps',
           \A n \in Names \ Names' : n.kind \in {"script", "list"} =>
                n.day =< clock.day - (KeepDays + ArtifactDayMargin)
    PROVE  ToldInv'
<1> SUFFICES ASSUME NEW m \in messages, Young(m.ref)'
             PROVE  /\ m.ref \in snaps'
                    /\ \A kind \in {"script", "list"} :
                        LET n == [kind |-> kind, day |-> m.day, seq |-> m.seq]
                        IN  n \in Names' /\ disk'[n].run = m.run
  BY DEF ToldInv
<1>1. m.ref.created \in Moment
  BY DEF Inv, WorldInv, Message, Snapshot
<1>2. Young(m.ref)
  BY <1>1, YoungBefore DEF Inv
<1>3. m.ref \in snaps
  BY <1>2 DEF ToldInv
<1>4. ASSUME NEW kind \in {"script", "list"}, NEW n, n = [kind |-> kind, day |-> m.day, seq |-> m.seq]
      PROVE  n \in Names' /\ disk'[n].run = m.run
  <2>1. n \in Names /\ disk[n].run = m.run /\ n.kind = kind /\ n.day = m.day
    BY <1>2, <1>4 DEF ToldInv
  <2>2. m.ref \in Snapshot /\ m.day \in Nat /\ m.ref.created.day =< m.day
    BY DEF Inv, WorldInv, Message, ToldInv
  <2>3. ~(n.day =< clock.day - (KeepDays + ArtifactDayMargin))
    BY <1>2, <2>1, <2>2, OldIsNotPromised DEF Inv
  <2> QED BY <2>1, <2>3 DEF RunsStay
<1> QED BY <1>3, <1>4

LEMMA PromiseWorld ==
    ASSUME ArtifactDayMargin >= 1, Inv, Inv', RunsStay, PromiseInv,
           Tick \/ Start \/ Kill \/ \E n \in Names : PersonPuts(n)
    PROVE  PromiseInv'
<1> USE DEF PromiseInv
<1>1. CASE Tick
  <2>1. /\ clock'.day >= clock.day
        /\ clock'.day = clock.day => clock'.tick >= clock.tick
    BY <1>1 DEF Tick, Inv, WorldInv, Moment
  <2>2. UNCHANGED <<snaps, disk, run, messages>> /\ Names' = Names /\ run.pc = "idle"
        /\ clock.day \in Nat /\ clock'.day \in Nat
    BY <1>1 DEF Tick, Names, Inv, WorldInv, Moment
  <2>3. ToldInv'
    BY <2>1, <2>2, ToldStays
  <2>4. \A s \in snaps : s.created.day \in Nat
    BY DEF Inv, WorldInv, Snapshot, Moment
  <2>5. ClockInv'
    BY <2>1, <2>2, <2>4 DEF ClockInv
  <2> QED BY <2>2, <2>3, <2>5 DEF OldTodo, ScriptInv, RefInv
<1>2. CASE Start \/ Kill
  <2>1. UNCHANGED <<clock, snaps, messages>> /\ Names' = Names /\ clock.tick \in Nat /\ clock.day \in Nat
    BY <1>2 DEF Start, Kill, Names, Inv, WorldInv, Moment
  <2>2. /\ run'.todo = {} /\ run'.script = FALSE
        /\ run'.pc = "idle" \/ (run'.pc = "compare" /\ run'.start = clock)
    BY <1>2 DEF Start, Kill, Finished, Idle
  <2>3. ToldInv'
    BY <2>1, ToldStays
  <2> QED BY <2>1, <2>2, <2>3 DEF ClockInv, OldTodo, ScriptInv, RefInv
<1>3. CASE \E n \in Names : PersonPuts(n)
  <2>1. UNCHANGED <<clock, snaps, messages, run>> /\ Names' = Names /\ clock.tick \in Nat /\ clock.day \in Nat
    BY <1>3 DEF PersonPuts, Names, Inv, WorldInv, Moment
  <2>2. ToldInv'
    BY <2>1, ToldStays
  <2> QED BY <2>1, <2>2 DEF ClockInv, OldTodo, ScriptInv, RefInv, NameOf, Young
<1> QED BY <1>1, <1>2, <1>3

\* The comparison, the choice of the slot and the restore script.
LEMMA PromiseBefore ==
    ASSUME ArtifactDayMargin >= 1, Inv, Inv', RunsStay, PromiseInv,
           Compare \/ ChooseSlot \/ NoSlot \/ WriteList \/ WriteScript \/ RestoreFails
    PROVE  PromiseInv'
<1> USE DEF PromiseInv
<1>1. /\ UNCHANGED <<clock, messages>> /\ snaps \subseteq snaps' /\ Names \subseteq Names'
      /\ clock.tick \in Nat /\ clock.day \in Nat
  BY DEF Compare, ChooseSlot, NoSlot, WriteList, WriteScript, RestoreFails, Write, Names,
         Inv, WorldInv, Moment
<1>2. ToldInv'
  BY <1>1, ToldStays
<1>3. run'.start = run.start /\ run.pc # "idle" /\ run'.todo = {} /\ run.todo = {}
  BY ZenonT(40) DEF Compare, ChooseSlot, NoSlot, WriteList, WriteScript, RestoreFails,
         Inv, RunInv, Run, TodoInv
<1>4. ClockInv'
  <2>1. \A s \in snaps' \ snaps : s.created = clock
    <3>1. CASE Compare
      <4>1. snaps' \subseteq snaps \cup {[name |-> clock.day, created |-> clock]}
        BY <3>1 DEF Compare
      <4> QED BY <4>1
    <3>2. CASE ~Compare
      BY <3>2 DEF ChooseSlot, NoSlot, WriteList, WriteScript, RestoreFails
    <3> QED BY <3>1, <3>2
  <2> QED BY <1>1, <1>3, <2>1 DEF ClockInv
<1>5. RefInv'
  <2>1. CASE Compare
    <3>1. run'.photos => run'.ref \in snaps
      BY <2>1, ZenonT(40) DEF Compare, Inv, RunInv, Run
    <3> QED BY <1>1, <3>1 DEF RefInv, ClockInv
  <2>2. CASE ~Compare
    <3>1. /\ run'.photos = run.photos /\ run'.ref = run.ref
          /\ run.pc \in {"slot", "list", "script"} /\ snaps' = snaps
      BY <2>2, ZenonT(40) DEF ChooseSlot, NoSlot, WriteList, WriteScript, RestoreFails, Inv, RunInv, Run
    <3> QED BY <1>1, <3>1 DEF RefInv, Young
  <2> QED BY <2>1, <2>2
<1>6. ScriptInv'
  <2>1. CASE WriteList \/ WriteScript
    <3>1. run'.seq = run.seq /\ run'.start = run.start
      BY <2>1 DEF WriteList, WriteScript, Inv, RunInv, Run
    <3>2. \A kind : NameOf(kind)' = NameOf(kind)
      BY <3>1 DEF NameOf
    <3>3. CASE WriteList
      <4>1. run'.pc = "script" /\ NameOf("list") \in Names'
        BY <3>3 DEF WriteList, Write, Names, Inv, RunInv, Run
      <4> QED BY <3>2, <4>1 DEF ScriptInv
    <3>4. CASE WriteScript
      <4>1. run'.pc = "prune" /\ NameOf("script") \in Names' /\ NameOf("list") \in Names
        BY <3>4 DEF WriteScript, Write, Names, ScriptInv, Inv, RunInv, Run
      <4> QED BY <1>1, <3>2, <4>1 DEF ScriptInv
    <3> QED BY <2>1, <3>3, <3>4
  <2>2. CASE Compare \/ ChooseSlot \/ NoSlot
    <3>1. run'.pc # "script" /\ ~run'.script
      <4>1. ~run.script /\ run \in Run
        BY <2>2 DEF Compare, ChooseSlot, NoSlot, Inv, RunInv
      <4>2. CASE Compare
        BY <4>1, <4>2 DEF Compare, Run
      <4>3. CASE ChooseSlot
        BY <4>1, <4>3 DEF ChooseSlot, Run
      <4>4. CASE NoSlot
        BY <4>1, <4>4 DEF NoSlot, Run
      <4> QED BY <2>2, <4>2, <4>3, <4>4
    <3> QED BY <3>1 DEF ScriptInv
  <2>3. CASE RestoreFails
    <3>1. run'.pc = "prune" /\ ~run'.script
      BY <2>3 DEF RestoreFails, Inv, RunInv, Run
    <3> QED BY <3>1 DEF ScriptInv
  <2> QED BY <2>1, <2>2, <2>3
<1> QED BY <1>2, <1>3, <1>4, <1>5, <1>6 DEF OldTodo

\* Pruning takes no young snapshot, and the message names what is there.
LEMMA PromiseTell ==
    ASSUME ArtifactDayMargin >= 1, Inv, Inv', RunsStay, PromiseInv, Prune \/ Send
    PROVE  PromiseInv'
<1> USE DEF PromiseInv
<1>1. /\ UNCHANGED <<clock, runs, disk>> /\ Names' = Names
      /\ clock.tick \in Nat /\ clock.day \in Nat /\ run.pc \in {"prune", "send"}
  BY DEF Prune, Send, Names, Inv, WorldInv, Moment
<1>2. run.start = clock /\ run.todo = {}
  BY <1>1 DEF ClockInv, Inv, TodoInv
<1>3. snaps' \subseteq snaps /\ \A s \in snaps : Young(s) => s \in snaps'
  <2>1. CASE Prune
    <3>1. PICK gone \in SUBSET SnapshotsToDelete(snaps, run.start) : snaps' = snaps \ gone
      BY <2>1 DEF Prune
    <3>2. \A s \in gone : ~Young(s)
      BY <1>2, <3>1 DEF SnapshotsToDelete, TooOld, Young
    <3> QED BY <3>1, <3>2
  <2>2. CASE Send
    BY <2>2 DEF Send
  <2> QED BY <2>1, <2>2
<1>4. /\ run'.start = run.start /\ run'.seq = run.seq /\ run'.todo = run.todo
      /\ run'.photos = run.photos /\ run'.ref = run.ref /\ run'.script = run.script
      /\ run'.pc \in {"send", "mkdir", "report", "read"}
  BY DEF Prune, Send, Inv, RunInv, Run
<1>5. \A kind : NameOf(kind)' = NameOf(kind)
  BY <1>4 DEF NameOf
<1>6. \A s : Young(s)' <=> Young(s)
  BY <1>1 DEF Young
<1>7. ClockInv' /\ OldTodo'
  BY <1>1, <1>2, <1>3, <1>4 DEF ClockInv, OldTodo
<1>8. ScriptInv'
  BY <1>1, <1>4, <1>5 DEF ScriptInv
<1>9. RefInv'
  BY <1>1, <1>3, <1>4, <1>6 DEF RefInv
<1>10. ToldInv'
  <2>1. CASE Prune
    <3>1. messages' = messages
      BY <2>1 DEF Prune
    <3> QED BY <1>1, <1>3, <1>6, <3>1, ToldStays
  <2>2. CASE Send
    <3> DEFINE new == [run |-> runs, day |-> run.start.day, seq |-> run.seq, ref |-> run.ref]
    <3>1. messages' = messages \/ (run.script /\ messages' = messages \cup {new})
      BY <2>2 DEF Send
    <3>2. snaps' = snaps /\ run.pc = "send"
      BY <2>2 DEF Send
    <3>3. ASSUME run.script
          PROVE  /\ run.ref.created.day =< run.start.day
                 /\ Young(run.ref) => run.ref \in snaps
                 /\ run.seq # 0 /\ NameOf("list") \in Names /\ NameOf("script") \in Names
      <4>1. run.photos
        BY <3>3 DEF Inv, RunInv
      <4>2. NameOf("list") \in Names /\ NameOf("script") \in Names
        BY <3>2, <3>3 DEF ScriptInv
      <4>3. run.seq # 0
        BY <4>2 DEF Inv, DiskInv, Name, NameOf
      <4> QED BY <1>2, <3>2, <4>1, <4>2, <4>3 DEF RefInv
    <3>4. ASSUME run.script, NEW kind \in {"script", "list"},
                 NEW n, n = [kind |-> kind, day |-> run.start.day, seq |-> run.seq]
          PROVE  n \in Names /\ disk[n].run = runs
      <4>1. n = NameOf(kind) /\ n \in Names
        BY <3>3, <3>4 DEF NameOf
      <4> QED BY <3>3, <3>4, <4>1 DEF Inv, DiskInv, OwnSlot
    <3>5. \A m \in messages' \ messages : m = new /\ run.script
      BY <3>1
    <3>6. ASSUME NEW m \in messages', m \notin messages
          PROVE  /\ m.ref.created.day =< m.day
                 /\ Young(m.ref) =>
                     /\ m.ref \in snaps
                     /\ \A kind \in {"script", "list"} :
                         LET n == [kind |-> kind, day |-> m.day, seq |-> m.seq]
                         IN  n \in Names /\ disk[n].run = m.run
      <4>1. m = new /\ run.script
        BY <3>5, <3>6
      <4> QED BY <3>3, <3>4, <4>1
    <3> QED BY <1>1, <1>6, <3>2, <3>6 DEF ToldInv
  <2> QED BY <2>1, <2>2
<1> QED BY <1>7, <1>8, <1>9, <1>10

\* After the message nothing is added to what was promised, and the cleanup takes
\* only what is old.
LEMMA PromiseAfter ==
    ASSUME ArtifactDayMargin >= 1, Inv, Inv', RunsStay, PromiseInv,
           \/ MakeDayDir \/ NoDayDir \/ ScaleImages \/ NoImages
           \/ WriteReport \/ WriteReportFails \/ ReadKind \/ NextKind
           \/ \E n \in run.todo :
                \/ RemoveFile(n) \/ ReadDayDir(n)
                \/ EmptyDayDir(n) \/ RemoveDayDir(n) \/ DayDirStays(n)
    PROVE  PromiseInv'
<1> USE DEF PromiseInv
<1>1. /\ UNCHANGED <<clock, snaps, messages>>
      /\ clock.tick \in Nat /\ clock.day \in Nat
      /\ run.pc \in {"mkdir", "images", "report", "read", "remove", "empty"}
  BY DEF MakeDayDir, NoDayDir, ScaleImages, NoImages, WriteReport, WriteReportFails,
         ReadKind, NextKind, RemoveFile, ReadDayDir, EmptyDayDir, RemoveDayDir, DayDirStays,
         Inv, WorldInv, Moment
<1>2. run.start = clock
  BY <1>1 DEF ClockInv
<1>3. run'.start = run.start /\ run'.pc \in {"images", "report", "read", "remove", "empty", "idle"}
  <2>1. CASE NextKind
    BY <2>1 DEF NextKind, Finished, Idle, Inv, RunInv, Run
  <2>2. CASE ~NextKind
    BY <2>2, ZenonT(40) DEF MakeDayDir, NoDayDir, ScaleImages, NoImages, WriteReport, WriteReportFails,
         ReadKind, RemoveFile, ReadDayDir, EmptyDayDir, RemoveDayDir, DayDirStays,
         Inv, RunInv, Run
  <2> QED BY <2>1, <2>2
<1>4. ClockInv' /\ ScriptInv' /\ RefInv'
  BY <1>1, <1>2, <1>3 DEF ClockInv, ScriptInv, RefInv
<1>5. OldTodo'
  <2>1. CASE ReadKind
    <3>1. run'.todo \subseteq OldItems(Kinds[run.kind])
      BY <2>1 DEF ReadKind, Inv, RunInv, Run
    <3>2. \A kind : \A n \in OldItems(kind) : n.kind = kind /\ n.day =< run.start.day - Keep(kind)
      BY DEF OldItems
    <3> QED BY <1>3, <3>1, <3>2 DEF OldTodo, Keep
  <2>2. CASE NextKind
    <3>1. run'.todo = {}
      BY <2>2 DEF NextKind, Finished, Idle, Inv, RunInv, Run
    <3> QED BY <3>1 DEF OldTodo
  <2>3. CASE ~ReadKind /\ ~NextKind
    <3>1. run'.todo \subseteq run.todo
      <4>1. run \in Run
        BY DEF Inv, RunInv
      <4>2. CASE MakeDayDir \/ NoDayDir \/ ScaleImages \/ NoImages \/ WriteReport \/ WriteReportFails
        BY <4>1, <4>2 DEF MakeDayDir, NoDayDir, ScaleImages, NoImages, WriteReport,
                          WriteReportFails, Run
      <4>3. ASSUME NEW n \in run.todo,
                   \/ RemoveFile(n) \/ ReadDayDir(n) \/ EmptyDayDir(n)
                   \/ RemoveDayDir(n) \/ DayDirStays(n)
            PROVE  run'.todo \subseteq run.todo
        BY <4>3, ItemSteps
      <4> QED BY <2>3, <4>2, <4>3
    <3> QED BY <1>3, <3>1 DEF OldTodo
  <2> QED BY <2>1, <2>2, <2>3
<1>6. \A n \in Names \ Names' : n.kind \in {"script", "list"} =>
            n.day =< clock.day - (KeepDays + ArtifactDayMargin)
  <2>1. CASE \E n \in run.todo : RemoveFile(n)
    <3>1. PICK n \in run.todo : disk' = Removed(n) \/ disk' = disk
      BY <2>1 DEF RemoveFile
    <3>2. Names \ Names' \subseteq {n}
      BY <3>1 DEF Removed, Names
    <3> QED BY <1>2, <3>2 DEF OldTodo
  <2>2. CASE \E n \in run.todo : RemoveDayDir(n)
    <3>1. PICK n \in run.todo : (disk' = Removed(n) \/ disk' = disk) /\ run.pc = "empty"
      BY <2>2 DEF RemoveDayDir
    <3>2. n.kind = "dir"
      BY <3>1 DEF Inv, TodoInv, RunInv, Kinds
    <3>3. Names \ Names' \subseteq {n}
      BY <3>1 DEF Removed, Names
    <3> QED BY <3>2, <3>3
  <2>3. CASE NoImages
    <3>1. Names \ Names' \subseteq {NameOf("dir")}
      BY <2>3 DEF NoImages, Removed, Names
    <3> QED BY <3>1 DEF NameOf
  <2>4. CASE MakeDayDir \/ WriteReport
    BY <2>4 DEF MakeDayDir, WriteReport, Write, Names
  <2>5. CASE ScaleImages \/ \E n \in run.todo : EmptyDayDir(n)
    BY <2>5 DEF ScaleImages, EmptyDayDir, Names
  <2>6. CASE \/ NoDayDir \/ WriteReportFails \/ ReadKind \/ NextKind
             \/ \E n \in run.todo : ReadDayDir(n) \/ DayDirStays(n)
    BY <2>6 DEF NoDayDir, WriteReportFails, ReadKind, NextKind, ReadDayDir, DayDirStays, Names
  <2> QED BY <2>1, <2>2, <2>3, <2>4, <2>5, <2>6
<1>7. ToldInv'
  BY <1>1, <1>6, ToldStays
<1> QED BY <1>4, <1>5, <1>7

\* While the snapshot a message names is younger than KEEP_DAYS, the snapshot, the
\* restore script and its list are there, whatever is pruned, cleaned up, killed or
\* written by other runs; a margin of one day is enough for that.
THEOREM PromiseIsGood == ASSUME ArtifactDayMargin >= 1 PROVE Spec => []PromiseHolds
<1>1. Init => Inv /\ PromiseInv
  BY InitInv, InitPromise
<1>2. Inv /\ PromiseInv /\ [Next]_vars => (Inv /\ PromiseInv)'
  <2>1. ASSUME Inv, PromiseInv, Next PROVE (Inv /\ PromiseInv)'
    <3>1. Inv' /\ RunsStay
      BY <2>1, StepKeeps
    <3> QED BY <2>1, <3>1, PromiseWorld, PromiseBefore, PromiseTell, PromiseAfter DEF Next
  <2>2. ASSUME Inv, PromiseInv, UNCHANGED vars PROVE (Inv /\ PromiseInv)'
    <3>1. Inv'
      BY <2>2, StutterKeeps
    <3>2. PromiseInv'
      BY <2>2 DEF vars, PromiseInv, ClockInv, OldTodo, ScriptInv, RefInv, ToldInv, Young,
                  NameOf, Names
    <3> QED BY <3>1, <3>2
  <2> QED BY <2>1, <2>2
<1>3. PromiseInv => PromiseHolds
  BY DEF PromiseInv, ToldInv, Young, PromiseHolds
<1> QED BY <1>1, <1>2, <1>3, PTL DEF Spec
=============================================================================
