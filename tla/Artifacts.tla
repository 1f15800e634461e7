----------------------------- MODULE Artifacts -----------------------------
(***************************************************************************)
(* What a run leaves on disk besides its snapshot: the report, the restore *)
(* script with its list, and the day directory with thumbnails; and what   *)
(* later runs clean up (internal/watch/report.go, restore.go,              *)
(* thumbnail.go, cleanup.go, and run.go where it calls them).              *)
(*                                                                         *)
(* Every set of artifacts has a slot: the date of its run and a number     *)
(* that tells the runs of one day apart.  The message is sent between the  *)
(* restore script and the rest, and names all of them.                     *)
(*                                                                         *)
(* A run whose comparison strands leaves no artifacts and cleans nothing,  *)
(* so it is left out, and so is the dry run, which writes into directories *)
(* of its own.  What the files say is reduced to the run that wrote them   *)
(* and the snapshot they restore from.                                     *)
(***************************************************************************)
EXTENDS Retention, Sequences

CONSTANTS
    KeepDaysReport,     \* KEEP_DAYS_REPORT
    ArtifactDayMargin,  \* days an artifact stays after its snapshot may go (2)
    MinimumReports,     \* how many of a kind always stay (14, 3, 3)
    MinimumRestore,
    MinimumDayDirs,
    MaxCleanupPerRun,   \* how many items may go in one run (20)
    MaxRunsPerDay,      \* slots of a day (99)
    TicksPerDay,        \* moments of a day the model tells apart
    MaxDay,             \* bound: the last day
    MaxRuns,            \* bound: the runs
    Faults              \* which failures may happen, a subset of AllFaults

AllFaults == {"mount", "slot", "write", "destroy", "send", "remove", "kill", "human"}

ASSUME ArtifactsAssumption ==
    /\ {KeepDaysReport, ArtifactDayMargin, MinimumReports, MinimumRestore,
        MinimumDayDirs, MaxCleanupPerRun, MaxRunsPerDay, MaxDay, MaxRuns} \subseteq Nat
    /\ MaxRunsPerDay >= 1
    /\ TicksPerDay \in Nat /\ TicksPerDay >= 1
    /\ ForeignNames = {}
    /\ Faults \subseteq AllFaults

VARIABLES
    clock,      \* the host's clock
    runs,       \* how many runs there were: the last one's number
    snaps,      \* the snapshots of the dataset
    disk,       \* the items in REPORT_DIR and THUMBNAIL_DIR
    run,        \* the local state of the run in progress
    messages,   \* the messages Home Assistant accepted
    placed      \* history: day directories a person put something in

vars == <<clock, runs, snaps, disk, run, messages, placed>>

Moment == [day : Nat \ {0}, tick : Nat]
Snapshot == [name : Nat \ {0}, created : Moment]
NoSnap == [name |-> 0, created |-> [day |-> 0, tick |-> 0]]

\* The kinds in the order of the cleanup.
Kinds == <<"report", "script", "list", "dir">>

\* Names have the slot in them: deleted-<day>-<seq>.txt and so on, without the
\* number for the first run of a day.
Name == [kind : {"report", "script", "list", "dir"}, day : Nat \ {0}, seq : Nat \ {0}]
Thing == {"thumbnail", "copy", "temp", "human"}
Content == [run : Nat, things : SUBSET Thing]

\* Left to do by the run: photos, whether files are gone and not only
\* directories; seq, its slot (0: none); script, images, what it has written;
\* kind, the place in Kinds of the cleanup, todo what goes of that kind.
Run == [pc : {"idle", "compare", "slot", "list", "script", "prune", "send", "mkdir",
              "images", "report", "read", "remove", "empty"},
        start : Moment, mounted : BOOLEAN, ref : Snapshot \cup {NoSnap},
        photos : BOOLEAN, seq : Nat, script : BOOLEAN, thumbnails : BOOLEAN,
        images : BOOLEAN, kind : 1 .. 4, budget : Nat, todo : SUBSET Name]

Idle == [pc |-> "idle", start |-> [day |-> 1, tick |-> 0], mounted |-> TRUE, ref |-> NoSnap,
         photos |-> FALSE, seq |-> 0, script |-> FALSE, thumbnails |-> FALSE,
         images |-> FALSE, kind |-> 1, budget |-> MaxCleanupPerRun, todo |-> {}]

\* A message that names a restore script: whose run, in which slot, from which
\* snapshot it restores.
Message == [run : Nat, day : Nat, seq : Nat, ref : Snapshot]

Init ==
    /\ clock = [day |-> 1, tick |-> 0]
    /\ runs = 0 /\ snaps = {} /\ disk = <<>>
    /\ run = Idle
    /\ messages = {} /\ placed = {}

(***************************************************************************)
(* The files.                                                              *)
(***************************************************************************)

Names == DOMAIN disk

NameOf(kind) == [kind |-> kind, day |-> run.start.day, seq |-> run.seq]

\* writeAtomic and makeDirWithGroup: the name is there afterwards, with these
\* things in it if it is a directory; what had that name is replaced.
Write(kind, things) ==
    disk' = [n \in Names \cup {NameOf(kind)} |->
                IF n = NameOf(kind) THEN [run |-> runs, things |-> things] ELSE disk[n]]

Removed(n) == [m \in Names \ {n} |-> disk[m]]

\* Mutant of SlotFree: only the report is looked for.
SlotFreeByReport(day, seq) == [kind |-> "report", day |-> day, seq |-> seq] \notin Names

\* slotFree: none of the four names is in use.
SlotFree(day, seq) == ~\E n \in Names : n.day = day /\ n.seq = seq

\* The order of two-digit numbers as text.
TextKey(seq) == IF seq < 10 THEN 100 * seq ELSE 100 * (seq \div 10) + (seq % 10) + 1

\* The order in oldItems: by date, and on one date by path.  The first set of a
\* day has no number: "-" comes before "." in a file name, and the shorter name
\* of a directory comes first.
NewerItem(a, b) ==
    \/ a.day > b.day
    \/ /\ a.day = b.day
       /\ CASE a.seq = 1 -> a.kind # "dir" /\ b.seq # 1
            [] b.seq = 1 -> a.kind = "dir" /\ a.seq # 1
            [] OTHER -> TextKey(a.seq) > TextKey(b.seq)

Minimum(kind) ==
    CASE kind = "report" -> MinimumReports
      [] kind \in {"script", "list"} -> MinimumRestore
      [] kind = "dir" -> MinimumDayDirs

\* Mutant of Keep: the artifacts of a snapshot go when only the reports are old.
KeepMargin(kind) == IF kind = "report" THEN KeepDaysReport ELSE ArtifactDayMargin

Keep(kind) == IF kind = "report" THEN KeepDaysReport ELSE KeepDays + ArtifactDayMargin

\* oldItems: the newest stay, and what goes is at least so many days old; the
\* date of an item is its midnight, so that a run of the last day finds it old.
OldItems(kind) ==
    LET own == {n \in Names : n.kind = kind /\ n.day =< run.start.day}
    IN  {n \in own : /\ Cardinality({m \in own : NewerItem(m, n)}) >= Minimum(kind)
                     /\ n.day =< run.start.day - Keep(kind)}

Oldest(n) == n \in run.todo /\ \A m \in run.todo \ {n} : NewerItem(m, n)

(***************************************************************************)
(* The world around the program.                                           *)
(***************************************************************************)

\* Time passes between runs.
Tick ==
    /\ run.pc = "idle"
    /\ clock.day < MaxDay \/ clock.tick < TicksPerDay - 1
    /\ clock' = IF clock.tick < TicksPerDay - 1
                THEN [clock EXCEPT !.tick = @ + 1]
                ELSE [day |-> clock.day + 1, tick |-> 0]
    /\ UNCHANGED <<runs, snaps, disk, run, messages, placed>>

\* Someone puts a file of their own in a day directory on the share.
PersonPuts(n) ==
    /\ "human" \in Faults
    /\ n \in Names /\ n.kind = "dir"
    /\ disk' = [disk EXCEPT ![n].things = @ \cup {"human"}]
    /\ placed' = placed \cup {n}
    /\ UNCHANGED <<clock, runs, snaps, run, messages>>

(***************************************************************************)
(* The run, up to its message.                                             *)
(***************************************************************************)

\* The timer or a start by hand; a moment is the length of a run.
Start ==
    /\ run.pc = "idle"
    /\ runs < MaxRuns
    /\ runs = 0 \/ run.start # clock
    /\ runs' = runs + 1
    /\ \E mounted \in BOOLEAN :
        /\ mounted \/ "mount" \in Faults
        /\ run' = [Idle EXCEPT !.pc = "compare", !.start = clock, !.mounted = mounted]
    /\ UNCHANGED <<clock, snaps, disk, messages, placed>>

\* The comparison and today's snapshot, which is there already on the second run
\* of a day; there is something to write when files or directories are gone.
Compare ==
    /\ run.pc = "compare"
    /\ \E ref \in snaps \cup {NoSnap}, something, photos \in BOOLEAN :
        /\ IF snaps = {} THEN ref = NoSnap ELSE IsLatest(ref, snaps)
        /\ photos => something
        /\ something => ref # NoSnap
        /\ run' = [run EXCEPT !.pc = IF something THEN "slot" ELSE "prune",
                              !.ref = ref, !.photos = photos]
    /\ snaps' = IF \E s \in snaps : s.name = clock.day THEN snaps
                ELSE snaps \cup {[name |-> clock.day, created |-> clock]}
    /\ UNCHANGED <<clock, runs, disk, messages, placed>>

\* ChooseArtifactSlot, and what PlanThumbnails decides: the first free slot of
\* today.  Without a mountpoint there is no script and there are no thumbnails.
ChooseSlot ==
    /\ run.pc = "slot"
    /\ \E seq \in 1 .. MaxRunsPerDay, thumbnails \in BOOLEAN :
        /\ SlotFree(run.start.day, seq)
        /\ \A n \in 1 .. seq - 1 : ~SlotFree(run.start.day, n)
        /\ thumbnails => run.photos /\ run.mounted
        /\ run' = [run EXCEPT !.pc = IF run.photos /\ run.mounted THEN "list" ELSE "prune",
                              !.seq = seq, !.thumbnails = thumbnails]
    /\ UNCHANGED <<clock, runs, snaps, disk, messages, placed>>

\* Every slot is taken, or one of the names cannot be looked at.
NoSlot ==
    /\ run.pc = "slot"
    /\ "slot" \in Faults \/ \A n \in 1 .. MaxRunsPerDay : ~SlotFree(run.start.day, n)
    /\ run' = [run EXCEPT !.pc = "prune"]
    /\ UNCHANGED <<clock, runs, snaps, disk, messages, placed>>

\* WriteRestore: the list before the script.
WriteList ==
    /\ run.pc = "list"
    /\ Write("list", {})
    /\ run' = [run EXCEPT !.pc = "script"]
    /\ UNCHANGED <<clock, runs, snaps, messages, placed>>

WriteScript ==
    /\ run.pc = "script"
    /\ Write("script", {})
    /\ run' = [run EXCEPT !.pc = "prune", !.script = TRUE]
    /\ UNCHANGED <<clock, runs, snaps, messages, placed>>

\* Nothing of the list is in the snapshot, or one of the two writes fails.
RestoreFails ==
    /\ "write" \in Faults
    /\ run.pc \in {"list", "script"}
    /\ run' = [run EXCEPT !.pc = "prune"]
    /\ UNCHANGED <<clock, runs, snaps, disk, messages, placed>>

\* pruneSnapshots, with all of its list or, when a destroy fails, the oldest.
Prune ==
    /\ run.pc = "prune"
    /\ \E gone \in SUBSET SnapshotsToDelete(snaps, run.start) :
        /\ \A s \in gone, t \in SnapshotsToDelete(snaps, run.start) \ gone : NewerThan(t, s)
        /\ gone = SnapshotsToDelete(snaps, run.start) \/ "destroy" \in Faults
        /\ snaps' = snaps \ gone
    /\ run' = [run EXCEPT !.pc = "send"]
    /\ UNCHANGED <<clock, runs, disk, messages, placed>>

\* Send; what follows it does not depend on the outcome.
Send ==
    /\ run.pc = "send"
    /\ \/ messages' = IF run.script
                      THEN messages \cup {[run |-> runs, day |-> run.start.day,
                                           seq |-> run.seq, ref |-> run.ref]}
                      ELSE messages
       \/ "send" \in Faults /\ UNCHANGED messages
    /\ run' = [run EXCEPT !.pc = IF run.thumbnails THEN "mkdir"
                                 ELSE IF run.seq # 0 THEN "report" ELSE "read"]
    /\ UNCHANGED <<clock, runs, snaps, disk, placed>>

(***************************************************************************)
(* The aftercare.                                                          *)
(***************************************************************************)

\* MakeThumbnails creates the day directory.
MakeDayDir ==
    /\ run.pc = "mkdir"
    /\ Write("dir", {})
    /\ run' = [run EXCEPT !.pc = "images"]
    /\ UNCHANGED <<clock, runs, snaps, messages, placed>>

\* The share is over its limit, or the directory cannot be made.
NoDayDir ==
    /\ "write" \in Faults
    /\ run.pc = "mkdir"
    /\ run' = [run EXCEPT !.pc = "report"]
    /\ UNCHANGED <<clock, runs, snaps, disk, messages, placed>>

ScaleImages ==
    /\ run.pc = "images"
    /\ disk' = [disk EXCEPT ![NameOf("dir")].things = @ \cup {"thumbnail"}]
    /\ run' = [run EXCEPT !.pc = "report", !.images = TRUE]
    /\ UNCHANGED <<clock, runs, snaps, messages, placed>>

\* Mutant of NoImages: os.RemoveAll.
NoImagesRemoveAll ==
    /\ run.pc = "images"
    /\ disk' = Removed(NameOf("dir"))
    /\ run' = [run EXCEPT !.pc = "report"]
    /\ UNCHANGED <<clock, runs, snaps, messages, placed>>

\* Not one image succeeds: removeEmptyDayDir, which fails when there is
\* something in it.
NoImages ==
    /\ run.pc = "images"
    /\ disk' = IF disk[NameOf("dir")].things = {} THEN Removed(NameOf("dir")) ELSE disk
    /\ run' = [run EXCEPT !.pc = "report"]
    /\ UNCHANGED <<clock, runs, snaps, messages, placed>>

\* WriteReport, with its copy beside the images.
WriteReport ==
    /\ run.pc = "report"
    /\ \E copied \in BOOLEAN :
        /\ copied => run.images
        /\ ~copied => ~run.images \/ "write" \in Faults
        /\ disk' = [n \in Names \cup {NameOf("report")} |->
                      CASE n = NameOf("report") -> [run |-> runs, things |-> {}]
                        [] n = NameOf("dir") /\ copied ->
                             [disk[n] EXCEPT !.things = @ \cup {"copy"}]
                        [] OTHER -> disk[n]]
    /\ run' = [run EXCEPT !.pc = "read"]
    /\ UNCHANGED <<clock, runs, snaps, messages, placed>>

WriteReportFails ==
    /\ "write" \in Faults
    /\ run.pc = "report"
    /\ run' = [run EXCEPT !.pc = "read"]
    /\ UNCHANGED <<clock, runs, snaps, disk, messages, placed>>

(***************************************************************************)
(* CleanArtifacts.                                                         *)
(***************************************************************************)

\* ReadDir and oldItems for one kind; a directory that cannot be read is left
\* alone, and so are the day directories when the mountpoint is unknown.
ReadKind ==
    /\ run.pc = "read"
    /\ \E read \in BOOLEAN :
        /\ read \/ "remove" \in Faults
        /\ run' = [run EXCEPT !.pc = "remove",
                     !.todo = IF read /\ (Kinds[run.kind] = "dir" => run.mounted)
                              THEN OldItems(Kinds[run.kind]) ELSE {}]
    /\ UNCHANGED <<clock, runs, snaps, disk, messages, placed>>

\* Mutant of RemoveFile: a file that is gone is still to be removed.
RemoveFileAgain(n) ==
    /\ run.pc = "remove" /\ Kinds[run.kind] # "dir"
    /\ run.budget > 0 /\ Oldest(n)
    /\ disk' = Removed(n)
    /\ run' = [run EXCEPT !.budget = @ - 1]
    /\ UNCHANGED <<clock, runs, snaps, messages, placed>>

\* One file goes; one that cannot be removed is passed over and costs no budget.
RemoveFile(n) ==
    /\ run.pc = "remove" /\ Kinds[run.kind] # "dir"
    /\ run.budget > 0 /\ Oldest(n)
    /\ \/ /\ disk' = Removed(n)
          /\ run' = [run EXCEPT !.todo = @ \ {n}, !.budget = @ - 1]
       \/ /\ "remove" \in Faults
          /\ disk' = disk
          /\ run' = [run EXCEPT !.todo = @ \ {n}]
    /\ UNCHANGED <<clock, runs, snaps, messages, placed>>

\* removeDayDir reads the directory: one thing it does not know, and all of it
\* stays.
ReadDayDir(n) ==
    /\ run.pc = "remove" /\ Kinds[run.kind] = "dir"
    /\ run.budget > 0 /\ Oldest(n)
    /\ run' = IF "human" \in disk[n].things
              THEN [run EXCEPT !.todo = @ \ {n}]
              ELSE [run EXCEPT !.pc = "empty"]
    /\ UNCHANGED <<clock, runs, snaps, disk, messages, placed>>

\* Its own files go one by one.
EmptyDayDir(n) ==
    /\ run.pc = "empty" /\ Oldest(n)
    /\ \E thing \in disk[n].things \ {"human"} :
        disk' = [disk EXCEPT ![n].things = @ \ {thing}]
    /\ UNCHANGED <<clock, runs, snaps, run, messages, placed>>

\* os.Remove on the directory, which fails when something was added meanwhile.
RemoveDayDir(n) ==
    /\ run.pc = "empty" /\ Oldest(n)
    /\ disk[n].things \subseteq {"human"}
    /\ disk' = IF disk[n].things = {} THEN Removed(n) ELSE disk
    /\ run' = [run EXCEPT !.pc = "remove", !.todo = @ \ {n},
                          !.budget = IF disk[n].things = {} THEN @ - 1 ELSE @]
    /\ UNCHANGED <<clock, runs, snaps, messages, placed>>

\* One of the files cannot be removed: the rest of the directory stays.
DayDirStays(n) ==
    /\ "remove" \in Faults
    /\ run.pc = "empty" /\ Oldest(n)
    /\ run' = [run EXCEPT !.pc = "remove", !.todo = @ \ {n}]
    /\ UNCHANGED <<clock, runs, snaps, disk, messages, placed>>

Finished == [Idle EXCEPT !.start = run.start]

\* Nothing left of this kind, or no budget; after the day directories the run is
\* over.
NextKind ==
    /\ run.pc = "remove"
    /\ run.todo = {} \/ run.budget = 0
    /\ run' = IF run.kind = Len(Kinds) THEN Finished
              ELSE [run EXCEPT !.pc = "read", !.kind = @ + 1, !.todo = {}]
    /\ UNCHANGED <<clock, runs, snaps, disk, messages, placed>>

\* SIGKILL, an OOM kill or a panic; a write that was under way leaves a temporary
\* file.  (After a power cut the last renames can be lost too: not modelled.)
Kill ==
    /\ "kill" \in Faults
    /\ run.pc # "idle"
    /\ run' = Finished
    /\ \/ disk' = disk
       \/ /\ run.pc = "images"
          /\ disk' = [disk EXCEPT ![NameOf("dir")].things = @ \cup {"temp"}]
    /\ UNCHANGED <<clock, runs, snaps, messages, placed>>

(***************************************************************************)
(* The specification.                                                      *)
(***************************************************************************)

Next ==
    \/ Tick \/ Start \/ Kill
    \/ \E n \in Names : PersonPuts(n)
    \/ Compare \/ ChooseSlot \/ NoSlot
    \/ WriteList \/ WriteScript \/ RestoreFails
    \/ Prune \/ Send
    \/ MakeDayDir \/ NoDayDir \/ ScaleImages \/ NoImages
    \/ WriteReport \/ WriteReportFails
    \/ ReadKind \/ NextKind
    \/ \E n \in run.todo :
        \/ RemoveFile(n) \/ ReadDayDir(n)
        \/ EmptyDayDir(n) \/ RemoveDayDir(n) \/ DayDirStays(n)

Spec == Init /\ [][Next]_vars

(***************************************************************************)
(* Properties.                                                             *)
(***************************************************************************)

\* Every variable has its type; what a run still has to remove is on disk.
TypeOK ==
    /\ clock \in Moment /\ runs \in Nat
    /\ snaps \subseteq Snapshot
    /\ Names \subseteq Name /\ \A n \in Names : disk[n] \in Content
    /\ run \in Run /\ run.todo \subseteq Names
    /\ messages \subseteq Message
    /\ placed \subseteq Name

\* "Nothing is ever overwritten, and both runs keep a consistent set"
\* (report.go:92): no file changes hands, and what stands in one slot is all of one
\* run, also when that run was killed or could not write half of its set.
OneRunPerSlot ==
    [][/\ \A n \in Names \cap Names' : disk'[n].run = disk[n].run
       /\ \A m, n \in Names' :
            m.day = n.day /\ m.seq = n.seq => disk'[m].run = disk'[n].run]_disk

\* While the snapshot of a message is younger than KEEP_DAYS, that snapshot, the
\* restore script the message names and its list are there, all of that run,
\* whatever later runs prune and clean up.
PromiseHolds ==
    \A m \in messages :
        ~Before(m.ref.created, DaysAgo(clock, KeepDays)) =>
            /\ m.ref \in snaps
            /\ \A kind \in {"script", "list"} :
                LET n == [kind |-> kind, day |-> m.day, seq |-> m.seq]
                IN  n \in Names /\ disk[n].run = m.run

\* Nothing a person put in a day directory is ever removed, also when it arrives
\* while the directory is being emptied (cleanup.go:376-413).
HumanThingsStay ==
    \A n \in placed : n \in Names /\ "human" \in disk[n].things

\* "This is possible through <date>.  After that the snapshot disappears": on the
\* date in the message the snapshot is still there.
RecoverableThrough ==
    \A m \in messages : clock.day =< m.ref.created.day + KeepDays => m.ref \in snaps
=============================================================================
