----------------------------- MODULE Thumbnails -----------------------------
(***************************************************************************)
(* The making of thumbnails (thumbnail.go, emptyDayDir in cleanup.go and   *)
(* WriteReport): one slot that several rounds write into, the directory of *)
(* the images and the report in REPORT_DIR.  For a dry run these are the   *)
(* dry-run directories, which every round reuses; a real run finds nothing *)
(* in its slot, and is the first round.                                    *)
(*                                                                         *)
(* A photo is its place in the sorted list of deleted files.  Which photos *)
(* the sample takes is Selection; here it is any choice of the right size. *)
(***************************************************************************)
EXTENDS Integers, FiniteSets

CONSTANTS
    Photos,         \* the photos that may be deleted, numbers
    Max,            \* THUMBNAIL_MAX
    MaxRounds,      \* bound: the rounds
    Faults          \* which failures may happen, a subset of AllFaults

AllFaults == {"limit", "write", "remove", "photo", "full", "time", "kill", "human"}

ASSUME ThumbnailsAssumption ==
    /\ Photos \subseteq Nat /\ IsFiniteSet(Photos)
    /\ Max \in Nat /\ MaxRounds \in Nat
    /\ Faults \subseteq AllFaults

VARIABLES
    rounds,     \* how many rounds there were
    there,      \* whether the directory exists
    images,     \* the thumbnails in it
    copy,       \* the report.txt in it
    strange,    \* what else is in it: something of a person, a temporary file
    report,     \* the report itself, in REPORT_DIR
    round,      \* the local state of the round in progress, or of the last one
    left        \* history: how the last round left the directory

vars == <<rounds, there, images, copy, strange, report, round, left>>

\* NNN-<name>.jpg: the number is in the name, the photo is what can be seen (two
\* photos of one name are told apart all the same).
Image == [number : Nat, photo : Photos, round : Nat]

NoReport == [round |-> 0, numbers |-> <<>>]

NumberedPhotos == UNION {[S -> 1 .. Max] : S \in SUBSET Photos}

\* promised: the message named the directory; numbers: the numbers in the report;
\* old: what is still to be removed of an earlier round; issue: whether a side
\* issue speaks of the thumbnails.
Round == [pc : {"idle", "plan", "mkdir", "empty", "images", "report"},
          promised : BOOLEAN, todo : SUBSET Photos, old : SUBSET Image, number : Nat,
          numbers : NumberedPhotos, made : BOOLEAN, issue : BOOLEAN]

Idle == [pc |-> "idle", promised |-> FALSE, todo |-> {}, old |-> {}, number |-> 0,
         numbers |-> <<>>, made |-> FALSE, issue |-> FALSE]

Init ==
    /\ rounds = 0
    /\ there = FALSE /\ images = {} /\ copy = NoReport /\ strange = {}
    /\ report = NoReport
    /\ round = Idle /\ left = "clean"

\* Mutant of Samples: the whole list.
SamplesAll(suitable) == {suitable}

\* What evenSample may take.
Samples(suitable) ==
    {s \in SUBSET suitable :
        Cardinality(s) = IF Cardinality(suitable) > Max THEN Max ELSE Cardinality(suitable)}

\* The photos of this run and the plan behind the message: any of them may be
\* unsuitable, and over the limit none is chosen.
Begin ==
    /\ round.pc = "idle"
    /\ rounds < MaxRounds
    /\ rounds' = rounds + 1
    /\ \E suitable \in SUBSET Photos : \E chosen \in Samples(suitable) :
        \/ round' = [Idle EXCEPT !.pc = IF chosen = {} THEN "report" ELSE "plan",
                                 !.promised = chosen # {}, !.todo = chosen]
        \/ /\ "limit" \in Faults
           /\ round' = [Idle EXCEPT !.pc = "report", !.issue = TRUE]
    /\ UNCHANGED <<there, images, copy, strange, report, left>>

\* MakeThumbnails plans once more, after the message.
Plan ==
    /\ round.pc = "plan"
    /\ \/ round' = [round EXCEPT !.pc = "mkdir"]
       \/ /\ "limit" \in Faults
          /\ round' = [round EXCEPT !.pc = "report", !.todo = {}, !.issue = TRUE]
    /\ UNCHANGED <<rounds, there, images, copy, strange, report, left>>

\* makeDirWithGroup, and the list of what an earlier round left.
MakeDir ==
    /\ round.pc = "mkdir"
    /\ there' = TRUE
    /\ round' = [round EXCEPT !.pc = "empty", !.old = images]
    /\ UNCHANGED <<rounds, images, copy, strange, report, left>>

\* It fails; when only the mode of a new directory could not be set, it is there.
MakeDirFails ==
    /\ "write" \in Faults
    /\ round.pc = "mkdir"
    /\ \/ UNCHANGED <<there, left>>
       \/ ~there /\ there' = TRUE /\ left' = "broken"
    /\ round' = [round EXCEPT !.pc = "report", !.todo = {}, !.issue = TRUE]
    /\ UNCHANGED <<rounds, images, copy, strange, report>>

\* emptyDayDir: the names in the order of ReadDir, the images before report.txt.
Empty ==
    /\ round.pc = "empty"
    /\ \E i \in round.old :
        /\ \A j \in round.old : i.number =< j.number
        /\ images' = images \ {i}
        /\ round' = [round EXCEPT !.old = @ \ {i}]
    /\ UNCHANGED <<rounds, there, copy, strange, report, left>>

\* Mutant of Emptied: the copy of the report is left where it is.
EmptiedOfImages ==
    /\ round.pc = "empty" /\ round.old = {}
    /\ round' = [round EXCEPT !.pc = "images"]
    /\ left' = "clean"
    /\ UNCHANGED <<rounds, there, images, copy, strange, report>>

Emptied ==
    /\ round.pc = "empty" /\ round.old = {}
    /\ copy' = NoReport
    /\ round' = [round EXCEPT !.pc = "images"]
    /\ left' = "clean"
    /\ UNCHANGED <<rounds, there, images, strange, report>>

\* "the numbers may get mixed up": the round goes on all the same.
EmptyFails ==
    /\ "remove" \in Faults
    /\ round.pc = "empty" /\ (round.old # {} \/ copy # NoReport)
    /\ round' = [round EXCEPT !.pc = "images", !.old = {}]
    /\ left' = "mixed"
    /\ UNCHANGED <<rounds, there, images, copy, strange, report>>

\* The next photo of the sample, in the order of the list.
IsNext(p) == p \in round.todo /\ \A q \in round.todo : p =< q

\* oneThumbnail and writeAtomic; a file of the same name is replaced.
Scale(p) ==
    /\ round.pc = "images" /\ IsNext(p)
    /\ LET n == round.number + 1
       IN  /\ images' = {i \in images : i.number # n \/ i.photo # p}
                            \cup {[number |-> n, photo |-> p, round |-> rounds]}
           /\ round' = [round EXCEPT !.todo = @ \ {p}, !.number = n,
                            !.numbers = [q \in DOMAIN @ \cup {p} |-> IF q = p THEN n ELSE @[q]]]
    /\ UNCHANGED <<rounds, there, copy, strange, report, left>>

\* Mutant of ScaleFails: the number is used up.
ScaleFailsCounted(p) ==
    /\ "photo" \in Faults
    /\ round.pc = "images" /\ IsNext(p)
    /\ round' = [round EXCEPT !.todo = @ \ {p}, !.number = @ + 1]
    /\ UNCHANGED <<rounds, there, images, copy, strange, report, left>>

\* Any error, or a panic of the decoder: only this file is skipped.
ScaleFails(p) ==
    /\ "photo" \in Faults
    /\ round.pc = "images" /\ IsNext(p)
    /\ round' = [round EXCEPT !.todo = @ \ {p}]
    /\ UNCHANGED <<rounds, there, images, copy, strange, report, left>>

\* The quota is reached, or the time is up: the rest of the sample is dropped.
Stop ==
    /\ round.pc = "images" /\ round.todo # {}
    /\ \/ "full" \in Faults /\ round' = [round EXCEPT !.todo = {}, !.issue = TRUE]
       \/ "time" \in Faults /\ round' = [round EXCEPT !.todo = {}]
    /\ UNCHANGED <<rounds, there, images, copy, strange, report, left>>

\* At least one image: the report may go beside it.
Made ==
    /\ round.pc = "images" /\ round.todo = {} /\ round.number > 0
    /\ round' = [round EXCEPT !.pc = "report", !.made = TRUE]
    /\ UNCHANGED <<rounds, there, images, copy, strange, report, left>>

\* Mutant of NoneMade: the message that says why is left out.
NoneMadeSilently ==
    /\ round.pc = "images" /\ round.todo = {} /\ round.number = 0
    /\ there' = (images # {} \/ copy # NoReport \/ strange # {})
    /\ round' = [round EXCEPT !.pc = "report"]
    /\ UNCHANGED <<rounds, images, copy, strange, report, left>>

\* Mutant of NoneMade: the directory stays.
NoneMadeDirStays ==
    /\ round.pc = "images" /\ round.todo = {} /\ round.number = 0
    /\ round' = [round EXCEPT !.pc = "report", !.issue = TRUE]
    /\ UNCHANGED <<rounds, there, images, copy, strange, report, left>>

\* Not one: the next message says so, and removeEmptyDayDir removes the directory,
\* which fails when something is in it (and never for another reason here).
NoneMade ==
    /\ round.pc = "images" /\ round.todo = {} /\ round.number = 0
    /\ there' = (images # {} \/ copy # NoReport \/ strange # {})
    /\ round' = [round EXCEPT !.pc = "report", !.issue = TRUE]
    /\ UNCHANGED <<rounds, images, copy, strange, report, left>>

\* WriteReport: the report, and when there are images its copy beside them, which may
\* fail on its own.
WriteReport ==
    /\ round.pc = "report"
    /\ report' = [round |-> rounds, numbers |-> round.numbers]
    /\ \/ copy' = IF round.made THEN report' ELSE copy
       \/ "write" \in Faults /\ copy' = copy
    /\ round' = [round EXCEPT !.pc = "idle"]
    /\ UNCHANGED <<rounds, there, images, strange, left>>

\* "report could not be written": then there is no copy either.
ReportFails ==
    /\ "write" \in Faults
    /\ round.pc = "report"
    /\ round' = [round EXCEPT !.pc = "idle"]
    /\ UNCHANGED <<rounds, there, images, copy, strange, report, left>>

\* SIGKILL or out of memory; a write that was under way leaves a temporary file.
Kill ==
    /\ "kill" \in Faults
    /\ round.pc # "idle"
    /\ round' = Idle
    /\ strange' \in {strange} \cup
            IF there /\ round.pc \in {"images", "report"} THEN {strange \cup {"temp"}} ELSE {}
    /\ left' = IF left = "clean" THEN "broken" ELSE left
    /\ UNCHANGED <<rounds, there, images, copy, report>>

\* Someone puts a file of their own beside the images.
PersonPuts ==
    /\ "human" \in Faults
    /\ there
    /\ strange' = strange \cup {"human"}
    /\ UNCHANGED <<rounds, there, images, copy, report, round, left>>

Next ==
    \/ Begin \/ Plan \/ MakeDir \/ MakeDirFails
    \/ Empty \/ Emptied \/ EmptyFails
    \/ \E p \in Photos : Scale(p) \/ ScaleFails(p)
    \/ Stop \/ Made \/ NoneMade \/ WriteReport \/ ReportFails
    \/ Kill \/ PersonPuts

Spec == Init /\ [][Next]_vars

(***************************************************************************)
(* Properties.                                                             *)
(***************************************************************************)

\* Every variable has its type; no round chooses more than THUMBNAIL_MAX, and
\* nothing is in a directory that is not there.
TypeOK ==
    /\ rounds \in Nat /\ there \in BOOLEAN
    /\ images \subseteq Image
    /\ copy.round \in Nat /\ copy.numbers \in NumberedPhotos
    /\ strange \subseteq {"human", "temp"}
    /\ report.round \in 0 .. rounds /\ report.numbers \in NumberedPhotos
    /\ round \in Round /\ left \in {"clean", "broken", "mixed"}
    /\ Cardinality(round.todo) =< Max
    /\ ~there => images = {} /\ copy = NoReport /\ strange = {}

\* What has a number in this report is the photo on every image with that number.
PointsRight(r) == \A p \in DOMAIN r.numbers, i \in images : i.number = r.numbers[p] => i.photo = p

\* "number 003 can never point at two different photos" (cleanup.go:434).  For the
\* copy beside the images that holds at every moment and whatever was killed, because
\* it is removed with the images of its round before the first new one; for the report
\* in REPORT_DIR, which is not, it holds from the moment the last round has written it:
\* until then thumbnail.go:202 ("may not leave a number 003 behind that points at a
\* different photo than the report says") is not true of it.  Only a failed emptying
\* mixes them up.
NoWrongPhoto ==
    left # "mixed" => PointsRight(copy) /\ (report.round = rounds => PointsRight(report))

\* After a round that ran to its end the copy beside the images speaks of exactly
\* these images, numbered from 1 without a gap, and all of them are of one round.
ReportFitsImages ==
    round.pc = "idle" /\ left = "clean" /\ copy # NoReport =>
        /\ {i.number : i \in images} = 1 .. Cardinality(images)
        /\ images = {[number |-> copy.numbers[p], photo |-> p, round |-> copy.round] :
                        p \in DOMAIN copy.numbers}

\* After such a round no directory stays behind that is empty, or that holds a
\* report without an image (thumbnail.go:175-182, 251-276).
NoHollowDirectory ==
    round.pc = "idle" /\ left = "clean" =>
        /\ there => images # {} \/ strange # {}
        /\ copy # NoReport => images # {}

\* A message that named the directory is followed by an image, or by a side issue
\* that says why there is none, when the round ran to its end: one that was killed
\* says nothing, here or in the code.
PromiseExplained ==
    round.pc = "idle" /\ round.promised /\ round.numbers = <<>> => round.issue
=============================================================================
