-------------------------- MODULE ThumbnailsProofs --------------------------
(***************************************************************************)
(* What Thumbnails guarantees for every value of its constants: a number   *)
(* in the copy of the report, or in the report of the last round, never    *)
(* points at another photo, the copy speaks of the images beside it,       *)
(* nothing hollow stays behind, and a message that named a directory is    *)
(* explained.                                                              *)
(*                                                                         *)
(* The properties speak of a directory at rest.  The invariant follows it  *)
(* through a round: until it is emptied it is as the last round left it    *)
(* (StandingInv), and from then on it holds the images of this round       *)
(* (PlaceInv), whose numbers have no gap and no double (NumbersInv).       *)
(***************************************************************************)
EXTENDS Thumbnails, FiniteSetTheorems, TLAPS

\* The round writes images, or is about to put the report beside them.
Working == round.pc = "images" \/ (round.pc = "report" /\ round.made)

\* The directory is as the last round left it.
Standing == round.pc \in {"idle", "plan", "mkdir"} \/ (round.pc = "report" /\ ~round.made)

\* The images a report with these numbers speaks of.
ImagesOf(numbers, r) == {[number |-> numbers[p], photo |-> p, round |-> r] : p \in DOMAIN numbers}

\* The numbers given out are 1 to round.number, each once and to a photo that is done,
\* and what is left of the sample fits under THUMBNAIL_MAX.
NumbersInv ==
    /\ round.pc \in {"plan", "mkdir", "empty"} => round.numbers = <<>> /\ round.number = 0
    /\ round.todo \cap DOMAIN round.numbers = {}
    /\ \A p \in DOMAIN round.numbers : round.numbers[p] \in 1 .. round.number
    /\ \A n \in 1 .. round.number : \E p \in DOMAIN round.numbers : round.numbers[p] = n
    /\ \A p, q \in DOMAIN round.numbers : round.numbers[p] = round.numbers[q] => p = q
    /\ round.number + Cardinality(round.todo) =< Max

\* Where the round is, and what it has made of the directory.
PlaceInv ==
    /\ round.pc = "empty" => there /\ round.old = images
    /\ round.pc \notin {"report", "idle"} => ~round.made
    /\ Working => there /\ left \in {"clean", "mixed"}
    /\ round.pc = "report" /\ round.made => round.number > 0
    /\ round.pc = "report" /\ ~round.made => DOMAIN round.numbers = {}
    /\ round.pc # "idle" => report.round < rounds
    /\ Working /\ left = "clean" =>
        /\ copy = NoReport /\ images = ImagesOf(round.numbers, rounds)
        /\ IsFiniteSet(images) /\ Cardinality(images) = round.number

\* What ReportFitsImages and NoHollowDirectory say, until the next emptying.
StandingInv ==
    Standing /\ left = "clean" =>
        /\ there => images # {} \/ strange # {}
        /\ copy # NoReport =>
            /\ images # {}
            /\ {i.number : i \in images} = 1 .. Cardinality(images)
            /\ images = ImagesOf(copy.numbers, copy.round)

ExplainedInv ==
    round.pc \in {"report", "idle"} /\ round.promised /\ round.numbers = <<>> => round.issue

Inv == TypeOK /\ NumbersInv /\ PlaceInv /\ StandingInv /\ NoWrongPhoto /\ ExplainedInv

(***************************************************************************)
(* Numbers.                                                                *)
(***************************************************************************)

\* A report without numbers.
LEMMA NoNumbers == <<>> \in NumberedPhotos /\ DOMAIN <<>> = {}
<1>1. DOMAIN <<>> = {} /\ <<>> \in [{} -> 1 .. Max]
  OBVIOUS
<1> QED BY <1>1 DEF NumberedPhotos

\* What the fields of a round are.
LEMMA RoundFields ==
    ASSUME TypeOK
    PROVE  /\ round.todo \subseteq Photos /\ IsFiniteSet(round.todo)
           /\ Cardinality(round.todo) \in Nat
           /\ round.number \in Nat
           /\ round.numbers \in [DOMAIN round.numbers -> 1 .. Max]
           /\ DOMAIN round.numbers \subseteq Photos
<1>1. round.todo \subseteq Photos /\ round.number \in Nat /\ round.numbers \in NumberedPhotos
  BY DEF TypeOK, Round
<1>2. IsFiniteSet(round.todo)
  BY <1>1, FS_Subset, ThumbnailsAssumption
<1>3. PICK S \in SUBSET Photos : round.numbers \in [S -> 1 .. Max]
  BY <1>1 DEF NumberedPhotos
<1>4. DOMAIN round.numbers = S
  BY <1>3
<1> QED BY <1>1, <1>2, <1>3, <1>4, FS_CardinalityType

\* The first state: an empty place and no round.
LEMMA InitInv == Init => Inv
<1> SUFFICES ASSUME Init PROVE Inv
  OBVIOUS
<1>1. Cardinality({}) = 0
  BY FS_EmptySet
<1>2. Max \in Nat
  BY ThumbnailsAssumption
<1>3. Idle \in Round
  BY NoNumbers DEF Idle, Round
<1>4. round = Idle /\ images = {} /\ there = FALSE /\ copy = NoReport /\ left = "clean" /\ strange = {}
  BY DEF Init
<1>5. TypeOK
  <2>1. copy.round = 0 /\ copy.numbers = <<>> /\ round.todo = {}
    BY <1>4 DEF NoReport, Idle
  <2>2. Cardinality(round.todo) =< Max
    BY <1>1, <1>2, <2>1
  <2>3. rounds \in Nat /\ copy.round \in Nat /\ copy.numbers \in NumberedPhotos
    BY <2>1, NoNumbers DEF Init
  <2>4. images \subseteq Image /\ strange \subseteq {"human", "temp"} /\ there \in BOOLEAN
    BY <1>4
  <2>5. report.round \in 0 .. rounds /\ report.numbers \in NumberedPhotos
    BY NoNumbers DEF Init, NoReport
  <2> QED BY <1>3, <1>4, <2>2, <2>3, <2>4, <2>5 DEF TypeOK
<1>6. NumbersInv
  BY <1>1, <1>2, <1>4, NoNumbers DEF NumbersInv, Idle
<1>7. PlaceInv /\ StandingInv /\ ExplainedInv /\ NoWrongPhoto
  BY <1>4 DEF PlaceInv, StandingInv, ExplainedInv, NoWrongPhoto, PointsRight, Working, Idle
<1> QED BY <1>5, <1>6, <1>7 DEF Inv
(***************************************************************************)
(* Before the directory is emptied.                                        *)
(***************************************************************************)

\* A step of a round that has touched nothing yet, or nothing any more.
LEMMA StandingStays ==
    ASSUME Inv, Standing, Standing', round'.made => round'.pc = "idle",
           round' \in Round, Cardinality(round'.todo) =< Max, round'.numbers = <<>>,
           rounds' \in Nat, report.round < rounds',
           UNCHANGED <<there, images, copy, strange, report, left>>
    PROVE  TypeOK' /\ PlaceInv' /\ StandingInv' /\ NoWrongPhoto'
BY NoNumbers DEF Inv, TypeOK, PlaceInv, Standing, Working, StandingInv, NoWrongPhoto, PointsRight

\* A round that has given out no number.
LEMMA NothingNumbered ==
    ASSUME round'.numbers = <<>>, round'.number = 0,
           Cardinality(round'.todo) =< Max, IsFiniteSet(round'.todo)
    PROVE  NumbersInv'
<1>1. DOMAIN round'.numbers = {} /\ 1 .. round'.number = {}
  BY NoNumbers
<1>2. 0 + Cardinality(round'.todo) =< Max
  BY ThumbnailsAssumption, FS_CardinalityType
<1> QED BY <1>1, <1>2 DEF NumbersInv

LEMMA BeginKeeps == ASSUME Inv, Begin PROVE Inv'
<1>1. PICK suitable \in SUBSET Photos : \E chosen \in Samples(suitable) :
        \/ round' = [Idle EXCEPT !.pc = IF chosen = {} THEN "report" ELSE "plan",
                                 !.promised = chosen # {}, !.todo = chosen]
        \/ round' = [Idle EXCEPT !.pc = "report", !.issue = TRUE]
  BY DEF Begin
<1>11. PICK chosen \in Samples(suitable) :
        \/ round' = [Idle EXCEPT !.pc = IF chosen = {} THEN "report" ELSE "plan",
                                 !.promised = chosen # {}, !.todo = chosen]
        \/ round' = [Idle EXCEPT !.pc = "report", !.issue = TRUE]
  BY <1>1
<1>2. chosen \subseteq Photos /\ IsFiniteSet(chosen) /\ IsFiniteSet(suitable)
  BY FS_Subset, ThumbnailsAssumption DEF Samples
<1>3. Cardinality(chosen) =< Max
  BY <1>2, FS_CardinalityType, ThumbnailsAssumption DEF Samples
<1>4. round.pc = "idle" /\ rounds' = rounds + 1 /\ UNCHANGED <<there, images, copy, strange, report, left>>
  BY DEF Begin
<1>12. \/ round' = [Idle EXCEPT !.pc = "report", !.issue = TRUE]
       \/ round' = [Idle EXCEPT !.pc = "report", !.promised = FALSE, !.todo = {}]
       \/ round' = [Idle EXCEPT !.pc = "plan", !.promised = TRUE, !.todo = chosen]
  BY <1>11, Zenon
<1>13. Idle \in Round
  BY NoNumbers DEF Idle, Round
<1>14. /\ Idle.numbers = <<>> /\ Idle.number = 0 /\ Idle.made = FALSE /\ Idle.todo = {}
       /\ Idle.promised = FALSE
  BY DEF Idle
<1>5. /\ round'.numbers = <<>> /\ round'.number = 0 /\ ~round'.made
      /\ round'.todo = {} \/ round'.todo = chosen
      /\ round'.pc \in {"plan", "report"}
      /\ round'.pc = "report" => ~round'.promised
  BY <1>12, <1>13, <1>14 DEF Round
<1>6. round' \in Round
  BY <1>2, <1>12, <1>13 DEF Round
<1>7. IsFiniteSet(round'.todo) /\ Cardinality(round'.todo) =< Max
  <2>1. IsFiniteSet({}) /\ Cardinality({}) =< Max
    BY FS_EmptySet, ThumbnailsAssumption
  <2> QED BY <1>2, <1>3, <1>5, <2>1
<1>8. Standing /\ Standing'
  BY <1>4, <1>5 DEF Standing
<1>9. rounds' \in Nat /\ report.round < rounds'
  BY <1>4 DEF Inv, TypeOK
<1>10. ExplainedInv'
  BY <1>5 DEF ExplainedInv
<1> QED
  BY <1>4, <1>5, <1>6, <1>7, <1>8, <1>9, <1>10, StandingStays, NothingNumbered DEF Inv

LEMMA PlanKeeps == ASSUME Inv, Plan PROVE Inv'
<1>1. round.pc = "plan" /\ UNCHANGED <<rounds, there, images, copy, strange, report, left>>
  BY DEF Plan
<1>2. \/ round' = [round EXCEPT !.pc = "mkdir"]
      \/ round' = [round EXCEPT !.pc = "report", !.todo = {}, !.issue = TRUE]
  BY DEF Plan
<1>3. round \in Round /\ ~round.made /\ round.numbers = <<>> /\ round.number = 0
  BY <1>1 DEF Inv, TypeOK, PlaceInv, NumbersInv
<1>4. /\ round'.pc \in {"mkdir", "report"} /\ ~round'.made
      /\ round'.numbers = <<>> /\ round'.number = 0
      /\ round'.todo = {} \/ round'.todo = round.todo
      /\ round'.pc = "report" => round'.issue
  BY <1>2, <1>3 DEF Round
<1>5. round' \in Round
  BY <1>2, <1>3 DEF Round
<1>6. IsFiniteSet(round'.todo) /\ Cardinality(round'.todo) =< Max
  <2>1. IsFiniteSet({}) /\ Cardinality({}) =< Max
    BY FS_EmptySet, ThumbnailsAssumption
  <2>2. IsFiniteSet(round.todo) /\ Cardinality(round.todo) =< Max
    BY RoundFields DEF Inv, TypeOK
  <2> QED BY <1>4, <2>1, <2>2
<1>7. Standing /\ Standing'
  BY <1>1, <1>4 DEF Standing
<1>8. rounds' \in Nat /\ report.round < rounds'
  BY <1>1 DEF Inv, TypeOK, PlaceInv
<1>9. ExplainedInv'
  BY <1>4 DEF ExplainedInv
<1> QED
  BY <1>1, <1>4, <1>5, <1>6, <1>7, <1>8, <1>9, StandingStays, NothingNumbered DEF Inv

LEMMA MakeDirKeeps == ASSUME Inv, MakeDir PROVE Inv'
<1>1. /\ round.pc = "mkdir" /\ there' = TRUE /\ UNCHANGED <<rounds, images, copy, strange, report, left>>
      /\ round' = [round EXCEPT !.pc = "empty", !.old = images]
  BY DEF MakeDir
<1>2. /\ round \in Round /\ ~round.made /\ round.numbers = <<>> /\ round.number = 0
      /\ images \subseteq Image
  BY <1>1 DEF Inv, TypeOK, PlaceInv, NumbersInv
<1>3. /\ round'.pc = "empty" /\ ~round'.made /\ round'.old = images
      /\ round'.numbers = <<>> /\ round'.number = 0 /\ round'.todo = round.todo
  BY <1>1, <1>2 DEF Round
<1>4. round' \in Round
  BY <1>1, <1>2 DEF Round
<1>5. TypeOK'
  BY <1>1, <1>3, <1>4 DEF Inv, TypeOK
<1>6. NumbersInv'
  BY <1>3, RoundFields, NothingNumbered DEF Inv, TypeOK
<1>7. PlaceInv' /\ StandingInv' /\ ExplainedInv'
  BY <1>1, <1>3 DEF Inv, PlaceInv, StandingInv, ExplainedInv, Working, Standing
<1>8. NoWrongPhoto'
  BY <1>1 DEF Inv, NoWrongPhoto, PointsRight
<1> QED BY <1>5, <1>6, <1>7, <1>8 DEF Inv

LEMMA MakeDirFailsKeeps == ASSUME Inv, MakeDirFails PROVE Inv'
<1>1. /\ round.pc = "mkdir" /\ UNCHANGED <<rounds, images, copy, strange, report>>
      /\ round' = [round EXCEPT !.pc = "report", !.todo = {}, !.issue = TRUE]
      /\ \/ UNCHANGED <<there, left>>
         \/ ~there /\ there' = TRUE /\ left' = "broken"
  BY DEF MakeDirFails
<1>2. round \in Round /\ ~round.made /\ round.numbers = <<>> /\ round.number = 0
  BY <1>1 DEF Inv, TypeOK, PlaceInv, NumbersInv
<1>3. /\ round'.pc = "report" /\ ~round'.made /\ round'.issue
      /\ round'.numbers = <<>> /\ round'.number = 0 /\ round'.todo = {}
  BY <1>1, <1>2 DEF Round
<1>4. round' \in Round
  BY <1>1, <1>2 DEF Round
<1>5. Cardinality(round'.todo) =< Max /\ IsFiniteSet(round'.todo)
  BY <1>3, FS_EmptySet, ThumbnailsAssumption
<1>6. NumbersInv' /\ ExplainedInv'
  BY <1>3, <1>5, NothingNumbered DEF ExplainedInv
<1>7. CASE UNCHANGED <<there, left>>
  <2>1. Standing /\ Standing' /\ rounds' \in Nat /\ report.round < rounds'
    BY <1>1, <1>3 DEF Standing, Inv, TypeOK, PlaceInv
  <2> QED BY <1>1, <1>3, <1>4, <1>5, <1>6, <1>7, <2>1, StandingStays DEF Inv
<1>8. CASE ~there /\ there' = TRUE /\ left' = "broken"
  <2>1. images' = {} /\ copy' = NoReport /\ strange' = {}
    BY <1>1, <1>8 DEF Inv, TypeOK
  <2>2. TypeOK'
    BY <1>1, <1>4, <1>5, <1>8 DEF Inv, TypeOK
  <2>3. PlaceInv' /\ StandingInv' /\ NoWrongPhoto'
    BY <1>1, <1>3, <1>8, <2>1, NoNumbers DEF Inv, PlaceInv, StandingInv, NoWrongPhoto, PointsRight, Working
  <2> QED BY <1>6, <2>2, <2>3 DEF Inv
<1> QED BY <1>1, <1>7, <1>8
(***************************************************************************)
(* Emptying.                                                               *)
(***************************************************************************)

LEMMA EmptyKeeps == ASSUME Inv, Empty PROVE Inv'
<1>1. PICK i \in round.old : images' = images \ {i} /\ round' = [round EXCEPT !.old = @ \ {i}]
  BY DEF Empty
<1>2. round.pc = "empty" /\ UNCHANGED <<rounds, there, copy, strange, report, left>>
  BY DEF Empty
<1>3. round \in Round /\ round.old = images /\ there /\ ~round.made
  BY <1>2 DEF Inv, TypeOK, PlaceInv
<1>4. /\ round'.pc = "empty" /\ round'.old = images' /\ round'.todo = round.todo /\ ~round'.made
      /\ round'.numbers = round.numbers /\ round'.number = round.number
  BY <1>1, <1>2, <1>3 DEF Round
<1>5. round' \in Round
  BY <1>1, <1>3 DEF Round
<1>6. TypeOK'
  BY <1>1, <1>2, <1>3, <1>4, <1>5 DEF Inv, TypeOK
<1>7. NumbersInv'
  BY <1>2, <1>4 DEF Inv, NumbersInv
<1>8. PlaceInv' /\ StandingInv' /\ ExplainedInv'
  BY <1>2, <1>3, <1>4 DEF Inv, PlaceInv, StandingInv, ExplainedInv, Working, Standing
<1>9. NoWrongPhoto'
  BY <1>1, <1>2 DEF Inv, NoWrongPhoto, PointsRight
<1> QED BY <1>6, <1>7, <1>8, <1>9 DEF Inv

\* From here on the directory is of this round, and holds nothing.
LEMMA EmptiedKeeps == ASSUME Inv, Emptied PROVE Inv'
<1>1. /\ round.pc = "empty" /\ round.old = {} /\ copy' = NoReport
      /\ round' = [round EXCEPT !.pc = "images"] /\ left' = "clean"
      /\ UNCHANGED <<rounds, there, images, strange, report>>
  BY DEF Emptied
<1>2. /\ round \in Round /\ round.old = images /\ there /\ ~round.made
      /\ round.numbers = <<>> /\ round.number = 0
  BY <1>1 DEF Inv, TypeOK, PlaceInv, NumbersInv
<1>3. /\ round'.pc = "images" /\ round'.todo = round.todo /\ ~round'.made
      /\ round'.numbers = <<>> /\ round'.number = 0
  BY <1>1, <1>2 DEF Round
<1>4. round' \in Round
  BY <1>1, <1>2 DEF Round
<1>5. copy'.round = 0 /\ copy'.numbers = <<>>
  BY <1>1 DEF NoReport
<1>6. images' = {} /\ IsFiniteSet(images') /\ Cardinality(images') = 0
  BY <1>1, <1>2, FS_EmptySet
<1>7. TypeOK'
  BY <1>1, <1>2, <1>3, <1>4, <1>5, <1>6, NoNumbers DEF Inv, TypeOK
<1>8. NumbersInv'
  BY <1>3, RoundFields, NothingNumbered DEF Inv, TypeOK
<1>9. ImagesOf(round'.numbers, rounds') = {}
  BY <1>3, NoNumbers DEF ImagesOf
<1>10. PlaceInv'
  BY <1>1, <1>2, <1>3, <1>6, <1>9 DEF Inv, PlaceInv, Working
<1>11. StandingInv' /\ ExplainedInv' /\ NoWrongPhoto'
  BY <1>3, <1>6 DEF StandingInv, Standing, ExplainedInv, NoWrongPhoto, PointsRight
<1> QED BY <1>7, <1>8, <1>10, <1>11 DEF Inv

LEMMA EmptyFailsKeeps == ASSUME Inv, EmptyFails PROVE Inv'
<1>1. /\ round.pc = "empty" /\ round' = [round EXCEPT !.pc = "images", !.old = {}]
      /\ left' = "mixed" /\ UNCHANGED <<rounds, there, images, copy, strange, report>>
  BY DEF EmptyFails
<1>2. /\ round \in Round /\ there /\ ~round.made
      /\ round.numbers = <<>> /\ round.number = 0
  BY <1>1 DEF Inv, TypeOK, PlaceInv, NumbersInv
<1>3. /\ round'.pc = "images" /\ round'.todo = round.todo /\ ~round'.made
      /\ round'.numbers = <<>> /\ round'.number = 0
  BY <1>1, <1>2 DEF Round
<1>4. round' \in Round
  BY <1>1, <1>2 DEF Round
<1>5. TypeOK'
  BY <1>1, <1>3, <1>4 DEF Inv, TypeOK
<1>6. NumbersInv'
  BY <1>3, RoundFields, NothingNumbered DEF Inv, TypeOK
<1>7. PlaceInv' /\ StandingInv' /\ ExplainedInv' /\ NoWrongPhoto'
  BY <1>1, <1>2, <1>3
     DEF Inv, PlaceInv, Working, StandingInv, Standing, ExplainedInv, NoWrongPhoto, PointsRight
<1> QED BY <1>5, <1>6, <1>7 DEF Inv

(***************************************************************************)
(* The images.                                                             *)
(***************************************************************************)

\* The next number is new, and so is the image.
LEMMA ScaleKeeps == ASSUME Inv, NEW p \in Photos, Scale(p) PROVE Inv'
<1> DEFINE n == round.number + 1
           image == [number |-> n, photo |-> p, round |-> rounds]
           old == round.numbers
           more == [q \in DOMAIN old \cup {p} |-> IF q = p THEN n ELSE old[q]]
<1>1. /\ round.pc = "images" /\ p \in round.todo
      /\ images' = {i \in images : i.number # n \/ i.photo # p} \cup {image}
      /\ round' = [round EXCEPT !.todo = @ \ {p}, !.number = n, !.numbers = more]
      /\ UNCHANGED <<rounds, there, copy, strange, report, left>>
  BY DEF Scale, IsNext
<1>2. /\ round \in Round /\ there /\ ~round.made /\ left \in {"clean", "mixed"}
      /\ rounds \in Nat /\ images \subseteq Image
  BY <1>1 DEF Inv, TypeOK, PlaceInv, Working
<1>3. /\ round.todo \subseteq Photos /\ IsFiniteSet(round.todo)
      /\ Cardinality(round.todo) \in Nat /\ round.number \in Nat
      /\ old \in [DOMAIN old -> 1 .. Max] /\ DOMAIN old \subseteq Photos
  BY RoundFields DEF Inv
<1>4. /\ p \notin DOMAIN old
      /\ \A q \in DOMAIN old : old[q] \in 1 .. round.number
      /\ \A m \in 1 .. round.number : \E q \in DOMAIN old : old[q] = m
      /\ \A q, r \in DOMAIN old : old[q] = old[r] => q = r
      /\ round.number + Cardinality(round.todo) =< Max
  BY <1>1 DEF Inv, NumbersInv
<1>5. /\ IsFiniteSet(round.todo \ {p})
      /\ Cardinality(round.todo \ {p}) = Cardinality(round.todo) - 1
      /\ Cardinality(round.todo \ {p}) \in Nat
  BY <1>1, <1>3, FS_RemoveElement, FS_CardinalityType
<1>6. n \in 1 .. Max /\ n + Cardinality(round.todo \ {p}) =< Max
      /\ Cardinality(round.todo \ {p}) =< Max
  BY <1>3, <1>4, <1>5, ThumbnailsAssumption
<1>7. more \in NumberedPhotos /\ DOMAIN more = DOMAIN old \cup {p}
  <2>1. more \in [DOMAIN old \cup {p} -> 1 .. Max]
    BY <1>3, <1>6
  <2>2. DOMAIN old \cup {p} \in SUBSET Photos
    BY <1>3
  <2> QED BY <2>1, <2>2 DEF NumberedPhotos
<1>8. more[p] = n /\ \A q \in DOMAIN old : more[q] = old[q]
  BY <1>4
<1>9. image \in Image
  BY <1>2, <1>6 DEF Image
<1> HIDE DEF n, image, more, old
<1>10. /\ round'.pc = "images" /\ round'.todo = round.todo \ {p} /\ round'.number = n
       /\ round'.numbers = more /\ ~round'.made
  BY <1>1, <1>2 DEF Round
<1>11. round' \in Round
  <2>1. n \in Nat /\ round.todo \ {p} \in SUBSET Photos
    BY <1>3 DEF n
  <2> QED BY <1>1, <1>2, <1>7, <2>1 DEF Round
<1>12. TypeOK'
  BY <1>1, <1>2, <1>5, <1>6, <1>9, <1>10, <1>11 DEF Inv, TypeOK
<1>13. NumbersInv'
  <2>1. round'.todo \cap DOMAIN round'.numbers = {}
    BY <1>1, <1>7, <1>10 DEF Inv, NumbersInv, old
  <2>2. \A q \in DOMAIN more : more[q] \in 1 .. n
    BY <1>3, <1>4, <1>7, <1>8 DEF n
  <2>3. \A m \in 1 .. n : \E q \in DOMAIN more : more[q] = m
    <3> SUFFICES ASSUME NEW m \in 1 .. n PROVE \E q \in DOMAIN more : more[q] = m
      OBVIOUS
    <3>1. CASE m = n
      BY <1>7, <1>8, <3>1
    <3>2. CASE m # n
      <4>1. m \in 1 .. round.number
        BY <1>3, <3>2 DEF n
      <4> QED BY <1>4, <1>7, <1>8, <4>1
    <3> QED BY <3>1, <3>2
  <2>4. \A q, r \in DOMAIN more : more[q] = more[r] => q = r
    BY <1>3, <1>4, <1>7, <1>8 DEF n
  <2> QED BY <1>6, <1>10, <2>1, <2>2, <2>3, <2>4 DEF NumbersInv
<1>14. PlaceInv'
  <2>1. CASE left = "mixed"
    BY <1>1, <1>2, <1>10, <2>1 DEF Inv, PlaceInv, Working
  <2>2. CASE left = "clean"
    <3>1. /\ copy = NoReport /\ images = ImagesOf(old, rounds)
          /\ IsFiniteSet(images) /\ Cardinality(images) = round.number
      BY <1>1, <2>2 DEF Inv, PlaceInv, Working, old
    <3>2. \A i \in images : i.number \in 1 .. round.number
      BY <1>4, <3>1 DEF ImagesOf
    <3>3. \A i \in images : i.number # n
      BY <1>3, <3>2 DEF n
    <3>4. images' = images \cup {image} /\ image \notin images
      BY <1>1, <3>3 DEF image
    <3>5. IsFiniteSet(images') /\ Cardinality(images') = n
      BY <1>3, <3>1, <3>4, FS_AddElement DEF n
    <3>6. images' = ImagesOf(more, rounds)
      BY <1>4, <1>7, <1>8, <3>1, <3>4 DEF ImagesOf, image
    <3> QED BY <1>1, <1>2, <1>10, <2>2, <3>1, <3>5, <3>6 DEF Inv, PlaceInv, Working
  <2> QED BY <1>2, <2>1, <2>2
<1>15. StandingInv' /\ ExplainedInv'
  BY <1>10 DEF StandingInv, Standing, ExplainedInv
<1>16. NoWrongPhoto'
  <2>1. left = "clean" => copy'.numbers = <<>>
    BY <1>1 DEF Inv, PlaceInv, Working, NoReport
  <2>2. report'.round # rounds'
    BY <1>1, <1>2 DEF Inv, PlaceInv, TypeOK
  <2> QED BY <1>1, <1>2, <2>1, <2>2, NoNumbers DEF NoWrongPhoto, PointsRight
<1> QED BY <1>12, <1>13, <1>14, <1>15, <1>16 DEF Inv

\* A photo that is skipped, or the rest of the sample.
LEMMA SkipKeeps ==
    ASSUME Inv, round.pc = "images", NEW T \in SUBSET round.todo, NEW issue \in BOOLEAN,
           round' = [round EXCEPT !.todo = T, !.issue = issue],
           UNCHANGED <<rounds, there, images, copy, strange, report, left>>
    PROVE  Inv'
<1>1. /\ round \in Round /\ round.todo \subseteq Photos /\ IsFiniteSet(round.todo)
      /\ Cardinality(round.todo) \in Nat /\ round.number \in Nat
  BY RoundFields DEF Inv, TypeOK
<1>2. IsFiniteSet(T) /\ Cardinality(T) \in Nat /\ Cardinality(T) =< Cardinality(round.todo)
  BY <1>1, FS_Subset, FS_CardinalityType
<1>3. round.number + Cardinality(round.todo) =< Max
  BY DEF Inv, NumbersInv
<1>4. round.number + Cardinality(T) =< Max /\ Cardinality(T) =< Max
  BY <1>1, <1>2, <1>3, ThumbnailsAssumption
<1>5. /\ round'.pc = "images" /\ round'.todo = T /\ round'.number = round.number
      /\ round'.numbers = round.numbers /\ round'.made = round.made
  BY <1>1 DEF Round
<1>6. round' \in Round
  BY <1>1 DEF Round
<1>7. TypeOK' /\ NumbersInv'
  BY <1>4, <1>5, <1>6 DEF Inv, TypeOK, NumbersInv
<1>8. PlaceInv' /\ StandingInv' /\ ExplainedInv' /\ NoWrongPhoto'
  BY <1>5 DEF Inv, PlaceInv, Working, StandingInv, Standing, ExplainedInv, NoWrongPhoto, PointsRight
<1> QED BY <1>7, <1>8 DEF Inv
(***************************************************************************)
(* The end of the round.                                                   *)
(***************************************************************************)

LEMMA MadeKeeps == ASSUME Inv, Made PROVE Inv'
<1>1. /\ round.pc = "images" /\ round.todo = {} /\ round.number > 0
      /\ round' = [round EXCEPT !.pc = "report", !.made = TRUE]
      /\ UNCHANGED <<rounds, there, images, copy, strange, report, left>>
  BY DEF Made
<1>2. round \in Round
  BY DEF Inv, TypeOK
<1>3. /\ round'.pc = "report" /\ round'.todo = {} /\ round'.made
      /\ round'.number = round.number /\ round'.numbers = round.numbers
  BY <1>1, <1>2 DEF Round
<1>4. round' \in Round
  BY <1>1, <1>2 DEF Round
<1>5. TypeOK' /\ NumbersInv'
  <2>1. TypeOK'
    BY <1>1, <1>3, <1>4 DEF Inv, TypeOK
  <2>2. round'.todo = round.todo
    BY <1>1, <1>3
  <2>3. NumbersInv'
    BY <1>3, <2>2 DEF Inv, NumbersInv
  <2> QED BY <2>1, <2>3
<1>6. PlaceInv' /\ StandingInv' /\ NoWrongPhoto'
  BY <1>1, <1>3 DEF Inv, PlaceInv, Working, StandingInv, Standing, NoWrongPhoto, PointsRight
<1>7. round'.numbers # <<>>
  <2>1. 1 \in 1 .. round.number
    BY <1>1, <1>2 DEF Round
  <2>2. DOMAIN round.numbers # {}
    BY <2>1 DEF Inv, NumbersInv
  <2> QED BY <1>3, <2>2, NoNumbers
<1> QED BY <1>5, <1>6, <1>7 DEF Inv, ExplainedInv

LEMMA NoneMadeKeeps == ASSUME Inv, NoneMade PROVE Inv'
<1>1. /\ round.pc = "images" /\ round.todo = {} /\ round.number = 0
      /\ there' = (images # {} \/ copy # NoReport \/ strange # {})
      /\ round' = [round EXCEPT !.pc = "report", !.issue = TRUE]
      /\ UNCHANGED <<rounds, images, copy, strange, report, left>>
  BY DEF NoneMade
<1>2. round \in Round /\ ~round.made
  BY <1>1 DEF Inv, TypeOK, PlaceInv
<1>3. /\ round'.pc = "report" /\ round'.todo = {} /\ ~round'.made /\ round'.issue
      /\ round'.number = round.number /\ round'.numbers = round.numbers
  BY <1>1, <1>2 DEF Round
<1>4. round' \in Round /\ DOMAIN round.numbers = {}
  <2>1. round' \in Round
    BY <1>1, <1>2 DEF Round
  <2>2. DOMAIN round.numbers = {}
    BY <1>1 DEF Inv, NumbersInv
  <2> QED BY <2>1, <2>2
<1>5. there' \in BOOLEAN /\ (~there' => images' = {} /\ copy' = NoReport /\ strange' = {})
  BY <1>1, Zenon
<1>6. TypeOK' /\ NumbersInv'
  BY <1>1, <1>3, <1>4, <1>5 DEF Inv, TypeOK, NumbersInv
<1>7. PlaceInv' /\ ExplainedInv' /\ NoWrongPhoto'
  BY <1>1, <1>3, <1>4 DEF Inv, PlaceInv, Working, ExplainedInv, NoWrongPhoto, PointsRight
<1>8. StandingInv'
  <2> SUFFICES ASSUME left = "clean" PROVE StandingInv'
    BY <1>1 DEF StandingInv
  <2>1. copy = NoReport
    BY <1>1 DEF Inv, PlaceInv, Working
  <2>2. there' => images' # {} \/ strange' # {}
    BY <1>1, <2>1, Zenon
  <2> QED BY <1>1, <2>1, <2>2 DEF StandingInv
<1> QED BY <1>6, <1>7, <1>8 DEF Inv

\* The report is written, or not, a copy goes beside the images, or not, and the
\* directory is at rest.
LEMMA WriteReportKeeps == ASSUME Inv, WriteReport \/ ReportFails PROVE Inv'
<1>1. /\ round.pc = "report" /\ round' = [round EXCEPT !.pc = "idle"]
      /\ UNCHANGED <<rounds, there, images, strange, left>>
      /\ report' = report \/ report' = [round |-> rounds, numbers |-> round.numbers]
      /\ \/ copy' = copy
         \/ round.made /\ copy' = [round |-> rounds, numbers |-> round.numbers]
  BY DEF WriteReport, ReportFails
<1>2. round \in Round /\ rounds \in Nat
  BY DEF Inv, TypeOK
<1>3. /\ round'.pc = "idle" /\ round'.todo = round.todo /\ round'.made = round.made
      /\ round'.number = round.number /\ round'.numbers = round.numbers
      /\ round'.promised = round.promised /\ round'.issue = round.issue
  BY <1>1, <1>2 DEF Round
<1>4. round' \in Round
  BY <1>1, <1>2 DEF Round
<1>5. round.made => there
  BY <1>1 DEF Inv, PlaceInv, Working
<1>6. copy'.round \in Nat /\ copy'.numbers \in NumberedPhotos
  <2>1. CASE copy' = copy
    BY <2>1 DEF Inv, TypeOK
  <2>2. CASE copy' = [round |-> rounds, numbers |-> round.numbers]
    BY <1>2, <2>2 DEF Round
  <2> QED BY <1>1, <2>1, <2>2
<1>16. report'.round \in 0 .. rounds' /\ report'.numbers \in NumberedPhotos
  <2>1. CASE report' = report
    BY <1>1, <2>1 DEF Inv, TypeOK
  <2>2. CASE report' = [round |-> rounds, numbers |-> round.numbers]
    BY <1>1, <1>2, <2>2 DEF Round
  <2> QED BY <1>1, <2>1, <2>2
<1>7. TypeOK'
  BY <1>1, <1>3, <1>4, <1>5, <1>6, <1>16 DEF Inv, TypeOK
<1>8. NumbersInv'
  BY <1>3 DEF Inv, NumbersInv
<1>9. ExplainedInv'
  BY <1>1, <1>3 DEF Inv, ExplainedInv
<1>10. PlaceInv'
  BY <1>3 DEF PlaceInv, Working
<1>17. report'.round = rounds => report'.numbers = round.numbers
  BY <1>1, <1>2 DEF Inv, PlaceInv, TypeOK
<1>11. CASE ~round.made
  <2>1. UNCHANGED <<there, images, copy, strange, left>> /\ Standing /\ DOMAIN round.numbers = {}
    BY <1>1, <1>11 DEF Standing, Inv, PlaceInv
  <2>2. StandingInv' /\ NoWrongPhoto'
    BY <1>1, <1>17, <2>1 DEF Inv, StandingInv, NoWrongPhoto, PointsRight
  <2> QED BY <1>7, <1>8, <1>9, <1>10, <2>2 DEF Inv
<1>12. CASE round.made /\ left = "mixed"
  BY <1>1, <1>7, <1>8, <1>9, <1>10, <1>12 DEF Inv, StandingInv, NoWrongPhoto, PointsRight
<1>13. CASE round.made /\ left = "clean"
  <2>1. /\ copy = NoReport /\ images = ImagesOf(round.numbers, rounds)
        /\ Cardinality(images) = round.number /\ round.number > 0
    BY <1>1, <1>13 DEF Inv, PlaceInv, Working
  <2>2. /\ \A p \in DOMAIN round.numbers : round.numbers[p] \in 1 .. round.number
        /\ \A n \in 1 .. round.number : \E p \in DOMAIN round.numbers : round.numbers[p] = n
        /\ \A p, q \in DOMAIN round.numbers : round.numbers[p] = round.numbers[q] => p = q
    BY DEF Inv, NumbersInv
  <2>3. {i.number : i \in images} = 1 .. Cardinality(images)
    <3>1. \A i \in images : i.number \in 1 .. round.number
      BY <2>1, <2>2 DEF ImagesOf
    <3>2. \A n \in 1 .. round.number : \E i \in images : i.number = n
      <4> SUFFICES ASSUME NEW n \in 1 .. round.number PROVE \E i \in images : i.number = n
        OBVIOUS
      <4>1. PICK p \in DOMAIN round.numbers : round.numbers[p] = n
        BY <2>2
      <4>2. [number |-> round.numbers[p], photo |-> p, round |-> rounds] \in images
        BY <2>1 DEF ImagesOf
      <4> QED BY <4>1, <4>2
    <3> QED BY <2>1, <3>1, <3>2
  <2>4. images # {}
    <3>1. 1 \in 1 .. round.number
      BY <1>2, <2>1 DEF Round
    <3> QED BY <2>1, <2>3, <3>1
  <2>7. PointsRight(round)'
    BY <1>1, <1>3, <2>1, <2>2 DEF PointsRight, ImagesOf
  <2>8. (report.round = rounds => PointsRight(report))'
    BY <1>1, <1>3, <1>17, <2>7 DEF PointsRight
  <2>5. CASE copy' = copy
    <3>1. copy'.numbers = <<>>
      BY <2>1, <2>5 DEF NoReport
    <3> QED BY <1>1, <1>7, <1>8, <1>9, <1>10, <2>1, <2>4, <2>5, <2>8, <3>1, NoNumbers
            DEF Inv, StandingInv, NoWrongPhoto, PointsRight
  <2>6. CASE copy' = [round |-> rounds, numbers |-> round.numbers]
    <3>1. copy'.round = rounds /\ copy'.numbers = round.numbers
      BY <2>6
    <3>2. images' = ImagesOf(copy'.numbers, copy'.round)
      BY <1>1, <2>1, <3>1
    <3>3. StandingInv'
      BY <1>1, <2>3, <2>4, <3>2 DEF StandingInv
    <3>4. NoWrongPhoto'
      BY <1>3, <2>7, <2>8, <3>1 DEF NoWrongPhoto, PointsRight
    <3> QED BY <1>7, <1>8, <1>9, <1>10, <3>3, <3>4 DEF Inv
  <2> QED BY <1>1, <2>5, <2>6
<1>14. round.made => left \in {"mixed", "clean"}
  BY <1>1 DEF Inv, PlaceInv, Working
<1>15. round.made \in BOOLEAN
  BY <1>2 DEF Round
<1> QED BY <1>11, <1>12, <1>13, <1>14, <1>15

LEMMA KillKeeps == ASSUME Inv, Kill PROVE Inv'
<1>1. /\ round' = Idle /\ left' = IF left = "clean" THEN "broken" ELSE left
      /\ UNCHANGED <<rounds, there, images, copy, report>>
      /\ strange' = strange \/ (there /\ strange' = strange \cup {"temp"})
  BY DEF Kill
<1>2. /\ Idle \in Round /\ Idle.pc = "idle" /\ Idle.todo = {} /\ Idle.number = 0
      /\ Idle.numbers = <<>> /\ Idle.promised = FALSE
  BY NoNumbers DEF Idle, Round
<1>3. Cardinality({}) =< Max /\ IsFiniteSet({})
  BY FS_EmptySet, ThumbnailsAssumption
<1>4. left' \in {"broken", "mixed"} /\ (left' # "mixed" => left # "mixed")
  BY <1>1 DEF Inv, TypeOK
<1>5. TypeOK'
  BY <1>1, <1>2, <1>3, <1>4 DEF Inv, TypeOK
<1>6. NumbersInv'
  BY <1>1, <1>2, <1>3, NothingNumbered
<1>7. PlaceInv' /\ StandingInv' /\ ExplainedInv'
  BY <1>1, <1>2, <1>4 DEF Inv, PlaceInv, Working, StandingInv, ExplainedInv
<1>8. NoWrongPhoto'
  BY <1>1, <1>4 DEF Inv, NoWrongPhoto, PointsRight
<1> QED BY <1>5, <1>6, <1>7, <1>8 DEF Inv

LEMMA PersonPutsKeeps == ASSUME Inv, PersonPuts PROVE Inv'
<1>1. /\ there /\ strange' = strange \cup {"human"}
      /\ UNCHANGED <<rounds, there, images, copy, report, round, left>>
  BY DEF PersonPuts
<1>2. TypeOK' /\ NumbersInv'
  BY <1>1 DEF Inv, TypeOK, NumbersInv
<1>3. PlaceInv' /\ StandingInv' /\ ExplainedInv' /\ NoWrongPhoto'
  BY <1>1 DEF Inv, PlaceInv, Working, StandingInv, Standing, ExplainedInv, NoWrongPhoto, PointsRight
<1> QED BY <1>2, <1>3 DEF Inv

(***************************************************************************)
(* The theorems.                                                           *)
(***************************************************************************)

\* Every step keeps the invariant.
LEMMA StepKeeps == Inv /\ [Next]_vars => Inv'
<1> SUFFICES ASSUME Inv, [Next]_vars PROVE Inv'
  OBVIOUS
<1>1. ASSUME NEW p \in Photos, ScaleFails(p) PROVE Inv'
  <2>1. round.pc = "images" /\ round.todo \ {p} \in SUBSET round.todo /\ round \in Round
    BY <1>1 DEF ScaleFails, Inv, TypeOK
  <2>2. round' = [round EXCEPT !.todo = round.todo \ {p}, !.issue = round.issue]
    BY <1>1, <2>1 DEF ScaleFails, Round
  <2>3. round.issue \in BOOLEAN /\ UNCHANGED <<rounds, there, images, copy, strange, report, left>>
    BY <1>1, <2>1 DEF ScaleFails, Round
  <2> QED BY <2>1, <2>2, <2>3, SkipKeeps
<1>2. CASE Stop
  <2>1. round.pc = "images" /\ {} \in SUBSET round.todo /\ round \in Round
    BY <1>2 DEF Stop, Inv, TypeOK
  <2>2. \E issue \in BOOLEAN : round' = [round EXCEPT !.todo = {}, !.issue = issue]
    <3>1. CASE round' = [round EXCEPT !.todo = {}, !.issue = TRUE]
      BY <3>1
    <3>2. CASE round' = [round EXCEPT !.todo = {}]
      <4>1. round' = [round EXCEPT !.todo = {}, !.issue = round.issue] /\ round.issue \in BOOLEAN
        BY <2>1, <3>2 DEF Round
      <4> QED BY <4>1
    <3> QED BY <1>2, <3>1, <3>2 DEF Stop
  <2>3. UNCHANGED <<rounds, there, images, copy, strange, report, left>>
    BY <1>2 DEF Stop
  <2> QED BY <2>1, <2>2, <2>3, SkipKeeps
<1>3. CASE UNCHANGED vars
  BY <1>3 DEF vars, Inv, TypeOK, NumbersInv, PlaceInv, StandingInv, NoWrongPhoto, PointsRight,
              ExplainedInv, Working, Standing
<1> QED
  BY <1>1, <1>2, <1>3, BeginKeeps, PlanKeeps, MakeDirKeeps, MakeDirFailsKeeps, EmptyKeeps,
     EmptiedKeeps, EmptyFailsKeeps, ScaleKeeps, MadeKeeps, NoneMadeKeeps, WriteReportKeeps,
     KillKeeps, PersonPutsKeeps DEF Next

\* The invariant holds in every reachable state.
LEMMA DirectoryIsInOrder == Spec => []Inv
<1> QED BY InitInv, StepKeeps, PTL DEF Spec

\* Every variable of a round keeps its type, no sample is larger than THUMBNAIL_MAX,
\* and nothing is in a directory that is not there.
THEOREM ThumbnailTypes == Spec => []TypeOK
<1>1. Inv => TypeOK
  BY DEF Inv
<1> QED BY <1>1, DirectoryIsInOrder, PTL

\* Unless an emptying failed, a number in the copy of the report points at another photo
\* at no moment, whatever was killed, and a number in the report itself does not once
\* the last round has written it.
THEOREM NumbersPointRight == Spec => []NoWrongPhoto
<1>1. Inv => NoWrongPhoto
  BY DEF Inv
<1> QED BY <1>1, DirectoryIsInOrder, PTL

\* A copy of the report at rest beside images speaks of exactly these images.
THEOREM ReportMatches == Spec => []ReportFitsImages
<1>1. Inv => ReportFitsImages
  BY DEF Inv, ReportFitsImages, StandingInv, Standing, ImagesOf
<1> QED BY <1>1, DirectoryIsInOrder, PTL

\* A round that ran to its end leaves no empty directory and no report without images.
THEOREM NothingHollow == Spec => []NoHollowDirectory
<1>1. Inv => NoHollowDirectory
  BY DEF Inv, NoHollowDirectory, StandingInv, Standing
<1> QED BY <1>1, DirectoryIsInOrder, PTL

\* A message that named the directory is followed by an image or by a side issue.
THEOREM PromiseIsExplained == Spec => []PromiseExplained
<1>1. Inv => PromiseExplained
  BY DEF Inv, PromiseExplained, ExplainedInv
<1> QED BY <1>1, DirectoryIsInOrder, PTL
=============================================================================
