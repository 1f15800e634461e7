------------------------------- MODULE MCData -------------------------------
(***************************************************************************)
(* Selection on every list of up to MaxSnaps snapshots (own names 1 to 4   *)
(* and the foreign name 9), and Paths on every text of up to MaxText bytes *)
(* and every output of up to MaxLines lines; one of the three at a time.   *)
(***************************************************************************)
EXTENDS Selection, Paths

MCTimes == {[day |-> d, tick |-> t] : d \in 0 .. 1, t \in 0 .. 1}

\* What an escape is made of, and bytes of names: line feed, slash, a, a lone
\* continuation byte, the first byte of the C1 controls and that of other letters.
MCAlphabets == {{92, 48, 49, 52, 32, 97}, {10, 47, 97, 155, 194, 195}}

\* "/a b"
Dir == <<47, 97, 32, 98>>
MCPrefixes == {<<>>, Dir}

Under(name) == EncodeZfsPath(Dir \o <<47>> \o name)

Line(mark, kind, raw) == [mark |-> mark, kind |-> kind, raw |-> raw]

\* A photo, one named after a bell character, one whose name is how zfs prints that,
\* a neighbour of the directory, and every other kind of line.
MCDiffLines ==
    {Empty, Garbled} \cup
    {Line("-", "F", raw) : raw \in {Under(<<99>>), Under(<<7>>),
                                    EncodeZfsPath(Under(<<7>>)), EncodeZfsPath(Dir \o <<99>>)}} \cup
    {Line("-", kind, Under(<<99>>)) : kind \in {"/", "@"}} \cup
    {Line(mark, "F", Under(<<99>>)) : mark \in {"+", "M", "R", "?"}}

Init == ListInit /\ PathsInit

Next ==
    \/ text = <<>> /\ output = <<>> /\ ListNext /\ UNCHANGED <<text, output, pathPrefix>>
    \/ list = <<>> /\ PathsNext /\ (text' = <<>> \/ output' = <<>>) /\ UNCHANGED <<list, now>>

Spec == Init /\ [][Next]_<<list, now, text, output, pathPrefix>>
=============================================================================
