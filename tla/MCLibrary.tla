----------------------------- MODULE MCLibrary -----------------------------
(* Either one input of the library is looked at, or the screen runs.       *)
EXTENDS Library, Screen

MCMem == [m : {m \in [1..5 -> {0, 1, 200}] : m[5] = 0}, d : 1..4, s : 1..4, n : 0..3, c : {0, 1, 200, -56}]
MCNum == [v : (-128)..127, base : {0, 1, 2, 8, 10, 16, 36, 37}]

\* Three items and a NUL, which a % before it may swallow, and what lies behind.
Conv(c, p) == [conv |-> c, ch |-> 65, precision |-> p]
Items == {Conv("char", -1), Conv("d", -1), Conv("u", -1), Conv("s", -1), Conv("s", 1), Conv("o", -1),
          Conv("x", -1), Conv("c", -1), Conv("%", -1), Conv("lone", -1)}
Formats == {f \o <<Conv("NUL", -1), Conv("char", -1), Conv("NUL", -1)>> : f \in [1..3 -> Items \ {Conv("lone", -1)}]}
           \cup {f \o <<Conv("lone", -1), Conv("char", -1), Conv("NUL", -1)>> : f \in [1..2 -> Items]}
Arguments(f) ==
  LET known == SelectSeq(f, LAMBDA t : t.conv \in Known)
  IN  [i \in DOMAIN known |-> IF known[i].conv = "s" THEN <<70, 71>> ELSE IF known[i].conv = "c" THEN 6 ELSE 8 + 90 * i]
MCFmt == {[fmt |-> f, args |-> Arguments(f)] : f \in Formats}

MCDate == [year : {0, 23, 24, 25, 26, 70}, month : {1, 2, 3, 12}, day : {1, 28},
           hour : {0, 1, 12, 13, 23}, bcd : BOOLEAN, h24 : BOOLEAN]

MCLogos == {Window(4, 0, 2, 3), Window(2, 2, 2, 2), Window(0, 0, 3, 6), Window(2, 1, 2, 2)}
MCPositions == {<<0, 0>>, <<1, 0>>, <<0, 2>>, <<0, 5>>}
MCTexts == {<<1>>, <<1, Newline, 2>>, <<Tab, 2>>}

MCInit == Init /\ input \in Inputs \cup {NoInput}
MCNext == input = NoInput /\ Next /\ UNCHANGED input
Spec == MCInit /\ [][MCNext]_<<vars, input>>
=============================================================================
