---------------------------- MODULE MCProjectSetup ----------------------------
(* ProjectSetup for TLC, with lengths around the limits.  The hash of a string *)
(* is made of its last character, so that strings which differ only elsewhere  *)
(* have the same one.                                                          *)
EXTENDS ProjectSetup

MCChar == {"a", "b", "_", "-", "s", "e", "c", "r", "t", "f", "i", "l", "w", "."}
MCSafe == [c \in Char |-> IF c \in {"_", "."} THEN "-" ELSE c]
MCDigest(s) == [i \in 1..64 |-> s[Len(s)]]

Word(n) == [i \in 1..n |-> "a"]
MCSlugs == {Word(n) : n \in {24, 31}}
MCTracks == {Word(n) : n \in {0, 8, 9, 14}}
MCNames == {<<"a">>, <<"_">>, <<"-">>, <<"a", "-", "f", "i", "l", "e">>}
             \cup {Word(13), Append(Word(12), "b"), Word(9) \o <<"-", "a", "a">>}
             \cup {[i \in 1..36 |-> IF i % 9 = 0 THEN "-" ELSE "a"]}
MCServices == {Word(5), Word(8), Word(10)}

MCHost(n, m) == [label |-> Word(n), domain |-> Word(m), labels |-> 3]
MCHosts == {[label |-> <<>>, domain |-> <<>>, labels |-> 0],
            [label |-> Word(9), domain |-> <<>>, labels |-> 1],
            [label |-> <<"w", "w", "w">>, domain |-> Word(8), labels |-> 3],
            [label |-> Word(62), domain |-> Word(60), labels |-> 2]}
             \cup {MCHost(n, m) : n \in {1, 47, 62}, m \in {8, 59}}
             \cup {MCHost(1, m) : m \in {60, 63}}
=============================================================================
