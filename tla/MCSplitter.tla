----------------------------- MODULE MCSplitter -----------------------------
EXTENDS Splitter

(***************************************************************************)
(* Every text of at most ShortLen runes, and longer ones: two and three    *)
(* paragraphs that fill a chunk, blanks longer than a chunk inside a       *)
(* paragraph, blank lines with blanks in them, every kind of line end.     *)
(***************************************************************************)
ShortLen == 5

MCTexts ==
    UNION {[1..n -> {"x", " ", "\n"}] : n \in 0..ShortLen}
    \cup UNION {[1..n -> {"x", "\n", "\r"}] : n \in 2..4}
    \cup { <<"x", "x", "x", "x", "\n", "\n", "x", "x">>,
           <<"x", "x", "x", "\n", "\n", "x", "x", "\n", "\n", "x">>,
           <<"x", "x", "x", "x", "x", "\n", "\n", "x", "x", "\n", "\n", "\n", "x", "x">>,
           <<"x", " ", "x", "\n", "\n", "x", " ", " ", " ", "x", "\n", "x">>,
           <<"x", "x", "x", "x", " ", " ", " ", " ", " ", " ", "x">>,
           <<"x", " ", "\n", " ", "x", "\n", "\n", " ", "\n", "\n", "x", "x", "x", "x">>,
           <<"x", "x", "x", "x", "x", "x", "x", "x", "x", "\r", "\n", "\r", "\n", "x">> }

MCSizes == {0, 1, 2, 4, 5}
MCOverlaps == {-1, 1, 2, 3, 7}
=============================================================================
