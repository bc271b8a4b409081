--------------------------- MODULE MCLegacyCache ---------------------------
(* Instances of LegacyCache for TLC. *)
EXTENDS LegacyCache, TLC

CONSTANTS a, b, v1, v2, w1, i1, i2

TwoPaths == {a, b}
AllContents == {v1, v2, w1}
\* One document is edited, and its edit may be taken back; the other stays.
OneEdited == (a :> {v1, v2}) @@ (b :> {w1})
TwoCommands == {i1, i2}

\* Commands are interchangeable, and so are the two texts of the document.
Interchangeable == Permutations(TwoCommands) \cup Permutations({v1, v2})
=============================================================================
