------------------------- MODULE MCCacheGenerations -------------------------
(* Instances of CacheGenerations for TLC. *)
EXTENDS CacheGenerations, TLC

CONSTANTS a, b, v1, w1, w2, x, y, z, pol1, pol2, i1, i2, r1, r2

TwoPaths == {a, b}
AllContents == {v1, w1, w2}

\* One document is edited, and comes and goes; the other, which links to it, stays.
EditedAndMoved == (a :> {v1}) @@ (b :> {w1, w2, NoFile})

\* The edit keeps one chunk of the document as it was.
ChunkShared == (v1 :> {z}) @@ (w1 :> {x, z}) @@ (w2 :> {y, z})
LinksToB == (v1 :> {b}) @@ (w1 :> {}) @@ (w2 :> {})

OnePolicy == {pol1}
TwoPolicies == {pol1, pol2}
TwoCommands == {i1, i2}
OneReader == {r1}
Nobody == {}

\* Commands are interchangeable, and so are searches, policies, and the two versions of
\* the edited document together with the chunk that each has for itself.
Swapped == (w1 :> w2) @@ (w2 :> w1) @@ (x :> y) @@ (y :> x)
Interchangeable ==
    Permutations(Commands) \cup Permutations(Readers) \cup Permutations(Policies)
        \cup {Swapped}
=============================================================================
