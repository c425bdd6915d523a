--------------------------- MODULE MCReleaseBundle ---------------------------
(* Two files, of which one is new since the historical schema; three         *)
(* candidates, two archives, and versions in two major.minor lines.          *)
EXTENDS ReleaseBundle, TLC

CONSTANTS archive, added, r1, r2, r3, c1, c2

MCVersion == {<<0, 1, 0>>, <<0, 1, 1>>, <<0, 1, 2>>, <<0, 2, 0>>}

MCSymmetry == Permutations({r1, r2, r3}) \cup Permutations({c1, c2})
=============================================================================
