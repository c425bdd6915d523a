-------------------------- MODULE MCReleasePipeline --------------------------
(* Instances of ReleasePipeline for TLC.                                    *)
EXTENDS ReleasePipeline, TLC

CONSTANTS t1, t2, f1, f2, v1, v2

\* Any tree, or one whose intent is valid.
MCAnyBase == Tree
MCReleasedBase == {[fp |-> f1, intent |-> [version |-> v1, fp |-> f1]]}

MCTargets == Permutations({t1, t2}) \cup Permutations({v1, v2})
=============================================================================
