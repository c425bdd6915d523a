---------------------------- MODULE ReleaseLedger ----------------------------
(***************************************************************************)
(* What the release process promises its users: a version is published at  *)
(* most once and never changes, and what is published is a bundle that     *)
(* passed the whole qualification of a commit which declared the version.  *)
(***************************************************************************)
CONSTANTS
    Version,    \* release versions (tags)
    Bundle,     \* possible bundles, each with the version it was built for
    None        \* nothing published

VARIABLES
    qualified,  \* bundles of successful release runs
    released    \* released[v]: the bundle published as v

vars == <<qualified, released>>

Init == /\ qualified = {}
        /\ released = [v \in Version |-> None]

Qualify(b) == /\ qualified' = qualified \cup {b}
              /\ UNCHANGED released

Publish(v, b) == /\ b \in qualified
                 /\ b.version = v
                 /\ released[v] = None
                 /\ released' = [released EXCEPT ![v] = b]
                 /\ UNCHANGED qualified

Next == \/ \E b \in Bundle : Qualify(b)
        \/ \E v \in Version, b \in Bundle : Publish(v, b)

Spec == Init /\ [][Next]_vars
=============================================================================
