----------------------------- MODULE PinnedStore -----------------------------
(***************************************************************************)
(* What the build cache promises to the builds that share it: an entry is  *)
(* only ever given out under a digest when it holds the bytes of that      *)
(* digest, and it keeps them for as long as anybody relies on them.        *)
(* VerifiedCache implements this for the inputs that are downloaded.       *)
(***************************************************************************)
CONSTANTS
    Builder,    \* build-image.py processes that share one cache directory
    Pin         \* digests under which the cache holds entries

VARIABLES
    verified,   \* pins whose entry holds the bytes of the pin
    relied      \* relied[b]: pins builder b has been handed a path for

vars == <<verified, relied>>

TypeOK == /\ verified \subseteq Pin
          /\ relied \in [Builder -> SUBSET Pin]

Init == /\ verified \subseteq Pin
        /\ relied = [b \in Builder |-> {}]

\* Somebody's download of p becomes visible, complete and with the right bytes.
Publish(p) == /\ verified' = verified \cup {p}
              /\ UNCHANGED relied

\* b is handed the path of p.
Rely(b, p) == /\ p \in verified
              /\ relied' = [relied EXCEPT ![b] = @ \cup {p}]
              /\ UNCHANGED verified

\* The process of b ends, in whatever way.
Forget(b) == /\ relied' = [relied EXCEPT ![b] = {}]
             /\ UNCHANGED verified

Next == \/ \E p \in Pin : Publish(p)
        \/ \E b \in Builder, p \in Pin : Rely(b, p)
        \/ \E b \in Builder : Forget(b)

Spec == Init /\ [][Next]_vars
=============================================================================
