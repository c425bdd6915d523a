--------------------------- MODULE MCArchiveOutput ---------------------------
(* A directory with the overlay file below it, a removed helper, another      *)
(* file, and names to link and to rename; trees as build() finishes them, and *)
(* every base archive of up to MaxMembers members.                            *)
EXTENDS ArchiveOutput, SequencesExt

CONSTANT MaxMembers

dir == <<1>>
overlay == <<1, 1>>
overlay2 == <<1, 2>>
helper == <<2>>
other == <<3>>
alias == <<4>>

MCName == {dir, overlay, overlay2, helper, other, alias}

MCOverlay == {overlay, overlay2}
MCRemoved == {helper}

Of(n, kind, to, bytes, inside) ==
    [name |-> n, kind |-> kind, to |-> to, bytes |-> bytes, inside |-> inside, canonical |-> FALSE]

MCMember ==
    {Of(n, "file", None, n, TRUE) : n \in {overlay, helper, other}}
    \cup {Of(dir, "dir", None, None, TRUE), Of(other, "file", None, other, FALSE)}
    \cup {Of(dir, "symlink", other, None, TRUE)}
    \cup {Of(alias, kind, to, None, TRUE) : kind \in {"symlink", "link"}, to \in {helper, other}}

\* What tar finds: a directory with the overlay, or with a symlink in its place.
MCTree ==
    {<<Entry(dir, "dir", None), Entry(overlay, "file", Shipped),
       Entry(overlay2, "file", Shipped), Entry(other, "file", other)>>,
     <<[Entry(dir, "symlink", None) EXCEPT !.to = other], Entry(other, "dir", None)>>}

\* A hard link of a base archive has a target: extraction has succeeded before.
MCBase ==
    {a \in BoundedSeq(MCMember, MaxMembers) :
        \A i \in DOMAIN a : a[i].kind = "link" => \E j \in DOMAIN a : a[j].name = a[i].to /\ a[j].kind = "file"}

MCJob == [kind : {"tree"}, members : MCTree] \cup [kind : {"v4"}, members : MCBase]
=============================================================================
