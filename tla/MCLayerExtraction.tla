-------------------------- MODULE MCLayerExtraction --------------------------
EXTENDS LayerExtraction, SequencesExt

CONSTANT MaxMembers

d == <<"d">>
e == <<"e">>
g == <<"g">>
f == <<"d", "f">>

MCPath == {d, e, f, g}

MCTree(atD, atE, atF) ==
    [p \in MCPath |-> CASE p = d -> atD [] p = e -> atE [] p = f -> atF [] p = g -> Gone]

\* Nothing, directories with and without a file, files, and a symlink to each kind.
MCLower ==
    {MCTree(Gone, Gone, Gone), MCTree(Dir, File("lower", e), File("lower", f)),
     MCTree(Dir, Dir, Gone), MCTree(File("lower", d), File("lower", e), Gone)}
    \cup {MCTree(Symlink(e), target, Gone) : target \in {Gone, Dir, File("lower", e)}}

Of(kind, paths) == {[kind |-> kind, path |-> p, to |-> p] : p \in paths}

MCMember ==
    UNION {Of("dir", {d, e}), Of("file", MCPath), Of("whiteout", {d, e, f}), Of("opaque", {d}),
           Of("device", {e}), Of("unsupported", {e}),
           {[kind |-> "symlink", path |-> d, to |-> e], [kind |-> "symlink", path |-> e, to |-> d]},
           {[kind |-> "link", path |-> p, to |-> q] : p, q \in {e, f, g}}}

MCArchive ==
    {a \in BoundedSeq(MCMember, MaxMembers) :
        \A i, j \in DOMAIN a :
            a[i].kind = "link" /\ a[j].kind = "symlink" => a[i].path \notin Below(a[j].path)}
=============================================================================
