---------------------------- MODULE MCBuildTarget ----------------------------
EXTENDS BuildTarget, FiniteSets, TLC

CONSTANTS s1, s2, n1, n2, r1, r2, hostname, resolv, cache, overlay, x1, x2, ht, rt, b1, b2,
          g1, g2, l1, l2, l3, c1, c2, p1, p2

MCFixup == hostname :> ht @@ resolv :> rt
MCRemoval == {cache}

Root(h, r, c, o) == hostname :> h @@ resolv :> r @@ cache :> c @@ overlay :> o

\* resolv.conf may be a file or a symlink, the cache may be there or not.
MCBootstrapped == {Root(h, r, c, Absent) : h \in {x1, x2}, r \in {x1, hostname},
                                           c \in {x1, Absent}}
                      \cup {Root(x1, x1, Folder, Absent)}

Clean == Root(x1, x1, Absent, Absent)

\* A lower layer, one that changes and hides some of it, one in the overlay's place.
MCHolds == l1 :> (hostname :> x1 @@ resolv :> hostname @@ cache :> x2)
              @@ l2 :> (resolv :> x2 @@ cache :> Absent)
              @@ l3 :> (overlay :> x2)

MCPlatformOf == c1 :> p1 @@ c2 :> p2

Layer(l) == [blob |-> l, known |-> TRUE, sized |-> TRUE]
Base == [kind |-> "oci", tree |-> Clean, layers |-> <<Layer(l1), Layer(l2)>>, config |-> c1,
         platform |-> p1, manifest |-> [layers |-> <<Layer(l1), Layer(l2)>>, config |-> c1],
         pockets |-> NoPockets, suite |-> s1, keyringAt |-> n1]
WithLayers(ls) == [Base EXCEPT !.layers = ls, !.manifest.layers = ls]
Pocketed(ps, s, n) ==
    [Base EXCEPT !.kind = "apt-snapshot", !.pockets = ps, !.suite = s, !.keyringAt = n]

\* One pinned image of each kind, locks that disagree with their manifest, config or
\* blobs, one whose base holds the overlay path, and all pocketed snapshots of up to
\* two pockets.
MCImage ==
    {[Base EXCEPT !.kind = k] : k \in {"termux-rootfs", "oci", "apt-snapshot"}}
        \cup {[Base EXCEPT !.layers = ls] : ls \in {<<Layer(l1)>>, <<Layer(l2), Layer(l1)>>}}
        \cup {[Base EXCEPT !.config = c2], [Base EXCEPT !.platform = p2],
              WithLayers(<<Layer(l1), [Layer(l2) EXCEPT !.sized = FALSE]>>),
              WithLayers(<<Layer(l1), [Layer(l2) EXCEPT !.known = FALSE]>>),
              WithLayers(<<Layer(l1), Layer(l3)>>)}
        \cup {Pocketed(ps, s, n) :
                 ps \in {<<>>} \cup {<<p>> : p \in Pocket}
                               \cup {<<p, q>> : p \in Pocket, q \in Pocket},
                 s \in Suite, n \in Snapshot}

Symmetry == Permutations({s1, s2}) \cup Permutations({n1, n2})
                \cup Permutations({r1, r2}) \cup Permutations({b1, b2})
=============================================================================
