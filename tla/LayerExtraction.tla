--------------------------- MODULE LayerExtraction ---------------------------
(***************************************************************************)
(* extract_archive() of build-image.py: one OCI layer is unpacked over the *)
(* tree that the layers below it left.  Its whiteouts are applied in a     *)
(* first pass over the members, the members themselves in a second, its    *)
(* hard links in rounds after that, directory modes last.                  *)
(*                                                                         *)
(* A tree says for every path what is there: nothing, a directory, a       *)
(* symlink, or a file, known by the layer and the name its bytes came      *)
(* with.  A whiteout is known by the path it hides, an opaque marker by    *)
(* the directory it empties.  Modes, times and owners are left out.        *)
(***************************************************************************)
EXTENDS Naturals, Sequences

CONSTANTS
    Name,       \* names of directory entries
    Path,       \* paths, as sequences of names; the root <<>> is none of them
    Lower,      \* trees to unpack over
    Archive     \* archives to unpack, as sequences of members

Below(p) == {q \in Path : Len(q) > Len(p) /\ SubSeq(q, 1, Len(p)) = p}
Above(p) == {q \in Path : p \in Below(q)}

Gone == [kind |-> "gone"]
Dir == [kind |-> "dir"]
Symlink(p) == [kind |-> "symlink", to |-> p]
File(layer, p) == [kind |-> "file", layer |-> layer, name |-> p]

Node == {Gone, Dir} \cup {Symlink(p) : p \in Path}
            \cup {File(layer, p) : layer \in {"lower", "layer"}, p \in Path}

Kind == {"dir", "file", "symlink", "link", "device", "whiteout", "opaque", "unsupported"}
Member == [kind : Kind, path : Path, to : Path]

\* Whatever is there is in a directory.
Tree == {t \in [Path -> Node] : \A p \in Path : t[p] # Gone => \A q \in Above(p) : t[q] = Dir}

ASSUME LayerAssumption ==
    /\ Path \subseteq Seq(Name) \ {<<>>}
    /\ \A p \in Path : \A n \in 1..(Len(p) - 1) : SubSeq(p, 1, n) \in Path
    /\ Lower \subseteq Tree
    /\ Archive \subseteq Seq(Member)
    \* Not modelled: a hard link below a name that the archive makes a symlink.
    /\ \A a \in Archive : \A i, j \in DOMAIN a :
          a[i].kind = "link" /\ a[j].kind = "symlink" => a[i].path \notin Below(a[j].path)

VARIABLES
    lower,      \* the tree below, as it was
    archive,    \* source.getmembers()
    tree,       \* root
    pass,       \* which loop runs
    at,         \* the member it is at
    queue,      \* what is left of remaining in this round
    next,       \* next_remaining
    asked,      \* len(remaining) at the start of this round
    rounds,     \* rounds still allowed by range(len(remaining) + 1)
    dirs        \* paths in directories

vars == <<lower, archive, tree, pass, at, queue, next, asked, rounds, dirs>>
source == <<lower, archive>>
links == <<queue, next, asked, rounds>>

Init ==
    /\ lower \in Lower
    /\ archive \in Archive
    /\ tree = lower
    /\ pass = "whiteouts"
    /\ at = 1
    /\ queue = <<>> /\ next = <<>> /\ asked = 0 /\ rounds = 0
    /\ dirs = {}

-----------------------------------------------------------------------------
(* What the helpers do to a tree                                           *)

\* The directories safe_destination() walks through for a member.
Parents(m) == Above(m.path) \cup (IF m.kind = "opaque" THEN {m.path} ELSE {})

\* It refuses a symlink or a non-directory among them...
Blocked(t, above) == \E p \in above : t[p].kind \notin {"gone", "dir"}

\* ... and makes those that are missing.
WithParents(t, above) == [p \in Path |-> IF p \in above THEN Dir ELSE t[p]]

\* Mutant: a directory is removed without what is in it.
Without_Shallow(t, paths) == [p \in Path |-> IF p \in paths THEN Gone ELSE t[p]]

\* remove_path() for each of some paths.
Without(t, paths) ==
    [p \in Path |-> IF p \in paths \/ Above(p) \cap paths # {} THEN Gone ELSE t[p]]

\* Path.exists() and is_dir() follow a symlink; a chain of symlinks leads nowhere here.
Seen(t, p) == IF t[p].kind = "symlink" THEN t[t[p].to].kind ELSE t[p].kind

Put(m, node) == tree' = [Without(WithParents(tree, Parents(m)), {m.path}) EXCEPT ![m.path] = node]

-----------------------------------------------------------------------------
(* The passes over the members                                             *)

IsWhiteout(m) == m.kind \in {"whiteout", "opaque"}

\* Loop `in` is at member m, and safe_destination() lets it through.
At(in, m) ==
    /\ pass = in /\ at <= Len(archive) /\ m = archive[at]
    /\ ~Blocked(tree, Parents(m))

MoveOn == at' = at + 1 /\ UNCHANGED <<source, pass>>

Hide(m) ==
    /\ At("whiteouts", m) /\ IsWhiteout(m)
    /\ tree' = Without(WithParents(tree, Parents(m)),
                       IF m.kind = "opaque" THEN Below(m.path) ELSE {m.path})
    /\ MoveOn /\ UNCHANGED <<links, dirs>>

\* `continue`: a member of the other pass.
PassOver ==
    /\ at <= Len(archive)
    /\ \/ pass = "whiteouts" /\ ~IsWhiteout(archive[at])
       \/ pass = "members" /\ IsWhiteout(archive[at])
    /\ MoveOn /\ UNCHANGED <<tree, links, dirs>>

\* A directory stays what it is, and so does a symlink that leads to one.
MakeDir(m) ==
    /\ At("members", m) /\ m.kind = "dir"
    /\ \/ Seen(tree, m.path) = "dir" /\ UNCHANGED tree
       \/ (Seen(tree, m.path) = "file" \/ tree[m.path] = Gone) /\ Put(m, Dir)
    /\ dirs' = dirs \cup {m.path}
    /\ MoveOn /\ UNCHANGED links

MakeFile(m) ==
    /\ At("members", m)
    /\ \/ m.kind = "file" /\ Put(m, File("layer", m.path))
       \/ m.kind = "symlink" /\ Put(m, Symlink(m.to))
    /\ MoveOn /\ UNCHANGED <<links, dirs>>

\* Mutant: what a hard link replaces is left in place until it is linked.
QueueLink_Keeps(m) ==
    /\ At("members", m) /\ m.kind = "link"
    /\ tree' = WithParents(tree, Parents(m))
    /\ queue' = Append(queue, m)
    /\ MoveOn /\ UNCHANGED <<next, asked, rounds, dirs>>

\* Mutant: a link whose target is already there is made at once.
QueueLink_AtOnce(m) ==
    /\ At("members", m) /\ m.kind = "link"
    /\ IF tree[m.to].kind = "file"
         THEN Put(m, tree[m.to]) /\ UNCHANGED queue
         ELSE Put(m, Gone) /\ queue' = Append(queue, m)
    /\ MoveOn /\ UNCHANGED <<next, asked, rounds, dirs>>

\* The name is cleared now and linked after the pass: its target may come later.
QueueLink(m) ==
    /\ At("members", m) /\ m.kind = "link"
    /\ Put(m, Gone)
    /\ queue' = Append(queue, m)
    /\ MoveOn /\ UNCHANGED <<next, asked, rounds, dirs>>

\* PRoot binds host devices: the entry is omitted, what is below it stays.
OmitDevice(m) ==
    /\ At("members", m) /\ m.kind = "device"
    /\ tree' = WithParents(tree, Parents(m))
    /\ MoveOn /\ UNCHANGED <<links, dirs>>

\* Mutant: one round is missing.
RoundsFor_Short(n) == IF n = 0 THEN 0 ELSE n - 1

\* range(len(remaining) + 1)
RoundsFor(n) == n + 1

\* A loop over the members ends; the next one starts.
NextPass ==
    /\ pass \in {"whiteouts", "members"} /\ at > Len(archive)
    /\ pass' = IF pass = "whiteouts" THEN "members" ELSE "links"
    /\ at' = 1
    /\ asked' = Len(queue) /\ rounds' = RoundsFor(Len(queue))
    /\ UNCHANGED <<source, tree, queue, next, dirs>>

-----------------------------------------------------------------------------
(* The rounds over the hard links, and the end                             *)

\* os.link() makes a new name in a directory that is there, for a non-directory.
CanLink(t, m) ==
    /\ t[m.to].kind = "file" /\ t[m.path] = Gone
    /\ \A p \in Above(m.path) : t[p] = Dir

\* One link: made when its target is there, put off to the next round otherwise.
LinkOne ==
    /\ pass = "links" /\ rounds > 0 /\ queue # <<>>
    /\ LET m == Head(queue) IN
          /\ ~Blocked(tree, Above(m.to))
          /\ LET seen == WithParents(tree, Above(m.to)) IN
                IF seen[m.to].kind \in {"gone", "symlink"}
                  THEN /\ next' = Append(next, m)
                       /\ tree' = seen
                  ELSE /\ CanLink(seen, m)
                       /\ tree' = [seen EXCEPT ![m.path] = seen[m.to]]
                       /\ UNCHANGED next
    /\ queue' = Tail(queue)
    /\ UNCHANGED <<source, pass, at, asked, rounds, dirs>>

\* Mutant: a round without progress is followed by another.
EndRound_Retries ==
    /\ pass = "links" /\ rounds > 0 /\ queue = <<>> /\ asked > 0
    /\ queue' = next /\ next' = <<>> /\ asked' = Len(next)
    /\ UNCHANGED <<source, tree, pass, at, rounds, dirs>>

\* remaining = next_remaining, when some link was made.
EndRound ==
    /\ pass = "links" /\ rounds > 0 /\ queue = <<>> /\ Len(next) < asked
    /\ queue' = next /\ next' = <<>> /\ asked' = Len(next)
    /\ rounds' = rounds - 1
    /\ UNCHANGED <<source, tree, pass, at, dirs>>

\* Nothing remains, or range() is used up; then the modes, on what is there.
Finish ==
    /\ pass = "links" /\ (asked = 0 \/ rounds = 0)
    /\ \A p \in dirs : Seen(tree, p) \in {"dir", "file"}
    /\ pass' = "done"
    /\ UNCHANGED <<source, tree, at, links, dirs>>

\* A BuildError or OSError, at the statement that raises it.
Fail ==
    /\ \/ /\ pass \in {"whiteouts", "members"} /\ at <= Len(archive)
          /\ LET m == archive[at] IN
                /\ IsWhiteout(m) <=> pass = "whiteouts"
                /\ \/ Blocked(tree, Parents(m))
                   \/ m.kind = "unsupported"
                   \/ m.kind = "dir" /\ tree[m.path].kind = "symlink"
                         /\ Seen(tree, m.path) \notin {"dir", "file"}
       \/ /\ pass = "links" /\ rounds > 0 /\ queue # <<>>
          /\ LET m == Head(queue)
                 seen == WithParents(tree, Above(m.to))
             IN  \/ Blocked(tree, Above(m.to))
                 \/ seen[m.to].kind \in {"dir", "file"} /\ ~CanLink(seen, m)
       \/ pass = "links" /\ rounds > 0 /\ queue = <<>> /\ asked > 0 /\ Len(next) = asked
       \/ /\ pass = "links" /\ (asked = 0 \/ rounds = 0)
          /\ \E p \in dirs : Seen(tree, p) \notin {"dir", "file"}
    /\ pass' = "failed"
    /\ UNCHANGED <<source, tree, at, links, dirs>>

\* The call has returned or raised.
Ended == pass \in {"done", "failed"} /\ UNCHANGED vars

Next ==
    \/ \E i \in DOMAIN archive :
          LET m == archive[i]
          IN  at = i /\ (Hide(m) \/ MakeDir(m) \/ MakeFile(m) \/ QueueLink(m) \/ OmitDevice(m))
    \/ PassOver \/ NextPass \/ LinkOne \/ EndRound \/ Finish \/ Fail \/ Ended

Spec == Init /\ [][Next]_vars

-----------------------------------------------------------------------------
(* Properties                                                              *)

TypeOK ==
    /\ lower \in Lower /\ archive \in Archive
    /\ tree \in Tree
    /\ pass \in {"whiteouts", "members", "links", "done", "failed"}
    /\ at \in Nat /\ asked \in Nat /\ rounds \in Nat
    /\ queue \in Seq(Member) /\ next \in Seq(Member)
    /\ dirs \subseteq Path

Members == {archive[i] : i \in DOMAIN archive}
Whiteouts == {m \in Members : IsWhiteout(m)}
Entries == {m \in Members : m.kind \in {"dir", "file", "symlink", "link"}}
Links == {m \in Members : m.kind = "link"}
Hides(m) == IF m.kind = "opaque" THEN Below(m.path) ELSE {m.path} \cup Below(m.path)
Hidden == UNION {Hides(m) : m \in Whiteouts}

\* An archive whose meaning as a set of members is plain: one entry for a name,
\* none below one that is no directory, no whiteout in what another one hides,
\* no directory entry in the place of a symlink of the layers below.
Plain ==
    /\ \A m \in Entries : \A i, j \in DOMAIN archive :
          archive[i] = m /\ archive[j] \in Entries /\ archive[j].path = m.path => i = j
    /\ \A m \in Entries, n \in Members :
          m.kind # "dir" /\ n.path # m.path => m.path \notin Parents(n)
    /\ \A m \in Whiteouts : Parents(m) \cap UNION {Hides(n) : n \in Whiteouts} = {}
    /\ \A m \in Entries : m.kind = "dir" /\ m.path \notin Hidden => lower[m.path].kind # "symlink"

\* What the path of a layer means, whatever the order of its members: its entry;
\* else nothing when it is hidden; else what is below.  Parents are made.
IsLayering(t) ==
    \A p \in Path :
        \/ \E m \in Entries : /\ m.path = p
                              /\ CASE m.kind = "dir" -> t[p] = Dir
                                   [] m.kind = "file" -> t[p] = File("layer", p)
                                   [] m.kind = "symlink" -> t[p] = Symlink(m.to)
                                   [] m.kind = "link" -> t[p] = t[m.to] /\ t[p].kind = "file"
        \/ /\ \A m \in Entries : m.path # p
           /\ t[p] = IF \E m \in Members : p \in Parents(m) THEN Dir
                     ELSE IF \/ p \in Hidden
                             \/ \E m \in Entries : m.kind # "dir" /\ p \in Below(m.path)
                       THEN Gone
                     ELSE lower[p]

\* No link is given up silently when range(len(remaining) + 1) is used up.
LinksAllMade == pass = "done" => queue = <<>> /\ next = <<>>

\* What extraction leaves is the layer over the layers below it: whiteouts hide
\* lower names only and no name of their own layer, and a hard link gives the
\* file its layer means, in any order of members, links before targets included.
\* And whether or not the members have one meaning, no link of theirs is left over.
LayeringCorrect == LinksAllMade /\ (pass = "done" /\ Plain => IsLayering(tree))

\* Links that can never be made: their targets are one another, or no files.
FileAt(p) ==
    \/ \E m \in Entries : m.path = p /\ m.kind = "file"
    \/ /\ lower[p].kind = "file" /\ p \notin Hidden
       /\ \A m \in Entries : m.path # p /\ (m.kind # "dir" => p \notin Below(m.path))

Unresolvable ==
    \E stuck \in SUBSET Links :
        /\ stuck # {}
        /\ \A m \in stuck : \/ \E n \in stuck : n.path = m.to
                           \/ (~FileAt(m.to) /\ \A n \in Links : n.path # m.to)

\* A layer is refused only for a reason: an ambiguous or unsupported member, a
\* parent in the layers below that is no directory, or a link without a file.
RefusedForReason ==
    pass = "failed" =>
        \/ ~Plain
        \/ \E m \in Members : m.kind = "unsupported"
        \/ \E m \in Members : \E p \in Parents(m) : lower[p].kind \notin {"gone", "dir"}
        \/ Unresolvable

\* Extraction ends, with cycles of hard links and links to links too: no loop can
\* go on, as each step brings a later pass, member, round or link.
Rank(p) == IF p = "whiteouts" THEN 0 ELSE IF p = "members" THEN 1 ELSE IF p = "links" THEN 2 ELSE 3

Descends ==
    [][\/ Rank(pass') > Rank(pass)
       \/ /\ pass' = pass /\ pass # "links"
          /\ at' > at /\ at' <= Len(archive) + 1
       \/ /\ pass' = pass /\ pass = "links"
          /\ \/ rounds' < rounds
             \/ rounds' = rounds /\ Len(queue') < Len(queue)]_vars
=============================================================================
