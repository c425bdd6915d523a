-------------------------- MODULE MCChangeClassifier --------------------------
(* A repository with a script, a governed test fixture (both fast and       *)
(* material by prefix), a document and a path nobody classified.            *)
EXTENDS ChangeClassifier, TLC

CONSTANTS script, fixture, doc, unknown, intent, x

\* The intent can be renamed away, too.
MCSimilar == ({x} \cup Intent) \X {x}

\* Working trees with the script and no intent: all of them is in an index but for a
\* new fixture or file that nobody classified.
MCWorktree ==
    {[files |-> [p \in Path |-> IF p = script THEN x ELSE IF p = IntentPath THEN Absent ELSE f[p]],
      untracked |-> u] :
        f \in [Path -> Contents], u \in {{}, {fixture, unknown}}}
=============================================================================
