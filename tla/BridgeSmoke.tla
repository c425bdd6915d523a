----------------------------- MODULE BridgeSmoke -----------------------------
(***************************************************************************)
(* The part of smoke-rootfs.sh that runs processes side by side.  In each  *)
(* round the script starts a server in the background, polls for its ready *)
(* file, runs a client in the rootfs, and collects both: the bridge rounds *)
(* of bridge-smoke-server.py, which ends by itself, and the round of       *)
(* untrusted-tls-server.py, which does not.  The client is the launcher    *)
(* and helper or curl; what they do inside is not part of the repository.  *)
(* The TLS round is one step of prove_snapshot_tls_trust(), which tries    *)
(* the trust store that the rootfs ships from all sides.                   *)
(***************************************************************************)
EXTENDS Naturals, Sequences

CONSTANTS
    Plan,       \* the rounds: [server |-> "bridge" or "tls", count |-> requests to serve]
    MaxTries,   \* polls of the ready file (100 in the script)
    None        \* the trust store is not looked at yet

ASSUME SmokeAssumption ==
    /\ Plan \in Seq([server : {"bridge", "tls"}, count : Nat \ {0}])
    /\ Plan # <<>>
    /\ \A i \in DOMAIN Plan : Plan[i].server = "tls" => i = Len(Plan)
    /\ MaxTries \in Nat

VARIABLES
    pc,         \* where the script is
    round,      \* the round it is in
    tries,      \* polls made in this round
    known,      \* whether bridge_pid or tls_server_pid names the server
    dir,        \* whether smoke_root exists
    verdict,    \* how the script ends
    server,     \* the server of this round
    ready,      \* its ready file
    served,     \* requests it has answered
    right,      \* whether these were the methods expected, in their order
    report,     \* what its method file says: whether they were
    client,     \* the client of this round; "left" when it went with a connection open
    status,     \* the exit status of the client: 0, the one expected, or another
    port,       \* whether the client was given the port of the TLS server
    store,      \* the trust store of the rootfs
    held        \* whether the CA bundle is moved aside

vars == <<pc, round, tries, known, dir, verdict, server, ready, served, right,
          report, client, status, port, store, held>>
script == <<pc, round, tries, known, dir, verdict>>
serving == <<server, ready, served, right, report>>
running == <<client, status, port>>
trust == <<store, held>>

\* What a store can vouch for: the chain of the Debian archive, and that of the
\* fixture whose CA nobody is to trust.  A certificate is found in the bundle or
\* through its link in the hashed directory.
Anchor == {"archive", "fixture"}
Store == [installed : BOOLEAN,  \* dpkg knows ca-certificates
          listed : BOOLEAN,     \* so does the SBOM
          bundle : SUBSET Anchor, links : SUBSET Anchor]

Listening == {"open", "write", "accept", "receive", "report", "serve"}
Alive == Listening \cup {"boot"}

TypeOK ==
    /\ pc \in {"spawn", "note", "poll", "launch", "attend", "collect", "check",
               "support", "verify", "live", "hold", "missing",
               "kill", "reap", "remove", "ended"}
    /\ round \in DOMAIN Plan
    /\ tries \in 0..MaxTries
    /\ known \in BOOLEAN /\ dir \in BOOLEAN
    /\ verdict \in {"none", "passed", "failed", "signal in the gap"}
    /\ server \in Alive \cup {"none", "done", "failed"}
    /\ ready \in {"absent", "empty", "written"}
    /\ served \in Nat /\ right \in BOOLEAN
    /\ report \in {"absent", "right", "wrong"}
    /\ client \in {"none", "running", "connected", "left", "gone"}
    /\ status \in {"none", "zero", "expected", "other"} /\ port \in BOOLEAN
    /\ store \in Store \cup {None} /\ held \in BOOLEAN

\* A TLS round is entered by way of the checks before it.
Entry(r) == IF Plan[r].server = "tls" THEN "support" ELSE "spawn"

Init ==
    /\ pc = Entry(1) /\ round = 1 /\ tries = 0 /\ known = FALSE
    /\ dir = TRUE /\ verdict = "none"
    /\ server = "none" /\ ready = "absent" /\ served = 0 /\ right = TRUE /\ report = "absent"
    /\ client = "none" /\ status = "none" /\ port = FALSE
    /\ store = None /\ held = FALSE

Is(kind) == Plan[round].server = kind

-----------------------------------------------------------------------------
(* The script                                                              *)

\* python3 ... & of a round, with file names of its own.
Spawn ==
    /\ pc = "spawn"
    /\ pc' = "note" /\ tries' = 0
    /\ server' = "boot" /\ ready' = "absent" /\ served' = 0 /\ right' = TRUE
    /\ report' = "absent" /\ client' = "none" /\ status' = "none" /\ port' = FALSE
    /\ UNCHANGED <<round, known, dir, verdict, trust>>

\* bridge_pid=$!
Note ==
    /\ pc = "note"
    /\ pc' = "poll" /\ known' = TRUE
    /\ UNCHANGED <<round, tries, dir, verdict, serving, running, trust>>

\* The EXIT trap starts, with the script's verdict.
Leave(outcome) == pc' = "kill" /\ verdict' = outcome

\* Mutant: the polls are not counted down.
Poll_Unbounded ==
    /\ pc = "poll"
    /\ \/ ready # "absent" /\ pc' = "launch" /\ UNCHANGED <<tries, verdict>>
       \/ ready = "absent" /\ tries' = tries + 1 /\ UNCHANGED <<pc, verdict>>
    /\ UNCHANGED <<round, known, dir, serving, running, trust>>

\* for _ in {1..100}: the ready file is there, or sleep; then one last look.
Poll ==
    /\ pc = "poll"
    /\ \/ ready # "absent" /\ pc' = "launch" /\ UNCHANGED <<tries, verdict>>
       \/ ready = "absent" /\ tries < MaxTries /\ tries' = tries + 1 /\ UNCHANGED <<pc, verdict>>
       \/ ready = "absent" /\ tries = MaxTries /\ Leave("failed") /\ UNCHANGED tries
    /\ UNCHANGED <<round, known, dir, serving, running, trust>>

\* The client starts; for TLS with the port that the ready file holds.
Launch ==
    /\ pc = "launch"
    /\ pc' = "attend" /\ client' = "running" /\ port' = (Is("tls") /\ ready = "written")
    /\ UNCHANGED <<round, tries, known, dir, verdict, serving, status, trust>>

Attend ==
    /\ pc = "attend" /\ client \in {"left", "gone"}
    /\ pc' = "collect"
    /\ UNCHANGED <<round, tries, known, dir, verdict, serving, running, trust>>

\* Mutant: the script does not wait for the bridge server.
Collect_NoWait ==
    /\ pc = "collect"
    /\ pc' = "check" /\ known' = FALSE
    /\ UNCHANGED <<round, tries, dir, verdict, serving, running, trust>>

\* A bridge server is waited for, and its failure ends the script (set -e); the
\* TLS server is killed and reaped.
Collect ==
    /\ pc = "collect"
    /\ \/ /\ Is("bridge") /\ server = "done"
          /\ pc' = "check" /\ known' = FALSE /\ UNCHANGED <<verdict, server>>
       \/ /\ Is("bridge") /\ server = "failed"
          /\ Leave("failed") /\ UNCHANGED <<known, server>>
       \/ /\ Is("tls")
          /\ server' = IF server \in Alive THEN "failed" ELSE server
          /\ pc' = "check" /\ known' = FALSE /\ UNCHANGED verdict
    /\ UNCHANGED <<round, tries, dir, ready, served, right, report, running, trust>>

\* Mutant: any failure of curl counts as a rejection.
Good_AnyFailure ==
    /\ IF Is("tls") THEN status # "zero" ELSE status = "expected"
    /\ Is("bridge") => report = "right"

\* The client's exit status, then the methods that the server wrote down.
Good == status = "expected" /\ (Is("bridge") => report = "right")

\* What comes after a good round.
Proceed ==
    \/ round < Len(Plan) /\ round' = round + 1 /\ pc' = Entry(round + 1) /\ UNCHANGED verdict
    \/ round = Len(Plan) /\ Leave("passed") /\ UNCHANGED round

Check ==
    /\ pc = "check"
    /\ \/ Good /\ Is("bridge") /\ Proceed
       \/ Good /\ Is("tls") /\ pc' = "live" /\ UNCHANGED <<round, verdict>>
       \/ ~Good /\ Leave("failed") /\ UNCHANGED round
    /\ UNCHANGED <<tries, known, dir, serving, running, trust>>

-----------------------------------------------------------------------------
(* prove_snapshot_tls_trust(), around the TLS round                        *)

\* The next check when this one is passed, else the end.
Pass(good, next) ==
    /\ IF good THEN pc' = next /\ UNCHANGED verdict ELSE Leave("failed")
    /\ UNCHANGED <<round, tries, known, dir, serving, running>>

\* assert_snapshot_support(): the package, its SBOM entry, a bundle that is not
\* empty, and links in the hashed directory.
Supported(s) == s.installed /\ s.listed /\ s.bundle # {} /\ s.links # {}

\* The rootfs, whatever store it ships, is looked at for the first time.
Support ==
    /\ pc = "support"
    /\ store' \in Store
    /\ Pass(Supported(store'), "verify")
    /\ UNCHANGED held

\* With the bundle in its place a chain verifies from it or from the links.
Verifies(anchor) == anchor \in store.bundle \cup store.links

\* openssl verify of the captured chain, at the time it was captured.
Verify ==
    /\ pc = "verify"
    /\ Pass(Verifies("archive"), "spawn")
    /\ UNCHANGED trust

\* classify_curl_status()
Classify(curl) ==
    CASE curl = 0 -> "ok"
      [] curl = 60 -> "trust"
      [] curl \in {6, 7, 28} -> "network"
      [] OTHER -> "unexpected"

\* curl of the archive itself: it succeeds when the store vouches for the archive,
\* and can fail for lack of a name, a connection, an answer, or a page, too.
Live ==
    /\ pc = "live"
    /\ \E curl \in {0, 6, 7, 22, 28, 60} :
          /\ curl = 0 => Verifies("archive")
          /\ Pass(Classify(curl) = "ok", "hold")
    /\ UNCHANGED trust

\* The bundle is moved aside ...
Hold ==
    /\ pc = "hold"
    /\ held' = TRUE /\ Pass(TRUE, "missing")
    /\ UNCHANGED store

\* ... the chain must not verify then, and the bundle is moved back in any case.  openssl
\* gives up on a -CAfile that is missing, or may look at the links that were not moved.
Missing ==
    /\ pc = "missing"
    /\ held' = FALSE
    /\ \E found \in SUBSET store.links :
          IF "archive" \in found THEN Leave("failed") /\ UNCHANGED round ELSE Proceed
    /\ UNCHANGED <<tries, known, dir, serving, running, store>>

-----------------------------------------------------------------------------
(* The end of the script                                                   *)

\* A command of its own fails, or a signal ends the script: the EXIT trap runs.
Interrupt ==
    /\ pc \notin {"kill", "reap", "remove", "ended"}
    /\ Leave(IF pc = "note" THEN "signal in the gap" ELSE "failed")
    /\ UNCHANGED <<round, tries, known, dir, serving, running, trust>>

\* Mutant: cleanup() removes the files only.
CleanKill_Forgets ==
    /\ pc = "kill"
    /\ pc' = "remove"
    /\ UNCHANGED <<round, tries, known, dir, verdict, serving, running, trust>>

\* Mutant: cleanup() waits for the server without a signal to it.
CleanKill_NoSignal ==
    /\ pc = "kill"
    /\ pc' = IF known THEN "reap" ELSE "remove"
    /\ UNCHANGED <<round, tries, known, dir, verdict, serving, running, trust>>

\* cleanup(): kill and wait when a process id is noted...
CleanKill ==
    /\ pc = "kill"
    /\ pc' = IF known THEN "reap" ELSE "remove"
    /\ server' = IF known /\ server \in Alive THEN "failed" ELSE server
    /\ UNCHANGED <<round, tries, known, dir, verdict, ready, served, right, report, running, trust>>

CleanReap ==
    /\ pc = "reap" /\ server \notin Alive
    /\ pc' = "remove"
    /\ UNCHANGED <<round, tries, known, dir, verdict, serving, running, trust>>

\* ... then rm -rf.
CleanRemove ==
    /\ pc = "remove"
    /\ pc' = "ended" /\ dir' = FALSE /\ ready' = "absent" /\ report' = "absent"
    /\ UNCHANGED <<round, tries, known, verdict, server, served, right, running, trust>>

-----------------------------------------------------------------------------
(* The servers                                                             *)

\* The server goes on, and is gone when an exception is raised.
Go(to) == server' = to /\ UNCHANGED <<script, running, right, trust>>

\* bind() and listen(), or an address in use.
Boot ==
    /\ server = "boot"
    /\ Go("open") \/ Go("failed")
    /\ UNCHANGED <<ready, served, report>>

\* write_text() creates the ready file...
OpenReady ==
    /\ server = "open"
    /\ IF dir THEN Go("write") /\ ready' = "empty" ELSE Go("failed") /\ UNCHANGED ready
    /\ UNCHANGED <<served, report>>

\* ... and then writes it.
WriteReady ==
    /\ server = "write"
    /\ ready' = IF dir THEN "written" ELSE "absent"
    /\ Go(IF Is("tls") THEN "serve" ELSE "accept")
    /\ UNCHANGED <<served, report>>

\* Mutant: accept() has no timeout.
Accept_Forever ==
    /\ server = "accept"
    /\ client \in {"connected", "left"} /\ Go("receive")
    /\ UNCHANGED <<ready, served, report>>

\* accept() returns a connection, or times out after 15 s.
Accept ==
    /\ server = "accept"
    /\ \/ client \in {"connected", "left"} /\ Go("receive")
       \/ client \notin {"connected", "left"} /\ Go("failed")
    /\ UNCHANGED <<ready, served, report>>

\* Mutant: the server does not count what it has answered.
Answer_Uncounted ==
    /\ server = "receive"
    /\ right' \in {right, FALSE}
    /\ server' \in {"report", "accept"}
    /\ client' = IF client = "left" THEN "gone" ELSE "running"
    /\ UNCHANGED <<script, ready, served, report, status, port, trust>>

\* A request is read, judged and answered, and the connection closed.
Answer ==
    /\ server = "receive"
    /\ served' = served + 1 /\ right' \in {right, FALSE}
    /\ server' = IF served' = Plan[round].count THEN "report" ELSE "accept"
    /\ client' = IF client = "left" THEN "gone" ELSE "running"
    /\ UNCHANGED <<script, ready, report, status, port, trust>>

\* recv() times out after 10 s, or the request is cut off, oversized or refused.
ReceiveFails ==
    /\ server = "receive"
    /\ Go("failed")
    /\ UNCHANGED <<ready, served, report>>

\* The method file, after the last request.
Report ==
    /\ server = "report"
    /\ IF dir THEN Go("done") /\ report' = (IF right THEN "right" ELSE "wrong")
              ELSE Go("failed") /\ UNCHANGED report
    /\ UNCHANGED <<ready, served>>

-----------------------------------------------------------------------------
(* The client                                                              *)

Connect ==
    /\ client = "running" /\ server \in Listening /\ (Is("tls") => port)
    /\ client' = "connected"
    /\ UNCHANGED <<script, serving, status, port, trust>>

\* It exits when it likes.  curl has status 60 when the server it reached is not
\* trusted, and 0 when it is; it can fail otherwise.
ClientExits ==
    /\ client \in {"running", "connected"}
    /\ client' = IF client = "connected" THEN "left" ELSE "gone"
    /\ status' \in (IF Is("bridge") THEN {"expected", "other"}
                   ELSE IF client = "running" THEN {"other"}
                   ELSE {"other", IF Verifies("fixture") THEN "zero" ELSE "expected"})
    /\ UNCHANGED <<script, serving, port, trust>>

-----------------------------------------------------------------------------
Script ==
    \/ Spawn \/ Note \/ Poll \/ Launch \/ Attend \/ Collect \/ Check
    \/ Support \/ Verify \/ Live \/ Hold \/ Missing
    \/ CleanKill \/ CleanReap \/ CleanRemove

Server ==
    \/ Boot \/ OpenReady \/ WriteReady \/ Accept \/ Answer \/ ReceiveFails \/ Report

AllEnded == pc = "ended" /\ server \notin Alive \ {"serve"} /\ client \in {"none", "left", "gone"}

Ended == AllEnded /\ UNCHANGED vars

Next == Script \/ Interrupt \/ Server \/ Connect \/ ClientExits \/ Ended

Spec == Init /\ [][Next]_vars

\* Processes are scheduled, socket timeouts fire, and the client ends: the helper
\* by itself once its connections are answered or broken, curl after --max-time.
Fairness == WF_vars(Script) /\ WF_vars(Server) /\ WF_vars(ClientExits)

FairSpec == Spec /\ Fairness

-----------------------------------------------------------------------------
(* Properties                                                              *)

\* A round is judged when its server has ended: the method file has been written
\* whole, by a server that answered every request.  A TLS client that read the
\* port from a ready file still empty can fail the test, never pass it.
CheckedAfterEnd ==
    pc = "check" =>
        /\ server \notin Alive
        /\ Is("bridge") => /\ server = "done" /\ served = Plan[round].count
                          /\ report = (IF right THEN "right" ELSE "wrong")
        /\ Is("tls") /\ Good => port

\* cleanup() leaves no server behind and none writes into the removed directory,
\* however the script ends, but for a signal between the `&` and the assignment
\* of $!, when the trap knows no process id.
NoServerLeft ==
    pc \in {"remove", "ended"} /\ verdict # "signal in the gap" => server \notin Alive

\* A smoke test that passes a TLS plan has proved the store that the rootfs ships:
\* it vouches for the archive and not for the fixture, from a supported store that
\* is left as it was found.  A server that was never reached proves nothing.
TrustProven ==
    verdict = "passed" /\ Is("tls") =>
        /\ Supported(store) /\ ~held
        /\ "archive" \in store.bundle \cup store.links
        /\ "fixture" \notin store.bundle \cup store.links

\* The script ends, as a wait is for a server that its timeouts end; and even the
\* bridge server that the trap does not know of ends by itself.
EverythingEnds ==
    /\ <>(pc = "ended")
    /\ server \in Alive /\ Is("bridge") ~> server \notin Alive

\* Who can take a step, by what each waits for; a signal apart.
ScriptCan ==
    \/ pc \notin {"attend", "collect", "reap", "ended"}
    \/ pc = "attend" /\ client \in {"left", "gone"}
    \/ pc = "collect" /\ (Is("tls") \/ server \in {"done", "failed"})
    \/ pc = "reap" /\ server \notin Alive
ServerCan == server \in Alive \ {"serve"}
ClientCan == client \in {"running", "connected"}

\* Every wait of the script is for somebody who can go on: for a client that it has
\* started, for a bridge server, never for one that serves until it is killed.
WaitsAreServed == AllEnded \/ ScriptCan \/ ServerCan \/ ClientCan

\* The course of a round, with the checks around a TLS round, and of the trap.
Course == <<"support", "verify", "spawn", "note", "poll", "launch", "attend", "collect",
            "check", "live", "hold", "missing", "kill", "reap", "remove", "ended">>
Later(p, q) == \E i, j \in DOMAIN Course : i < j /\ Course[i] = p /\ Course[j] = q

\* What the server and the client can still do meanwhile.
StageAhead == [boot |-> 5, open |-> 4, write |-> 3, accept |-> 2, receive |-> 1]

ServerAhead ==
    IF server \in DOMAIN StageAhead
      THEN 2 * (Plan[round].count - served) + StageAhead[server]
      ELSE IF server = "report" THEN 1 ELSE 0

ClientAhead == IF client = "running" THEN 2 ELSE IF client = "connected" THEN 1 ELSE 0

\* The polls and the requests of a server are counted, and each round is left behind.
SmokeGetsOn ==
    \/ round' > round /\ round' <= Len(Plan)
    \/ round' = round /\ Later(pc, pc')
    \/ UNCHANGED <<round, pc>> /\ tries' > tries /\ tries' <= MaxTries
    \/ UNCHANGED <<round, pc, tries>> /\ ServerAhead' \in 0..(ServerAhead - 1)
    \/ UNCHANGED <<round, pc, tries, server, served>> /\ ClientAhead' < ClientAhead

\* What EverythingEnds rests on, for any plan: no step goes round in a circle, so a
\* smoke test takes finitely many, and each leaves somebody who can take the next,
\* until all has ended but a server that nobody knows.
SmokeProceeds == [][SmokeGetsOn /\ WaitsAreServed']_vars
=============================================================================
