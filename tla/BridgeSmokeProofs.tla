-------------------------- MODULE BridgeSmokeProofs --------------------------
(***************************************************************************)
(* Proofs about BridgeSmoke for any plan of rounds: the exit trap knows of *)
(* every server, and a test that passes has tried the trust store from all *)
(* sides.  Each rests on an invariant of the script's position.            *)
(***************************************************************************)
EXTENDS BridgeSmoke, TLAPS

Cleaning == {"kill", "reap", "remove", "ended"}

\* The actions of a server, a client or nobody.
Others == Server \/ Connect \/ ClientExits \/ Ended \/ UNCHANGED vars

LEMMA Steps ==
    ASSUME [Next]_vars
    PROVE  Script \/ Interrupt \/ Others
BY DEF Next, Others

LEMMA OthersKeepScript ==
    ASSUME Others PROVE UNCHANGED <<script, trust>>
BY DEF Others, Server, Boot, OpenReady, WriteReady, Accept, Answer, ReceiveFails, Report,
       Go, Connect, ClientExits, Ended, vars, script, trust

-----------------------------------------------------------------------------
(* Servers                                                                 *)

\* A server that the trap would not end is one whose id was not noted in time.
ServerIsKnown ==
    /\ pc \in {"poll", "launch", "attend", "collect"} => known
    /\ ~known => pc = "note" \/ server \notin Alive \/ verdict = "signal in the gap"
    /\ pc \in {"reap", "remove", "ended"} => server \notin Alive \/ verdict = "signal in the gap"
    /\ pc \notin Cleaning => verdict = "none"

\* Servers start in Spawn only.
LEMMA OthersStartNone ==
    ASSUME Others, server \notin Alive PROVE server' \notin Alive
BY DEF Others, Server, Boot, OpenReady, WriteReady, Accept, Answer, ReceiveFails, Report,
       Connect, ClientExits, Ended, vars, serving, Alive, Listening

LEMMA ServerStep == ServerIsKnown /\ [Next]_vars => ServerIsKnown'
<1> SUFFICES ASSUME ServerIsKnown, [Next]_vars PROVE ServerIsKnown'
  OBVIOUS
<1> USE DEF ServerIsKnown, Cleaning
<1>1. CASE Others
  BY <1>1, OthersKeepScript, OthersStartNone DEF script
<1>2. CASE Interrupt
  BY <1>2 DEF Interrupt, Leave, serving
<1>3. CASE Spawn
  BY <1>3 DEF Spawn
<1>4. CASE Note
  BY <1>4 DEF Note, serving
<1>5. CASE Poll \/ Launch \/ Attend
  BY <1>5 DEF Poll, Launch, Attend, Leave, serving
<1>6. CASE Collect
  BY <1>6 DEF Collect, Leave, Alive, Listening
<1>7. CASE Check
  <2>1. pc' \in {"support", "spawn", "live", "kill"} /\ UNCHANGED <<known, server>>
    BY <1>7 DEF Check, Proceed, Leave, Entry, serving
  <2>2. pc' # "kill" => UNCHANGED verdict
    BY <1>7 DEF Check, Proceed, Leave
  <2>3. pc = "check"
    BY <1>7 DEF Check
  <2> QED BY <2>1, <2>2, <2>3 DEF Alive, Listening
<1>8. CASE Support \/ Verify \/ Live \/ Hold
  <2>1. pc' \in {"verify", "spawn", "hold", "missing", "kill"} /\ UNCHANGED <<known, server>>
    BY <1>8 DEF Support, Verify, Live, Hold, Pass, Leave, serving
  <2>2. pc' # "kill" => UNCHANGED verdict
    BY <1>8 DEF Support, Verify, Live, Hold, Pass, Leave
  <2>3. pc \in {"support", "verify", "live", "hold"}
    BY <1>8 DEF Support, Verify, Live, Hold
  <2> QED BY <2>1, <2>2, <2>3 DEF Alive, Listening
<1>9. CASE Missing
  <2>1. pc' \in {"support", "spawn", "kill"} /\ UNCHANGED <<known, server>>
    BY <1>9 DEF Missing, Proceed, Leave, Entry, serving
  <2>2. pc' # "kill" => UNCHANGED verdict
    BY <1>9 DEF Missing, Proceed, Leave
  <2>3. pc = "missing"
    BY <1>9 DEF Missing
  <2> QED BY <2>1, <2>2, <2>3 DEF Alive, Listening
<1>10. CASE CleanKill
  BY <1>10 DEF CleanKill, Alive, Listening
<1>11. CASE CleanReap \/ CleanRemove
  BY <1>11 DEF CleanReap, CleanRemove, serving
<1> QED
  BY <1>1, <1>2, <1>3, <1>4, <1>5, <1>6, <1>7, <1>8, <1>9, <1>10, <1>11, Steps DEF Script

\* cleanup() leaves no server behind, for any plan and however the script ends, but
\* for a signal between the `&` and the assignment of $!.
THEOREM TrapEndsServers == Spec => []NoServerLeft
<1>1. Init => ServerIsKnown
  BY DEF Init, ServerIsKnown, Entry, Cleaning, Alive, Listening
<1>2. ServerIsKnown => NoServerLeft
  BY DEF ServerIsKnown, NoServerLeft
<1> QED BY <1>1, <1>2, ServerStep, PTL DEF Spec

-----------------------------------------------------------------------------
(* The trust store                                                         *)

Shipped == store.bundle \cup store.links
InRound == {"note", "poll", "launch", "attend", "collect", "check"}
Proving == {"live", "hold", "missing"}

\* What is known of the store at each point of the proof.
TrustSoFar ==
    /\ Is("tls") /\ pc \in {"verify", "spawn"} \cup InRound => Supported(store)
    /\ Is("tls") /\ pc \in {"spawn"} \cup InRound => "archive" \in Shipped
    /\ Is("tls") /\ pc \in InRound /\ status = "expected" => "fixture" \notin Shipped
    /\ pc \in Proving =>
          Is("tls") /\ Supported(store) /\ "archive" \in Shipped /\ "fixture" \notin Shipped
    /\ held => pc = "missing" \/ verdict \in {"failed", "signal in the gap"}
    /\ pc \notin Cleaning => verdict = "none"
    /\ TrustProven

LEMMA TrustStep == TrustSoFar /\ [Next]_vars => TrustSoFar'
<1> SUFFICES ASSUME TrustSoFar, [Next]_vars PROVE TrustSoFar'
  OBVIOUS
<1> USE DEF TrustSoFar, TrustProven, Shipped, Supported, Is, InRound, Proving, Cleaning
<1>1. CASE Others
  <2>1. UNCHANGED <<pc, round, verdict, store, held>>
    BY <1>1, OthersKeepScript DEF script, trust
  <2>2. pc \in InRound /\ Is("tls") /\ status' = "expected" =>
           status = "expected" \/ "fixture" \notin Shipped
    <3>1. CASE ClientExits
      BY <3>1 DEF ClientExits, Verifies
    <3>2. CASE ~ClientExits
      BY <1>1, <3>2 DEF Others, Server, Boot, OpenReady, WriteReady, Accept, Answer,
                        ReceiveFails, Report, Go, Connect, Ended, vars, running
    <3> QED BY <3>1, <3>2
  <2> QED BY <2>1, <2>2
<1>2. CASE Interrupt
  BY <1>2 DEF Interrupt, Leave, running, trust
<1>3. CASE Spawn
  BY <1>3 DEF Spawn, trust
<1>4. CASE Note \/ Poll \/ Launch \/ Attend
  <2>1. CASE Note
    BY <2>1 DEF Note, running, trust
  <2>2. CASE Poll
    BY <2>2 DEF Poll, Leave, running, trust
  <2>3. CASE Launch
    BY <2>3 DEF Launch, trust
  <2>4. CASE Attend
    BY <2>4 DEF Attend, running, trust
  <2> QED BY <1>4, <2>1, <2>2, <2>3, <2>4
<1>5. CASE Collect
  BY <1>5 DEF Collect, Leave, running, trust
<1>6. CASE Check
  <2>1. CASE Good /\ Is("bridge") /\ Proceed
    BY <1>6, <2>1 DEF Check, Proceed, Entry, Leave, running, trust
  <2>2. CASE Good /\ Is("tls") /\ pc' = "live" /\ UNCHANGED <<round, verdict>>
    BY <1>6, <2>2 DEF Check, Good, running, trust
  <2>3. CASE ~Good /\ Leave("failed") /\ UNCHANGED round
    BY <1>6, <2>3 DEF Check, Leave, running, trust
  <2> QED BY <1>6, <2>1, <2>2, <2>3 DEF Check
<1>7. CASE Support
  BY <1>7 DEF Support, Pass, Leave, running
<1>8. CASE Verify
  BY <1>8 DEF Verify, Pass, Leave, Verifies, running, trust
<1>9. CASE Live
  BY <1>9 DEF Live, Pass, Leave, running, trust
<1>10. CASE Hold
  BY <1>10 DEF Hold, Pass, running
<1>11. CASE Missing
  <2>1. CASE Leave("failed") /\ UNCHANGED round
    BY <1>11, <2>1 DEF Missing, Leave, running
  <2>2. CASE Proceed
    BY <1>11, <2>2 DEF Missing, Proceed, Entry, Leave, running
  <2> QED BY <1>11, <2>1, <2>2 DEF Missing
<1>12. CASE CleanKill \/ CleanReap \/ CleanRemove
  <2>1. /\ pc \in Cleaning /\ pc' \in Cleaning
        /\ UNCHANGED <<round, verdict, store, held>>
    BY <1>12 DEF CleanKill, CleanReap, CleanRemove, trust
  <2> QED BY <2>1
<1> QED
  BY <1>1, <1>2, <1>3, <1>4, <1>5, <1>6, <1>7, <1>8, <1>9, <1>10, <1>11, <1>12, Steps
     DEF Script

\* A smoke test that passes a TLS plan has found a supported store that vouches for
\* the archive and not for the fixture, and has left the CA bundle where it was.
THEOREM PassMeansTrusted == Spec => []TrustProven
<1>1. Init => TrustSoFar
  BY DEF Init, TrustSoFar, TrustProven, Entry, Is, InRound, Proving, Cleaning
<1>2. TrustSoFar => TrustProven
  BY DEF TrustSoFar
<1> QED BY <1>1, <1>2, TrustStep, PTL DEF Spec

-----------------------------------------------------------------------------
(* Rounds                                                                  *)

Methods == IF right THEN "right" ELSE "wrong"

\* What is known of the server and the client of a round while it lasts.
RoundSoFar ==
    pc \in InRound =>
        /\ server = "report" => served = Plan[round].count
        /\ server = "done" => served = Plan[round].count /\ report = Methods
        /\ pc \in {"note", "poll", "launch"} =>
              client = "none" /\ status = "none" /\ server # "receive"
        /\ Is("tls") /\ (client = "connected" \/ status = "expected") => port
        /\ pc = "check" => server \notin Alive /\ (Is("bridge") => server = "done")

LEMMA RoundStep == RoundSoFar /\ [Next]_vars => RoundSoFar'
<1> SUFFICES ASSUME RoundSoFar, [Next]_vars PROVE RoundSoFar'
  OBVIOUS
<1> USE DEF RoundSoFar, Methods, InRound, Is, Alive, Listening
<1>1. CASE Others
  <2>1. UNCHANGED <<pc, round>>
    BY <1>1, OthersKeepScript DEF script
  <2>2. CASE Server
    <3>1. CASE Boot \/ OpenReady \/ WriteReady
      BY <2>1, <3>1 DEF Boot, OpenReady, WriteReady, Go, running
    <3>2. CASE Accept \/ ReceiveFails
      BY <2>1, <3>2 DEF Accept, ReceiveFails, Go, running
    <3>3. CASE Answer
      BY <2>1, <3>3 DEF Answer
    <3>4. CASE Report
      <4>1. server = "report" /\ UNCHANGED <<served, client, status, port>>
        BY <3>4 DEF Report, Go, running
      <4>2. server' = "failed" \/ (server' = "done" /\ report' = Methods')
        BY <3>4 DEF Report, Go
      <4> HIDE DEF Methods
      <4> QED BY <2>1, <4>1, <4>2
    <3> QED BY <2>2, <3>1, <3>2, <3>3, <3>4 DEF Server
  <2>3. CASE Connect
    BY <2>1, <2>3 DEF Connect, serving
  <2>4. CASE ClientExits
    BY <2>1, <2>4 DEF ClientExits, serving
  <2>5. CASE UNCHANGED vars
    BY <2>5 DEF vars
  <2> QED BY <1>1, <2>2, <2>3, <2>4, <2>5 DEF Others, Ended
<1>2. CASE Spawn
  BY <1>2 DEF Spawn
<1>3. CASE Note \/ Poll
  BY <1>3 DEF Note, Poll, Leave, serving, running
<1>4. CASE Launch
  BY <1>4 DEF Launch, serving
<1>5. CASE Attend
  BY <1>5 DEF Attend, serving, running
<1>6. CASE Collect
  BY <1>6 DEF Collect, Leave, running
<1>7. pc' \notin InRound \/ ~(\/ Interrupt \/ Check \/ Support \/ Verify \/ Live \/ Hold \/ Missing
                             \/ CleanKill \/ CleanReap \/ CleanRemove)
  BY DEF Interrupt, Check, Support, Verify, Live, Hold, Missing, CleanKill, CleanReap, CleanRemove,
         Pass, Proceed, Leave, Entry
<1> QED
  BY <1>1, <1>2, <1>3, <1>4, <1>5, <1>6, <1>7, Steps DEF Script

\* No round is judged before its server has ended, for any plan and any interleaving,
\* and no TLS client passes that was not given the port.
THEOREM JudgedAfterEnd == Spec => []CheckedAfterEnd
<1>1. Init => RoundSoFar
  BY DEF Init, RoundSoFar, InRound, Entry
<1>2. RoundSoFar => CheckedAfterEnd
  BY DEF RoundSoFar, CheckedAfterEnd, InRound, Good, Is, Methods
<1> QED BY <1>1, <1>2, RoundStep, PTL DEF Spec

-----------------------------------------------------------------------------
(* Types                                                                   *)

Points == {"spawn", "note", "poll", "launch", "attend", "collect", "check",
           "support", "verify", "live", "hold", "missing", "kill", "reap", "remove", "ended"}
Verdicts == {"none", "passed", "failed", "signal in the gap"}
Stages == Alive \cup {"none", "done", "failed"}
Reports == {"absent", "right", "wrong"}

\* TypeOK, by who has the variables.
ScriptTypes ==
    /\ pc \in Points /\ round \in DOMAIN Plan /\ tries \in 0..MaxTries
    /\ known \in BOOLEAN /\ dir \in BOOLEAN /\ verdict \in Verdicts
ServingTypes ==
    /\ server \in Stages /\ ready \in {"absent", "empty", "written"}
    /\ served \in Nat /\ right \in BOOLEAN /\ report \in Reports
RunningTypes ==
    /\ client \in {"none", "running", "connected", "left", "gone"}
    /\ status \in {"none", "zero", "expected", "other"} /\ port \in BOOLEAN
TrustTypes == store \in Store \cup {None} /\ held \in BOOLEAN

LEMMA TypeParts == TypeOK <=> ScriptTypes /\ ServingTypes /\ RunningTypes /\ TrustTypes
BY DEF TypeOK, ScriptTypes, ServingTypes, RunningTypes, TrustTypes, Points, Verdicts, Stages,
       Reports

LEMMA Untouched ==
    /\ ServingTypes /\ UNCHANGED serving => ServingTypes'
    /\ RunningTypes /\ UNCHANGED running => RunningTypes'
    /\ TrustTypes /\ UNCHANGED trust => TrustTypes'
    /\ ScriptTypes /\ UNCHANGED script => ScriptTypes'
BY DEF serving, running, trust, script, ScriptTypes, ServingTypes, RunningTypes, TrustTypes

LEMMA PlanLength == Len(Plan) \in Nat \ {0} /\ DOMAIN Plan = 1..Len(Plan)
<1>1. Plan \in Seq([server : {"bridge", "tls"}, count : Nat \ {0}]) /\ Plan # <<>>
  BY SmokeAssumption
<1> QED BY <1>1

\* What the script changes in one step.
LEMMA ScriptKeepsTypes ==
    ASSUME ScriptTypes, ServingTypes, RunningTypes, TrustTypes, Script \/ Interrupt
    PROVE  ScriptTypes' /\ ServingTypes' /\ RunningTypes' /\ TrustTypes'
<1>1. CASE Spawn
  <2>1. ScriptTypes'
    BY <1>1, SmokeAssumption DEF Spawn, ScriptTypes, Points
  <2>2. ServingTypes' /\ RunningTypes'
    BY <1>1 DEF Spawn, ServingTypes, RunningTypes, Stages, Alive, Reports
  <2> QED BY <1>1, <2>1, <2>2, Untouched DEF Spawn
<1>2. CASE Note \/ Poll \/ Attend
  <2>1. ScriptTypes'
    <3>1. CASE Note \/ Attend
      BY <3>1 DEF Note, Attend, ScriptTypes, Points
    <3>2. CASE Poll
      <4>1. /\ UNCHANGED <<round, known, dir>> /\ pc' \in {"poll", "launch", "kill"}
            /\ verdict' = verdict \/ verdict' = "failed"
        BY <3>2 DEF Poll, Leave
      <4>2. tries' \in 0..MaxTries
        BY <3>2, SmokeAssumption DEF Poll, ScriptTypes
      <4> QED BY <4>1, <4>2 DEF ScriptTypes, Points, Verdicts
    <3> QED BY <1>2, <3>1, <3>2
  <2> QED BY <1>2, <2>1, Untouched DEF Note, Poll, Attend
<1>3. CASE Launch
  <2>1. ScriptTypes'
    BY <1>3 DEF Launch, ScriptTypes, Points
  <2>2. RunningTypes'
    BY <1>3 DEF Launch, RunningTypes
  <2> QED BY <1>3, <2>1, <2>2, Untouched DEF Launch
<1>4. CASE Collect
  <2>1. ScriptTypes'
    BY <1>4 DEF Collect, Leave, ScriptTypes, Points, Verdicts
  <2>2. ServingTypes'
    BY <1>4 DEF Collect, ServingTypes, Stages, Alive
  <2> QED BY <1>4, <2>1, <2>2, Untouched DEF Collect
<1>5. CASE Check \/ Missing
  <2>1. UNCHANGED <<tries, known, dir, serving, running, store>> /\ (held' = held \/ held' = FALSE)
    BY <1>5 DEF Check, Missing, trust
  <2>2. \/ Proceed
        \/ pc' = "live" /\ UNCHANGED <<round, verdict>>
        \/ Leave("failed") /\ UNCHANGED round
    BY <1>5 DEF Check, Missing
  <2>3. pc' \in Points
    BY <2>2 DEF Proceed, Leave, Entry, Points
  <2>4. round' \in DOMAIN Plan /\ verdict' \in Verdicts
    <3>1. round \in DOMAIN Plan /\ verdict \in Verdicts
      BY DEF ScriptTypes
    <3>2. CASE Proceed
      <4>1. \/ round < Len(Plan) /\ round' = round + 1 /\ verdict' = verdict
            \/ round' = round /\ verdict' = "passed"
        BY <3>2 DEF Proceed, Leave
      <4>2. round' \in DOMAIN Plan
        BY <3>1, <4>1, PlanLength
      <4> QED BY <3>1, <4>1, <4>2 DEF Verdicts
    <3> QED BY <2>2, <3>1, <3>2 DEF Leave, Verdicts
  <2>5. ScriptTypes'
    BY <2>1, <2>3, <2>4 DEF ScriptTypes
  <2>6. TrustTypes'
    BY <2>1 DEF TrustTypes
  <2> QED BY <2>1, <2>5, <2>6, Untouched
<1>6. CASE Support \/ Verify \/ Live \/ Hold
  <2>1. /\ UNCHANGED <<round, tries, known, dir, serving, running>>
        /\ (held' = held \/ held' = TRUE) /\ (store' = store \/ store' \in Store)
    BY <1>6 DEF Support, Verify, Live, Hold, Pass, trust
  <2>2. /\ pc' \in {"verify", "spawn", "hold", "missing", "kill"}
        /\ verdict' = verdict \/ verdict' = "failed"
    BY <1>6 DEF Support, Verify, Live, Hold, Pass, Leave
  <2>3. ScriptTypes'
    BY <2>1, <2>2 DEF ScriptTypes, Points, Verdicts
  <2>4. TrustTypes'
    BY <2>1 DEF TrustTypes
  <2> QED BY <2>1, <2>3, <2>4, Untouched
<1>7. CASE CleanKill \/ CleanReap
  <2>1. ScriptTypes'
    BY <1>7 DEF CleanKill, CleanReap, ScriptTypes, Points
  <2>2. ServingTypes'
    BY <1>7 DEF CleanKill, CleanReap, ServingTypes, Stages, serving
  <2> QED BY <1>7, <2>1, <2>2, Untouched DEF CleanKill, CleanReap
<1>8. CASE CleanRemove
  <2>1. ScriptTypes'
    BY <1>8 DEF CleanRemove, ScriptTypes, Points
  <2>2. ServingTypes'
    BY <1>8 DEF CleanRemove, ServingTypes, Reports
  <2> QED BY <1>8, <2>1, <2>2, Untouched DEF CleanRemove
<1>9. CASE Interrupt
  <2>1. ScriptTypes'
    BY <1>9 DEF Interrupt, Leave, ScriptTypes, Points, Verdicts
  <2> QED BY <1>9, <2>1, Untouched DEF Interrupt
<1> QED BY <1>1, <1>2, <1>3, <1>4, <1>5, <1>6, <1>7, <1>8, <1>9 DEF Script

LEMMA OthersKeepTypes ==
    ASSUME ScriptTypes, ServingTypes, RunningTypes, TrustTypes, Others
    PROVE  ScriptTypes' /\ ServingTypes' /\ RunningTypes' /\ TrustTypes'
<1>1. ScriptTypes' /\ TrustTypes'
  BY OthersKeepScript, Untouched
<1>2. CASE Boot \/ OpenReady \/ WriteReady \/ Accept \/ ReceiveFails \/ Report
  <2>1. ServingTypes'
    BY <1>2 DEF Boot, OpenReady, WriteReady, Accept, ReceiveFails, Report, Go, ServingTypes, Stages,
                Alive, Listening, Reports
  <2> QED BY <1>1, <1>2, <2>1, Untouched
             DEF Boot, OpenReady, WriteReady, Accept, ReceiveFails, Report, Go
<1>3. CASE Answer
  <2>1. ServingTypes'
    <3>1. server' \in {"report", "accept"} /\ UNCHANGED <<ready, report>>
      BY <1>3 DEF Answer
    <3>2. served' \in Nat /\ right' \in BOOLEAN
      <4>1. served' = served + 1 /\ right' \in {right, FALSE}
        BY <1>3 DEF Answer
      <4>2. right' \in BOOLEAN
        BY <4>1, Zenon DEF ServingTypes
      <4> QED BY <4>1, <4>2 DEF ServingTypes
    <3> QED BY <3>1, <3>2 DEF ServingTypes, Stages, Alive, Listening
  <2>2. RunningTypes'
    BY <1>3 DEF Answer, RunningTypes
  <2> QED BY <1>1, <2>1, <2>2
<1>4. CASE Connect \/ ClientExits
  <2>1. RunningTypes'
    BY <1>4 DEF Connect, ClientExits, RunningTypes
  <2> QED BY <1>1, <1>4, <2>1, Untouched DEF Connect, ClientExits
<1>5. CASE UNCHANGED vars
  BY <1>1, <1>5, Untouched DEF vars, serving, running
<1> QED BY <1>2, <1>3, <1>4, <1>5 DEF Others, Server, Ended

\* Script, servers and clients keep to their states, for any plan of rounds.
THEOREM SmokeTypes == Spec => []TypeOK
<1>1. Init => TypeOK
  <2> SUFFICES ASSUME Init PROVE TypeOK
    OBVIOUS
  <2>1. ScriptTypes
    <3>1. 1 \in DOMAIN Plan /\ 0 \in 0..MaxTries
      BY PlanLength, SmokeAssumption
    <3> QED BY <3>1 DEF Init, ScriptTypes, Entry, Points, Verdicts
  <2>2. ServingTypes /\ RunningTypes /\ TrustTypes
    BY DEF Init, ServingTypes, RunningTypes, TrustTypes, Stages, Reports
  <2> QED BY <2>1, <2>2, TypeParts
<1>2. TypeOK /\ [Next]_vars => TypeOK'
  <2> SUFFICES ASSUME TypeOK, [Next]_vars PROVE TypeOK'
    OBVIOUS
  <2>1. ScriptTypes' /\ ServingTypes' /\ RunningTypes' /\ TrustTypes'
    BY TypeParts, Steps, ScriptKeepsTypes, OthersKeepTypes
  <2> QED BY <2>1, TypeParts DEF TypeOK, ScriptTypes, ServingTypes, RunningTypes, TrustTypes,
                                 Points, Verdicts, Stages, Reports
<1> QED BY <1>1, <1>2, PTL DEF Spec

-----------------------------------------------------------------------------
(* That a smoke test ends                                                  *)

\* Where a server is at each point of the script, and that it never answers more than
\* the requests of its round.
ServersFit ==
    /\ server \in Alive \ {"report", "serve"} => served < Plan[round].count
    /\ pc \in {"support", "verify", "spawn", "check", "live", "hold", "missing", "reap"} =>
          server \notin Alive
    /\ pc \in {"note", "poll", "launch", "attend", "collect"} =>
          server # "none" /\ (server = "serve" => Is("tls"))
    /\ pc = "attend" => client # "none"

LEMMA PlanCounts ==
    ASSUME NEW i \in DOMAIN Plan
    PROVE  Plan[i].count \in Nat \ {0} /\ Plan[i].server \in {"bridge", "tls"}
<1> DEFINE Round == [server : {"bridge", "tls"}, count : Nat \ {0}]
<1>1. Plan \in Seq(Round)
  BY SmokeAssumption
<1> HIDE DEF Round
<1>2. Plan[i] \in Round
  BY <1>1, PlanLength
<1> QED BY <1>2 DEF Round

LEMMA FitStep == ASSUME TypeOK, ServersFit, [Next]_vars PROVE ServersFit'
<1> USE DEF ServersFit, Alive, Listening
<1>1. round \in DOMAIN Plan /\ served \in Nat
  BY DEF TypeOK
<1>2. Plan[round].count \in Nat \ {0} /\ Plan[round].server \in {"bridge", "tls"}
  BY <1>1, PlanCounts
<1>3. CASE Others
  <2>1. UNCHANGED <<pc, round>> /\ Is("tls")' = Is("tls")
    BY <1>3, OthersKeepScript DEF script, Is
  <2>2. CASE Boot \/ OpenReady \/ WriteReady \/ Accept \/ ReceiveFails \/ Report
    BY <2>1, <2>2 DEF Boot, OpenReady, WriteReady, Accept, ReceiveFails, Report, Go, running
  <2>3. CASE Answer
    <3>1. /\ server = "receive" /\ served' = served + 1
          /\ server' = IF served' = Plan[round].count THEN "report" ELSE "accept"
          /\ client' # "none"
      BY <2>3 DEF Answer
    <3>2. server' = "accept" => served' < Plan[round].count
      BY <1>1, <1>2, <3>1
    <3> QED BY <2>1, <3>1, <3>2
  <2>4. CASE Connect \/ ClientExits
    BY <2>1, <2>4 DEF Connect, ClientExits, serving
  <2>5. CASE UNCHANGED vars
    BY <2>5, <2>1 DEF vars
  <2> QED BY <1>3, <2>2, <2>3, <2>4, <2>5 DEF Others, Server, Ended
<1>4. CASE Spawn
  BY <1>2, <1>4 DEF Spawn, Is
<1>5. CASE Note \/ Poll \/ Attend
  BY <1>5 DEF Note, Poll, Attend, Leave, serving, running, Is
<1>6. CASE Launch
  BY <1>6 DEF Launch, serving, Is
<1>7. CASE Collect
  BY <1>7 DEF Collect, Leave, running, Is
<1>8. CASE Check \/ Missing
  <2>1. /\ server \notin Alive /\ server' = server
        /\ pc' \in {"support", "spawn", "live", "kill"}
    BY <1>8 DEF Check, Missing, Proceed, Leave, Entry, serving
  <2> QED BY <2>1
<1>9. CASE Support \/ Verify \/ Live \/ Hold
  <2>1. /\ server \notin Alive /\ server' = server
        /\ pc' \in {"verify", "spawn", "hold", "missing", "kill"}
    BY <1>9 DEF Support, Verify, Live, Hold, Pass, Leave, serving
  <2> QED BY <2>1
<1>10. CASE CleanKill
  BY <1>10 DEF CleanKill
<1>11. CASE CleanReap \/ CleanRemove
  BY <1>11 DEF CleanReap, CleanRemove, serving
<1>12. CASE Interrupt
  BY <1>12 DEF Interrupt, Leave, serving
<1> QED
  BY <1>3, <1>4, <1>5, <1>6, <1>7, <1>8, <1>9, <1>10, <1>11, <1>12, Steps DEF Script

THEOREM ServersKeepFit == Spec => [](TypeOK /\ ServersFit)
<1>1. Init => ServersFit
  BY DEF Init, ServersFit, Entry, Alive, Listening
<1>2. ServersFit /\ TypeOK /\ [Next]_vars => ServersFit'
  BY FitStep
<1> QED BY <1>1, <1>2, SmokeTypes, PTL DEF Spec

\* For any plan: as long as not all has ended, the script can go on, or a server or a
\* client that it waits for.
LEMMA WaitsEnd == TypeOK /\ ServersFit => WaitsAreServed
<1> SUFFICES ASSUME TypeOK, ServersFit, ~ScriptCan, ~ServerCan, ~ClientCan PROVE AllEnded
  BY DEF WaitsAreServed
<1>1. client \in {"none", "left", "gone"}
  BY DEF TypeOK, ClientCan
<1>2. server \in {"none", "done", "failed", "serve"}
  BY DEF TypeOK, ServerCan
<1>3. pc # "attend"
  BY <1>1 DEF ScriptCan, ServersFit
<1>4. pc # "collect"
  BY <1>2 DEF ScriptCan, ServersFit
<1>5. pc # "reap"
  BY DEF ScriptCan, ServersFit
<1>6. pc = "ended"
  BY <1>3, <1>4, <1>5 DEF ScriptCan
<1> QED BY <1>1, <1>6 DEF AllEnded, ServerCan

LEMMA CourseIs ==
    /\ DOMAIN Course = 1..16
    /\ Course[1] = "support" /\ Course[2] = "verify" /\ Course[3] = "spawn"
    /\ Course[4] = "note" /\ Course[5] = "poll" /\ Course[6] = "launch"
    /\ Course[7] = "attend" /\ Course[8] = "collect" /\ Course[9] = "check"
    /\ Course[10] = "live" /\ Course[11] = "hold" /\ Course[12] = "missing"
    /\ Course[13] = "kill" /\ Course[14] = "reap" /\ Course[15] = "remove"
    /\ Course[16] = "ended"
BY DEF Course

\* The script goes on along the course, or to another round.
LEMMA ScriptDescends ==
    ASSUME TypeOK, Script \/ Interrupt, ~Poll
    PROVE  \/ round' > round /\ round' <= Len(Plan)
           \/ round' = round /\ Later(pc, pc')
<1>1. \A i, j \in 1..16 : i < j => Later(Course[i], Course[j])
  BY CourseIs DEF Later
<1>2. ASSUME pc \notin {"kill", "reap", "remove", "ended"} PROVE Later(pc, "kill")
  <2>1. \E i \in 1..12 : pc = Course[i]
    BY <1>2, CourseIs, TypeParts DEF ScriptTypes, Points
  <2> QED BY <1>1, <2>1, CourseIs
<1>3. CASE Interrupt
  <2>1. pc \notin {"kill", "reap", "remove", "ended"}
    BY <1>3 DEF Interrupt
  <2> QED BY <1>2, <1>3, <2>1 DEF Interrupt, Leave
<1>4. CASE Spawn \/ Note \/ Launch \/ Attend \/ Collect
  BY <1>1, <1>4, CourseIs DEF Spawn, Note, Launch, Attend, Collect, Leave
<1>5. CASE Check \/ Missing
  <2>1. pc \in {"check", "missing"}
    BY <1>5 DEF Check, Missing
  <2>2. Later(pc, "kill") /\ Later("check", "live")
    BY <1>1, <2>1, CourseIs
  <2>3. \/ Proceed
        \/ pc = "check" /\ pc' = "live" /\ round' = round
        \/ pc' = "kill" /\ round' = round
    BY <1>5 DEF Check, Missing, Leave
  <2>4. CASE Proceed
    <3>1. \/ round < Len(Plan) /\ round' = round + 1
          \/ pc' = "kill" /\ round' = round
      BY <2>4 DEF Proceed, Leave
    <3>2. round \in Nat /\ Len(Plan) \in Nat
      BY PlanLength, TypeParts DEF ScriptTypes
    <3> QED BY <2>2, <3>1, <3>2
  <2> QED BY <2>2, <2>3, <2>4
<1>6. CASE Support \/ Verify \/ Live \/ Hold
  <2>1. round' = round
    BY <1>6 DEF Support, Verify, Live, Hold, Pass
  <2>2. \/ pc' = "kill" /\ pc \in {"support", "verify", "live", "hold"}
        \/ <<pc, pc'>> \in {<<"support", "verify">>, <<"verify", "spawn">>, <<"live", "hold">>,
                            <<"hold", "missing">>}
    BY <1>6 DEF Support, Verify, Live, Hold, Pass, Leave
  <2> QED BY <1>1, <2>1, <2>2, CourseIs
<1>7. CASE CleanKill \/ CleanReap \/ CleanRemove
  BY <1>1, <1>7, CourseIs DEF CleanKill, CleanReap, CleanRemove
<1> QED BY <1>3, <1>4, <1>5, <1>6, <1>7 DEF Script

LEMMA ServerDescends ==
    ASSUME TypeOK, ServersFit, Server
    PROVE  UNCHANGED <<round, pc, tries>> /\ ServerAhead' \in 0..(ServerAhead - 1)
<1>1. UNCHANGED <<round, pc, tries>>
  BY OthersKeepScript DEF Others, script
<1> DEFINE count == Plan[round].count
<1>2. count \in Nat \ {0} /\ served \in Nat /\ count' = count
  BY <1>1, PlanCounts DEF TypeOK
<1>3. server \in Alive \ {"report", "serve"} => served < count
  BY DEF ServersFit
<1> HIDE DEF count
<1>4. /\ server = "boot" => ServerAhead = 2 * (count - served) + 5
      /\ server = "open" => ServerAhead = 2 * (count - served) + 4
      /\ server = "write" => ServerAhead = 2 * (count - served) + 3
      /\ server = "accept" => ServerAhead = 2 * (count - served) + 2
      /\ server = "receive" => ServerAhead = 2 * (count - served) + 1
      /\ server = "report" => ServerAhead = 1
      /\ server \in {"serve", "done", "failed"} => ServerAhead = 0
  BY DEF ServerAhead, StageAhead, count
<1>5. (/\ server = "accept" => ServerAhead = 2 * (count - served) + 2
       /\ server = "open" => ServerAhead = 2 * (count - served) + 4
       /\ server = "write" => ServerAhead = 2 * (count - served) + 3
       /\ server = "receive" => ServerAhead = 2 * (count - served) + 1
       /\ server = "report" => ServerAhead = 1
       /\ server \in {"serve", "done", "failed"} => ServerAhead = 0)'
  BY <1>2 DEF ServerAhead, StageAhead, count
<1> USE <1>1, <1>2, <1>3, <1>4, <1>5 DEF Alive, Listening
<1>6. CASE Boot
  BY <1>6 DEF Boot, Go
<1>7. CASE OpenReady
  BY <1>7 DEF OpenReady, Go
<1>8. CASE WriteReady
  BY <1>8 DEF WriteReady, Go
<1>9. CASE Accept
  BY <1>9 DEF Accept, Go
<1>10. CASE ReceiveFails
  BY <1>10 DEF ReceiveFails, Go
<1>11. CASE Answer
  <2>1. server = "receive" /\ served' = served + 1 /\ served < count
    BY <1>11 DEF Answer
  <2>2. \/ server' = "report"
        \/ server' = "accept" /\ served' # count
    BY <1>11 DEF Answer, count
  <2> QED BY <2>1, <2>2
<1>12. CASE Report
  BY <1>12 DEF Report, Go
<1> QED BY <1>1, <1>6, <1>7, <1>8, <1>9, <1>10, <1>11, <1>12 DEF Server

\* A smoke test takes finitely many steps and never waits for what cannot come, for any
\* plan, clients and servers.
THEOREM SmokesProceed == Spec => SmokeProceeds
<1>1. ASSUME TypeOK, ServersFit, [Next]_vars PROVE [SmokeGetsOn]_vars
  <2> USE DEF SmokeGetsOn
  <2>1. CASE (Script \/ Interrupt) /\ ~Poll
    BY <1>1, <2>1, ScriptDescends
  <2>2. CASE Poll
    <3>1. tries \in Nat /\ tries <= MaxTries /\ MaxTries \in Nat
      BY <1>1, SmokeAssumption, TypeParts DEF ScriptTypes
    <3>2. \/ pc' = "launch" \/ pc' = "kill"
          \/ pc' = pc /\ tries < MaxTries /\ tries' = tries + 1
      BY <2>2 DEF Poll, Leave
    <3>3. pc = "poll" /\ round' = round
      BY <2>2 DEF Poll
    <3>4. Later("poll", "launch") /\ Later("poll", "kill")
      BY CourseIs DEF Later
    <3> QED BY <3>1, <3>2, <3>3, <3>4
  <2>3. CASE Server
    BY <1>1, <2>3, ServerDescends
  <2>4. CASE Connect \/ ClientExits
    BY <2>4 DEF Connect, ClientExits, ClientAhead, script, serving
  <2> QED BY <1>1, <2>1, <2>2, <2>3, <2>4, Steps DEF Others, Ended
<1>2. (TypeOK /\ ServersFit => WaitsAreServed)'
  BY WaitsEnd, PTL
<1>3. TypeOK /\ ServersFit /\ TypeOK' /\ ServersFit' /\ [Next]_vars
        => [SmokeGetsOn /\ WaitsAreServed']_vars
  BY <1>1, <1>2
<1> QED BY <1>3, ServersKeepFit, PTL DEF Spec, SmokeProceeds
=============================================================================
