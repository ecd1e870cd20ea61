---------------------------- MODULE ReloadProofs ----------------------------
(* Reloads, for every value of the constants: no request of a SIGHUP is lost   *)
(* between the reconfigure thread and the update thread (UpdateController),    *)
(* what a reload imports from the back-ends is complete and its snapshots are  *)
(* released (Backends), and it has room in the map (Autosize).                 *)
EXTENDS UpdateController, SequenceTheorems, FiniteSetTheorems, TLAPS

(* What makes the two properties inductive: nobody is ahead of the disk.       *)
Versioned ==
    /\ parsed <= disk /\ conf <= disk
    /\ TrustReloadPending /\ RuleReloadPending

IInv == TypeOK /\ Versioned

LEMMA InitIInv == Init => IInv
<1> SUFFICES ASSUME Init PROVE IInv
  OBVIOUS
<1>1. 0 \in Versions /\ 0 \in 0 .. MaxCommands
  BY BoundsAssumption DEF Versions
<1>2. fifo \in Seq(Command) /\ Len(fifo) <= sent
  BY DEF Init
<1>3. TypeOK
  BY <1>1, <1>2 DEF Init, TypeOK
<1>4. Versioned
  BY DEF Init, Versioned, TrustReloadPending, RuleReloadPending
<1> QED
  BY <1>3, <1>4 DEF IInv

(* Each action keeps the types.                                                *)
LEMMA TypeStep == IInv /\ [Next]_vars => TypeOK'
<1> SUFFICES ASSUME IInv, [Next]_vars PROVE TypeOK'
  OBVIOUS
<1> USE BoundsAssumption DEF IInv, TypeOK, Versions
<1>1. CASE Edit
  BY <1>1 DEF Edit, requests, pipe, updater
<1>2. CASE Sighup
  BY <1>2 DEF Sighup, pipe, updater
<1>3. ASSUME NEW op \in Commands, Send(op) PROVE TypeOK'
  <2>1. [op |-> op, version |-> disk] \in Command
    BY DEF Command
  <2>2. fifo' \in Seq(Command) /\ Len(fifo') = Len(fifo) + 1
    BY <1>3, <2>1 DEF Send
  <2> QED
    BY <1>3, <2>2 DEF Send, requests, updater
<1>4. CASE Stop
  BY <1>4 DEF Stop, requests, pipe, updater
<1>5. CASE TakeHup
  BY <1>5 DEF TakeHup, pipe, updater
<1>6. CASE Reconfigure
  <2>1. CASE Parse
    BY <2>1 DEF Parse, pipe, updater
  <2>5. CASE ParseFailed
    BY <2>5 DEF ParseFailed, pipe, updater
  <2>2. CASE Apply
    BY <2>2 DEF Apply, pipe, updater
  <2>3. CASE SetReloadRules
    BY <2>3 DEF SetReloadRules, pipe, updater
  <2>6. CASE SetReloadDb
    BY <2>6 DEF SetReloadDb, pipe, updater
  <2>4. CASE ReconfStopped
    BY <2>4 DEF ReconfStopped, pipe, updater
  <2> QED
    BY <1>6, <2>1, <2>2, <2>3, <2>4, <2>5, <2>6 DEF Reconfigure
<1>7. CASE Update
  <2>0. CASE Poll
    <3>1. pollin' \in BOOLEAN
      BY <2>0, Zenon DEF Poll
    <3> QED
      BY <2>0, <3>1 DEF Poll, requests, pipe
  <2>1. CASE TestRules
    BY <2>1 DEF TestRules, requests, pipe
  <2>10. CASE ReadRules
    BY <2>10 DEF ReadRules, requests, pipe
  <2>11. CASE EndCycle
    BY <2>11 DEF EndCycle, requests, pipe
  <2>12. CASE UpdateExit
    BY <2>12 DEF UpdateExit, requests, pipe
  <2>2. CASE TestDb
    BY <2>2 DEF TestDb, BeginReload, requests, pipe
  <2>3. CASE BackendInit
    BY <2>3 DEF BackendInit, requests, pipe
  <2>13. CASE BackendLoad
    BY <2>13 DEF BackendLoad, requests, pipe
  <2>14. CASE ReloadFailed
    BY <2>14 DEF ReloadFailed, requests, pipe
  <2>4. ASSUME NEW op \in Commands, NextCommand(op)
        PROVE  fifo' \in Seq(Command) /\ sent' = sent /\ Len(fifo') <= sent
    BY <2>4 DEF NextCommand
  <2>5. CASE FifoReloadDropped
    BY <2>4, <2>5 DEF FifoReloadDropped, Commands, requests, updater
  <2>6. CASE FifoReload
    BY <2>4, <2>6 DEF FifoReload, BeginReload, Commands, requests
  <2>7. CASE FifoRules
    BY <2>4, <2>7 DEF FifoRules, Commands, requests
  <2>8. CASE FifoCompact
    BY <2>4, <2>8 DEF FifoCompact, Commands, requests
  <2>9. CASE FifoOther
    BY <2>4, <2>9 DEF FifoOther, Commands, requests, updater
  <2> QED
    BY <1>7, <2>0, <2>1, <2>2, <2>3, <2>5, <2>6, <2>7, <2>8, <2>9, <2>10,
       <2>11, <2>12, <2>13, <2>14
    DEF Update
<1>8. CASE UNCHANGED vars
  BY <1>8 DEF vars, requests, pipe, updater
<1> QED
  BY <1>1, <1>2, <1>3, <1>4, <1>5, <1>6, <1>7, <1>8 DEF Next

(* Each action keeps the requests.  The three that matter are Apply, which     *)
(* makes the configuration newer than what the reloads have read and owes both *)
(* requests; BeginReload, which takes the request down before the backends     *)
(* read the configuration; and ReadRules, which reads at least what a          *)
(* reconfigure thread has parsed.                                              *)
LEMMA VersionedStep == IInv /\ [Next]_vars => Versioned'
<1> SUFFICES ASSUME IInv, [Next]_vars PROVE Versioned'
  OBVIOUS
<1> USE DEF IInv, TypeOK, Versions, Versioned, TrustReloadPending,
            RuleReloadPending
<1>1. CASE Edit
  BY <1>1 DEF Edit, requests, pipe, updater
<1>2. CASE Sighup
  BY <1>2 DEF Sighup, pipe, updater
<1>3. ASSUME NEW op \in Commands, Send(op) PROVE Versioned'
  BY <1>3 DEF Send, requests, updater
<1>4. CASE Stop
  BY <1>4 DEF Stop, requests, pipe, updater
<1>5. CASE TakeHup
  BY <1>5 DEF TakeHup, pipe, updater
<1>6. CASE Reconfigure
  <2>1. CASE Parse \/ ParseFailed
    BY <2>1 DEF Parse, ParseFailed, pipe, updater
  <2>2. CASE Apply
    BY <2>2 DEF Apply, pipe, updater
  <2>3. CASE SetReloadRules
    BY <2>3 DEF SetReloadRules, pipe, updater
  <2>4. CASE SetReloadDb
    BY <2>4 DEF SetReloadDb, pipe, updater
  <2>5. CASE ReconfStopped
    BY <2>5 DEF ReconfStopped, pipe, updater
  <2> QED
    BY <1>6, <2>1, <2>2, <2>3, <2>4, <2>5 DEF Reconfigure
<1>7. CASE Update
  <2>1. CASE Poll \/ TestRules \/ EndCycle \/ UpdateExit
    BY <2>1 DEF Poll, TestRules, EndCycle, UpdateExit, requests, pipe
  <2>2. CASE ReadRules
    BY <2>2 DEF ReadRules, requests, pipe
  <2>3. CASE TestDb
    BY <2>3 DEF TestDb, BeginReload, requests, pipe
  <2>4. CASE BackendInit \/ BackendLoad \/ ReloadFailed
    BY <2>4 DEF BackendInit, BackendLoad, ReloadFailed, requests, pipe
  <2>5. CASE FifoReload
    BY <2>5 DEF FifoReload, NextCommand, BeginReload, requests
  <2>6. CASE FifoReloadDropped \/ FifoRules \/ FifoCompact \/ FifoOther
    BY <2>6
    DEF FifoReloadDropped, FifoRules, FifoCompact, FifoOther, NextCommand,
        requests, updater
  <2> QED
    BY <1>7, <2>1, <2>2, <2>3, <2>4, <2>5, <2>6 DEF Update
<1>8. CASE UNCHANGED vars
  BY <1>8 DEF vars, requests, pipe, updater
<1> QED
  BY <1>1, <1>2, <1>3, <1>4, <1>5, <1>6, <1>7, <1>8 DEF Next

(* The inductive invariant holds in every reachable state.                     *)
THEOREM UpdateInvariant == Spec => []IInv
<1>1. IInv /\ [Next]_vars => IInv'
  BY TypeStep, VersionedStep DEF IInv
<1> QED
  BY InitIInv, <1>1, PTL DEF Spec

(* The types of the update controller, for any bounds.                         *)
THEOREM UpdateTypeCorrect == Spec => []TypeOK
<1>1. IInv => TypeOK
  BY DEF IInv
<1> QED
  BY UpdateInvariant, <1>1, PTL

(* request_reload_trust_database() and begin_trust_database_reload(): while    *)
(* the trust database lags behind the configuration, a request is pending, is  *)
(* about to be made, or a rebuild that has not read the configuration runs.    *)
THEOREM TrustReloadNeverLost == Spec => []TrustReloadPending
<1>1. IInv => TrustReloadPending
  BY DEF IInv, Versioned
<1> QED
  BY UpdateInvariant, <1>1, PTL

(* The same of the rule file and reload_rules_from_file().                     *)
THEOREM RuleReloadNeverLost == Spec => []RuleReloadPending
<1>1. IInv => RuleReloadPending
  BY DEF IInv, Versioned
<1> QED
  BY UpdateInvariant, <1>1, PTL

-----------------------------------------------------------------------------
(* What a reload imports (module Backends).                                    *)
CONSTANTS TrustLists, Packages, TrustFiles, Intervals, rpm_sha256_only, MaxReloads

VARIABLES trust, backends, memfd, content, lost, open, replaced, pc, at, remaining, loader,
          reloads

B == INSTANCE Backends

IsSequence(s) == s \in Seq({s[i] : i \in DOMAIN s})

\* The option trust is a list of names, the package databases are lists of
\* packages with lists of files.
BackendParameters ==
    /\ Intervals \in Nat /\ TrustLists \subseteq Seq(STRING)
    /\ \A b \in B!PackageBackends :
          /\ IsSequence(Packages[b])
          /\ \A k \in DOMAIN Packages[b] : IsSequence(B!Files(b, Packages[b][k]))

AllRecords == (B!Wanted("rpmdb") \cup B!Wanted("debdb")) \cup TrustFiles
LoaderStates == {"none", "start", "load", "seal", "dead"}
LoaderType == [state : LoaderStates, pkg : Nat \ {0}, file : Nat \ {0}, sent : BOOLEAN]
Working == {"start", "load", "seal"}

BackendTypes ==
    /\ trust \in TrustLists /\ backends \in Seq(STRING)
    /\ memfd \in [B!Compiled -> BOOLEAN]
    /\ content \in [B!Compiled -> SUBSET AllRecords]
    /\ lost \in [B!Compiled -> SUBSET AllRecords]
    /\ at \in Nat \ {0} /\ remaining \in 0 .. Intervals /\ stop \in BOOLEAN
    /\ loader \in LoaderType
    /\ pc \in {"idle", "load", "wait", "recv", "use", "close"}

\* Where the daemon and its loader can be.  A loader that the daemon has given up
\* may work on until backend_close().
BackendPhases ==
    /\ pc \in {"load", "wait", "recv"} => backends = trust /\ at \in 1 .. Len(backends)
    /\ pc = "use" => backends = trust /\ (at = Len(backends) \/ backends = <<>>)
    /\ pc = "idle" => backends = <<>>
    /\ \A i \in 1 .. Len(backends) : backends[i] \in B!Compiled
    /\ loader.state \in Working => pc \in {"wait", "close"} /\ at \in 1 .. Len(backends)
    /\ loader.state \in Working \/ pc \in {"wait", "recv"} => B!b_at \in B!PackageBackends
    /\ loader.state = "start" => loader.pkg = 1 /\ loader.file = 1
    /\ loader.sent => loader.state = "dead"
    /\ pc = "recv" => loader.state = "dead"

\* The files the loader has seen, and what it owes for them.
Passed(k, j) == k < loader.pkg \/ (k = loader.pkg /\ j < loader.file)
Kept(b, k, j) ==
    LET f == B!Files(b, Packages[b][k])[j] IN
    ~B!Skips(b, Packages[b][k], f) => B!Record(b, f) \in content[b] \cup lost[b]
Answered(b) == B!Wanted(b) \subseteq content[b] \cup lost[b]

BackendProgress ==
    /\ \A b \in B!PackageBackends : content[b] \subseteq B!Wanted(b)
    /\ loader.state = "load" =>
          \A k \in DOMAIN Packages[B!b_at] :
             \A j \in DOMAIN B!Files(B!b_at, Packages[B!b_at][k]) :
                Passed(k, j) => Kept(B!b_at, k, j)
    /\ loader.state = "seal" => Answered(B!b_at)
    /\ loader.sent /\ pc \in {"wait", "recv"} => Answered(B!b_at)

\* The back-ends before the one being loaded have answered; one that is named
\* again is asked again.
BackendAnswers ==
    pc \in {"load", "wait", "recv", "use"} =>
        \A i \in 1 .. Len(backends) : i < at \/ pc = "use" =>
            /\ memfd[backends[i]]
            /\ backends[i] \in B!PackageBackends
               /\ (pc \in {"wait", "recv"} => backends[i] # B!b_at) => Answered(backends[i])

BackendInv == BackendTypes /\ BackendPhases /\ BackendProgress /\ BackendAnswers

Held == {b \in B!Compiled : memfd[b]}
BackendHeld ==
    /\ replaced \in Nat /\ open = Cardinality(Held) + replaced
    /\ B!NamedOnce(trust) => replaced = 0
    /\ \A b \in Held : \E i \in 1 .. Len(backends) :
          backends[i] = b /\ (pc \in {"load", "wait", "recv"} => i < at)

\* Before the first reload nothing is registered or held.
LEMMA InitBackends == BackendParameters /\ B!Init => BackendInv
<1> SUFFICES ASSUME BackendParameters, B!Init PROVE BackendInv
  OBVIOUS
<1>1. BackendTypes
  <2>1. loader \in LoaderType
    BY DEF B!Init, B!NoLoader, LoaderStates, LoaderType
  <2>2. /\ memfd \in [B!Compiled -> BOOLEAN] /\ content \in [B!Compiled -> SUBSET AllRecords]
        /\ lost \in [B!Compiled -> SUBSET AllRecords]
    BY Zenon DEF B!Init
  <2>3. /\ trust \in TrustLists /\ backends \in Seq(STRING) /\ at \in Nat \ {0}
        /\ remaining \in 0 .. Intervals /\ stop \in BOOLEAN /\ pc = "idle"
    <3>1. 0 \in 0 .. Intervals /\ <<>> \in Seq(STRING) /\ 1 \in Nat \ {0}
      BY DEF BackendParameters
    <3> QED BY <3>1, Zenon DEF B!Init
  <2> QED BY <2>1, <2>2, <2>3 DEF BackendTypes
<1>2. BackendPhases
  BY DEF BackendPhases, B!Init, B!NoLoader, Working
<1>3. BackendProgress
  BY DEF BackendProgress, B!Init, B!NoLoader, B!PackageBackends, B!Compiled
<1>4. BackendAnswers
  BY DEF BackendAnswers, B!Init
<1> QED BY <1>1, <1>2, <1>3, <1>4 DEF BackendInv

\* A record a package database vouches for is that of a file of a package.
LEMMA WantedFiles ==
    ASSUME BackendParameters, NEW b \in B!PackageBackends
    PROVE  /\ \A r \in B!Wanted(b) :
                 \E k \in DOMAIN Packages[b] : \E j \in DOMAIN B!Files(b, Packages[b][k]) :
                    LET f == B!Files(b, Packages[b][k])[j] IN
                    ~B!Skips(b, Packages[b][k], f) /\ r = B!Record(b, f)
           /\ \A k \in DOMAIN Packages[b] : \A j \in DOMAIN B!Files(b, Packages[b][k]) :
                 LET f == B!Files(b, Packages[b][k])[j] IN
                 ~B!Skips(b, Packages[b][k], f) => B!Record(b, f) \in B!Wanted(b)
<1>1. ASSUME NEW r \in B!Wanted(b)
      PROVE  \E k \in DOMAIN Packages[b] : \E j \in DOMAIN B!Files(b, Packages[b][k]) :
                LET f == B!Files(b, Packages[b][k])[j] IN
                ~B!Skips(b, Packages[b][k], f) /\ r = B!Record(b, f)
  <2>1. PICK pkg \in B!Range(Packages[b]) :
           r \in {B!Record(b, f) : f \in {g \in B!Range(B!Files(b, pkg)) : ~B!Skips(b, pkg, g)}}
    BY <1>1, Zenon DEF B!Wanted
  <2>2. PICK f \in B!Range(B!Files(b, pkg)) : ~B!Skips(b, pkg, f) /\ r = B!Record(b, f)
    BY <2>1, Zenon
  <2>3. PICK k \in DOMAIN Packages[b] : pkg = Packages[b][k]
    BY Zenon DEF B!Range
  <2>4. PICK j \in DOMAIN B!Files(b, pkg) : f = B!Files(b, pkg)[j]
    BY Zenon DEF B!Range
  <2> QED BY <2>2, <2>3, <2>4, Zenon
<1>2. ASSUME NEW k \in DOMAIN Packages[b], NEW j \in DOMAIN B!Files(b, Packages[b][k]),
             ~B!Skips(b, Packages[b][k], B!Files(b, Packages[b][k])[j])
      PROVE  B!Record(b, B!Files(b, Packages[b][k])[j]) \in B!Wanted(b)
  <2>1. /\ Packages[b][k] \in B!Range(Packages[b])
        /\ B!Files(b, Packages[b][k])[j] \in B!Range(B!Files(b, Packages[b][k]))
    BY Zenon DEF B!Range
  <2> DEFINE Of(pkg) == {B!Record(b, f) : f \in {g \in B!Range(B!Files(b, pkg)) :
                                                ~B!Skips(b, pkg, g)}}
  <2>2. B!Record(b, B!Files(b, Packages[b][k])[j]) \in Of(Packages[b][k])
    BY <1>2, <2>1, Zenon
  <2>3. B!Wanted(b) = UNION {Of(pkg) : pkg \in B!Range(Packages[b])}
    BY DEF B!Wanted
  <2> HIDE DEF Of
  <2> QED BY <2>1, <2>2, <2>3, Zenon
<1> QED BY <1>1, <1>2, Zenon

\* The lists of packages and of files are sequences.
LEMMA Positions ==
    ASSUME BackendParameters, NEW b \in B!PackageBackends
    PROVE  /\ Len(Packages[b]) \in Nat /\ DOMAIN Packages[b] = 1 .. Len(Packages[b])
           /\ \A k \in DOMAIN Packages[b] :
                 LET s == B!Files(b, Packages[b][k]) IN Len(s) \in Nat /\ DOMAIN s = 1 .. Len(s)
<1>1. ASSUME NEW s, IsSequence(s) PROVE Len(s) \in Nat /\ DOMAIN s = 1 .. Len(s)
  BY <1>1 DEF IsSequence
<1> QED BY <1>1, Zenon DEF BackendParameters

\* The loader changes only what it answers for the back-end it was started for.
LEMMA LoaderKeeps ==
    ASSUME BackendInv, B!LoaderOnly, loader.state \in Working, BackendTypes', BackendProgress',
           \A b \in B!Compiled : b # B!b_at => content'[b] = content[b] /\ lost'[b] = lost[b],
           loader'.state # "start", loader'.sent => loader'.state = "dead"
    PROVE  BackendInv'
<1>1. /\ trust' = trust /\ backends' = backends /\ memfd' = memfd /\ pc' = pc /\ at' = at
      /\ B!b_at' = B!b_at /\ pc \in {"wait", "close"}
  BY DEF B!LoaderOnly, B!b_at, BackendInv, BackendPhases
<1>2. BackendPhases'
  BY <1>1 DEF BackendInv, BackendPhases, Working
<1>3. BackendAnswers'
  <2> SUFFICES ASSUME pc = "wait", NEW i \in 1 .. Len(backends), i < at
               PROVE  /\ memfd[backends[i]]
                      /\ backends[i] \in B!PackageBackends /\ backends[i] # B!b_at =>
                            Answered(backends[i])'
    BY <1>1 DEF BackendAnswers
  <2>1. /\ memfd[backends[i]]
        /\ backends[i] \in B!PackageBackends /\ backends[i] # B!b_at => Answered(backends[i])
    BY DEF BackendInv, BackendAnswers
  <2>2. backends[i] \in B!Compiled
    BY DEF BackendInv, BackendPhases
  <2>3. backends'[i] # B!b_at => content'[backends'[i]] = content[backends[i]]
                                 /\ lost'[backends'[i]] = lost[backends[i]]
    BY <1>1, <2>2
  <2> QED BY <1>1, <2>1, <2>3 DEF Answered
<1> QED BY <1>2, <1>3 DEF BackendInv

\* A step that only moves the loader on, without a change of the answer.
LEMMA LoaderMoves ==
    ASSUME BackendInv, B!LoaderOnly, loader.state \in Working, UNCHANGED <<content, lost>>,
           loader' \in LoaderType, loader'.state # "start", BackendProgress',
           loader'.sent => loader'.state = "dead"
    PROVE  BackendInv'
<1>1. BackendTypes'
  BY DEF BackendInv, BackendTypes, B!LoaderOnly, LoaderType
<1> QED BY <1>1, LoaderKeeps

\* The loader process opens the package database.
LEMMA LoaderStarts == BackendParameters /\ BackendInv /\ B!LoaderStarts => BackendInv'
<1> SUFFICES ASSUME BackendParameters, BackendInv, B!LoaderStarts PROVE BackendInv'
  OBVIOUS
<1>1. /\ loader \in LoaderType /\ loader.state = "start" /\ loader.pkg = 1 /\ loader.file = 1
      /\ ~loader.sent /\ loader.state \in Working
  BY DEF BackendInv, BackendTypes, BackendPhases, B!LoaderStarts, LoaderType, Working
<1>2. /\ loader' \in LoaderType /\ loader'.state \in {"load", "dead"}
      /\ loader'.pkg = 1 /\ loader'.file = 1 /\ loader'.sent = FALSE
  BY <1>1 DEF B!LoaderStarts, B!Goto, LoaderType, LoaderStates
<1>3. /\ B!LoaderOnly /\ UNCHANGED <<content, lost>> /\ pc' = pc /\ B!b_at' = B!b_at
  BY DEF B!LoaderStarts, B!LoaderOnly, B!b_at
<1>4. B!b_at \in B!PackageBackends
  BY <1>1 DEF BackendInv, BackendPhases
<1>5. BackendProgress'
  <2>1. ASSUME NEW k \in DOMAIN Packages[B!b_at],
               NEW j \in DOMAIN B!Files(B!b_at, Packages[B!b_at][k])
        PROVE  ~Passed(k, j)'
    <3>1. k \in Nat \ {0} /\ j \in Nat \ {0}
      BY <1>4, Positions
    <3> QED BY <1>2, <3>1 DEF Passed
  <2> QED BY <1>2, <1>3, <2>1 DEF BackendInv, BackendProgress
<1> QED BY <1>1, <1>2, <1>3, <1>5, LoaderMoves

\* The loader drops a file it could not add.
LEMMA LoadFails == BackendInv /\ B!LoadFileFails => BackendInv'
<1> SUFFICES ASSUME BackendInv, B!LoadFileFails PROVE BackendInv'
  OBVIOUS
<1>1. loader \in LoaderType /\ loader.state = "load" /\ ~loader.sent /\ loader.state \in Working
  BY DEF BackendInv, BackendTypes, BackendPhases, B!LoadFileFails, LoaderType, Working
<1>2. loader' \in LoaderType /\ loader'.state = "dead" /\ loader'.sent = FALSE
  BY <1>1 DEF B!LoadFileFails, B!Goto, LoaderType, LoaderStates
<1>3. B!LoaderOnly /\ UNCHANGED <<content, lost>>
  BY DEF B!LoadFileFails
<1>4. BackendProgress'
  BY <1>2, <1>3 DEF BackendInv, BackendProgress
<1> QED BY <1>1, <1>2, <1>3, <1>4, LoaderMoves

\* The loader has sent its snapshot to the daemon.
LEMMA Sends == BackendInv /\ B!LoaderSends => BackendInv'
<1> SUFFICES ASSUME BackendInv, B!LoaderSends PROVE BackendInv'
  OBVIOUS
<1>1. loader \in LoaderType /\ loader.state = "seal" /\ loader.state \in Working
  BY DEF BackendInv, BackendTypes, BackendPhases, B!LoaderSends, LoaderType, Working
<1>2. loader' \in LoaderType /\ loader'.state = "dead"
  BY <1>1, Zenon DEF B!LoaderSends, B!Goto, LoaderType, LoaderStates
<1>3. /\ B!LoaderOnly /\ UNCHANGED <<content, lost>> /\ pc' = pc /\ B!b_at' = B!b_at
  BY DEF B!LoaderSends, B!LoaderOnly, B!b_at
<1>4. Answered(B!b_at)
  BY <1>1 DEF BackendInv, BackendProgress
<1>5. Answered(B!b_at)'
  BY <1>3, <1>4 DEF Answered
<1>6. BackendProgress'
  BY <1>2, <1>3, <1>5 DEF BackendInv, BackendProgress
<1> QED BY <1>1, <1>2, <1>3, <1>6, LoaderMoves

\* The loader could not open the database and exits.
LEMMA Unopened == BackendParameters /\ BackendInv /\ B!NoIterator => BackendInv'
<1> SUFFICES ASSUME BackendParameters, BackendInv, B!NoIterator PROVE BackendInv'
  OBVIOUS
<1>1. /\ loader \in LoaderType /\ loader.state = "load" /\ ~loader.sent
      /\ loader.state \in Working
  BY DEF BackendInv, BackendTypes, BackendPhases, B!NoIterator, LoaderType, Working
<1>2. /\ loader' \in LoaderType /\ loader'.state = "seal" /\ loader'.sent = FALSE
  BY <1>1 DEF B!NoIterator, B!Goto, LoaderType, LoaderStates
<1>3. /\ B!LoaderOnly /\ content' = content /\ pc' = pc /\ B!b_at' = B!b_at
      /\ B!b_at = "rpmdb" /\ lost' = [lost EXCEPT !["rpmdb"] = B!Wanted("rpmdb")]
  BY DEF B!NoIterator, B!LoaderOnly, B!b_at
<1>4. "rpmdb" \in B!Compiled /\ B!Wanted("rpmdb") \in SUBSET AllRecords
  BY DEF B!Compiled, B!PackageBackends, AllRecords
<1>5. /\ lost' \in [B!Compiled -> SUBSET AllRecords] /\ lost'["rpmdb"] = B!Wanted("rpmdb")
      /\ \A b \in B!Compiled : b # "rpmdb" => lost'[b] = lost[b]
  <2>1. lost \in [B!Compiled -> SUBSET AllRecords]
    BY DEF BackendInv, BackendTypes
  <2> QED BY <1>3, <1>4, <2>1, Zenon
<1>6. BackendTypes'
  BY <1>2, <1>3, <1>5 DEF BackendInv, BackendTypes, B!LoaderOnly
<1>7. Answered(B!b_at)'
  BY <1>3, <1>5 DEF Answered
<1>8. BackendProgress'
  BY <1>2, <1>3, <1>7 DEF BackendInv, BackendProgress
<1> QED BY <1>1, <1>2, <1>3, <1>5, <1>6, <1>8, LoaderKeeps

\* What the loader had seen before a step and what it saw in it.
LEMMA SeenOneMore ==
    ASSUME BackendParameters, BackendInv, NEW b \in B!PackageBackends, B!b_at = b,
           loader.state = "load", loader' = [loader EXCEPT !.file = @ + 1],
           \A r \in content[b] \cup lost[b] : r \in content'[b] \cup lost'[b],
           NEW p, NEW q, loader.pkg = p, loader.file = q, Kept(b, p, q)',
           NEW k \in DOMAIN Packages[b], NEW j \in DOMAIN B!Files(b, Packages[b][k]),
           Passed(k, j)'
    PROVE  Kept(b, k, j)'
<1>1. loader \in LoaderType
  BY DEF BackendInv, BackendTypes
<1>2. /\ loader.pkg \in Nat /\ loader.file \in Nat
      /\ loader'.pkg = loader.pkg /\ loader'.file = loader.file + 1
  BY <1>1 DEF LoaderType
<1>3. k \in Nat /\ j \in Nat
  BY Positions
<1>4. CASE Passed(k, j)
  <2>1. Kept(b, k, j)
    BY <1>4 DEF BackendInv, BackendProgress
  <2> QED BY <2>1 DEF Kept
<1>5. CASE ~Passed(k, j)
  <2>1. k = p /\ j = q
    BY <1>2, <1>3, <1>5 DEF Passed
  <2> QED BY <2>1
<1> QED BY <1>4, <1>5

\* The loader adds, skips or passes one file of a package.
LEMMA LoadsFile ==
    ASSUME BackendParameters, BackendInv, NEW b \in B!PackageBackends, B!LoadFile(b)
    PROVE  BackendInv'
<1> DEFINE pkg == Packages[b][loader.pkg]
           more == loader.pkg <= Len(Packages[b])
           inside == more /\ loader.file <= Len(B!Files(b, pkg))
           f == B!Files(b, pkg)[loader.file]
           next == [loader EXCEPT !.file = @ + 1]
<1>1. /\ loader \in LoaderType /\ loader.state = "load" /\ B!b_at = b /\ B!LoaderOnly
      /\ ~loader.sent /\ loader.state \in Working
  BY DEF BackendInv, BackendTypes, BackendPhases, B!LoadFile, Working
<1>2. /\ pc' = pc /\ B!b_at' = b
  BY <1>1 DEF B!LoaderOnly, B!b_at
<1>3. /\ loader.pkg \in Nat \ {0} /\ loader.file \in Nat \ {0}
  BY <1>1 DEF LoaderType
<1>4. /\ Len(Packages[b]) \in Nat /\ DOMAIN Packages[b] = 1 .. Len(Packages[b])
      /\ \A k \in DOMAIN Packages[b] :
            LET s == B!Files(b, Packages[b][k]) IN Len(s) \in Nat /\ DOMAIN s = 1 .. Len(s)
  BY Positions
<1>5. \/ ~more /\ B!Goto("seal") /\ UNCHANGED <<content, lost>>
      \/ /\ more /\ ~inside /\ loader' = [loader EXCEPT !.pkg = @ + 1, !.file = 1]
         /\ UNCHANGED <<content, lost>>
      \/ inside /\ B!Skips(b, pkg, f) /\ loader' = next /\ UNCHANGED <<content, lost>>
      \/ inside /\ ~B!Skips(b, pkg, f) /\ B!Written(B!Record(b, f)) /\ loader' = next
      \/ /\ inside /\ ~B!Skips(b, pkg, f)
         /\ lost' = [lost EXCEPT ![b] = @ \union {B!Record(b, f)}]
         /\ loader' = next /\ UNCHANGED content
  BY Zenon DEF B!LoadFile
<1>6. /\ content \in [B!Compiled -> SUBSET AllRecords] /\ lost \in [B!Compiled -> SUBSET AllRecords]
      /\ b \in B!Compiled
  BY DEF BackendInv, BackendTypes, B!Compiled
<1>7. next \in LoaderType /\ next.state = "load" /\ next.sent = FALSE
  BY <1>1 DEF LoaderType
<1>8. CASE ~more /\ B!Goto("seal") /\ UNCHANGED <<content, lost>>
  <2>1. loader' \in LoaderType /\ loader'.state = "seal" /\ loader'.sent = FALSE
    BY <1>1, <1>8 DEF B!Goto, LoaderType, LoaderStates
  <2>2. Answered(b)
    <3>1. ASSUME NEW k \in DOMAIN Packages[b], NEW j \in DOMAIN B!Files(b, Packages[b][k])
          PROVE  Kept(b, k, j)
      <4>1. Passed(k, j)
        BY <1>3, <1>4, <1>8 DEF Passed
      <4> QED BY <1>1, <4>1 DEF BackendInv, BackendProgress
    <3>2. ASSUME NEW r \in B!Wanted(b) PROVE r \in content[b] \cup lost[b]
      <4>1. PICK k \in DOMAIN Packages[b] : \E j \in DOMAIN B!Files(b, Packages[b][k]) :
               /\ ~B!Skips(b, Packages[b][k], B!Files(b, Packages[b][k])[j])
               /\ r = B!Record(b, B!Files(b, Packages[b][k])[j])
        BY WantedFiles, Zenon
      <4>2. PICK j \in DOMAIN B!Files(b, Packages[b][k]) :
               /\ ~B!Skips(b, Packages[b][k], B!Files(b, Packages[b][k])[j])
               /\ r = B!Record(b, B!Files(b, Packages[b][k])[j])
        BY <4>1, Zenon
      <4>3. Kept(b, k, j)
        BY <3>1
      <4> QED BY <4>2, <4>3 DEF Kept
    <3> QED BY <3>2, Zenon DEF Answered
  <2>3. Answered(b)'
    BY <1>8, <2>2 DEF Answered
  <2>4. BackendProgress'
    BY <1>2, <1>8, <2>1, <2>3 DEF BackendInv, BackendProgress
  <2> QED BY <1>1, <1>8, <2>1, <2>4, LoaderMoves
<1>9. CASE /\ more /\ ~inside /\ loader' = [loader EXCEPT !.pkg = @ + 1, !.file = 1]
           /\ UNCHANGED <<content, lost>>
  <2>1. /\ loader' \in LoaderType /\ loader'.state = "load" /\ loader'.sent = FALSE
        /\ loader'.pkg = loader.pkg + 1 /\ loader'.file = 1
    <3> DEFINE half == [loader EXCEPT !.pkg = @ + 1]
    <3>1. /\ half \in LoaderType /\ half.state = "load" /\ half.sent = FALSE
          /\ half.pkg = loader.pkg + 1
      BY <1>1, <1>3 DEF LoaderType
    <3>2. loader' = [half EXCEPT !.file = 1]
      BY <1>9
    <3> HIDE DEF half
    <3> QED BY <3>1, <3>2 DEF LoaderType
  <2>2. loader.pkg \in DOMAIN Packages[b] /\ ~(loader.file <= Len(B!Files(b, pkg)))
    BY <1>3, <1>4, <1>9
  <2>3. ASSUME NEW k \in DOMAIN Packages[b], NEW j \in DOMAIN B!Files(b, Packages[b][k]),
               Passed(k, j)'
        PROVE  Kept(b, k, j)'
    <3>1. k \in Nat /\ j \in Nat \ {0} /\ j <= Len(B!Files(b, Packages[b][k]))
          /\ Len(B!Files(b, Packages[b][k])) \in Nat
      BY <1>4
    <3>2. Passed(k, j)
      BY <1>3, <2>1, <2>2, <2>3, <3>1 DEF Passed
    <3>3. Kept(b, k, j)
      BY <1>1, <3>2 DEF BackendInv, BackendProgress
    <3> QED BY <1>9, <3>3 DEF Kept
  <2>4. BackendProgress'
    BY <1>2, <1>9, <2>1, <2>3 DEF BackendInv, BackendProgress
  <2> QED BY <1>1, <1>9, <2>1, <2>4, LoaderMoves
<1>10. ASSUME inside, loader' = next, BackendTypes', content'[b] \subseteq B!Wanted(b),
              \A c \in B!Compiled : c # b => content'[c] = content[c] /\ lost'[c] = lost[c],
              \A r \in content[b] \cup lost[b] : r \in content'[b] \cup lost'[b],
              B!Skips(b, pkg, f) \/ B!Record(b, f) \in content'[b] \cup lost'[b]
       PROVE  BackendInv'
  <2>1. PICK p, q : loader.pkg = p /\ loader.file = q
    OBVIOUS
  <2>2. Kept(b, p, q)'
    BY <1>10, <2>1 DEF Kept
  <2>3. ASSUME NEW k \in DOMAIN Packages[b], NEW j \in DOMAIN B!Files(b, Packages[b][k]),
               Passed(k, j)'
        PROVE  Kept(b, k, j)'
    BY <1>1, <1>10, <2>1, <2>2, <2>3, SeenOneMore
  <2>4. \A c \in B!PackageBackends : content'[c] \subseteq B!Wanted(c)
    BY <1>10 DEF BackendInv, BackendProgress, B!Compiled
  <2>5. BackendProgress'
    BY <1>2, <1>7, <1>10, <2>3, <2>4 DEF BackendProgress
  <2> QED BY <1>1, <1>7, <1>10, <2>5, LoaderKeeps
<1>11. CASE inside /\ B!Skips(b, pkg, f) /\ loader' = next /\ UNCHANGED <<content, lost>>
  <2>1. BackendTypes'
    BY <1>1, <1>7, <1>11 DEF BackendInv, BackendTypes, B!LoaderOnly
  <2>2. content'[b] \subseteq B!Wanted(b)
    BY <1>11 DEF BackendInv, BackendProgress
  <2> QED BY <1>10, <1>11, <2>1, <2>2
<1>12. ASSUME inside, ~B!Skips(b, pkg, f)
       PROVE  B!Record(b, f) \in B!Wanted(b) /\ B!Record(b, f) \in AllRecords
  <2>1. loader.pkg \in DOMAIN Packages[b] /\ loader.file \in DOMAIN B!Files(b, pkg)
    BY <1>3, <1>4, <1>12
  <2>2. B!Record(b, f) \in B!Wanted(b)
    BY <1>12, <2>1, WantedFiles, Zenon
  <2> QED BY <2>2 DEF AllRecords, B!PackageBackends
<1>13. CASE inside /\ ~B!Skips(b, pkg, f) /\ B!Written(B!Record(b, f)) /\ loader' = next
  <2>1. content' = [content EXCEPT ![b] = @ \union {B!Record(b, f)}] /\ lost' = lost
    BY <1>1, <1>13 DEF B!Written
  <2>2. /\ content' \in [B!Compiled -> SUBSET AllRecords]
        /\ content'[b] = content[b] \union {B!Record(b, f)}
        /\ \A c \in B!Compiled : c # b => content'[c] = content[c]
    BY <1>6, <1>12, <1>13, <2>1
  <2>3. BackendTypes'
    BY <1>1, <1>7, <1>13, <2>1, <2>2 DEF BackendInv, BackendTypes, B!LoaderOnly
  <2>4. content'[b] \subseteq B!Wanted(b)
    BY <1>12, <1>13, <2>2 DEF BackendInv, BackendProgress
  <2> QED BY <1>10, <1>13, <2>1, <2>2, <2>3, <2>4
<1>14. CASE /\ inside /\ ~B!Skips(b, pkg, f)
            /\ lost' = [lost EXCEPT ![b] = @ \union {B!Record(b, f)}]
            /\ loader' = next /\ UNCHANGED content
  <2>1. /\ lost' \in [B!Compiled -> SUBSET AllRecords]
        /\ lost'[b] = lost[b] \union {B!Record(b, f)}
        /\ \A c \in B!Compiled : c # b => lost'[c] = lost[c]
    BY <1>6, <1>12, <1>14
  <2>2. BackendTypes'
    BY <1>1, <1>7, <1>14, <2>1 DEF BackendInv, BackendTypes, B!LoaderOnly
  <2>3. content'[b] \subseteq B!Wanted(b)
    BY <1>14 DEF BackendInv, BackendProgress
  <2> QED BY <1>10, <1>14, <2>1, <2>2, <2>3
<1> QED BY <1>5, <1>8, <1>9, <1>11, <1>13, <1>14

\* backend_init() registers a prefix of the option trust.
LEMMA Registers ==
    ASSUME BackendParameters, BackendInv, B!backend_init
    PROVE  /\ BackendInv'
           /\ \A i \in 1 .. Len(backends') : i <= Len(trust) /\ backends'[i] = trust[i]
<1>1. PICK n \in 0 .. Len(trust) :
         /\ B!Registered(n) /\ backends' = SubSeq(trust, 1, n)
         /\ pc' = CASE n < Len(trust) -> "close"
                    [] n = Len(trust) /\ n > 0 -> "load"
                    [] n = Len(trust) /\ n = 0 -> "use"
  BY Zenon DEF B!backend_init
<1>2. /\ pc = "idle" /\ at' = 1
      /\ UNCHANGED <<trust, memfd, content, lost, open, remaining, loader, stop>>
  BY DEF B!backend_init
<1>3. trust \in Seq(STRING) /\ Len(trust) \in Nat
  BY DEF BackendParameters, BackendInv, BackendTypes
<1>4. \A i \in 1 .. n : trust[i] \in STRING /\ trust[i] \in B!Compiled
  BY <1>1, <1>3 DEF B!Registered
<1>5. /\ backends' \in Seq(STRING) /\ Len(backends') = n
      /\ \A i \in 1 .. n : backends'[i] = trust[i]
  <2> DEFINE s == SubSeq(trust, 1, n)
  <2>1. s \in Seq(STRING) /\ Len(s) = IF 1 <= n THEN n - 1 + 1 ELSE 0
    BY <1>3, <1>4, SubSeqProperties
  <2>2. \A i \in 1 .. n - 1 + 1 : s[i] = trust[1 + i - 1]
    BY <1>3, <1>4, SubSeqProperties
  <2> HIDE DEF s
  <2>3. backends' = s
    BY <1>1 DEF s
  <2> QED BY <1>1, <2>1, <2>2, <2>3
<1>6. n = Len(trust) => backends' = trust
  BY <1>1, <1>3, SubSeqFull, Zenon
<1>7. \/ n < Len(trust) /\ pc' = "close"
      \/ n = Len(trust) /\ n > 0 /\ pc' = "load"
      \/ n = Len(trust) /\ n = 0 /\ pc' = "use"
  BY <1>1, <1>3
<1>8. BackendTypes'
  BY <1>2, <1>5, <1>7 DEF BackendInv, BackendTypes
<1>9. loader.state \notin Working
  BY <1>2 DEF BackendInv, BackendPhases
<1>10. BackendPhases'
  <2>1. \A i \in 1 .. Len(backends') : backends'[i] \in B!Compiled
    BY <1>4, <1>5
  <2>2. pc' \in {"load", "wait", "recv"} => backends' = trust' /\ at' \in 1 .. Len(backends')
    BY <1>2, <1>3, <1>5, <1>6, <1>7
  <2>3. pc' = "use" => backends' = trust' /\ backends' = <<>>
    BY <1>2, <1>3, <1>5, <1>6, <1>7
  <2>4. pc' \notin {"idle", "wait", "recv"}
    BY <1>7
  <2>5. loader.sent => loader.state = "dead"
    BY DEF BackendInv, BackendPhases
  <2> QED BY <1>2, <1>9, <2>1, <2>2, <2>3, <2>4, <2>5 DEF BackendPhases, Working
<1>11. BackendProgress'
  BY <1>2, <1>7, <1>9 DEF BackendInv, BackendProgress, Working
<1>12. BackendAnswers'
  BY <1>2, <1>3, <1>5, <1>7 DEF BackendAnswers
<1> QED BY <1>3, <1>5, <1>8, <1>10, <1>11, <1>12 DEF BackendInv

\* The daemon gives up; the loader may go on.
LEMMA GivesUp ==
    ASSUME BackendInv, pc \in {"load", "wait", "recv", "use"}, pc' = "close",
           UNCHANGED <<trust, backends, memfd, content, lost, at, remaining, loader, stop>>
    PROVE  BackendInv'
<1>1. B!b_at' = B!b_at
  BY DEF B!b_at
<1>2. BackendTypes'
  BY DEF BackendInv, BackendTypes
<1>3. BackendPhases'
  BY <1>1 DEF BackendInv, BackendPhases, Working
<1>4. BackendProgress'
  BY <1>1 DEF BackendInv, BackendProgress, Passed, Kept, Answered
<1>5. BackendAnswers'
  BY DEF BackendAnswers
<1> QED BY <1>2, <1>3, <1>4, <1>5 DEF BackendInv

\* One more back-end has answered.
LEMMA NextBackend ==
    ASSUME BackendInv, pc \in {"load", "recv"}, B!Loaded, B!SetMemfd(B!b_at),
           loader.state \notin Working, UNCHANGED <<trust, backends, lost, remaining, loader, stop>>,
           content' \in [B!Compiled -> SUBSET AllRecords],
           \A b \in B!PackageBackends : content'[b] = content[b],
           B!b_at \in B!PackageBackends => Answered(B!b_at)
    PROVE  BackendInv'
<1>1. /\ backends = trust /\ at \in 1 .. Len(backends) /\ Len(backends) \in Nat
      /\ \A i \in 1 .. Len(backends) : backends[i] \in B!Compiled
      /\ B!b_at \in B!Compiled
  BY DEF BackendInv, BackendTypes, BackendPhases, B!b_at
<1>2. \/ at = Len(backends) /\ pc' = "use" /\ at' = at
      \/ at # Len(backends) /\ pc' = "load" /\ at' = at + 1 /\ at' \in 1 .. Len(backends)
  BY <1>1 DEF B!Loaded
<1>3. memfd \in [B!Compiled -> BOOLEAN] /\ memfd' = [memfd EXCEPT ![B!b_at] = TRUE]
  BY DEF BackendInv, BackendTypes, B!SetMemfd
<1>4. /\ memfd' \in [B!Compiled -> BOOLEAN] /\ memfd'[B!b_at] = TRUE
      /\ \A b \in B!Compiled : b # B!b_at => memfd'[b] = memfd[b]
  BY <1>1, <1>3, Zenon
<1>5. BackendTypes'
  BY <1>1, <1>2, <1>4 DEF BackendInv, BackendTypes
<1>6. BackendPhases'
  BY <1>1, <1>2 DEF BackendInv, BackendPhases, Working
<1>7. BackendProgress'
  BY <1>2 DEF BackendInv, BackendProgress, Working
<1>8. BackendAnswers'
  <2> SUFFICES ASSUME NEW i \in 1 .. Len(backends), i < at' \/ pc' = "use"
               PROVE  /\ memfd'[backends[i]]
                      /\ backends[i] \in B!PackageBackends => Answered(backends[i])'
    <3>1. backends' = backends
      OBVIOUS
    <3>2. \A i \in 1 .. Len(backends) : Answered(backends[i])' =
             (B!Wanted(backends[i]) \subseteq content'[backends[i]] \cup lost'[backends[i]])
      BY <3>1 DEF Answered
    <3> QED BY <3>1, <3>2, Zenon DEF BackendAnswers, Answered
  <2>1. i <= at
    BY <1>1, <1>2
  <2>2. CASE backends[i] = B!b_at
    BY <1>4, <2>2 DEF Answered
  <2>3. CASE backends[i] # B!b_at
    <3>1. i < at
      BY <1>1, <2>1, <2>3 DEF B!b_at
    <3>2. /\ memfd[backends[i]]
          /\ backends[i] \in B!PackageBackends => Answered(backends[i])
      BY <2>3, <3>1 DEF BackendInv, BackendAnswers
    <3>3. memfd'[backends[i]]
      BY <1>1, <1>4, <2>3, <3>2
    <3> QED BY <3>2, <3>3 DEF Answered
  <2> QED BY <2>2, <2>3
<1> QED BY <1>5, <1>6, <1>7, <1>8 DEF BackendInv

\* The file back-end is loaded by the daemon itself.
LEMMA LoadsTrustFiles == BackendInv /\ B!file_load_list => BackendInv'
<1> SUFFICES ASSUME BackendInv, B!file_load_list PROVE BackendInv'
  OBVIOUS
<1>1. /\ pc = "load" /\ B!b_at = "file"
      /\ UNCHANGED <<trust, backends, lost, remaining, loader, stop>>
  BY DEF B!file_load_list
<1>2. CASE B!Failed /\ UNCHANGED <<memfd, open, content>>
  BY <1>1, <1>2, GivesUp DEF B!Failed
<1>3. CASE /\ B!SetMemfd("file") /\ B!Loaded
           /\ \E read \in SUBSET TrustFiles : content' = [content EXCEPT !["file"] = read]
  <2>1. PICK read \in SUBSET TrustFiles : content' = [content EXCEPT !["file"] = read]
    BY <1>3, Zenon
  <2>2. /\ content \in [B!Compiled -> SUBSET AllRecords] /\ "file" \in B!Compiled
        /\ read \in SUBSET AllRecords /\ "file" \notin B!PackageBackends
        /\ B!PackageBackends \subseteq B!Compiled
    BY DEF BackendInv, BackendTypes, AllRecords, B!Compiled, B!PackageBackends
  <2>3. /\ content' \in [B!Compiled -> SUBSET AllRecords]
        /\ \A b \in B!PackageBackends : content'[b] = content[b]
    BY <2>1, <2>2
  <2>4. loader.state \notin Working
    BY <1>1 DEF BackendInv, BackendPhases
  <2> QED BY <1>1, <1>3, <2>2, <2>3, <2>4, NextBackend
<1> QED BY <1>2, <1>3 DEF B!file_load_list

\* The daemon starts the loader of the next back-end.
LEMMA Spawns ==
    ASSUME BackendInv, BackendParameters, NEW b \in B!PackageBackends, B!SpawnLoader(b)
    PROVE  BackendInv'
<1>1. /\ pc = "load" /\ B!b_at = b /\ UNCHANGED <<trust, backends, memfd, open, stop>>
  BY DEF B!SpawnLoader
<1>2. CASE B!Failed /\ UNCHANGED <<loader, remaining, content, lost>>
  BY <1>1, <1>2, GivesUp DEF B!Failed
<1>3. CASE /\ pc' = "wait" /\ remaining' = Intervals
           /\ loader' = [B!NoLoader EXCEPT !.state = "start"]
           /\ content' = [content EXCEPT ![B!b_at] = {}]
           /\ lost' = [lost EXCEPT ![B!b_at] = {}] /\ UNCHANGED at
  <2>1. /\ content \in [B!Compiled -> SUBSET AllRecords] /\ b \in B!Compiled
        /\ lost \in [B!Compiled -> SUBSET AllRecords]
        /\ \A c \in B!PackageBackends : c \in B!Compiled
    BY DEF BackendInv, BackendTypes, B!Compiled
  <2>2. /\ content' \in [B!Compiled -> SUBSET AllRecords] /\ content'[b] = {}
        /\ \A c \in B!Compiled : c # b => content'[c] = content[c]
    BY <1>1, <1>3, <2>1
  <2>3. /\ lost' \in [B!Compiled -> SUBSET AllRecords]
        /\ \A c \in B!Compiled : c # b => lost'[c] = lost[c]
    BY <1>1, <1>3, <2>1
  <2>4. /\ loader' \in LoaderType /\ loader'.state = "start" /\ loader'.sent = FALSE
        /\ loader'.pkg = 1 /\ loader'.file = 1
    <3>1. B!NoLoader \in LoaderType /\ ~B!NoLoader.sent /\ B!NoLoader.pkg = 1 /\ B!NoLoader.file = 1
      BY DEF B!NoLoader, LoaderType, LoaderStates
    <3> QED BY <1>3, <3>1 DEF LoaderType, LoaderStates
  <2>5. Intervals \in 0 .. Intervals
    BY DEF BackendParameters
  <2>6. BackendTypes'
    BY <1>1, <1>3, <2>2, <2>3, <2>4, <2>5 DEF BackendInv, BackendTypes
  <2>7. B!b_at' = b
    BY <1>1, <1>3 DEF B!b_at
  <2>8. BackendPhases'
    BY <1>1, <1>3, <2>4, <2>7 DEF BackendInv, BackendPhases, Working
  <2>9. BackendProgress'
    BY <2>1, <2>2, <2>4 DEF BackendInv, BackendProgress
  <2>10. BackendAnswers'
    <3> SUFFICES ASSUME NEW i \in 1 .. Len(backends), i < at
                 PROVE  /\ memfd[backends[i]]
                        /\ backends[i] \in B!PackageBackends /\ backends[i] # b =>
                              B!Wanted(backends[i])
                                 \subseteq content'[backends[i]] \cup lost'[backends[i]]
      <4>1. backends' = backends /\ memfd' = memfd /\ at' = at /\ pc' = "wait"
        BY <1>1, <1>3
      <4> QED BY <2>7, <4>1 DEF BackendAnswers, Answered
    <3>1. /\ memfd[backends[i]]
          /\ backends[i] \in B!PackageBackends => Answered(backends[i])
      BY <1>1 DEF BackendInv, BackendAnswers
    <3> QED BY <1>1, <2>1, <2>2, <2>3, <3>1 DEF Answered
  <2> QED BY <2>6, <2>8, <2>9, <2>10 DEF BackendInv
<1> QED BY <1>2, <1>3 DEF B!SpawnLoader

\* The daemon waits for the loader in intervals.
LEMMA Waits == BackendParameters /\ BackendInv /\ B!backend_wait_for_loader => BackendInv'
<1> SUFFICES ASSUME BackendParameters, BackendInv, B!backend_wait_for_loader PROVE BackendInv'
  OBVIOUS
<1>1. /\ pc = "wait" /\ UNCHANGED <<trust, backends, memfd, content, lost, loader, stop>>
  BY DEF B!backend_wait_for_loader
<1>2. CASE B!Failed /\ UNCHANGED remaining
  BY <1>1, <1>2, GivesUp DEF B!Failed
<1>3. CASE /\ pc' \in {"wait", "recv"} /\ UNCHANGED at /\ remaining' \in {remaining, remaining - 1}
           /\ remaining > 0 /\ (pc' = "recv" => B!Readable)
  <2>1. BackendTypes'
    <3>1. remaining' \in 0 .. Intervals
      BY <1>3 DEF BackendInv, BackendTypes, BackendParameters
    <3> QED BY <1>1, <1>3, <3>1 DEF BackendInv, BackendTypes
  <2>2. B!b_at' = B!b_at
    BY <1>1, <1>3 DEF B!b_at
  <2>3. pc' = "recv" => loader.state = "dead"
    BY <1>3 DEF BackendInv, BackendPhases, B!Readable
  <2>4. BackendPhases'
    BY <1>1, <1>3, <2>2, <2>3 DEF BackendInv, BackendPhases, Working
  <2>5. BackendProgress'
    BY <1>1, <1>3, <2>2 DEF BackendInv, BackendProgress, Passed, Kept, Answered
  <2>6. BackendAnswers'
    BY <1>1, <1>3, <2>2 DEF BackendInv, BackendAnswers, Answered
  <2> QED BY <2>1, <2>4, <2>5, <2>6 DEF BackendInv
<1> QED BY <1>2, <1>3 DEF B!backend_wait_for_loader

\* The daemon receives the snapshot of a finished loader.
LEMMA Receives == BackendInv /\ B!ReceiveMemfd => BackendInv'
<1> SUFFICES ASSUME BackendInv, B!ReceiveMemfd PROVE BackendInv'
  OBVIOUS
<1>1. /\ pc = "recv" /\ UNCHANGED <<trust, backends, content, lost, remaining, loader, stop>>
  BY DEF B!ReceiveMemfd
<1>2. CASE B!Failed /\ UNCHANGED <<memfd, open>>
  BY <1>1, <1>2, GivesUp DEF B!Failed
<1>3. CASE loader.sent /\ B!SetMemfd(B!b_at) /\ B!Loaded
  <2>1. Answered(B!b_at) /\ loader.state \notin Working
    BY <1>1, <1>3 DEF BackendInv, BackendProgress, BackendPhases, Working
  <2>2. content' \in [B!Compiled -> SUBSET AllRecords]
    BY <1>1 DEF BackendInv, BackendTypes
  <2> QED BY <1>1, <1>3, <2>1, <2>2, NextBackend
<1> QED BY <1>2, <1>3 DEF B!ReceiveMemfd

\* backend_close() ends the loader and drops every snapshot.
LEMMA Closes == BackendInv /\ B!backend_close => BackendInv'
<1> SUFFICES ASSUME BackendInv, B!backend_close PROVE BackendInv'
  OBVIOUS
<1>1. /\ backends' = <<>> /\ pc' = "idle" /\ at' = 1 /\ loader' = B!NoLoader
      /\ UNCHANGED <<trust, content, lost, remaining, stop>>
      /\ memfd' = [b \in B!Compiled |-> memfd[b] /\ b \notin B!Range(backends)]
  BY DEF B!backend_close
<1>2. /\ loader' \in LoaderType /\ loader'.state = "none" /\ loader'.sent = FALSE
  BY <1>1 DEF B!NoLoader, LoaderType, LoaderStates
<1>3. memfd' \in [B!Compiled -> BOOLEAN]
  BY <1>1, Zenon
<1>4. BackendTypes'
  BY <1>1, <1>2, <1>3 DEF BackendInv, BackendTypes
<1>5. BackendPhases'
  BY <1>1, <1>2 DEF BackendPhases, Working
<1>6. BackendProgress'
  BY <1>1, <1>2 DEF BackendInv, BackendProgress
<1>7. BackendAnswers'
  BY <1>1 DEF BackendAnswers
<1> QED BY <1>4, <1>5, <1>6, <1>7 DEF BackendInv

\* Every step of a reload keeps the invariant.
LEMMA BackendStep == BackendParameters /\ BackendInv /\ [B!Next]_B!vars => BackendInv'
<1> SUFFICES ASSUME BackendParameters, BackendInv, [B!Next]_B!vars PROVE BackendInv'
  OBVIOUS
<1>1. CASE B!Daemon
  <2>1. CASE B!UseSnapshots
    BY <2>1, GivesUp DEF B!UseSnapshots
  <2> QED BY <1>1, <2>1, Registers, LoadsTrustFiles, Spawns, Waits, Receives, Closes
          DEF B!Daemon, B!rpm_load_list, B!deb_load_list, B!PackageBackends
<1>2. CASE B!Loader
  BY <1>2, LoaderStarts, Unopened, LoadsFile, LoadFails, Sends
  DEF B!Loader, B!do_rpm_load_list, B!do_deb_load_list, B!PackageBackends
<1>3. CASE /\ stop' \in BOOLEAN
           /\ UNCHANGED <<trust, backends, memfd, content, lost, pc, at, remaining, loader>>
  <2>1. B!b_at' = B!b_at
    BY <1>3 DEF B!b_at
  <2>2. BackendTypes'
    BY <1>3 DEF BackendInv, BackendTypes
  <2>3. BackendPhases'
    BY <1>3, <2>1 DEF BackendInv, BackendPhases
  <2>4. BackendProgress'
    BY <1>3, <2>1 DEF BackendInv, BackendProgress, Passed, Kept, Answered
  <2>5. BackendAnswers'
    BY <1>3, <2>1 DEF BackendInv, BackendAnswers, Answered
  <2> QED BY <2>2, <2>3, <2>4, <2>5 DEF BackendInv
<1>4. CASE B!Stop
  BY <1>3, <1>4 DEF B!Stop
<1>5. CASE UNCHANGED B!vars
  BY <1>3, <1>5 DEF B!vars, BackendInv, BackendTypes
<1> QED BY <1>1, <1>2, <1>4, <1>5 DEF B!Next

\* update_database() and compact_trust_database() import the whole answer of every
\* back-end of the option trust, for any packages, any loader and any list.
THEOREM Backends_OnlyCompleteImported ==
    ASSUME BackendParameters PROVE B!Spec => []B!OnlyCompleteImported
<1>1. BackendInv => B!OnlyCompleteImported
  <2> SUFFICES ASSUME BackendInv, pc = "use"
               PROVE  /\ backends = trust
                      /\ \A b \in B!Range(trust) :
                            /\ memfd[b]
                            /\ b \in B!PackageBackends =>
                                  /\ content[b] \subseteq B!Wanted(b)
                                  /\ B!Wanted(b) \ lost[b] \subseteq content[b]
    BY DEF B!OnlyCompleteImported
  <2>1. backends = trust /\ backends \in Seq(STRING)
    BY DEF BackendInv, BackendPhases, BackendTypes
  <2>2. ASSUME NEW b \in B!Range(trust)
        PROVE  /\ memfd[b]
               /\ b \in B!PackageBackends =>
                     /\ content[b] \subseteq B!Wanted(b)
                     /\ B!Wanted(b) \ lost[b] \subseteq content[b]
    <3>1. PICK i \in 1 .. Len(backends) : b = backends[i]
      BY <2>1 DEF B!Range
    <3>2. memfd[b] /\ (b \in B!PackageBackends => Answered(b))
      BY <3>1 DEF BackendInv, BackendAnswers
    <3> QED BY <3>2 DEF BackendInv, BackendProgress, Answered
  <2> QED BY <2>1, <2>2
<1> QED BY <1>1, InitBackends, BackendStep, PTL DEF B!Spec

-----------------------------------------------------------------------------
(* The measure of a reload.                                                    *)

\* Products of naturals, for the bound on what is left to do.
LEMMA Product == \A m, n \in Nat : m * n \in Nat /\ (m + 1) * n = m * n + n
OBVIOUS

\* Every step the daemon takes in a reload leaves less to do, whatever the loader
\* does: neither a hung loader nor a dying one keeps the update thread.
THEOREM Backends_ReloadAlwaysEnds ==
    ASSUME BackendParameters PROVE B!Spec => B!ReloadAlwaysEnds
<1> DEFINE Ahead == Len(backends) - at
           cost == Intervals + 3
<1>1. ASSUME BackendInv, BackendInv', pc # "idle", B!Daemon
      PROVE  B!StepsLeft' < B!StepsLeft
  <2>1. /\ Intervals \in Nat /\ cost \in Nat /\ remaining \in 0 .. Intervals
        /\ at \in Nat \ {0} /\ at' \in Nat \ {0} /\ Len(backends) \in Nat /\ Len(backends') \in Nat
    BY <1>1 DEF BackendParameters, BackendInv, BackendTypes
  <2>2. pc \in {"load", "wait", "recv"} => Ahead \in Nat
    BY <1>1, <2>1 DEF BackendInv, BackendPhases
  <2>3. pc \in {"load", "wait", "recv"} => Ahead * cost \in Nat
    BY <2>1, <2>2, Product
  <2>4. B!StepsLeft = CASE pc = "idle" -> 0
                        [] pc = "close" -> 1
                        [] pc = "use" -> 2
                        [] pc = "recv" -> Ahead * cost + 3
                        [] pc = "wait" -> Ahead * cost + 4 + remaining
                        [] pc = "load" -> Ahead * cost + 5 + Intervals
    BY DEF B!StepsLeft
  <2>5. /\ pc' = "idle" => B!StepsLeft' = 0
        /\ pc' = "close" => B!StepsLeft' = 1
        /\ pc' = "use" => B!StepsLeft' = 2
        /\ pc' = "recv" => B!StepsLeft' = Ahead' * cost + 3
        /\ pc' = "wait" => B!StepsLeft' = Ahead' * cost + 4 + remaining'
        /\ pc' = "load" => B!StepsLeft' = Ahead' * cost + 5 + Intervals
    BY DEF B!StepsLeft
  <2>6. /\ pc = "close" => B!StepsLeft = 1
        /\ pc = "use" => B!StepsLeft = 2
        /\ pc = "recv" => B!StepsLeft = Ahead * cost + 3
        /\ pc = "wait" => B!StepsLeft = Ahead * cost + 4 + remaining
        /\ pc = "load" => B!StepsLeft = Ahead * cost + 5 + Intervals
    BY <2>4
  <2>7. ASSUME B!Loaded, backends' = backends, pc \in {"load", "recv"}
        PROVE  B!StepsLeft' < Ahead * cost + 3
    <3>1. CASE at = Len(backends)
      <4>1. B!StepsLeft' = 2
        BY <2>5, <2>7, <3>1 DEF B!Loaded
      <4> QED BY <2>3, <2>7, <4>1
    <3>2. CASE at # Len(backends)
      <4>1. pc' = "load" /\ at' = at + 1
        BY <2>7, <3>2 DEF B!Loaded
      <4>2. Ahead' \in Nat /\ Ahead = Ahead' + 1
        BY <2>1, <2>2, <2>7, <3>2, <4>1
      <4>3. Ahead' * cost \in Nat /\ Ahead * cost = Ahead' * cost + cost
        BY <2>1, <4>2, Product, Zenon
      <4>4. B!StepsLeft' = Ahead' * cost + 5 + Intervals
        BY <2>5, <4>1
      <4> HIDE DEF Ahead
      <4> QED BY <2>1, <4>3, <4>4
    <3> QED BY <3>1, <3>2
  <2>8. pc \in {"load", "wait", "recv", "use"} /\ pc' = "close" => B!StepsLeft' < B!StepsLeft
    BY <2>1, <2>3, <2>5, <2>6
  <2>9. CASE B!file_load_list
    <3>1. pc = "load" /\ backends' = backends /\ (pc' = "close" \/ B!Loaded)
      BY <2>9 DEF B!file_load_list, B!Failed
    <3>2. CASE B!Loaded
      <4>1. B!StepsLeft' < Ahead * cost + 3 /\ B!StepsLeft = Ahead * cost + 5 + Intervals
        BY <2>6, <2>7, <3>1, <3>2
      <4>2. B!StepsLeft' \in Int
        BY <2>1, <2>2, <2>5, <3>1, <3>2 DEF B!Loaded
      <4> HIDE DEF Ahead
      <4> QED BY <2>1, <2>3, <3>1, <4>1, <4>2
    <3> QED BY <2>8, <3>1, <3>2
  <2>10. ASSUME NEW b, B!SpawnLoader(b) PROVE B!StepsLeft' < B!StepsLeft
    <3>1. pc = "load" /\ backends' = backends /\ at' = at
          /\ (pc' = "close" \/ (pc' = "wait" /\ remaining' = Intervals))
      BY <2>10 DEF B!SpawnLoader, B!Failed
    <3>2. Ahead' = Ahead
      BY <3>1
    <3> HIDE DEF Ahead
    <3> QED BY <2>1, <2>3, <2>5, <2>6, <2>8, <3>1, <3>2
  <2>11. CASE B!backend_wait_for_loader
    <3>1. /\ pc = "wait" /\ backends' = backends /\ at' = at
          /\ \/ pc' = "close" \/ (pc' = "recv" /\ remaining' = remaining)
             \/ (pc' = "wait" /\ remaining' = remaining - 1)
      BY <2>11 DEF B!backend_wait_for_loader, B!Failed
    <3>2. Ahead' = Ahead
      BY <3>1
    <3> HIDE DEF Ahead
    <3> QED BY <2>1, <2>3, <2>5, <2>6, <2>8, <3>1, <3>2
  <2>12. CASE B!ReceiveMemfd
    <3>1. pc = "recv" /\ backends' = backends /\ (pc' = "close" \/ B!Loaded)
      BY <2>12 DEF B!ReceiveMemfd, B!Failed
    <3> QED BY <2>3, <2>6, <2>7, <2>8, <3>1
  <2>13. CASE B!UseSnapshots \/ B!backend_close
    BY <2>5, <2>6, <2>13 DEF B!UseSnapshots, B!backend_close
  <2>14. ~B!backend_init
    BY <1>1 DEF B!backend_init
  <2> QED BY <1>1, <2>9, <2>10, <2>11, <2>12, <2>13, <2>14
          DEF B!Daemon, B!rpm_load_list, B!deb_load_list
<1>2. BackendInv /\ BackendInv' /\ [B!Next]_B!vars =>
         [pc # "idle" /\ B!Daemon => B!StepsLeft' < B!StepsLeft]_B!vars
  BY <1>1
<1> QED BY <1>2, InitBackends, BackendStep, PTL DEF B!Spec, B!ReloadAlwaysEnds

-----------------------------------------------------------------------------
(* The memory of the snapshots.                                                *)

\* The instance counts as this module does.
LEMMA SameCardinality == \A S : B!Cardinality(S) = Cardinality(S)
BY DEF B!Cardinality, Cardinality

\* Held snapshots are finitely many.
LEMMA HeldFacts ==
    /\ IsFiniteSet(B!Compiled)
    /\ \A S \in SUBSET B!Compiled : IsFiniteSet(S) /\ Cardinality(S) \in Nat
    /\ \A S \in SUBSET B!Compiled : \A b \in B!Compiled \ S :
          Cardinality(S \cup {b}) = Cardinality(S) + 1
<1>1. IsFiniteSet({}) /\ \A T, x : IsFiniteSet(T) => IsFiniteSet(T \cup {x})
  BY FS_EmptySet, FS_AddElement, Zenon
<1>2. B!Compiled = (({} \cup {"rpmdb"}) \cup {"debdb"}) \cup {"file"}
  BY DEF B!Compiled, B!PackageBackends
<1>3. IsFiniteSet(B!Compiled)
  BY <1>1, <1>2, Zenon
<1>4. ASSUME NEW S \in SUBSET B!Compiled PROVE IsFiniteSet(S) /\ Cardinality(S) \in Nat
  BY <1>3, FS_Subset, FS_CardinalityType, Zenon
<1>5. ASSUME NEW S \in SUBSET B!Compiled, NEW b \in B!Compiled \ S
      PROVE  Cardinality(S \cup {b}) = Cardinality(S) + 1
  BY <1>4, FS_AddElement
<1> QED BY <1>3, <1>4, <1>5, Zenon

\* Nothing that counts for the memory changes.
LEMMA HeldKept ==
    ASSUME BackendHeld, UNCHANGED <<trust, memfd, open, replaced, backends>>,
           pc' \in {"load", "wait", "recv"} => pc \in {"load", "wait", "recv"} /\ at <= at',
           BackendTypes, BackendTypes'
    PROVE  BackendHeld'
<1>1. Held' = Held
  BY DEF Held
<1>2. at \in Int /\ at' \in Int /\ Len(backends) \in Nat
  BY DEF BackendTypes
<1>3. B!NamedOnce(trust') = B!NamedOnce(trust)
  OBVIOUS
<1> QED BY <1>1, <1>2, <1>3 DEF BackendHeld

\* A back-end gets a memfd, or another one when it was named before.
LEMMA OneMore ==
    ASSUME BackendInv, BackendHeld, pc \in {"load", "recv"}, B!Loaded, B!SetMemfd(B!b_at),
           backends' = backends, trust' = trust
    PROVE  BackendHeld'
<1>1. /\ at \in 1 .. Len(backends) /\ Len(backends) \in Nat /\ B!b_at \in B!Compiled
      /\ memfd \in [B!Compiled -> BOOLEAN] /\ B!b_at = backends[at] /\ backends = trust
  BY DEF BackendInv, BackendTypes, BackendPhases, B!b_at
<1>2. B!b_at \in Held => ~B!NamedOnce(trust)
  <2> SUFFICES ASSUME B!b_at \in Held, B!NamedOnce(trust) PROVE FALSE
    OBVIOUS
  <2>1. PICK i \in 1 .. Len(backends) : backends[i] = B!b_at /\ i < at
    BY DEF BackendHeld
  <2> QED BY <1>1, <2>1 DEF B!NamedOnce
<1>3. /\ memfd'[B!b_at] /\ DOMAIN memfd' = B!Compiled
      /\ \A b \in B!Compiled : b # B!b_at => memfd'[b] = memfd[b]
  BY <1>1 DEF B!SetMemfd
<1>4. Held' = Held \cup {B!b_at}
  <2>1. \A b : b \in Held' <=> b \in B!Compiled /\ memfd'[b]
    BY Zenon DEF Held
  <2>2. \A b : b \in Held <=> b \in B!Compiled /\ memfd[b]
    BY Zenon DEF Held
  <2> QED BY <1>1, <1>3, <2>1, <2>2, Zenon
<1>5. /\ replaced' \in Nat /\ open' = Cardinality(Held') + replaced'
      /\ B!NamedOnce(trust') => replaced' = 0
  <2>1. Held \in SUBSET B!Compiled /\ Cardinality(Held) \in Nat /\ open' = open + 1
    BY HeldFacts DEF Held, B!SetMemfd
  <2>2. CASE B!b_at \in Held
    <3>1. replaced' = replaced + 1 /\ Held' = Held
      BY <1>4, <2>2 DEF B!SetMemfd, Held
    <3> QED BY <1>2, <2>1, <2>2, <3>1 DEF BackendHeld
  <2>3. CASE B!b_at \notin Held
    <3>1. ~memfd[B!b_at]
      BY <1>1, <2>3, Zenon DEF Held
    <3>2. replaced' = replaced
      BY <3>1, Zenon DEF B!SetMemfd
    <3>3. Cardinality(Held') = Cardinality(Held) + 1
      BY <1>1, <1>4, <2>1, <2>3, HeldFacts
    <3>4. B!NamedOnce(trust') = B!NamedOnce(trust)
      OBVIOUS
    <3> QED BY <2>1, <3>2, <3>3, <3>4 DEF BackendHeld
  <2> QED BY <2>2, <2>3
<1>6. ASSUME NEW b \in Held'
      PROVE  \E i \in 1 .. Len(backends) :
                backends[i] = b /\ (pc' \in {"load", "wait", "recv"} => i < at')
  <2>1. \E i \in 1 .. Len(backends) : backends[i] = b /\ i <= at
    BY <1>1, <1>4 DEF BackendHeld
  <2>2. pc' = "use" \/ (pc' = "load" /\ at' = at + 1)
    BY DEF B!Loaded
  <2> QED BY <1>1, <2>1, <2>2
<1> QED BY <1>5, <1>6 DEF BackendHeld

\* Every step keeps the count of held snapshots exact.
LEMMA HeldStep ==
    BackendParameters /\ BackendInv /\ BackendInv' /\ BackendHeld /\ [B!Next]_B!vars
       => BackendHeld'
<1> SUFFICES ASSUME BackendParameters, BackendInv, BackendInv', BackendHeld, [B!Next]_B!vars
             PROVE  BackendHeld'
  OBVIOUS
<1> USE DEF BackendInv
<1>1. CASE B!backend_init
  <2>1. /\ pc = "idle" /\ backends = <<>> /\ memfd' = memfd /\ open' = open
        /\ replaced' = replaced /\ trust' = trust
    BY <1>1 DEF B!backend_init, BackendPhases
  <2>2. Held = {} /\ Held' = Held
    BY <2>1 DEF BackendHeld, Held
  <2>3. B!NamedOnce(trust') = B!NamedOnce(trust)
    BY <2>1
  <2> QED BY <2>1, <2>2, <2>3 DEF BackendHeld
<1>2. CASE B!file_load_list
  BY <1>2, HeldKept, OneMore DEF B!file_load_list, B!Failed
<1>3. CASE B!ReceiveMemfd
  BY <1>3, HeldKept, OneMore DEF B!ReceiveMemfd, B!Failed
<1>4. CASE B!backend_close
  <2>1. /\ backends' = <<>> /\ pc' = "idle" /\ replaced' = replaced /\ trust' = trust
        /\ memfd' = [b \in B!Compiled |-> memfd[b] /\ b \notin B!Range(backends)]
        /\ open' = open - Cardinality({b \in B!Range(backends) : memfd[b]})
    <3>1. open' = open - B!Cardinality({b \in B!Range(backends) : memfd[b]})
      BY <1>4, Zenon DEF B!backend_close
    <3>2. B!Cardinality({b \in B!Range(backends) : memfd[b]})
             = Cardinality({b \in B!Range(backends) : memfd[b]})
      BY SameCardinality, Zenon
    <3>3. open' = open - Cardinality({b \in B!Range(backends) : memfd[b]})
      BY <3>1, <3>2, Zenon
    <3> QED BY <1>4, <3>3, Zenon DEF B!backend_close
  <2>2. /\ backends \in Seq(STRING) /\ \A b \in B!Range(backends) : b \in B!Compiled
        /\ \A b \in Held : b \in B!Range(backends)
    BY DEF BackendTypes, BackendPhases, BackendHeld, B!Range
  <2>3. {b \in B!Range(backends) : memfd[b]} = Held
    BY <2>2, Zenon DEF Held
  <2>4. Held' = {}
    <3> SUFFICES ASSUME NEW b \in B!Compiled, memfd'[b] PROVE FALSE
      BY Zenon DEF Held
    <3>1. memfd[b] /\ b \notin B!Range(backends)
      BY <2>1, Zenon
    <3> QED BY <2>2, <3>1 DEF Held
  <2>5. Cardinality(Held) \in Nat /\ Cardinality({}) = 0
    BY HeldFacts, FS_EmptySet DEF Held
  <2>6. open' = Cardinality(Held') + replaced'
    <3>1. open' = open - Cardinality(Held)
      BY <2>1, <2>3, Zenon
    <3>2. open = Cardinality(Held) + replaced /\ replaced \in Nat
      BY DEF BackendHeld
    <3> QED BY <2>1, <2>4, <2>5, <3>1, <3>2
  <2>7. B!NamedOnce(trust') = B!NamedOnce(trust)
    BY <2>1
  <2> QED BY <2>1, <2>4, <2>6, <2>7 DEF BackendHeld
<1>5. ASSUME NEW b, B!SpawnLoader(b) PROVE BackendHeld'
  BY <1>5, HeldKept DEF B!SpawnLoader, B!Failed, BackendTypes
<1>6. CASE B!backend_wait_for_loader \/ B!UseSnapshots
  BY <1>6, HeldKept DEF B!backend_wait_for_loader, B!UseSnapshots, B!Failed, BackendTypes
<1>7. CASE B!LoaderOnly \/ B!Stop \/ UNCHANGED B!vars
  BY <1>7, HeldKept DEF B!LoaderOnly, B!Stop, B!vars, BackendTypes
<1>8. B!Loader => B!LoaderOnly
  BY DEF B!Loader, B!LoaderStarts, B!NoIterator, B!do_rpm_load_list, B!do_deb_load_list,
         B!LoadFile, B!LoadFileFails, B!LoaderSends
<1> QED BY <1>1, <1>2, <1>3, <1>4, <1>5, <1>6, <1>7, <1>8
        DEF B!Next, B!Daemon, B!rpm_load_list, B!deb_load_list

\* Whatever step of a reload fails, its snapshots are closed with it.  The daemon
\* holds a memfd that no back-end refers to only if the option trust names a back-end
\* twice, one for each time that back-end was given another memfd.
THEOREM Backends_SnapshotsReleased ==
    ASSUME BackendParameters PROVE B!Spec => []B!SnapshotsReleased
<1>1. B!Init => BackendHeld
  <2> SUFFICES ASSUME B!Init PROVE BackendHeld
    OBVIOUS
  <2>1. Held = {} /\ backends = <<>> /\ open = 0 /\ replaced = 0
    BY DEF B!Init, Held
  <2> QED BY <2>1, FS_EmptySet DEF BackendHeld
<1>2. BackendInv /\ BackendHeld => B!SnapshotsReleased
  <2> SUFFICES ASSUME BackendInv, BackendHeld PROVE B!SnapshotsReleased
    OBVIOUS
  <2>1. open = B!Cardinality({b \in B!Compiled : memfd[b]}) + replaced
    BY SameCardinality DEF BackendHeld, Held
  <2>2. pc = "idle" => backends = <<>> /\ Held = {}
    BY DEF BackendInv, BackendPhases, BackendHeld
  <2>3. pc = "idle" => open = replaced
    BY <2>2, FS_EmptySet DEF BackendHeld
  <2>4. B!NamedOnce(trust) => replaced = 0
    BY DEF BackendHeld
  <2> QED BY <2>1, <2>2, <2>3, <2>4 DEF B!SnapshotsReleased
<1> QED BY <1>1, <1>2, InitBackends, BackendStep, HeldStep, PTL DEF B!Spec

-----------------------------------------------------------------------------
(* The room a reload has in the map (module Autosize).                         *)
CONSTANTS PagesPerMb, UINT_MAX, ActivePages, Pinned, Baselines

VARIABLES auto, active, highwater, map, db_max_size, autosize_reload_floor_mb,
          compaction, before, inspected

Z == INSTANCE Autosize

SizeParameters ==
    /\ PagesPerMb \in Nat \ {0} /\ UINT_MAX \in Nat \ {0}
    /\ ActivePages \subseteq Nat /\ Pinned \subseteq Nat /\ Baselines \subseteq Nat

SizeTypes ==
    /\ auto \in BOOLEAN /\ inspected \in BOOLEAN /\ active \in Nat /\ highwater \in Nat /\ map \in Nat
    /\ db_max_size \in Nat /\ autosize_reload_floor_mb \in Nat
    /\ compaction \in [target : Nat, fallback : Nat] /\ before \in [size : Nat, floor : Nat]
    /\ pc \in {"off", "open", "idle", "resize", "preflight", "import", "retry"}

\* A map of m MiB for a file of h pages is the size it was given, or more because
\* the file needs it.
Mapped(m, size, h) == size <= m /\ (m <= size \/ m <= Z!CeilDiv(h, PagesPerMb))

\* The map follows db_max_size, except while a resize is due, and a preflight that
\* could inspect the database has made room for a second copy.
SizeInv ==
    /\ SizeTypes
    /\ pc \in {"idle", "preflight", "import", "retry"} => Mapped(map, db_max_size, highwater)
    /\ pc = "resize" => Mapped(map, before.size, highwater)
    /\ pc = "import" /\ inspected /\ auto /\ active # 0 => Z!recommended_mb(active) <= map

\* The greater and the lesser of two integers.
LEMMA MaxMin ==
    ASSUME NEW a \in Int, NEW b \in Int
    PROVE  /\ Z!Max({a, b}) \in {a, b} /\ a <= Z!Max({a, b}) /\ b <= Z!Max({a, b})
           /\ Z!Min({a, b}) \in {a, b} /\ Z!Min({a, b}) <= a /\ Z!Min({a, b}) <= b
<1>1. \E x \in {a, b} : \A y \in {a, b} : x >= y
  OBVIOUS
<1>2. \E x \in {a, b} : \A y \in {a, b} : x =< y
  OBVIOUS
<1>3. Z!Max({a, b}) \in {a, b} /\ \A y \in {a, b} : Z!Max({a, b}) >= y
  BY <1>1 DEF Z!Max
<1>4. Z!Min({a, b}) \in {a, b} /\ \A y \in {a, b} : Z!Min({a, b}) =< y
  BY <1>2 DEF Z!Min
<1> QED BY <1>3, <1>4

\* A quotient rounded up covers the dividend.
LEMMA CeilDivCovers ==
    ASSUME NEW n \in Nat, NEW d \in Nat \ {0}
    PROVE  Z!CeilDiv(n, d) \in Nat /\ n <= Z!CeilDiv(n, d) * d
<1> DEFINE q == (n + d - 1) \div d
<1>1. q \in Int /\ q * d <= n + d - 1 /\ n + d - 1 < q * d + d
  OBVIOUS
<1>2. q >= 0
  OBVIOUS
<1> QED BY <1>1, <1>2 DEF Z!CeilDiv

\* Products with a natural are monotone.
LEMMA MulMono == ASSUME NEW a \in Nat, NEW b \in Nat, NEW d \in Nat, a <= b PROVE a * d <= b * d
OBVIOUS

\* A quotient rounded up grows with the dividend.
LEMMA CeilDivMono ==
    ASSUME NEW a \in Nat, NEW b \in Nat, NEW d \in Nat \ {0}, a <= b
    PROVE  Z!CeilDiv(a, d) <= Z!CeilDiv(b, d)
<1> DEFINE s == (a + d - 1) \div d
           t == (b + d - 1) \div d
<1>1. s \in Int /\ s * d <= a + d - 1 /\ t \in Int /\ b + d - 1 < t * d + d /\ s >= 0 /\ t >= 0
  OBVIOUS
<1>2. ASSUME s > t PROVE FALSE
  <2> HIDE DEF s, t
  <2>1. t + 1 \in Nat /\ s \in Nat /\ t + 1 <= s
    BY <1>1, <1>2
  <2>2. (t + 1) * d <= s * d
    BY <2>1, MulMono
  <2>3. (t + 1) * d = t * d + d
    BY <1>1
  <2> QED BY <1>1, <2>2, <2>3
<1> QED BY <1>1, <1>2 DEF Z!CeilDiv

\* complete_lmdb_sizing_state(): a map of the recommended size, unless it is
\* clamped, holds two copies below the 80 percent mark.
LEMMA RecommendedRoom ==
    ASSUME SizeParameters, NEW p \in Nat
    PROVE  /\ Z!recommended_mb(p) \in Nat
           /\ \A m \in Nat : Z!recommended_mb(p) <= m /\ m < UINT_MAX =>
                 p * 2 * 100 <= m * PagesPerMb * 80
<1> DEFINE p1 == Z!pages_for_percent(p, 75)
           p2 == Z!pages_for_percent(p * 2, 80)
           n == Z!Max({p1, p2}) + 1
           c == Z!CeilDiv(n, PagesPerMb)
<1>1. p1 \in Nat /\ p2 \in Nat /\ p * 2 * 100 <= p2 * 80
  BY CeilDivCovers DEF Z!pages_for_percent
<1>2. n \in Nat /\ p2 <= n
  BY <1>1, MaxMin
<1>3. c \in Nat /\ n <= c * PagesPerMb
  BY <1>2, CeilDivCovers DEF SizeParameters
<1>4. Z!recommended_mb(p) = Z!Max({1, Z!Min({UINT_MAX, c})})
  BY DEF Z!recommended_mb, Z!pages_to_mb, Z!TRUST_DB_ACTIVE_TARGET_PERCENT,
         Z!TRUST_DB_RELOAD_WORK_FACTOR, Z!TRUST_DB_RELOAD_HIGHWATER_PERCENT
<1> HIDE DEF p1, p2, n, c
<1>5. Z!Min({UINT_MAX, c}) \in {UINT_MAX, c} /\ Z!Min({UINT_MAX, c}) \in Int
  <2>1. UINT_MAX \in Int /\ c \in Int
    BY <1>3 DEF SizeParameters
  <2>2. Z!Min({UINT_MAX, c}) \in {UINT_MAX, c}
    BY <2>1, MaxMin, Zenon
  <2> QED BY <2>1, <2>2
<1>6. /\ Z!recommended_mb(p) \in {1, Z!Min({UINT_MAX, c})}
      /\ Z!Min({UINT_MAX, c}) <= Z!recommended_mb(p)
  <2> DEFINE k == Z!Min({UINT_MAX, c})
  <2>1. 1 \in Int /\ k \in Int
    BY <1>5
  <2> HIDE DEF k
  <2>2. Z!Max({1, k}) \in {1, k} /\ k <= Z!Max({1, k})
    BY <2>1, MaxMin, Zenon
  <2> QED BY <1>4, <2>2 DEF k
<1>7. Z!recommended_mb(p) \in Nat
  BY <1>3, <1>5, <1>6 DEF SizeParameters
<1>8. ASSUME NEW m \in Nat, Z!recommended_mb(p) <= m, m < UINT_MAX
      PROVE  p * 2 * 100 <= m * PagesPerMb * 80
  <2>1. c <= m
    BY <1>3, <1>5, <1>6, <1>7, <1>8 DEF SizeParameters
  <2>2. c * PagesPerMb <= m * PagesPerMb /\ c * PagesPerMb \in Nat /\ m * PagesPerMb \in Nat
    BY <1>3, <2>1, MulMono DEF SizeParameters
  <2>3. p2 <= m * PagesPerMb
    BY <1>1, <1>2, <1>3, <2>2
  <2> QED BY <1>1, <2>2, <2>3
<1> QED BY <1>7, <1>8

\* The greater of two naturals is one.
LEMMA MaxOfNat == ASSUME NEW a \in Nat, NEW b \in Nat PROVE Z!Max({a, b}) \in Nat
<1>1. a \in Int /\ b \in Int
  OBVIOUS
<1>2. Z!Max({a, b}) \in {a, b}
  BY <1>1, MaxMin, Zenon
<1> QED BY <1>2

\* LMDB maps what it was asked for or what the file holds, whichever is more.
LEMMA MapCovers ==
    ASSUME SizeParameters, NEW mb \in Nat, NEW pages \in Nat
    PROVE  /\ Z!mdb_env_set_mapsize(mb, pages) \in Nat
           /\ mb <= Z!mdb_env_set_mapsize(mb, pages)
           /\ Z!CeilDiv(pages, PagesPerMb) <= Z!mdb_env_set_mapsize(mb, pages)
           /\ Z!mdb_env_set_mapsize(mb, pages) \in {mb, Z!CeilDiv(pages, PagesPerMb)}
<1> DEFINE c == Z!CeilDiv(pages, PagesPerMb)
           t == Z!Max({mb, c})
<1>1. c \in Nat /\ mb \in Int /\ c \in Int
  BY CeilDivCovers DEF SizeParameters
<1>2. t \in {mb, c} /\ mb <= t /\ c <= t
  BY <1>1, MaxMin, Zenon
<1>3. Z!mdb_env_set_mapsize(mb, pages) = t
  BY DEF Z!mdb_env_set_mapsize
<1>4. t \in Nat
  <2> HIDE DEF c, t
  <2> QED BY <1>1, <1>2
<1> QED BY <1>2, <1>3, <1>4

\* apply_autosize_plan(): a preflight never plans less than is recommended.
LEMMA Plans ==
    ASSUME SizeParameters, SizeTypes
    PROVE  /\ \A mode : /\ Z!autosize_effective_target_mb(mode) \in Nat
                        /\ Z!recommended_mb(active) <= Z!autosize_effective_target_mb(mode)
           /\ \A mode : \A size \in Nat : Z!apply_autosize_plan(size, mode) \in Nat
           /\ \A size \in Nat :
                 active # 0 => Z!recommended_mb(active) <= Z!apply_autosize_plan(size, "preflight")
<1>1. Z!recommended_mb(active) \in Nat
  BY RecommendedRoom DEF SizeTypes
<1>2. ASSUME NEW mode
      PROVE  /\ Z!autosize_effective_target_mb(mode) \in Nat
             /\ Z!recommended_mb(active) <= Z!autosize_effective_target_mb(mode)
  <2> DEFINE r == Z!recommended_mb(active)
             t == Z!Max({r, autosize_reload_floor_mb})
  <2>1. r \in Int /\ autosize_reload_floor_mb \in Int
    BY <1>1 DEF SizeTypes
  <2>2. t \in {r, autosize_reload_floor_mb} /\ r <= t
    BY <2>1, MaxMin, Zenon
  <2>3. Z!autosize_effective_target_mb(mode) \in {r, t}
    BY DEF Z!autosize_effective_target_mb
  <2> HIDE DEF r, t
  <2>4. r \in Nat /\ t \in Nat
    BY <1>1, <2>2 DEF r, SizeTypes
  <2> QED BY <2>2, <2>3, <2>4 DEF r
<1>3. ASSUME NEW mode, NEW size \in Nat
      PROVE  /\ Z!apply_autosize_plan(size, mode) \in Nat
             /\ mode = "preflight" /\ active # 0 =>
                   Z!recommended_mb(active) <= Z!apply_autosize_plan(size, mode)
  <2> DEFINE t == Z!autosize_effective_target_mb(mode)
  <2>1. t \in Nat /\ Z!recommended_mb(active) <= t
    BY <1>2
  <2>2. /\ active = 0 => Z!apply_autosize_plan(size, mode) = size
        /\ active # 0 /\ t > size => Z!apply_autosize_plan(size, mode) = t
        /\ active # 0 /\ t <= size => Z!apply_autosize_plan(size, mode) =
              IF mode # "preflight" /\ Z!autosize_shrink_allowed(size, mode) THEN t ELSE size
    <3> HIDE DEF t
    <3>1. Z!apply_autosize_plan(size, mode) =
            CASE active = 0 -> size
              [] active # 0 /\ t > size -> t
              [] active # 0 /\ t <= size ->
                    IF mode # "preflight" /\ Z!autosize_shrink_allowed(size, mode)
                    THEN t ELSE size
      BY DEF Z!apply_autosize_plan, t
    <3> QED BY <2>1, <3>1
  <2> HIDE DEF t
  <2> QED BY <1>1, <2>1, <2>2 DEF SizeTypes
<1> QED BY <1>2, <1>3

\* autosize_reload_growth_step_mb(): at least one MiB.
LEMMA StepGrows ==
    ASSUME NEW m \in Nat
    PROVE  /\ Z!autosize_reload_growth_step_mb(m) \in Nat
           /\ m + 1 <= Z!autosize_reload_growth_step_mb(m)
<1> DEFINE k == m + m \div 4
<1>1. k \in Nat /\ k \in Int /\ m + 1 \in Int /\ m + 1 \in Nat
  OBVIOUS
<1>2. Z!autosize_reload_growth_step_mb(m) = Z!Max({k, m + 1})
  BY DEF Z!autosize_reload_growth_step_mb
<1> HIDE DEF k
<1>3. Z!Max({k, m + 1}) \in {k, m + 1} /\ m + 1 <= Z!Max({k, m + 1})
  BY <1>1, MaxMin, Zenon
<1> QED BY <1>1, <1>2, <1>3

\* autosize_reload_grow_target_mb(): more than the map when the environment was
\* inspected, more than the configured size in any case, or the clamp.
LEMMA GrowsBeyond ==
    ASSUME SizeParameters, SizeTypes, NEW seen \in BOOLEAN
    PROVE  /\ Z!grow_target_mb(seen) \in Nat
           /\ \/ Z!grow_target_mb(seen) = UINT_MAX
              \/ seen /\ Z!grow_target_mb(seen) > map
              \/ ~seen /\ Z!grow_target_mb(seen) > db_max_size
<1> DEFINE m == Z!Max({db_max_size, map})
           s == Z!autosize_reload_growth_step_mb(m)
           e == Z!autosize_effective_target_mb("preflight")
           g == IF seen THEN Z!Max({s, e}) ELSE Z!autosize_reload_growth_step_mb(db_max_size)
<1>1. m \in Nat /\ map <= m
  <2>1. db_max_size \in Int /\ map \in Int
    BY DEF SizeTypes
  <2>2. m \in {db_max_size, map} /\ map <= m
    BY <2>1, MaxMin, Zenon
  <2> QED BY <2>2 DEF SizeTypes
<1>2. s \in Nat /\ m + 1 <= s
  BY <1>1, StepGrows, Zenon
<1>3. Z!Max({s, e}) \in Nat /\ s <= Z!Max({s, e})
  <2>1. e \in Nat
    BY Plans
  <2> HIDE DEF s, e
  <2>2. s \in Int /\ e \in Int
    BY <1>2, <2>1
  <2>3. Z!Max({s, e}) \in {s, e} /\ s <= Z!Max({s, e})
    BY <2>2, MaxMin, Zenon
  <2> QED BY <1>2, <2>1, <2>3
<1>4. /\ Z!autosize_reload_growth_step_mb(db_max_size) \in Nat
      /\ db_max_size + 1 <= Z!autosize_reload_growth_step_mb(db_max_size)
  BY StepGrows DEF SizeTypes
<1>5. Z!grow_target_mb(seen) = Z!Min({UINT_MAX, g})
  BY DEF Z!grow_target_mb
<1>6. CASE seen
  <2>1. g = Z!Max({s, e})
    BY <1>6
  <2> HIDE DEF m, s, e, g
  <2>2. UINT_MAX \in Int /\ g \in Int /\ g \in Nat /\ g > map
    BY <1>1, <1>2, <1>3, <2>1 DEF SizeParameters, SizeTypes
  <2>3. Z!grow_target_mb(seen) \in {UINT_MAX, g}
    BY <1>5, <2>2, MaxMin, Zenon
  <2> QED BY <1>6, <2>2, <2>3 DEF SizeParameters
<1>7. CASE ~seen
  <2>1. g = Z!autosize_reload_growth_step_mb(db_max_size)
    BY <1>7
  <2> HIDE DEF m, s, e, g
  <2>2. UINT_MAX \in Int /\ g \in Int /\ g \in Nat /\ g > db_max_size
    BY <1>4, <2>1 DEF SizeParameters, SizeTypes
  <2>3. Z!grow_target_mb(seen) \in {UINT_MAX, g}
    BY <1>5, <2>2, MaxMin, Zenon
  <2> QED BY <1>7, <2>2, <2>3 DEF SizeParameters
<1> QED BY <1>6, <1>7

\* The sizes before the database is opened.
LEMMA SizeInit == SizeParameters /\ Z!Init => SizeInv
<1> SUFFICES ASSUME SizeParameters, Z!Init PROVE SizeInv
  OBVIOUS
<1>1. active \in Nat /\ highwater \in Nat /\ db_max_size \in Nat
  BY DEF Z!Init, SizeParameters
<1>2. PICK m \in Baselines : map = Z!mdb_env_set_mapsize(m, highwater)
  BY DEF Z!Init
<1>3. map \in Nat
  BY <1>1, <1>2, MapCovers DEF SizeParameters
<1> QED BY <1>1, <1>3 DEF Z!Init, SizeInv, SizeTypes, SizeParameters, Z!NoCompaction

\* What mdb_env_set_mapsize() leaves is described by the size it was given, however
\* the file grows after it.
LEMMA Remapped ==
    ASSUME SizeParameters, NEW size \in Nat, NEW pages \in Nat, NEW h \in Nat, pages <= h
    PROVE  Mapped(Z!mdb_env_set_mapsize(size, pages), size, h)
<1> DEFINE c == Z!CeilDiv(pages, PagesPerMb)
           d == Z!CeilDiv(h, PagesPerMb)
           m == Z!mdb_env_set_mapsize(size, pages)
<1>1. c \in Nat /\ d \in Nat /\ c <= d
  BY CeilDivCovers, CeilDivMono DEF SizeParameters
<1>2. m \in Nat /\ size <= m /\ m \in {size, c}
  BY MapCovers
<1> HIDE DEF c, d, m
<1>3. m <= size \/ m <= d
  BY <1>1, <1>2
<1> QED BY <1>2, <1>3 DEF Mapped, d, m

\* A map that stays is described by the size that described it.
LEMMA KeepsMapped ==
    ASSUME SizeParameters, NEW m \in Nat, NEW size \in Nat, NEW pages \in Nat, NEW h \in Nat,
           Mapped(m, size, pages), pages <= h
    PROVE  Mapped(m, size, h)
<1> DEFINE c == Z!CeilDiv(pages, PagesPerMb)
           d == Z!CeilDiv(h, PagesPerMb)
<1>1. c \in Nat /\ d \in Nat /\ c <= d
  BY CeilDivCovers, CeilDivMono DEF SizeParameters
<1>2. size <= m /\ (m <= size \/ m <= c)
  BY DEF Mapped
<1> HIDE DEF c, d
<1>3. m <= size \/ m <= d
  BY <1>1, <1>2
<1> QED BY <1>2, <1>3 DEF Mapped, d

\* Every action keeps the types.
LEMMA SizeTypesStep == SizeParameters /\ SizeTypes /\ [Z!Next]_(Z!vars) => SizeTypes'
<1> SUFFICES ASSUME SizeParameters, SizeTypes, [Z!Next]_(Z!vars) PROVE SizeTypes'
  OBVIOUS
<1>0. /\ \A mode : \A size \in Nat : Z!apply_autosize_plan(size, mode) \in Nat
      /\ \A mb, pages \in Nat : Z!mdb_env_set_mapsize(mb, pages) \in Nat
  BY Plans, MapCovers
<1>1. CASE Z!autosize_database_Startup
  BY <1>0, <1>1 DEF Z!autosize_database_Startup, SizeTypes,
     Z!mark_startup_compaction_needed, Z!NoCompaction
<1>2. CASE Z!StartUnsized
  BY <1>2 DEF Z!StartUnsized, SizeTypes
<1>3. CASE Z!CompactAtStartup
  BY <1>0, <1>3, Zenon DEF Z!CompactAtStartup, SizeTypes, Z!AfterStartup, Z!NoCompaction
<1>4. CASE Z!CompactAtStartupFails
  BY <1>4 DEF Z!CompactAtStartupFails, SizeTypes, Z!NoCompaction
<1>5. CASE Z!init_db
  BY <1>0, <1>5, Zenon DEF Z!init_db, SizeTypes, Z!AfterStartup
<1>6. CASE Z!autosize_database_Live
  <2>1. Z!apply_autosize_plan(map, "live") \in Nat
    BY <1>0, Zenon DEF SizeTypes
  <2> QED BY <1>6, <2>1 DEF Z!autosize_database_Live, SizeTypes
<1>7. CASE Z!LiveUninspected
  BY <1>7 DEF Z!LiveUninspected, SizeTypes
<1>8. CASE Z!Resize
  BY <1>0, <1>8 DEF Z!Resize, SizeTypes
<1>9. CASE Z!ResizeFails
  BY <1>0, <1>9 DEF Z!ResizeFails, SizeTypes
<1>10. CASE Z!autosize_reload_preflight
  <2> DEFINE size == Z!apply_autosize_plan(db_max_size, "preflight")
  <2>1. size \in Nat /\ Z!mdb_env_set_mapsize(size, highwater) \in Nat
    BY <1>0 DEF SizeTypes
  <2>2. db_max_size' \in Nat /\ map' \in Nat
    <3> HIDE DEF size
    <3> QED BY <1>10, <2>1 DEF Z!autosize_reload_preflight, SizeTypes, size
  <2> QED BY <1>10, <2>2 DEF Z!autosize_reload_preflight, SizeTypes
<1>11. CASE Z!PreflightUninspected
  BY <1>11 DEF Z!PreflightUninspected, SizeTypes
<1>12. CASE Z!PreflightFails
  BY <1>12 DEF Z!PreflightFails, SizeTypes
<1>13. ASSUME NEW new \in ActivePages, NEW pinned \in Pinned,
              \/ Z!Import(new, pinned) \/ Z!GrowMapAfterFull(new, pinned)
              \/ Z!ImportFails(new, pinned)
       PROVE  SizeTypes'
  <2> DEFINE used == active + new + pinned
             full == map * PagesPerMb
  <2>1. used \in Nat /\ full \in Nat /\ new \in Nat
    BY DEF SizeTypes, SizeParameters
  <2> HIDE DEF used, full
  <2>2. Z!Max({highwater, used}) \in Nat /\ Z!Max({highwater, full}) \in Nat
    BY <2>1, MaxOfNat DEF SizeTypes
  <2>3. CASE Z!Import(new, pinned)
    BY <2>1, <2>2, <2>3 DEF Z!Import, SizeTypes, used
  <2>4. CASE Z!GrowMapAfterFull(new, pinned)
    <3>1. inspected' \in BOOLEAN /\ Z!grow_target_mb(inspected') \in Nat
      BY <2>4, GrowsBeyond DEF Z!GrowMapAfterFull
    <3>2. db_max_size' \in Nat /\ map' \in Nat
      BY <1>0, <2>4, <3>1 DEF Z!GrowMapAfterFull, SizeTypes
    <3>3. autosize_reload_floor_mb' \in Nat
      BY <2>4, <3>2, MaxOfNat DEF Z!GrowMapAfterFull, SizeTypes
    <3> QED BY <2>2, <2>4, <3>1, <3>2, <3>3 DEF Z!GrowMapAfterFull, SizeTypes, full
  <2>5. CASE Z!ImportFails(new, pinned)
    BY <2>2, <2>5 DEF Z!ImportFails, SizeTypes, full
  <2> QED BY <1>13, <2>3, <2>4, <2>5
<1>14. CASE UNCHANGED Z!vars
  BY <1>14 DEF Z!vars, SizeTypes
<1> QED BY <1>1, <1>2, <1>3, <1>4, <1>5, <1>6, <1>7, <1>8, <1>9, <1>10, <1>11,
           <1>12, <1>13, <1>14 DEF Z!Next

\* Every action keeps the invariant.
LEMMA SizeStep == SizeParameters /\ SizeInv /\ [Z!Next]_(Z!vars) => SizeInv'
<1> SUFFICES ASSUME SizeParameters, SizeInv, [Z!Next]_(Z!vars) PROVE SizeInv'
  OBVIOUS
<1>0. /\ SizeTypes /\ SizeTypes' /\ highwater \in Nat /\ highwater' \in Nat
      /\ map \in Nat /\ db_max_size \in Nat /\ db_max_size' \in Nat /\ before.size \in Nat
      /\ active \in Nat /\ highwater <= highwater
  BY SizeTypesStep DEF SizeInv, SizeTypes
<1>s. \A size, pages, h \in Nat :
         pages <= h => Mapped(Z!mdb_env_set_mapsize(size, pages), size, h)
  BY Remapped
<1>1. CASE Z!autosize_database_Startup \/ Z!StartUnsized \/ Z!CompactAtStartupFails
  BY <1>0, <1>1 DEF Z!autosize_database_Startup, Z!StartUnsized, Z!CompactAtStartupFails, SizeInv
<1>2. CASE Z!CompactAtStartup
  <2>1. Mapped(map', db_max_size', highwater')
    BY <1>0, <1>2, <1>s DEF Z!CompactAtStartup
  <2> QED BY <1>0, <1>2, <2>1 DEF Z!CompactAtStartup, Z!AfterStartup, SizeInv
<1>3. CASE Z!init_db
  <2>1. Mapped(map', db_max_size', highwater')
    BY <1>0, <1>3, <1>s DEF Z!init_db
  <2> QED BY <1>0, <1>3, <2>1 DEF Z!init_db, Z!AfterStartup, SizeInv
<1>4. CASE Z!autosize_database_Live
  BY <1>0, <1>4 DEF Z!autosize_database_Live, SizeInv
<1>5. CASE Z!LiveUninspected
  BY <1>0, <1>5 DEF Z!LiveUninspected, SizeInv
<1>6. CASE Z!Resize
  <2>1. Mapped(map', db_max_size', highwater')
    BY <1>0, <1>6, <1>s DEF Z!Resize, SizeInv
  <2> QED BY <1>0, <1>6, <2>1 DEF Z!Resize, SizeInv
<1>7. CASE Z!ResizeFails
  <2>1. Mapped(map', db_max_size', highwater')
    BY <1>0, <1>7, <1>s DEF Z!ResizeFails, SizeInv
  <2> QED BY <1>0, <1>7, <2>1 DEF Z!ResizeFails, SizeInv
<1>8. CASE Z!autosize_reload_preflight
  <2> DEFINE size == Z!apply_autosize_plan(db_max_size, "preflight")
  <2>1. size \in Nat /\ (active # 0 => Z!recommended_mb(active) <= size)
    BY <1>0, Plans
  <2>2. Z!recommended_mb(active') = Z!recommended_mb(active) /\ Z!recommended_mb(active) \in Nat
    BY <1>0, <1>8, RecommendedRoom DEF Z!autosize_reload_preflight
  <2>3. /\ auto /\ size # db_max_size =>
               db_max_size' = size /\ map' = Z!mdb_env_set_mapsize(size, highwater)
        /\ ~(auto /\ size # db_max_size) => db_max_size' = db_max_size /\ map' = map
        /\ pc = "preflight" /\ pc' = "import" /\ auto' = auto /\ active' = active
        /\ highwater' = highwater
    BY <1>8 DEF Z!autosize_reload_preflight
  <2> HIDE DEF size
  <2>4. Mapped(map', db_max_size', highwater')
    BY <1>0, <1>s, <2>1, <2>3 DEF SizeInv
  <2>5. auto /\ active # 0 => size <= map'
    <3>1. db_max_size' <= map'
      BY <2>4 DEF Mapped
    <3>2. auto => db_max_size' = size
      BY <2>3
    <3> QED BY <3>1, <3>2
  <2>6. map' \in Nat
    BY <1>0 DEF SizeTypes
  <2>7. auto' /\ active' # 0 => Z!recommended_mb(active') <= map'
    BY <2>1, <2>2, <2>3, <2>5, <2>6
  <2> QED BY <1>0, <2>3, <2>4, <2>7 DEF SizeInv
<1>9. CASE Z!PreflightUninspected
  BY <1>0, <1>9 DEF Z!PreflightUninspected, SizeInv
<1>10. CASE Z!PreflightFails
  BY <1>0, <1>10 DEF Z!PreflightFails, SizeInv
<1>11. ASSUME NEW new \in ActivePages, NEW pinned \in Pinned,
              \/ Z!Import(new, pinned) \/ Z!GrowMapAfterFull(new, pinned)
              \/ Z!ImportFails(new, pinned)
       PROVE  SizeInv'
  <2> DEFINE used == active + new + pinned
             full == map * PagesPerMb
  <2>1. used \in Int /\ full \in Int /\ highwater \in Int
    BY <1>0 DEF SizeTypes, SizeParameters
  <2>2. highwater' \in {Z!Max({highwater, used}), Z!Max({highwater, full})}
    BY <1>11 DEF Z!Import, Z!GrowMapAfterFull, Z!ImportFails
  <2>3. highwater <= highwater'
    <3> HIDE DEF used, full
    <3>1. highwater <= Z!Max({highwater, used}) /\ highwater <= Z!Max({highwater, full})
      BY <2>1, MaxMin, Zenon
    <3> QED BY <2>2, <3>1
  <2>4. CASE Z!Import(new, pinned) \/ Z!ImportFails(new, pinned)
    <3>1. Mapped(map, db_max_size, highwater)
      BY <2>4 DEF Z!Import, Z!ImportFails, SizeInv
    <3>2. Mapped(map, db_max_size, highwater')
      BY <1>0, <2>3, <3>1, KeepsMapped
    <3> QED BY <1>0, <2>4, <3>2 DEF Z!Import, Z!ImportFails, SizeInv
  <2>5. CASE Z!GrowMapAfterFull(new, pinned)
    <3>1. Mapped(map', db_max_size', highwater')
      BY <1>0, <1>s, <2>3, <2>5 DEF Z!GrowMapAfterFull
    <3> QED BY <1>0, <2>5, <3>1 DEF Z!GrowMapAfterFull, SizeInv
  <2> QED BY <1>11, <2>4, <2>5
<1>12. CASE UNCHANGED Z!vars
  BY <1>0, <1>12 DEF Z!vars, SizeInv
<1> QED BY <1>1, <1>2, <1>3, <1>4, <1>5, <1>6, <1>7, <1>8, <1>9, <1>10, <1>11,
           <1>12 DEF Z!Next

\* The inductive invariant holds in every reachable state.
LEMMA Sized == ASSUME SizeParameters PROVE Z!Spec => []SizeInv
BY SizeInit, SizeStep, PTL DEF Z!Spec

\* autosize_reload_preflight(): an auto-sized reload that could inspect the open
\* environment starts its import with room for a candidate of the size of the active
\* generation, for every sequence of shrinks, growths, failed resizes and
\* uninspected reloads before it.
THEOREM Autosize_RoomForReload == ASSUME SizeParameters PROVE Z!Spec => []Z!RoomForReload
<1>1. ASSUME SizeInv PROVE Z!RoomForReload
  BY <1>1, RecommendedRoom DEF SizeInv, SizeTypes, Z!RoomForReload,
     Z!TRUST_DB_RELOAD_WORK_FACTOR, Z!TRUST_DB_RELOAD_HIGHWATER_PERCENT
<1> QED BY <1>1, Sized, PTL

\* grow_map_after_full(): below the clamp, a retry never has a smaller map than the
\* attempt that failed, and it has a larger one whenever the environment could be
\* inspected or the configured size is the size of the map.
THEOREM Autosize_RetryExpands == ASSUME SizeParameters PROVE Z!Spec => Z!RetryExpands
<1>1. ASSUME SizeInv, [Z!Next]_(Z!vars), pc = "import", pc' = "retry", map < UINT_MAX
      PROVE  map' >= map /\ (inspected' \/ db_max_size = map => map' > map)
  <2> DEFINE g == Z!grow_target_mb(inspected')
             c == Z!CeilDiv(highwater, PagesPerMb)
  <2>1. PICK new \in ActivePages, pinned \in Pinned : Z!GrowMapAfterFull(new, pinned)
    BY <1>1 DEF Z!Next, Z!autosize_database_Startup, Z!StartUnsized, Z!CompactAtStartup,
       Z!CompactAtStartupFails, Z!init_db, Z!autosize_database_Live, Z!LiveUninspected,
       Z!Resize, Z!ResizeFails, Z!autosize_reload_preflight, Z!PreflightUninspected,
       Z!PreflightFails, Z!Import, Z!ImportFails, Z!vars
  <2>2. /\ map \in Nat /\ db_max_size \in Nat /\ highwater \in Nat /\ SizeTypes
        /\ inspected' \in BOOLEAN /\ map' = Z!mdb_env_set_mapsize(g, highwater)
    BY <1>1, <2>1 DEF SizeInv, SizeTypes, Z!GrowMapAfterFull
  <2>3. g \in Nat /\ (g = UINT_MAX \/ (inspected' /\ g > map) \/ (~inspected' /\ g > db_max_size))
    BY <2>2, GrowsBeyond
  <2>4. map' \in Nat /\ g <= map' /\ c <= map' /\ c \in Nat
    BY <2>2, <2>3, MapCovers, CeilDivCovers DEF SizeParameters
  <2>5. db_max_size <= map /\ (map <= db_max_size \/ map <= c)
    BY <1>1 DEF SizeInv, Mapped
  <2> HIDE DEF g, c
  <2>6. g > map \/ g > db_max_size
    BY <1>1, <2>2, <2>3 DEF SizeParameters
  <2>7. inspected' => g > map
    BY <1>1, <2>2, <2>3 DEF SizeParameters
  <2>8. map' >= map
    BY <2>2, <2>3, <2>4, <2>5, <2>6
  <2>9. db_max_size = map => map' > map
    BY <2>2, <2>3, <2>4, <2>6
  <2>10. g > map => map' > map
    BY <2>2, <2>3, <2>4
  <2> QED BY <2>7, <2>8, <2>9, <2>10, Zenon
<1>2. ASSUME SizeInv, [Z!Next]_(Z!vars)
      PROVE  [pc = "import" /\ pc' = "retry" /\ map < UINT_MAX =>
                 map' >= map /\ (inspected' \/ db_max_size = map => map' > map)]_(Z!vars)
  BY <1>1, <1>2, Zenon
<1> QED BY <1>2, Sized, PTL DEF Z!Spec, Z!RetryExpands

=============================================================================
