-------------------------- MODULE DeploymentProofs --------------------------
(***************************************************************************)
(* Proofs about Deployment, for any number of deployments, recycles,       *)
(* restarts and faults.                                                    *)
(***************************************************************************)
EXTENDS Deployment, TLAPS

\* Who may still run.  At most one backend exists.  While the runner lives it
\* is the runner's child, recorded or about to be: a runner killed at any point
\* leaves the owner file naming it, or saying that one was being started.
Processes ==
    /\ \A p, q \in DOMAIN proc : Exists(p) /\ Exists(q) => p = q
    /\ \A p \in DOMAIN proc : Exists(p) =>
        \/ runner.pid = p
        \/ runner.pc = "down" /\ owner \in {p, Spawning}
    /\ runner.pid # NoProcess => owner \in {runner.pid, Spawning}
    /\ runner.pc \in {"down", "intend", "spawn", "rollback"} => runner.pid = NoProcess
    /\ runner.pc \in {"spawn", "record"} => owner = Spawning
    /\ runner.pc = "reaped" => ~Exists(runner.pid)

\* What the types of later values rest on.
Data ==
    /\ runner.pc # "down" => runner.bin \in Versions
    /\ runner.deploying => journal.phase # "none"
    /\ journal.phase # "none" => journal.bin \in Versions /\ journal.next \in Versions
    /\ runner.pc \in {"recycle", "fence", "retire"} => recycles < MaxRecycles
    /\ deployer.pc # "idle" => deployer.snapshot \in Versions

Inv == TypeOK /\ Processes /\ Data

JournalType == [phase : Phases, old : Nat, cand : Nat,
                prev : Nat, bin : Nat, next : Nat, gen : Nat]
ProcType == [bin : Versions, state : {"up", "zombie", "gone"}]
RunnerType(n) ==
    [pc : Positions, bin : Versions \cup {None}, pid : 0 .. n, gen : Nat,
     deploying : BOOLEAN, rollback : BOOLEAN, replacing : BOOLEAN,
     failures : Nat]
GuardType(n) ==
    [life : {"none", "serving", "absent", "dead"}, gen : Nat,
     txn : Versions \cup {None}, old : 0 .. n]
ListenerType(n) ==
    [state : {"off", "on", "accepted"}, pid : 0 .. n, gen : Nat,
     pin : Versions \cup {None}, bin : Versions]
DeployerType ==
    [pc : Stages, version : Versions, snapshot : Versions \cup {None},
     handoff : BOOLEAN, restarted : BOOLEAN, pid : Nat, gen : Nat]

\* The files and counters apart from the processes.
Scalars ==
    /\ pin \in Versions /\ loaded \in Versions
    /\ receipt \in Versions \cup {None} /\ commit \in Versions \cup {None}
    /\ recycles \in 0 .. MaxRecycles /\ faults \in 0 .. MaxFaults
    /\ reported \in Versions \cup {None}
    /\ deployer \in DeployerType

LEMMA TypeParts ==
    TypeOK <=>
        /\ journal \in JournalType /\ Scalars
        /\ owner \in {Spawning} \cup 0 .. Len(proc)
        /\ proc \in Seq(ProcType)
        /\ runner \in RunnerType(Len(proc))
        /\ guard \in GuardType(Len(proc))
        /\ listener \in ListenerType(Len(proc))
BY Zenon DEF TypeOK, JournalType, ProcType, RunnerType, GuardType, ListenerType,
             DeployerType, Scalars

LEMMA TypePartsNext ==
    ASSUME /\ journal' \in JournalType /\ Scalars'
           /\ owner' \in {Spawning} \cup 0 .. Len(proc')
           /\ proc' \in Seq(ProcType)
           /\ runner' \in RunnerType(Len(proc'))
           /\ guard' \in GuardType(Len(proc'))
           /\ listener' \in ListenerType(Len(proc'))
    PROVE  TypeOK'
BY Zenon DEF TypeOK, JournalType, ProcType, RunnerType, GuardType, ListenerType,
             DeployerType, Scalars

-----------------------------------------------------------------------------
(***************************************************************************)
(* Processes.                                                              *)
(***************************************************************************)
LEMMA ProcDomain ==
    ASSUME NEW ps \in Seq(ProcType)
    PROVE  Len(ps) \in Nat /\ DOMAIN ps = 1 .. Len(ps)
OBVIOUS

\* An update of the table of processes in place.
LEMMA ProcUpdate ==
    ASSUME NEW ps \in Seq(ProcType), NEW f, DOMAIN f = DOMAIN ps,
           f = [p \in DOMAIN f |-> f[p]], \A p \in DOMAIN ps : f[p] \in ProcType
    PROVE  f \in Seq(ProcType) /\ Len(f) = Len(ps)
<1>1. Len(ps) \in Nat /\ DOMAIN ps = 1 .. Len(ps)
    OBVIOUS
<1>2. f \in [1 .. Len(ps) -> ProcType]
    BY <1>1
<1> QED BY <1>1, <1>2

\* Waiting for a child leaves it gone and the others as they are.
LEMMA ReapedType ==
    ASSUME proc \in Seq(ProcType), NEW p \in 0 .. Len(proc)
    PROVE  /\ Reaped(p) \in Seq(ProcType) /\ Len(Reaped(p)) = Len(proc)
           /\ DOMAIN Reaped(p) = DOMAIN proc
           /\ \A q \in DOMAIN proc :
                Reaped(p)[q].state = IF q = p THEN "gone" ELSE proc[q].state
<1> DEFINE f == [proc EXCEPT ![p].state = "gone"]
<1>1. Len(proc) \in Nat /\ DOMAIN proc = 1 .. Len(proc)
    OBVIOUS
<1>2. CASE p = NoProcess
    BY <1>1, <1>2 DEF Reaped, NoProcess
<1>3. CASE p # NoProcess
  <2>1. p \in DOMAIN proc
      BY <1>1, <1>3 DEF NoProcess
  <2>2. DOMAIN f = DOMAIN proc /\ f = [q \in DOMAIN f |-> f[q]]
      OBVIOUS
  <2>3. \A q \in DOMAIN proc : proc[q] \in ProcType
      OBVIOUS
  <2>4. \A q \in DOMAIN proc : f[q] \in ProcType
                            /\ f[q].state = IF q = p THEN "gone" ELSE proc[q].state
      BY <2>1, <2>3 DEF ProcType
  <2>5. Reaped(p) = f
      BY <1>3 DEF Reaped
  <2> HIDE DEF f
  <2> QED BY <2>2, <2>4, <2>5, ProcUpdate
<1> QED BY <1>2, <1>3

\* A step that starts and stops no backend, of a runner that is up.
LEMMA RunsOn ==
    ASSUME Processes, UNCHANGED <<proc, owner>>, runner'.pid = runner.pid,
           runner.pc # "down",
           runner'.pc \notin {"down", "intend", "spawn", "rollback", "record", "reaped"}
    PROVE  Processes'
BY DEF Processes, Exists

\* A step that starts and stops no backend, of anyone else.
LEMMA Elsewhere ==
    ASSUME Processes, UNCHANGED <<proc, owner, runner>> PROVE Processes'
BY DEF Processes, Exists

\* The runner waits for its child and goes on without one.
LEMMA Reaps ==
    ASSUME Processes, proc \in Seq(ProcType), runner.pid \in 0 .. Len(proc),
           proc' = Reaped(runner.pid), owner' = owner, runner'.pid = NoProcess,
           runner.pc = "down" => runner'.pc = "down",
           runner'.pc \notin {"spawn", "record"}
    PROVE  Processes'
<1>1. /\ DOMAIN proc' = DOMAIN proc /\ DOMAIN proc = 1 .. Len(proc)
      /\ \A q \in DOMAIN proc :
            proc'[q].state = IF q = runner.pid THEN "gone" ELSE proc[q].state
    BY ReapedType
<1>2. \A q \in DOMAIN proc' : Exists(q)' => Exists(q) /\ q # runner.pid
    BY <1>1 DEF Exists
<1>3. ~Exists(NoProcess)'
    BY DEF Exists
<1> QED BY <1>1, <1>2, <1>3 DEF Processes

-----------------------------------------------------------------------------
(***************************************************************************)
(* Moves of the runner.                                                    *)
(***************************************************************************)
LEMMA MoveType ==
    ASSUME NEW n \in Nat, NEW r \in RunnerType(n), NEW pc \in Positions
    PROVE  LET m == [r EXCEPT !.pc = pc]
           IN  /\ m \in RunnerType(n)
               /\ m.pc = pc /\ m.pid = r.pid /\ m.bin = r.bin
               /\ m.deploying = r.deploying
BY DEF RunnerType

\* The runner moves and touches nothing the invariant depends on.
LEMMA Moves ==
    ASSUME Inv, NEW pc \in Positions, runner' = To(pc), runner.pc # "down",
           pc \notin {"down", "intend", "spawn", "rollback", "record", "reaped"},
           pc \in {"recycle", "fence", "retire"} => recycles < MaxRecycles,
           UNCHANGED <<journal, owner, proc, recycles, deployer>>
    PROVE  /\ runner' \in RunnerType(Len(proc)) /\ Processes' /\ Data'
           /\ runner'.pid = runner.pid
<1>1. runner \in RunnerType(Len(proc)) /\ Len(proc) \in Nat
    BY TypeParts, ProcDomain DEF Inv
<1>2. /\ runner' \in RunnerType(Len(proc)) /\ runner'.pc = pc
      /\ runner'.pid = runner.pid /\ runner'.bin = runner.bin
      /\ runner'.deploying = runner.deploying
    BY <1>1, MoveType DEF To
<1>3. Processes'
    BY <1>2, RunsOn DEF Inv
<1>4. Data'
    BY <1>2 DEF Inv, Data
<1> QED BY <1>2, <1>3, <1>4

LEMMA FaultType == ASSUME TypeOK, Fault \/ Fine PROVE faults' \in 0 .. MaxFaults
<1>1. MaxFaults \in Nat /\ faults \in 0 .. MaxFaults
    BY DeploymentAssumption DEF TypeOK
<1> QED BY <1>1 DEF Fault, Fine

\* Everything a step of the runner leaves alone keeps its type.
LEMMA Framed ==
    ASSUME TypeOK, Fault \/ Fine, Len(proc') = Len(proc), proc' \in Seq(ProcType),
           UNCHANGED <<pin, loaded, receipt, commit, deployer, recycles, reported>>,
           owner' \in {Spawning} \cup 0 .. Len(proc), journal' \in JournalType,
           runner' \in RunnerType(Len(proc)), guard' \in GuardType(Len(proc)),
           listener' \in ListenerType(Len(proc))
    PROVE  TypeOK'
<1>1. Scalars'
    BY FaultType, TypeParts DEF Scalars
<1> QED BY <1>1, TypePartsNext


\* Positions the invariant does not speak about.
Plain == {"started", "health", "guard", "verify", "verified", "poll", "commit",
          "attach", "attaching", "attached", "ready", "wait", "prepare", "drain",
          "begin", "reap", "held", "failed"}
Special == {"down", "intend", "spawn", "rollback", "record", "reaped",
            "recycle", "fence", "retire"}

LEMMA PlainPositions == \A pc \in Plain : pc \in Positions /\ pc \notin Special
BY DEF Plain, Special, Positions

\* The runner moves, and at most the guard changes with it.
LEMMA OnlyMoves ==
    ASSUME Inv, NEW pc \in Plain, runner' = To(pc), runner.pc # "down",
           Fault \/ Fine, UNCHANGED <<disk, proc, rest>>,
           guard' \in GuardType(Len(proc))
    PROVE  Inv'
<1>1. runner' \in RunnerType(Len(proc)) /\ Processes' /\ Data'
    BY PlainPositions, Moves DEF Special, disk, rest
<1>2. TypeOK'
  <2>1. /\ proc \in Seq(ProcType) /\ journal \in JournalType
        /\ owner \in {Spawning} \cup 0 .. Len(proc)
        /\ listener \in ListenerType(Len(proc))
      BY TypeParts DEF Inv
  <2> QED BY <1>1, <2>1, Framed DEF Inv, disk, rest
<1> QED BY <1>1, <1>2 DEF Inv

LEMMA GuardSame == ASSUME Inv PROVE guard \in GuardType(Len(proc))
BY TypeParts DEF Inv

LEMMA SimpleMoves ==
    ASSUME Inv, WaitForUrl \/ GuardVerify \/ PollCommit \/ AttachStart
    PROVE  Inv'
<1>0. guard \in GuardType(Len(proc))
    BY GuardSame
<1>1. CASE WaitForUrl
  <2>1. PICK pc \in Plain : runner' = To(pc)
      BY <1>1 DEF WaitForUrl, Go, Plain
  <2>2. runner.pc # "down" /\ (Fault \/ Fine) /\ UNCHANGED <<disk, proc, rest>>
      BY <1>1 DEF WaitForUrl, At
  <2>3. guard' \in GuardType(Len(proc))
      BY <1>0, <1>1 DEF WaitForUrl
  <2> QED BY <2>1, <2>2, <2>3, OnlyMoves
<1>2. CASE GuardVerify
  <2>1. PICK pc \in Plain : runner' = To(pc)
      BY <1>2 DEF GuardVerify, Go, Plain
  <2>2. runner.pc # "down" /\ (Fault \/ Fine) /\ UNCHANGED <<disk, proc, rest>>
      BY <1>2 DEF GuardVerify, At
  <2>3. guard' \in GuardType(Len(proc))
      BY <1>0, <1>2 DEF GuardVerify
  <2> QED BY <2>1, <2>2, <2>3, OnlyMoves
<1>3. CASE PollCommit
  <2>1. PICK pc \in Plain : runner' = To(pc)
      BY <1>3 DEF PollCommit, Go, Plain
  <2>2. runner.pc # "down" /\ (Fault \/ Fine) /\ UNCHANGED <<disk, proc, rest>>
      BY <1>3 DEF PollCommit, At
  <2>3. guard' \in GuardType(Len(proc))
      BY <1>0, <1>3 DEF PollCommit
  <2> QED BY <2>1, <2>2, <2>3, OnlyMoves
<1>4. CASE AttachStart
  <2>1. PICK pc \in Plain : runner' = To(pc)
      BY <1>4 DEF AttachStart, Go, Plain
  <2>2. runner.pc # "down" /\ (Fault \/ Fine) /\ UNCHANGED <<disk, proc, rest>>
      BY <1>4 DEF AttachStart, At
  <2>3. guard' \in GuardType(Len(proc))
      BY <1>0, <1>4 DEF AttachStart
  <2> QED BY <2>1, <2>2, <2>3, OnlyMoves
<1> QED BY <1>1, <1>2, <1>3, <1>4

\* The guard opens, prepares, fences and dies.
LEMMA GuardTypes ==
    ASSUME Inv
    PROVE  /\ [life |-> "serving", gen |-> runner.gen, txn |-> None,
               old |-> runner.pid] \in GuardType(Len(proc))
           /\ [NoGuard EXCEPT !.life = "serving", !.old = runner.pid] \in GuardType(Len(proc))
           /\ [NoGuard EXCEPT !.life = "dead"] \in GuardType(Len(proc))
           /\ NoGuard \in GuardType(Len(proc))
           /\ [guard EXCEPT !.life = "absent"] \in GuardType(Len(proc))
           /\ [guard EXCEPT !.life = "dead"] \in GuardType(Len(proc))
           /\ journal.phase = "prepared" =>
                [guard EXCEPT !.txn = journal.next] \in GuardType(Len(proc))
<1>1. runner \in RunnerType(Len(proc)) /\ guard \in GuardType(Len(proc)) /\ Len(proc) \in Nat
    BY TypeParts, ProcDomain DEF Inv
<1>2. runner.gen \in Nat /\ runner.pid \in 0 .. Len(proc) /\ 0 \in 0 .. Len(proc)
    BY <1>1 DEF RunnerType
<1>3. journal.phase = "prepared" => journal.next \in Versions
    BY DEF Inv, Data
<1> QED BY Zenon, <1>1, <1>2, <1>3 DEF GuardType, NoGuard, NoProcess, None

LEMMA GuardMoves ==
    ASSUME Inv, \/ AttachEnd \/ StartGuard \/ GuardPrepare
                \/ GuardBegin("begin", "reap", "held")
    PROVE  Inv'
<1>0. guard \in GuardType(Len(proc))
    BY GuardSame
<1>1. CASE AttachEnd
  <2>1. PICK pc \in Plain : runner' = To(pc)
      BY <1>1 DEF AttachEnd, Go, Plain
  <2>2. runner.pc # "down" /\ (Fault \/ Fine) /\ UNCHANGED <<disk, proc, rest>>
      BY <1>1 DEF AttachEnd, At
  <2>3. guard' \in GuardType(Len(proc))
      BY <1>0, <1>1, GuardTypes DEF AttachEnd
  <2> QED BY <2>1, <2>2, <2>3, OnlyMoves
<1>2. CASE StartGuard
  <2>1. PICK pc \in Plain : runner' = To(pc)
      BY <1>2 DEF StartGuard, Go, Plain
  <2>2. runner.pc # "down" /\ (Fault \/ Fine) /\ UNCHANGED <<disk, proc, rest>>
      BY <1>2 DEF StartGuard, At
  <2>3. guard' \in GuardType(Len(proc))
      BY <1>0, <1>2, GuardTypes DEF StartGuard
  <2> QED BY <2>1, <2>2, <2>3, OnlyMoves
<1>3. CASE GuardPrepare
  <2>1. PICK pc \in Plain : runner' = To(pc)
      BY <1>3 DEF GuardPrepare, Go, Plain
  <2>2. runner.pc # "down" /\ (Fault \/ Fine) /\ UNCHANGED <<disk, proc, rest>>
      BY <1>3 DEF GuardPrepare, At
  <2>3. guard' \in GuardType(Len(proc))
      BY <1>0, <1>3, GuardTypes DEF GuardPrepare
  <2> QED BY <2>1, <2>2, <2>3, OnlyMoves
<1>4. CASE GuardBegin("begin", "reap", "held")
  <2>1. PICK pc \in Plain : runner' = To(pc)
      BY <1>4 DEF GuardBegin, Go, Plain
  <2>2. runner.pc # "down" /\ (Fault \/ Fine) /\ UNCHANGED <<disk, proc, rest>>
      BY <1>4 DEF GuardBegin, At
  <2>3. guard' \in GuardType(Len(proc))
      BY <1>0, <1>4, GuardTypes DEF GuardBegin
  <2> QED BY <2>1, <2>2, <2>3, OnlyMoves
<1> QED BY <1>1, <1>2, <1>3, <1>4

\* A phase is written over one that was prepared.
LEMMA AdvanceJournal ==
    ASSUME Inv, NEW e, NEW phase \in Phases \ {"none"}, MayAdvance(e, phase),
           journal' = [journal EXCEPT !.phase = phase,
                !.cand = IF phase = "candidate_started" THEN runner.pid ELSE @]
    PROVE  /\ journal' \in JournalType /\ journal'.phase = phase
           /\ journal'.bin = journal.bin /\ journal'.next = journal.next
           /\ journal.phase # "none"
<1>1. journal \in JournalType /\ runner \in RunnerType(Len(proc)) /\ Len(proc) \in Nat
    BY TypeParts, ProcDomain DEF Inv
<1>2. runner.pid \in Nat
    BY <1>1 DEF RunnerType
<1>3. journal.phase # "none"
    BY <1>1 DEF MayAdvance, next, JournalType, Phases, Settled
<1> QED BY Zenon, <1>1, <1>2, <1>3 DEF JournalType

\* A durable advance after which the runner runs on.
LEMMA Advances ==
    ASSUME Inv, NEW from, NEW e, NEW phase \in Phases \ {"none"}, from # "down",
           NEW a \in Plain, NEW b \in Plain,
           advanceTransaction(from, e, phase, To(a), To(b))
    PROVE  Inv'
<1>0. /\ At(from) /\ (Fault \/ Fine)
      /\ UNCHANGED <<owner, pin, loaded, receipt, commit, proc, guard, rest>>
    BY DEF advanceTransaction
<1>1. CASE UNCHANGED journal
  <2>1. PICK pc \in {a, b} : runner' = To(pc)
      BY DEF advanceTransaction
  <2> QED BY <1>0, <1>1, <2>1, GuardSame, OnlyMoves DEF disk, At
<1>2. CASE /\ MayAdvance(e, phase) /\ runner' = To(a)
           /\ journal' = [journal EXCEPT !.phase = phase,
                !.cand = IF phase = "candidate_started" THEN runner.pid ELSE @]
  <2>1. /\ journal' \in JournalType /\ journal'.phase = phase
        /\ journal'.bin = journal.bin /\ journal'.next = journal.next
        /\ journal.phase # "none"
      BY Zenon, <1>2, AdvanceJournal
  <2>2. /\ proc \in Seq(ProcType) /\ owner \in {Spawning} \cup 0 .. Len(proc)
        /\ listener \in ListenerType(Len(proc)) /\ guard \in GuardType(Len(proc))
        /\ runner \in RunnerType(Len(proc)) /\ Len(proc) \in Nat
      BY TypeParts, ProcDomain DEF Inv
  <2>3. /\ runner' \in RunnerType(Len(proc)) /\ runner'.pc = a
        /\ runner'.pid = runner.pid /\ runner'.bin = runner.bin
        /\ runner'.deploying = runner.deploying
      BY <1>2, <2>2, PlainPositions, MoveType DEF To
  <2>4. Processes'
      BY <1>0, <2>3, PlainPositions, RunsOn DEF Inv, Special, At
  <2>5. Data'
      BY <1>0, <2>1, <2>3, PlainPositions DEF Inv, Data, Special, At, rest
  <2>6. TypeOK'
      BY <1>0, <2>1, <2>2, <2>3, Framed DEF Inv, rest
  <2> QED BY <2>4, <2>5, <2>6 DEF Inv
<1> QED BY <1>1, <1>2 DEF advanceTransaction

LEMMA JournalMoves ==
    ASSUME Inv, CandidateStarted \/ CandidateVerified \/ Committed \/ Draining
    PROVE  Inv'
<1>1. CASE CandidateStarted
    BY <1>1, Advances DEF CandidateStarted, Plain, Phases
<1>2. CASE CandidateVerified
    BY <1>2, Advances DEF CandidateVerified, Plain, Phases
<1>3. CASE Committed
    BY <1>3, Advances DEF Committed, Plain, Phases
<1>4. CASE Draining
    BY <1>4, Advances DEF Draining, Plain, Phases
<1> QED BY <1>1, <1>2, <1>3, <1>4


\* The facts about the state that the steps below start from.
LEMMA Facts ==
    ASSUME Inv
    PROVE  /\ proc \in Seq(ProcType) /\ Len(proc) \in Nat /\ DOMAIN proc = 1 .. Len(proc)
           /\ owner \in {Spawning} \cup 0 .. Len(proc) /\ journal \in JournalType
           /\ runner \in RunnerType(Len(proc)) /\ guard \in GuardType(Len(proc))
           /\ listener \in ListenerType(Len(proc)) /\ Scalars
           /\ runner.pid \in 0 .. Len(proc) /\ runner.gen \in Nat /\ runner.pc \in Positions
<1>1. /\ proc \in Seq(ProcType) /\ Len(proc) \in Nat /\ DOMAIN proc = 1 .. Len(proc)
      /\ owner \in {Spawning} \cup 0 .. Len(proc) /\ journal \in JournalType
      /\ runner \in RunnerType(Len(proc)) /\ guard \in GuardType(Len(proc))
      /\ listener \in ListenerType(Len(proc)) /\ Scalars
    BY TypeParts, ProcDomain DEF Inv
<1>2. runner.pid \in 0 .. Len(proc) /\ runner.gen \in Nat /\ runner.pc \in Positions
    BY <1>1 DEF RunnerType
<1> QED BY <1>1, <1>2

\* The listener is started, taken down and put off by a runner that runs on.
LEMMA ListenerMoves ==
    ASSUME Inv, StartListener \/ ChildExited \/ Recycle \/ GuardBegin("fence", "retire", "failed")
    PROVE  Inv'
<1>0. Off(listener) \in ListenerType(Len(proc)) /\ listener \in ListenerType(Len(proc))
    BY Facts DEF ListenerType, Off
<1>1. CASE StartListener
  <2>1. /\ runner' \in RunnerType(Len(proc)) /\ runner'.pc = "wait"
        /\ runner'.pid = runner.pid /\ runner'.bin = runner.bin
        /\ runner'.deploying = runner.deploying
      BY Zenon, <1>1, Facts DEF StartListener, Go, To, RunnerType, Positions
  <2>2. listener' \in ListenerType(Len(proc))
    <3>1. pin \in Versions /\ runner.bin \in Versions
        BY <1>1, Facts DEF Scalars, StartListener, At, Inv, Data
    <3> QED BY <1>1, <3>1, Facts DEF StartListener, ListenerType
  <2>3. /\ runner.pc # "down" /\ Fine
        /\ UNCHANGED <<disk, proc, guard, deployer, recycles, reported>>
      BY <1>1 DEF StartListener, At
  <2>4. Processes'
      BY <2>1, <2>3, RunsOn DEF Inv, disk
  <2>5. Data'
      BY <2>1, <2>3 DEF Inv, Data, disk
  <2>6. TypeOK'
      BY <2>1, <2>2, <2>3, Facts, Framed DEF Inv, disk
  <2> QED BY <2>4, <2>5, <2>6 DEF Inv
<1>2. ASSUME /\ \E pc \in Plain \cup {"recycle", "fence", "retire"} :
                    /\ runner' = To(pc)
                    /\ pc \in {"recycle", "fence", "retire"} => recycles < MaxRecycles
             /\ runner.pc # "down" /\ (Fault \/ Fine)
             /\ UNCHANGED <<disk, proc, deployer, recycles, reported>>
             /\ guard' \in GuardType(Len(proc)) /\ listener' \in ListenerType(Len(proc))
      PROVE  Inv'
  <2>1. PICK pc \in Plain \cup {"recycle", "fence", "retire"} :
            /\ runner' = To(pc)
            /\ pc \in {"recycle", "fence", "retire"} => recycles < MaxRecycles
      BY <1>2
  <2>2. pc \in Positions
        /\ pc \notin {"down", "intend", "spawn", "rollback", "record", "reaped"}
      BY <2>1, PlainPositions DEF Positions, Special
  <2>3. runner' \in RunnerType(Len(proc)) /\ Processes' /\ Data'
      BY <1>2, <2>1, <2>2, Moves DEF disk
  <2>4. TypeOK'
      BY <1>2, <2>3, Facts, Framed DEF Inv, disk
  <2> QED BY <2>3, <2>4 DEF Inv
<1>3. CASE ChildExited
  <2>1. /\ runner.pc # "down" /\ Fine
        /\ UNCHANGED <<disk, proc, guard, deployer, recycles, reported>>
      BY <1>3 DEF ChildExited, At
  <2>2. PICK pc \in {"prepare", "recycle", "failed"} :
            runner' = To(pc) /\ (pc = "recycle" => recycles < MaxRecycles)
      BY <1>3 DEF ChildExited, Go, MayRecycle
  <2>3. listener' \in ListenerType(Len(proc))
      BY <1>0, <1>3 DEF ChildExited
  <2> QED BY <1>2, <2>1, <2>2, <2>3, GuardSame DEF Plain
<1>4. CASE Recycle
  <2>1. /\ runner.pc = "recycle" /\ Fine
        /\ UNCHANGED <<disk, proc, guard, deployer, recycles, reported>>
      BY <1>4 DEF Recycle, At
  <2>2. recycles < MaxRecycles
      BY <2>1 DEF Inv, Data
  <2>3. PICK pc \in {"prepare", "held", "fence"} : runner' = To(pc)
      BY <1>4 DEF Recycle, Go
  <2>4. listener' \in ListenerType(Len(proc))
      BY <1>0, <1>4 DEF Recycle
  <2> QED BY <1>2, <2>1, <2>2, <2>3, <2>4, GuardSame DEF Plain
<1>5. CASE GuardBegin("fence", "retire", "failed")
  <2>1. /\ runner.pc = "fence" /\ (Fault \/ Fine)
        /\ UNCHANGED <<disk, proc, listener, deployer, recycles, reported>>
      BY <1>5 DEF GuardBegin, At, rest
  <2>2. recycles < MaxRecycles
      BY <2>1 DEF Inv, Data
  <2>3. PICK pc \in {"retire", "failed"} : runner' = To(pc)
      BY <1>5 DEF GuardBegin, Go
  <2>4. guard' \in GuardType(Len(proc))
      BY <1>5, GuardTypes, GuardSame DEF GuardBegin
  <2> QED BY <1>0, <1>2, <2>1, <2>2, <2>3, <2>4 DEF Plain
<1> QED BY <1>1, <1>3, <1>4, <1>5


\* A step that changes no more than the journal and the runner.
LEMMA JournalStep ==
    ASSUME Inv, Fault \/ Fine,
           UNCHANGED <<owner, pin, loaded, receipt, commit, proc, guard, rest>>,
           runner' \in RunnerType(Len(proc)), journal' \in JournalType, Processes', Data'
    PROVE  Inv'
<1>1. TypeOK'
    BY Facts, Framed DEF Inv, rest
<1> QED BY <1>1 DEF Inv

\* An advance of the journal, written or not, and where it leaves the runner.
LEMMA AdvanceFacts ==
    ASSUME Inv, NEW from, NEW e, NEW phase \in Phases \ {"none"}, NEW reached, NEW refused,
           advanceTransaction(from, e, phase, reached, refused)
    PROVE  /\ runner.pc = from /\ (Fault \/ Fine)
           /\ UNCHANGED <<owner, pin, loaded, receipt, commit, proc, guard, rest>>
           /\ journal' \in JournalType
           /\ journal.phase # "none" => journal'.phase # "none"
           /\ journal'.phase # "none" =>
                journal'.bin \in Versions /\ journal'.next \in Versions
           /\ \/ /\ runner' = reached /\ journal.phase = e
                 /\ journal.phase # "none" /\ journal'.phase # "none"
              \/ runner' = refused
<1>1. /\ runner.pc = from /\ (Fault \/ Fine)
      /\ UNCHANGED <<owner, pin, loaded, receipt, commit, proc, guard, rest>>
    BY DEF advanceTransaction, At
<1>2. CASE UNCHANGED journal /\ runner' = refused
    BY <1>1, <1>2, Facts DEF Inv, Data
<1>3. CASE /\ MayAdvance(e, phase) /\ runner' = reached
           /\ journal' = [journal EXCEPT !.phase = phase,
                !.cand = IF phase = "candidate_started" THEN runner.pid ELSE @]
  <2>1. /\ journal' \in JournalType /\ journal'.phase = phase
        /\ journal'.bin = journal.bin /\ journal'.next = journal.next
        /\ journal.phase # "none"
      BY Zenon, <1>3, AdvanceJournal
  <2>2. journal.phase = e
      BY <1>3 DEF MayAdvance
  <2> QED BY <1>1, <1>3, <2>1, <2>2 DEF Inv, Data
<1> QED BY <1>2, <1>3 DEF advanceTransaction

\* The end of a deployment or a rollback.
LEMMA AttachedStep == ASSUME Inv, Attached PROVE Inv'
<1> DEFINE ended == [runner EXCEPT !.pc = "ready", !.replacing = FALSE,
                                   !.deploying = FALSE, !.rollback = FALSE]
<1>1. /\ ended \in RunnerType(Len(proc)) /\ ended.pc = "ready"
      /\ ended.pid = runner.pid /\ ended.bin = runner.bin /\ ended.deploying = FALSE
    BY Zenon, Facts DEF RunnerType, Positions
<1>2. /\ runner' = ended /\ runner.pc = "attached" /\ (Fault \/ Fine)
      /\ UNCHANGED <<owner, pin, loaded, receipt, commit, proc, guard, rest>>
      /\ journal' \in JournalType
      /\ journal'.phase # "none" =>
                journal'.bin \in Versions /\ journal'.next \in Versions
  <2>1. CASE runner.deploying
    <3>1. advanceTransaction("attached", "committed", "attached", ended, ended)
        BY <2>1 DEF Attached
    <3>2. "attached" \in Phases \ {"none"}
        BY DEF Phases, Settled
    <3> HIDE DEF ended
    <3> QED BY <3>1, <3>2, AdvanceFacts
  <2>2. CASE ~runner.deploying
    <3>1. runner' = ended /\ runner.pc = "attached" /\ Fine /\ UNCHANGED <<disk, proc, guard, rest>>
        BY <2>2 DEF Attached, At
    <3> QED BY <3>1, Facts DEF Inv, Data, disk
  <2> QED BY <2>1, <2>2
<1> HIDE DEF ended
<1>3. Processes'
    BY <1>1, <1>2, RunsOn DEF Inv
<1>4. Data'
    BY <1>1, <1>2 DEF Inv, Data, rest
<1> QED BY <1>1, <1>2, <1>3, <1>4, JournalStep

\* The old backend is gone: the candidate is started next.
LEMMA OldReapedStep == ASSUME Inv, OldReaped PROVE Inv'
<1> DEFINE m == [runner EXCEPT !.pc = "intend", !.pid = NoProcess, !.bin = journal.next,
                    !.gen = @ + 1, !.replacing = TRUE, !.deploying = TRUE,
                    !.rollback = FALSE]
           h == To("held")
<1>0. "old_reaped" \in Phases \ {"none"}
    BY DEF Phases
<1>1. advanceTransaction("reaped", "draining", "old_reaped", m, h)
    BY DEF OldReaped
<1>2. /\ h \in RunnerType(Len(proc)) /\ h.pc = "held" /\ h.pid = runner.pid
      /\ h.bin = runner.bin /\ h.deploying = runner.deploying
    BY Facts DEF RunnerType, To, Positions
<1>3. journal.phase # "none" =>
        /\ m \in RunnerType(Len(proc)) /\ m.pc = "intend" /\ m.pid = NoProcess
        /\ m.bin \in Versions
  <2> SUFFICES ASSUME journal.phase # "none"
               PROVE  /\ m \in RunnerType(Len(proc)) /\ m.pc = "intend"
                      /\ m.pid = NoProcess /\ m.bin \in Versions
      OBVIOUS
  <2>1. journal.next \in Versions
      BY DEF Inv, Data
  <2>2. runner.gen + 1 \in Nat /\ NoProcess \in 0 .. Len(proc) /\ "intend" \in Positions
      BY Facts DEF NoProcess, Positions
  <2> QED BY Zenon, <2>1, <2>2, Facts DEF RunnerType
<1> HIDE DEF m, h
<1>4. /\ runner.pc = "reaped" /\ (Fault \/ Fine)
      /\ UNCHANGED <<owner, pin, loaded, receipt, commit, proc, guard, rest>>
      /\ journal' \in JournalType
      /\ journal.phase # "none" => journal'.phase # "none"
      /\ journal'.phase # "none" => journal'.bin \in Versions /\ journal'.next \in Versions
      /\ \/ runner' = m /\ journal.phase # "none" /\ journal'.phase # "none"
         \/ runner' = h
    BY <1>0, <1>1, AdvanceFacts
<1>5. Processes'
  <2>1. CASE runner' = h
      BY <1>2, <1>4, <2>1, RunsOn DEF Inv
  <2>2. CASE runner' = m /\ journal.phase # "none"
    <3>1. runner'.pc = "intend" /\ runner'.pid = NoProcess
        BY <1>3, <2>2
    <3>2. \A p \in DOMAIN proc : ~Exists(p)
        BY <1>4 DEF Inv, Processes
    <3> QED BY <1>4, <3>1, <3>2 DEF Processes, Exists
  <2> QED BY <1>4, <2>1, <2>2
<1>6. Data'
    BY <1>2, <1>3, <1>4 DEF Inv, Data, rest
<1> QED BY <1>2, <1>3, <1>4, <1>5, <1>6, JournalStep

\* The candidate is gone and its pin was not installed: the previous version is
\* started next.
LEMMA RolledBackStep == ASSUME Inv, RolledBack PROVE Inv'
<1> DEFINE m == [runner EXCEPT !.pc = "intend", !.bin = journal.bin,
                    !.deploying = FALSE, !.rollback = TRUE]
           h == To("held")
<1>0. "rolled_back" \in Phases \ {"none"}
    BY DEF Phases, Settled
<1>1. advanceTransaction("rollback", journal.phase, "rolled_back", m, h)
    BY DEF RolledBack
<1>2. /\ h \in RunnerType(Len(proc)) /\ h.pc = "held" /\ h.pid = runner.pid
      /\ h.bin = runner.bin /\ h.deploying = runner.deploying
    BY Facts DEF RunnerType, To, Positions
<1>3. journal.phase # "none" =>
        /\ m \in RunnerType(Len(proc)) /\ m.pc = "intend" /\ m.pid = runner.pid
        /\ m.bin \in Versions
    BY Zenon, Facts DEF RunnerType, Positions, Inv, Data
<1> HIDE DEF m, h
<1>4. /\ runner.pc = "rollback" /\ (Fault \/ Fine)
      /\ UNCHANGED <<owner, pin, loaded, receipt, commit, proc, guard, rest>>
      /\ journal' \in JournalType
      /\ journal.phase # "none" => journal'.phase # "none"
      /\ journal'.phase # "none" => journal'.bin \in Versions /\ journal'.next \in Versions
      /\ \/ runner' = m /\ journal.phase # "none" /\ journal'.phase # "none"
         \/ runner' = h
    BY <1>0, <1>1, AdvanceFacts
<1>5. Processes'
  <2>1. CASE runner' = h
      BY <1>2, <1>4, <2>1, RunsOn DEF Inv
  <2>2. CASE runner' = m /\ journal.phase # "none"
    <3>1. runner'.pc = "intend" /\ runner'.pid = runner.pid
        BY <1>3, <2>2
    <3> QED BY <1>4, <3>1 DEF Inv, Processes, Exists
  <2> QED BY <1>4, <2>1, <2>2
<1>6. Data'
    BY <1>2, <1>3, <1>4 DEF Inv, Data, rest
<1> QED BY <1>2, <1>3, <1>4, <1>5, <1>6, JournalStep


-----------------------------------------------------------------------------
(***************************************************************************)
(* Starts and reaps.                                                       *)
(***************************************************************************)
LEMMA IdleType ==
    ASSUME NEW n \in Nat
    PROVE  Idle \in RunnerType(n) /\ Idle.pc = "down" /\ Idle.pid = NoProcess
           /\ Idle.deploying = FALSE
<1>1. 0 \in 0 .. n /\ 1 \in Nat /\ 0 \in Nat /\ "down" \in Positions
    BY DEF Positions
<1> QED BY <1>1 DEF Idle, RunnerType, NoProcess, None

\* Recovery lets a runner start only when the recorded owner is gone.
LEMMA StartStep == ASSUME Inv, Start PROVE Inv'
<1>1. /\ runner.pc = "down" /\ ~Hold /\ Fine
      /\ UNCHANGED <<disk, proc, guard, rest>>
    BY DEF Start, At, recoverTransaction
<1>2. loaded \in Versions
    BY Facts DEF Scalars
<1>3. /\ runner' \in RunnerType(Len(proc)) /\ runner'.pc = "intend"
      /\ runner'.pid = NoProcess /\ runner'.bin = loaded /\ runner'.deploying = FALSE
  <2>1. 0 \in 0 .. Len(proc) /\ "intend" \in Positions
      BY Facts DEF Positions
  <2> QED BY Zenon, <1>2, <2>1 DEF Start, Idle, RunnerType, NoProcess, None
<1>4. \A p \in DOMAIN proc : ~Exists(p)
  <2> SUFFICES ASSUME NEW p \in DOMAIN proc, Exists(p) PROVE FALSE
      OBVIOUS
  <2>1. p # NoProcess
      BY DEF Exists
  <2>2. runner.pid = NoProcess /\ owner \in {p, Spawning}
      BY <1>1, <2>1 DEF Inv, Processes
  <2> QED BY <1>1, <2>1, <2>2 DEF Hold, None, NoProcess
<1>5. Processes'
    BY <1>1, <1>3, <1>4 DEF Processes, Exists, disk
<1>6. Data'
    BY <1>1, <1>2, <1>3 DEF Inv, Data, disk, rest
<1> QED BY <1>1, <1>3, <1>5, <1>6, JournalStep, Facts DEF disk

\* The intention to start is durable before the child exists.
LEMMA RecordSpawningStep == ASSUME Inv, RecordSpawning PROVE Inv'
<1>0. PICK pc \in {"spawn", "failed"} :
        /\ runner' = [runner EXCEPT !.pc = pc,
                        !.gen = IF guard.life = "none" THEN 1 ELSE @,
                        !.replacing = guard.life # "none" /\ @]
        /\ owner' = IF pc = "spawn" THEN Spawning ELSE owner
    BY Zenon DEF RecordSpawning
<1>1. /\ runner.pc = "intend" /\ (Fault \/ Fine)
      /\ UNCHANGED <<journal, pin, loaded, receipt, commit, proc, guard, rest>>
    BY DEF RecordSpawning, At
<1>2. /\ runner' \in RunnerType(Len(proc)) /\ runner'.pc = pc
      /\ runner'.pid = runner.pid /\ runner'.bin = runner.bin
      /\ runner'.deploying = runner.deploying
  <2> DEFINE g == IF guard.life = "none" THEN 1 ELSE runner.gen
             b == guard.life # "none" /\ runner.replacing
  <2>1. runner' = [runner EXCEPT !.pc = pc, !.gen = g, !.replacing = b]
      BY <1>0
  <2>2. g \in Nat /\ b \in BOOLEAN /\ pc \in Positions
      BY Facts DEF RunnerType, Positions
  <2> HIDE DEF g, b
  <2> QED BY Zenon, <2>1, <2>2, Facts DEF RunnerType
<1>3. Processes'
  <2>1. runner.pid = NoProcess /\ \A p \in DOMAIN proc : ~Exists(p)
      BY <1>1 DEF Inv, Processes, Exists
  <2> QED BY <1>0, <1>1, <1>2, <2>1 DEF Processes, Exists
<1>4. Data'
    BY <1>0, <1>1, <1>2 DEF Inv, Data, rest
<1>5. owner' \in {owner, Spawning}
    BY <1>0
<1>6. TypeOK'
    BY <1>1, <1>2, <1>5, Facts, Framed DEF Inv, rest
<1> QED BY <1>3, <1>4, <1>6 DEF Inv

LEMMA SpawnStep == ASSUME Inv, Spawn PROVE Inv'
<1> DEFINE n == Len(proc)
           x == [bin |-> runner.bin, state |-> "up"]
<1>1. /\ runner.pc = "spawn" /\ Fine /\ UNCHANGED <<disk, guard, rest>>
      /\ proc' = Append(proc, x)
      /\ runner' = [runner EXCEPT !.pc = "record", !.pid = n + 1]
    BY DEF Spawn, At
<1>2. x \in ProcType
    BY <1>1 DEF Inv, Data, ProcType
<1>3. /\ proc' \in Seq(ProcType) /\ Len(proc') = n + 1 /\ n \in Nat
      /\ DOMAIN proc' = 1 .. n + 1 /\ \A p \in 1 .. n : proc'[p] = proc[p]
  <2> HIDE DEF x
  <2> QED BY <1>1, <1>2, Facts
<1>4. /\ runner' \in RunnerType(n + 1) /\ runner'.pc = "record" /\ runner'.pid = n + 1
      /\ runner'.bin = runner.bin /\ runner'.deploying = runner.deploying
  <2>1. n + 1 \in 0 .. n + 1 /\ "record" \in Positions
      BY <1>3 DEF Positions
  <2> HIDE DEF n
  <2>2. runner \in RunnerType(n)
      BY Facts DEF n
  <2> QED BY Zenon, <1>1, <1>3, <2>1, <2>2 DEF RunnerType
<1>5. /\ guard' \in GuardType(n + 1) /\ listener' \in ListenerType(n + 1)
      /\ owner' \in {Spawning} \cup 0 .. n + 1
  <2>1. \A p \in 0 .. n : p \in 0 .. n + 1
      BY <1>3
  <2>2. GuardType(n) \subseteq GuardType(n + 1) /\ ListenerType(n) \subseteq ListenerType(n + 1)
      BY <2>1 DEF GuardType, ListenerType
  <2> QED BY <1>1, <2>1, <2>2, Facts DEF disk, rest
<1>6. Processes'
  <2>1. runner.pid = NoProcess /\ owner = Spawning /\ \A p \in 1 .. n : ~Exists(p)
      BY <1>1, Facts DEF Inv, Processes, Exists
  <2>2. \A p \in DOMAIN proc' : Exists(p)' => p = n + 1
      BY <1>3, <2>1 DEF Exists
  <2>3. owner' = Spawning
      BY <1>1, <2>1 DEF disk
  <2> QED BY <1>4, <2>2, <2>3 DEF Processes
<1>7. Data'
    BY <1>1, <1>4 DEF Inv, Data, disk, rest
<1>8. TypeOK'
  <2>1. Scalars'
      BY <1>1, Facts, FaultType DEF Inv, Scalars, disk, rest
  <2>2. journal' \in JournalType
      BY <1>1, Facts DEF disk
  <2> QED BY <1>3, <1>4, <1>5, <2>1, <2>2, TypePartsNext
<1> QED BY <1>6, <1>7, <1>8 DEF Inv

LEMMA RecordRunningStep == ASSUME Inv, RecordRunning PROVE Inv'
<1>1. /\ runner.pc = "record" /\ (Fault \/ Fine)
      /\ UNCHANGED <<pin, loaded, receipt, commit, proc, guard, rest>>
    BY DEF RecordRunning, At
<1>2. PICK pc \in {"started", "health", "failed"} : runner' = To(pc)
    BY DEF RecordRunning, Go
<1>3. /\ runner' \in RunnerType(Len(proc)) /\ runner'.pc = pc
      /\ runner'.pid = runner.pid /\ runner'.bin = runner.bin
      /\ runner'.deploying = runner.deploying
    BY <1>2, Facts DEF RunnerType, To, Positions
<1>4. owner' \in {runner.pid, owner}
    BY DEF RecordRunning
<1>5. \/ journal' = journal
      \/ runner.deploying /\ journal' = [journal EXCEPT !.phase = "held"]
    BY DEF RecordRunning
<1>6. /\ journal' \in JournalType
      /\ journal.phase # "none" => journal'.phase # "none"
      /\ journal'.phase # "none" =>
            journal'.bin \in Versions /\ journal'.next \in Versions
  <2>1. CASE journal' = journal
      BY <2>1, Facts DEF Inv, Data
  <2>2. CASE runner.deploying /\ journal' = [journal EXCEPT !.phase = "held"]
    <3>1. journal.bin \in Versions /\ journal.next \in Versions
        BY <2>2 DEF Inv, Data
    <3> QED BY <2>2, <3>1, Facts DEF JournalType, Phases
  <2> QED BY <1>5, <2>1, <2>2
<1>7. Processes'
  <2>1. owner = Spawning /\ \A p \in DOMAIN proc : Exists(p) => runner.pid = p
      BY <1>1 DEF Inv, Processes
  <2> QED BY <1>1, <1>2, <1>3, <1>4, <2>1 DEF Inv, Processes, Exists
<1>8. Data'
    BY <1>1, <1>2, <1>3, <1>6 DEF Inv, Data, rest
<1>9. TypeOK'
    BY <1>1, <1>3, <1>4, <1>6, Facts, Framed DEF Inv, rest
<1> QED BY <1>7, <1>8, <1>9 DEF Inv


\* Steps that wait for the runner's child.
LEMMA ReapType ==
    ASSUME Inv, proc' = Reaped(runner.pid)
    PROVE  proc' \in Seq(ProcType) /\ Len(proc') = Len(proc)
BY Facts, ReapedType

\* A step that reaps and changes runner, guard and listener, perhaps.
LEMMA ReapStep ==
    ASSUME Inv, Fault \/ Fine, UNCHANGED <<disk, deployer, recycles, reported>>,
           proc' = Reaped(runner.pid), runner' \in RunnerType(Len(proc)),
           runner'.pid = NoProcess, runner.pc = "down" => runner'.pc = "down",
           runner'.pc \in {"down", "intend", "rollback"},
           runner'.pc # "down" => runner'.bin \in Versions,
           runner'.deploying => runner.deploying,
           guard' \in GuardType(Len(proc)), listener' \in ListenerType(Len(proc))
    PROVE  Inv'
<1>1. Processes'
    BY Reaps, Facts DEF Inv, disk
<1>2. Data'
    BY DEF Inv, Data, disk
<1>3. TypeOK'
    BY ReapType, Facts, Framed DEF Inv, disk
<1> QED BY <1>1, <1>2, <1>3 DEF Inv

LEMMA StopOldStep == ASSUME Inv, StopOld PROVE Inv'
<1>1. runner.pc = "reap" /\ Fine /\ UNCHANGED <<disk, guard, rest>>
    BY DEF StopOld, At
<1>2. CASE UNCHANGED proc /\ runner' = To("held")
  <2>1. "held" \in Plain
      BY DEF Plain
  <2> QED BY <1>1, <1>2, <2>1, GuardSame, OnlyMoves
<1>3. CASE proc' = Reaped(runner.pid) /\ runner' = To("reaped")
  <2>1. proc' = Reaped(runner.pid) /\ runner' = To("reaped")
      BY <1>3
  <2>2. /\ runner' \in RunnerType(Len(proc)) /\ runner'.pc = "reaped"
        /\ runner'.pid = runner.pid /\ runner'.bin = runner.bin
        /\ runner'.deploying = runner.deploying
      BY <2>1, Facts DEF RunnerType, To, Positions
  <2>3. Processes'
    <3>1. /\ DOMAIN proc' = DOMAIN proc /\ DOMAIN proc = 1 .. Len(proc)
          /\ \A q \in DOMAIN proc :
                proc'[q].state = IF q = runner.pid THEN "gone" ELSE proc[q].state
        BY <2>1, Facts, ReapedType
    <3>2. \A q \in DOMAIN proc : Exists(q) => q = runner.pid
        BY <1>1 DEF Inv, Processes
    <3>3. \A q \in DOMAIN proc' : ~Exists(q)'
        BY <3>1, <3>2 DEF Exists
    <3>4. ~Exists(runner.pid)'
        BY <2>2, <3>1, <3>3, Facts DEF Exists, NoProcess
    <3>5. owner' = owner /\ (runner.pid # NoProcess => owner \in {runner.pid, Spawning})
        BY <1>1 DEF disk, Inv, Processes
    <3> QED BY <2>2, <3>3, <3>4, <3>5 DEF Processes
  <2>4. Data'
      BY <1>1, <2>2 DEF Inv, Data, disk, rest
  <2>5. TypeOK'
      BY <1>1, <2>1, <2>2, ReapType, Facts, Framed DEF Inv, disk, rest
  <2> QED BY <2>3, <2>4, <2>5 DEF Inv
<1> QED BY <1>2, <1>3 DEF StopOld, Go

LEMMA RecycleReapStep == ASSUME Inv, RecycleReap PROVE Inv'
<1>1. /\ runner.pc = "retire" /\ Fine /\ proc' = Reaped(runner.pid)
      /\ recycles' = recycles + 1
      /\ UNCHANGED <<disk, guard, listener, deployer, reported>>
    BY DEF RecycleReap, At
<1>2. /\ runner' \in RunnerType(Len(proc)) /\ runner'.pc = "intend"
      /\ runner'.pid = NoProcess /\ runner'.bin = runner.bin
      /\ runner'.deploying = runner.deploying
  <2>1. runner.gen + 1 \in Nat /\ NoProcess \in 0 .. Len(proc) /\ "intend" \in Positions
      BY Facts DEF NoProcess, Positions
  <2> QED BY Zenon, <2>1, Facts DEF RecycleReap, RunnerType
<1>3. recycles' \in 0 .. MaxRecycles
  <2>1. recycles < MaxRecycles /\ recycles \in 0 .. MaxRecycles /\ MaxRecycles \in Nat
      BY <1>1, Facts, DeploymentAssumption DEF Inv, Data, Scalars
  <2> QED BY <1>1, <2>1
<1>4. Processes'
    BY SMTT(30), <1>1, <1>2, Reaps, Facts DEF Inv, disk
<1>5. Data'
    BY <1>1, <1>2 DEF Inv, Data, disk
<1>6. TypeOK'
  <2>1. Scalars'
      BY <1>1, <1>3, Facts, FaultType DEF Inv, Scalars, disk
  <2> QED BY <1>1, <1>2, <2>1, ReapType, Facts, TypePartsNext DEF disk
<1> QED BY <1>4, <1>5, <1>6 DEF Inv

LEMMA StopCandidateStep == ASSUME Inv, StopCandidate PROVE Inv'
<1>1. /\ runner.pc = "failed" /\ Fine /\ proc' = Reaped(runner.pid)
      /\ UNCHANGED <<disk, guard, rest>>
    BY DEF StopCandidate, At
<1>2. /\ runner' \in RunnerType(Len(proc)) /\ runner'.pc = "rollback"
      /\ runner'.pid = NoProcess /\ runner'.bin = runner.bin
      /\ runner'.deploying = runner.deploying
  <2>1. NoProcess \in 0 .. Len(proc) /\ "rollback" \in Positions
      BY Facts DEF NoProcess, Positions
  <2> QED BY Zenon, <2>1, Facts DEF StopCandidate, RunnerType
<1>3. runner.bin \in Versions
    BY <1>1 DEF Inv, Data
<1> QED BY <1>1, <1>2, <1>3, Facts, ReapStep DEF rest

LEMMA RestartStackStep == ASSUME Inv, RestartStack PROVE Inv'
<1>1. /\ runner.pc = "failed" /\ (Fault \/ Fine) /\ proc' = Reaped(runner.pid)
      /\ UNCHANGED <<disk, deployer, recycles, reported>> /\ schedule_restart
    BY DEF RestartStack, schedule_restart, At
<1>2. PICK k \in {runner.failures + 1, 1} :
        runner' = [runner EXCEPT !.pc = IF k >= MaxFailures THEN "down" ELSE "intend",
                                 !.failures = k, !.pid = NoProcess]
    BY Zenon, <1>1 DEF Restarted, schedule_restart
<1>3. /\ runner' \in RunnerType(Len(proc)) /\ runner'.pc \in {"down", "intend"}
      /\ runner'.pid = NoProcess /\ runner'.bin = runner.bin
      /\ runner'.deploying = runner.deploying
  <2> DEFINE x == IF k >= MaxFailures THEN "down" ELSE "intend"
  <2>1. x \in {"down", "intend"} /\ x \in Positions /\ NoProcess \in 0 .. Len(proc)
      BY Facts DEF NoProcess, Positions
  <2>2. k \in Nat
      BY Facts DEF RunnerType
  <2> HIDE DEF x
  <2>3. runner' = [runner EXCEPT !.pc = x, !.failures = k, !.pid = NoProcess]
      BY <1>2 DEF x
  <2> QED BY Zenon, <2>1, <2>2, <2>3, Facts DEF RunnerType
<1>4. guard' \in GuardType(Len(proc)) /\ listener' \in ListenerType(Len(proc))
  <2>1. guard' \in {guard, NoGuard} /\ listener' \in {listener, Off(listener)}
      BY DEF RestartStack
  <2>2. Off(listener) \in ListenerType(Len(proc))
      BY Facts DEF ListenerType, Off
  <2> QED BY <2>1, <2>2, Facts, GuardTypes
<1>5. runner.bin \in Versions
    BY <1>1 DEF Inv, Data
<1> QED BY <1>1, <1>3, <1>4, <1>5, ReapStep

\* TERM, from the operator or from the service manager.
LEMMA TerminateFacts ==
    ASSUME Inv, terminate
    PROVE  /\ proc' = Reaped(runner.pid) /\ runner' \in RunnerType(Len(proc))
           /\ runner'.pc = "down" /\ runner'.pid = NoProcess /\ runner'.deploying = FALSE
           /\ guard' \in GuardType(Len(proc)) /\ listener' \in ListenerType(Len(proc))
<1>1. Off(listener) \in ListenerType(Len(proc))
    BY Facts DEF ListenerType, Off
<1> QED BY Zenon, <1>1, Facts, GuardTypes, IdleType DEF terminate

LEMMA OperatorRestartStep == ASSUME Inv, OperatorRestart PROVE Inv'
BY Zenon, TerminateFacts, ReapStep DEF OperatorRestart


LEMMA CrashStep == ASSUME Inv, Crash PROVE Inv'
<1>1. /\ runner.pc # "down" /\ Fault /\ runner' = Idle /\ guard' = NoGuard
      /\ listener' \in {listener, Off(listener)}
      /\ UNCHANGED <<disk, deployer, recycles, reported>>
      /\ proc' = [p \in DOMAIN proc |->
                    IF proc[p].state = "zombie"
                    THEN [proc[p] EXCEPT !.state = "gone"] ELSE proc[p]]
    BY DEF Crash, At
<1>2. /\ proc' \in Seq(ProcType) /\ Len(proc') = Len(proc) /\ DOMAIN proc' = DOMAIN proc
      /\ \A p \in DOMAIN proc : proc'[p].state # "gone" => proc[p].state # "gone"
  <2>1. \A p \in DOMAIN proc : proc[p] \in ProcType
      BY Facts
  <2>2. DOMAIN proc' = DOMAIN proc /\ proc' = [p \in DOMAIN proc' |-> proc'[p]]
      BY <1>1
  <2>3. \A p \in DOMAIN proc : /\ proc'[p] \in ProcType
                               /\ proc'[p].state # "gone" => proc[p].state # "gone"
      BY <1>1, <2>1 DEF ProcType
  <2> QED BY <2>2, <2>3, Facts, ProcUpdate
<1>3. /\ runner' \in RunnerType(Len(proc)) /\ runner'.pc = "down"
      /\ runner'.pid = NoProcess /\ runner'.deploying = FALSE
    BY Zenon, <1>1, Facts, IdleType
<1>4. guard' \in GuardType(Len(proc)) /\ listener' \in ListenerType(Len(proc))
  <2>1. Off(listener) \in ListenerType(Len(proc))
      BY Facts DEF ListenerType, Off
  <2> QED BY <1>1, <2>1, Facts, GuardTypes
<1>5. Processes'
  <2>1. \A p \in DOMAIN proc' : Exists(p)' => Exists(p) /\ p \in DOMAIN proc
      BY <1>2 DEF Exists
  <2>2. owner' = owner
      BY <1>1 DEF disk
  <2>3. \A p \in DOMAIN proc : Exists(p) => owner \in {p, Spawning}
      BY <1>1 DEF Inv, Processes, Exists
  <2>4. \A p, q \in DOMAIN proc : Exists(p) /\ Exists(q) => p = q
      BY DEF Inv, Processes
  <2> QED BY <1>3, <2>1, <2>2, <2>3, <2>4 DEF Processes
<1>6. Data'
    BY <1>1, <1>3 DEF Inv, Data, disk
<1>7. TypeOK'
    BY <1>1, <1>2, <1>3, <1>4, Facts, Framed DEF Inv, disk
<1> QED BY <1>5, <1>6, <1>7 DEF Inv

LEMMA BackendDiesStep == ASSUME Inv, NEW p \in DOMAIN proc, BackendDies(p) PROVE Inv'
<1> DEFINE x == IF p = runner.pid THEN "zombie" ELSE "gone"
<1>1. /\ Up(p) /\ (Fault \/ Fine) /\ UNCHANGED <<disk, runner, guard, rest>>
      /\ proc' = [proc EXCEPT ![p].state = x]
    BY DEF BackendDies
<1>2. /\ proc' \in Seq(ProcType) /\ Len(proc') = Len(proc) /\ DOMAIN proc' = DOMAIN proc
      /\ \A q \in DOMAIN proc : proc'[q].state # "gone" => proc[q].state # "gone"
  <2>1. \A q \in DOMAIN proc : proc[q] \in ProcType
      BY Facts
  <2>2. DOMAIN proc' = DOMAIN proc /\ proc' = [q \in DOMAIN proc' |-> proc'[q]]
      BY Zenon, <1>1
  <2>3. \A q \in DOMAIN proc : /\ proc'[q] \in ProcType
                               /\ proc'[q].state # "gone" => proc[q].state # "gone"
      BY <1>1, <2>1 DEF ProcType, Up
  <2> QED BY <2>2, <2>3, Facts, ProcUpdate
<1>3. Processes'
  <2>1. \A q \in DOMAIN proc' : Exists(q)' => Exists(q) /\ q \in DOMAIN proc
      BY <1>2 DEF Exists
  <2>2. UNCHANGED <<owner, runner>>
      BY <1>1 DEF disk
  <2>3. ~Exists(runner.pid) => ~Exists(runner.pid)'
    <3>1. CASE runner.pid = NoProcess
        BY <2>2, <3>1 DEF Exists
    <3>2. CASE runner.pid # NoProcess
        BY <2>1, <2>2, <3>2, <1>2, Facts DEF NoProcess
    <3> QED BY <3>1, <3>2
  <2> QED BY <2>1, <2>2, <2>3 DEF Inv, Processes
<1>4. Data'
    BY <1>1 DEF Inv, Data, disk, rest
<1>5. TypeOK'
    BY <1>1, <1>2, Facts, Framed DEF Inv, disk, rest
<1> QED BY <1>3, <1>4, <1>5 DEF Inv

LEMMA GuardDiesStep == ASSUME Inv, GuardDies PROVE Inv'
<1>1. /\ Fault /\ UNCHANGED <<disk, proc, runner, rest>>
      /\ guard' \in GuardType(Len(proc))
    BY GuardTypes DEF GuardDies
<1>2. Processes'
    BY <1>1, Elsewhere DEF Inv, disk
<1>3. Data'
    BY <1>1 DEF Inv, Data, disk, rest
<1>4. TypeOK'
    BY <1>1, Facts, Framed DEF Inv, disk, rest
<1> QED BY <1>2, <1>3, <1>4 DEF Inv

-----------------------------------------------------------------------------
(***************************************************************************)
(* The deploy script.                                                      *)
(***************************************************************************)

\* It touches neither the processes nor the record of their owner.
LEMMA ScriptStep ==
    ASSUME Inv, UNCHANGED <<owner, stack>>, Scalars', journal' \in JournalType,
           listener' \in ListenerType(Len(proc)),
           journal.phase # "none" => journal'.phase # "none",
           journal'.phase # "none" =>
                journal'.bin \in Versions /\ journal'.next \in Versions,
           deployer'.pc # "idle" => deployer'.snapshot \in Versions
    PROVE  Inv'
<1>1. Processes'
    BY Elsewhere DEF Inv, stack
<1>2. Data'
    BY DEF Inv, Data, stack
<1>3. TypeOK'
    BY Facts, TypePartsNext DEF stack
<1> QED BY <1>1, <1>2, <1>3 DEF Inv

LEMMA ThenType ==
    ASSUME Inv, NEW pc \in Stages, Then(pc)
    PROVE  /\ deployer' \in DeployerType /\ deployer'.snapshot = deployer.snapshot
           /\ deployer'.pc = pc
BY Facts DEF Then, DeployerType, Scalars

Stage == Stages \ {"idle"}

\* A step of the script that writes a file, or none.
LEMMA FileStep ==
    ASSUME Inv, NEW pc \in Stage, Then(pc), deployer.pc # "idle", Fault \/ Fine,
           UNCHANGED <<journal, owner, listener, stack>>,
           pin' \in Versions, loaded' \in Versions,
           receipt' \in Versions \cup {None}, commit' \in Versions \cup {None},
           reported' \in Versions \cup {None}
    PROVE  Inv'
<1>1. /\ deployer' \in DeployerType /\ deployer'.snapshot = deployer.snapshot
      /\ deployer'.pc = pc
    BY ThenType DEF Stage
<1>2. Scalars'
    BY <1>1, Facts, FaultType DEF Inv, Scalars, stack
<1>3. deployer.snapshot \in Versions
    BY DEF Inv, Data
<1>4. /\ journal' \in JournalType /\ listener' \in ListenerType(Len(proc))
      /\ (journal'.phase # "none" => journal'.bin \in Versions /\ journal'.next \in Versions)
    BY Facts DEF Inv, Data
<1> QED BY <1>1, <1>2, <1>3, <1>4, ScriptStep


LEMMA ScriptFiles ==
    ASSUME Inv,
           \/ AwaitPhase("await", "candidate_verified", "install")
           \/ AwaitPhase("attach", "attached", "check")
           \/ prepareBootstrap \/ InstallPin \/ Reload \/ RestorePin \/ ReloadRestored
           \/ commit_backend_handoff \/ CheckDeployment \/ DeployerDies
    PROVE  Inv'
<1>0. /\ pin \in Versions /\ loaded \in Versions
      /\ receipt \in Versions \cup {None} /\ commit \in Versions \cup {None}
      /\ reported \in Versions \cup {None} /\ deployer.version \in Versions
    BY Facts DEF Scalars, DeployerType
<1>1. CASE AwaitPhase("await", "candidate_verified", "install")
  <2>1. PICK pc \in {"install", "failed"} : Then(pc)
      BY <1>1 DEF AwaitPhase
  <2>2. /\ deployer.pc # "idle" /\ (Fault \/ Fine)
        /\ UNCHANGED <<disk, stack, listener, reported>>
      BY <1>1 DEF AwaitPhase, Deploying
  <2>3. pc \in Stage
      BY DEF Stage, Stages, Finished
  <2> QED BY <1>0, <2>1, <2>2, <2>3, FileStep DEF disk
<1>2. CASE AwaitPhase("attach", "attached", "check")
  <2>1. PICK pc \in {"check", "failed"} : Then(pc)
      BY <1>2 DEF AwaitPhase
  <2>2. /\ deployer.pc # "idle" /\ (Fault \/ Fine)
        /\ UNCHANGED <<disk, stack, listener, reported>>
      BY <1>2 DEF AwaitPhase, Deploying
  <2>3. pc \in Stage
      BY DEF Stage, Stages, Finished
  <2> QED BY <1>0, <2>1, <2>2, <2>3, FileStep DEF disk
<1>3. CASE prepareBootstrap
  <2>1. PICK pc \in {"install", "failed"} : Then(pc)
      BY <1>3 DEF prepareBootstrap
  <2>2. /\ deployer.pc # "idle" /\ Fine /\ receipt' \in {receipt, deployer.version}
        /\ UNCHANGED <<journal, owner, pin, loaded, commit, stack, listener, reported>>
      BY <1>3 DEF prepareBootstrap, Deploying
  <2>3. pc \in Stage
      BY DEF Stage, Stages, Finished
  <2> QED BY <1>0, <2>1, <2>2, <2>3, FileStep
<1>4. CASE InstallPin
  <2>1. PICK pc \in {"reload", "failed"} : Then(pc)
      BY <1>4 DEF InstallPin
  <2>2. /\ deployer.pc # "idle" /\ Fine /\ pin' \in {pin, deployer.version}
        /\ UNCHANGED <<journal, owner, loaded, receipt, commit, stack, listener, reported>>
      BY <1>4 DEF InstallPin, Deploying
  <2>3. pc \in Stage
      BY DEF Stage, Stages, Finished
  <2> QED BY <1>0, <2>1, <2>2, <2>3, FileStep
<1>5. CASE Reload
  <2>1. PICK pc \in {"commit", "restart", "restore"} : Then(pc)
      BY <1>5 DEF Reload
  <2>2. /\ deployer.pc # "idle" /\ (Fault \/ Fine) /\ loaded' = pin
        /\ UNCHANGED <<journal, owner, pin, receipt, commit, stack, listener, reported>>
      BY <1>5 DEF Reload, Deploying
  <2>3. pc \in Stage
      BY DEF Stage, Stages, Finished
  <2> QED BY <1>0, <2>1, <2>2, <2>3, FileStep
<1>6. CASE RestorePin
  <2>1. /\ Then("unload") /\ deployer.pc # "idle" /\ Fine /\ pin' = deployer.snapshot
        /\ UNCHANGED <<journal, owner, loaded, receipt, commit, stack, listener, reported>>
      BY <1>6 DEF RestorePin, Deploying
  <2>2. deployer.snapshot \in Versions /\ "unload" \in Stage
      BY <2>1 DEF Inv, Data, Stage, Stages, Finished
  <2> QED BY <1>0, <2>1, <2>2, FileStep
<1>7. CASE ReloadRestored
  <2>1. PICK pc \in {"restart", "failed"} : Then(pc)
      BY <1>7 DEF ReloadRestored
  <2>2. /\ deployer.pc # "idle" /\ Fine /\ loaded' = pin
        /\ UNCHANGED <<journal, owner, pin, receipt, commit, stack, listener, reported>>
      BY <1>7 DEF ReloadRestored, Deploying
  <2>3. pc \in Stage
      BY DEF Stage, Stages, Finished
  <2> QED BY <1>0, <2>1, <2>2, <2>3, FileStep
<1>8. CASE commit_backend_handoff
  <2>1. PICK pc \in {"attach", "failed"} : Then(pc)
      BY <1>8 DEF commit_backend_handoff
  <2>2. /\ deployer.pc # "idle" /\ Fine
        /\ \/ commit' = commit
           \/ commit' = journal.next /\ journal.phase = "candidate_verified"
        /\ UNCHANGED <<journal, owner, pin, loaded, receipt, stack, listener, reported>>
      BY <1>8 DEF commit_backend_handoff, Deploying
  <2>3. pc \in Stage /\ (journal.phase = "candidate_verified" => journal.next \in Versions)
      BY DEF Stage, Stages, Finished, Inv, Data
  <2> QED BY <1>0, <2>1, <2>2, <2>3, FileStep
<1>9. CASE CheckDeployment
  <2>1. PICK pc \in {"done", "failed", "restore"} : Then(pc)
      BY <1>9 DEF CheckDeployment
  <2>2. /\ deployer.pc # "idle" /\ (Fault \/ Fine)
        /\ reported' \in {reported, deployer.version}
        /\ UNCHANGED <<disk, stack, listener>>
      BY <1>9 DEF CheckDeployment, Deploying
  <2>3. pc \in Stage
      BY DEF Stage, Stages, Finished
  <2> QED BY <1>0, <2>1, <2>2, <2>3, FileStep DEF disk
<1>10. CASE DeployerDies
  <2>1. /\ Then("failed") /\ deployer.pc # "idle" /\ Fault
        /\ UNCHANGED <<disk, stack, listener, reported>>
      BY <1>10 DEF DeployerDies, Finished
  <2>2. "failed" \in Stage
      BY DEF Stage, Stages, Finished
  <2> QED BY <1>0, <2>1, <2>2, FileStep DEF disk
<1> QED BY <1>1, <1>2, <1>3, <1>4, <1>5, <1>6, <1>7, <1>8, <1>9, <1>10

LEMMA DeployStep == ASSUME Inv, Deploy PROVE Inv'
<1>1. /\ Fine /\ reported' = None /\ UNCHANGED <<disk, stack, listener>>
      /\ deployer.version <= MaxDeployments
    BY DEF Deploy
<1>2. PICK handoff \in BOOLEAN :
        deployer' = [pc |-> IF handoff THEN "request" ELSE "bootstrap",
                     version |-> deployer.version + 1, snapshot |-> pin,
                     handoff |-> handoff, restarted |-> FALSE,
                     pid |-> listener.pid, gen |-> listener.gen]
    BY Zenon DEF Deploy
<1>3. deployer' \in DeployerType /\ deployer'.snapshot \in Versions
  <2>1. deployer.version + 1 \in Versions
      BY SMTT(30), <1>1, Facts, DeploymentAssumption DEF Scalars, DeployerType, Versions
  <2>2. listener.pid \in Nat /\ listener.gen \in Nat
      BY Facts DEF ListenerType
  <2>3. pin \in Versions
      BY Facts DEF Scalars
  <2> DEFINE x == IF handoff THEN "request" ELSE "bootstrap"
  <2>4. x \in Stages
      BY DEF Stages
  <2> HIDE DEF x
  <2>5. deployer' = [pc |-> x, version |-> deployer.version + 1, snapshot |-> pin,
                     handoff |-> handoff, restarted |-> FALSE,
                     pid |-> listener.pid, gen |-> listener.gen]
      BY <1>2 DEF x
  <2> QED BY <2>1, <2>2, <2>3, <2>4, <2>5 DEF DeployerType
<1>4. Scalars'
    BY <1>1, <1>3, Facts, FaultType DEF Inv, Scalars, disk, stack
<1>5. journal' \in JournalType /\ listener' \in ListenerType(Len(proc))
      /\ (journal'.phase # "none" => journal'.bin \in Versions /\ journal'.next \in Versions)
      /\ (journal.phase # "none" => journal'.phase # "none")
    BY <1>1, Facts DEF Inv, Data, disk
<1> QED BY <1>1, <1>3, <1>4, <1>5, ScriptStep DEF disk

\* The transaction is prepared with the versions of the script.
LEMMA RequestHandoffStep == ASSUME Inv, RequestHandoff PROVE Inv'
<1>1. /\ deployer.pc # "idle" /\ (Fault \/ Fine)
      /\ UNCHANGED <<owner, pin, loaded, receipt, commit, stack, reported>>
    BY DEF RequestHandoff, Deploying
<1>2. PICK pc \in {"await", "failed"} : Then(pc)
    BY DEF RequestHandoff
<1>3. /\ deployer' \in DeployerType /\ deployer'.snapshot = deployer.snapshot
      /\ deployer.snapshot \in Versions
  <2>1. pc \in Stages
      BY DEF Stages, Finished
  <2> QED BY <1>1, <1>2, <2>1, ThenType DEF Inv, Data
<1>4. Scalars'
    BY <1>1, <1>3, Facts, FaultType DEF Inv, Scalars, stack
<1>5. journal' \in JournalType /\ listener' \in ListenerType(Len(proc))
      /\ (journal'.phase # "none" => journal'.bin \in Versions /\ journal'.next \in Versions)
      /\ (journal.phase # "none" => journal'.phase # "none")
  <2>1. CASE ~Accepts
      BY <2>1, Facts DEF RequestHandoff, Inv, Data
  <2>2. CASE Accepts
    <3>1. /\ journal' = [phase |-> "prepared", old |-> deployer.pid,
                         cand |-> NoProcess, prev |-> deployer.snapshot,
                         bin |-> listener.bin, next |-> deployer.version, gen |-> deployer.gen]
          /\ listener' = [listener EXCEPT !.state = "accepted"]
        BY <2>2 DEF RequestHandoff
    <3>2. /\ deployer.pid \in Nat /\ deployer.gen \in Nat /\ NoProcess \in Nat
          /\ deployer.version \in Versions /\ Versions \subseteq Nat
          /\ listener.bin \in Versions
        BY Facts DEF Scalars, DeployerType, ListenerType, NoProcess, Versions
    <3>3. journal' \in JournalType
        BY <1>3, <3>1, <3>2 DEF JournalType, Phases
    <3>4. listener' \in ListenerType(Len(proc))
        BY <3>1, Facts DEF ListenerType
    <3> QED BY <1>3, <3>1, <3>2, <3>3, <3>4
  <2> QED BY <2>1, <2>2
<1> QED BY <1>1, <1>3, <1>4, <1>5, ScriptStep

LEMMA RestartServiceStep == ASSUME Inv, RestartService PROVE Inv'
<1>1. /\ terminate /\ Fine /\ UNCHANGED <<disk, recycles, reported>> /\ deployer.pc # "idle"
      /\ deployer' = [deployer EXCEPT !.restarted = TRUE,
                      !.pc = IF deployer.restarted THEN "failed" ELSE "check"]
    BY DEF RestartService, Deploying
<1>2. /\ proc' = Reaped(runner.pid) /\ runner' \in RunnerType(Len(proc))
      /\ runner'.pc = "down" /\ runner'.pid = NoProcess /\ runner'.deploying = FALSE
      /\ guard' \in GuardType(Len(proc)) /\ listener' \in ListenerType(Len(proc))
    BY Zenon, <1>1, TerminateFacts
<1>3. deployer' \in DeployerType /\ deployer'.snapshot = deployer.snapshot
  <2> DEFINE x == IF deployer.restarted THEN "failed" ELSE "check"
  <2>1. x \in Stages
      BY DEF Stages, Finished
  <2> HIDE DEF x
  <2>2. deployer' = [deployer EXCEPT !.restarted = TRUE, !.pc = x]
      BY <1>1 DEF x
  <2> QED BY Zenon, <2>1, <2>2, Facts DEF Scalars, DeployerType
<1>4. Processes'
    BY <1>1, <1>2, Reaps, Facts DEF Inv, disk
<1>5. Data'
    BY <1>1, <1>2, <1>3 DEF Inv, Data, disk
<1>6. TypeOK'
  <2>1. Scalars'
      BY <1>1, <1>3, Facts, FaultType DEF Inv, Scalars, disk
  <2> QED BY <1>1, <1>2, <2>1, ReapType, Facts, TypePartsNext DEF disk
<1> QED BY <1>4, <1>5, <1>6 DEF Inv

-----------------------------------------------------------------------------
\* The inductive invariant: whoever runs is the runner's child, or named by the
\* owner file (recordOwnerSpawning before the fork, recordOwnerStarted after).
THEOREM Invariance == Spec => []Inv
<1>1. Init => Inv
  <2> SUFFICES ASSUME Init PROVE Inv
      OBVIOUS
  <2>1. /\ proc = <<>> /\ proc \in Seq(ProcType) /\ Len(proc) = 0 /\ DOMAIN proc = {}
      BY DEF Init
  <2>2. journal \in JournalType /\ journal.phase = "none"
      BY DEF Init, JournalType, Phases, Settled, NoProcess, None
  <2>3. 1 \in Versions /\ MaxRecycles \in Nat /\ MaxFaults \in Nat
      BY DeploymentAssumption DEF Versions
  <2>4. deployer \in DeployerType /\ deployer.pc = "idle"
      BY <2>3 DEF Init, DeployerType, Stages, Finished, NoProcess, None
  <2>5. Scalars
      BY <2>3, <2>4 DEF Init, Scalars
  <2>6. /\ runner \in RunnerType(0) /\ runner.pc = "down" /\ runner.pid = NoProcess
        /\ runner.deploying = FALSE
      BY Zenon, IdleType DEF Init
  <2>7. guard \in GuardType(0) /\ listener \in ListenerType(0) /\ owner \in 0 .. 0
      BY <2>3 DEF Init, GuardType, ListenerType, NoGuard, NoProcess, None
  <2>8. TypeOK
      BY <2>1, <2>2, <2>5, <2>6, <2>7, TypeParts
  <2> QED BY <2>1, <2>2, <2>4, <2>6, <2>8 DEF Inv, Processes, Data, Exists
<1>2. Inv /\ [Next]_vars => Inv'
  <2> SUFFICES ASSUME Inv, [Next]_vars PROVE Inv'
      OBVIOUS
  <2>1. CASE RunnerStep
      BY <2>1, StartStep, RecordSpawningStep, SpawnStep, RecordRunningStep, JournalMoves,
         SimpleMoves, GuardMoves, AttachedStep, ListenerMoves, StopOldStep, OldReapedStep,
         RecycleReapStep, StopCandidateStep, RolledBackStep, RestartStackStep
         DEF RunnerStep
  <2>2. CASE DeployerStep
      BY <2>2, RequestHandoffStep, ScriptFiles, RestartServiceStep DEF DeployerStep
  <2>3. CASE UNCHANGED vars
    <3>1. UNCHANGED <<journal, owner, pin, loaded, receipt, commit, proc, runner, guard,
                      listener, deployer, recycles, faults, reported>>
        BY <2>3 DEF vars, disk
    <3>2. Processes'
        BY <3>1, Elsewhere DEF Inv
    <3>3. Data'
        BY <3>1 DEF Inv, Data
    <3>4. Scalars'
        BY <3>1, Facts DEF Scalars
    <3>5. TypeOK'
        BY <3>1, <3>4, Facts, TypePartsNext
    <3> QED BY <3>2, <3>3, <3>5 DEF Inv
  <2> QED BY <2>1, <2>2, <2>3, DeployStep, OperatorRestartStep, CrashStep, GuardDiesStep,
             ScriptFiles, BackendDiesStep DEF Next
<1> QED BY <1>1, <1>2, PTL DEF Spec

\* No second database owner, ever: at most one backend runs, whatever dies and
\* whoever restarts it (recoverTransaction holds while the recorded owner, or
\* one that was being started, may still run).
THEOREM OneOwner == Spec => []SoleOwner
<1>1. Inv => SoleOwner
    BY DEF Inv, Processes, SoleOwner, Up, Exists
<1> QED BY <1>1, Invariance, PTL

-----------------------------------------------------------------------------
(***************************************************************************)
(* What is deployed.                                                       *)
(***************************************************************************)

\* Stages of the script in which it has, or is about to have, changed the pin.
Pinning == {"install", "reload", "restart", "check", "restore", "unload"}

\* The script and the files it writes.  Outside a transaction of its own it
\* works only on a settled journal; a transaction it works on carries its
\* version; and only a version that is pinned, loaded and committed goes on.
Script ==
    /\ deployer.pc \in {"request", "await", "commit", "attach"} => deployer.handoff
    /\ deployer.pc \in {"bootstrap", "restart"} => ~deployer.handoff
    /\ deployer.pc \in Pinning /\ ~deployer.handoff => journal.phase \in Settled
    /\ deployer.pc \in Pinning \cup {"await", "commit", "attach"} /\ deployer.handoff
         => journal.next = deployer.version
    /\ deployer.pc = "reload" => pin = deployer.version
    /\ deployer.pc \in {"commit", "attach", "check"}
         => pin = deployer.version /\ loaded = deployer.version
    /\ deployer.pc = "restart" /\ ~deployer.restarted
         => pin = deployer.version /\ loaded = deployer.version
    /\ deployer.pc = "check" /\ deployer.handoff => journal.phase = "attached"
    /\ commit <= deployer.version /\ journal.next <= deployer.version
    /\ commit = deployer.version =>
         deployer.handoff /\ deployer.pc \in {"attach", "check", "done", "failed"}
    /\ deployer.pc = "request" => journal.next # deployer.version
    /\ deployer.restarted => ~deployer.handoff

\* Positions the runner takes only with a candidate, and those with a guard
\* that is prepared for one.
Candidate == {"started", "verify", "verified", "poll", "commit", "rollback"}
Fencing == {"drain", "begin", "reap", "reaped"}

\* A runner with a candidate has a transaction under way and a guard that
\* knows of it.
Carried ==
    /\ runner.deploying =>
         /\ journal.phase \notin Settled /\ ~runner.rollback /\ guard.life # "none"
         /\ runner.pc \notin {"down", "guard"}
         /\ runner.pc # "attached" => guard.txn # None
    /\ runner.pc \in Fencing => guard.txn # None /\ guard.life # "none"
    /\ runner.pc \in Candidate => runner.deploying

\* A transaction is committed only by its own commit file, and from then on
\* the pin names its candidate.
Sealed ==
    /\ runner.pc = "commit" => commit = journal.next
    /\ journal.phase = "committed" => commit = journal.next
    /\ runner.pc = "attaching" /\ runner.deploying => journal.phase = "committed"
    /\ journal.phase \notin Settled /\ commit = journal.next => pin = journal.next

\* The runner's child runs the runner's version, and all that exists runs the
\* version that was reported deployed.
Running ==
    /\ runner.pid # NoProcess => proc[runner.pid].bin = runner.bin
    /\ reported # None =>
         /\ pin = reported /\ loaded = reported
         /\ deployer.pc = "done" /\ journal.phase \in Settled
         /\ runner.pc # "down" => runner.bin = reported
         /\ \A p \in DOMAIN proc : Exists(p) => proc[p].bin = reported

Deployed == Inv /\ Script /\ Carried /\ Sealed /\ Running

\* What a step of anyone but the script does to the files.
Backstage ==
    /\ UNCHANGED <<deployer, pin, loaded, commit, reported>>
    /\ journal'.next = journal.next
    /\ journal.phase \in Settled => journal'.phase = journal.phase
    /\ journal'.phase = "committed" => commit = journal.next

LEMMA BackstageKeeps ==
    ASSUME Deployed, Inv', Backstage, Carried',
           runner'.pc = "commit" => commit = journal.next,
           runner'.pc = "attaching" /\ runner'.deploying => journal'.phase = "committed",
           runner'.pid # NoProcess => proc'[runner'.pid].bin = runner'.bin,
           reported # None =>
             /\ runner'.pc # "down" => runner'.bin = reported
             /\ \A p \in DOMAIN proc' : Exists(p)' => proc'[p].bin = reported
    PROVE  Deployed'
<1>1. Script'
  <2>1. "attached" \in Settled
      BY DEF Settled
  <2> QED BY Zenon, <2>1 DEF Deployed, Script, Backstage
<1>2. Sealed'
    BY Zenon DEF Deployed, Sealed, Backstage
<1>3. Running'
    BY Zenon DEF Deployed, Running, Backstage
<1> QED BY Zenon, <1>1, <1>2, <1>3 DEF Deployed

\* The runner goes on with the child it has.
LEMMA GoesOn ==
    ASSUME Deployed, Inv', Backstage, Carried', UNCHANGED proc,
           runner.pc # "down", runner'.pid = runner.pid, runner'.bin = runner.bin,
           runner'.pc = "commit" => commit = journal.next,
           runner'.pc = "attaching" /\ runner'.deploying => journal'.phase = "committed"
    PROVE  Deployed'
<1>1. runner'.pid # NoProcess => proc'[runner'.pid].bin = runner'.bin
    BY Zenon DEF Deployed, Running
<1>2. reported # None =>
         /\ runner'.pc # "down" => runner'.bin = reported
         /\ \A p \in DOMAIN proc' : Exists(p)' => proc'[p].bin = reported
    BY Zenon DEF Deployed, Running, Exists
<1> QED BY Zenon, <1>1, <1>2, BackstageKeeps

\* The child is waited for, whether the runner goes on or exits.
LEMMA GoesOnAlone ==
    ASSUME Deployed, Inv', Backstage, Carried', proc' = Reaped(runner.pid),
           runner'.pid = NoProcess \/ (runner'.pid = runner.pid /\ runner'.bin = runner.bin),
           reported # None /\ runner'.pc # "down" => runner'.bin = reported,
           runner'.pc \notin {"commit", "attaching"}
    PROVE  Deployed'
<1>1. /\ proc \in Seq(ProcType) /\ DOMAIN proc = 1 .. Len(proc)
      /\ runner.pid \in 0 .. Len(proc) /\ Len(proc) \in Nat
    BY Zenon, Facts DEF Deployed
<1>2. DOMAIN proc' = DOMAIN proc /\ \A p \in DOMAIN proc : proc'[p].bin = proc[p].bin
  <2>1. CASE runner.pid = NoProcess
      BY Zenon, <2>1 DEF Reaped
  <2>2. CASE runner.pid # NoProcess
    <3>1. proc' = [proc EXCEPT ![runner.pid].state = "gone"] /\ runner.pid \in DOMAIN proc
        BY <1>1, <2>2 DEF Reaped, NoProcess
    <3>2. \A p \in DOMAIN proc : proc[p] \in ProcType
        BY <1>1
    <3> QED BY <3>1, <3>2 DEF ProcType
  <2> QED BY <2>1, <2>2
<1>3. \A p \in DOMAIN proc : Exists(p)' => Exists(p)
  <2>1. \A p \in DOMAIN proc : proc'[p].state = IF p = runner.pid THEN "gone" ELSE proc[p].state
      BY Zenon, <1>1, ReapedType
  <2> QED BY Zenon, <2>1 DEF Exists
<1>4. runner'.pid # NoProcess => proc'[runner'.pid].bin = runner'.bin
  <2>1. runner'.pid # NoProcess => runner'.pid = runner.pid /\ runner.pid \in DOMAIN proc
      BY <1>1 DEF NoProcess
  <2> QED BY Zenon, <1>2, <2>1 DEF Deployed, Running
<1>5. reported # None => \A p \in DOMAIN proc : Exists(p) => proc[p].bin = reported
    BY Zenon DEF Deployed, Running
<1>6. reported # None => \A p \in DOMAIN proc' : Exists(p)' => proc'[p].bin = reported
    BY Zenon, <1>2, <1>3, <1>5
<1>7. runner'.pc # "commit" /\ runner'.pc # "attaching"
    OBVIOUS
<1> QED BY <1>4, <1>6, <1>7, BackstageKeeps

LEMMA Offstage ==
    ASSUME Deployed, UNCHANGED <<journal, pin, loaded, commit, deployer, reported>>
    PROVE  Backstage
BY Zenon DEF Deployed, Sealed, Backstage

\* The runner moves, and the guard or the journal may with it.
LEMMA Walks ==
    ASSUME Deployed, Inv', Backstage, UNCHANGED proc,
           NEW pc \in Positions \ {"down"}, runner' = To(pc), runner.pc # "down",
           runner.deploying =>
             /\ journal'.phase \notin Settled /\ guard'.life # "none"
             /\ pc # "guard" /\ (pc # "attached" => guard'.txn # None),
           pc \in Fencing => guard'.txn # None /\ guard'.life # "none",
           pc \in Candidate => runner.deploying,
           pc = "commit" => commit = journal.next,
           pc = "attaching" /\ runner.deploying => journal'.phase = "committed"
    PROVE  Deployed'
<1>1. /\ runner'.pc = pc /\ runner'.pid = runner.pid /\ runner'.bin = runner.bin
      /\ runner'.deploying = runner.deploying /\ runner'.rollback = runner.rollback
    BY Zenon, Facts DEF Deployed, To, RunnerType
<1>2. Carried'
    BY Zenon, <1>1 DEF Deployed, Carried
<1> QED BY Zenon, <1>1, <1>2, GoesOn

\* What a runner with a candidate can rely on, off the end of the attachment.
LEMMA CarriedFacts ==
    ASSUME Deployed
    PROVE  /\ runner.deploying =>
                /\ journal.phase \notin Settled /\ guard.life # "none"
                /\ runner.pc # "guard"
                /\ runner.pc # "attached" => guard.txn # None
                /\ ~runner.rollback
           /\ runner.pc \in Fencing => guard.txn # None /\ guard.life # "none"
           /\ runner.pc \in Candidate => runner.deploying
BY Zenon DEF Deployed, Carried

LEMMA WaitForUrlKeeps == ASSUME Deployed, Inv', WaitForUrl PROVE Deployed'
<1>1. /\ runner.pc = "health" /\ UNCHANGED <<disk, proc, guard, rest>>
      /\ \/ runner' = To("failed") \/ runner' = To("attach")
         \/ guard.life = "none" /\ runner' = To("guard")
         \/ runner.deploying /\ runner' = To("verify")
    BY DEF WaitForUrl, At, Go
<1>2. Backstage
    BY Zenon, <1>1, Offstage DEF disk, rest
<1>3. PICK pc \in {"failed", "attach", "guard", "verify"} :
        /\ runner' = To(pc) /\ (pc = "guard" => guard.life = "none")
        /\ pc = "verify" => runner.deploying
    BY <1>1
<1>4. pc \in Positions \ {"down"} /\ pc \notin Fencing
      /\ (pc \in Candidate => pc = "verify")
    BY DEF Positions, Fencing, Candidate
<1>5. runner.deploying => /\ journal'.phase \notin Settled /\ guard'.life # "none"
                          /\ pc # "guard" /\ (pc # "attached" => guard'.txn # None)
    BY <1>1, <1>3, CarriedFacts DEF disk
<1> QED BY Zenon, <1>1, <1>2, <1>3, <1>4, <1>5, Walks

LEMMA GuardVerifyKeeps == ASSUME Deployed, Inv', GuardVerify PROVE Deployed'
<1>1. /\ runner.pc = "verify" /\ UNCHANGED <<disk, proc, guard, rest>>
      /\ runner' = To("failed") \/ runner' = To("verified")
    BY DEF GuardVerify, At, Go
<1>2. Backstage
    BY Zenon, <1>1, Offstage DEF disk, rest
<1>3. PICK pc \in {"failed", "verified"} : runner' = To(pc)
    BY <1>1
<1>4. /\ pc \in Positions \ {"down"} /\ pc \notin Fencing /\ "verify" \in Candidate
      /\ pc # "guard" /\ pc # "commit" /\ pc # "attaching"
    BY DEF Positions, Fencing, Candidate
<1>5. runner.deploying => /\ journal'.phase \notin Settled /\ guard'.life # "none"
                          /\ pc # "guard" /\ (pc # "attached" => guard'.txn # None)
    BY <1>1, <1>4, CarriedFacts DEF disk
<1> QED BY Zenon, <1>1, <1>2, <1>3, <1>4, <1>5, Walks, CarriedFacts

\* The commit file names this transaction when the runner goes on with it.
LEMMA PollCommitKeeps == ASSUME Deployed, Inv', PollCommit PROVE Deployed'
<1>1. /\ runner.pc = "poll" /\ UNCHANGED <<disk, proc, guard, rest>>
      /\ \/ runner' = To("failed")
         \/ commit = journal.next /\ runner' = To("commit")
    BY DEF PollCommit, At, Go
<1>2. Backstage
    BY Zenon, <1>1, Offstage DEF disk, rest
<1>3. PICK pc \in {"failed", "commit"} :
        runner' = To(pc) /\ (pc = "commit" => commit = journal.next)
    BY <1>1
<1>4. /\ pc \in Positions \ {"down"} /\ pc \notin Fencing /\ "poll" \in Candidate
      /\ pc # "guard" /\ pc # "attaching"
    BY DEF Positions, Fencing, Candidate
<1>5. runner.deploying => /\ journal'.phase \notin Settled /\ guard'.life # "none"
                          /\ pc # "guard" /\ (pc # "attached" => guard'.txn # None)
    BY <1>1, <1>4, CarriedFacts DEF disk
<1> QED BY Zenon, <1>1, <1>2, <1>3, <1>4, <1>5, Walks, CarriedFacts

\* A guard that was prepared reads the journal before it attaches.
LEMMA AttachStartKeeps == ASSUME Deployed, Inv', AttachStart PROVE Deployed'
<1>1. /\ runner.pc = "attach" /\ UNCHANGED <<disk, proc, guard, rest>>
      /\ \/ runner' = To("failed")
         \/ MayAttach /\ runner' = To("attaching")
    BY DEF AttachStart, At, Go
<1>2. Backstage
    BY Zenon, <1>1, Offstage DEF disk, rest
<1>3. PICK pc \in {"failed", "attaching"} : runner' = To(pc) /\ (pc = "attaching" => MayAttach)
    BY <1>1
<1>4. pc \in Positions \ {"down"} /\ pc \notin Fencing /\ pc \notin Candidate
      /\ pc # "guard" /\ pc # "commit"
    BY DEF Positions, Fencing, Candidate
<1>5. runner.deploying => /\ journal'.phase \notin Settled /\ guard'.life # "none"
                          /\ pc # "guard" /\ (pc # "attached" => guard'.txn # None)
    BY <1>1, <1>4, CarriedFacts DEF disk
<1>6. pc = "attaching" /\ runner.deploying => journal'.phase = "committed"
    BY <1>1, <1>3, CarriedFacts DEF MayAttach, disk
<1> QED BY Zenon, <1>1, <1>2, <1>3, <1>4, <1>5, <1>6, Walks

LEMMA AttachEndKeeps == ASSUME Deployed, Inv', AttachEnd PROVE Deployed'
<1>1. /\ runner.pc = "attaching" /\ UNCHANGED <<disk, proc, rest>>
      /\ \/ runner' = To("failed") /\ guard' = guard
         \/ runner' = To("attached") /\ guard'.life = "serving"
    BY DEF AttachEnd, At, Go
<1>2. Backstage
    BY Zenon, <1>1, Offstage DEF disk, rest
<1>3. PICK pc \in {"failed", "attached"} :
        /\ runner' = To(pc) /\ (pc = "failed" => guard' = guard)
        /\ pc = "attached" => guard'.life = "serving"
    BY <1>1
<1>4. pc \in Positions \ {"down"} /\ pc \notin Fencing /\ pc \notin Candidate
      /\ pc # "guard" /\ pc # "commit" /\ pc # "attaching"
    BY DEF Positions, Fencing, Candidate
<1>5. runner.deploying => /\ journal'.phase \notin Settled /\ guard'.life # "none"
                          /\ pc # "guard" /\ (pc # "attached" => guard'.txn # None)
    BY <1>1, <1>3, <1>4, CarriedFacts DEF disk
<1> QED BY Zenon, <1>1, <1>2, <1>3, <1>4, <1>5, Walks

LEMMA StartGuardKeeps == ASSUME Deployed, Inv', StartGuard PROVE Deployed'
<1>1. /\ runner.pc = "guard" /\ UNCHANGED <<disk, proc, rest>>
    BY DEF StartGuard, At
<1>2. Backstage
    BY Zenon, <1>1, Offstage DEF disk, rest
<1>3. PICK pc \in {"failed", "ready"} : runner' = To(pc)
    BY DEF StartGuard, Go
<1>4. pc \in Positions \ {"down"} /\ pc \notin Fencing /\ pc \notin Candidate
      /\ pc # "commit" /\ pc # "attaching"
    BY DEF Positions, Fencing, Candidate
<1>5. ~runner.deploying
    BY <1>1, CarriedFacts
<1> QED BY Zenon, <1>1, <1>2, <1>3, <1>4, <1>5, Walks

\* Moves of the supervision loop, which touch neither the guard nor a file.
LEMMA LoopKeeps ==
    ASSUME Deployed, Inv', ChildExited \/ Recycle
    PROVE  Deployed'
<1>1. /\ runner.pc \in {"wait", "recycle"}
      /\ UNCHANGED <<disk, proc, guard, deployer, recycles, reported>>
    BY DEF ChildExited, Recycle, At
<1>2. Backstage
    BY Zenon, <1>1, Offstage DEF disk
<1>3. PICK pc \in {"failed", "prepare", "recycle", "held", "fence"} : runner' = To(pc)
    BY DEF ChildExited, Recycle, Go
<1>4. pc \in Positions \ {"down"} /\ pc \notin Fencing /\ pc \notin Candidate
      /\ pc # "commit" /\ pc # "attaching" /\ pc # "guard" /\ runner.pc # "attached"
      /\ runner.pc # "down"
    BY <1>1 DEF Positions, Fencing, Candidate
<1>5. runner.deploying => /\ journal'.phase \notin Settled /\ guard'.life # "none"
                          /\ pc # "guard" /\ (pc # "attached" => guard'.txn # None)
    BY <1>1, <1>4, CarriedFacts DEF disk
<1> QED BY Zenon, <1>1, <1>2, <1>3, <1>4, <1>5, Walks

LEMMA StartListenerKeeps == ASSUME Deployed, Inv', StartListener PROVE Deployed'
<1>1. /\ runner.pc = "ready" /\ UNCHANGED <<disk, proc, guard, deployer, recycles, reported>>
      /\ runner' = To("wait")
    BY DEF StartListener, At, Go
<1>2. Backstage
    BY Zenon, <1>1, Offstage DEF disk
<1>3. /\ runner'.pc = "wait" /\ runner'.pid = runner.pid /\ runner'.bin = runner.bin
      /\ runner'.deploying = runner.deploying /\ runner'.rollback = runner.rollback
    BY Zenon, <1>1, Facts DEF Deployed, To, RunnerType
<1>4. "wait" \notin Fencing /\ "wait" \notin Candidate
    BY DEF Fencing, Candidate
<1>5. Carried'
    BY <1>1, <1>3, <1>4, CarriedFacts DEF Carried, disk
<1> QED BY <1>1, <1>2, <1>3, <1>5, GoesOn

\* The guard learns of the transaction before it is fenced.
LEMMA GuardPrepareKeeps == ASSUME Deployed, Inv', GuardPrepare PROVE Deployed'
<1>1. /\ runner.pc = "prepare" /\ UNCHANGED <<disk, proc, rest>>
      /\ \/ runner' = To("held") /\ guard' = guard
         \/ /\ runner' = To("drain") /\ guard' = [guard EXCEPT !.txn = journal.next]
            /\ journal.phase = "prepared" /\ guard.life = "serving"
    BY DEF GuardPrepare, At, Go
<1>2. Backstage
    BY Zenon, <1>1, Offstage DEF disk, rest
<1>3. PICK pc \in {"held", "drain"} :
        /\ runner' = To(pc) /\ (pc = "held" => guard' = guard)
        /\ pc = "drain" => guard' = [guard EXCEPT !.txn = journal.next]
                           /\ journal.phase = "prepared" /\ guard.life = "serving"
    BY <1>1
<1>4. pc = "drain" => guard'.life = "serving" /\ guard'.txn # None
  <2>1. journal.phase = "prepared" => journal.next # None
      BY DeploymentAssumption DEF Deployed, Inv, Data, Versions, None
  <2>2. pc = "drain" => guard'.life = guard.life /\ guard'.txn = journal.next
      BY Zenon, <1>3, Facts DEF Deployed, GuardType
  <2> QED BY <1>3, <2>1, <2>2
<1>5. /\ pc \in Positions \ {"down"} /\ pc \notin Candidate
      /\ pc # "commit" /\ pc # "attaching" /\ pc # "guard" /\ (pc \in Fencing => pc = "drain")
    BY DEF Positions, Fencing, Candidate
<1>6. runner.deploying => /\ journal'.phase \notin Settled /\ guard'.life # "none"
                          /\ pc # "guard" /\ (pc # "attached" => guard'.txn # None)
    BY <1>1, <1>3, <1>4, <1>5, CarriedFacts DEF disk
<1> QED BY <1>1, <1>2, <1>3, <1>4, <1>5, <1>6, Walks

LEMMA GuardBeginKeeps ==
    ASSUME Deployed, Inv',
           \/ GuardBegin("begin", "reap", "held") \/ GuardBegin("fence", "retire", "failed")
    PROVE  Deployed'
<1>1. /\ runner.pc \in {"begin", "fence"} /\ UNCHANGED <<disk, proc, rest>>
      /\ guard' = guard \/ guard' = [guard EXCEPT !.life = "absent"]
    BY DEF GuardBegin, At
<1>2. Backstage
    BY Zenon, <1>1, Offstage DEF disk, rest
<1>3. PICK pc \in {"reap", "held", "retire", "failed"} :
        runner' = To(pc) /\ (pc = "reap" => runner.pc = "begin")
    BY DEF GuardBegin, At, Go
<1>4. guard'.txn = guard.txn /\ (guard.life # "none" => guard'.life # "none")
  <2>1. guard \in GuardType(Len(proc))
      BY Facts DEF Deployed
  <2> QED BY <1>1, <2>1 DEF GuardType
<1>5. /\ pc \in Positions \ {"down"} /\ pc \notin Candidate
      /\ pc # "commit" /\ pc # "attaching" /\ pc # "guard" /\ (pc \in Fencing => pc = "reap")
      /\ "begin" \in Fencing /\ runner.pc # "attached" /\ runner.pc # "down"
    BY <1>1 DEF Positions, Fencing, Candidate
<1>6. runner.deploying => /\ journal'.phase \notin Settled /\ guard'.life # "none"
                          /\ pc # "guard" /\ (pc # "attached" => guard'.txn # None)
    BY <1>1, <1>4, <1>5, CarriedFacts DEF disk
<1>7. pc \in Fencing => guard'.txn # None /\ guard'.life # "none"
    BY <1>3, <1>4, <1>5, CarriedFacts
<1> QED BY Zenon, <1>1, <1>2, <1>3, <1>5, <1>6, <1>7, Walks

\* An advance of the journal, written or not.
LEMMA AdvanceKeeps ==
    ASSUME Deployed, NEW from, NEW e, NEW phase \in Phases \ {"none"}, NEW reached, NEW refused,
           advanceTransaction(from, e, phase, reached, refused),
           phase = "committed" => commit = journal.next
    PROVE  /\ runner.pc = from /\ UNCHANGED <<proc, guard>> /\ Backstage
           /\ \/ runner' = refused /\ journal' = journal
              \/ /\ runner' = reached /\ journal'.phase = phase
                 /\ journal.phase = e /\ journal.phase \notin Settled
<1>1. /\ runner.pc = from
      /\ UNCHANGED <<owner, pin, loaded, receipt, commit, proc, guard, rest>>
    BY DEF advanceTransaction, At
<1>2. CASE UNCHANGED journal /\ runner' = refused
    BY Zenon, <1>1, <1>2, Offstage DEF rest
<1>3. CASE /\ MayAdvance(e, phase) /\ runner' = reached
           /\ journal' = [journal EXCEPT !.phase = phase,
                !.cand = IF phase = "candidate_started" THEN runner.pid ELSE @]
  <2>1. journal'.phase = phase /\ journal'.next = journal.next
      BY Zenon, <1>3, AdvanceJournal DEF Deployed
  <2>2. journal.phase = e /\ journal.phase \notin Settled
    <3>1. journal.phase \in Phases
        BY Zenon, Facts DEF Deployed, JournalType
    <3> QED BY <1>3, <3>1 DEF MayAdvance, next, Phases, Settled
  <2>3. Backstage
      BY Zenon, <1>1, <2>1, <2>2 DEF Backstage, rest
  <2> QED BY <1>1, <1>3, <2>1, <2>2, <2>3
<1> QED BY <1>2, <1>3 DEF advanceTransaction

LEMMA CandidateStartedKeeps == ASSUME Deployed, Inv', CandidateStarted PROVE Deployed'
<1>1. "candidate_started" \in Phases \ {"none"} /\ "candidate_started" \notin Settled
    BY DEF Phases, Settled
<1>2. /\ runner.pc = "started" /\ UNCHANGED <<proc, guard>> /\ Backstage
      /\ \/ runner' = To("failed") /\ journal' = journal
         \/ runner' = To("health") /\ journal'.phase = "candidate_started"
    BY <1>1, AdvanceKeeps DEF CandidateStarted
<1>3. PICK pc \in {"failed", "health"} : runner' = To(pc)
    BY <1>2
<1>4. pc \in Positions \ {"down"} /\ pc \notin Fencing /\ pc \notin Candidate
      /\ pc # "guard" /\ pc # "commit" /\ pc # "attaching"
    BY DEF Positions, Fencing, Candidate
<1>5. runner.deploying => /\ journal'.phase \notin Settled /\ guard'.life # "none"
                          /\ pc # "guard" /\ (pc # "attached" => guard'.txn # None)
    BY <1>1, <1>2, <1>4, CarriedFacts
<1> QED BY Zenon, <1>2, <1>3, <1>4, <1>5, Walks

LEMMA CandidateVerifiedKeeps == ASSUME Deployed, Inv', CandidateVerified PROVE Deployed'
<1>1. "candidate_verified" \in Phases \ {"none"} /\ "candidate_verified" \notin Settled
    BY DEF Phases, Settled
<1>2. /\ runner.pc = "verified" /\ UNCHANGED <<proc, guard>> /\ Backstage
      /\ \/ runner' = To("failed") /\ journal' = journal
         \/ runner' = To("poll") /\ journal'.phase = "candidate_verified"
    BY <1>1, AdvanceKeeps DEF CandidateVerified
<1>3. PICK pc \in {"failed", "poll"} : runner' = To(pc)
    BY <1>2
<1>4. pc \in Positions \ {"down"} /\ pc \notin Fencing /\ "verified" \in Candidate
      /\ pc # "guard" /\ pc # "commit" /\ pc # "attaching"
    BY DEF Positions, Fencing, Candidate
<1>5. runner.deploying /\ /\ journal'.phase \notin Settled /\ guard'.life # "none"
                          /\ pc # "guard" /\ (pc # "attached" => guard'.txn # None)
    BY <1>1, <1>2, <1>4, CarriedFacts
<1> QED BY Zenon, <1>2, <1>3, <1>4, <1>5, Walks

\* The runner writes committed only after it has read the commit file.
LEMMA CommittedKeeps == ASSUME Deployed, Inv', Committed PROVE Deployed'
<1>1. "committed" \in Phases \ {"none"} /\ "committed" \notin Settled
    BY DEF Phases, Settled
<1>2. runner.pc = "commit" /\ commit = journal.next
  <2>1. runner.pc = "commit"
      BY DEF Committed, advanceTransaction, At
  <2> QED BY Zenon, <2>1 DEF Deployed, Sealed
<1>3. /\ UNCHANGED <<proc, guard>> /\ Backstage /\ runner' = To("attach")
      /\ journal' = journal \/ journal'.phase = "committed"
    BY <1>1, <1>2, AdvanceKeeps DEF Committed
<1>4. "attach" \in Positions \ {"down"} /\ "attach" \notin Fencing /\ "attach" \notin Candidate
    BY DEF Positions, Fencing, Candidate
<1>5. runner.deploying => /\ journal'.phase \notin Settled /\ guard'.life # "none"
                          /\ guard'.txn # None
    BY <1>1, <1>2, <1>3, CarriedFacts
<1> QED BY <1>2, <1>3, <1>4, <1>5, Walks

LEMMA DrainingKeeps == ASSUME Deployed, Inv', Draining PROVE Deployed'
<1>1. "draining" \in Phases \ {"none"} /\ "draining" \notin Settled
    BY DEF Phases, Settled
<1>2. /\ runner.pc = "drain" /\ UNCHANGED <<proc, guard>> /\ Backstage
      /\ \/ runner' = To("held") /\ journal' = journal
         \/ runner' = To("begin") /\ journal'.phase = "draining"
    BY <1>1, AdvanceKeeps DEF Draining
<1>3. PICK pc \in {"held", "begin"} : runner' = To(pc)
    BY <1>2
<1>4. pc \in Positions \ {"down"} /\ pc \notin Candidate /\ "drain" \in Fencing
      /\ pc # "guard" /\ pc # "commit" /\ pc # "attaching"
    BY DEF Positions, Fencing, Candidate
<1>5. runner.deploying => /\ journal'.phase \notin Settled /\ guard'.life # "none"
                          /\ pc # "guard" /\ (pc # "attached" => guard'.txn # None)
    BY <1>1, <1>2, <1>4, CarriedFacts
<1>6. guard'.txn # None /\ guard'.life # "none"
    BY <1>2, <1>4, CarriedFacts
<1> QED BY Zenon, <1>2, <1>3, <1>4, <1>5, <1>6, Walks

LEMMA AttachedKeeps == ASSUME Deployed, Inv', Attached PROVE Deployed'
<1> DEFINE ended == [runner EXCEPT !.pc = "ready", !.replacing = FALSE,
                                   !.deploying = FALSE, !.rollback = FALSE]
<1>1. /\ ended.pc = "ready" /\ ended.pid = runner.pid /\ ended.bin = runner.bin
      /\ ended.deploying = FALSE
    BY Zenon, Facts DEF Deployed, RunnerType, Positions
<1>2. runner' = ended /\ runner.pc = "attached" /\ Backstage /\ UNCHANGED <<proc, guard>>
  <2>1. CASE runner.deploying
    <3>1. advanceTransaction("attached", "committed", "attached", ended, ended)
        BY <2>1 DEF Attached
    <3>2. "attached" \in Phases \ {"none"} /\ "attached" # "committed"
        BY DEF Phases, Settled
    <3> HIDE DEF ended
    <3> QED BY <3>1, <3>2, AdvanceKeeps
  <2>2. CASE ~runner.deploying
    <3>1. runner' = ended /\ runner.pc = "attached" /\ UNCHANGED <<disk, proc, guard, rest>>
        BY <2>2 DEF Attached, At
    <3> HIDE DEF ended
    <3> QED BY Zenon, <3>1, Offstage DEF disk, rest
  <2> QED BY <2>1, <2>2
<1> HIDE DEF ended
<1>3. Carried'
    BY <1>1, <1>2 DEF Carried, Fencing, Candidate
<1> QED BY <1>1, <1>2, <1>3, GoesOn

\* Only a prepared guard lets the candidate in, and only outside a reported
\* deployment.
LEMMA OldReapedKeeps == ASSUME Deployed, Inv', OldReaped PROVE Deployed'
<1> DEFINE m == [runner EXCEPT !.pc = "intend", !.pid = NoProcess, !.bin = journal.next,
                    !.gen = @ + 1, !.replacing = TRUE, !.deploying = TRUE,
                    !.rollback = FALSE]
<1>1. "old_reaped" \in Phases \ {"none"} /\ "old_reaped" \notin Settled
    BY DEF Phases, Settled
<1>2. m.pc = "intend" /\ m.pid = NoProcess /\ m.deploying = TRUE /\ m.rollback = FALSE
    BY Zenon, Facts DEF Deployed, RunnerType
<1>3. advanceTransaction("reaped", "draining", "old_reaped", m, To("held"))
    BY DEF OldReaped
<1> HIDE DEF m
<1>4. /\ runner.pc = "reaped" /\ UNCHANGED <<proc, guard>> /\ Backstage
      /\ \/ runner' = To("held") /\ journal' = journal
         \/ /\ runner' = m /\ journal'.phase = "old_reaped"
            /\ journal.phase \notin Settled
    BY <1>1, <1>3, AdvanceKeeps
<1>5. guard.txn # None /\ guard.life # "none"
    BY <1>4, CarriedFacts DEF Fencing
<1>6. CASE runner' = To("held") /\ journal' = journal
  <2>1. "held" \in Positions \ {"down"} /\ "held" \notin Fencing /\ "held" \notin Candidate
      BY DEF Positions, Fencing, Candidate
  <2> QED BY <1>4, <1>5, <1>6, <2>1, CarriedFacts, Walks
<1>7. CASE runner' = m /\ journal'.phase = "old_reaped" /\ journal.phase \notin Settled
  <2>1. "intend" \notin Fencing /\ "intend" \notin Candidate
      BY DEF Fencing, Candidate
  <2>2. Carried'
      BY <1>1, <1>2, <1>4, <1>5, <1>7, <2>1 DEF Carried
  <2>3. reported = None
      BY Zenon, <1>7 DEF Deployed, Running
  <2> QED BY <1>2, <1>4, <1>7, <2>2, <2>3, BackstageKeeps
<1> QED BY <1>4, <1>6, <1>7

LEMMA RolledBackKeeps == ASSUME Deployed, Inv', RolledBack PROVE Deployed'
<1> DEFINE m == [runner EXCEPT !.pc = "intend", !.bin = journal.bin,
                    !.deploying = FALSE, !.rollback = TRUE]
<1>1. "rolled_back" \in Phases \ {"none"}
    BY DEF Phases, Settled
<1>2. m.pc = "intend" /\ m.pid = runner.pid /\ m.deploying = FALSE
    BY Zenon, Facts DEF Deployed, RunnerType
<1>3. advanceTransaction("rollback", journal.phase, "rolled_back", m, To("held"))
    BY DEF RolledBack
<1> HIDE DEF m
<1>4. /\ runner.pc = "rollback" /\ UNCHANGED <<proc, guard>> /\ Backstage
      /\ \/ runner' = To("held") /\ journal' = journal
         \/ runner' = m /\ journal.phase \notin Settled
    BY <1>1, <1>3, AdvanceKeeps
<1>5. CASE runner' = To("held") /\ journal' = journal
  <2>1. "held" \in Positions \ {"down"} /\ "held" \notin Fencing /\ "held" \notin Candidate
      BY DEF Positions, Fencing, Candidate
  <2> QED BY <1>4, <1>5, <2>1, CarriedFacts, Walks
<1>6. CASE runner' = m /\ journal.phase \notin Settled
  <2>1. "intend" \notin Fencing /\ "intend" \notin Candidate
      BY DEF Fencing, Candidate
  <2>2. Carried'
      BY <1>2, <1>6, <2>1 DEF Carried
  <2>3. reported = None
      BY Zenon, <1>6 DEF Deployed, Running
  <2>4. runner.pid = NoProcess
      BY <1>4 DEF Deployed, Inv, Processes
  <2> QED BY <1>2, <1>4, <1>6, <2>2, <2>3, <2>4, BackstageKeeps
<1> QED BY <1>4, <1>5, <1>6

LEMMA RecordRunningKeeps == ASSUME Deployed, Inv', RecordRunning PROVE Deployed'
<1>1. /\ runner.pc = "record" /\ UNCHANGED <<pin, loaded, receipt, commit, proc, guard, rest>>
    BY DEF RecordRunning, At
<1>2. PICK pc \in {"started", "health", "failed"} :
        runner' = To(pc) /\ (pc = "started" => runner.deploying)
    BY DEF RecordRunning, Go
<1>3. \/ journal' = journal
      \/ runner.deploying /\ journal' = [journal EXCEPT !.phase = "held"]
    BY DEF RecordRunning
<1>4. /\ pc \in Positions \ {"down"} /\ pc \notin Fencing /\ pc # "guard" /\ pc # "commit"
      /\ pc # "attaching" /\ (pc \in Candidate => pc = "started")
    BY DEF Positions, Fencing, Candidate
<1>5. \/ journal' = journal
      \/ runner.deploying /\ journal'.phase = "held" /\ journal'.next = journal.next
    BY Zenon, <1>3, Facts DEF Deployed, JournalType
<1>6. Backstage
  <2>1. CASE journal' = journal
      BY Zenon, <1>1, <2>1, Offstage DEF rest
  <2>2. CASE runner.deploying /\ journal'.phase = "held" /\ journal'.next = journal.next
    <3>1. journal.phase \notin Settled
        BY <2>2, CarriedFacts
    <3> QED BY <1>1, <2>2, <3>1 DEF Backstage, rest
  <2> QED BY <1>5, <2>1, <2>2
<1>7. runner.deploying => /\ journal'.phase \notin Settled /\ guard'.life # "none"
                          /\ pc # "guard" /\ (pc # "attached" => guard'.txn # None)
    BY <1>1, <1>4, <1>5, CarriedFacts DEF Settled
<1> QED BY Zenon, <1>1, <1>2, <1>4, <1>6, <1>7, Walks

\* A runner that starts takes the version loaded, which is the one reported.
LEMMA StartKeeps == ASSUME Deployed, Inv', Start PROVE Deployed'
<1>1. /\ UNCHANGED <<disk, proc, guard, rest>>
      /\ runner' = [Idle EXCEPT !.pc = "intend", !.bin = loaded]
    BY DEF Start
<1>2. /\ runner'.pc = "intend" /\ runner'.pid = NoProcess /\ runner'.bin = loaded
      /\ runner'.deploying = FALSE
    BY Zenon, <1>1 DEF Idle
<1>3. Backstage
    BY Zenon, <1>1, Offstage DEF disk, rest
<1>4. Carried'
    BY <1>2 DEF Carried, Fencing, Candidate
<1>5. reported # None =>
         /\ runner'.pc # "down" => runner'.bin = reported
         /\ \A p \in DOMAIN proc' : Exists(p)' => proc'[p].bin = reported
    BY Zenon, <1>1, <1>2 DEF Deployed, Running, Exists
<1> QED BY <1>2, <1>3, <1>4, <1>5, BackstageKeeps

LEMMA RecordSpawningKeeps == ASSUME Deployed, Inv', RecordSpawning PROVE Deployed'
<1>1. /\ runner.pc = "intend"
      /\ UNCHANGED <<journal, pin, loaded, receipt, commit, proc, guard, rest>>
    BY DEF RecordSpawning, At
<1>2. /\ runner'.pc \in {"spawn", "failed"} /\ runner'.pid = runner.pid
      /\ runner'.bin = runner.bin
      /\ runner'.deploying = runner.deploying /\ runner'.rollback = runner.rollback
    BY Zenon, Facts DEF Deployed, RecordSpawning, RunnerType
<1>3. Backstage
    BY Zenon, <1>1, Offstage DEF rest
<1>4. {"spawn", "failed"} \cap (Fencing \cup Candidate) = {}
    BY DEF Fencing, Candidate
<1>5. Carried'
    BY <1>1, <1>2, <1>4, CarriedFacts DEF Carried
<1> QED BY <1>1, <1>2, <1>3, <1>5, GoesOn

\* The child that is started runs the runner's version.
LEMMA SpawnKeeps == ASSUME Deployed, Inv', Spawn PROVE Deployed'
<1> DEFINE n == Len(proc)
           x == [bin |-> runner.bin, state |-> "up"]
<1>1. /\ runner.pc = "spawn" /\ UNCHANGED <<disk, guard, rest>>
      /\ proc' = Append(proc, x)
      /\ runner' = [runner EXCEPT !.pc = "record", !.pid = n + 1]
    BY DEF Spawn, At
<1>2. x \in ProcType /\ x.bin = runner.bin
    BY <1>1 DEF Deployed, Inv, Data, ProcType
<1>3. /\ DOMAIN proc' = 1 .. n + 1 /\ proc'[n + 1] = x /\ n \in Nat
      /\ \A p \in 1 .. n : proc'[p] = proc[p]
      /\ DOMAIN proc = 1 .. n
  <2> HIDE DEF x
  <2> QED BY <1>1, <1>2, Facts DEF Deployed
<1>4. /\ runner'.pc = "record" /\ runner'.pid = n + 1 /\ runner'.bin = runner.bin
      /\ runner'.deploying = runner.deploying /\ runner'.rollback = runner.rollback
    BY Zenon, <1>1, Facts DEF Deployed, RunnerType
<1>5. Backstage
    BY Zenon, <1>1, Offstage DEF disk, rest
<1>6. Carried'
  <2>1. "record" \notin Fencing /\ "record" \notin Candidate
      BY DEF Fencing, Candidate
  <2> QED BY <1>1, <1>4, <2>1, CarriedFacts DEF Carried, disk
<1> HIDE DEF n, x
<1>7. reported # None =>
         /\ runner'.pc # "down" => runner'.bin = reported
         /\ \A p \in DOMAIN proc' : Exists(p)' => proc'[p].bin = reported
  <2> SUFFICES ASSUME reported # None
               PROVE  /\ runner'.bin = reported
                      /\ \A p \in DOMAIN proc' : Exists(p)' => proc'[p].bin = reported
      OBVIOUS
  <2>1. runner.bin = reported /\ \A p \in DOMAIN proc : Exists(p) => proc[p].bin = reported
      BY Zenon, <1>1 DEF Deployed, Running
  <2>2. \A p \in DOMAIN proc' : p = n + 1 \/ p \in DOMAIN proc
      BY <1>3
  <2>3. \A p \in DOMAIN proc : Exists(p)' => Exists(p)
      BY <1>3 DEF Exists
  <2> QED BY Zenon, <1>2, <1>3, <1>4, <2>1, <2>2, <2>3
<1> QED BY <1>2, <1>3, <1>4, <1>5, <1>6, <1>7, BackstageKeeps

LEMMA StopOldKeeps == ASSUME Deployed, Inv', StopOld PROVE Deployed'
<1>1. runner.pc = "reap" /\ UNCHANGED <<disk, guard, rest>>
    BY DEF StopOld, At
<1>2. Backstage
    BY Zenon, <1>1, Offstage DEF disk, rest
<1>3. "reap" \in Fencing /\ guard.txn # None /\ guard.life # "none"
    BY <1>1, CarriedFacts DEF Fencing
<1>4. CASE UNCHANGED proc /\ runner' = To("held")
  <2>1. UNCHANGED proc /\ runner' = To("held")
      BY <1>4
  <2>2. "held" \in Positions \ {"down"} /\ "held" \notin Fencing /\ "held" \notin Candidate
      BY DEF Positions, Fencing, Candidate
  <2> QED BY <1>1, <1>2, <1>3, <2>1, <2>2, CarriedFacts, Walks DEF disk
<1>5. CASE proc' = Reaped(runner.pid) /\ runner' = To("reaped")
  <2>1. proc' = Reaped(runner.pid) /\ runner' = To("reaped")
      BY <1>5
  <2>2. /\ runner'.pc = "reaped" /\ runner'.pid = runner.pid /\ runner'.bin = runner.bin
        /\ runner'.deploying = runner.deploying /\ runner'.rollback = runner.rollback
      BY Zenon, <2>1, Facts DEF Deployed, RunnerType, To
  <2>3. Carried'
    <3>1. "reaped" \notin Candidate
        BY DEF Candidate
    <3> QED BY <1>1, <1>3, <2>2, <3>1, CarriedFacts DEF Carried, disk
  <2>4. reported # None => runner'.bin = reported
      BY Zenon, <1>1, <2>2 DEF Deployed, Running
  <2> QED BY <1>2, <2>1, <2>2, <2>3, <2>4, GoesOnAlone
<1> QED BY <1>4, <1>5 DEF StopOld, Go

LEMMA RecycleReapKeeps == ASSUME Deployed, Inv', RecycleReap PROVE Deployed'
<1>1. /\ runner.pc = "retire" /\ proc' = Reaped(runner.pid)
      /\ UNCHANGED <<disk, guard, listener, deployer, reported>>
      /\ runner' = [runner EXCEPT !.pc = "intend", !.pid = NoProcess,
                                  !.gen = @ + 1, !.replacing = TRUE]
    BY DEF RecycleReap, At
<1>2. /\ runner'.pc = "intend" /\ runner'.pid = NoProcess /\ runner'.bin = runner.bin
      /\ runner'.deploying = runner.deploying /\ runner'.rollback = runner.rollback
    BY Zenon, <1>1, Facts DEF Deployed, RunnerType
<1>3. Backstage
    BY Zenon, <1>1, Offstage DEF disk
<1>4. Carried'
  <2>1. "intend" \notin Fencing /\ "intend" \notin Candidate
      BY DEF Fencing, Candidate
  <2> QED BY <1>1, <1>2, <2>1, CarriedFacts DEF Carried, disk
<1>5. reported # None => runner'.bin = reported
    BY Zenon, <1>1, <1>2 DEF Deployed, Running
<1> QED BY <1>1, <1>2, <1>3, <1>4, <1>5, GoesOnAlone

LEMMA StopCandidateKeeps == ASSUME Deployed, Inv', StopCandidate PROVE Deployed'
<1>1. /\ runner.pc = "failed" /\ runner.deploying /\ proc' = Reaped(runner.pid)
      /\ UNCHANGED <<disk, guard, rest>>
      /\ runner' = [runner EXCEPT !.pc = "rollback", !.pid = NoProcess]
    BY DEF StopCandidate, At
<1>2. /\ runner'.pc = "rollback" /\ runner'.pid = NoProcess /\ runner'.bin = runner.bin
      /\ runner'.deploying = runner.deploying /\ runner'.rollback = runner.rollback
    BY Zenon, <1>1, Facts DEF Deployed, RunnerType
<1>3. Backstage
    BY Zenon, <1>1, Offstage DEF disk, rest
<1>4. Carried'
  <2>1. "rollback" \notin Fencing
      BY DEF Fencing
  <2> QED BY <1>1, <1>2, <2>1, CarriedFacts DEF Carried, disk
<1>5. reported # None => runner'.bin = reported
    BY Zenon, <1>1, <1>2 DEF Deployed, Running
<1> QED BY <1>1, <1>2, <1>3, <1>4, <1>5, GoesOnAlone

LEMMA RestartStackKeeps == ASSUME Deployed, Inv', RestartStack PROVE Deployed'
<1>1. /\ runner.pc = "failed" /\ ~runner.deploying /\ proc' = Reaped(runner.pid)
      /\ UNCHANGED <<disk, deployer, recycles, reported>> /\ schedule_restart
    BY DEF RestartStack, At
<1>2. PICK k \in {runner.failures + 1, 1} :
        runner' = [runner EXCEPT !.pc = IF k >= MaxFailures THEN "down" ELSE "intend",
                                 !.failures = k, !.pid = NoProcess]
    BY Zenon, <1>1 DEF Restarted, schedule_restart
<1>3. /\ runner'.pc \in {"down", "intend"} /\ runner'.pid = NoProcess
      /\ runner'.bin = runner.bin /\ runner'.deploying = runner.deploying
  <2> DEFINE x == IF k >= MaxFailures THEN "down" ELSE "intend"
  <2>1. x \in {"down", "intend"}
      OBVIOUS
  <2> HIDE DEF x
  <2>2. runner' = [runner EXCEPT !.pc = x, !.failures = k, !.pid = NoProcess]
      BY <1>2 DEF x
  <2> QED BY Zenon, <2>1, <2>2, Facts DEF Deployed, RunnerType
<1>4. Backstage
    BY Zenon, <1>1, Offstage DEF disk
<1>5. Carried'
    BY <1>1, <1>3 DEF Carried, Fencing, Candidate
<1>6. reported # None => runner'.bin = reported
    BY Zenon, <1>1, <1>3 DEF Deployed, Running
<1> QED BY <1>1, <1>3, <1>4, <1>5, <1>6, GoesOnAlone

\* A runner that is down holds nothing.
LEMMA DownCarries ==
    ASSUME Inv, runner' = Idle
    PROVE  Carried' /\ runner'.pc = "down" /\ runner'.pid = NoProcess
<1>1. runner'.pc = "down" /\ runner'.pid = NoProcess /\ runner'.deploying = FALSE
    BY Zenon, Facts, IdleType
<1> QED BY <1>1 DEF Carried, Fencing, Candidate

LEMMA OperatorRestartKeeps == ASSUME Deployed, Inv', OperatorRestart PROVE Deployed'
<1>1. /\ UNCHANGED <<disk, deployer, recycles, reported>> /\ runner' = Idle
      /\ proc' = Reaped(runner.pid)
    BY DEF OperatorRestart, terminate
<1>2. Backstage
    BY Zenon, <1>1, Offstage DEF disk
<1>3. Carried' /\ runner'.pc = "down" /\ runner'.pid = NoProcess
    BY Zenon, <1>1, DownCarries DEF Deployed
<1> QED BY <1>1, <1>2, <1>3, GoesOnAlone

\* Backends die and are reaped; none changes its version.
LEMMA DeathsKeep ==
    ASSUME Deployed, Inv', Backstage, Carried', UNCHANGED journal, DOMAIN proc' = DOMAIN proc,
           \A p \in DOMAIN proc : /\ proc'[p].bin = proc[p].bin
                                  /\ proc'[p].state # "gone" => proc[p].state # "gone",
           runner' = runner \/ (runner'.pid = NoProcess /\ runner'.pc = "down")
    PROVE  Deployed'
<1>1. \A p \in DOMAIN proc : Exists(p)' => Exists(p)
    BY Zenon DEF Exists
<1>2. runner.pid # NoProcess => runner.pid \in DOMAIN proc
    BY Facts DEF Deployed, NoProcess
<1>3. runner'.pid # NoProcess => proc'[runner'.pid].bin = runner'.bin
  <2>1. CASE runner' = runner
      BY Zenon, <1>2, <2>1 DEF Deployed, Running
  <2> QED BY <2>1
<1>4. reported # None => \A p \in DOMAIN proc : Exists(p) => proc[p].bin = reported
    BY Zenon DEF Deployed, Running
<1>5. reported # None => \A p \in DOMAIN proc' : Exists(p)' => proc'[p].bin = reported
    BY Zenon, <1>1, <1>4
<1>6. CASE runner' = runner
  <2>1. reported # None => (runner'.pc # "down" => runner'.bin = reported)
      BY Zenon, <1>6 DEF Deployed, Running
  <2>2. /\ runner'.pc = "commit" => commit = journal.next
        /\ runner'.pc = "attaching" /\ runner'.deploying => journal'.phase = "committed"
      BY Zenon, <1>6 DEF Deployed, Sealed
  <2> QED BY <1>3, <1>5, <2>1, <2>2, BackstageKeeps
<1>7. CASE runner'.pid = NoProcess /\ runner'.pc = "down"
    BY <1>3, <1>5, <1>7, BackstageKeeps
<1> QED BY <1>6, <1>7

LEMMA CrashKeeps == ASSUME Deployed, Inv', Crash PROVE Deployed'
<1>1. /\ runner' = Idle /\ UNCHANGED <<disk, deployer, recycles, reported>>
      /\ proc' = [p \in DOMAIN proc |->
                    IF proc[p].state = "zombie"
                    THEN [proc[p] EXCEPT !.state = "gone"] ELSE proc[p]]
    BY DEF Crash
<1>2. DOMAIN proc' = DOMAIN proc
      /\ \A p \in DOMAIN proc : /\ proc'[p].bin = proc[p].bin
                                /\ proc'[p].state # "gone" => proc[p].state # "gone"
  <2>1. \A p \in DOMAIN proc : proc[p] \in ProcType
      BY Facts DEF Deployed
  <2> QED BY <1>1, <2>1 DEF ProcType
<1>3. Backstage
    BY Zenon, <1>1, Offstage DEF disk
<1>4. Carried' /\ runner'.pc = "down" /\ runner'.pid = NoProcess
    BY Zenon, <1>1, DownCarries DEF Deployed
<1> QED BY Zenon, <1>1, <1>2, <1>3, <1>4, DeathsKeep DEF disk

LEMMA BackendDiesKeeps ==
    ASSUME Deployed, Inv', NEW p \in DOMAIN proc, BackendDies(p) PROVE Deployed'
<1>1. /\ Up(p) /\ UNCHANGED <<disk, runner, guard, rest>>
      /\ proc' = [proc EXCEPT ![p].state = IF p = runner.pid THEN "zombie" ELSE "gone"]
    BY DEF BackendDies
<1>2. DOMAIN proc' = DOMAIN proc
      /\ \A q \in DOMAIN proc : /\ proc'[q].bin = proc[q].bin
                                /\ proc'[q].state # "gone" => proc[q].state # "gone"
  <2>1. \A q \in DOMAIN proc : proc[q] \in ProcType
      BY Facts DEF Deployed
  <2> QED BY <1>1, <2>1 DEF ProcType, Up
<1>3. Backstage
    BY Zenon, <1>1, Offstage DEF disk, rest
<1>4. Carried'
    BY Zenon, <1>1 DEF Deployed, Carried, disk
<1> QED BY Zenon, <1>1, <1>2, <1>3, <1>4, DeathsKeep DEF disk

LEMMA GuardDiesKeeps == ASSUME Deployed, Inv', GuardDies PROVE Deployed'
<1>1. /\ UNCHANGED <<disk, proc, runner, rest>> /\ guard' = [guard EXCEPT !.life = "dead"]
    BY DEF GuardDies
<1>2. guard'.life = "dead" /\ guard'.txn = guard.txn
    BY Zenon, <1>1, Facts DEF Deployed, GuardType
<1>3. Backstage
    BY Zenon, <1>1, Offstage DEF disk, rest
<1>4. Carried'
    BY <1>1, <1>2 DEF Deployed, Carried, disk
<1> QED BY Zenon, <1>1, <1>3, <1>4, DeathsKeep DEF disk

-----------------------------------------------------------------------------
(***************************************************************************)
(* The deploy script.                                                      *)
(***************************************************************************)
LEMMA ThenFields ==
    ASSUME Deployed, NEW pc, Then(pc)
    PROVE  /\ deployer'.pc = pc /\ deployer'.version = deployer.version
           /\ deployer'.handoff = deployer.handoff
           /\ deployer'.restarted = deployer.restarted
BY Zenon, Facts DEF Deployed, Scalars, Then, DeployerType

\* A script that works has nothing reported.
LEMMA NothingReported == ASSUME Deployed, deployer.pc # "done" PROVE reported = None
BY Zenon DEF Deployed, Running

\* The script writes the pin, the commit file or nothing.
LEMMA FilesKeep ==
    ASSUME Deployed, Inv', UNCHANGED <<journal, stack>>, Script',
           reported' = None,
           journal.phase \notin Settled /\ commit' = journal.next => pin' = journal.next,
           commit' = commit \/ commit' = journal.next
    PROVE  Deployed'
<1>1. Carried'
    BY Zenon DEF Deployed, Carried, stack
<1>2. Sealed'
    BY Zenon DEF Deployed, Sealed, stack
<1>3. Running'
    BY Zenon DEF Deployed, Running, stack
<1> QED BY Zenon, <1>1, <1>2, <1>3 DEF Deployed

\* The script goes on and writes no file.
LEMMA GoesOnUnwritten ==
    ASSUME Deployed, Inv', NEW pc, Then(pc), Script', UNCHANGED <<journal, pin, commit, stack, reported>>,
           deployer.pc # "done"
    PROVE  Deployed'
<1>1. reported' = None
    BY NothingReported
<1>2. journal.phase \notin Settled /\ commit' = journal.next => pin' = journal.next
    BY Zenon DEF Deployed, Sealed
<1> QED BY <1>1, <1>2, FilesKeep

LEMMA AwaitPhaseKeeps ==
    ASSUME Deployed, Inv',
           \/ AwaitPhase("await", "candidate_verified", "install")
           \/ AwaitPhase("attach", "attached", "check")
    PROVE  Deployed'
<1>1. UNCHANGED <<disk, stack, listener, reported>>
    BY DEF AwaitPhase
<1>2. PICK pc \in {"install", "check", "failed"} :
        /\ Then(pc) /\ deployer.pc \in {"await", "attach"}
        /\ pc = "install" => deployer.pc = "await"
        /\ pc = "check" => deployer.pc = "attach" /\ journal.phase = "attached"
    BY Zenon DEF AwaitPhase, Deploying
<1>3. Script'
  <2>1. /\ deployer'.pc = pc /\ deployer'.version = deployer.version
        /\ deployer'.handoff = deployer.handoff /\ deployer'.restarted = deployer.restarted
      BY <1>2, ThenFields
  <2> QED BY <1>1, <1>2, <2>1 DEF Deployed, Script, Pinning, disk
<1> QED BY <1>1, <1>2, <1>3, GoesOnUnwritten DEF disk

LEMMA PrepareBootstrapKeeps == ASSUME Deployed, Inv', prepareBootstrap PROVE Deployed'
<1>1. /\ deployer.pc = "bootstrap"
      /\ UNCHANGED <<journal, owner, pin, loaded, commit, stack, listener, reported>>
    BY DEF prepareBootstrap, Deploying
<1>2. PICK pc \in {"install", "failed"} :
        Then(pc) /\ (pc = "install" => journal.phase \in Settled)
    BY Zenon DEF prepareBootstrap
<1>3. Script'
  <2>1. /\ deployer'.pc = pc /\ deployer'.version = deployer.version
        /\ deployer'.handoff = deployer.handoff /\ deployer'.restarted = deployer.restarted
      BY <1>2, ThenFields
  <2> QED BY <1>1, <1>2, <2>1 DEF Deployed, Script, Pinning
<1> QED BY <1>1, <1>2, <1>3, GoesOnUnwritten

\* The pin is replaced before the commit file can name the transaction.
LEMMA InstallPinKeeps == ASSUME Deployed, Inv', InstallPin PROVE Deployed'
<1>1. /\ deployer.pc = "install"
      /\ UNCHANGED <<journal, owner, loaded, receipt, commit, stack, listener, reported>>
    BY DEF InstallPin, Deploying
<1>2. PICK pc \in {"reload", "failed"} :
        Then(pc) /\ (IF pc = "reload" THEN pin' = deployer.version ELSE pin' = pin)
    BY Zenon DEF InstallPin
<1>3. Script'
  <2>1. /\ deployer'.pc = pc /\ deployer'.version = deployer.version
        /\ deployer'.handoff = deployer.handoff /\ deployer'.restarted = deployer.restarted
      BY <1>2, ThenFields
  <2> QED BY <1>1, <1>2, <2>1 DEF Deployed, Script, Pinning
<1>4. reported' = None
    BY <1>1, NothingReported
<1>5. ~(journal.phase \notin Settled /\ commit' = journal.next)
    BY <1>1 DEF Deployed, Script, Pinning
<1> QED BY <1>1, <1>3, <1>4, <1>5, FilesKeep

LEMMA ReloadKeeps == ASSUME Deployed, Inv', Reload PROVE Deployed'
<1>1. /\ deployer.pc = "reload" /\ loaded' = pin
      /\ UNCHANGED <<journal, owner, pin, receipt, commit, stack, listener, reported>>
    BY DEF Reload, Deploying
<1>2. PICK pc \in {"commit", "restart", "restore"} :
        /\ Then(pc) /\ (pc = "commit" => deployer.handoff)
        /\ pc = "restart" => ~deployer.handoff
    BY Zenon DEF Reload
<1>3. Script'
  <2>1. /\ deployer'.pc = pc /\ deployer'.version = deployer.version
        /\ deployer'.handoff = deployer.handoff /\ deployer'.restarted = deployer.restarted
      BY <1>2, ThenFields
  <2> QED BY <1>1, <1>2, <2>1 DEF Deployed, Script, Pinning
<1> QED BY <1>1, <1>2, <1>3, GoesOnUnwritten

\* The prior pin comes back only where nothing was committed.
LEMMA RestorePinKeeps == ASSUME Deployed, Inv', RestorePin PROVE Deployed'
<1>1. /\ deployer.pc = "restore" /\ Then("unload")
      /\ UNCHANGED <<journal, owner, loaded, receipt, commit, stack, listener, reported>>
    BY Zenon DEF RestorePin, Deploying
<1>2. Script'
  <2>1. /\ deployer'.pc = "unload" /\ deployer'.version = deployer.version
        /\ deployer'.handoff = deployer.handoff /\ deployer'.restarted = deployer.restarted
      BY <1>1, ThenFields
  <2> QED BY <1>1, <2>1 DEF Deployed, Script, Pinning
<1>3. reported' = None
    BY <1>1, NothingReported
<1>4. ~(journal.phase \notin Settled /\ commit' = journal.next)
    BY <1>1 DEF Deployed, Script, Pinning
<1> QED BY <1>1, <1>2, <1>3, <1>4, FilesKeep

LEMMA ReloadRestoredKeeps == ASSUME Deployed, Inv', ReloadRestored PROVE Deployed'
<1>1. /\ deployer.pc = "unload"
      /\ UNCHANGED <<journal, owner, pin, receipt, commit, stack, listener, reported>>
    BY DEF ReloadRestored, Deploying
<1>2. PICK pc \in {"restart", "failed"} : Then(pc) /\ (pc = "restart" => deployer.restarted)
    BY Zenon DEF ReloadRestored
<1>3. Script'
  <2>1. /\ deployer'.pc = pc /\ deployer'.version = deployer.version
        /\ deployer'.handoff = deployer.handoff /\ deployer'.restarted = deployer.restarted
      BY <1>2, ThenFields
  <2> QED BY <1>1, <1>2, <2>1 DEF Deployed, Script, Pinning
<1> QED BY <1>1, <1>2, <1>3, GoesOnUnwritten

\* The commit file is written when the pin is in place and loaded.
LEMMA CommitHandoffKeeps == ASSUME Deployed, Inv', commit_backend_handoff PROVE Deployed'
<1>1. /\ deployer.pc = "commit"
      /\ UNCHANGED <<journal, owner, pin, loaded, receipt, stack, listener, reported>>
    BY DEF commit_backend_handoff, Deploying
<1>2. PICK pc \in {"attach", "failed"} :
        /\ Then(pc)
        /\ IF pc = "attach" THEN commit' = journal.next /\ pin = journal.next
                            ELSE commit' = commit
    BY Zenon DEF commit_backend_handoff
<1>3. Script'
  <2>1. /\ deployer'.pc = pc /\ deployer'.version = deployer.version
        /\ deployer'.handoff = deployer.handoff /\ deployer'.restarted = deployer.restarted
      BY <1>2, ThenFields
  <2> QED BY <1>1, <1>2, <2>1 DEF Deployed, Script, Pinning
<1>4. reported' = None
    BY <1>1, NothingReported
<1>5. journal.phase \notin Settled /\ commit' = journal.next => pin' = journal.next
    BY <1>1, <1>2 DEF Deployed, Sealed
<1> QED BY <1>1, <1>2, <1>3, <1>4, <1>5, FilesKeep

LEMMA RestartServiceKeeps == ASSUME Deployed, Inv', RestartService PROVE Deployed'
<1>1. /\ deployer.pc = "restart" /\ runner' = Idle /\ UNCHANGED <<disk, recycles, reported>>
      /\ deployer' = [deployer EXCEPT !.restarted = TRUE,
                      !.pc = IF deployer.restarted THEN "failed" ELSE "check"]
    BY DEF RestartService, Deploying, terminate
<1>2. /\ deployer'.pc = (IF deployer.restarted THEN "failed" ELSE "check")
      /\ deployer'.version = deployer.version /\ deployer'.handoff = deployer.handoff
      /\ deployer'.restarted = TRUE
    BY Zenon, <1>1, Facts DEF Deployed, Scalars, DeployerType
<1>3. Script'
    BY <1>1, <1>2 DEF Deployed, Script, Pinning, disk
<1>4. Carried' /\ runner'.pc = "down" /\ runner'.pid = NoProcess
    BY Zenon, <1>1, DownCarries DEF Deployed
<1>5. Sealed'
    BY <1>1, <1>4 DEF Deployed, Sealed, disk
<1>6. Running'
  <2>1. reported' = None
      BY <1>1, NothingReported
  <2> QED BY Zenon, <1>4, <2>1 DEF Running
<1> QED BY Zenon, <1>3, <1>4, <1>5, <1>6 DEF Deployed

\* What is reported is healthy: the only backend there is has its version.
LEMMA CheckDeploymentKeeps == ASSUME Deployed, Inv', CheckDeployment PROVE Deployed'
<1>1. deployer.pc = "check" /\ UNCHANGED <<disk, stack, listener>>
    BY DEF CheckDeployment, Deploying
<1>2. CASE reported' = reported
  <2>1. PICK pc \in {"failed", "restore"} :
          Then(pc) /\ (pc = "restore" => ~deployer.handoff)
    <3>1. CASE reported' = deployer.version
      <4>1. reported = None
          BY Zenon, <1>1, NothingReported
      <4>2. deployer.version # None
          BY SMTT(30), Facts, DeploymentAssumption DEF Deployed, Scalars, DeployerType, Versions, None
      <4> QED BY Zenon, <1>2, <3>1, <4>1, <4>2
    <3> QED BY <3>1 DEF CheckDeployment
  <2>2. Script'
    <3>1. /\ deployer'.pc = pc /\ deployer'.version = deployer.version
          /\ deployer'.handoff = deployer.handoff /\ deployer'.restarted = deployer.restarted
        BY <2>1, ThenFields
    <3> QED BY <1>1, <2>1, <3>1 DEF Deployed, Script, Pinning, disk
  <2> QED BY <1>1, <1>2, <2>1, <2>2, GoesOnUnwritten DEF disk
<1>3. CASE /\ Healthy(deployer.version) /\ Then("done")
           /\ reported' = deployer.version
  <2>1. /\ deployer'.pc = "done" /\ deployer'.version = deployer.version
        /\ deployer'.handoff = deployer.handoff /\ deployer'.restarted = deployer.restarted
      BY Zenon, <1>3, ThenFields
  <2>2. Script'
      BY <1>1, <2>1 DEF Deployed, Script, Pinning, disk
  <2>3. Carried'
      BY Zenon, <1>1 DEF Deployed, Carried, disk, stack
  <2>4. Sealed'
      BY Zenon, <1>1 DEF Deployed, Sealed, disk, stack
  <2>5. /\ pin = deployer.version /\ loaded = deployer.version
        /\ journal.phase \in Settled
    <3>1. pin = deployer.version /\ loaded = deployer.version
        BY Zenon, <1>1 DEF Deployed, Script
    <3>2. CASE deployer.handoff
        BY <1>1, <3>2 DEF Deployed, Script, Settled
    <3>3. CASE ~deployer.handoff
        BY Zenon, <1>1, <3>3 DEF Deployed, Script, Pinning
    <3> QED BY Zenon, <3>1, <3>2, <3>3
  <2>6. /\ runner.pid # NoProcess /\ runner.pc = "wait"
        /\ proc[runner.pid].bin = deployer.version
      BY <1>3 DEF Healthy, Up, At
  <2>7. runner.bin = deployer.version
      BY Zenon, <2>6 DEF Deployed, Running
  <2>8. \A p \in DOMAIN proc : Exists(p) => proc[p].bin = deployer.version
    <3>1. \A p \in DOMAIN proc : Exists(p) => p = runner.pid
        BY <2>6 DEF Deployed, Inv, Processes
    <3> QED BY Zenon, <2>6, <3>1
  <2>9. Running'
    <3>1. /\ pin' = reported' /\ loaded' = reported' /\ journal'.phase \in Settled
          /\ runner' = runner /\ proc' = proc
        BY Zenon, <1>1, <1>3, <2>5 DEF disk, stack
    <3>2. \A p \in DOMAIN proc' : Exists(p)' => proc'[p].bin = reported'
        BY Zenon, <1>3, <2>8, <3>1 DEF Exists
    <3> QED BY Zenon, <1>3, <2>1, <2>6, <2>7, <3>1, <3>2 DEF Running
  <2> QED BY Zenon, <2>2, <2>3, <2>4, <2>9 DEF Deployed
<1> QED BY <1>2, <1>3 DEF CheckDeployment

LEMMA DeployerDiesKeeps == ASSUME Deployed, Inv', DeployerDies PROVE Deployed'
<1>1. /\ Then("failed") /\ deployer.pc # "done"
      /\ UNCHANGED <<disk, stack, listener, reported>>
    BY Zenon DEF DeployerDies, Finished
<1>2. Script'
  <2>1. /\ deployer'.pc = "failed" /\ deployer'.version = deployer.version
        /\ deployer'.handoff = deployer.handoff /\ deployer'.restarted = deployer.restarted
      BY <1>1, ThenFields
  <2> QED BY <1>1, <2>1 DEF Deployed, Script, Pinning, disk
<1> QED BY <1>1, <1>2, GoesOnUnwritten DEF disk

\* Every deployment has a version, and with it a transaction, of its own.
LEMMA DeployKeeps == ASSUME Deployed, Inv', Deploy PROVE Deployed'
<1>1. reported' = None /\ UNCHANGED <<disk, stack, listener>>
    BY DEF Deploy
<1>2. PICK handoff \in BOOLEAN :
        deployer' = [pc |-> IF handoff THEN "request" ELSE "bootstrap",
                     version |-> deployer.version + 1, snapshot |-> pin,
                     handoff |-> handoff, restarted |-> FALSE,
                     pid |-> listener.pid, gen |-> listener.gen]
    BY Zenon DEF Deploy
<1>3. /\ deployer'.pc = (IF handoff THEN "request" ELSE "bootstrap")
      /\ deployer'.version = deployer.version + 1
      /\ deployer'.handoff = handoff /\ deployer'.restarted = FALSE
    BY Zenon, <1>2
<1>4. /\ deployer.version \in Nat /\ commit \in Nat /\ journal.next \in Nat
  <2>1. Versions \subseteq Nat /\ None \in Nat
      BY DeploymentAssumption DEF Versions, None
  <2>2. deployer.version \in Versions /\ commit \in Versions \cup {None} /\ journal.next \in Nat
      BY Zenon, Facts DEF Deployed, Scalars, DeployerType, JournalType
  <2> QED BY Zenon, <2>1, <2>2
<1>5. /\ commit < deployer'.version /\ journal.next < deployer'.version
  <2>1. commit <= deployer.version /\ journal.next <= deployer.version
      BY DEF Deployed, Script
  <2> QED BY <1>3, <1>4, <2>1
<1>6. /\ commit <= deployer'.version /\ commit # deployer'.version
      /\ journal.next <= deployer'.version /\ journal.next # deployer'.version
  <2>1. deployer'.version \in Nat
      BY <1>3, <1>4
  <2> QED BY <1>4, <1>5, <2>1
<1>7. Script'
    BY <1>1, <1>3, <1>6 DEF Script, Pinning, disk
<1>8. journal.phase \notin Settled /\ commit' = journal.next => pin' = journal.next
    BY <1>1 DEF Deployed, Sealed, disk
<1> QED BY <1>1, <1>7, <1>8, FilesKeep DEF disk

\* A transaction is prepared only over a settled one, when no candidate is
\* under way.
LEMMA RequestHandoffKeeps == ASSUME Deployed, Inv', RequestHandoff PROVE Deployed'
<1>1. /\ deployer.pc = "request"
      /\ UNCHANGED <<owner, pin, loaded, receipt, commit, stack, reported>>
    BY DEF RequestHandoff, Deploying
<1>2. PICK pc \in {"await", "failed"} : Then(pc) /\ (pc = "await" => Accepts)
    BY DEF RequestHandoff
<1>3. /\ deployer'.pc = pc /\ deployer'.version = deployer.version
      /\ deployer'.handoff = deployer.handoff /\ deployer'.restarted = deployer.restarted
    BY <1>2, ThenFields
<1>4. CASE journal' = journal /\ ~Accepts
  <2>1. Script'
      BY <1>1, <1>2, <1>3, <1>4 DEF Deployed, Script, Pinning
  <2> QED BY Zenon, <1>1, <1>2, <1>4, <2>1, GoesOnUnwritten
<1>5. CASE Accepts
  <2>1. journal'.phase = "prepared" /\ journal'.next = deployer.version
      BY <1>5 DEF RequestHandoff
  <2>2. journal.phase \in Settled
      BY <1>5 DEF Accepts
  <2>3. ~runner.deploying /\ runner.pc \notin Candidate
      BY Zenon, <2>2, CarriedFacts
  <2>4. Script'
    <3>1. deployer.version <= deployer.version
        BY Facts DEF Deployed, Scalars, DeployerType, Versions
    <3> QED BY SMTT(30), <1>1, <1>2, <1>3, <2>1, <3>1 DEF Deployed, Script, Pinning
  <2>5. Carried'
      BY <1>1, <2>3, CarriedFacts DEF Carried, stack
  <2>6. Sealed'
    <3>1. commit # deployer.version
        BY <1>1 DEF Deployed, Script
    <3>2. "commit" \in Candidate
        BY DEF Candidate
    <3> QED BY <1>1, <2>1, <2>3, <3>1, <3>2 DEF Sealed, stack
  <2>7. Running'
    <3>1. reported' = None
        BY <1>1, NothingReported
    <3> QED BY Zenon, <1>1, <3>1 DEF Deployed, Running, stack
  <2> QED BY Zenon, <2>4, <2>5, <2>6, <2>7 DEF Deployed
<1> QED BY <1>4, <1>5 DEF RequestHandoff

-----------------------------------------------------------------------------
LEMMA DeployedInit == ASSUME Init, Inv PROVE Deployed
<1>1. /\ runner.pc = "down" /\ runner.pid = NoProcess /\ runner.deploying = FALSE
    BY Zenon DEF Init, Idle
<1>2. /\ deployer.pc = "idle" /\ deployer.version = 1 /\ deployer.restarted = FALSE
      /\ commit = 0 /\ reported = None /\ journal.next = 0 /\ journal.phase = "none"
    BY DEF Init, None
<1>3. Script
    BY <1>2 DEF Script, Pinning
<1>4. Carried
    BY <1>1 DEF Carried, Fencing, Candidate
<1>5. Sealed
    BY <1>1, <1>2 DEF Sealed, Settled
<1>6. Running
    BY Zenon, <1>1, <1>2 DEF Running
<1> QED BY Zenon, <1>3, <1>4, <1>5, <1>6 DEF Deployed

LEMMA DeployedNext == ASSUME Deployed, Inv', [Next]_vars PROVE Deployed'
<1>1. CASE RunnerStep
    BY Zenon, <1>1, StartKeeps, RecordSpawningKeeps, SpawnKeeps, RecordRunningKeeps,
       CandidateStartedKeeps, WaitForUrlKeeps, GuardVerifyKeeps, CandidateVerifiedKeeps,
       PollCommitKeeps, CommittedKeeps, AttachStartKeeps, AttachEndKeeps, AttachedKeeps,
       StartGuardKeeps, StartListenerKeeps, LoopKeeps, GuardPrepareKeeps, DrainingKeeps,
       GuardBeginKeeps, StopOldKeeps, OldReapedKeeps, RecycleReapKeeps, StopCandidateKeeps,
       RolledBackKeeps, RestartStackKeeps DEF RunnerStep
<1>2. CASE DeployerStep
    BY Zenon, <1>2, RequestHandoffKeeps, AwaitPhaseKeeps, PrepareBootstrapKeeps, InstallPinKeeps,
       ReloadKeeps, RestorePinKeeps, ReloadRestoredKeeps, CommitHandoffKeeps,
       RestartServiceKeeps, CheckDeploymentKeeps DEF DeployerStep
<1>3. CASE UNCHANGED vars
  <2>1. UNCHANGED <<journal, pin, loaded, commit, proc, runner, guard, deployer, reported>>
      BY <1>3 DEF vars, disk
  <2>2. Script' /\ Sealed'
      BY Zenon, <2>1 DEF Deployed, Script, Sealed
  <2>3. Carried' /\ Running'
      BY Zenon, <2>1 DEF Deployed, Carried, Running, Exists
  <2> QED BY Zenon, <2>2, <2>3 DEF Deployed
<1> QED BY Zenon, <1>1, <1>2, <1>3, DeployKeeps, OperatorRestartKeeps, CrashKeeps,
           GuardDiesKeeps, DeployerDiesKeeps, BackendDiesKeeps DEF Next

\* What the script, the journal, the runner and the backends say of the
\* version that runs agrees at every step.
THEOREM Consistency == Spec => []Deployed
<1>1. Init /\ Inv => Deployed
    BY DeployedInit
<1>2. Deployed /\ Inv' /\ [Next]_vars => Deployed'
    BY DeployedNext
<1> QED BY <1>1, <1>2, Invariance, PTL DEF Spec

\* What was reported deployed stays deployed: the pin, the loaded unit and
\* every backend started since, by a recycle, a recovery or a restart, are of
\* that version until the next deployment begins.
THEOREM DeploymentsStay == Spec => []DeployedStays
<1>1. Deployed => DeployedStays
    BY Zenon DEF Deployed, Running, DeployedStays, Up, Exists
<1> QED BY <1>1, Consistency, PTL

\* Only the guard's attachment and its start open admission.
LEMMA Admission ==
    ASSUME Deployed, [Next]_vars, guard.life # "serving", guard'.life = "serving"
    PROVE  AttachEnd \/ StartGuard
<1>1. guard \in GuardType(Len(proc))
    BY Facts DEF Deployed
<1>2. NoGuard.life # "serving"
    BY DEF NoGuard
<1>3. guard' # guard /\ guard' # NoGuard
    BY <1>2
<1>4. CASE RunnerStep
  <2>1. CASE GuardPrepare
      BY <1>1, <1>3, <2>1 DEF GuardPrepare, GuardType
  <2>2. ASSUME NEW a, NEW b, NEW c, GuardBegin(a, b, c) PROVE FALSE
      BY <1>1, <1>3, <2>2 DEF GuardBegin, GuardType
  <2>3. CASE RestartStack
      BY <1>3, <2>3 DEF RestartStack
  <2>4. ASSUME NEW a, NEW b, NEW c, NEW d, NEW e, advanceTransaction(a, b, c, d, e)
        PROVE  FALSE
      BY <1>3, <2>4 DEF advanceTransaction
  <2>5. CASE \/ CandidateStarted \/ CandidateVerified \/ Committed \/ Attached \/ Draining
             \/ OldReaped \/ RolledBack
      BY Zenon, <1>3, <2>4, <2>5 DEF CandidateStarted, CandidateVerified, Committed, Attached,
          Draining, OldReaped, RolledBack
  <2>6. CASE \/ Start \/ RecordSpawning \/ Spawn \/ RecordRunning \/ WaitForUrl \/ GuardVerify
             \/ PollCommit \/ AttachStart \/ StartListener \/ ChildExited \/ StopOld
             \/ Recycle \/ RecycleReap \/ StopCandidate
      BY Zenon, <1>3, <2>6 DEF Start, RecordSpawning, Spawn, RecordRunning, WaitForUrl,
          GuardVerify, PollCommit, AttachStart, StartListener, ChildExited, StopOld,
          Recycle, RecycleReap, StopCandidate
  <2> QED BY Zenon, <1>4, <2>1, <2>2, <2>3, <2>5, <2>6 DEF RunnerStep
<1>5. CASE \/ DeployerStep \/ Deploy \/ DeployerDies \/ UNCHANGED vars
           \/ \E p \in DOMAIN proc : BackendDies(p)
    BY Zenon, <1>3, <1>5 DEF DeployerStep, RequestHandoff, AwaitPhase, prepareBootstrap, InstallPin,
        Reload, RestorePin, ReloadRestored, commit_backend_handoff, RestartService, terminate,
        CheckDeployment, Deploy, DeployerDies, BackendDies, stack, vars
<1>6. CASE OperatorRestart \/ Crash
    BY Zenon, <1>3, <1>6 DEF OperatorRestart, terminate, Crash
<1>7. CASE GuardDies
    BY <1>1, <1>7 DEF GuardDies, GuardType
<1> QED BY Zenon, <1>4, <1>5, <1>6, <1>7 DEF Next

\* No candidate gets work before its commit: whenever the guard opens admission
\* to one, the journal is committed and the pin file names the version it runs.
THEOREM CandidatesServeCommitted == Spec => CandidateServesCommitted
<1>1. ASSUME Deployed, [Next]_vars, runner.deploying,
             guard.life # "serving", guard'.life = "serving"
      PROVE  journal.phase = "committed" /\ pin = proc[runner.pid].bin
  <2> USE <1>1
  <2>1. ~StartGuard
      BY CarriedFacts DEF StartGuard, At
  <2>2. AttachEnd
      BY Zenon, <2>1, Admission
  <2>3. runner.pc = "attaching" /\ verifyReplacement
      BY <2>2 DEF AttachEnd, At
  <2>4. journal.phase = "committed" /\ journal.phase \notin Settled
      BY Zenon, <2>3, CarriedFacts DEF Deployed, Sealed
  <2>5. pin = journal.next
      BY Zenon, <2>4 DEF Deployed, Sealed
  <2>6. proc[runner.pid].bin = journal.next
      BY <2>3, CarriedFacts DEF verifyReplacement
  <2> QED BY <2>4, <2>5, <2>6
<1>2. Deployed /\ [Next]_vars =>
        [(/\ runner.deploying
          /\ guard.life # "serving" /\ guard'.life = "serving")
         => journal.phase = "committed" /\ pin = proc[runner.pid].bin]_vars
    BY <1>1
<1> QED BY <1>2, Consistency, PTL DEF Spec, CandidateServesCommitted

=============================================================================
