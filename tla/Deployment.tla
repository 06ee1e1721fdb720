----------------------------- MODULE Deployment -----------------------------
(***************************************************************************)
(* The cold replacement of the one backend that owns the database: the     *)
(* deployment journal (scripts/ccflare-deployment-transaction.mjs), the    *)
(* stack runner that advances it (scripts/run-ccflare-stack.sh), the guard *)
(* it talks to over the control socket (scripts/ccflare-guard.mjs) and the *)
(* deploy script (scripts/deploy-ccflare.sh and its library).              *)
(*                                                                         *)
(* Every durable write, process start, reap and control command is a step  *)
(* of its own: the runner, the deploy script, a backend or the guard may   *)
(* die between any two.  A version stands for a binary with its source,    *)
(* schema and pin hashes: the pin file names one version, `loaded' is the  *)
(* version in the environment systemd last read from it.  Every deployment *)
(* brings a fresh version, which is also its transaction id.               *)
(***************************************************************************)
EXTENDS Integers, Sequences

CONSTANTS
    MaxDeployments,  \* runs of the deploy script
    MaxRecycles,     \* memory recycles (RUNNER_RSS_MAX_RECYCLES)
    MaxFailures,     \* RUNNER_RESTART_MAX_FAILURES
    MaxFaults        \* deaths, timeouts, lost replies, failed checks and
                     \* the operator's restarts

ASSUME DeploymentAssumption ==
    /\ {MaxDeployments, MaxRecycles, MaxFaults} \subseteq Nat
    /\ MaxFailures \in Nat \ {0}

VARIABLES
    journal,   \* intent.json: its phase, the old and the candidate process, the
               \* versions of the previous pin, of the binary that ran under it
               \* and of the candidate, the generation
    owner,     \* owner.json: None, Spawning or the pid of the recorded owner
    pin,       \* the version the systemd pin file names
    loaded,    \* the version in the environment of a runner started now
    receipt,   \* bootstrap.json: the version a full restart may start
    commit,    \* commit.json: the transaction whose pin is in place
    proc,      \* every backend ever started: its version and its state
    runner,    \* the runner's position and its shell variables
    guard,     \* the guard's lifecycle, generation and prepared transaction
    listener,  \* the deployment listener and runtime.json
    deployer,  \* the deploy script
    recycles, faults,
    reported   \* the version of the last deployment, once reported done

disk == <<journal, owner, pin, loaded, receipt, commit>>
vars == <<disk, proc, runner, guard, listener, deployer, recycles, faults,
          reported>>

None == 0
Spawning == -1
NoProcess == 0

Versions == 1 .. MaxDeployments + 1
Settled == {"none", "attached", "rolled_back"}
Phases == Settled \cup {"prepared", "draining", "old_reaped",
    "candidate_started", "candidate_verified", "committed", "held"}

Exists(p) == p # NoProcess /\ proc[p].state # "gone"
Up(p) == p # NoProcess /\ proc[p].state = "up"

\* kill and wait: the child is gone when the runner goes on.
Reaped(p) ==
    IF p = NoProcess THEN proc ELSE [proc EXCEPT ![p].state = "gone"]

Idle == [pc |-> "down", bin |-> None, pid |-> NoProcess, gen |-> 1,
         deploying |-> FALSE, rollback |-> FALSE, replacing |-> FALSE,
         failures |-> 0]
NoGuard == [life |-> "none", gen |-> 1, txn |-> None, old |-> NoProcess]
Off(l) == [l EXCEPT !.state = "off"]

Init ==
    /\ journal = [phase |-> "none", old |-> NoProcess, cand |-> NoProcess,
                  prev |-> None, bin |-> None, next |-> None, gen |-> 0]
    /\ owner = None /\ receipt = None /\ commit = None
    /\ pin = 1 /\ loaded = 1
    /\ proc = <<>>
    /\ runner = Idle
    /\ guard = NoGuard
    /\ listener = [state |-> "off", pid |-> NoProcess, gen |-> 0, pin |-> None,
                   bin |-> 1]
    /\ deployer = [pc |-> "idle", version |-> 1, snapshot |-> None,
                   handoff |-> FALSE, restarted |-> FALSE,
                   pid |-> NoProcess, gen |-> 0]
    /\ recycles = 0 /\ faults = 0 /\ reported = None

-----------------------------------------------------------------------------
(***************************************************************************)
(* The journal.                                                            *)
(***************************************************************************)
next ==
    [phase \in Phases |->
        CASE phase = "prepared" -> {"draining", "held"}
          [] phase = "draining" -> {"old_reaped", "held"}
          [] phase = "old_reaped" -> {"candidate_started", "held"}
          [] phase = "candidate_started" ->
                {"candidate_verified", "rolled_back", "held"}
          [] phase = "candidate_verified" ->
                {"committed", "rolled_back", "held"}
          [] phase = "committed" -> {"attached", "held"}
          [] OTHER -> {}]

\* What advanceTransaction demands before it writes the next phase.
Evidence(phase) ==
    CASE phase = "old_reaped" -> ~Exists(journal.old)
      [] phase = "candidate_verified" -> Exists(journal.cand)
      [] phase = "committed" -> pin = journal.next
      [] phase = "rolled_back" ->
            /\ journal.cand # NoProcess
            /\ ~Exists(journal.cand)
            /\ pin = journal.prev
      [] OTHER -> TRUE

MayAdvance(expected, phase) ==
    /\ journal.phase = expected
    /\ phase \in next[expected]
    /\ Evidence(phase)

\* A recovery that trusts the journal and not the recorded owner.
HoldIgnoringOwner ==
    Exists(journal.old) \/ Exists(journal.cand)

Hold ==
    \/ owner = Spawning
    \/ owner # None /\ Exists(owner)
    \/ Exists(journal.old)
    \/ Exists(journal.cand)

\* The version recovery lets the runner start, from the environment it has.
recoverTransaction(version) ==
    /\ ~Hold
    /\ \/ /\ journal.phase \in Settled
          /\ receipt # None /\ pin = receipt /\ version = receipt
       \/ journal.phase = "none"
       \/ /\ journal.phase \in {"prepared", "rolled_back"}
          /\ pin = journal.prev /\ version = journal.bin
       \/ /\ journal.phase \in {"committed", "attached"}
          /\ pin = journal.next /\ version = journal.next

-----------------------------------------------------------------------------
(***************************************************************************)
(* The runner.  At(pc), To(pc) and Go(pc) read and move its program        *)
(* counter; a fault spends one unit of the budget.                         *)
(***************************************************************************)
At(pc) == runner.pc = pc
To(pc) == [runner EXCEPT !.pc = pc]
Go(pc) == runner' = To(pc)
Fault == faults < MaxFaults /\ faults' = faults + 1
Fine == UNCHANGED faults

rest == <<listener, deployer, recycles, reported>>

\* transaction_advance: the phase is written and the runner becomes `reached',
\* or the write is refused or fails and it goes on as `refused'.
advanceTransaction(from, expected, phase, reached, refused) ==
    /\ At(from)
    /\ \/ /\ MayAdvance(expected, phase)
          /\ journal' = [journal EXCEPT !.phase = phase,
                !.cand = IF phase = "candidate_started" THEN runner.pid ELSE @]
          /\ runner' = reached /\ Fine
       \/ /\ ~MayAdvance(expected, phase)
          /\ runner' = refused /\ Fine /\ UNCHANGED journal
       \/ runner' = refused /\ Fault /\ UNCHANGED journal
    /\ UNCHANGED <<owner, pin, loaded, receipt, commit, proc, guard, rest>>

\* systemd starts the unit; a recovery that holds exits 70 and changes nothing.
Start ==
    /\ At("down")
    /\ recoverTransaction(loaded)
    /\ runner' = [Idle EXCEPT !.pc = "intend", !.bin = loaded]
    /\ Fine
    /\ UNCHANGED <<disk, proc, guard, rest>>

\* owner-spawning, before the child exists; no child if it cannot be written.
RecordSpawning ==
    /\ At("intend")
    /\ \E pc \in {"spawn", "failed"} :
        /\ runner' = [runner EXCEPT !.pc = pc,
                      !.gen = IF guard.life = "none" THEN 1 ELSE @,
                      !.replacing = guard.life # "none" /\ @]
        /\ IF pc = "spawn" THEN owner' = Spawning /\ Fine
                           ELSE UNCHANGED owner /\ Fault
    /\ UNCHANGED <<journal, pin, loaded, receipt, commit, proc, guard, rest>>

Spawn ==
    /\ At("spawn")
    /\ proc' = Append(proc, [bin |-> runner.bin, state |-> "up"])
    /\ runner' = [runner EXCEPT !.pc = "record", !.pid = Len(proc) + 1]
    /\ Fine
    /\ UNCHANGED <<disk, guard, rest>>

\* owner-started; a child whose identity cannot be read, or written down, ends the
\* start, and one that cannot be read puts a deployment on hold.
RecordRunning ==
    /\ At("record")
    /\ \/ /\ owner' = runner.pid
          /\ Go(IF runner.deploying THEN "started" ELSE "health")
          /\ Fine /\ UNCHANGED journal
       \/ /\ \/ UNCHANGED journal
             \/ /\ runner.deploying
                /\ journal' = [journal EXCEPT !.phase = "held"]
          /\ Go("failed")
          /\ Fault /\ UNCHANGED owner
    /\ UNCHANGED <<pin, loaded, receipt, commit, proc, guard, rest>>

CandidateStarted ==
    advanceTransaction("started", "old_reaped", "candidate_started",
                       To("health"), To("failed"))

\* wait_for_url: a dead child fails it, a live one answers or is given up.
WaitForUrl ==
    /\ At("health")
    /\ \/ /\ Up(runner.pid)
          /\ Go(CASE guard.life = "none" -> "guard"
                  [] guard.life # "none" /\ runner.deploying -> "verify"
                  [] OTHER -> "attach")
          /\ Fine
       \/ /\ ~Up(runner.pid) /\ Go("failed") /\ Fine
       \/ /\ Go("failed") /\ Fault
    /\ UNCHANGED <<disk, proc, guard, rest>>

\* The guard answers a control command unless it died or the call is lost.
Answers == guard.life # "dead"

\* verifyReplacement: the candidate owns the listener and runs the executable
\* the guard expects, and the upstream it replaces is gone.
verifyReplacement ==
    LET expected == IF guard.txn # None /\ ~runner.rollback
                    THEN journal.next ELSE proc[guard.old].bin
    IN  /\ Answers
        /\ ~Exists(guard.old)
        /\ Up(runner.pid) /\ proc[runner.pid].bin = expected

\* guard_control verify.
GuardVerify ==
    /\ At("verify")
    /\ \/ verifyReplacement /\ Go("verified") /\ Fine
       \/ ~verifyReplacement /\ Go("failed") /\ Fine
       \/ Go("failed") /\ Fault
    /\ UNCHANGED <<disk, proc, guard, rest>>

CandidateVerified ==
    advanceTransaction("verified", "candidate_started", "candidate_verified",
                       To("poll"), To("failed"))

\* Sixty seconds of polling commit.json and the pin file.
PollCommit ==
    /\ At("poll")
    /\ \/ /\ commit = journal.next /\ pin = journal.next
          /\ Go("commit") /\ Fine
       \/ /\ Go("failed") /\ Fault
    /\ UNCHANGED <<disk, proc, guard, rest>>

\* The runner does not look at whether the commit was written.
Committed ==
    advanceTransaction("commit", "candidate_verified", "committed",
                       To("attach"), To("attach"))

\* An attach that trusts the runner and does not read the journal or the pin.
MayAttachUnread ==
    /\ Answers /\ guard.life = "absent"
    /\ runner.gen = guard.gen + 1

MayAttach ==
    /\ Answers /\ guard.life = "absent"
    /\ runner.gen = guard.gen + 1
    /\ guard.txn # None =>
        /\ runner.deploying \/ runner.rollback
        /\ guard.txn = journal.next
        /\ journal.phase = IF runner.rollback THEN "rolled_back" ELSE "committed"
        /\ pin = IF runner.rollback THEN journal.prev ELSE journal.next

\* attachReplacement up to its await: journal and pin are read here.
AttachStart ==
    /\ At("attach")
    /\ Go(IF MayAttach THEN "attaching" ELSE "failed")
    /\ Fine
    /\ UNCHANGED <<disk, proc, guard, rest>>

\* attachReplacement after verifyReplacement: admission opens.
AttachEnd ==
    /\ At("attaching")
    /\ \/ /\ verifyReplacement
          /\ guard' = [life |-> "serving", gen |-> runner.gen, txn |-> None,
                       old |-> runner.pid]
          /\ Go("attached") /\ Fine
       \/ ~verifyReplacement /\ Go("failed") /\ Fine /\ UNCHANGED guard
       \/ Go("failed") /\ Fault /\ UNCHANGED guard
    /\ UNCHANGED <<disk, proc, rest>>

\* The end of a pending deployment or rollback, written or not.
Attached ==
    LET ended == [runner EXCEPT !.pc = "ready", !.replacing = FALSE,
                                !.deploying = FALSE, !.rollback = FALSE]
    IN  IF runner.deploying
        THEN advanceTransaction("attached", "committed", "attached", ended, ended)
        ELSE /\ At("attached")
             /\ runner' = ended
             /\ Fine
             /\ UNCHANGED <<disk, proc, guard, rest>>

StartGuard ==
    /\ At("guard")
    /\ \/ /\ guard' = [NoGuard EXCEPT !.life = "serving", !.old = runner.pid]
          /\ Go("ready") /\ Fine
       \/ /\ guard' = [NoGuard EXCEPT !.life = "dead"]
          /\ Go("failed") /\ Fault
    /\ UNCHANGED <<disk, proc, rest>>

\* start_deployment_listener, with the runtime it describes.
StartListener ==
    /\ At("ready")
    /\ listener' = [state |-> "on", pid |-> runner.pid, gen |-> runner.gen,
                    pin |-> pin, bin |-> runner.bin]
    /\ Go("wait")
    /\ Fine
    /\ UNCHANGED <<disk, proc, guard, deployer, recycles, reported>>

-----------------------------------------------------------------------------
(***************************************************************************)
(* The supervision loop.                                                   *)
(***************************************************************************)

\* The memory watchdog's cap.
MayRecycle == recycles < MaxRecycles

\* wait -n: the accepted listener, the memory watchdog or a dead child.
ChildExited ==
    /\ At("wait")
    /\ \/ /\ listener.state = "accepted"
          /\ listener' = Off(listener)
          /\ Go("prepare")
       \/ /\ MayRecycle
          /\ Go("recycle")
          /\ UNCHANGED listener
       \/ /\ ~Up(runner.pid) \/ guard.life = "dead"
          /\ Go("failed")
          /\ UNCHANGED listener
    /\ Fine
    /\ UNCHANGED <<disk, proc, guard, deployer, recycles, reported>>

\* begin_backend_deployment, one control command or durable write a step.
\* prepareReplacement reads the journal and the pin again.
GuardPrepare ==
    LET accepted == /\ Answers /\ guard.life = "serving" /\ guard.txn = None
                    /\ journal.gen = guard.gen
                    /\ journal.phase = "prepared" /\ pin = journal.prev
    IN  /\ At("prepare")
        /\ \/ /\ accepted /\ Fine /\ Go("drain")
              /\ guard' = [guard EXCEPT !.txn = journal.next]
           \/ ~accepted /\ Fine /\ Go("held") /\ UNCHANGED guard
           \/ Fault /\ Go("held") /\ UNCHANGED guard
        /\ UNCHANGED <<disk, proc, rest>>

Draining ==
    advanceTransaction("drain", "prepared", "draining", To("begin"), To("held"))

\* beginRecycle: the guard fences dispatch and drains; its answer may be lost.
GuardBegin(from, reached, refused) ==
    /\ At(from)
    /\ \/ /\ Answers /\ guard.life = "serving" /\ guard.gen = runner.gen
          /\ guard' = [guard EXCEPT !.life = "absent"]
          /\ \/ Fine /\ Go(reached)
             \/ Fault /\ Go(refused)
       \/ /\ ~(Answers /\ guard.life = "serving" /\ guard.gen = runner.gen)
          /\ Fine /\ Go(refused) /\ UNCHANGED guard
       \/ Fault /\ Go(refused) /\ UNCHANGED guard
    /\ UNCHANGED <<disk, proc, rest>>

\* The process the journal names is stopped and waited for.  Its start time is
\* compared first, and cannot be read once the shell has noticed that it died.
StopOld ==
    /\ At("reap")
    /\ \/ /\ runner.pid = journal.old
          /\ proc' = Reaped(runner.pid) /\ Go("reaped")
       \/ /\ runner.pid # journal.old \/ ~Up(runner.pid)
          /\ UNCHANGED proc /\ Go("held")
    /\ Fine
    /\ UNCHANGED <<disk, guard, rest>>

OldReaped ==
    advanceTransaction("reaped", "draining", "old_reaped",
        [runner EXCEPT !.pc = "intend", !.pid = NoProcess, !.bin = journal.next,
            !.gen = @ + 1, !.replacing = TRUE, !.deploying = TRUE,
            !.rollback = FALSE],
        To("held"))

\* A memory recycle that leaves the listener to the ordinary path.
RecycleKeepingListener ==
    /\ At("recycle")
    /\ Go("fence")
    /\ Fine
    /\ UNCHANGED <<disk, proc, guard, rest>>

\* A memory recycle retires the listener first; a deployment it accepted in
\* the meantime takes the recycle over.
Recycle ==
    /\ At("recycle")
    /\ listener' = Off(listener)
    /\ Go(CASE journal.phase = "prepared" /\ journal.gen = runner.gen -> "prepare"
            [] journal.phase = "prepared" /\ journal.gen # runner.gen -> "held"
            [] OTHER -> "fence")
    /\ Fine
    /\ UNCHANGED <<disk, proc, guard, deployer, recycles, reported>>

RecycleReap ==
    /\ At("retire")
    /\ proc' = Reaped(runner.pid)
    /\ runner' = [runner EXCEPT !.pc = "intend", !.pid = NoProcess,
                                !.gen = @ + 1, !.replacing = TRUE]
    /\ recycles' = recycles + 1
    /\ Fine
    /\ UNCHANGED <<disk, guard, listener, deployer, reported>>

\* schedule_restart: at the cap of counted failures the runner exits for systemd.
\* Failures of an older window or before a stable run are forgotten: the time that
\* takes is charged to the budget of faults.
Restarted(failures) ==
    runner' = [runner EXCEPT !.failures = failures, !.pid = NoProcess,
                  !.pc = IF failures >= MaxFailures THEN "down" ELSE "intend"]

schedule_restart ==
    \/ Restarted(runner.failures + 1) /\ Fine
    \/ Restarted(1) /\ Fault

\* A failed candidate is stopped before its rollback is decided.
StopCandidate ==
    /\ At("failed") /\ runner.deploying
    /\ proc' = Reaped(runner.pid)
    /\ runner' = [runner EXCEPT !.pc = "rollback", !.pid = NoProcess]
    /\ Fine
    /\ UNCHANGED <<disk, guard, rest>>

RolledBack ==
    advanceTransaction("rollback", journal.phase, "rolled_back",
        [runner EXCEPT !.pc = "intend", !.bin = journal.bin,
            !.deploying = FALSE, !.rollback = TRUE],
        To("held"))

\* A failed replacement is retried behind the retained guard; any other
\* failure stops every child.
RestartStack ==
    LET retained == runner.replacing /\ guard.life \notin {"none", "dead"}
    IN  /\ At("failed") /\ ~runner.deploying
        /\ proc' = Reaped(runner.pid)
        /\ schedule_restart
        /\ IF retained /\ runner'.pc = "intend"
           THEN UNCHANGED <<guard, listener>>
           ELSE guard' = NoGuard /\ listener' = Off(listener)
        /\ UNCHANGED <<disk, deployer, recycles, reported>>

\* TERM: cleanup stops and waits for every child, and the runner exits.
terminate ==
    /\ runner' = Idle
    /\ proc' = Reaped(runner.pid)
    /\ guard' = NoGuard
    /\ listener' = Off(listener)

\* A runner that waits for the operator is restarted by them.
OperatorRestart ==
    /\ At("held") /\ Fault
    /\ terminate
    /\ UNCHANGED <<disk, deployer, recycles, reported>>

\* The runner is killed: no cleanup.  Its backend lives on without it, and so may
\* the listener, until the next one replaces its runtime.json.  Its guard takes no
\* more commands: the next runner has another control socket.
Crash ==
    /\ ~At("down") /\ Fault
    /\ runner' = Idle
    /\ guard' = NoGuard
    /\ listener' \in {listener, Off(listener)}
    /\ proc' = [p \in DOMAIN proc |->
                  IF proc[p].state = "zombie"
                  THEN [proc[p] EXCEPT !.state = "gone"] ELSE proc[p]]
    /\ UNCHANGED <<disk, deployer, recycles, reported>>

\* A backend dies: a zombie until its runner waits for it, or an orphan that
\* the service manager ends when it will.
BackendDies(p) ==
    /\ Up(p)
    /\ IF p = runner.pid THEN Fault ELSE Fine
    /\ proc' = [proc EXCEPT ![p].state =
                    IF p = runner.pid THEN "zombie" ELSE "gone"]
    /\ UNCHANGED <<disk, runner, guard, rest>>

GuardDies ==
    /\ guard.life \in {"serving", "absent"} /\ Fault
    /\ guard' = [guard EXCEPT !.life = "dead"]
    /\ UNCHANGED <<disk, proc, runner, rest>>

-----------------------------------------------------------------------------
(***************************************************************************)
(* The deploy script.  A host lock admits one at a time.                   *)
(***************************************************************************)
Deploying(pc) == deployer.pc = pc
Then(pc) == deployer' = [deployer EXCEPT !.pc = pc]
stack == <<proc, runner, guard, recycles>>
Finished == {"idle", "done", "failed"}

\* backend_handoff_eligible, or the ordinary full restart when it is not.  The
\* manifest is written from runtime.json.
Deploy ==
    /\ deployer.pc \in Finished /\ deployer.version <= MaxDeployments
    /\ \E handoff \in BOOLEAN :
        /\ handoff => listener.state = "on" /\ listener.pin = pin
        /\ deployer' = [pc |-> IF handoff THEN "request" ELSE "bootstrap",
                        version |-> deployer.version + 1, snapshot |-> pin,
                        handoff |-> handoff, restarted |-> FALSE,
                        pid |-> listener.pid, gen |-> listener.gen]
    /\ reported' = None
    /\ Fine
    /\ UNCHANGED <<disk, stack, listener>>

\* validManifest and prepareTransaction's look at the previous transaction.
Accepts ==
    /\ listener.state = "on"
    /\ deployer.pid = listener.pid /\ deployer.gen = listener.gen
    /\ deployer.snapshot = listener.pin /\ pin = listener.pin
    /\ journal.phase \in Settled

\* The client's prepare command; the answer to an accepted one may be lost.
RequestHandoff ==
    /\ Deploying("request")
    /\ IF Accepts
       THEN /\ journal' = [phase |-> "prepared", old |-> deployer.pid,
                           cand |-> NoProcess, prev |-> deployer.snapshot,
                           bin |-> listener.bin, next |-> deployer.version, gen |-> deployer.gen]
            /\ listener' = [listener EXCEPT !.state = "accepted"]
            /\ \/ Fine /\ Then("await")
               \/ Fault /\ Then("failed")
       ELSE Then("failed") /\ Fine /\ UNCHANGED <<journal, listener>>
    /\ UNCHANGED <<owner, pin, loaded, receipt, commit, stack, reported>>

\* await_backend_handoff_phase: the phase, a failed one, or the timeout.
AwaitPhase(pc, phase, reached) ==
    /\ Deploying(pc)
    /\ \/ journal.phase = phase /\ Then(reached) /\ Fine
       \/ journal.phase \in {"held", "rolled_back"} /\ Then("failed") /\ Fine
       \/ journal.phase # phase /\ Then("failed") /\ Fault
    /\ UNCHANGED <<disk, stack, listener, reported>>

prepareBootstrap ==
    /\ Deploying("bootstrap")
    /\ IF journal.phase \in Settled
       THEN receipt' = deployer.version /\ Then("install")
       ELSE Then("failed") /\ UNCHANGED receipt
    /\ Fine
    /\ UNCHANGED <<journal, owner, pin, loaded, commit, stack, listener, reported>>

\* The pin replaced against its snapshot, in one rename.
InstallPin ==
    /\ Deploying("install")
    /\ IF pin = deployer.snapshot
       THEN pin' = deployer.version /\ Then("reload")
       ELSE Then("failed") /\ UNCHANGED pin
    /\ Fine
    /\ UNCHANGED <<journal, owner, loaded, receipt, commit, stack, listener, reported>>

\* The new pin left to the next reload of the unit.
ReloadForgotten ==
    /\ Deploying("reload")
    /\ \/ Fine /\ Then(IF deployer.handoff THEN "commit" ELSE "restart")
       \/ Fault /\ Then("restore")
    /\ UNCHANGED <<disk, stack, listener, reported>>

\* daemon-reload and the validation of the effective unit.
Reload ==
    /\ Deploying("reload")
    /\ loaded' = pin
    /\ \/ Fine /\ Then(IF deployer.handoff THEN "commit" ELSE "restart")
       \/ Fault /\ Then("restore")
    /\ UNCHANGED <<journal, owner, pin, receipt, commit, stack, listener, reported>>

\* The prior pin back in place and loaded again, before the script fails.
RestorePin ==
    /\ Deploying("restore")
    /\ pin' = deployer.snapshot
    /\ Then("unload")
    /\ Fine
    /\ UNCHANGED <<journal, owner, loaded, receipt, commit, stack, listener, reported>>

ReloadRestored ==
    /\ Deploying("unload")
    /\ loaded' = pin
    /\ Then(IF deployer.restarted THEN "restart" ELSE "failed")
    /\ Fine
    /\ UNCHANGED <<journal, owner, pin, receipt, commit, stack, listener, reported>>

commit_backend_handoff ==
    /\ Deploying("commit")
    /\ IF journal.phase = "candidate_verified" /\ pin = journal.next
       THEN commit' = journal.next /\ Then("attach")
       ELSE Then("failed") /\ UNCHANGED commit
    /\ Fine
    /\ UNCHANGED <<journal, owner, pin, loaded, receipt, stack, listener, reported>>

\* systemctl restart: of the new pin, or of the restored one.
RestartService ==
    /\ Deploying("restart")
    /\ terminate
    /\ deployer' = [deployer EXCEPT !.restarted = TRUE,
                    !.pc = IF deployer.restarted THEN "failed" ELSE "check"]
    /\ Fine
    /\ UNCHANGED <<disk, recycles, reported>>

\* The stack serves with the deployed version.
Healthy(version) ==
    /\ At("wait") /\ guard.life = "serving"
    /\ Up(runner.pid) /\ proc[runner.pid].bin = version

\* The last check of both paths; a full restart that fails it puts the prior
\* pin back and restarts the service.
CheckDeployment ==
    /\ Deploying("check")
    /\ \/ /\ Healthy(deployer.version) /\ Fine
          /\ Then("done") /\ reported' = deployer.version
       \/ /\ Fault /\ UNCHANGED reported
          /\ Then(IF deployer.handoff THEN "failed" ELSE "restore")
    /\ UNCHANGED <<disk, stack, listener>>

\* The script is killed and its lock released.
DeployerDies ==
    /\ deployer.pc \notin Finished /\ Fault
    /\ Then("failed")
    /\ UNCHANGED <<disk, stack, listener, reported>>

-----------------------------------------------------------------------------
RunnerStep ==
    \/ Start \/ RecordSpawning \/ Spawn \/ RecordRunning \/ CandidateStarted
    \/ WaitForUrl \/ GuardVerify \/ CandidateVerified \/ PollCommit \/ Committed
    \/ AttachStart \/ AttachEnd \/ Attached \/ StartGuard \/ StartListener
    \/ ChildExited \/ GuardPrepare \/ Draining
    \/ GuardBegin("begin", "reap", "held") \/ StopOld \/ OldReaped
    \/ Recycle \/ GuardBegin("fence", "retire", "failed") \/ RecycleReap
    \/ StopCandidate \/ RolledBack \/ RestartStack

DeployerStep ==
    \/ RequestHandoff
    \/ AwaitPhase("await", "candidate_verified", "install")
    \/ AwaitPhase("attach", "attached", "check")
    \/ prepareBootstrap \/ InstallPin \/ Reload \/ RestorePin \/ ReloadRestored
    \/ commit_backend_handoff \/ RestartService \/ CheckDeployment

Next ==
    \/ RunnerStep
    \/ DeployerStep
    \/ Deploy \/ OperatorRestart
    \/ Crash \/ GuardDies \/ DeployerDies
    \/ \E p \in DOMAIN proc : BackendDies(p)

\* A started runner and a started script go on; nobody has to deploy, and no
\* fault has to happen: a timeout is not what makes a wait end.
Fairness ==
    WF_vars(RunnerStep /\ Fine) /\ WF_vars(DeployerStep /\ Fine)

Spec == Init /\ [][Next]_vars /\ Fairness

-----------------------------------------------------------------------------
Positions ==
    {"down", "intend", "spawn", "record", "started", "health", "guard", "verify",
     "verified", "poll", "commit", "attach", "attaching", "attached", "ready",
     "wait", "prepare", "drain", "begin", "reap", "reaped", "recycle", "fence",
     "retire", "failed", "rollback", "held"}
Stages ==
    Finished \cup {"request", "bootstrap", "await", "install", "reload", "commit",
        "attach", "restart", "check", "restore", "unload"}

TypeOK ==
    /\ journal \in [phase : Phases, old : Nat, cand : Nat,
                    prev : Nat, bin : Nat, next : Nat, gen : Nat]
    /\ owner \in {Spawning} \cup 0 .. Len(proc)
    /\ pin \in Versions /\ loaded \in Versions
    /\ receipt \in Versions \cup {None} /\ commit \in Versions \cup {None}
    /\ proc \in Seq([bin : Versions, state : {"up", "zombie", "gone"}])
    /\ runner \in [pc : Positions, bin : Versions \cup {None},
                   pid : 0 .. Len(proc), gen : Nat, deploying : BOOLEAN,
                   rollback : BOOLEAN, replacing : BOOLEAN,
                   failures : Nat]
    /\ guard \in [life : {"none", "serving", "absent", "dead"}, gen : Nat,
                  txn : Versions \cup {None}, old : 0 .. Len(proc)]
    /\ listener \in [state : {"off", "on", "accepted"}, pid : 0 .. Len(proc),
                     gen : Nat, pin : Versions \cup {None},
                     bin : Versions]
    /\ deployer \in [pc : Stages, version : Versions,
                     snapshot : Versions \cup {None}, handoff : BOOLEAN,
                     restarted : BOOLEAN, pid : Nat, gen : Nat]
    /\ recycles \in 0 .. MaxRecycles /\ faults \in 0 .. MaxFaults
    /\ reported \in Versions \cup {None}

\* At most one backend runs at any time, whichever of the runner, the guard,
\* the deploy script and the backends died, and wherever they did: a second
\* one would open the database the first still owns ("ownership ambiguity ...
\* must never authorize a second database owner").  (With TypeOK.)
SoleOwner ==
    TypeOK /\ \A p, q \in DOMAIN proc : Up(p) /\ Up(q) => p = q

\* A candidate gets work only once it is committed: when the guard opens
\* admission to a deployed candidate, the journal says committed and the pin
\* file names it, so every later start of the unit finds the same version
\* ("candidate cannot attach before exact pin commit").
CandidateServesCommitted ==
    [][(/\ runner.deploying
        /\ guard.life # "serving" /\ guard'.life = "serving")
       => journal.phase = "committed" /\ pin = proc[runner.pid].bin]_vars

\* A deployment reported done stays deployed: until the next one begins, the
\* pin and every backend that runs, after whatever deaths, recycles and
\* recoveries, are of its version.
DeployedStays ==
    reported # None =>
        /\ pin = reported /\ loaded = reported
        /\ \A p \in DOMAIN proc : Up(p) => proc[p].bin = reported

\* Without a fault a transaction once prepared is carried through: runner,
\* guard, listener and deploy script never wait for each other for ever, also
\* when a memory recycle races the request.
HandoffCompletes ==
    (journal.phase = "prepared" /\ faults = 0)
        ~> (journal.phase = "attached" \/ faults > 0)

=============================================================================
