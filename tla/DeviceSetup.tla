----------------------------- MODULE DeviceSetup -----------------------------
(***************************************************************************)
(* Durable device authorization jobs: the coordinator of                   *)
(* device-setup-jobs.ts and the conditional statements of                  *)
(* device-setup-job.repository.ts, on several servers that share the       *)
(* database, stop, crash and start again.                                  *)
(*                                                                         *)
(* Jobs share nothing but the order in which a tick visits them, so one    *)
(* job is enough.  A server works on it in two tasks: "auth", started by   *)
(* initialize in the server that created the row, and "tick", the recovery *)
(* pass.  Every await is a step.  A write takes up to MaxDelay instants    *)
(* and carries the value of now() read when it was issued: age is how long *)
(* ago that was, so that expires > now reads left + age > 0.  Reads take   *)
(* none.                                                                   *)
(* Lease tokens are random and a task holds one at a time, so a token is   *)
(* named by the task that drew it.                                         *)
(***************************************************************************)
EXTENDS Integers, Sequences, FiniteSets

CONSTANTS
    Server,      \* processes that run a coordinator on the database
    Selections,  \* number of reviewed routing selections
    Lease,       \* leaseMs
    Beat,        \* interval of the lease heartbeat, leaseMs / 3
    MaxDelay,    \* the longest a write or a routing step takes
    MaxStops,    \* bound: how often servers stop or crash
    MaxErrors    \* bound: how many statements fail or routing steps stall

ASSUME DeviceSetupAssumption ==
    /\ Selections \in Nat
    /\ MaxDelay \in Nat /\ MaxStops \in Nat /\ MaxErrors \in Nat
    /\ Beat \in Nat \ {0}
    /\ Lease \in Nat /\ Lease > Beat + 2 * MaxDelay

VARIABLES
    row,      \* the row of device_setup_jobs
    account,  \* whether the row of accounts with its account_id exists
    up,       \* the state of each server
    task,     \* the two tasks of each server
    beat,     \* the heartbeat of the server's authorization
    due,      \* whether the recovery interval of the server has passed
    stops, errors

vars == <<row, account, up, task, beat, due, stops, errors>>

Outcome == {"joined", "action-required"}
Terminal == {"complete", "complete_with_actions", "authorization_error"}
Claimable == {"awaiting_authorization", "account_committed", "reconciling"}

Task == Server \X {"auth", "tick"}
Auth(s) == <<s, "auth">>
Tick(s) == <<s, "tick">>
None == <<>>

\* The awaits of a task: on the provider or the routing finalizer, on a read
\* and on a statement that writes.
Waits == {"initiate", "poll", "slow"}
Reads == {"load", "verify", "recheck", "open", "reload", "check", "tally",
          "list", "claimed", "exists", "reread"}
Writes == {"create", "renew", "commit", "fail", "mark", "begin", "hold",
           "advance", "finish", "claim"}
Statements == Reads \cup Writes
Timed == Writes \cup {"route"}
BeforeCommit == {"initiate", "poll", "renew", "load"}

Idle == [pc |-> "idle", age |-> 0, lost |-> FALSE, seen |-> <<>>, say |-> "joined"]
Silent == [on |-> FALSE, wait |-> 0, sent |-> FALSE, age |-> 0]

Greater(a, b) == IF a > b THEN a ELSE b

-----------------------------------------------------------------------------
(* Steps of a task *)

\* The next await; a task keeps the outcomes it read only inside the loop.
Await(t, pc) ==
    [t EXCEPT !.pc = pc, !.age = 0,
              !.seen = IF pc \in {"route", "slow", "check"} THEN @ ELSE <<>>]

Continue(a, pc) ==
    /\ task' = [task EXCEPT ![a] = Await(@, pc)]
    /\ UNCHANGED beat

\* The finally of completeAuthorization, or the end of the pass.
End(a) ==
    /\ task' = [task EXCEPT ![a] = Idle]
    /\ beat' = IF a[2] = "auth" THEN [beat EXCEPT ![a[1]].on = FALSE] ELSE beat

\* A statement that changes the row where condition holds: the task goes on
\* when one row was changed and returns otherwise.
Conditional(a, condition, changed, pc) ==
    /\ IF condition THEN row' = changed /\ Continue(a, pc)
                    ELSE UNCHANGED row /\ End(a)
    /\ UNCHANGED <<account, up, due, stops, errors>>

\* A read: the task goes on or returns.
Look(a, condition, pc) ==
    /\ IF condition THEN Continue(a, pc) ELSE End(a)
    /\ UNCHANGED <<row, account, up, due, stops, errors>>

At(a, pc) == task[a].pc = pc

-----------------------------------------------------------------------------
(* The statements of the repository *)

\* lease_token = ? AND lease_expires_at > ?
Owned(a) == row.token = a /\ row.left + task[a].age > 0

\* lease_expires_at IS NULL OR lease_expires_at <= ?
Expired(a) == row.token = None \/ row.left + task[a].age <= 0

\* An unexpired lease is extended and never shortened.
Renewed(age) == [row EXCEPT !.left = Greater(@, Lease - age)]

Settled(status) == [row EXCEPT !.status = status, !.token = None, !.left = 0]

-----------------------------------------------------------------------------
(* initialize *)

\* A request to set the account up reaches a server.
Initialize(s) ==
    /\ up[s] = "up" /\ At(Auth(s), "idle") /\ row.status = "absent"
    /\ Continue(Auth(s), "create")
    /\ UNCHANGED <<row, account, up, due, stops, errors>>

Created(a) == [row EXCEPT !.status = "awaiting_authorization",
                          !.token = a, !.left = Lease - task[a].age]

\* createOrGet: the first INSERT wins, the other request gets its job.
Create(s) ==
    LET a == Auth(s)
    IN /\ At(a, "create")
       /\ IF row.status = "absent"
          THEN /\ row' = Created(a)
               /\ task' = [task EXCEPT ![a] = Await(@, "initiate")]
               /\ beat' = [beat EXCEPT ![s] = [Silent EXCEPT !.on = TRUE, !.wait = Beat]]
          ELSE UNCHANGED row /\ End(a)
       /\ UNCHANGED <<account, up, due, stops, errors>>

\* The provider hands out a code, or refuses.
Initiated(s) ==
    LET a == Auth(s)
    IN /\ At(a, "initiate")
       /\ \/ Continue(a, "fail")
          \/ IF up[s] = "disposed" \/ task[a].lost
             THEN End(a) ELSE Continue(a, "poll")
       /\ UNCHANGED <<row, account, up, due, stops, errors>>

-----------------------------------------------------------------------------
(* completeAuthorization *)

Fenced(a) == up[a[1]] = "disposed" \/ task[a].lost

\* The user authorizes, or the provider gives up.
Polled(s) ==
    LET a == Auth(s)
    IN /\ At(a, "poll")
       /\ \/ Look(a, ~Fenced(a), "renew")
          \/ Look(a, ~Fenced(a), "fail")

Renew(s) ==
    LET a == Auth(s)
    IN /\ At(a, "renew")
       /\ Conditional(a, row.status \in Claimable /\ Owned(a),
                      Renewed(task[a].age), "load")

\* commitStarted is set in the step that checks the lease.
Load(s) ==
    LET a == Auth(s)
    IN /\ At(a, "load")
       /\ Look(a, ~Fenced(a) /\ row.token = a, "commit")

\* commitAuthorizedAccount inserts the row; it may report an error all the
\* same, or fail without having inserted it.
Insert(s) ==
    LET a == Auth(s)
    IN /\ At(a, "commit")
       /\ \/ account' = TRUE /\ Continue(a, "verify") /\ UNCHANGED errors
          \/ /\ errors < MaxErrors /\ errors' = errors + 1
             /\ account' \in {account, TRUE}
             /\ Continue(a, "recheck")
       /\ UNCHANGED <<row, up, due, stops>>

Verify(s) ==
    LET a == Auth(s)
    IN /\ task[a].pc \in {"verify", "recheck"}
       /\ Continue(a, IF account THEN "mark" ELSE "fail")
       /\ UNCHANGED <<row, account, up, due, stops, errors>>

\* markAuthorizationError settles a job that still awaits authorization.
MarkAuthorizationError(a) ==
    /\ At(a, "fail")
    /\ row' = IF row.status = "awaiting_authorization" /\ Owned(a)
              THEN Settled("authorization_error") ELSE row
    /\ End(a)
    /\ UNCHANGED <<account, up, due, stops, errors>>

MarkAccountCommitted(a) ==
    /\ At(a, "mark")
    /\ Conditional(a, row.status = "awaiting_authorization" /\ Owned(a) /\ account,
                   [row EXCEPT !.status = "account_committed"],
                   IF a[2] = "auth" THEN "open" ELSE "reread")

-----------------------------------------------------------------------------
(* reconcile, run by either task *)

\* What a findById inside the loop leads to: the next selection, or the end.
Onward(a) ==
    /\ task' = [task EXCEPT ![a] =
                  [Await(@, IF Len(row.outcomes) < Selections
                            THEN "hold" ELSE "tally") EXCEPT !.seen = row.outcomes]]
    /\ UNCHANGED beat

Open(a) ==
    /\ At(a, "open")
    /\ CASE row.status = "account_committed" -> Continue(a, "begin")
         [] row.status = "reconciling" -> Onward(a)
         [] OTHER -> End(a)
    /\ UNCHANGED <<row, account, up, due, stops, errors>>

BeginReconciliation(a) ==
    /\ At(a, "begin")
    /\ Conditional(a, row.status = "account_committed" /\ Owned(a),
                   [row EXCEPT !.status = "reconciling"], "reload")

Reload(a) ==
    /\ At(a, "reload")
    /\ IF row.status = "reconciling" THEN Onward(a) ELSE End(a)
    /\ UNCHANGED <<row, account, up, due, stops, errors>>

RenewLease(a) ==
    /\ At(a, "hold")
    /\ Conditional(a, row.status \in Claimable /\ Owned(a),
                   Renewed(task[a].age), "route")

\* finalizeRouting applies one selection; whatever it throws is an outcome.
Route(a) ==
    /\ task[a].pc \in {"route", "slow"}
    /\ \E o \in Outcome :
         task' = [task EXCEPT ![a] = [Await(@, "check") EXCEPT !.say = o]]
    /\ UNCHANGED <<row, account, up, beat, due, stops, errors>>

\* The reads with which advanceRoutingOutcome and finish begin.
StillMine(a) ==
    /\ row.status = "reconciling" /\ Owned(a)
    /\ Len(row.outcomes) = Len(task[a].seen)

Check(a) ==
    /\ At(a, "check")
    /\ IF StillMine(a)
       THEN /\ task' = [task EXCEPT ![a].pc = "advance", ![a].say = Idle.say,
                                    ![a].seen = Append(row.outcomes, task[a].say)]
            /\ UNCHANGED beat
       ELSE End(a)
    /\ UNCHANGED <<row, account, up, due, stops, errors>>

\* Mutant: the statement trusts the read and asks for the status only.
AdvanceUnchecked(a) ==
    /\ At(a, "advance")
    /\ Conditional(a, row.status = "reconciling",
                   [row EXCEPT !.outcomes = task[a].seen], "reload")

\* The statement repeats the conditions of the read and writes what it saw.
AdvanceRoutingOutcome(a) ==
    /\ At(a, "advance")
    /\ Conditional(a,
         /\ row.status = "reconciling" /\ Owned(a)
         /\ Len(row.outcomes) + 1 = Len(task[a].seen),
         [row EXCEPT !.outcomes = task[a].seen], "reload")

Tally(a) ==
    /\ At(a, "tally")
    /\ IF StillMine(a) THEN task' = [task EXCEPT ![a].pc = "finish"] /\ UNCHANGED beat
                       ELSE End(a)
    /\ UNCHANGED <<row, account, up, due, stops, errors>>

\* The verdict is drawn from the outcomes the loop read last.
Finish(a) ==
    /\ At(a, "finish")
    /\ row' = IF StillMine(a)
              THEN Settled(IF \A i \in DOMAIN task[a].seen : task[a].seen[i] = "joined"
                           THEN "complete" ELSE "complete_with_actions")
              ELSE row
    /\ End(a)
    /\ UNCHANGED <<account, up, due, stops, errors>>

-----------------------------------------------------------------------------
(* performTick *)

\* runTick: at startup and then at intervals; passes do not overlap.
StartTick(s) ==
    /\ up[s] = "up" /\ due[s] /\ due' = [due EXCEPT ![s] = FALSE]
    /\ At(Tick(s), "idle") /\ row.status \notin {"absent", "deleted"}
    /\ Continue(Tick(s), "list")
    /\ UNCHANGED <<row, account, up, stops, errors>>

\* Mutant: jobs that are being reconciled are not claimable.
ListUnfinished(s) ==
    LET a == Tick(s)
    IN /\ At(a, "list")
       /\ \/ Look(a, /\ row.status \in Claimable \ {"reconciling"}
                    /\ Expired(a) /\ At(Auth(s), "idle"), "claim")
          \/ /\ row.status \in Terminal
             /\ row' = [row EXCEPT !.status = "deleted"]
             /\ End(a)
             /\ UNCHANGED <<account, up, due, stops, errors>>

\* deleteTerminalBefore, for a settled job whose retention has passed, and
\* listClaimable, without the jobs this server authorizes itself.
List(s) ==
    LET a == Tick(s)
    IN /\ At(a, "list")
       /\ \/ Look(a, row.status \in Claimable /\ Expired(a) /\ At(Auth(s), "idle"),
                 "claim")
          \/ /\ row.status \in Terminal
             /\ row' = [row EXCEPT !.status = "deleted"]
             /\ End(a)
             /\ UNCHANGED <<account, up, due, stops, errors>>

TryClaim(s) ==
    LET a == Tick(s)
    IN /\ At(a, "claim")
       /\ Conditional(a, row.status \in Claimable /\ Expired(a),
                      [row EXCEPT !.token = a, !.left = Lease - task[a].age], "claimed")

\* findById: an unfinished authorization is settled by whether its account
\* exists, anything later is reconciled.
Claimed(s) ==
    LET a == Tick(s)
    IN /\ task[a].pc \in {"claimed", "reread"}
       /\ CASE row.status = "awaiting_authorization" /\ At(a, "claimed") ->
                   Continue(a, "exists")
            [] row.status \in {"account_committed", "reconciling"} ->
                   Continue(a, "open")
            [] OTHER -> End(a)
       /\ UNCHANGED <<row, account, up, due, stops, errors>>

\* Mutant: recovery gives up every unfinished authorization.
ExistsNever(s) ==
    LET a == Tick(s)
    IN /\ At(a, "exists")
       /\ Continue(a, "fail")
       /\ UNCHANGED <<row, account, up, due, stops, errors>>

\* accountExists
Exists(s) ==
    LET a == Tick(s)
    IN /\ At(a, "exists")
       /\ Continue(a, IF account THEN "mark" ELSE "fail")
       /\ UNCHANGED <<row, account, up, due, stops, errors>>

-----------------------------------------------------------------------------
(* The lease heartbeat of an authorization *)

\* Mutant: the timer fires once and is not armed again.
TickedOnce(s) ==
    LET fires == beat[s].on /\ beat[s].wait = 1
        sends == fires /\ ~beat[s].sent /\ ~Fenced(Auth(s))
    IN [beat[s] EXCEPT
          !.wait = IF beat[s].on /\ @ > 0 THEN @ - 1 ELSE @,
          !.sent = @ \/ sends,
          !.age = IF beat[s].sent THEN @ + 1 ELSE 0]

\* One instant of the timer: when it fires, a renewal is sent unless one is
\* on its way or the authorization is fenced.
Ticked(s) ==
    LET fires == beat[s].on /\ beat[s].wait = 1
        sends == fires /\ ~beat[s].sent /\ ~Fenced(Auth(s))
    IN [beat[s] EXCEPT
          !.wait = IF ~beat[s].on THEN @ ELSE IF fires THEN Beat ELSE @ - 1,
          !.sent = @ \/ sends,
          !.age = IF beat[s].sent THEN @ + 1 ELSE 0]

Lose(s) == task' = [task EXCEPT ![Auth(s)].lost = task[Auth(s)].pc # "idle"]

\* renewAuthorizationLease: a lease that is not renewed is lost for good.
Heartbeat(s) ==
    /\ beat[s].sent
    /\ beat' = [beat EXCEPT ![s].sent = FALSE, ![s].age = 0]
    /\ IF /\ row.status \in Claimable /\ row.token = Auth(s)
          /\ row.left + beat[s].age > 0
       THEN row' = Renewed(beat[s].age) /\ UNCHANGED task
       ELSE UNCHANGED row /\ Lose(s)
    /\ UNCHANGED <<account, up, due, stops, errors>>

-----------------------------------------------------------------------------
(* Faults, the life of a server, and time *)

\* A statement throws: the catch of completeAuthorization reports an error
\* unless the lease is lost, the pass of a tick ends.
StatementFails(a) ==
    /\ errors < MaxErrors /\ errors' = errors + 1
    /\ task[a].pc \in Statements \ {"commit"}
    /\ CASE a[2] = "tick" \/ task[a].pc \in {"create", "renew", "fail"} -> End(a)
         [] a[2] # "tick" /\ At(a, "verify") -> Continue(a, "recheck")
         [] OTHER -> IF Fenced(a) THEN End(a) ELSE Continue(a, "fail")
    /\ UNCHANGED <<row, account, up, due, stops>>

\* createOrGet inserts the job and then fails to read it back: the request
\* ends, and the lease it took is left to expire.
CreateUnread(s) ==
    LET a == Auth(s)
    IN /\ errors < MaxErrors /\ errors' = errors + 1
       /\ At(a, "create") /\ row.status = "absent"
       /\ row' = Created(a)
       /\ End(a)
       /\ UNCHANGED <<account, up, due, stops>>

\* A routing step outlasts any lease.
RoutingStalls(a) ==
    /\ errors < MaxErrors /\ errors' = errors + 1
    /\ At(a, "route") /\ Continue(a, "slow")
    /\ UNCHANGED <<row, account, up, due, stops>>

HeartbeatFails(s) ==
    /\ errors < MaxErrors /\ errors' = errors + 1
    /\ beat[s].sent
    /\ beat' = [beat EXCEPT ![s].sent = FALSE, ![s].age = 0]
    /\ Lose(s)
    /\ UNCHANGED <<row, account, up, due, stops>>

\* dispose: the heartbeat stops, and a poll that has not led to a commit is
\* abandoned.
Dispose(s) ==
    LET a == Auth(s)
    IN /\ stops < MaxStops /\ stops' = stops + 1
       /\ up[s] = "up" /\ up' = [up EXCEPT ![s] = "disposed"]
       /\ beat' = [beat EXCEPT ![s].on = FALSE]
       /\ task' = [task EXCEPT ![a] =
            IF At(a, "poll") THEN Idle
            ELSE IF task[a].pc \in BeforeCommit THEN [@ EXCEPT !.lost = TRUE] ELSE @]
       /\ UNCHANGED <<row, account, due, errors>>

Forgets(s) ==
    /\ up' = [up EXCEPT ![s] = "down"]
    /\ task' = [task EXCEPT ![Auth(s)] = Idle, ![Tick(s)] = Idle]
    /\ beat' = [beat EXCEPT ![s] = Silent]
    /\ UNCHANGED <<row, account, due, errors>>

\* drain has waited for the work in flight; an initialize is not part of it.
Exit(s) ==
    /\ up[s] = "disposed"
    /\ At(Tick(s), "idle") /\ task[Auth(s)].pc \in {"idle", "create", "initiate"}
    /\ ~beat[s].sent
    /\ Forgets(s) /\ UNCHANGED stops

Crash(s) ==
    /\ up[s] # "down"
    /\ stops < MaxStops /\ stops' = stops + 1
    /\ Forgets(s)

Start(s) ==
    /\ up[s] = "down" /\ up' = [up EXCEPT ![s] = "up"]
    /\ due' = [due EXCEPT ![s] = TRUE]
    /\ UNCHANGED <<row, account, task, beat, stops, errors>>

\* An instant passes: no statement takes longer than MaxDelay, timers fire
\* when they are due.
Pass ==
    /\ \A a \in Task : /\ task[a].pc \notin Reads
                       /\ task[a].pc \in Timed => task[a].age < MaxDelay
    /\ \A s \in Server : beat[s].sent => beat[s].age < MaxDelay
    /\ row' = [row EXCEPT !.left = IF row.token = None THEN 0
                                   ELSE Greater(@ - 1, -MaxDelay)]
    /\ task' = [a \in Task |-> IF task[a].pc \in Timed
                               THEN [task[a] EXCEPT !.age = @ + 1] ELSE task[a]]
    /\ beat' = [s \in Server |-> Ticked(s)]
    /\ due' = [s \in Server |-> TRUE]
    /\ UNCHANGED <<account, up, stops, errors>>

-----------------------------------------------------------------------------

Init ==
    /\ row = [status |-> "absent", token |-> None, left |-> 0, outcomes |-> <<>>]
    /\ account = FALSE
    /\ up = [s \in Server |-> "up"]
    /\ task = [a \in Task |-> Idle]
    /\ beat = [s \in Server |-> Silent]
    /\ due = [s \in Server |-> TRUE]
    /\ stops = 0 /\ errors = 0

Authorization(s) ==
    \/ Create(s) \/ Initiated(s) \/ Polled(s) \/ Renew(s) \/ Load(s)
    \/ Insert(s) \/ Verify(s)

Recovery(s) == List(s) \/ TryClaim(s) \/ Claimed(s) \/ Exists(s)

Work(a) ==
    \/ MarkAuthorizationError(a) \/ MarkAccountCommitted(a)
    \/ Open(a) \/ BeginReconciliation(a) \/ Reload(a) \/ RenewLease(a)
    \/ Route(a) \/ Check(a) \/ AdvanceRoutingOutcome(a) \/ Tally(a) \/ Finish(a)

Next ==
    \/ \E s \in Server :
         \/ Initialize(s) \/ Authorization(s) \/ CreateUnread(s)
         \/ StartTick(s) \/ Recovery(s)
         \/ Heartbeat(s) \/ HeartbeatFails(s)
         \/ Dispose(s) \/ Exit(s) \/ Crash(s) \/ Start(s)
    \/ \E a \in Task : Work(a) \/ StatementFails(a) \/ RoutingStalls(a)
    \/ Pass

\* Statements and providers answer, ticks recur, a stopped server is started
\* again by its supervisor and time goes on.
Fairness ==
    /\ \A s \in Server :
         /\ WF_vars(Authorization(s) \/ Work(Auth(s)))
         /\ WF_vars(StartTick(s) \/ Recovery(s) \/ Work(Tick(s)))
         /\ WF_vars(Heartbeat(s))
         /\ WF_vars(Exit(s) \/ Start(s))
    /\ WF_vars(Pass)

Spec == Init /\ [][Next]_vars /\ Fairness

-----------------------------------------------------------------------------
(* Properties *)

\* Every variable keeps its type; the fields of the row and of the tasks of
\* device-setup-jobs.ts hold the values their code can give them.
TypeOK ==
    /\ row \in [status : {"absent", "deleted"} \cup Terminal \cup Claimable,
                token : Task \cup {None}, left : (-MaxDelay)..Lease,
                outcomes : Seq(Outcome)]
    /\ Len(row.outcomes) <= Selections
    /\ row.token = None <=> row.status \notin Claimable
    /\ account \in BOOLEAN
    /\ up \in [Server -> {"up", "disposed", "down"}]
    /\ task \in [Task -> [pc : {"idle"} \cup Waits \cup Timed \cup Reads,
                         age : 0..MaxDelay, lost : BOOLEAN,
                         seen : Seq(Outcome), say : Outcome]]
    /\ \A s \in Server : ~task[Tick(s)].lost
    /\ beat \in [Server -> [on : BOOLEAN, wait : 0..Beat, sent : BOOLEAN,
                            age : 0..MaxDelay]]
    /\ due \in [Server -> BOOLEAN]
    /\ stops \in 0..MaxStops /\ errors \in 0..MaxErrors

Job == INSTANCE DeviceSetupJob
    WITH status <- row.status, outcomes <- row.outcomes

\* However the tasks of the servers interleave, stop and lose their leases,
\* the row moves as if one worker had carried the job: no selection is
\* skipped, decided twice or overwritten by a worker whose lease is gone, the
\* verdict is that of the stored outcomes, and the account is never inserted
\* after the job was given up.
ImplementsJob == Job!Spec

\* Stops and crashes alone never orphan an account: while no statement
\* fails, a job is not settled as authorization_error once its account
\* exists (the existence checks of completeAuthorization and performTick).
\* (With TypeOK.)
AccountNotOrphaned ==
    TypeOK /\ ((account /\ row.status = "authorization_error") => errors > 0)

\* A waiting authorization is not interrupted: its lease goes to another
\* worker only after its server was stopped, a renewal failed or the task
\* itself was done (the heartbeat of leaseMs / 3).
AuthorizationNotStolen ==
    [][\A s \in Server :
         (/\ row.token = Auth(s) /\ row'.token \notin {Auth(s), None})
         => task[Auth(s)].pc = "idle" \/ up[s] = "disposed" \/ errors > 0]_vars

\* A job that was created is settled in the end, whatever stops and fails.
JobSettles ==
    (row.status \in Claimable) ~> (row.status \in Terminal \cup {"deleted"})

=============================================================================
