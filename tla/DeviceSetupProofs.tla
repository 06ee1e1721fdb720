-------------------------- MODULE DeviceSetupProofs --------------------------
(***************************************************************************)
(* Proofs about DeviceSetup.tla, for every number of servers, selections,  *)
(* stops and failing statements, and for every lease, heartbeat and delay  *)
(* that DeviceSetupAssumption allows: the row implements DeviceSetupJob,   *)
(* crashes orphan no account, and no lease of an authorization that is     *)
(* under way is stolen.                                                    *)
(***************************************************************************)
EXTENDS DeviceSetup, SequenceTheorems, TLAPS

Local == [pc : {"idle"} \cup Waits \cup Timed \cup Reads,
          age : 0..MaxDelay, lost : BOOLEAN, seen : Seq(Outcome), say : Outcome]

\* The first n of s are the first n of q.
Agree(s, q, n) == n <= Len(q) /\ \A i \in 1..n : s[i] = q[i]

\* What a worker of the loop remembers is a beginning of the stored outcomes,
\* followed by its own decision when it is about to write.
LoopSound(t, q) ==
    /\ t.pc = "advance" => /\ Len(t.seen) \in 1..Selections
                           /\ Agree(t.seen, q, Len(t.seen) - 1)
    /\ t.pc # "advance" => Agree(t.seen, q, Len(t.seen))
    /\ t.pc \in {"hold", "route", "slow", "check"} => Len(t.seen) < Selections
    /\ t.pc \in {"tally", "finish"} => Len(t.seen) = Selections

\* The lease that was renewed for the insertion of the account outlasts it.
LeaseSound(s) ==
    task[Auth(s)].pc \in {"load", "commit"} =>
        /\ row.token = Auth(s)
        /\ row.left >= Lease - MaxDelay - task[Auth(s)].age
        /\ task[Auth(s)].pc = "load" => row.left >= Lease - MaxDelay

\* While the authorization holds the lease, nothing has happened behind it.
EarlySound(s) ==
    /\ row.token = Auth(s)
    /\ task[Auth(s)].pc \in {"initiate", "poll", "renew", "load", "commit"}
    => row.status = "awaiting_authorization" /\ ~account

\* A worker that is about to give the job up has looked for the account.
FailSound(a) ==
    /\ task[a].pc = "fail" /\ row.token = a
    /\ row.status = "awaiting_authorization" /\ errors = 0
    => ~account

\* A job settled as an error has no account, unless a statement failed, and
\* none exists before the job.
AccountSound ==
    /\ account /\ row.status = "authorization_error" => errors > 0
    /\ row.status = "absent" => ~account

Row == [status : {"absent", "deleted"} \cup Terminal \cup Claimable,
        token : Task \cup {None}, left : (-MaxDelay)..Lease,
        outcomes : Seq(Outcome)]

RowSound ==
    /\ row \in Row /\ Len(row.outcomes) <= Selections
    /\ row.token = None <=> row.status \notin Claimable

\* The invariant of the row and the tasks, and that of the servers.
Core ==
    /\ RowSound /\ account \in BOOLEAN /\ errors \in 0..MaxErrors
    /\ task \in [Task -> Local] /\ \A s \in Server : ~task[Tick(s)].lost
    /\ AccountSound
    /\ \A a \in Task : LoopSound(task[a], row.outcomes) /\ FailSound(a)
    /\ \A s \in Server : LeaseSound(s) /\ EarlySound(s)

Servers ==
    /\ up \in [Server -> {"up", "disposed", "down"}]
    /\ beat \in [Server -> [on : BOOLEAN, wait : 0..Beat, sent : BOOLEAN,
                            age : 0..MaxDelay]]
    /\ \A s \in Server : beat[s].on => beat[s].wait > 0
    /\ due \in [Server -> BOOLEAN]
    /\ stops \in 0..MaxStops

Inv == Core /\ Servers

-----------------------------------------------------------------------------
(* Tasks *)

LEMMA Tasks ==
    /\ \A s \in Server : Auth(s) \in Task /\ Tick(s) \in Task
    /\ \A s \in Server : Auth(s)[1] = s /\ Auth(s)[2] = "auth"
    /\ \A s \in Server : Tick(s)[1] = s /\ Tick(s)[2] = "tick"
    /\ \A a \in Task : a[1] \in Server /\ (a = Auth(a[1]) \/ a = Tick(a[1]))
    /\ \A a \in Task : a # None
    /\ \A s, r \in Server : Auth(s) # Tick(r) /\ (Auth(s) = Auth(r) => s = r)
  BY DEF Task, Auth, Tick, None

LEMMA InvTypes == Inv => TypeOK
  BY Zenon DEF Inv, Core, Servers, RowSound, Row, Local, TypeOK

Early == {"initiate", "poll", "renew", "load", "commit"}
Looping == {"hold", "route", "slow", "check", "advance", "tally", "finish"}
Places == {"idle"} \cup Waits \cup Timed \cup Reads

LEMMA IdleSound ==
    ASSUME NEW q \in Seq(Outcome)
    PROVE  Idle \in Local /\ LoopSound(Idle, q)
  BY DeviceSetupAssumption
  DEF Idle, Local, LoopSound, Agree, Outcome, Waits, Timed, Reads, Writes

LEMMA AwaitSound ==
    ASSUME NEW t \in Local, NEW pc \in Places
    PROVE  /\ Await(t, pc) \in Local
           /\ Await(t, pc).pc = pc /\ Await(t, pc).age = 0
           /\ Await(t, pc).lost = t.lost /\ Await(t, pc).say = t.say
           /\ pc \in {"route", "slow", "check"} => Await(t, pc).seen = t.seen
           /\ pc \notin {"route", "slow", "check"} => Await(t, pc).seen = <<>>
<1>1. <<>> \in Seq(Outcome) /\ 0 \in 0..MaxDelay
  BY DeviceSetupAssumption
<1>2. CASE pc \in {"route", "slow", "check"}
  BY Zenon, <1>1, <1>2 DEF Await, Local, Places
<1>3. CASE pc \notin {"route", "slow", "check"}
  BY Zenon, <1>1, <1>3 DEF Await, Local, Places
<1>4. QED
  BY Zenon, <1>2, <1>3

LEMMA CalmSound ==
    ASSUME NEW t \in Local, NEW pc \in Places \ Looping, NEW q \in Seq(Outcome)
    PROVE  LoopSound(Await(t, pc), q)
<1>1. Await(t, pc).pc = pc /\ Await(t, pc).seen = <<>>
  BY Zenon, AwaitSound DEF Looping
<1>2. QED
  BY <1>1 DEF LoopSound, Agree, Looping

-----------------------------------------------------------------------------
(* Steps of one task *)

\* What task a has to establish when it moves to t while the row becomes r.
Arrives(a, t, r, e) ==
    /\ t \in Local /\ LoopSound(t, r.outcomes)
    /\ a[2] = "tick" => ~t.lost
    /\ (/\ t.pc = "fail" /\ r.token = a
        /\ r.status = "awaiting_authorization" /\ e = 0) => ~account
    /\ (a[2] = "auth" /\ t.pc \in {"load", "commit"}) =>
           /\ r.token = a /\ r.left >= Lease - MaxDelay - t.age
           /\ t.pc = "load" => r.left >= Lease - MaxDelay
    /\ (a[2] = "auth" /\ t.pc \in Early /\ r.token = a) =>
           r.status = "awaiting_authorization" /\ ~account

\* A task that leaves the row alone.
LEMMA TaskStep ==
    ASSUME Core, NEW a \in Task, NEW t, task' = [task EXCEPT ![a] = t],
           UNCHANGED <<row, account>>, errors' \in errors..MaxErrors,
           Arrives(a, t, row, errors')
    PROVE  Core'
<1> USE DEF Core
<1>1. \A b \in Task : task'[b] = IF b = a THEN t ELSE task[b]
  BY Zenon
<1>2. RowSound' /\ account' \in BOOLEAN /\ errors' \in 0..MaxErrors
  BY DeviceSetupAssumption DEF RowSound
<1>3. task' \in [Task -> Local]
  BY Zenon DEF Arrives
<1>4. \A s \in Server : ~task'[Tick(s)].lost
  BY <1>1, Tasks DEF Arrives
<1>5. AccountSound'
  BY DeviceSetupAssumption DEF AccountSound
<1>6. ASSUME NEW b \in Task PROVE LoopSound(task[b], row.outcomes)'
  BY Zenon, <1>1, <1>6 DEF Arrives
<1>7. ASSUME NEW b \in Task PROVE FailSound(b)'
  BY <1>1, <1>7, DeviceSetupAssumption DEF Arrives, FailSound
<1>8. ASSUME NEW s \in Server PROVE LeaseSound(s)'
  BY <1>1, <1>8, Tasks DEF Arrives, LeaseSound
<1>9. ASSUME NEW s \in Server PROVE EarlySound(s)'
  BY <1>1, <1>9, Tasks DEF Arrives, EarlySound, Early
<1>10. QED
  BY Zenon, <1>2, <1>3, <1>4, <1>5, <1>6, <1>7, <1>8, <1>9

\* A statement of task a that changes the row under a's own lease, under none
\* or under one that has expired.
LEMMA RowStepAnyErrors ==
    ASSUME Core, NEW a \in Task, NEW t, task' = [task EXCEPT ![a] = t],
           UNCHANGED account, errors' \in 0..MaxErrors,
           row.token \in {a, None} \/ row.left <= 0,
           RowSound', row'.token \in {a, None},
           Agree(row.outcomes, row'.outcomes, Len(row.outcomes)),
           AccountSound', Arrives(a, t, row', errors')
    PROVE  Core'
<1> USE DEF Core
<1>1. \A b \in Task : task'[b] = IF b = a THEN t ELSE task[b]
  BY Zenon
<1>2. account' \in BOOLEAN /\ errors' \in 0..MaxErrors /\ task' \in [Task -> Local]
  BY Zenon DEF Arrives
<1>3. \A s \in Server : ~task'[Tick(s)].lost
  BY <1>1, Tasks DEF Arrives
<1>4. ASSUME NEW b \in Task PROVE LoopSound(task[b], row.outcomes)'
  <2>1. CASE b = a
    BY Zenon, <1>1, <2>1 DEF Arrives
  <2>2. CASE b # a
    <3>1. task'[b] = task[b] /\ task[b] \in Local /\ LoopSound(task[b], row.outcomes)
      BY Zenon, <1>1, <2>2
    <3>2. task[b].seen \in Seq(Outcome) /\ Len(task[b].seen) \in Nat
      BY <3>1 DEF Local
    <3>3. Len(row.outcomes) \in Nat /\ Len(row'.outcomes) \in Nat
      BY DEF RowSound, Row
    <3>4. \A n \in Int : Agree(task[b].seen, row.outcomes, n) =>
                           Agree(task[b].seen, row'.outcomes, n)
      BY <3>3 DEF Agree
    <3>5. QED
      BY <3>1, <3>2, <3>4 DEF LoopSound
  <2>3. QED
    BY Zenon, <2>1, <2>2
<1>5. ASSUME NEW b \in Task PROVE FailSound(b)'
  BY <1>1, <1>5, Tasks DEF Arrives, FailSound
<1>6. ASSUME NEW s \in Server, Auth(s) # a
      PROVE  task[Auth(s)].pc \notin {"load", "commit"}
  <2>1. SUFFICES ASSUME task[Auth(s)].pc \in {"load", "commit"} PROVE FALSE
    BY Zenon
  <2>2. row.token = Auth(s) /\ row.left >= Lease - MaxDelay - task[Auth(s)].age
    BY Zenon, <2>1, <1>6 DEF LeaseSound
  <2>3. task[Auth(s)].age \in 0..MaxDelay /\ row.left \in Int
    BY <1>6, Tasks, DeviceSetupAssumption DEF Local, RowSound, Row
  <2>4. row.left > 0
    BY <2>2, <2>3, DeviceSetupAssumption
  <2>5. QED
    BY <2>2, <2>3, <2>4, <1>6, Tasks
<1>7. ASSUME NEW s \in Server PROVE LeaseSound(s)'
  BY <1>1, <1>6, <1>7, Tasks DEF Arrives, LeaseSound
<1>8. ASSUME NEW s \in Server PROVE EarlySound(s)'
  BY <1>1, <1>8, Tasks DEF Arrives, EarlySound, Early
<1>9. QED
  BY Zenon, <1>2, <1>3, <1>4, <1>5, <1>7, <1>8

LEMMA RowStep ==
    ASSUME Core, NEW a \in Task, NEW t, task' = [task EXCEPT ![a] = t],
           UNCHANGED <<account, errors>>,
           row.token \in {a, None} \/ row.left <= 0,
           RowSound', row'.token \in {a, None},
           Agree(row.outcomes, row'.outcomes, Len(row.outcomes)),
           AccountSound', Arrives(a, t, row', errors)
    PROVE  Core'
<1>1. errors' \in 0..MaxErrors /\ errors' = errors /\ UNCHANGED account
  BY Zenon DEF Core
<1>2. Arrives(a, t, row', errors')
  BY Zenon, <1>1
<1>3. QED
  BY Zenon, <1>1, <1>2, RowStepAnyErrors

-----------------------------------------------------------------------------
(* Where a task goes *)

LEMMA IdleArrives ==
    ASSUME NEW a \in Task, NEW r, NEW e, r.outcomes \in Seq(Outcome)
    PROVE  Arrives(a, Idle, r, e)
<1>1. Idle.pc = "idle" /\ ~Idle.lost
  BY Zenon DEF Idle
<1>2. QED
  BY Zenon, <1>1, IdleSound DEF Arrives, Early

LEMMA CalmArrives ==
    ASSUME NEW a \in Task, NEW t \in Local, a[2] = "tick" => ~t.lost,
           NEW pc \in Places \ (Looping \cup Early \cup {"fail"}),
           NEW r, NEW e, r.outcomes \in Seq(Outcome)
    PROVE  Arrives(a, Await(t, pc), r, e)
<1>1. pc \in Places \ Looping
  BY Zenon
<1>2. /\ Await(t, pc) \in Local /\ LoopSound(Await(t, pc), r.outcomes)
      /\ Await(t, pc).pc = pc /\ Await(t, pc).lost = t.lost
  BY Zenon, <1>1, AwaitSound, CalmSound
<1>3. QED
  BY Zenon, <1>2 DEF Arrives, Early

LEMMA FailArrives ==
    ASSUME NEW a \in Task, NEW t \in Local, a[2] = "tick" => ~t.lost,
           NEW r, NEW e, r.outcomes \in Seq(Outcome),
           (r.token = a /\ r.status = "awaiting_authorization" /\ e = 0) => ~account
    PROVE  Arrives(a, Await(t, "fail"), r, e)
<1>1. "fail" \in Places \ Looping
  BY Zenon DEF Places, Timed, Writes, Looping
<1>2. /\ Await(t, "fail") \in Local /\ LoopSound(Await(t, "fail"), r.outcomes)
      /\ Await(t, "fail").pc = "fail" /\ Await(t, "fail").lost = t.lost
  BY Zenon, <1>1, AwaitSound, CalmSound
<1>3. QED
  BY Zenon, <1>2 DEF Arrives, Early

LEMMA EarlyArrives ==
    ASSUME NEW a \in Task, NEW t \in Local, a[2] = "auth", NEW pc \in Early,
           NEW r, NEW e, r.outcomes \in Seq(Outcome), r.left \in Int,
           pc \in {"load", "commit"} => r.token = a /\ r.left >= Lease - MaxDelay,
           r.token = a => r.status = "awaiting_authorization" /\ ~account
    PROVE  Arrives(a, Await(t, pc), r, e)
<1>1. pc \in Places \ Looping /\ pc # "fail"
  BY Zenon DEF Places, Waits, Timed, Writes, Reads, Looping, Early
<1>2. /\ Await(t, pc) \in Local /\ LoopSound(Await(t, pc), r.outcomes)
      /\ Await(t, pc).pc = pc /\ Await(t, pc).age = 0
  BY Zenon, <1>1, AwaitSound, CalmSound
<1>3. r.left >= Lease - MaxDelay => r.left >= Lease - MaxDelay - 0
  BY DeviceSetupAssumption
<1>4. QED
  BY Zenon, <1>1, <1>2, <1>3 DEF Arrives

LEMMA CoreTask ==
    ASSUME Core, NEW a \in Task
    PROVE  /\ task[a] \in Local /\ (a[2] = "tick" => ~task[a].lost)
           /\ row.outcomes \in Seq(Outcome) /\ row.left \in Int /\ errors \in Nat
           /\ LoopSound(task[a], row.outcomes) /\ errors \in errors..MaxErrors
  BY Tasks, DeviceSetupAssumption DEF Core, RowSound, Row

\* A task that returns.
LEMMA EndStep ==
    ASSUME Core, NEW a \in Task, End(a),
           UNCHANGED <<row, account>>, errors' \in errors..MaxErrors
    PROVE  Core'
<1>1. task' = [task EXCEPT ![a] = Idle]
  BY Zenon DEF End
<1>2. Arrives(a, Idle, row, errors')
  BY Zenon, CoreTask, IdleArrives
<1>3. QED
  BY Zenon, <1>1, <1>2, TaskStep

\* A task that goes on outside the loop.
LEMMA CalmStep ==
    ASSUME Core, NEW a \in Task, NEW pc \in Places \ (Looping \cup Early \cup {"fail"}),
           Continue(a, pc), UNCHANGED <<row, account>>, errors' \in errors..MaxErrors
    PROVE  Core'
<1>1. task' = [task EXCEPT ![a] = Await(task[a], pc)]
  BY Zenon DEF Continue
<1>2. Arrives(a, Await(task[a], pc), row, errors')
  BY Zenon, CoreTask, CalmArrives
<1>3. QED
  BY Zenon, <1>1, <1>2, TaskStep

LEMMA FailStep ==
    ASSUME Core, NEW a \in Task, Continue(a, "fail"),
           UNCHANGED <<row, account>>, errors' \in errors..MaxErrors,
           (/\ row.token = a /\ row.status = "awaiting_authorization"
            /\ errors' = 0) => ~account
    PROVE  Core'
<1>1. task' = [task EXCEPT ![a] = Await(task[a], "fail")]
  BY Zenon DEF Continue
<1>2. Arrives(a, Await(task[a], "fail"), row, errors')
  BY Zenon, CoreTask, FailArrives
<1>3. QED
  BY Zenon, <1>1, <1>2, TaskStep

-----------------------------------------------------------------------------
(* The steps that leave the row alone *)

LEMMA PlaceNames ==
    /\ {"idle", "create", "verify", "recheck", "mark", "open", "begin", "reload",
        "list", "claim", "claimed", "exists", "reread"}
         \subseteq Places \ (Looping \cup Early \cup {"fail"})
    /\ Early \cup Looping \cup {"fail"} \subseteq Places
  BY Zenon DEF Places, Waits, Timed, Writes, Reads, Looping, Early

LEMMA InitializeCore == ASSUME Core, NEW s \in Server, Initialize(s) PROVE Core'
<1>1. Auth(s) \in Task /\ Continue(Auth(s), "create") /\ UNCHANGED <<row, account, errors>>
  BY Zenon, Tasks DEF Initialize
<1>2. QED
  BY Zenon, <1>1, CalmStep, PlaceNames, CoreTask

\* Going on from one early place to the next.
LEMMA EarlyStep ==
    ASSUME Core, NEW s \in Server, task[Auth(s)].pc \in Early, NEW pc \in Early,
           Continue(Auth(s), pc), UNCHANGED <<row, account, errors>>,
           pc \in {"load", "commit"} =>
              row.token = Auth(s) /\ row.left >= Lease - MaxDelay
    PROVE  Core'
<1>1. task' = [task EXCEPT ![Auth(s)] = Await(task[Auth(s)], pc)]
  BY Zenon DEF Continue
<1>2. Auth(s) \in Task /\ Auth(s)[2] = "auth"
  BY Zenon, Tasks
<1>3. row.token = Auth(s) => row.status = "awaiting_authorization" /\ ~account
  BY Zenon DEF Core, EarlySound, Early
<1>4. Arrives(Auth(s), Await(task[Auth(s)], pc), row, errors')
  BY Zenon, <1>2, <1>3, CoreTask, EarlyArrives
<1>5. QED
  BY Zenon, <1>1, <1>2, <1>4, TaskStep, CoreTask

\* Giving up from an early place.
LEMMA EarlyFails ==
    ASSUME Core, NEW s \in Server, task[Auth(s)].pc \in Early,
           Continue(Auth(s), "fail"), UNCHANGED <<row, account, errors>>
    PROVE  Core'
<1>1. Auth(s) \in Task
  BY Zenon, Tasks
<1>2. row.token = Auth(s) => ~account
  BY Zenon DEF Core, EarlySound, Early
<1>3. QED
  BY Zenon, <1>1, <1>2, FailStep, CoreTask

LEMMA InitiatedCore == ASSUME Core, NEW s \in Server, Initiated(s) PROVE Core'
<1>1. /\ Auth(s) \in Task /\ task[Auth(s)].pc \in Early /\ "poll" \in Early
      /\ UNCHANGED <<row, account, errors>>
  BY Zenon, Tasks DEF Initiated, At, Early
<1>2. CASE Continue(Auth(s), "fail")
  BY Zenon, <1>1, <1>2, EarlyFails
<1>3. CASE End(Auth(s))
  BY Zenon, <1>1, <1>3, EndStep, CoreTask
<1>4. CASE Continue(Auth(s), "poll")
  BY Zenon, <1>1, <1>4, EarlyStep
<1>5. QED
  BY Zenon, <1>2, <1>3, <1>4 DEF Initiated

LEMMA PolledCore == ASSUME Core, NEW s \in Server, Polled(s) PROVE Core'
<1>1. /\ Auth(s) \in Task /\ task[Auth(s)].pc \in Early /\ "renew" \in Early
      /\ UNCHANGED <<row, account, errors>>
  BY Zenon, Tasks DEF Polled, At, Early, Look
<1>2. CASE Continue(Auth(s), "fail")
  BY Zenon, <1>1, <1>2, EarlyFails
<1>3. CASE End(Auth(s))
  BY Zenon, <1>1, <1>3, EndStep, CoreTask
<1>4. CASE Continue(Auth(s), "renew")
  BY Zenon, <1>1, <1>4, EarlyStep
<1>5. QED
  BY Zenon, <1>2, <1>3, <1>4 DEF Polled, Look

LEMMA LoadCore == ASSUME Core, NEW s \in Server, Load(s) PROVE Core'
<1>1. /\ Auth(s) \in Task /\ task[Auth(s)].pc = "load"
      /\ task[Auth(s)].pc \in Early /\ "commit" \in Early
      /\ UNCHANGED <<row, account, errors>>
  BY Zenon, Tasks DEF Load, At, Early, Look
<1>2. CASE End(Auth(s))
  BY Zenon, <1>1, <1>2, EndStep, CoreTask
<1>3. CASE Continue(Auth(s), "commit")
  <2>1. row.token = Auth(s) /\ row.left >= Lease - MaxDelay
    BY Zenon, <1>1 DEF Core, LeaseSound
  <2>2. QED
    BY Zenon, <1>1, <1>3, <2>1, EarlyStep
<1>4. QED
  BY Zenon, <1>2, <1>3 DEF Load, Look

LEMMA VerifyCore == ASSUME Core, NEW s \in Server, Verify(s) PROVE Core'
<1>1. Auth(s) \in Task /\ UNCHANGED <<row, account, errors>>
  BY Zenon, Tasks DEF Verify
<1>2. CASE account /\ Continue(Auth(s), "mark")
  BY Zenon, <1>1, <1>2, CalmStep, PlaceNames, CoreTask
<1>3. CASE ~account /\ Continue(Auth(s), "fail")
  BY Zenon, <1>1, <1>3, FailStep, CoreTask
<1>4. QED
  BY Zenon, <1>2, <1>3 DEF Verify

LEMMA ExistsCore == ASSUME Core, NEW s \in Server, Exists(s) PROVE Core'
<1>1. Tick(s) \in Task /\ UNCHANGED <<row, account, errors>>
  BY Zenon, Tasks DEF Exists
<1>2. CASE account /\ Continue(Tick(s), "mark")
  BY Zenon, <1>1, <1>2, CalmStep, PlaceNames, CoreTask
<1>3. CASE ~account /\ Continue(Tick(s), "fail")
  BY Zenon, <1>1, <1>3, FailStep, CoreTask
<1>4. QED
  BY Zenon, <1>2, <1>3 DEF Exists

LEMMA StartTickCore == ASSUME Core, NEW s \in Server, StartTick(s) PROVE Core'
<1>1. Tick(s) \in Task /\ Continue(Tick(s), "list") /\ UNCHANGED <<row, account, errors>>
  BY Zenon, Tasks DEF StartTick
<1>2. QED
  BY Zenon, <1>1, CalmStep, PlaceNames, CoreTask

LEMMA ClaimedCore == ASSUME Core, NEW s \in Server, Claimed(s) PROVE Core'
<1>1. Tick(s) \in Task /\ UNCHANGED <<row, account, errors>>
  BY Zenon, Tasks DEF Claimed
<1>2. CASE \E pc \in {"exists", "open"} : Continue(Tick(s), pc)
  BY Zenon, <1>1, <1>2, CalmStep, PlaceNames, CoreTask
<1>3. CASE End(Tick(s))
  BY Zenon, <1>1, <1>3, EndStep, CoreTask
<1>4. QED
  BY Zenon, <1>2, <1>3 DEF Claimed


LEMMA OnwardStep ==
    ASSUME Core, NEW a \in Task, Onward(a), UNCHANGED <<row, account, errors>>
    PROVE  Core'
<1> DEFINE pc == IF Len(row.outcomes) < Selections THEN "hold" ELSE "tally"
           t == [Await(task[a], pc) EXCEPT !.seen = row.outcomes]
<1>1. task' = [task EXCEPT ![a] = t]
  BY Zenon DEF Onward
<1>2. pc \in Places
  BY Zenon, PlaceNames DEF Looping
<1>3. Await(task[a], pc) \in Local /\ Await(task[a], pc).pc = pc
      /\ Await(task[a], pc).lost = task[a].lost
  BY Zenon, <1>2, AwaitSound, CoreTask
<1>4. /\ t \in Local /\ t.pc = pc /\ t.seen = row.outcomes
      /\ t.lost = task[a].lost
  BY SMTT(30), <1>3, CoreTask DEF Local
<1>5. Len(row.outcomes) \in Nat /\ Len(row.outcomes) <= Selections
  BY CoreTask DEF Core, RowSound
<1>6. LoopSound(t, row.outcomes)
  <2> HIDE DEF t
  <2>1. QED
    BY <1>4, <1>5, DeviceSetupAssumption DEF LoopSound, Agree
<1>7. Arrives(a, t, row, errors')
  <2> HIDE DEF t
  <2>1. pc \notin Early \cup {"fail"}
    BY Zenon DEF Early
  <2>2. QED
    BY Zenon, <1>4, <1>6, <2>1, CoreTask DEF Arrives, Early
<1>8. QED
  BY Zenon, <1>1, <1>7, TaskStep, CoreTask

LEMMA OpenCore == ASSUME Core, NEW a \in Task, Open(a) PROVE Core'
<1>1. UNCHANGED <<row, account, errors>>
  BY Zenon DEF Open
<1>2. CASE Continue(a, "begin")
  BY Zenon, <1>1, <1>2, CalmStep, PlaceNames, CoreTask
<1>3. CASE Onward(a)
  BY Zenon, <1>1, <1>3, OnwardStep
<1>4. CASE End(a)
  BY Zenon, <1>1, <1>4, EndStep, CoreTask
<1>5. QED
  BY Zenon, <1>2, <1>3, <1>4 DEF Open

LEMMA ReloadCore == ASSUME Core, NEW a \in Task, Reload(a) PROVE Core'
<1>1. UNCHANGED <<row, account, errors>>
  BY Zenon DEF Reload
<1>2. CASE Onward(a)
  BY Zenon, <1>1, <1>2, OnwardStep
<1>3. CASE End(a)
  BY Zenon, <1>1, <1>3, EndStep, CoreTask
<1>4. QED
  BY Zenon, <1>2, <1>3 DEF Reload

\* A task that stays in the loop with what it has read.
LEMMA LoopStep ==
    ASSUME Core, NEW a \in Task, NEW t \in Local, task' = [task EXCEPT ![a] = t],
           UNCHANGED <<row, account>>, errors' \in errors..MaxErrors,
           t.pc \in Looping, t.lost = task[a].lost, LoopSound(t, row.outcomes)
    PROVE  Core'
<1>1. Arrives(a, t, row, errors')
  BY Zenon, CoreTask DEF Arrives, Looping, Early
<1>2. QED
  BY Zenon, <1>1, TaskStep

LEMMA RouteCore == ASSUME Core, NEW a \in Task, Route(a) PROVE Core'
<1>1. PICK o \in Outcome :
        task' = [task EXCEPT ![a] = [Await(task[a], "check") EXCEPT !.say = o]]
  BY Zenon DEF Route
<1> DEFINE t == [Await(task[a], "check") EXCEPT !.say = o]
<1>2. /\ Await(task[a], "check") \in Local /\ Await(task[a], "check").pc = "check"
      /\ Await(task[a], "check").lost = task[a].lost
      /\ Await(task[a], "check").seen = task[a].seen
  <2>1. "check" \in Places /\ task[a] \in Local
    BY Zenon, CoreTask, PlaceNames DEF Looping
  <2>2. QED
    BY Zenon, <2>1, AwaitSound
<1>3. /\ t \in Local /\ t.pc = "check" /\ t.lost = task[a].lost
      /\ t.seen = task[a].seen
  BY Zenon, <1>2 DEF Local
<1>4. LoopSound(t, row.outcomes)
  <2>1. LoopSound(task[a], row.outcomes) /\ task[a].pc \in {"route", "slow"}
    BY Zenon, CoreTask DEF Route
  <2> HIDE DEF t
  <2>2. QED
    BY Zenon, <1>3, <2>1 DEF LoopSound
<1>5. UNCHANGED <<row, account, errors>>
  BY Zenon DEF Route
<1> HIDE DEF t
<1>6. task' = [task EXCEPT ![a] = t]
  BY Zenon, <1>1 DEF t
<1>7. QED
  BY Zenon, <1>3, <1>4, <1>5, <1>6, LoopStep, CoreTask DEF Looping

LEMMA RoutingStallsCore == ASSUME Core, NEW a \in Task, RoutingStalls(a) PROVE Core'
<1> DEFINE t == Await(task[a], "slow")
<1>1. t \in Local /\ t.pc = "slow" /\ t.lost = task[a].lost /\ t.seen = task[a].seen
  <2>1. "slow" \in Places /\ task[a] \in Local
    BY Zenon, CoreTask, PlaceNames DEF Looping
  <2>2. QED
    BY Zenon, <2>1, AwaitSound
<1>2. task[a].pc = "route" /\ task' = [task EXCEPT ![a] = t]
  BY Zenon DEF RoutingStalls, At, Continue
<1>3. UNCHANGED <<row, account>> /\ errors' \in errors..MaxErrors
  BY CoreTask, DeviceSetupAssumption DEF RoutingStalls
<1> HIDE DEF t
<1>4. LoopSound(t, row.outcomes)
  BY Zenon, <1>1, <1>2, CoreTask DEF LoopSound
<1>5. QED
  BY Zenon, <1>1, <1>2, <1>3, <1>4, LoopStep DEF Looping

LEMMA CheckCore == ASSUME Core, NEW a \in Task, Check(a) PROVE Core'
<1>1. UNCHANGED <<row, account, errors>> /\ task[a].pc = "check"
  BY Zenon DEF Check, At
<1>2. CASE StillMine(a)
  <2> DEFINE t == [task[a] EXCEPT !.pc = "advance", !.say = "joined",
                                  !.seen = Append(row.outcomes, task[a].say)]
  <2>1. task' = [task EXCEPT ![a] = t]
    BY Zenon, <1>2 DEF Check, Idle
  <2>2. Append(row.outcomes, task[a].say) \in Seq(Outcome)
    BY CoreTask DEF Local
  <2>3. /\ t \in Local /\ t.pc = "advance" /\ t.lost = task[a].lost
        /\ t.seen = Append(row.outcomes, task[a].say)
    BY Zenon, <2>2, CoreTask DEF Local, Outcome, Timed, Writes
  <2>4. Len(row.outcomes) \in Nat /\ Len(row.outcomes) < Selections
    BY <1>1, <1>2, CoreTask DEF StillMine, LoopSound
  <2>5. /\ Len(t.seen) = Len(row.outcomes) + 1
        /\ \A i \in 1..Len(row.outcomes) : t.seen[i] = row.outcomes[i]
    BY <2>3, CoreTask
  <2> HIDE DEF t
  <2>6. LoopSound(t, row.outcomes)
    BY <2>3, <2>4, <2>5, DeviceSetupAssumption DEF LoopSound, Agree
  <2>7. QED
    BY Zenon, <1>1, <2>1, <2>3, <2>6, LoopStep, CoreTask DEF Looping
<1>3. CASE ~StillMine(a)
  BY Zenon, <1>1, <1>3, EndStep, CoreTask DEF Check
<1>4. QED
  BY Zenon, <1>2, <1>3

LEMMA TallyCore == ASSUME Core, NEW a \in Task, Tally(a) PROVE Core'
<1>1. UNCHANGED <<row, account, errors>> /\ task[a].pc = "tally"
  BY Zenon DEF Tally, At
<1>2. CASE StillMine(a)
  <2> DEFINE t == [task[a] EXCEPT !.pc = "finish"]
  <2>1. task' = [task EXCEPT ![a] = t]
    BY Zenon, <1>2 DEF Tally
  <2>2. /\ t \in Local /\ t.pc = "finish" /\ t.lost = task[a].lost
        /\ t.seen = task[a].seen
    BY SMTT(30), CoreTask DEF Local, Timed, Writes
  <2> HIDE DEF t
  <2>3. LoopSound(t, row.outcomes)
    BY Zenon, <1>1, <2>2, CoreTask DEF LoopSound
  <2>4. QED
    BY Zenon, <1>1, <2>1, <2>2, <2>3, LoopStep, CoreTask DEF Looping
<1>3. CASE ~StillMine(a)
  BY Zenon, <1>1, <1>3, EndStep, CoreTask DEF Tally
<1>4. QED
  BY Zenon, <1>2, <1>3

LEMMA StatementFailsCore == ASSUME Core, NEW a \in Task, StatementFails(a) PROVE Core'
<1>1. /\ UNCHANGED <<row, account>> /\ errors' \in errors..MaxErrors /\ errors' # 0
  BY CoreTask, DeviceSetupAssumption DEF StatementFails
<1>2. CASE End(a)
  BY Zenon, <1>1, <1>2, EndStep
<1>3. CASE Continue(a, "recheck")
  BY Zenon, <1>1, <1>3, CalmStep, PlaceNames
<1>4. CASE Continue(a, "fail")
  BY Zenon, <1>1, <1>4, FailStep
<1>5. QED
  BY Zenon, <1>2, <1>3, <1>4 DEF StatementFails


-----------------------------------------------------------------------------
(* The statements that change the row *)

LEMMA RenewedSound ==
    ASSUME Core, NEW age \in 0..MaxDelay
    PROVE  /\ Renewed(age) \in Row
           /\ Renewed(age).status = row.status /\ Renewed(age).token = row.token
           /\ Renewed(age).outcomes = row.outcomes
           /\ Renewed(age).left >= row.left /\ Renewed(age).left >= Lease - MaxDelay
<1>1. row \in Row /\ row.left \in (-MaxDelay)..Lease
  BY Zenon DEF Core, RowSound, Row
<1>2. /\ Greater(row.left, Lease - age) \in (-MaxDelay)..Lease
      /\ Greater(row.left, Lease - age) >= row.left
      /\ Greater(row.left, Lease - age) >= Lease - MaxDelay
  BY <1>1, DeviceSetupAssumption DEF Greater
<1>3. QED
  BY Zenon, <1>1, <1>2 DEF Renewed, Row

LEMMA SettledSound ==
    ASSUME Core, NEW st \in Terminal
    PROVE  /\ Settled(st) \in Row
           /\ Settled(st).status = st /\ Settled(st).token = None
           /\ Settled(st).outcomes = row.outcomes
           /\ Settled(st).status \notin Claimable
<1>1. row \in Row /\ 0 \in (-MaxDelay)..Lease
  BY DeviceSetupAssumption DEF Core, RowSound
<1>2. st \notin Claimable
  BY Zenon DEF Terminal, Claimable
<1>3. QED
  BY Zenon, <1>1, <1>2 DEF Row, Settled

LEMMA SameOutcomes ==
    ASSUME Core, row'.outcomes = row.outcomes
    PROVE  Agree(row.outcomes, row'.outcomes, Len(row.outcomes))
  BY CoreTask DEF Agree, Core, RowSound, Row

LEMMA Ages ==
    ASSUME Core, NEW a \in Task
    PROVE  /\ task[a].age \in 0..MaxDelay
           /\ Owned(a) => row.token = a
           /\ Expired(a) => row.token = None \/ row.left <= 0
<1>1. task[a].age \in 0..MaxDelay /\ row.left \in Int
  BY Zenon, CoreTask DEF Local
<1>2. QED
  BY <1>1, DeviceSetupAssumption DEF Owned, Expired

\* The renewals of a lease, by the task that holds it.
LEMMA RenewalStep ==
    ASSUME Core, NEW a \in Task, NEW t, task' = [task EXCEPT ![a] = t],
           row' = Renewed(task[a].age), row.token = a, UNCHANGED <<account, errors>>,
           Arrives(a, t, row', errors)
    PROVE  Core'
<1>1. /\ row' \in Row /\ row'.status = row.status /\ row'.token = row.token
      /\ row'.outcomes = row.outcomes
  BY Zenon, RenewedSound, Ages
<1>2. RowSound'
  BY Zenon, <1>1 DEF RowSound, Core
<1>3. AccountSound'
  BY Zenon, <1>1 DEF AccountSound, Core
<1>4. Agree(row.outcomes, row'.outcomes, Len(row.outcomes))
  BY Zenon, <1>1, SameOutcomes
<1>5. QED
  BY Zenon, <1>1, <1>2, <1>3, <1>4, RowStep

LEMMA RenewCore == ASSUME Core, NEW s \in Server, Renew(s) PROVE Core'
<1> DEFINE a == Auth(s)
<1>1. /\ a \in Task /\ a[2] = "auth" /\ task[a].pc = "renew"
      /\ UNCHANGED <<account, errors>>
  BY Zenon, Tasks DEF Renew, At, Conditional
<1> HIDE DEF a
<1>2. CASE UNCHANGED row /\ End(a)
  BY Zenon, <1>1, <1>2, EndStep, CoreTask
<1>3. CASE Owned(a) /\ row' = Renewed(task[a].age) /\ Continue(a, "load")
  <2>1. task' = [task EXCEPT ![a] = Await(task[a], "load")] /\ row.token = a
    BY Zenon, <1>1, <1>3, Ages DEF Continue
  <2>2. row.status = "awaiting_authorization" /\ ~account
    BY Zenon, <1>1, <2>1 DEF Core, EarlySound, a
  <2>3. /\ row' \in Row /\ row'.status = row.status /\ row'.token = row.token
        /\ row'.outcomes = row.outcomes /\ row'.left >= Lease - MaxDelay
    BY Zenon, <1>1, <1>3, RenewedSound, Ages
  <2>4. row'.outcomes \in Seq(Outcome) /\ row'.left \in Int
    BY <2>3, DeviceSetupAssumption DEF Row
  <2>5. Arrives(a, Await(task[a], "load"), row', errors)
    BY Zenon, <1>1, <2>1, <2>2, <2>3, <2>4, EarlyArrives, CoreTask DEF Early
  <2>6. QED
    BY Zenon, <1>1, <1>3, <2>1, <2>5, RenewalStep
<1>4. QED
  BY Zenon, <1>2, <1>3 DEF Renew, Conditional, a

LEMMA RenewLeaseCore == ASSUME Core, NEW a \in Task, RenewLease(a) PROVE Core'
<1>1. task[a].pc = "hold" /\ UNCHANGED <<account, errors>>
  BY Zenon DEF RenewLease, At, Conditional
<1>2. CASE UNCHANGED row /\ End(a)
  BY Zenon, <1>1, <1>2, EndStep, CoreTask
<1>3. CASE Owned(a) /\ row' = Renewed(task[a].age) /\ Continue(a, "route")
  <2> DEFINE t == Await(task[a], "route")
  <2>1. task' = [task EXCEPT ![a] = t] /\ row.token = a
    BY Zenon, <1>3, Ages DEF Continue
  <2>2. "route" \in Places /\ task[a] \in Local
    BY Zenon, CoreTask, PlaceNames DEF Looping
  <2>3. t \in Local /\ t.pc = "route" /\ t.lost = task[a].lost /\ t.seen = task[a].seen
    BY Zenon, <2>2, AwaitSound
  <2>4. row'.outcomes = row.outcomes
    BY Zenon, <1>3, RenewedSound, Ages
  <2> HIDE DEF t
  <2>5. LoopSound(t, row'.outcomes)
    BY Zenon, <1>1, <2>3, <2>4, CoreTask DEF LoopSound
  <2>6. Arrives(a, t, row', errors)
    BY Zenon, <2>3, <2>5, CoreTask DEF Arrives, Early
  <2>7. QED
    BY Zenon, <1>1, <1>3, <2>1, <2>6, RenewalStep
<1>4. QED
  BY Zenon, <1>2, <1>3 DEF RenewLease, Conditional

\* A statement after which the task returns or goes on outside the loop.
LEMMA StatementStep ==
    ASSUME Core, NEW a \in Task,
           End(a) \/ \E pc \in Places \ (Looping \cup Early \cup {"fail"}) : Continue(a, pc),
           row.token \in {a, None} \/ row.left <= 0, UNCHANGED <<account, errors>>,
           RowSound', row'.token \in {a, None},
           Agree(row.outcomes, row'.outcomes, Len(row.outcomes)), AccountSound'
    PROVE  Core'
<1>1. row'.outcomes \in Seq(Outcome)
  BY Zenon DEF RowSound, Row
<1>2. CASE End(a)
  BY Zenon, <1>1, <1>2, IdleArrives, RowStep DEF End
<1>3. ASSUME NEW pc \in Places \ (Looping \cup Early \cup {"fail"}), Continue(a, pc)
      PROVE  Core'
  <2>1. task' = [task EXCEPT ![a] = Await(task[a], pc)]
    BY Zenon, <1>3 DEF Continue
  <2>2. Arrives(a, Await(task[a], pc), row', errors)
    BY Zenon, <1>1, CoreTask, CalmArrives
  <2>3. QED
    BY Zenon, <2>1, <2>2, RowStep
<1>4. QED
  BY Zenon, <1>2, <1>3


LEMMA MarkAuthorizationErrorCore ==
    ASSUME Core, NEW a \in Task, MarkAuthorizationError(a) PROVE Core'
<1>1. task[a].pc = "fail" /\ End(a) /\ UNCHANGED <<account, errors>>
  BY Zenon DEF MarkAuthorizationError, At
<1>2. CASE row' = row
  BY Zenon, <1>1, <1>2, EndStep, CoreTask
<1>3. CASE /\ row.status = "awaiting_authorization" /\ Owned(a)
           /\ row' = Settled("authorization_error")
  <2>1. row.token = a
    BY Zenon, <1>3, Ages
  <2>2. /\ row' \in Row /\ row'.status = "authorization_error" /\ row'.token = None
        /\ row'.outcomes = row.outcomes /\ row'.status \notin Claimable
    BY Zenon, <1>3, SettledSound DEF Terminal
  <2>3. RowSound'
    BY Zenon, <2>2 DEF RowSound, Core
  <2>4. account => errors # 0
    BY Zenon, <1>1, <1>3, <2>1 DEF Core, FailSound
  <2>5. AccountSound'
    BY <1>1, <2>2, <2>4, CoreTask DEF AccountSound
  <2>6. QED
    BY Zenon, <1>1, <2>1, <2>2, <2>3, <2>5, SameOutcomes, StatementStep
<1>4. QED
  BY Zenon, <1>2, <1>3 DEF MarkAuthorizationError

\* The statements that only move the status on under the lease.
LEMMA StatusStep ==
    ASSUME Core, NEW a \in Task, NEW st \in {"account_committed", "reconciling"},
           row.status \in Claimable, row.token = a,
           row' = [row EXCEPT !.status = st], UNCHANGED <<account, errors>>,
           \E pc \in Places \ (Looping \cup Early \cup {"fail"}) : Continue(a, pc)
    PROVE  Core'
<1>1. st \in Claimable /\ st # "absent" /\ st # "authorization_error"
  BY Zenon DEF Claimable
<1>2. /\ row' \in Row /\ row'.status = st /\ row'.token = row.token
      /\ row'.outcomes = row.outcomes
  BY Zenon, <1>1 DEF Core, RowSound, Row
<1>3. RowSound'
  BY Zenon, <1>1, <1>2 DEF RowSound, Core
<1>4. AccountSound'
  BY Zenon, <1>1, <1>2 DEF AccountSound
<1>5. QED
  BY Zenon, <1>2, <1>3, <1>4, SameOutcomes, StatementStep

LEMMA MarkAccountCommittedCore ==
    ASSUME Core, NEW a \in Task, MarkAccountCommitted(a) PROVE Core'
<1>1. UNCHANGED <<account, errors>>
  BY Zenon DEF MarkAccountCommitted, Conditional
<1>2. CASE UNCHANGED row /\ End(a)
  BY Zenon, <1>1, <1>2, EndStep, CoreTask
<1>3. CASE /\ row.status = "awaiting_authorization" /\ Owned(a)
           /\ row' = [row EXCEPT !.status = "account_committed"]
           /\ \E pc \in {"open", "reread"} : Continue(a, pc)
  <2>1. row.token = a /\ row.status \in Claimable
    BY Zenon, <1>3, Ages DEF Claimable
  <2>2. QED
    BY Zenon, <1>1, <1>3, <2>1, StatusStep, PlaceNames
<1>4. QED
  BY Zenon, <1>2, <1>3 DEF MarkAccountCommitted, Conditional

LEMMA BeginReconciliationCore ==
    ASSUME Core, NEW a \in Task, BeginReconciliation(a) PROVE Core'
<1>1. UNCHANGED <<account, errors>>
  BY Zenon DEF BeginReconciliation, Conditional
<1>2. CASE UNCHANGED row /\ End(a)
  BY Zenon, <1>1, <1>2, EndStep, CoreTask
<1>3. CASE /\ row.status = "account_committed" /\ Owned(a)
           /\ row' = [row EXCEPT !.status = "reconciling"] /\ Continue(a, "reload")
  <2>1. row.token = a /\ row.status \in Claimable
    BY Zenon, <1>3, Ages DEF Claimable
  <2>2. QED
    BY Zenon, <1>1, <1>3, <2>1, StatusStep, PlaceNames
<1>4. QED
  BY Zenon, <1>2, <1>3 DEF BeginReconciliation, Conditional

\* What the statement writes extends what is stored by one decision.
LEMMA AdvanceExtends ==
    ASSUME Core, NEW a \in Task, task[a].pc = "advance",
           Len(row.outcomes) + 1 = Len(task[a].seen)
    PROVE  /\ task[a].seen \in Seq(Outcome) /\ Len(task[a].seen) <= Selections
           /\ task[a].seen[Len(task[a].seen)] \in Outcome
           /\ task[a].seen = Append(row.outcomes, task[a].seen[Len(task[a].seen)])
           /\ Agree(row.outcomes, task[a].seen, Len(row.outcomes))
           /\ Len(row.outcomes) < Selections
<1> DEFINE s == task[a].seen
           q == row.outcomes
<1>1. s \in Seq(Outcome) /\ q \in Seq(Outcome) /\ LoopSound(task[a], q)
  BY Zenon, CoreTask DEF Local
<1>2. Len(s) \in 1..Selections /\ Agree(s, q, Len(s) - 1)
  BY Zenon, <1>1 DEF LoopSound
<1> HIDE DEF s, q
<1>3. Len(s) = Len(q) + 1 /\ Len(q) \in Nat
  BY <1>1 DEF s, q
<1>4. \A i \in 1..Len(q) : s[i] = q[i]
  BY <1>2, <1>3 DEF Agree
<1>5. s[Len(s)] \in Outcome
  BY <1>1, <1>2, <1>3
<1>6. s = Append(q, s[Len(s)])
  <2>1. Append(q, s[Len(s)]) \in Seq(Outcome) /\ Len(Append(q, s[Len(s)])) = Len(s)
    BY <1>1, <1>3, <1>5
  <2>2. \A i \in 1..Len(s) : s[i] = Append(q, s[Len(s)])[i]
    BY <1>1, <1>3, <1>4, <1>5
  <2>3. QED
    BY Zenon, <1>1, <2>1, <2>2, SeqEqual
<1>7. Agree(q, s, Len(q)) /\ Len(s) <= Selections /\ Len(q) < Selections
  BY <1>2, <1>3, <1>4, DeviceSetupAssumption DEF Agree
<1>8. QED
  BY Zenon, <1>1, <1>5, <1>6, <1>7 DEF s, q

LEMMA AdvanceRoutingOutcomeCore ==
    ASSUME Core, NEW a \in Task, AdvanceRoutingOutcome(a) PROVE Core'
<1>1. task[a].pc = "advance" /\ UNCHANGED <<account, errors>>
  BY Zenon DEF AdvanceRoutingOutcome, Conditional, At
<1>2. CASE UNCHANGED row /\ End(a)
  BY Zenon, <1>1, <1>2, EndStep, CoreTask
<1>3. CASE /\ row.status = "reconciling" /\ Owned(a)
           /\ Len(row.outcomes) + 1 = Len(task[a].seen)
           /\ row' = [row EXCEPT !.outcomes = task[a].seen] /\ Continue(a, "reload")
  <2>1. row.token = a
    BY Zenon, <1>3, Ages
  <2>2. /\ task[a].seen \in Seq(Outcome) /\ Len(task[a].seen) <= Selections
        /\ Agree(row.outcomes, task[a].seen, Len(row.outcomes))
    BY Zenon, <1>1, <1>3, AdvanceExtends
  <2>3. /\ row' \in Row /\ row'.status = row.status /\ row'.token = row.token
        /\ row'.outcomes = task[a].seen
    BY Zenon, <1>3, <2>2 DEF Core, RowSound, Row
  <2>4. RowSound'
    BY Zenon, <2>2, <2>3 DEF RowSound, Core
  <2>5. AccountSound'
    BY Zenon, <1>1, <1>3, <2>3 DEF AccountSound
  <2>6. QED
    BY Zenon, <1>1, <1>3, <2>1, <2>2, <2>3, <2>4, <2>5, StatementStep, PlaceNames
<1>4. QED
  BY Zenon, <1>2, <1>3 DEF AdvanceRoutingOutcome, Conditional


\* The worker that settles the job has read all the outcomes that are stored.
LEMMA FinishKnows ==
    ASSUME Core, NEW a \in Task, task[a].pc = "finish", StillMine(a)
    PROVE  task[a].seen = row.outcomes /\ Len(row.outcomes) = Selections
<1>1. /\ task[a].seen \in Seq(Outcome) /\ row.outcomes \in Seq(Outcome)
      /\ LoopSound(task[a], row.outcomes)
  BY Zenon, CoreTask DEF Local
<1>2. /\ Len(row.outcomes) = Len(task[a].seen) /\ Len(task[a].seen) = Selections
      /\ \A i \in 1..Len(task[a].seen) : task[a].seen[i] = row.outcomes[i]
  BY Zenon, <1>1 DEF StillMine, LoopSound, Agree
<1>3. QED
  BY Zenon, <1>1, <1>2, SeqEqual

LEMMA FinishCore == ASSUME Core, NEW a \in Task, Finish(a) PROVE Core'
<1>1. task[a].pc = "finish" /\ End(a) /\ UNCHANGED <<account, errors>>
  BY Zenon DEF Finish, At
<1>2. CASE row' = row
  BY Zenon, <1>1, <1>2, EndStep, CoreTask
<1>3. ASSUME NEW st \in {"complete", "complete_with_actions"},
             StillMine(a), row' = Settled(st)
      PROVE  Core'
  <2>1. row.token = a
    BY Zenon, <1>3, Ages DEF StillMine
  <2>2. /\ row' \in Row /\ row'.status = st /\ row'.token = None
        /\ row'.outcomes = row.outcomes /\ row'.status \notin Claimable
    BY Zenon, <1>3, SettledSound DEF Terminal
  <2>3. RowSound'
    BY Zenon, <2>2 DEF RowSound, Core
  <2>4. AccountSound'
    BY Zenon, <1>3, <2>2 DEF AccountSound
  <2>5. QED
    BY Zenon, <1>1, <2>1, <2>2, <2>3, <2>4, SameOutcomes, StatementStep
<1>4. QED
  BY Zenon, <1>2, <1>3 DEF Finish

LEMMA ListCore == ASSUME Core, NEW s \in Server, List(s) PROVE Core'
<1>1. Tick(s) \in Task /\ UNCHANGED <<account, errors>>
  BY Zenon, Tasks DEF List, Look
<1>2. CASE UNCHANGED row /\ End(Tick(s))
  BY Zenon, <1>1, <1>2, EndStep, CoreTask
<1>3. CASE UNCHANGED row /\ Continue(Tick(s), "claim")
  BY Zenon, <1>1, <1>3, CalmStep, PlaceNames, CoreTask
<1>4. CASE /\ row.status \in Terminal /\ End(Tick(s))
           /\ row' = [row EXCEPT !.status = "deleted"]
  <2>1. row.token = None
    BY Zenon, <1>4 DEF Core, RowSound, Terminal, Claimable
  <2>2. /\ row' \in Row /\ row'.status = "deleted" /\ row'.token = None
        /\ row'.outcomes = row.outcomes /\ row'.status \notin Claimable
    BY Zenon, <1>4, <2>1 DEF Core, RowSound, Row, Claimable
  <2>3. RowSound'
    BY Zenon, <2>2 DEF RowSound, Core
  <2>4. AccountSound'
    BY Zenon, <2>2 DEF AccountSound
  <2>5. QED
    BY Zenon, <1>1, <1>4, <2>1, <2>2, <2>3, <2>4, SameOutcomes, StatementStep
<1>5. QED
  BY Zenon, <1>2, <1>3, <1>4 DEF List, Look

LEMMA TryClaimCore == ASSUME Core, NEW s \in Server, TryClaim(s) PROVE Core'
<1> DEFINE a == Tick(s)
<1>1. a \in Task /\ UNCHANGED <<account, errors>>
  BY Zenon, Tasks DEF TryClaim, Conditional
<1> HIDE DEF a
<1>2. CASE UNCHANGED row /\ End(a)
  BY Zenon, <1>1, <1>2, EndStep, CoreTask
<1>3. CASE /\ row.status \in Claimable /\ Expired(a) /\ Continue(a, "claimed")
           /\ row' = [row EXCEPT !.token = a, !.left = Lease - task[a].age]
  <2>1. row.token = None \/ row.left <= 0
    BY Zenon, <1>1, <1>3, Ages
  <2>2. Lease - task[a].age \in (-MaxDelay)..Lease
    BY <1>1, Ages, DeviceSetupAssumption
  <2>3. /\ row' \in Row /\ row'.status = row.status /\ row'.token = a
        /\ row'.outcomes = row.outcomes
    BY Zenon, <1>1, <1>3, <2>2 DEF Core, RowSound, Row
  <2>4. RowSound'
    BY Zenon, <1>1, <1>3, <2>3, Tasks DEF RowSound, Core
  <2>5. AccountSound'
    BY Zenon, <1>1, <2>3 DEF AccountSound, Core
  <2>6. QED
    BY Zenon, <1>1, <1>3, <2>1, <2>3, <2>4, <2>5, SameOutcomes, StatementStep, PlaceNames
<1>4. QED
  BY Zenon, <1>2, <1>3 DEF TryClaim, Conditional, a

LEMMA CreateCore == ASSUME Core, NEW s \in Server, Create(s) PROVE Core'
<1> DEFINE a == Auth(s)
<1>1. a \in Task /\ a[2] = "auth" /\ UNCHANGED <<account, errors>>
  BY Zenon, Tasks DEF Create
<1> HIDE DEF a
<1>2. CASE UNCHANGED row /\ End(a)
  BY Zenon, <1>1, <1>2, EndStep, CoreTask
<1>3. CASE /\ row.status = "absent" /\ row' = Created(a)
           /\ task' = [task EXCEPT ![a] = Await(task[a], "initiate")]
  <2>1. row.token = None /\ ~account
    BY Zenon, <1>3 DEF Core, RowSound, AccountSound, Claimable
  <2>2. Lease - task[a].age \in (-MaxDelay)..Lease
    BY <1>1, Ages, DeviceSetupAssumption
  <2>3. /\ row' \in Row /\ row'.status = "awaiting_authorization" /\ row'.token = a
        /\ row'.outcomes = row.outcomes
    BY ZenonT(30), <1>1, <1>3, <2>2 DEF Created, Core, RowSound, Row, Claimable
  <2>4. RowSound'
    BY Zenon, <1>1, <2>3, Tasks DEF RowSound, Core, Claimable
  <2>5. AccountSound'
    BY Zenon, <2>3 DEF AccountSound
  <2>6. row'.outcomes \in Seq(Outcome) /\ row'.left \in Int
    BY <2>3, DeviceSetupAssumption DEF Row
  <2>7. Arrives(a, Await(task[a], "initiate"), row', errors)
    BY SMTT(30), <1>1, <2>1, <2>3, <2>6, EarlyArrives, CoreTask DEF Early
  <2>8. QED
    BY Zenon, <1>1, <1>3, <2>1, <2>3, <2>4, <2>5, <2>7, SameOutcomes, RowStep
<1>4. QED
  BY Zenon, <1>2, <1>3 DEF Create, a

LEMMA CreateUnreadCore == ASSUME Core, NEW s \in Server, CreateUnread(s) PROVE Core'
<1> DEFINE a == Auth(s)
<1>1. /\ a \in Task /\ UNCHANGED account /\ row.status = "absent"
      /\ row' = Created(a) /\ task' = [task EXCEPT ![a] = Idle]
  BY Zenon, Tasks DEF CreateUnread, End
<1>2. errors' \in 0..MaxErrors
  BY CoreTask, DeviceSetupAssumption DEF CreateUnread, Core
<1> HIDE DEF a
<1>3. row.token = None /\ ~account
  BY Zenon, <1>1 DEF Core, RowSound, AccountSound, Claimable
<1>4. Lease - task[a].age \in (-MaxDelay)..Lease
  BY <1>1, Ages, DeviceSetupAssumption
<1>5. /\ row' \in Row /\ row'.status = "awaiting_authorization" /\ row'.token = a
      /\ row'.outcomes = row.outcomes /\ row'.outcomes \in Seq(Outcome)
  BY ZenonT(30), <1>1, <1>4 DEF Created, Core, RowSound, Row, Claimable
<1>6. RowSound'
  BY Zenon, <1>1, <1>5, Tasks DEF RowSound, Core, Claimable
<1>7. AccountSound'
  BY Zenon, <1>5 DEF AccountSound
<1>8. Arrives(a, Idle, row', errors')
  BY Zenon, <1>1, <1>5, IdleArrives
<1>9. QED
  BY Zenon, <1>1, <1>2, <1>3, <1>5, <1>6, <1>7, <1>8, SameOutcomes, RowStepAnyErrors


-----------------------------------------------------------------------------
(* The insertion of the account, the heartbeat, stops and time *)

LEMMA InsertCore ==
    ASSUME Core, NEW s \in Server, Insert(s)
    PROVE  Core' /\ row.status = "awaiting_authorization"
<1> USE DEF Core
<1> DEFINE a == Auth(s)
<1>1. a \in Task /\ a[2] = "auth" /\ task[a].pc = "commit" /\ UNCHANGED row
  BY Zenon, Tasks DEF Insert, At
<1>2. account' \in BOOLEAN /\ errors' \in errors..MaxErrors
  <2>1. errors \in 0..MaxErrors /\ account \in BOOLEAN
    BY Zenon
  <2>2. account' \in {account, TRUE}
    BY Zenon DEF Insert
  <2>3. errors' = errors \/ (errors < MaxErrors /\ errors' = errors + 1)
    BY Zenon DEF Insert
  <2>4. account' \in BOOLEAN
    BY Zenon, <2>1, <2>2
  <2>5. errors' \in errors..MaxErrors
    BY <2>1, <2>3, DeviceSetupAssumption
  <2>6. QED
    BY Zenon, <2>4, <2>5
<1>3. row.token = a /\ row.status = "awaiting_authorization"
  BY Zenon, <1>1 DEF LeaseSound, EarlySound
<1>4. PICK pc \in {"verify", "recheck"} : task' = [task EXCEPT ![a] = Await(task[a], pc)]
  BY Zenon DEF Insert, Continue
<1> DEFINE t == Await(task[a], pc)
<1>5. pc \in Places \ (Looping \cup Early \cup {"fail"}) /\ pc \in Places \ Looping
  BY Zenon, PlaceNames
<1>6. /\ t \in Local /\ t.pc = pc /\ t.lost = task[a].lost
      /\ LoopSound(t, row.outcomes)
  BY <1>1, <1>5, AwaitSound, CalmSound, CoreTask
<1> HIDE DEF t
<1>7. \A b \in Task : task'[b] = IF b = a THEN t ELSE task[b]
  BY Zenon, <1>1, <1>4 DEF t
<1> HIDE DEF a
<1>8. RowSound' /\ errors' \in 0..MaxErrors /\ task' \in [Task -> Local]
  BY <1>1, <1>2, <1>4, <1>6, DeviceSetupAssumption DEF RowSound, t
<1>9. \A r \in Server : ~task'[Tick(r)].lost
  BY Zenon, <1>7, Tasks DEF a
<1>10. AccountSound'
  BY Zenon, <1>1, <1>3 DEF AccountSound
<1>11. ASSUME NEW b \in Task PROVE LoopSound(task[b], row.outcomes)'
  BY Zenon, <1>1, <1>6, <1>7, <1>11
<1>12. ASSUME NEW b \in Task PROVE FailSound(b)'
  <2>1. CASE b = a
    BY Zenon, <1>5, <1>6, <1>7, <2>1 DEF FailSound
  <2>2. CASE b # a
    BY Zenon, <1>1, <1>3, <2>2 DEF FailSound
  <2>3. QED
    BY Zenon, <2>1, <2>2
<1>13. ASSUME NEW r \in Server PROVE LeaseSound(r)' /\ EarlySound(r)'
  <2>1. CASE Auth(r) = a
    BY SMTT(30), <1>1, <1>6, <1>7, <2>1 DEF LeaseSound, EarlySound
  <2>2. CASE Auth(r) # a
    <3>1. task'[Auth(r)] = task[Auth(r)] /\ row'.token # Auth(r)
      BY Zenon, <1>1, <1>3, <1>7, <2>2, Tasks
    <3>2. QED
      BY Zenon, <1>1, <3>1 DEF LeaseSound, EarlySound
  <2>3. QED
    BY SMTT(30), <2>1, <2>2
<1>14. QED
  BY Zenon, <1>2, <1>3, <1>8, <1>9, <1>10, <1>11, <1>12, <1>13

LEMMA LoseStep ==
    ASSUME Core, NEW s \in Server, NEW lost \in BOOLEAN,
           task' = [task EXCEPT ![Auth(s)].lost = lost],
           UNCHANGED <<row, account>>, errors' \in errors..MaxErrors
    PROVE  Core'
<1> DEFINE a == Auth(s)
           t == [task[a] EXCEPT !.lost = lost]
<1>1. a \in Task /\ a[2] = "auth" /\ a = Auth(s)
  BY Zenon, Tasks
<1>2. task' = [task EXCEPT ![a] = t]
  BY Zenon
<1>3. /\ t \in Local /\ t.pc = task[a].pc /\ t.age = task[a].age
      /\ t.seen = task[a].seen
  BY Zenon, <1>1, CoreTask DEF Local
<1> HIDE DEF t, a
<1>4. LoopSound(t, row.outcomes)
  BY Zenon, <1>1, <1>3, CoreTask DEF LoopSound
<1>5. FailSound(a) /\ LeaseSound(s) /\ EarlySound(s)
  BY Zenon, <1>1 DEF Core
<1>6. (t.pc = "fail" /\ row.token = a /\ row.status = "awaiting_authorization"
       /\ errors' = 0) => ~account
  BY <1>3, <1>5, CoreTask, <1>1 DEF FailSound
<1>7. Arrives(a, t, row, errors')
  BY Zenon, <1>1, <1>3, <1>4, <1>5, <1>6 DEF Arrives, LeaseSound, EarlySound, Early
<1>8. QED
  BY Zenon, <1>1, <1>2, <1>7, TaskStep

LEMMA HeartbeatCore ==
    ASSUME Inv, NEW s \in Server, Heartbeat(s)
    PROVE  Core'
<1> USE DEF Inv, Core
<1>1. UNCHANGED <<account, errors>> /\ beat[s].age \in 0..MaxDelay
  BY SMTT(30) DEF Heartbeat, Servers
<1>2. CASE row' = Renewed(beat[s].age) /\ UNCHANGED task
  <2>1. /\ row' \in Row /\ row'.status = row.status /\ row'.token = row.token
        /\ row'.outcomes = row.outcomes /\ row'.left >= row.left
    BY Zenon, <1>1, <1>2, RenewedSound
  <2>2. row.left \in Int /\ row'.left \in Int
    BY <2>1, DeviceSetupAssumption DEF RowSound, Row
  <2>3. RowSound' /\ AccountSound'
    BY SMTT(30), <1>1, <2>1 DEF RowSound, AccountSound
  <2>4. \A b \in Task : LoopSound(task[b], row.outcomes)' /\ FailSound(b)'
    BY SMTT(30), <1>1, <1>2, <2>1 DEF FailSound
  <2>5. ASSUME NEW r \in Server PROVE LeaseSound(r)' /\ EarlySound(r)'
    <3>1. task[Auth(r)].age \in 0..MaxDelay
      BY Zenon, Tasks, Ages
    <3>2. QED
      BY SMTT(30), <1>1, <1>2, <2>1, <2>2, <3>1, DeviceSetupAssumption DEF LeaseSound, EarlySound
  <2>6. QED
    BY SMTT(30), <1>1, <1>2, <2>3, <2>4, <2>5
<1>3. CASE UNCHANGED row /\ Lose(s)
  BY Zenon, <1>1, <1>3, LoseStep, CoreTask, Tasks DEF Lose
<1>4. QED
  BY Zenon, <1>2, <1>3 DEF Heartbeat

LEMMA HeartbeatFailsCore ==
    ASSUME Core, NEW s \in Server, HeartbeatFails(s) PROVE Core'
<1>1. UNCHANGED <<row, account>> /\ errors' \in errors..MaxErrors
  BY CoreTask, Tasks, DeviceSetupAssumption DEF HeartbeatFails, Core
<1>2. QED
  BY Zenon, <1>1, LoseStep DEF HeartbeatFails, Lose

LEMMA DisposeCore == ASSUME Core, NEW s \in Server, Dispose(s) PROVE Core'
<1> DEFINE a == Auth(s)
<1>1. a \in Task /\ UNCHANGED <<row, account, errors>>
  BY Zenon, Tasks DEF Dispose
<1>2. CASE task' = [task EXCEPT ![a] = Idle]
  BY Zenon, <1>1, <1>2, IdleArrives, TaskStep, CoreTask
<1>3. CASE task' = [task EXCEPT ![a].lost = TRUE]
  BY ZenonT(30), <1>1, <1>3, LoseStep, CoreTask
<1>4. CASE task' = [task EXCEPT ![a] = task[a]]
  <2>1. task' = task
    BY Zenon, <1>4 DEF Core
  <2>2. QED
    BY Zenon, <1>1, <2>1 DEF Core, RowSound, AccountSound, FailSound, LeaseSound, EarlySound
<1>5. QED
  BY Zenon, <1>2, <1>3, <1>4 DEF Dispose


LEMMA ForgetsCore ==
    ASSUME Core, NEW s \in Server, Forgets(s) PROVE Core'
<1> USE DEF Core
<1>1. Auth(s) \in Task /\ Tick(s) \in Task
  BY Zenon, Tasks
<1>2. Idle \in Local /\ Idle.pc = "idle" /\ ~Idle.lost /\ LoopSound(Idle, row.outcomes)
  <2>1. Idle \in Local /\ LoopSound(Idle, row.outcomes)
    BY Zenon, <1>1, IdleSound, CoreTask
  <2>2. QED
    BY Zenon, <2>1 DEF Idle
<1>3. task' = [task EXCEPT ![Auth(s)] = Idle, ![Tick(s)] = Idle]
      /\ UNCHANGED <<row, account, errors>>
  BY Zenon DEF Forgets
<1>4. \A b \in Task : task'[b] \in {Idle, task[b]}
  BY Zenon, <1>1, <1>3
<1>5. task' \in [Task -> Local]
  BY Zenon, <1>1, <1>2, <1>3
<1>6. RowSound' /\ AccountSound'
  BY Zenon, <1>3 DEF RowSound, AccountSound
<1>7. \A r \in Server : ~task'[Tick(r)].lost
  BY Zenon, <1>2, <1>4, Tasks
<1>8. ASSUME NEW b \in Task PROVE LoopSound(task[b], row.outcomes)' /\ FailSound(b)'
  BY SMTT(30), <1>2, <1>3, <1>4, <1>8 DEF FailSound
<1>9. ASSUME NEW r \in Server PROVE LeaseSound(r)' /\ EarlySound(r)'
  BY <1>2, <1>3, <1>4, <1>9, Tasks DEF LeaseSound, EarlySound
<1>10. QED
  BY Zenon, <1>3, <1>5, <1>6, <1>7, <1>8, <1>9

LEMMA PassCore == ASSUME Core, Pass PROVE Core'
<1> USE DEF Core
<1>1. UNCHANGED <<account, errors>>
  BY SMTT(30) DEF Pass
<1>2. row \in Row /\ row.left \in (-MaxDelay)..Lease
  BY Zenon DEF RowSound, Row
<1> DEFINE left == IF row.token = None THEN 0 ELSE Greater(row.left - 1, -MaxDelay)
<1>3. left \in (-MaxDelay)..Lease /\ (row.token # None => left >= row.left - 1)
  BY <1>2, DeviceSetupAssumption DEF Greater
<1>4. row' = [row EXCEPT !.left = left]
  BY Zenon DEF Pass
<1> HIDE DEF left
<1>5. /\ row' \in Row /\ row'.status = row.status /\ row'.token = row.token
      /\ row'.outcomes = row.outcomes /\ row'.left = left
  BY Zenon, <1>2, <1>3, <1>4 DEF Row
<1>6. RowSound' /\ AccountSound'
  BY SMTT(30), <1>1, <1>5 DEF RowSound, AccountSound
<1>7. ASSUME NEW b \in Task
      PROVE  /\ task'[b] \in Local /\ task'[b].pc = task[b].pc
             /\ task'[b].seen = task[b].seen /\ task'[b].lost = task[b].lost
             /\ task'[b].age \in {task[b].age, task[b].age + 1}
  <2>1. task[b] \in Local /\ task[b].age \in 0..MaxDelay
    BY Zenon DEF Local
  <2>2. task'[b] = IF task[b].pc \in Timed
                   THEN [task[b] EXCEPT !.age = task[b].age + 1] ELSE task[b]
    BY Zenon, <1>7 DEF Pass
  <2>3. CASE task[b].pc \in Timed
    <3>1. task[b].age + 1 \in 0..MaxDelay
      BY <1>7, <2>1, <2>3, DeviceSetupAssumption DEF Pass
    <3>2. QED
      BY Zenon, <2>1, <2>2, <2>3, <3>1 DEF Local
  <2>4. CASE task[b].pc \notin Timed
    BY Zenon, <2>1, <2>2, <2>4
  <2>5. QED
    BY Zenon, <2>3, <2>4
<1>8. task' \in [Task -> Local]
  <2>1. task' = [b \in Task |-> task'[b]]
    BY Zenon DEF Pass
  <2>2. QED
    BY Zenon, <1>7, <2>1
<1>9. \A r \in Server : ~task'[Tick(r)].lost
  BY Zenon, <1>7, Tasks
<1>10. ASSUME NEW b \in Task PROVE LoopSound(task[b], row.outcomes)' /\ FailSound(b)'
  <2>1. LoopSound(task[b], row.outcomes) /\ FailSound(b)
    BY Zenon, <1>10
  <2>2. QED
    BY ZenonT(30), <1>1, <1>5, <1>7, <1>10, <2>1 DEF LoopSound, FailSound
<1>11. ASSUME NEW r \in Server PROVE LeaseSound(r)' /\ EarlySound(r)'
  <2> DEFINE a == Auth(r)
  <2>1. a \in Task /\ a # None
    BY Zenon, Tasks
  <2>2. /\ task'[a].pc = task[a].pc /\ task[a].age \in 0..MaxDelay
        /\ task[a].pc \notin Reads
        /\ task[a].pc \in Timed => task'[a].age = task[a].age + 1
    BY <1>7, <2>1 DEF Pass, Local
  <2>3. LeaseSound(r) /\ EarlySound(r)
    BY Zenon
  <2> HIDE DEF a
  <2>4. EarlySound(r)'
    BY SMTT(30), <1>1, <1>5, <2>2, <2>3 DEF EarlySound, a
  <2>5. LeaseSound(r)'
    <3>1. "load" \in Reads /\ "commit" \in Timed
      BY SMTT(30) DEF Reads, Timed, Writes
    <3>2. SUFFICES ASSUME task[a].pc = "commit"
                   PROVE  row'.token = a /\ row'.left >= Lease - MaxDelay - task'[a].age
      BY Zenon, <2>2, <3>1 DEF LeaseSound, a
    <3>3. row.token = a /\ row.left >= Lease - MaxDelay - task[a].age
      BY Zenon, <2>3, <3>2 DEF LeaseSound, a
    <3>4. left >= row.left - 1 /\ task'[a].age = task[a].age + 1 /\ left \in Int
      BY <1>3, <2>1, <2>2, <3>1, <3>2, <3>3, DeviceSetupAssumption
    <3>5. QED
      BY <1>2, <1>5, <2>2, <3>3, <3>4, DeviceSetupAssumption
  <2>6. QED
    BY Zenon, <2>4, <2>5
<1>12. QED
  BY Zenon, <1>1, <1>6, <1>8, <1>9, <1>10, <1>11


-----------------------------------------------------------------------------
(* The servers *)

Timer == [on : BOOLEAN, wait : 0..Beat, sent : BOOLEAN, age : 0..MaxDelay]

LEMMA TimerStep ==
    ASSUME Servers, UNCHANGED <<up, due, stops>>, NEW s \in Server, NEW b \in Timer,
           b.on => b.wait > 0, beat' = [beat EXCEPT ![s] = b]
    PROVE  Servers'
  BY Zenon DEF Servers, Timer

LEMMA ServersStep ==
    ASSUME Servers, UNCHANGED <<up, due, stops>>,
           UNCHANGED beat \/ \E a \in Task : End(a)
    PROVE  Servers'
<1>1. CASE UNCHANGED beat
  BY Zenon, <1>1 DEF Servers
<1>2. ASSUME NEW a \in Task, End(a) PROVE Servers'
  <2>1. CASE a[2] = "auth"
    <3> DEFINE s == a[1]
               b == [beat[s] EXCEPT !.on = FALSE]
    <3>1. s \in Server /\ beat' = [beat EXCEPT ![s] = b]
      BY Zenon, <1>2, <2>1, Tasks DEF End
    <3>2. b \in Timer /\ ~b.on
      BY ZenonT(30), <3>1 DEF Servers, Timer
    <3> HIDE DEF b, s
    <3>3. QED
      BY Zenon, <3>1, <3>2, TimerStep
  <2>2. CASE a[2] # "auth"
    BY Zenon, <1>2, <2>2 DEF End, Servers
  <2>3. QED
    BY Zenon, <2>1, <2>2
<1>3. QED
  BY Zenon, <1>1, <1>2

LEMMA WorkServers ==
    ASSUME Servers, NEW a \in Task, Work(a) \/ StatementFails(a) \/ RoutingStalls(a)
    PROVE  Servers'
<1>1. UNCHANGED <<up, due, stops>>
  BY Zenon DEF Work, StatementFails, RoutingStalls, MarkAuthorizationError,
     MarkAccountCommitted, Open, BeginReconciliation, Reload, RenewLease, Route,
     Check, AdvanceRoutingOutcome, Tally, Finish, Conditional
<1>2. UNCHANGED beat \/ End(a)
  BY Zenon DEF Work, StatementFails, RoutingStalls, MarkAuthorizationError,
     MarkAccountCommitted, Open, BeginReconciliation, Reload, RenewLease, Route,
     Check, AdvanceRoutingOutcome, Tally, Finish, Conditional, Continue, Onward
<1>3. QED
  BY Zenon, <1>1, <1>2, ServersStep

LEMMA RequestServers ==
    ASSUME Servers, NEW s \in Server,
           Initialize(s) \/ Authorization(s) \/ CreateUnread(s) \/ Recovery(s)
    PROVE  Servers'
<1>1. UNCHANGED <<up, due, stops>>
  BY Zenon DEF Initialize, Authorization, CreateUnread, Recovery, Create, Initiated, Polled,
     Renew, Load, Insert, Verify, List, TryClaim, Claimed, Exists, Look, Conditional
<1>2. CASE UNCHANGED beat \/ End(Auth(s)) \/ End(Tick(s))
  BY Zenon, <1>1, <1>2, Tasks, ServersStep
<1>3. CASE beat' = [beat EXCEPT ![s] = [Silent EXCEPT !.on = TRUE, !.wait = Beat]]
  <2> DEFINE b == [Silent EXCEPT !.on = TRUE, !.wait = Beat]
  <2>1. b \in Timer /\ b.wait > 0
    <3>1. Beat \in 0..Beat /\ Beat > 0 /\ 0 \in 0..MaxDelay
      BY DeviceSetupAssumption
    <3>2. Silent \in Timer
      BY DeviceSetupAssumption DEF Silent, Timer
    <3>3. QED
      BY Zenon, <3>1, <3>2 DEF Timer
  <2> HIDE DEF b
  <2>2. beat' = [beat EXCEPT ![s] = b]
    BY Zenon, <1>3 DEF b
  <2>3. QED
    BY Zenon, <1>1, <2>1, <2>2, TimerStep
<1>4. QED
  BY Zenon, <1>2, <1>3 DEF Initialize, Authorization, CreateUnread, Recovery, Create,
     Initiated, Polled, Renew, Load, Insert, Verify, List, TryClaim, Claimed, Exists, Look, Conditional,
     Continue

LEMMA LifeServers ==
    ASSUME Servers, NEW s \in Server,
           \/ StartTick(s) \/ Heartbeat(s) \/ HeartbeatFails(s)
           \/ Dispose(s) \/ Exit(s) \/ Crash(s) \/ Start(s)
    PROVE  Servers'
<1> USE DEF Servers
<1>1. CASE StartTick(s)
  BY Zenon, <1>1 DEF StartTick, Continue
<1>2. CASE Heartbeat(s) \/ HeartbeatFails(s)
  <2> DEFINE b == [beat[s] EXCEPT !.sent = FALSE, !.age = 0]
  <2>1. b \in Timer /\ (b.on => b.wait > 0)
    <3>1. 0 \in 0..MaxDelay /\ beat[s] \in Timer /\ (beat[s].on => beat[s].wait > 0)
      BY DeviceSetupAssumption DEF Timer
    <3>2. b.on = beat[s].on /\ b.wait = beat[s].wait
      BY Zenon, <3>1 DEF Timer
    <3>3. b \in Timer
      BY Zenon, <3>1 DEF Timer
    <3>4. QED
      BY Zenon, <3>1, <3>2, <3>3
  <2>2. beat' = [beat EXCEPT ![s] = b] /\ UNCHANGED <<up, due, stops>>
    BY Zenon, <1>2 DEF Heartbeat, HeartbeatFails
  <2> HIDE DEF b
  <2>3. QED
    BY Zenon, <2>1, <2>2, TimerStep
<1>3. CASE Dispose(s)
  <2> DEFINE b == [beat[s] EXCEPT !.on = FALSE]
  <2>1. b \in Timer /\ ~b.on
    BY Zenon DEF Timer
  <2>2. beat' = [beat EXCEPT ![s] = b] /\ UNCHANGED due
    BY Zenon, <1>3 DEF Dispose
  <2> HIDE DEF b
  <2>3. up' \in [Server -> {"up", "disposed", "down"}] /\ stops' \in 0..MaxStops
    BY <1>3, DeviceSetupAssumption DEF Dispose
  <2>4. QED
    BY Zenon, <2>1, <2>2, <2>3 DEF Timer
<1>4. CASE Exit(s) \/ Crash(s)
  <2>1. Silent \in Timer /\ ~Silent.on
    BY DeviceSetupAssumption DEF Silent, Timer
  <2>2. stops' \in 0..MaxStops
    BY <1>4, DeviceSetupAssumption DEF Exit, Crash
  <2>3. /\ beat' = [beat EXCEPT ![s] = Silent] /\ UNCHANGED due
        /\ up' = [up EXCEPT ![s] = "down"]
    BY Zenon, <1>4 DEF Exit, Crash, Forgets
  <2>4. QED
    BY Zenon, <2>1, <2>2, <2>3 DEF Timer
<1>5. CASE Start(s)
  BY Zenon, <1>5 DEF Start
<1>6. QED
  BY Zenon, <1>1, <1>2, <1>3, <1>4, <1>5

LEMMA PassServers == ASSUME Servers, Pass PROVE Servers'
<1> USE DEF Servers
<1>1. ASSUME NEW s \in Server
      PROVE  Ticked(s) \in Timer /\ (Ticked(s).on => Ticked(s).wait > 0)
  <2>1. /\ beat[s] \in Timer /\ beat[s].wait \in 0..Beat /\ beat[s].age \in 0..MaxDelay
        /\ beat[s].on => beat[s].wait > 0
    BY Zenon DEF Timer
  <2> DEFINE fires == beat[s].on /\ beat[s].wait = 1
             sends == fires /\ ~beat[s].sent /\ ~Fenced(Auth(s))
             w == IF ~beat[s].on THEN beat[s].wait
                  ELSE IF fires THEN Beat ELSE beat[s].wait - 1
             g == IF beat[s].sent THEN beat[s].age + 1 ELSE 0
  <2>2. w \in 0..Beat /\ (beat[s].on => w > 0)
    BY <2>1, DeviceSetupAssumption
  <2>3. g \in 0..MaxDelay
    BY <2>1, DeviceSetupAssumption DEF Pass
  <2>4. (beat[s].sent \/ sends) \in BOOLEAN
    BY Zenon
  <2>5. Ticked(s) = [beat[s] EXCEPT !.wait = w, !.sent = beat[s].sent \/ sends, !.age = g]
    BY Zenon DEF Ticked
  <2> HIDE DEF w, g, sends, fires
  <2>6. QED
    BY Zenon, <2>1, <2>2, <2>3, <2>4, <2>5 DEF Timer
<1>2. beat' = [s \in Server |-> Ticked(s)]
  BY Zenon DEF Pass
<1>3. beat' \in [Server -> Timer] /\ \A s \in Server : beat'[s].on => beat'[s].wait > 0
  BY Zenon, <1>1, <1>2
<1>4. due' \in [Server -> BOOLEAN] /\ UNCHANGED <<up, stops>>
  BY Zenon DEF Pass
<1>5. QED
  BY Zenon, <1>3, <1>4 DEF Timer


-----------------------------------------------------------------------------
(* Invariance *)

LEMMA InvInit == Init => Inv
<1> SUFFICES ASSUME Init PROVE Inv
  BY Zenon
<1> USE DEF Init
<1>1. RowSound
  BY DeviceSetupAssumption DEF RowSound, Row, Claimable
<1>2. row.outcomes = <<>> /\ row.outcomes \in Seq(Outcome)
  OBVIOUS
<1>3. Idle \in Local /\ LoopSound(Idle, row.outcomes)
  BY Zenon, <1>2, IdleSound
<1>4. Idle.pc = "idle" /\ ~Idle.lost
  BY Zenon DEF Idle
<1>5. task \in [Task -> Local] /\ \A b \in Task : task[b] = Idle
  BY Zenon, <1>3
<1>6. AccountSound /\ errors \in 0..MaxErrors
  BY DeviceSetupAssumption DEF AccountSound
<1>7. \A b \in Task : LoopSound(task[b], row.outcomes) /\ FailSound(b)
  BY Zenon, <1>3, <1>4, <1>5 DEF FailSound
<1>8. \A s \in Server : ~task[Tick(s)].lost /\ LeaseSound(s) /\ EarlySound(s)
  BY Zenon, <1>4, <1>5, Tasks DEF LeaseSound, EarlySound
<1>9. Core
  BY Zenon, <1>1, <1>5, <1>6, <1>7, <1>8 DEF Core
<1>10. Silent \in Timer /\ ~Silent.on
  BY DeviceSetupAssumption DEF Silent, Timer
<1>11. Servers
  BY <1>10, DeviceSetupAssumption DEF Servers, Timer
<1>12. QED
  BY Zenon, <1>9, <1>11 DEF Inv

LEMMA StutterCore == ASSUME Inv, UNCHANGED vars PROVE Inv'
<1>1. Core'
  BY Zenon DEF Inv, Core, vars, RowSound, AccountSound, FailSound, LeaseSound, EarlySound
<1>2. Servers'
  BY Zenon DEF Inv, Servers, vars
<1>3. QED
  BY Zenon, <1>1, <1>2 DEF Inv

LEMMA InvNext == Inv /\ [Next]_vars => Inv'
<1> SUFFICES ASSUME Inv, [Next]_vars PROVE Inv'
  BY Zenon
<1>1. Core /\ Servers
  BY Zenon DEF Inv
<1>2. ASSUME NEW s \in Server,
             Initialize(s) \/ Authorization(s) \/ CreateUnread(s) \/ Recovery(s)
      PROVE  Inv'
  <2>1. Core'
    BY SMTT(30), <1>1, <1>2, InitializeCore, CreateCore, CreateUnreadCore, InitiatedCore,
       PolledCore, RenewCore, LoadCore, InsertCore, VerifyCore, ListCore, TryClaimCore, ClaimedCore, ExistsCore
    DEF Authorization, Recovery
  <2>2. QED
    BY Zenon, <1>1, <1>2, <2>1, RequestServers DEF Inv
<1>3. ASSUME NEW s \in Server,
             \/ StartTick(s) \/ Heartbeat(s) \/ HeartbeatFails(s)
             \/ Dispose(s) \/ Exit(s) \/ Crash(s) \/ Start(s)
      PROVE  Inv'
  <2>1. Start(s) => Core'
    BY <1>1 DEF Start, Core, RowSound, AccountSound, FailSound, LeaseSound, EarlySound
  <2>2. Core'
    BY Zenon, <1>1, <1>3, <2>1, StartTickCore, HeartbeatCore, HeartbeatFailsCore, DisposeCore,
       ForgetsCore
    DEF Exit, Crash, Inv
  <2>3. QED
    BY SMTT(30), <1>1, <1>3, <2>2, LifeServers DEF Inv
<1>4. ASSUME NEW a \in Task, Work(a) \/ StatementFails(a) \/ RoutingStalls(a)
      PROVE  Inv'
  <2>1. Core'
    BY SMTT(30), <1>1, <1>4, MarkAuthorizationErrorCore, MarkAccountCommittedCore, OpenCore,
       BeginReconciliationCore, ReloadCore, RenewLeaseCore, RouteCore, CheckCore,
       AdvanceRoutingOutcomeCore, TallyCore, FinishCore, StatementFailsCore,
       RoutingStallsCore
    DEF Work
  <2>2. QED
    BY Zenon, <1>1, <1>4, <2>1, WorkServers DEF Inv
<1>5. CASE Pass
  BY Zenon, <1>1, <1>5, PassCore, PassServers DEF Inv
<1>6. CASE UNCHANGED vars
  BY Zenon, <1>6, StutterCore
<1>7. QED
  BY Zenon, <1>2, <1>3, <1>4, <1>5, <1>6 DEF Next

\* Inv is an invariant of every behaviour of the coordinator.
THEOREM Invariance == Spec => []Inv
  BY InvInit, InvNext, PTL DEF Spec

\* Whatever stops, crashes, overlaps or loses its lease: as long as no
\* statement fails, no job of device-setup-jobs.ts is settled as
\* authorization_error while its account exists, and all state keeps its type.
THEOREM CrashesOrphanNoAccount == Spec => []AccountNotOrphaned
<1>1. Inv => AccountNotOrphaned
  BY Zenon, InvTypes DEF Inv, Core, AccountSound, AccountNotOrphaned
<1>2. QED
  BY SMTT(30), <1>1, Invariance, PTL

-----------------------------------------------------------------------------
(* The row implements the job *)

JobStep == [Job!Next]_(Job!vars)

LEMMA JobStutters ==
    ASSUME row'.status = row.status, row'.outcomes = row.outcomes, account' = account
    PROVE  JobStep
  BY Zenon DEF JobStep, Job!vars

LEMMA RequestRefines ==
    ASSUME Core, NEW s \in Server,
           Initialize(s) \/ Authorization(s) \/ CreateUnread(s) \/ Recovery(s)
    PROVE  JobStep
<1>1. row \in Row
  BY Zenon DEF Core, RowSound
<1>2. CASE Initialize(s) \/ Initiated(s) \/ Polled(s) \/ Load(s) \/ Verify(s)
           \/ Claimed(s) \/ Exists(s)
  BY Zenon, <1>2, JobStutters DEF Initialize, Initiated, Polled, Load, Verify, Claimed, Exists, Look
<1>3. CASE Create(s) \/ CreateUnread(s)
  BY Zenon, <1>1, <1>3, JobStutters
  DEF Create, CreateUnread, Created, JobStep, Job!Next, Job!Create, Row
<1>4. CASE Renew(s)
  <2>1. row'.status = row.status /\ row'.outcomes = row.outcomes /\ account' = account
    BY Zenon, <1>1, <1>4 DEF Renew, Conditional, Renewed, Row
  <2>2. QED
    BY Zenon, <2>1, JobStutters
<1>5. CASE Insert(s)
  <2>1. row.status = "awaiting_authorization"
    BY Zenon, <1>5, InsertCore
  <2>2. row' = row /\ account' \in {account, TRUE}
    BY Zenon, <1>5 DEF Insert
  <2>3. QED
    BY Zenon, <2>1, <2>2, JobStutters DEF JobStep, Job!Next, Job!Insert
<1>6. CASE List(s)
  <2>1. account' = account
    BY Zenon, <1>6 DEF List, Look
  <2>2. CASE row' = row
    BY Zenon, <2>1, <2>2, JobStutters
  <2>3. CASE row.status \in Terminal /\ row' = [row EXCEPT !.status = "deleted"]
    BY Zenon, <1>1, <2>1, <2>3 DEF JobStep, Job!Next, Job!Delete, Job!Terminal, Terminal, Row
  <2>4. QED
    BY Zenon, <1>6, <2>2, <2>3 DEF List, Look
<1>7. CASE TryClaim(s)
  <2>1. row'.status = row.status /\ row'.outcomes = row.outcomes /\ account' = account
    BY Zenon, <1>1, <1>7 DEF TryClaim, Conditional, Row
  <2>2. QED
    BY Zenon, <2>1, JobStutters
<1>8. QED
  BY Zenon, <1>2, <1>3, <1>4, <1>5, <1>6, <1>7 DEF Authorization, Recovery

LEMMA LifeRefines ==
    ASSUME Core, NEW s \in Server,
           \/ StartTick(s) \/ Heartbeat(s) \/ HeartbeatFails(s)
           \/ Dispose(s) \/ Exit(s) \/ Crash(s) \/ Start(s)
    PROVE  JobStep
<1>1. row \in Row
  BY Zenon DEF Core, RowSound
<1>2. CASE Heartbeat(s)
  <2>1. row'.status = row.status /\ row'.outcomes = row.outcomes /\ account' = account
    BY Zenon, <1>1, <1>2 DEF Heartbeat, Renewed, Row
  <2>2. QED
    BY Zenon, <2>1, JobStutters
<1>3. CASE ~Heartbeat(s)
  <2>1. row' = row /\ account' = account
    BY Zenon, <1>3 DEF StartTick, HeartbeatFails, Dispose, Exit, Crash, Start, Forgets
  <2>2. QED
    BY Zenon, <2>1, JobStutters
<1>4. QED
  BY Zenon, <1>2, <1>3

LEMMA WorkRefines ==
    ASSUME Core, NEW a \in Task, Work(a) \/ StatementFails(a) \/ RoutingStalls(a)
    PROVE  JobStep
<1>1. row \in Row
  BY Zenon DEF Core, RowSound
<1>2. account' = account
  BY Zenon DEF Work, StatementFails, RoutingStalls, MarkAuthorizationError,
     MarkAccountCommitted, Open, BeginReconciliation, Reload, RenewLease, Route,
     Check, AdvanceRoutingOutcome, Tally, Finish, Conditional
<1>3. CASE row' = row
  BY Zenon, <1>2, <1>3, JobStutters
<1>4. CASE MarkAuthorizationError(a) /\ row' # row
  BY Zenon, <1>1, <1>2, <1>4 DEF MarkAuthorizationError, Settled, JobStep, Job!Next, Job!Reject, Row
<1>5. CASE MarkAccountCommitted(a) /\ row' # row
  BY Zenon, <1>1, <1>2, <1>5 DEF MarkAccountCommitted, Conditional, JobStep, Job!Next, Job!Commit, Row
<1>6. CASE BeginReconciliation(a) /\ row' # row
  BY Zenon, <1>1, <1>2, <1>6 DEF BeginReconciliation, Conditional, JobStep, Job!Next, Job!Reconcile, Row
<1>7. CASE RenewLease(a) /\ row' # row
  <2>1. row'.status = row.status /\ row'.outcomes = row.outcomes
    BY Zenon, <1>1, <1>7 DEF RenewLease, Conditional, Renewed, Row
  <2>2. QED
    BY Zenon, <1>2, <2>1, JobStutters
<1>8. CASE AdvanceRoutingOutcome(a) /\ row' # row
  <2>1. /\ task[a].pc = "advance" /\ row.status = "reconciling"
        /\ Len(row.outcomes) + 1 = Len(task[a].seen)
        /\ row' = [row EXCEPT !.outcomes = task[a].seen]
    BY Zenon, <1>8 DEF AdvanceRoutingOutcome, Conditional, At
  <2> DEFINE o == task[a].seen[Len(task[a].seen)]
  <2>2. /\ o \in Outcome /\ task[a].seen = Append(row.outcomes, o)
        /\ Len(row.outcomes) < Selections
    BY Zenon, <2>1, AdvanceExtends
  <2>3. row'.status = row.status /\ row'.outcomes = task[a].seen
    BY Zenon, <1>1, <2>1 DEF Row
  <2> HIDE DEF o
  <2>4. Job!Decide
    BY Zenon, <1>2, <2>1, <2>2, <2>3 DEF Job!Decide, Job!Outcome, Outcome
  <2>5. QED
    BY Zenon, <2>4 DEF JobStep, Job!Next
<1>9. CASE Finish(a) /\ row' # row
  <2>1. task[a].pc = "finish" /\ StillMine(a) /\ row.status = "reconciling"
    BY Zenon, <1>9 DEF Finish, At, StillMine
  <2>2. task[a].seen = row.outcomes /\ Len(row.outcomes) = Selections
    BY Zenon, <2>1, FinishKnows
  <2>3. row' = Settled(Job!Verdict(row.outcomes))
    BY Zenon, <1>9, <2>1, <2>2 DEF Finish, Job!Verdict
  <2>4. row'.status = Job!Verdict(row.outcomes) /\ row'.outcomes = row.outcomes
    BY Zenon, <1>1, <2>3 DEF Settled, Row
  <2>5. Job!Settle
    BY Zenon, <1>2, <2>1, <2>2, <2>4 DEF Job!Settle
  <2>6. QED
    BY Zenon, <2>5 DEF JobStep, Job!Next
<1>10. QED
  BY Zenon, <1>3, <1>4, <1>5, <1>6, <1>7, <1>8, <1>9 DEF Work, Open, Reload, Route, Check,
     Tally, StatementFails, RoutingStalls

LEMMA StepRefines == Inv /\ [Next]_vars => [Job!Next]_(Job!vars)
<1> SUFFICES ASSUME Inv, [Next]_vars PROVE JobStep
  BY Zenon DEF JobStep
<1>1. Core
  BY Zenon DEF Inv
<1>2. CASE Pass
  <2>1. row'.status = row.status /\ row'.outcomes = row.outcomes /\ account' = account
    BY Zenon, <1>1, <1>2 DEF Pass, Core, RowSound, Row
  <2>2. QED
    BY Zenon, <2>1, JobStutters
<1>3. CASE UNCHANGED vars
  BY Zenon, <1>3, JobStutters DEF vars
<1>4. QED
  BY Zenon, <1>1, <1>2, <1>3, RequestRefines, LifeRefines, WorkRefines DEF Next

\* The row of device_setup_jobs moves as DeviceSetupJob allows, for any number
\* of servers, stops and failures: every selection is decided once and in
\* order (the conditions of advanceRoutingOutcome), the verdict is that of the
\* stored outcomes (finish), and no account is inserted for a job that was
\* given up (the lease renewed before commitAuthorizedAccount).
THEOREM JobImplemented == Spec => ImplementsJob
<1>1. Init => Job!Init
  BY DEF Init, Job!Init
<1>2. QED
  BY <1>1, Invariance, StepRefines, PTL DEF Spec, ImplementsJob, Job!Spec

-----------------------------------------------------------------------------
(***************************************************************************)
(* The heartbeat keeps the lease of an authorization that is under way,    *)
(* whenever the lease is longer than a beat and two writes                 *)
(* (DeviceSetupAssumption).                                                *)
(***************************************************************************)

\* Until an authorization is done, its lease outlasts the next renewal: the
\* one under way, or the one the timer sends after wait instants.
Timely(s) ==
    LET a == Auth(s)
    IN /\ row.status = "absent" /\ up[s] = "up" =>
              ~beat[s].on /\ ~beat[s].sent /\ ~task[a].lost
       /\ up[s] = "down" => ~beat[s].on /\ ~beat[s].sent /\ task[a] = Idle
       /\ task[a].pc = "create" => row.token # a
       /\ (row.token = a /\ task[a].pc # "idle" /\ up[s] = "up" /\ errors = 0) =>
              /\ ~task[a].lost /\ beat[s].on
              /\ beat[s].sent => row.left >= 1 + MaxDelay - beat[s].age
              /\ ~beat[s].sent => row.left >= 1 + MaxDelay + beat[s].wait

LeaseInv == Inv /\ \A s \in Server : Timely(s)

\* The lease of an authorization is kept or extended, or given up.
RowKeeps ==
    /\ row'.status = "absent" => row.status = "absent"
    /\ \A s \in Server : row'.token = Auth(s) =>
                            row.token = Auth(s) /\ row'.left >= row.left

\* Task a returns, or goes on from one await to another.
TaskKeeps(a) ==
    \/ End(a)
    \/ /\ UNCHANGED beat
       /\ \E t \in Local : /\ task' = [task EXCEPT ![a] = t]
                           /\ a[2] = "auth" => /\ t.lost = task[a].lost
                                               /\ t.pc \notin {"idle", "create"}
                                               /\ task[a].pc # "idle"

LEMMA TimelyStep ==
    ASSUME LeaseInv, NEW a \in Task, RowKeeps, TaskKeeps(a), UNCHANGED up,
           RowSound', errors' \in errors..MaxErrors, NEW s \in Server
    PROVE  Timely(s)'
<1>1. /\ Timely(s) /\ Core /\ Servers /\ row.left \in Int /\ row'.left \in Int
      /\ Auth(s) \in Task /\ errors \in Nat
  BY Tasks, CoreTask, DeviceSetupAssumption DEF LeaseInv, Inv, RowSound, Row
<1>2. /\ beat[s] \in Timer /\ beat[s].wait \in Nat /\ beat[s].age \in Nat
  BY <1>1 DEF Servers, Timer
<1>3. Idle.pc = "idle" /\ ~Idle.lost
  BY Zenon DEF Idle
<1>4. errors' = 0 => errors = 0
  BY <1>1, DeviceSetupAssumption DEF Core
<1>5. CASE Auth(s) # a
  <2>1. task'[Auth(s)] = task[Auth(s)]
    <3>1. PICK t : task' = [task EXCEPT ![a] = t]
      BY Zenon DEF TaskKeeps, End
    <3>2. QED
      BY Zenon, <1>1, <1>5, <3>1 DEF Core
  <2>2. beat'[s] = beat[s]
    <3>1. CASE UNCHANGED beat
      BY Zenon, <3>1
    <3>2. CASE End(a) /\ a[2] = "auth"
      BY <3>2, <1>1, <1>5, Tasks DEF End, Servers
    <3>3. CASE End(a) /\ a[2] # "auth"
      BY Zenon, <3>3 DEF End
    <3>4. QED
      BY Zenon, <3>1, <3>2, <3>3 DEF TaskKeeps
  <2>3. QED
    BY <1>1, <1>2, <1>4, <2>1, <2>2, DeviceSetupAssumption DEF RowKeeps, Timely
<1>6. CASE Auth(s) = a /\ End(a)
  <2>1. task'[Auth(s)] = Idle /\ ~beat'[s].on /\ beat'[s].sent = beat[s].sent
    BY <1>1, <1>2, <1>6, Tasks DEF End, Servers, Timer, Core
  <2>2. QED
    BY Zenon, <1>1, <1>3, <2>1 DEF RowKeeps, Timely
<1>7. CASE Auth(s) = a /\ ~End(a)
  <2>1. PICK t \in Local : /\ task' = [task EXCEPT ![a] = t]
                           /\ t.lost = task[a].lost /\ task[a].pc # "idle"
                           /\ t.pc \notin {"idle", "create"} /\ UNCHANGED beat
    BY Zenon, <1>7, Tasks DEF TaskKeeps
  <2>2. task'[Auth(s)] = t
    BY Zenon, <1>1, <1>7, <2>1 DEF Core
  <2>3. up[s] # "down"
    BY Zenon, <1>1, <1>3, <1>7, <2>1 DEF Timely
  <2>4. QED
    BY <1>1, <1>2, <1>4, <1>7, <2>1, <2>2, <2>3, DeviceSetupAssumption DEF RowKeeps, Timely
<1>8. QED
  BY Zenon, <1>5, <1>6, <1>7

LEMMA ContinueKeeps ==
    ASSUME Core, NEW a \in Task, task[a].pc # "idle", NEW pc \in Places \ {"idle", "create"},
           Continue(a, pc)
    PROVE  TaskKeeps(a)
<1>1. Await(task[a], pc) \in Local /\ Await(task[a], pc).pc = pc
      /\ Await(task[a], pc).lost = task[a].lost
  BY Zenon, CoreTask, AwaitSound
<1>2. QED
  BY Zenon, <1>1 DEF TaskKeeps, Continue

LEMMA SameRowKeeps == ASSUME Core, row' = row PROVE RowKeeps
  BY DEF RowKeeps, Core, RowSound, Row


LEMMA WorkKeeps ==
    ASSUME Core, NEW a \in Task, Work(a) \/ StatementFails(a) \/ RoutingStalls(a)
    PROVE  RowKeeps /\ TaskKeeps(a) /\ UNCHANGED up /\ errors' \in errors..MaxErrors
<1>1. UNCHANGED up
  BY Zenon DEF Work, StatementFails, RoutingStalls, MarkAuthorizationError,
     MarkAccountCommitted, Open, BeginReconciliation, Reload, RenewLease, Route,
     Check, AdvanceRoutingOutcome, Tally, Finish, Conditional
<1>2. errors' \in errors..MaxErrors
  <2>1. errors' = errors \/ (errors < MaxErrors /\ errors' = errors + 1)
    BY Zenon DEF Work, StatementFails, RoutingStalls, MarkAuthorizationError,
       MarkAccountCommitted, Open, BeginReconciliation, Reload, RenewLease, Route,
       Check, AdvanceRoutingOutcome, Tally, Finish, Conditional
  <2>2. QED
    BY <2>1, DeviceSetupAssumption DEF Core
<1>3. task[a] \in Local /\ row \in Row /\ task[a].age \in 0..MaxDelay
      /\ row.left \in (-MaxDelay)..Lease /\ row.outcomes \in Seq(Outcome)
  BY Zenon, CoreTask, Ages DEF Core, RowSound, Row
<1>4. TaskKeeps(a)
  <2>1. CASE End(a)
    BY Zenon, <2>1 DEF TaskKeeps
  <2>2. ASSUME NEW pc \in {"open", "reread", "begin", "reload", "route", "recheck",
                           "fail", "slow"},
               task[a].pc # "idle", Continue(a, pc)
        PROVE  TaskKeeps(a)
    <3>1. pc \in Places \ {"idle", "create"}
      BY Zenon, <2>2, PlaceNames DEF Looping
    <3>2. QED
      BY Zenon, <2>2, <3>1, ContinueKeeps
  <2>3. ASSUME task[a].pc # "idle", Onward(a) PROVE TaskKeeps(a)
    <3> DEFINE pc == IF Len(row.outcomes) < Selections THEN "hold" ELSE "tally"
               t == [Await(task[a], pc) EXCEPT !.seen = row.outcomes]
    <3>1. pc \in Places /\ pc \notin {"idle", "create"}
      BY Zenon, PlaceNames DEF Looping
    <3>2. Await(task[a], pc) \in Local /\ Await(task[a], pc).pc = pc
          /\ Await(task[a], pc).lost = task[a].lost
      BY Zenon, <1>3, <3>1, AwaitSound
    <3>3. t \in Local /\ t.pc = pc /\ t.lost = task[a].lost
      BY Zenon, <1>3, <3>2 DEF Local
    <3>4. task' = [task EXCEPT ![a] = t] /\ UNCHANGED beat
      BY Zenon, <2>3 DEF Onward
    <3> HIDE DEF t, pc
    <3>5. QED
      BY Zenon, <2>3, <3>1, <3>3, <3>4 DEF TaskKeeps
  <2>4. CASE Route(a)
    <3>1. PICK o \in Outcome :
            task' = [task EXCEPT ![a] = [Await(task[a], "check") EXCEPT !.say = o]]
      BY Zenon, <2>4 DEF Route
    <3> DEFINE t == [Await(task[a], "check") EXCEPT !.say = o]
    <3>2. "check" \in Places
      BY Zenon, PlaceNames DEF Looping
    <3>3. Await(task[a], "check") \in Local /\ Await(task[a], "check").pc = "check"
          /\ Await(task[a], "check").lost = task[a].lost
      BY Zenon, <1>3, <3>2, AwaitSound
    <3>4. t \in Local /\ t.pc = "check" /\ t.lost = task[a].lost
      BY Zenon, <3>3 DEF Local
    <3> HIDE DEF t
    <3>5. task' = [task EXCEPT ![a] = t] /\ UNCHANGED beat /\ task[a].pc # "idle"
      BY Zenon, <2>4, <3>1 DEF Route, t
    <3>6. QED
      BY Zenon, <3>4, <3>5 DEF TaskKeeps
  <2>5. CASE Check(a) /\ StillMine(a)
    <3> DEFINE t == [task[a] EXCEPT !.pc = "advance", !.say = "joined",
                                    !.seen = Append(row.outcomes, task[a].say)]
    <3>1. task' = [task EXCEPT ![a] = t] /\ UNCHANGED beat /\ task[a].pc # "idle"
      BY Zenon, <2>5 DEF Check, Idle, At
    <3>2. Append(row.outcomes, task[a].say) \in Seq(Outcome)
      BY <1>3 DEF Local
    <3>3. t \in Local /\ t.pc = "advance" /\ t.lost = task[a].lost
      BY Zenon, <1>3, <3>2 DEF Local, Outcome, Timed, Writes
    <3> HIDE DEF t
    <3>4. QED
      BY Zenon, <3>1, <3>3 DEF TaskKeeps
  <2>6. CASE Tally(a) /\ StillMine(a)
    <3> DEFINE t == [task[a] EXCEPT !.pc = "finish"]
    <3>1. task' = [task EXCEPT ![a] = t] /\ UNCHANGED beat /\ task[a].pc # "idle"
      BY Zenon, <2>6 DEF Tally, At
    <3>2. t \in Local /\ t.pc = "finish" /\ t.lost = task[a].lost
      BY Zenon, <1>3 DEF Local, Timed, Writes
    <3> HIDE DEF t
    <3>3. QED
      BY Zenon, <3>1, <3>2 DEF TaskKeeps
  <2>7. CASE MarkAuthorizationError(a) \/ Finish(a) \/ Open(a) \/ Reload(a)
    BY Zenon, <2>1, <2>2, <2>3, <2>7 DEF MarkAuthorizationError, Finish, Open, Reload, At
  <2>8. CASE \/ MarkAccountCommitted(a) \/ BeginReconciliation(a) \/ RenewLease(a)
             \/ AdvanceRoutingOutcome(a)
    BY Zenon, <2>1, <2>2, <2>8 DEF MarkAccountCommitted, BeginReconciliation, RenewLease,
       AdvanceRoutingOutcome, Conditional, At
  <2>9. CASE StatementFails(a) \/ RoutingStalls(a)
    <3>1. task[a].pc # "idle"
      BY Zenon, <2>9 DEF StatementFails, RoutingStalls, Statements, Reads, Writes, At
    <3>2. QED
      BY Zenon, <2>1, <2>2, <2>9, <3>1 DEF StatementFails, RoutingStalls
  <2>10. QED
    BY Zenon, <2>1, <2>4, <2>5, <2>6, <2>7, <2>8, <2>9 DEF Work, Check, Tally
<1>5. RowKeeps
  <2>1. CASE row' = row
    BY Zenon, <2>1, SameRowKeeps
  <2>2. CASE RenewLease(a) /\ row' # row
    <3>1. row' = Renewed(task[a].age)
      BY Zenon, <2>2 DEF RenewLease, Conditional
    <3>2. row'.status = row.status /\ row'.token = row.token /\ row'.left >= row.left
      BY Zenon, <1>3, <3>1, RenewedSound
    <3>3. QED
      BY Zenon, <3>2 DEF RowKeeps
  <2>3. CASE \E st : row' = [row EXCEPT !.status = st] /\ st # "absent"
    BY <1>3, <2>3 DEF RowKeeps, Row
  <2>4. CASE row' = [row EXCEPT !.outcomes = task[a].seen]
    BY <1>3, <2>4 DEF RowKeeps, Row
  <2>5. CASE \E st : row' = Settled(st) /\ st # "absent"
    <3>1. row'.token = None /\ row'.status # "absent"
      BY Zenon, <1>3, <2>5 DEF Settled, Row
    <3>2. QED
      BY Zenon, <3>1, Tasks DEF RowKeeps
  <2>6. CASE MarkAuthorizationError(a)
    BY <2>1, <2>5, <2>6 DEF MarkAuthorizationError
  <2>7. CASE MarkAccountCommitted(a) \/ BeginReconciliation(a)
    BY Zenon, <2>1, <2>3, <2>7 DEF MarkAccountCommitted, BeginReconciliation, Conditional
  <2>8. CASE AdvanceRoutingOutcome(a)
    BY Zenon, <2>1, <2>4, <2>8 DEF AdvanceRoutingOutcome, Conditional
  <2>9. CASE Finish(a)
    BY <2>1, <2>5, <2>9 DEF Finish
  <2>10. CASE \/ StatementFails(a) \/ RoutingStalls(a) \/ Open(a) \/ Reload(a)
              \/ Route(a) \/ Check(a) \/ Tally(a)
    BY Zenon, <2>1, <2>10 DEF StatementFails, RoutingStalls, Open, Reload, Route, Check, Tally
  <2>11. QED
    BY Zenon, <2>1, <2>2, <2>6, <2>7, <2>8, <2>9, <2>10 DEF Work
<1>6. QED
  BY Zenon, <1>1, <1>2, <1>4, <1>5


LEMMA TickMoves ==
    ASSUME Core, NEW s \in Server, NEW pc \in Places, Continue(Tick(s), pc)
    PROVE  TaskKeeps(Tick(s))
<1>1. Tick(s) \in Task /\ Tick(s)[2] # "auth"
  BY Zenon, Tasks
<1>2. Await(task[Tick(s)], pc) \in Local
  BY Zenon, <1>1, CoreTask, AwaitSound
<1>3. QED
  BY Zenon, <1>1, <1>2 DEF TaskKeeps, Continue

LEMMA AuthMoves ==
    ASSUME Core, NEW s \in Server, task[Auth(s)].pc # "idle",
           NEW pc \in {"fail", "poll", "renew", "load", "commit", "verify", "recheck", "mark"},
           Continue(Auth(s), pc)
    PROVE  TaskKeeps(Auth(s))
<1>1. Auth(s) \in Task /\ pc \in Places \ {"idle", "create"}
  BY Tasks, PlaceNames DEF Early
<1>2. QED
  BY Zenon, <1>1, ContinueKeeps

LEMMA RequestKeeps ==
    ASSUME Core, NEW s \in Server,
           Recovery(s) \/ StartTick(s) \/ (Authorization(s) /\ ~Create(s))
    PROVE  /\ RowKeeps /\ UNCHANGED up /\ errors' \in errors..MaxErrors
           /\ TaskKeeps(Auth(s)) \/ TaskKeeps(Tick(s))
<1>1. Auth(s) \in Task /\ Tick(s) \in Task /\ row \in Row /\ errors \in 0..MaxErrors
      /\ task[Auth(s)].age \in 0..MaxDelay
  BY Zenon, Tasks, Ages DEF Core, RowSound
<1>2. UNCHANGED up
  BY Zenon DEF Authorization, Recovery, Initiated, Polled, Renew, Load, Insert, Verify, List,
     TryClaim, Claimed, Exists, Look, Conditional, StartTick
<1>3. errors' \in errors..MaxErrors
  <2>1. errors' = errors \/ (errors < MaxErrors /\ errors' = errors + 1)
    BY Zenon DEF Authorization, Recovery, Initiated, Polled, Renew, Load, Insert, Verify, List,
       TryClaim, Claimed, Exists, Look, Conditional, StartTick
  <2>2. QED
    BY <1>1, <2>1, DeviceSetupAssumption
<1>4. CASE Recovery(s) \/ StartTick(s)
  <2>1. \/ End(Tick(s))
        \/ \E pc \in {"list", "claim", "claimed", "exists", "open", "mark", "fail"} :
              Continue(Tick(s), pc)
    BY Zenon, <1>4 DEF Recovery, List, TryClaim, Claimed, Exists, Look, Conditional, StartTick
  <2>2. TaskKeeps(Tick(s))
    <3>1. CASE End(Tick(s))
      BY Zenon, <3>1 DEF TaskKeeps
    <3>2. QED
      BY Zenon, <2>1, <3>1, TickMoves, PlaceNames
  <2>3. ASSUME row' = row PROVE RowKeeps
    BY Zenon, <2>3, SameRowKeeps
  <2>4. ASSUME row' = [row EXCEPT !.status = "deleted"] PROVE RowKeeps
    BY <1>1, <2>4, DeviceSetupAssumption DEF RowKeeps, Row
  <2>5. ASSUME row.status \in Claimable,
               row' = [row EXCEPT !.token = Tick(s), !.left = Lease - task[Tick(s)].age]
        PROVE  RowKeeps
    <3>1. row'.token = Tick(s) /\ row'.status # "absent"
      BY Zenon, <1>1, <2>5 DEF Row, Claimable
    <3>2. QED
      BY Zenon, <3>1, Tasks DEF RowKeeps
  <2>6. RowKeeps
    BY Zenon, <1>4, <2>3, <2>4, <2>5 DEF Recovery, List, TryClaim, Claimed, Exists, Look,
       Conditional, StartTick
  <2>7. QED
    BY Zenon, <1>2, <1>3, <2>2, <2>6
<1>5. CASE Authorization(s) /\ ~Create(s)
  <2>1. task[Auth(s)].pc # "idle"
    BY Zenon, <1>5 DEF Authorization, Initiated, Polled, Renew, Load, Insert, Verify, At
  <2>2. \/ End(Auth(s))
        \/ \E pc \in {"fail", "poll", "renew", "load", "commit", "verify", "recheck", "mark"} :
              Continue(Auth(s), pc)
    BY Zenon, <1>5 DEF Authorization, Initiated, Polled, Renew, Load, Insert, Verify, Look,
       Conditional
  <2>3. TaskKeeps(Auth(s))
    <3>1. CASE End(Auth(s))
      BY Zenon, <3>1 DEF TaskKeeps
    <3>2. QED
      BY Zenon, <2>1, <2>2, <3>1, AuthMoves
  <2>4. ASSUME row' = row PROVE RowKeeps
    BY Zenon, <2>4, SameRowKeeps
  <2>5. ASSUME row' = Renewed(task[Auth(s)].age) PROVE RowKeeps
    <3>1. row'.status = row.status /\ row'.token = row.token /\ row'.left >= row.left
      BY Zenon, <1>1, <2>5, RenewedSound
    <3>2. QED
      BY Zenon, <3>1 DEF RowKeeps
  <2>6. RowKeeps
    BY Zenon, <1>5, <2>4, <2>5 DEF Authorization, Initiated, Polled, Renew, Load, Insert,
       Verify, Look, Conditional
  <2>7. QED
    BY Zenon, <1>2, <1>3, <2>3, <2>6
<1>6. QED
  BY Zenon, <1>4, <1>5

LEMMA InitializeTimely ==
    ASSUME LeaseInv, NEW s \in Server, Initialize(s), NEW r \in Server
    PROVE  Timely(r)'
<1>1. Timely(r) /\ Core /\ Auth(s) \in Task /\ Auth(r) \in Task
  BY Zenon, Tasks DEF LeaseInv, Inv
<1>2. /\ UNCHANGED <<row, up, beat, errors>> /\ row.status = "absent" /\ up[s] = "up"
      /\ task' = [task EXCEPT ![Auth(s)] = Await(task[Auth(s)], "create")]
  BY Zenon DEF Initialize, Continue
<1>3. row.token = None /\ \A b \in Task : b # None
  BY Zenon, <1>1, <1>2, Tasks DEF Core, RowSound, Claimable
<1>4. "create" \in Places /\ task[Auth(s)] \in Local
  BY Zenon, <1>1, PlaceNames, CoreTask
<1>5. Await(task[Auth(s)], "create").lost = task[Auth(s)].lost
  BY Zenon, <1>4, AwaitSound
<1>6. CASE r = s
  BY Zenon, <1>1, <1>2, <1>3, <1>5, <1>6 DEF Timely, Core
<1>7. CASE r # s
  <2>1. task'[Auth(r)] = task[Auth(r)]
    BY <1>1, <1>2, <1>7, Tasks DEF Core
  <2>2. QED
    BY Zenon, <1>1, <1>2, <2>1 DEF Timely
<1>8. QED
  BY Zenon, <1>6, <1>7


LEMMA CreateTimely ==
    ASSUME LeaseInv, NEW s \in Server, Create(s), NEW r \in Server
    PROVE  Timely(r)'
<1>1. /\ Timely(r) /\ Core /\ Servers /\ Auth(s) \in Task /\ Auth(r) \in Task
      /\ row \in Row
  BY Zenon, Tasks DEF LeaseInv, Inv, Core, RowSound
<1>2. UNCHANGED <<up, errors>> /\ task[Auth(s)].pc = "create"
  BY Zenon DEF Create, At
<1>3. CASE UNCHANGED row /\ End(Auth(s))
  BY Zenon, <1>1, <1>2, <1>3, TimelyStep, SameRowKeeps, CoreTask DEF TaskKeeps, Core, RowSound
<1>4. CASE /\ row.status = "absent" /\ row' = Created(Auth(s))
           /\ task' = [task EXCEPT ![Auth(s)] = Await(task[Auth(s)], "initiate")]
           /\ beat' = [beat EXCEPT ![s] = [Silent EXCEPT !.on = TRUE, !.wait = Beat]]
  <2>1. /\ row'.status = "awaiting_authorization" /\ row'.token = Auth(s)
        /\ row'.left = Lease - task[Auth(s)].age
    BY Zenon, <1>1, <1>4 DEF Row, Created
  <2>2. CASE r # s
    <3>1. task'[Auth(r)] = task[Auth(r)] /\ beat'[r] = beat[r] /\ Auth(r) # Auth(s)
      BY <1>1, <1>4, <2>2, Tasks DEF Core, Servers
    <3>2. QED
      BY Zenon, <1>1, <1>2, <2>1, <3>1 DEF Timely
  <2>3. CASE r = s
    <3>1. "initiate" \in Places /\ task[Auth(s)] \in Local /\ task[Auth(s)].age \in 0..MaxDelay
      BY Zenon, <1>1, PlaceNames, CoreTask, Ages DEF Early
    <3>2. task'[Auth(s)].lost = task[Auth(s)].lost /\ task'[Auth(s)].pc = "initiate"
      BY Zenon, <1>1, <1>4, <3>1, AwaitSound DEF Core
    <3>3. beat'[s].on /\ ~beat'[s].sent /\ beat'[s].wait = Beat
      BY Zenon, <1>1, <1>4 DEF Servers, Silent
    <3>4. row'.left >= 1 + MaxDelay + Beat
      BY <2>1, <3>1, DeviceSetupAssumption
    <3>5. up[s] # "down"
      BY <1>1, <1>2, <2>3 DEF Timely, Idle
    <3>6. up[s] = "up" => ~task[Auth(s)].lost
      BY Zenon, <1>1, <1>4, <2>3 DEF Timely
    <3>7. QED
      BY SMTT(30), <1>2, <2>1, <2>3, <3>2, <3>3, <3>4, <3>5, <3>6 DEF Timely
  <2>4. QED
    BY Zenon, <2>2, <2>3
<1>5. QED
  BY Zenon, <1>3, <1>4 DEF Create

LEMMA CreateUnreadTimely ==
    ASSUME LeaseInv, NEW s \in Server, CreateUnread(s), NEW r \in Server
    PROVE  Timely(r)'
<1>1. /\ Timely(r) /\ Core /\ Servers /\ Auth(s) \in Task /\ Auth(r) \in Task
      /\ row \in Row
  BY Zenon, Tasks DEF LeaseInv, Inv, Core, RowSound
<1>2. UNCHANGED up /\ End(Auth(s)) /\ row' = Created(Auth(s)) /\ task[Auth(s)].pc = "create"
  BY Zenon DEF CreateUnread, At
<1>3. row'.status = "awaiting_authorization" /\ row'.token = Auth(s)
  BY Zenon, <1>1, <1>2 DEF Row, Created
<1>4. CASE r # s
  <2>1. task'[Auth(r)] = task[Auth(r)] /\ beat'[r] = beat[r] /\ Auth(r) # Auth(s)
    BY <1>1, <1>2, <1>4, Tasks DEF End, Core, Servers
  <2>2. QED
    BY Zenon, <1>1, <1>2, <1>3, <2>1 DEF Timely
<1>5. CASE r = s
  <2>1. task'[Auth(s)] = Idle /\ Idle.pc = "idle"
    BY Zenon, <1>1, <1>2 DEF End, Core, Idle
  <2>2. up[s] # "down"
    BY <1>1, <1>2, <1>5 DEF Timely, Idle
  <2>3. QED
    BY Zenon, <1>2, <1>3, <1>5, <2>1, <2>2 DEF Timely
<1>6. QED
  BY Zenon, <1>4, <1>5

LEMMA HeartbeatTimely ==
    ASSUME LeaseInv, NEW s \in Server, Heartbeat(s), NEW r \in Server
    PROVE  Timely(r)'
<1>1. /\ Timely(r) /\ Timely(s) /\ Core /\ Servers /\ Auth(s) \in Task
      /\ Auth(r) \in Task /\ row \in Row /\ row.left \in (-MaxDelay)..Lease
  BY Zenon, Tasks DEF LeaseInv, Inv, Core, RowSound, Row
<1>2. /\ UNCHANGED <<up, errors>> /\ beat[s].sent
      /\ beat' = [beat EXCEPT ![s].sent = FALSE, ![s].age = 0]
  BY Zenon DEF Heartbeat
<1>3. /\ beat[s] \in Timer /\ beat[s].age \in 0..MaxDelay /\ beat[s].wait \in 0..Beat
  BY Zenon, <1>1 DEF Servers, Timer
<1>4. /\ beat'[s].on = beat[s].on /\ ~beat'[s].sent /\ beat'[s].wait = beat[s].wait
      /\ r # s => beat'[r] = beat[r]
  BY Zenon, <1>1, <1>2, <1>3 DEF Servers, Timer
<1>5. CASE /\ UNCHANGED task /\ row' = Renewed(beat[s].age)
           /\ row.status \in Claimable /\ row.token = Auth(s)
  <2>1. /\ row'.status = row.status /\ row'.token = Auth(s)
        /\ row'.left = Greater(row.left, Lease - beat[s].age)
    BY Zenon, <1>1, <1>5 DEF Renewed, Row
  <2>2. row'.left >= 1 + MaxDelay + beat[s].wait
    BY <1>1, <1>3, <2>1, DeviceSetupAssumption DEF Greater
  <2>3. CASE r = s
    BY Zenon, <1>1, <1>2, <1>4, <1>5, <2>1, <2>2, <2>3 DEF Timely
  <2>4. CASE r # s
    BY <1>1, <1>2, <1>4, <1>5, <2>1, <2>4, Tasks DEF Timely
  <2>5. QED
    BY Zenon, <2>3, <2>4
<1>6. CASE /\ UNCHANGED row /\ Lose(s)
           /\ ~(row.status \in Claimable /\ row.token = Auth(s)
                /\ row.left + beat[s].age > 0)
  <2>1. /\ task'[Auth(s)].pc = task[Auth(s)].pc
        /\ task'[Auth(s)].lost = (task[Auth(s)].pc # "idle")
        /\ r # s => task'[Auth(r)] = task[Auth(r)]
    BY <1>1, <1>6, Tasks, CoreTask DEF Lose, Core, Local
  <2>2. CASE r # s
    BY Zenon, <1>1, <1>2, <1>4, <1>6, <2>1, <2>2 DEF Timely
  <2>3. CASE r = s
    <3>1. up[s] # "down" /\ ~(row.status = "absent" /\ up[s] = "up")
      BY Zenon, <1>1, <1>2 DEF Timely
    <3>2. ~(row.token = Auth(s) /\ task[Auth(s)].pc # "idle" /\ up[s] = "up" /\ errors = 0)
      <4>1. SUFFICES ASSUME row.token = Auth(s), task[Auth(s)].pc # "idle",
                            up[s] = "up", errors = 0
                     PROVE  FALSE
        BY Zenon
      <4>2. row.left >= 1 + MaxDelay - beat[s].age
        BY Zenon, <1>1, <1>2, <4>1 DEF Timely
      <4>3. row.status \in Claimable
        BY SMTT(30), <1>1, <4>1, Tasks DEF Core, RowSound
      <4>4. QED
        BY SMTT(30), <1>1, <1>3, <1>6, <4>1, <4>2, <4>3, DeviceSetupAssumption
    <3>3. task[Auth(s)].pc = "create" => row.token # Auth(s)
      BY Zenon, <1>1 DEF Timely
    <3>4. QED
      BY Zenon, <1>2, <1>6, <2>1, <2>3, <3>1, <3>2, <3>3 DEF Timely
  <2>4. QED
    BY Zenon, <2>2, <2>3
<1>7. QED
  BY Zenon, <1>5, <1>6 DEF Heartbeat

LEMMA HeartbeatFailsTimely ==
    ASSUME LeaseInv, NEW s \in Server, HeartbeatFails(s), NEW r \in Server
    PROVE  Timely(r)'
<1>1. /\ Timely(r) /\ Timely(s) /\ Core /\ Servers /\ Auth(s) \in Task /\ Auth(r) \in Task
  BY Zenon, Tasks DEF LeaseInv, Inv
<1>2. /\ UNCHANGED <<row, up>> /\ beat[s].sent /\ errors' # 0
      /\ beat' = [beat EXCEPT ![s].sent = FALSE, ![s].age = 0]
  BY <1>1, CoreTask DEF HeartbeatFails
<1>3. /\ task'[Auth(s)].pc = task[Auth(s)].pc
      /\ r # s => task'[Auth(r)] = task[Auth(r)] /\ beat'[r] = beat[r]
  BY <1>1, <1>2, Tasks, CoreTask DEF HeartbeatFails, Lose, Core, Local, Servers
<1>4. up[s] # "down" /\ ~(row.status = "absent" /\ up[s] = "up")
  BY Zenon, <1>1, <1>2 DEF Timely
<1>5. QED
  BY Zenon, <1>1, <1>2, <1>3, <1>4 DEF Timely


LEMMA LifeTimely ==
    ASSUME LeaseInv, NEW s \in Server, Dispose(s) \/ Exit(s) \/ Crash(s) \/ Start(s),
           NEW r \in Server
    PROVE  Timely(r)'
<1>1. /\ Timely(r) /\ Timely(s) /\ Core /\ Servers /\ Auth(s) \in Task
      /\ Auth(r) \in Task /\ Tick(s) \in Task
  BY Zenon, Tasks DEF LeaseInv, Inv
<1>2. UNCHANGED <<row, errors>>
  BY Zenon DEF Dispose, Exit, Crash, Start, Forgets
<1>3. CASE r # s
  <2>1. task'[Auth(r)] = task[Auth(r)]
    BY <1>1, <1>3, Tasks DEF Dispose, Exit, Crash, Start, Forgets, Core
  <2>2. up'[r] = up[r] /\ beat'[r] = beat[r]
    BY SMTT(30), <1>1, <1>3 DEF Dispose, Exit, Crash, Start, Forgets, Servers
  <2>3. QED
    BY Zenon, <1>1, <1>2, <2>1, <2>2 DEF Timely
<1>4. CASE r = s /\ Dispose(s)
  <2>1. up'[s] = "disposed"
    BY Zenon, <1>1, <1>4 DEF Dispose, Servers
  <2>2. task'[Auth(s)].pc \in {task[Auth(s)].pc, "idle"}
    BY SMTT(30), <1>1, <1>4, CoreTask DEF Dispose, Core, Local, Idle
  <2>3. QED
    BY Zenon, <1>1, <1>2, <1>4, <2>1, <2>2 DEF Timely
<1>5. CASE r = s /\ (Exit(s) \/ Crash(s))
  <2>1. task'[Auth(s)] = Idle /\ up'[s] = "down" /\ beat'[s] = Silent
    <3>1. Forgets(s)
      BY Zenon, <1>5 DEF Exit, Crash
    <3>2. task'[Auth(s)] = Idle
      BY Zenon, <1>1, <3>1, Tasks DEF Forgets, Core
    <3>3. up'[s] = "down" /\ beat'[s] = Silent
      BY Zenon, <1>1, <3>1 DEF Forgets, Servers
    <3>4. QED
      BY Zenon, <3>2, <3>3
  <2>2. Idle.pc = "idle" /\ ~Silent.on /\ ~Silent.sent
    BY SMTT(30) DEF Idle, Silent
  <2>3. QED
    BY Zenon, <1>5, <2>1, <2>2 DEF Timely
<1>6. CASE r = s /\ Start(s)
  <2>1. up'[s] = "up" /\ up[s] = "down" /\ UNCHANGED <<task, beat>>
    BY Zenon, <1>1, <1>6 DEF Start, Servers
  <2>2. Idle.pc = "idle" /\ ~Idle.lost
    BY Zenon DEF Idle
  <2>3. QED
    BY Zenon, <1>1, <1>2, <1>6, <2>1, <2>2 DEF Timely
<1>7. QED
  BY Zenon, <1>3, <1>4, <1>5, <1>6

LEMMA PassTimely ==
    ASSUME LeaseInv, Pass, NEW s \in Server
    PROVE  Timely(s)'
<1> DEFINE a == Auth(s)
<1>1. /\ Timely(s) /\ Core /\ Servers /\ a \in Task /\ a # None
      /\ row \in Row /\ row.left \in (-MaxDelay)..Lease
  BY Zenon, Tasks DEF LeaseInv, Inv, Core, RowSound, Row
<1>2. UNCHANGED <<up, errors>>
  BY Zenon DEF Pass
<1>3. /\ row'.status = row.status /\ row'.token = row.token
      /\ row.token = a => row'.left >= row.left - 1 /\ row'.left \in Int
  <2>1. row' = [row EXCEPT !.left = IF row.token = None THEN 0
                                    ELSE Greater(row.left - 1, -MaxDelay)]
    BY Zenon DEF Pass
  <2>2. QED
    BY <1>1, <2>1, DeviceSetupAssumption DEF Greater, Row
<1>4. /\ task'[a].pc = task[a].pc /\ task'[a].lost = task[a].lost
      /\ task[a].pc = "idle" => task'[a] = task[a]
  <2>1. task'[a] = IF task[a].pc \in Timed
                   THEN [task[a] EXCEPT !.age = task[a].age + 1] ELSE task[a]
    BY Zenon, <1>1 DEF Pass
  <2>2. task[a] \in Local /\ "idle" \notin Timed
    BY Zenon, <1>1, CoreTask DEF Timed, Writes
  <2>3. QED
    BY Zenon, <2>1, <2>2 DEF Local
<1> DEFINE b == beat[s]
           fires == b.on /\ b.wait = 1
           sends == fires /\ ~b.sent /\ ~Fenced(a)
           w == IF ~b.on THEN b.wait ELSE IF fires THEN Beat ELSE b.wait - 1
           g == IF b.sent THEN b.age + 1 ELSE 0
<1>5. /\ b \in Timer /\ b.wait \in 0..Beat /\ b.age \in 0..MaxDelay
      /\ b.on => b.wait > 0
  BY Zenon, <1>1 DEF Servers, Timer
<1>6. beat'[s] = [b EXCEPT !.wait = w, !.sent = b.sent \/ sends, !.age = g]
  BY Zenon DEF Pass, Ticked
<1>7. /\ beat'[s].on = b.on /\ beat'[s].wait = w /\ beat'[s].age = g
      /\ beat'[s].sent = (b.sent \/ sends)
  <2> HIDE DEF w, g, sends
  <2>1. QED
    BY Zenon, <1>5, <1>6 DEF Timer
<1>8. up[s] = "up" /\ ~task[a].lost => ~Fenced(a)
  BY Zenon, Tasks DEF Fenced
<1>9. CASE row.token = a /\ task[a].pc # "idle" /\ up[s] = "up" /\ errors = 0
  <2>1. /\ ~task[a].lost /\ b.on
        /\ b.sent => row.left >= 1 + MaxDelay - b.age
        /\ ~b.sent => row.left >= 1 + MaxDelay + b.wait
    BY Zenon, <1>1, <1>9 DEF Timely
  <2>2. row'.left >= row.left - 1 /\ row'.left \in Int /\ row.left \in Int
    BY <1>1, <1>3, <1>9, DeviceSetupAssumption
  <2>3. /\ beat'[s].sent => row'.left >= 1 + MaxDelay - beat'[s].age
        /\ ~beat'[s].sent => row'.left >= 1 + MaxDelay + beat'[s].wait
    <3>1. CASE b.sent
      <4>1. beat'[s].sent /\ beat'[s].age = b.age + 1
        BY Zenon, <1>7, <3>1
      <4>2. QED
        BY <1>5, <2>1, <2>2, <3>1, <4>1, DeviceSetupAssumption
    <3>2. CASE ~b.sent /\ b.wait = 1
      <4>1. beat'[s].sent /\ beat'[s].age = 0
        BY ZenonT(30), <1>7, <1>8, <1>9, <2>1, <3>2
      <4>2. QED
        BY <2>1, <2>2, <3>2, <4>1, DeviceSetupAssumption
    <3>3. CASE ~b.sent /\ b.wait # 1
      <4>1. ~beat'[s].sent /\ beat'[s].wait = b.wait - 1
        BY Zenon, <1>7, <2>1, <3>3
      <4>2. QED
        BY <1>5, <2>1, <2>2, <3>3, <4>1, DeviceSetupAssumption
    <3>4. QED
      BY Zenon, <3>1, <3>2, <3>3
  <2>4. beat'[s].on /\ ~task'[a].lost /\ up'[s] = "up"
    BY SMTT(30), <1>2, <1>4, <1>7, <1>9, <2>1
  <2>5. row'.status # "absent" /\ task'[a].pc # "create"
    BY SMTT(30), <1>1, <1>3, <1>4, <1>9 DEF Timely, Core, RowSound, Claimable
  <2> HIDE DEF a, b
  <2>6. QED
    BY Zenon, <2>3, <2>4, <2>5 DEF Timely, a
<1>10. CASE ~(row.token = a /\ task[a].pc # "idle" /\ up[s] = "up" /\ errors = 0)
  <2>1. ~b.on /\ ~b.sent => ~beat'[s].on /\ ~beat'[s].sent
    BY Zenon, <1>7
  <2>2. task[a] = Idle => task'[a] = Idle
    BY <1>4 DEF Idle
  <2> HIDE DEF a, b
  <2>3. QED
    BY Zenon, <1>1, <1>2, <1>3, <1>4, <1>10, <2>1, <2>2 DEF Timely, a, b
<1>11. QED
  BY Zenon, <1>9, <1>10

LEMMA LeaseInit == Init => LeaseInv
<1> SUFFICES ASSUME Init PROVE LeaseInv
  BY Zenon
<1>1. Inv
  BY Zenon, InvInit
<1>2. Idle.pc = "idle" /\ ~Idle.lost /\ ~Silent.on /\ ~Silent.sent
  BY Zenon DEF Idle, Silent
<1>3. \A s \in Server : task[Auth(s)] = Idle /\ beat[s] = Silent /\ up[s] = "up"
  BY Zenon, Tasks DEF Init
<1>4. ASSUME NEW s \in Server PROVE Timely(s)
  BY Zenon, <1>2, <1>3 DEF Timely
<1>5. QED
  BY Zenon, <1>1, <1>4 DEF LeaseInv

LEMMA LeaseNext == LeaseInv /\ [Next]_vars => LeaseInv'
<1> SUFFICES ASSUME LeaseInv, [Next]_vars PROVE LeaseInv'
  BY SMTT(30)
<1>1. Inv' /\ RowSound' /\ Core
  BY Zenon, InvNext DEF LeaseInv, Inv, Core
<1>2. SUFFICES ASSUME NEW r \in Server PROVE Timely(r)'
  BY Zenon, <1>1 DEF LeaseInv
<1>3. ASSUME NEW s \in Server,
             Recovery(s) \/ StartTick(s) \/ (Authorization(s) /\ ~Create(s))
      PROVE  Timely(r)'
  BY Zenon, <1>1, <1>3, RequestKeeps, TimelyStep, Tasks
<1>4. ASSUME NEW a \in Task, Work(a) \/ StatementFails(a) \/ RoutingStalls(a)
      PROVE  Timely(r)'
  BY SMTT(30), <1>1, <1>4, WorkKeeps, TimelyStep
<1>5. CASE UNCHANGED vars
  BY Zenon, <1>5 DEF vars, Timely, LeaseInv
<1>6. QED
  BY Zenon, <1>3, <1>4, <1>5, InitializeTimely, CreateTimely, CreateUnreadTimely,
     HeartbeatTimely, HeartbeatFailsTimely, LifeTimely, PassTimely DEF Next

\* The heartbeat of device-setup-jobs.ts keeps the lease whenever the lease is
\* longer than a beat and two writes: while no statement fails, the recovery
\* pass of another server never claims a job whose authorization is under way
\* in a running server.
THEOREM AuthorizationKept == Spec => AuthorizationNotStolen
<1>1. ASSUME LeaseInv, [Next]_vars
      PROVE  [\A s \in Server :
                (/\ row.token = Auth(s) /\ row'.token \notin {Auth(s), None})
                => task[Auth(s)].pc = "idle" \/ up[s] = "disposed" \/ errors > 0]_vars
  <2>1. SUFFICES ASSUME NEW s \in Server, row.token = Auth(s),
                        row'.token \notin {Auth(s), None}
                 PROVE  task[Auth(s)].pc = "idle" \/ up[s] = "disposed" \/ errors > 0
    BY SMTT(30)
  <2>2. /\ Core /\ Servers /\ Timely(s) /\ row \in Row /\ row.left \in Int
        /\ Auth(s) \in Task /\ errors \in Nat
    BY Zenon, <1>1, Tasks, CoreTask DEF LeaseInv, Inv, Core, RowSound
  <2>3. PICK r \in Server : TryClaim(r) /\ row' # row
    <3>1. ASSUME NEW a \in Task, Work(a) \/ StatementFails(a) \/ RoutingStalls(a)
          PROVE  row'.token \in {row.token, None}
      BY ZenonT(30), <2>2, <3>1 DEF Work, StatementFails, RoutingStalls, MarkAuthorizationError,
         MarkAccountCommitted, Open, BeginReconciliation, Reload, RenewLease, Route,
         Check, AdvanceRoutingOutcome, Tally, Finish, Conditional, Settled, Renewed, Row
    <3>2. ASSUME NEW r \in Server,
                 \/ Initialize(r) \/ Authorization(r) \/ CreateUnread(r)
                 \/ StartTick(r) \/ List(r)
                 \/ Claimed(r) \/ Exists(r) \/ Heartbeat(r) \/ HeartbeatFails(r)
                 \/ Dispose(r) \/ Exit(r) \/ Crash(r) \/ Start(r)
          PROVE  row'.token = row.token
      <4>1. CASE Create(r) \/ CreateUnread(r)
        <5>1. row.status # "absent"
          BY Zenon, <2>1, <2>2, Tasks DEF Core, RowSound, Claimable
        <5>2. QED
          BY Zenon, <4>1, <5>1 DEF Create, CreateUnread
      <4>2. CASE Renew(r) \/ List(r) \/ Heartbeat(r)
        BY Zenon, <2>2, <4>2 DEF Renew, List, Heartbeat, Conditional, Look, Renewed, Row
      <4>3. CASE \/ Initialize(r) \/ StartTick(r) \/ Claimed(r) \/ Exists(r)
                 \/ HeartbeatFails(r) \/ Dispose(r) \/ Exit(r) \/ Crash(r) \/ Start(r)
                 \/ Initiated(r) \/ Polled(r) \/ Load(r) \/ Insert(r) \/ Verify(r)
        BY Zenon, <4>3 DEF Initialize, StartTick, Claimed, Exists, HeartbeatFails, Dispose,
           Exit, Crash, Start, Forgets, Initiated, Polled, Load, Insert, Verify, Look
      <4>4. QED
        BY Zenon, <3>2, <4>1, <4>2, <4>3 DEF Authorization
    <3>3. Pass \/ UNCHANGED vars => row'.token = row.token
      BY Zenon, <2>2 DEF Pass, vars, Row
    <3>4. QED
      BY Zenon, <1>1, <2>1, <3>1, <3>2, <3>3 DEF Next, Recovery
  <2>4. Expired(Tick(r)) /\ Tick(r) \in Task
    BY Zenon, <2>3, Tasks DEF TryClaim, Conditional
  <2>5. row.left <= 0
    BY <2>1, <2>2, <2>4, Ages, Tasks
  <2>6. beat[s].age \in 0..MaxDelay /\ beat[s].wait \in 0..Beat
    BY Zenon, <2>2 DEF Servers
  <2>7. ~(task[Auth(s)].pc # "idle" /\ up[s] = "up" /\ errors = 0)
    BY SMTT(30), <2>1, <2>2, <2>5, <2>6, DeviceSetupAssumption DEF Timely
  <2>8. up[s] = "down" => task[Auth(s)].pc = "idle"
    BY <2>2 DEF Timely, Idle
  <2>9. QED
    BY <2>2, <2>7, <2>8 DEF Servers
<1>2. Spec => []LeaseInv
  BY LeaseInit, LeaseNext, PTL DEF Spec
<1>3. QED
  BY <1>1, <1>2, PTL DEF Spec, AuthorizationNotStolen

=============================================================================
