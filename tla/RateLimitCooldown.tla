-------------------------- MODULE RateLimitCooldown --------------------------
(***************************************************************************)
(* The cooldown of one account after a 429, 402, 403 or 529:               *)
(* handlers/rate-limit-cooldown.ts, the statements of                      *)
(* account.repository.ts it persists with, the success branch of           *)
(* handlers/response-processor.ts and the attempt loop of proxy.ts that    *)
(* takes and returns the recovery probe.                                   *)
(*                                                                         *)
(* Every request works on an account object it read from the database      *)
(* when it was routed, so several objects of one account drift apart.  A   *)
(* hold is written to the row through the queue of the AsyncDbWriter, or,  *)
(* where the handler must not go on before the row has it, by a write that *)
(* concurrent requests of the account share (inFlightRateLimitWrites).     *)
(* All maps of the code are keyed by account, so one account is enough.    *)
(*                                                                         *)
(* Times are absolute; 0 is the code's null.  The statements of a write    *)
(* are separate steps, since each is awaited.  applyRateLimitCooldown also *)
(* feeds the circuit breaker: that is RecordFailure of CircuitBreaker.tla. *)
(***************************************************************************)
EXTENDS Integers, Sequences

CONSTANTS
    Request,       \* requests routed to the account, each attempts it once
    ResetDelay,    \* how far ahead an upstream reset may lie; 0: no reset
    OverloadCooldown, OverloadCap, BackoffBase, BackoffMax, MaxCooldown,
    MatureStreak, ProbeLease, Stability,
    QueueCap,      \* METADATA_QUEUE_CAP
    MaxTime        \* bound: the last instant

ASSUME CooldownAssumption ==
    /\ ResetDelay \subseteq Nat /\ QueueCap \in Nat
    /\ OverloadCooldown \in Nat \ {0} /\ OverloadCap \in Nat \ {0}
    /\ BackoffBase \in Nat \ {0} /\ BackoffMax \in Nat \ {0}
    /\ MaxCooldown \in Nat \ {0} /\ MatureStreak \in Nat \ {0}
    /\ ProbeLease \in Nat \ {0} /\ Stability \in Nat
    /\ MaxTime \in Nat \ {0}

VARIABLES
    now,
    row,       \* the account's row
    object,    \* the account object each request holds
    phase,     \* where each request is
    probe,     \* whether the request was admitted as the recovery probe
    hold,      \* the deadline a request waits to see persisted
    lease,     \* probeLeases.get(account.id)
    queue,     \* the jobs of the AsyncDbWriter
    running,   \* its current job
    active,    \* inFlightRateLimitWrites: the write on its way
    pending,   \* inFlightRateLimitWrites: deadline of the follow-up, or 0
    cleared,   \* history: the row was cleared while the request waited
    late       \* history: it joined a write whose effect was cleared before

routing == <<object, phase, probe, hold>>
writer == <<queue, running>>
shared == <<active, pending>>
history == <<cleared, late>>
vars == <<now, row, object, phase, probe, hold, lease, queue, running,
          active, pending, cleared, late>>

-----------------------------------------------------------------------------
(* Data *)

Kind == {"quota", "overload"}
Account == [until : Nat, kind : Kind \cup {"none"}, at : Nat, streak : Nat]
Blank == [until |-> 0, kind |-> "none", at |-> 0, streak |-> 0]

Waiting == {"onActive", "onPending"}
Phase == {"new", "selected", "sent", "streaming", "acked", "done"} \cup Waiting

Job == [op : {"none", "mark", "clear", "reset"}, until : Nat,
        kind : Kind \cup {"none"}, landed : BOOLEAN]
Mark(until, kind) ==
    [op |-> "mark", until |-> until, kind |-> kind, landed |-> FALSE]
Statement(op) == [op |-> op, until |-> 0, kind |-> "none", landed |-> FALSE]
NoJob == Statement("none")

Write == [until : Nat, stage : {"none", "sent", "landed"}, cleared : BOOLEAN]
NoWrite == [until |-> 0, stage |-> "none", cleared |-> FALSE]
NewWrite(until) == [until |-> until, stage |-> "sent", cleared |-> FALSE]

Lesser(a, b) == IF a < b THEN a ELSE b
Greater(a, b) == IF a > b THEN a ELSE b

-----------------------------------------------------------------------------
(* Durations *)

\* The exponential ramp of the 429 streak, with its ceiling.
Backoff(count) ==
    LET ms == BackoffBase * 2 ^ (count - 1)
    IN IF ms \in 0..BackoffMax THEN ms ELSE BackoffMax

\* The deadline of a new hold on object a, given the upstream reset if any.
CooldownUntil(a, kind, reset) ==
    IF kind = "overload"
    THEN IF reset = 0 THEN now + OverloadCooldown
                      ELSE Lesser(reset, now + OverloadCap)
    ELSE IF reset = 0 THEN now + Backoff(a.streak + 1)
                      ELSE Lesser(reset, now + MaxCooldown)

\* The forward guard: a 529 does not replace a longer hold of the object.
Takes(a, kind, until) == ~(kind = "overload" /\ a.until > until)

-----------------------------------------------------------------------------
(* The statements of the repository *)

\* Mutant: the guard in the WHERE clause of the 529 statement is left out.
OverloadOverwrites(a, kind, until) ==
    IF kind = "quota"
    THEN [until |-> Greater(a.until, until),
          kind |-> IF until > a.until THEN kind ELSE a.kind,
          at |-> now, streak |-> a.streak + 1]
    ELSE [until |-> until, kind |-> kind, at |-> now, streak |-> a.streak]

\* A quota hold counts and only ever extends the deadline; an overload hold
\* is written only where it does not shorten one.
Marked(a, kind, until) ==
    IF kind = "quota"
    THEN [until |-> Greater(a.until, until),
          kind |-> IF until > a.until THEN kind ELSE a.kind,
          at |-> now, streak |-> a.streak + 1]
    ELSE IF a.until <= until
         THEN [until |-> until, kind |-> kind, at |-> now, streak |-> a.streak]
         ELSE a

\* What a statement that lifts the hold means to those who wait for one.
Lifted ==
    /\ cleared' = [r \in Request |-> cleared[r] \/ phase[r] \in Waiting]
    /\ active' = [active EXCEPT !.cleared = @ \/ active.stage = "landed"]
    /\ UNCHANGED <<late, pending>>

-----------------------------------------------------------------------------
(* Routing *)

\* The router reads the row and takes an account that is not benched.
Select(r) ==
    /\ phase[r] = "new"
    /\ row.until < now
    /\ object' = [object EXCEPT ![r] = row]
    /\ phase' = [phase EXCEPT ![r] = "selected"]
    /\ UNCHANGED <<now, row, probe, hold, lease, writer, shared, history>>

\* A hold that has run out and that only one request may test.
ExpiredMatureCooldown(a) ==
    /\ a.streak >= MatureStreak \/ a.kind = "overload"
    /\ a.until # 0 /\ a.until <= now

\* getRateLimitProbeAdmission, and the attempt that follows.  A suppressed
\* request leaves for another account, or is sent ungated when there is none.
Attempt(r) ==
    /\ phase[r] = "selected"
    /\ \/ /\ ~ExpiredMatureCooldown(object[r])
          /\ phase' = [phase EXCEPT ![r] = "sent"]
          /\ UNCHANGED <<object, probe, lease>>
       \/ /\ ExpiredMatureCooldown(object[r]) /\ lease > now
          /\ phase' = [phase EXCEPT ![r] = "sent"]
          /\ UNCHANGED <<object, probe, lease>>
       \/ /\ ExpiredMatureCooldown(object[r]) /\ lease > now
          /\ phase' = [phase EXCEPT ![r] = "done"]
          /\ object' = [object EXCEPT ![r] = Blank]
          /\ UNCHANGED <<probe, lease>>
       \/ /\ ExpiredMatureCooldown(object[r]) /\ lease <= now
          /\ lease' = now + ProbeLease
          /\ probe' = [probe EXCEPT ![r] = TRUE]
          /\ phase' = [phase EXCEPT ![r] = "sent"]
          /\ UNCHANGED object
    /\ UNCHANGED <<now, row, hold, writer, shared, history>>

\* The request has no more use for the account: it ends, or fails over, and
\* what the handler still assigns to the account object is never read.
Ends(r, how) ==
    /\ phase' = [phase EXCEPT ![r] = how]
    /\ object' = [object EXCEPT ![r] = Blank]

-----------------------------------------------------------------------------
(* Answers *)

\* AsyncDbWriter.enqueue: a job that finds the queue full is dropped.
Enqueue(q, job) == IF Len(q) >= QueueCap THEN q ELSE Append(q, job)

\* applyRateLimitCooldown: the hold is queued unless the guard skips it.
ApplyRateLimitCooldown(r, kind, reset) ==
    LET until == CooldownUntil(object[r], kind, reset)
    IN /\ lease' = 0
       /\ IF Takes(object[r], kind, until)
          THEN queue' = Enqueue(queue, Mark(until, kind))
          ELSE UNCHANGED queue
       /\ Ends(r, "done")
       /\ UNCHANGED <<now, row, probe, hold, running, shared, cleared, late>>

Reset(delay) == IF delay = 0 THEN 0 ELSE now + delay

\* A 429 or 529 answer.
Limited(r) ==
    /\ phase[r] = "sent"
    /\ \E kind \in Kind, delay \in ResetDelay :
          ApplyRateLimitCooldown(r, kind, Reset(delay))

\* An error event in a stream that had begun well.  An overload has no reset
\* there, and a quota's counts only if the account's window is proved spent.
MidStreamLimited(r) ==
    /\ phase[r] = "streaming"
    /\ \/ ApplyRateLimitCooldown(r, "overload", 0)
       \/ \E delay \in ResetDelay : ApplyRateLimitCooldown(r, "quota", Reset(delay))

\* Mutant: every hold is taken to be covered by the write on its way.
JoinActive(r, until) ==
    IF active.stage = "none"
    THEN /\ active' = NewWrite(until)
         /\ phase' = [phase EXCEPT ![r] = "onActive"]
         /\ UNCHANGED <<pending, late>>
    ELSE /\ phase' = [phase EXCEPT ![r] = "onActive"]
         /\ late' = [late EXCEPT ![r] = active.cleared]
         /\ UNCHANGED shared

\* getOrStartMarkAccountRateLimited: start a write, wait for the one on its
\* way when it covers this hold, or for the one that follows it.
Persist(r, until) ==
    IF active.stage = "none"
    THEN /\ active' = NewWrite(until)
         /\ phase' = [phase EXCEPT ![r] = "onActive"]
         /\ UNCHANGED <<pending, late>>
    ELSE IF until <= active.until
    THEN /\ phase' = [phase EXCEPT ![r] = "onActive"]
         /\ late' = [late EXCEPT ![r] = active.cleared]
         /\ UNCHANGED shared
    ELSE /\ phase' = [phase EXCEPT ![r] = "onPending"]
         /\ pending' = Greater(pending, until)
         /\ UNCHANGED <<active, late>>

\* applyRateLimitCooldownAwaitingPersist: a 402, 403 or 429 whose handler
\* waits for the row.  It is never an overload, so it is never skipped.
ApplyAwaitingPersist(r) == \E delay \in ResetDelay :
    LET until == CooldownUntil(object[r], "quota", Reset(delay))
    IN /\ phase[r] = "sent"
       /\ lease' = 0
       /\ object' = [object EXCEPT ![r] = Blank]
       /\ hold' = [hold EXCEPT ![r] = until]
       /\ Persist(r, until)
       /\ UNCHANGED <<now, row, probe, writer, cleared>>

\* A good answer: the probe is over, a streak that has been quiet for long is
\* forgotten, and the hold the object shows is lifted, over or not.
Succeeds(r) ==
    LET a == object[r]
        quiet == a.at # 0 /\ now - a.at > Stability
        q == IF quiet THEN Enqueue(queue, Statement("reset")) ELSE queue
    IN /\ phase[r] = "sent"
       /\ lease' = 0
       /\ object' = [object EXCEPT ![r] =
             [until |-> 0, kind |-> a.kind,
              at |-> IF quiet THEN 0 ELSE a.at,
              streak |-> IF quiet THEN 0 ELSE a.streak]]
       /\ queue' = IF a.until # 0 THEN Enqueue(q, Statement("clear")) ELSE q
       /\ phase' = [phase EXCEPT ![r] = "streaming"]
       /\ UNCHANGED <<now, row, probe, hold, running, shared, history>>

StreamEnds(r) ==
    /\ phase[r] = "streaming"
    /\ Ends(r, "done")
    /\ UNCHANGED <<now, row, probe, hold, lease, writer, shared, history>>

\* An error that is not a rate limit: the probe is abandoned.
Fails(r) ==
    /\ phase[r] = "sent"
    /\ lease' = 0
    /\ Ends(r, "done")
    /\ UNCHANGED <<now, row, probe, hold, writer, shared, history>>

\* No answer: the finally block of the attempt returns the probe it took.
Throws(r) ==
    /\ phase[r] = "sent"
    /\ lease' = IF probe[r] THEN 0 ELSE lease
    /\ probe' = [probe EXCEPT ![r] = FALSE]
    /\ Ends(r, "done")
    /\ UNCHANGED <<now, row, hold, writer, shared, history>>

\* After an answer the finally block returns the lease a second time, and it may
\* be that of a later probe by then.
AttemptReturns(r) ==
    /\ probe[r] /\ phase[r] \in {"streaming", "acked", "done"}
    /\ lease' = 0
    /\ probe' = [probe EXCEPT ![r] = FALSE]
    /\ UNCHANGED <<now, row, object, phase, hold, writer, shared, history>>

-----------------------------------------------------------------------------
(* The AsyncDbWriter: one job at a time, in the order they were enqueued *)

TakeJob ==
    /\ running = NoJob /\ queue # <<>>
    /\ running' = Head(queue)
    /\ queue' = Tail(queue)
    /\ UNCHANGED <<now, row, routing, lease, shared, history>>

MarkLands ==
    /\ running.op = "mark" /\ ~running.landed
    /\ row' = Marked(row, running.kind, running.until)
    /\ running' = [running EXCEPT !.landed = TRUE]
    /\ UNCHANGED <<now, routing, lease, queue, shared, history>>

\* The SELECT after the UPDATE; the object it updates is in use no more.
MarkEnds ==
    /\ running.op = "mark" /\ running.landed
    /\ running' = NoJob
    /\ UNCHANGED <<now, row, routing, lease, queue, shared, history>>

\* resetConsecutiveRateLimits
ResetLands ==
    /\ running.op = "reset"
    /\ row' = [row EXCEPT !.streak = 0, !.at = 0]
    /\ running' = NoJob
    /\ UNCHANGED <<now, routing, lease, queue, shared, history>>

ClearLands ==
    /\ running.op = "clear"
    /\ row' = [row EXCEPT !.until = 0]
    /\ running' = NoJob
    /\ Lifted
    /\ UNCHANGED <<now, routing, lease, queue>>

\* A statement fails: the job is logged and dropped.
JobFails ==
    /\ running # NoJob
    /\ running' = NoJob
    /\ UNCHANGED <<now, row, routing, lease, queue, shared, history>>

-----------------------------------------------------------------------------
(* The shared write *)

\* What is recorded of a wait is of no use once it is over.
Forget(R) ==
    /\ hold' = [r \in Request |-> IF r \in R THEN 0 ELSE hold[r]]
    /\ cleared' = [r \in Request |-> r \notin R /\ cleared[r]]
    /\ late' = [r \in Request |-> r \notin R /\ late[r]]

\* observeRateLimitWrite, advanceRateLimitWrite: those who waited for the
\* write go on, and the follow-up, if there is one, is started for the others.
Settles(how) ==
    /\ phase' = [r \in Request |->
                    IF phase[r] = "onActive" THEN how
                    ELSE IF phase[r] = "onPending" THEN "onActive"
                    ELSE phase[r]]
    /\ active' = IF pending = 0 THEN NoWrite ELSE NewWrite(pending)
    /\ pending' = 0
    /\ Forget({r \in Request : phase[r] = "onActive"})
    /\ UNCHANGED <<now, row, object, probe, lease, writer>>

PersistLands ==
    /\ active.stage = "sent"
    /\ row' = Marked(row, "quota", active.until)
    /\ active' = [active EXCEPT !.stage = "landed"]
    /\ UNCHANGED <<now, routing, lease, writer, pending, history>>

PersistSettles == active.stage = "landed" /\ Settles("acked")

\* The UPDATE fails, or the SELECT after it does.
PersistFails == active.stage # "none" /\ Settles("done")

\* raceWithTimeout: the request goes on with the hold in memory only; the
\* write is not cancelled.
PersistTimesOut(r) ==
    /\ phase[r] \in Waiting
    /\ phase' = [phase EXCEPT ![r] = "done"]
    /\ Forget({r})
    /\ UNCHANGED <<now, row, object, probe, lease, writer, shared>>

-----------------------------------------------------------------------------
(* Others that write the row *)

\* The hourly job.
ClearExpiredRateLimits ==
    /\ row.until # 0 /\ row.until <= now
    /\ row' = [row EXCEPT !.until = 0]
    /\ Lifted
    /\ UNCHANGED <<now, routing, lease, writer>>

\* clearRateLimitState, for the operator or the usage poller.
ForceReset ==
    /\ row # Blank
    /\ row' = Blank
    /\ Lifted
    /\ UNCHANGED <<now, routing, lease, writer>>

Tick ==
    /\ now < MaxTime
    /\ now' = now + 1
    /\ UNCHANGED <<row, routing, lease, writer, shared, history>>

\* The row may carry an earlier hold and an earlier streak.
Init ==
    /\ now = 1
    /\ row \in {Blank} \cup
           {a \in [until : 0..1, kind : Kind, at : {1}, streak : 0..MatureStreak] :
               a.kind = "quota" => a.streak > 0}
    /\ object = [r \in Request |-> Blank]
    /\ phase = [r \in Request |-> "new"]
    /\ probe = [r \in Request |-> FALSE]
    /\ hold = [r \in Request |-> 0]
    /\ lease = 0
    /\ queue = <<>> /\ running = NoJob
    /\ active = NoWrite /\ pending = 0
    /\ cleared = [r \in Request |-> FALSE]
    /\ late = [r \in Request |-> FALSE]

RequestStep(r) ==
    \/ Select(r) \/ Attempt(r) \/ Limited(r) \/ MidStreamLimited(r)
    \/ ApplyAwaitingPersist(r) \/ Succeeds(r) \/ StreamEnds(r)
    \/ Fails(r) \/ Throws(r) \/ AttemptReturns(r) \/ PersistTimesOut(r)

Next ==
    \/ \E r \in Request : RequestStep(r)
    \/ TakeJob \/ MarkLands \/ MarkEnds \/ ResetLands \/ ClearLands \/ JobFails
    \/ PersistLands \/ PersistSettles \/ PersistFails
    \/ ClearExpiredRateLimits \/ ForceReset \/ Tick

Spec == Init /\ [][Next]_vars

-----------------------------------------------------------------------------
(* Properties *)

\* The row, the objects, the jobs and the shared writes have their shapes, and
\* the writer's queue never outgrows METADATA_QUEUE_CAP.
TypeOK ==
    /\ now \in 1..MaxTime /\ row \in Account
    /\ object \in [Request -> Account] /\ phase \in [Request -> Phase]
    /\ probe \in [Request -> BOOLEAN] /\ hold \in [Request -> Nat]
    /\ lease \in Nat /\ queue \in Seq(Job) /\ running \in Job
    /\ Len(queue) <= QueueCap
    /\ active \in Write /\ pending \in Nat
    /\ cleared \in [Request -> BOOLEAN] /\ late \in [Request -> BOOLEAN]

\* A request whose wait for the row ended well finds its hold, or a longer
\* one, in the row, whatever writes it shared (the follow-up carries the
\* largest deadline asked for).  The exceptions are a hold that was lifted
\* while it waited, and a write whose effect was lifted before it joined.
AcknowledgedIsDurable ==
    [][\A r \in Request :
          phase[r] # "acked" /\ phase'[r] = "acked"
          => row.until >= hold[r] \/ cleared[r] \/ late[r]]_vars

\* No write of a hold shortens a hold in force: not an overload of a request
\* that read the row before the longer hold was written, not a late retry,
\* and not a quota limit either: markAccountRateLimited clamps both kinds to
\* the later deadline (account.repository.ts 291-311, 312-339), whereas a
\* comment of rate-limit-cooldown.ts (336-338) still says that "the 429 path
\* keeps its existing last-writer-wins behavior".  As that comment says, a
\* success lifts a hold in force; then it goes as a whole.
HoldsNeverShorten ==
    [][row.until > now /\ row'.until < row.until => row'.until = 0]_vars

\* The recovery probe's lease is returned on every way out of the attempt:
\* while it is taken, a request admitted as the probe is on the wire.
LeaseHasProbe ==
    lease # 0 => \E r \in Request : phase[r] = "sent" /\ probe[r]
=============================================================================
