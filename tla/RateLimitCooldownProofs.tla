----------------------- MODULE RateLimitCooldownProofs -----------------------
(***************************************************************************)
(* Proofs about RateLimitCooldown.tla, for every set of requests and every *)
(* choice of the durations.                                                *)
(***************************************************************************)
EXTENDS RateLimitCooldown, TLAPS

-----------------------------------------------------------------------------
(* Types *)

LEMMA ComparisonType ==
    ASSUME NEW a \in Nat, NEW b \in Nat
    PROVE  /\ Greater(a, b) \in Nat /\ Greater(a, b) >= a /\ Greater(a, b) >= b
           /\ Lesser(a, b) \in Nat
  BY DEF Greater, Lesser

\* What an operation on an account computes is a deadline or an account.
LEMMA BackoffType ==
    ASSUME NEW n
    PROVE  Backoff(n) \in Nat
  BY CooldownAssumption DEF Backoff

LEMMA CooldownUntilType ==
    ASSUME now \in Nat, NEW a, NEW kind, NEW reset \in Nat
    PROVE  CooldownUntil(a, kind, reset) \in Nat
  <1>1. Backoff(a.streak + 1) \in Nat
    BY BackoffType
  <1>2. /\ now + OverloadCap \in Nat /\ now + MaxCooldown \in Nat
        /\ now + OverloadCooldown \in Nat /\ now + Backoff(a.streak + 1) \in Nat
    BY <1>1, CooldownAssumption
  <1>3. /\ Lesser(reset, now + OverloadCap) \in Nat
        /\ Lesser(reset, now + MaxCooldown) \in Nat
    BY Zenon, <1>2, ComparisonType
  <1> QED
    BY <1>2, <1>3 DEF CooldownUntil

LEMMA ResetType ==
    ASSUME now \in Nat, NEW delay \in ResetDelay
    PROVE  Reset(delay) \in Nat
  BY CooldownAssumption DEF Reset

LEMMA MarkedType ==
    ASSUME now \in Nat, NEW a \in Account, NEW kind \in Kind \cup {"none"},
           NEW until \in Nat
    PROVE  /\ Marked(a, kind, until) \in Account
           /\ Marked(a, kind, until).until >= a.until
           /\ kind = "quota" => Marked(a, kind, until).until >= until
  <1>1. /\ a.until \in Nat /\ a.streak \in Nat /\ a.kind \in Kind \cup {"none"}
        /\ a.streak + 1 \in Nat
    BY DEF Account
  <1>2. CASE kind = "quota"
    <2>1. /\ Greater(a.until, until) \in Nat
          /\ Greater(a.until, until) >= a.until /\ Greater(a.until, until) >= until
      BY Zenon, <1>1, ComparisonType
    <2> QED
      BY <1>1, <1>2, <2>1 DEF Marked, Account
  <1>3. CASE kind # "quota" /\ a.until <= until
    BY <1>1, <1>3 DEF Marked, Account
  <1>4. CASE kind # "quota" /\ ~(a.until <= until)
    BY <1>1, <1>4 DEF Marked
  <1> QED
    BY <1>2, <1>3, <1>4

\* The queue never grows past its capacity.
LEMMA EnqueueType ==
    ASSUME NEW q \in Seq(Job), Len(q) <= QueueCap, NEW job \in Job
    PROVE  /\ Enqueue(q, job) \in Seq(Job)
           /\ Len(Enqueue(q, job)) <= QueueCap
  BY CooldownAssumption DEF Enqueue

LEMMA JobType ==
    /\ \A until \in Nat, kind \in Kind : Mark(until, kind) \in Job
    /\ \A op \in {"none", "mark", "clear", "reset"} : Statement(op) \in Job
    /\ NoJob \in Job
  BY DEF Mark, Statement, NoJob, Job, Kind

LEMMA WriteType ==
    /\ NoWrite \in Write
    /\ \A until \in Nat : NewWrite(until) \in Write
    /\ Blank \in Account
  BY DEF NoWrite, NewWrite, Write, Blank, Account

LEMMA TypeInit == Init => TypeOK
  <1> SUFFICES ASSUME Init PROVE TypeOK
    OBVIOUS
  <1>1. row \in Account
    BY CooldownAssumption DEF Init, Blank, Account, Kind
  <1>2. queue \in Seq(Job) /\ Len(queue) <= QueueCap
    BY CooldownAssumption DEF Init
  <1> QED
    BY <1>1, <1>2, JobType, WriteType, CooldownAssumption
    DEF Init, TypeOK, Phase

\* What applyRateLimitCooldown leaves behind.
LEMMA ApplyType ==
    ASSUME TypeOK, NEW r \in Request, NEW kind \in Kind, NEW reset \in Nat,
           ApplyRateLimitCooldown(r, kind, reset)
    PROVE  TypeOK'
  <1> DEFINE until == CooldownUntil(object[r], kind, reset)
  <1>1. until \in Nat
    BY CooldownUntilType DEF TypeOK
  <1>2. Mark(until, kind) \in Job
    BY <1>1, JobType
  <1> HIDE DEF until
  <1>3. queue' \in Seq(Job) /\ Len(queue') <= QueueCap
    <2>1. Enqueue(queue, Mark(until, kind)) \in Seq(Job)
          /\ Len(Enqueue(queue, Mark(until, kind))) <= QueueCap
      BY <1>2, EnqueueType DEF TypeOK
    <2>2. \/ queue' = Enqueue(queue, Mark(until, kind))
          \/ queue' = queue
      BY DEF ApplyRateLimitCooldown, until
    <2> QED
      BY <2>1, <2>2 DEF TypeOK
  <1>4. /\ lease' = 0
        /\ phase' = [phase EXCEPT ![r] = "done"]
        /\ object' = [object EXCEPT ![r] = Blank]
        /\ UNCHANGED <<now, row, probe, hold, running, active, pending, cleared, late>>
    BY DEF ApplyRateLimitCooldown, Ends, shared
  <1> QED
    BY <1>3, <1>4, WriteType DEF TypeOK, Phase

\* What the start of, or the joining of, a shared write leaves behind.
LEMMA PersistType ==
    ASSUME TypeOK, NEW r \in Request, NEW until \in Nat, Persist(r, until)
    PROVE  /\ active' \in Write /\ pending' \in Nat
           /\ phase' \in [Request -> Phase] /\ late' \in [Request -> BOOLEAN]
  <1>1. active.cleared \in BOOLEAN /\ Greater(pending, until) \in Nat
    BY Zenon, ComparisonType DEF TypeOK, Write
  <1> QED
    BY Zenon, <1>1, WriteType DEF Persist, TypeOK, Phase, Waiting, shared

LEMMA TypeNext == TypeOK /\ [Next]_vars => TypeOK'
  <1> SUFFICES ASSUME TypeOK, [Next]_vars PROVE TypeOK'
    OBVIOUS
  <1>0. now \in Nat /\ 1 <= now /\ now <= MaxTime
    BY CooldownAssumption DEF TypeOK
  <1>1. ASSUME NEW r \in Request, RequestStep(r) PROVE TypeOK'
    <2>1. CASE Select(r)
      BY <2>1 DEF Select, TypeOK, Phase, writer, shared, history
    <2>2. CASE Attempt(r)
      <3>1. now + ProbeLease \in Nat
        BY <1>0, CooldownAssumption
      <3> QED
        BY Zenon, <2>2, <3>1, WriteType
        DEF Attempt, TypeOK, Phase, writer, shared, history
    <2>3. CASE Limited(r)
      BY <2>3, <1>0, ResetType, ApplyType DEF Limited
    <2>4. CASE MidStreamLimited(r)
      <3>1. 0 \in Nat /\ "overload" \in Kind /\ "quota" \in Kind
        BY DEF Kind
      <3> QED
        BY <2>4, <3>1, <1>0, ResetType, ApplyType DEF MidStreamLimited
    <2>5. CASE ApplyAwaitingPersist(r)
      <3>1. PICK delay \in ResetDelay :
              LET until == CooldownUntil(object[r], "quota", Reset(delay))
              IN /\ lease' = 0
                 /\ object' = [object EXCEPT ![r] = Blank]
                 /\ hold' = [hold EXCEPT ![r] = until]
                 /\ Persist(r, until)
                 /\ UNCHANGED <<now, row, probe, queue, running, cleared>>
        BY Zenon, <2>5 DEF ApplyAwaitingPersist, writer
      <3> DEFINE until == CooldownUntil(object[r], "quota", Reset(delay))
      <3>2. until \in Nat
        BY <1>0, ResetType, CooldownUntilType
      <3> HIDE DEF until
      <3>3. /\ active' \in Write /\ pending' \in Nat
            /\ phase' \in [Request -> Phase] /\ late' \in [Request -> BOOLEAN]
        BY <3>1, <3>2, PersistType DEF until
      <3>4. hold' \in [Request -> Nat]
        BY <3>1, <3>2 DEF TypeOK, until
      <3> QED
        BY <3>1, <3>3, <3>4, WriteType DEF TypeOK
    <2>6. CASE Succeeds(r)
      <3>1. object[r] \in Account
        BY DEF TypeOK
      <3>2. object' \in [Request -> Account]
        BY <2>6, <3>1 DEF Succeeds, TypeOK, Account
      <3>3. queue' \in Seq(Job) /\ Len(queue') <= QueueCap
        <4>1. Statement("reset") \in Job /\ Statement("clear") \in Job
          BY JobType
        <4>2. PICK q \in {queue, Enqueue(queue, Statement("reset"))} :
                 queue' \in {q, Enqueue(q, Statement("clear"))}
          BY <2>6 DEF Succeeds
        <4>3. q \in Seq(Job) /\ Len(q) <= QueueCap
          BY Zenon, <4>1, <4>2, EnqueueType DEF TypeOK
        <4> QED
          BY Zenon, <4>1, <4>2, <4>3, EnqueueType
      <3>4. /\ lease' = 0
            /\ phase' = [phase EXCEPT ![r] = "streaming"]
            /\ UNCHANGED <<now, row, probe, hold, running, active, pending,
                           cleared, late>>
        BY <2>6 DEF Succeeds, shared, history
      <3> QED
        BY <3>2, <3>3, <3>4 DEF TypeOK, Phase
    <2>7. CASE StreamEnds(r)
      BY <2>7, WriteType DEF StreamEnds, Ends, TypeOK, Phase, writer, shared, history
    <2>8. CASE Fails(r)
      BY <2>8, WriteType DEF Fails, Ends, TypeOK, Phase, writer, shared, history
    <2>9. CASE Throws(r)
      BY <2>9, WriteType DEF Throws, Ends, TypeOK, Phase, writer, shared, history
    <2>10. CASE PersistTimesOut(r)
      BY <2>10 DEF PersistTimesOut, Forget, TypeOK, Phase, writer, shared
    <2>11. CASE AttemptReturns(r)
      BY <2>11 DEF AttemptReturns, TypeOK, writer, shared, history
    <2> QED
      BY <1>1, <2>1, <2>2, <2>3, <2>4, <2>5, <2>6, <2>7, <2>8, <2>9, <2>10, <2>11
      DEF RequestStep
  <1>2. CASE TakeJob
    <2>1. Head(queue) \in Job /\ Tail(queue) \in Seq(Job)
          /\ Len(Tail(queue)) <= QueueCap
      BY <1>2, CooldownAssumption DEF TakeJob, TypeOK
    <2> QED
      BY <1>2, <2>1 DEF TakeJob, TypeOK, routing, shared, history
  <1>3. CASE MarkLands
    <2>1. running.kind \in Kind \cup {"none"} /\ running.until \in Nat
      BY DEF TypeOK, Job
    <2>2. row' \in Account
      BY Zenon, <1>0, <1>3, <2>1, MarkedType DEF MarkLands, TypeOK
    <2>3. running' \in Job
      BY Zenon, <1>3 DEF MarkLands, TypeOK, Job
    <2> QED
      BY <1>3, <2>2, <2>3 DEF MarkLands, TypeOK, routing, shared, history
  <1>4. CASE MarkEnds
    BY <1>4, JobType DEF MarkEnds, TypeOK, routing, shared, history
  <1>5. CASE ResetLands
    <2>1. row' \in Account
      BY Zenon, <1>5 DEF ResetLands, TypeOK, Account
    <2> QED
      BY <1>5, <2>1, JobType DEF ResetLands, TypeOK, routing, shared, history
  <1>6. CASE ClearLands
    <2>1. row' \in Account
      BY Zenon, <1>6 DEF ClearLands, TypeOK, Account
    <2>2. active' \in Write
      BY Zenon, <1>6 DEF ClearLands, Lifted, TypeOK, Write
    <2> QED
      BY <1>6, <2>1, <2>2, JobType DEF ClearLands, Lifted, TypeOK, routing
  <1>7. CASE JobFails
    BY <1>7, JobType DEF JobFails, TypeOK, routing, shared, history
  <1>8. CASE PersistLands
    <2>1. active.until \in Nat /\ active' \in Write
      BY Zenon, <1>8 DEF PersistLands, TypeOK, Write
    <2>2. row' \in Account
      BY Zenon, <1>0, <1>8, <2>1, MarkedType DEF PersistLands, TypeOK, Kind
    <2> QED
      BY <1>8, <2>1, <2>2 DEF PersistLands, TypeOK, routing, writer, history
  <1>9. ASSUME NEW how \in {"acked", "done"}, Settles(how) PROVE TypeOK'
    <2>1. active' \in Write
      BY <1>9, WriteType DEF Settles, TypeOK
    <2> QED
      BY <1>9, <2>1 DEF Settles, Forget, TypeOK, Phase, Waiting, writer
  <1>10. CASE PersistSettles \/ PersistFails
    BY <1>9, <1>10 DEF PersistSettles, PersistFails
  <1>11. CASE ClearExpiredRateLimits
    <2>1. row' \in Account
      BY Zenon, <1>11 DEF ClearExpiredRateLimits, TypeOK, Account
    <2>2. active' \in Write
      BY Zenon, <1>11 DEF ClearExpiredRateLimits, Lifted, TypeOK, Write
    <2> QED
      BY <1>11, <2>1, <2>2
      DEF ClearExpiredRateLimits, Lifted, TypeOK, routing, writer
  <1>12. CASE ForceReset
    <2>1. active' \in Write
      BY Zenon, <1>12 DEF ForceReset, Lifted, TypeOK, Write
    <2> QED
      BY <1>12, <2>1, WriteType DEF ForceReset, Lifted, TypeOK, routing, writer
  <1>13. CASE Tick
    BY <1>13, CooldownAssumption
    DEF Tick, TypeOK, routing, writer, shared, history
  <1>14. CASE UNCHANGED vars
    BY <1>14 DEF vars, TypeOK
  <1> QED
    BY <1>1, <1>2, <1>3, <1>4, <1>5, <1>6, <1>7, <1>8, <1>10, <1>11, <1>12,
       <1>13, <1>14 DEF Next

\* The types of the model, the capacity of the writer's queue among them.
THEOREM TypeCorrect == Spec => []TypeOK
  BY TypeInit, TypeNext, PTL DEF Spec

-----------------------------------------------------------------------------
(* No hold in force is shortened *)

\* Every write of a hold, early or late, queued or shared, extends the
\* deadline of the row or leaves it; all other statements lift it.
THEOREM HoldsOnlyLifted == Spec => HoldsNeverShorten
  <1>1. TypeOK /\ [Next]_vars
          => [row.until > now /\ row'.until < row.until => row'.until = 0]_vars
    <2> SUFFICES ASSUME TypeOK, Next
                 PROVE  row'.until = 0 \/ ~(row'.until < row.until)
      BY DEF vars
    <2>0. now \in Nat /\ row \in Account /\ row.until \in Nat
      BY CooldownAssumption DEF TypeOK, Account
    <2>1. CASE row' = row
      BY <2>0, <2>1
    <2>2. CASE MarkLands
      <3>1. running.kind \in Kind \cup {"none"} /\ running.until \in Nat
        BY DEF TypeOK, Job
      <3>2. row'.until >= row.until /\ row' \in Account
        BY <2>0, <2>2, <3>1, MarkedType DEF MarkLands
      <3> QED
        BY <2>0, <3>2 DEF Account
    <2>3. CASE PersistLands
      <3>1. active.until \in Nat /\ "quota" \in Kind \cup {"none"}
        BY DEF TypeOK, Write, Kind
      <3>2. row'.until >= row.until /\ row' \in Account
        BY <2>0, <2>3, <3>1, MarkedType DEF PersistLands
      <3> QED
        BY <2>0, <3>2 DEF Account
    <2>4. CASE ClearLands \/ ClearExpiredRateLimits \/ ForceReset
      BY <2>0, <2>4 DEF ClearLands, ClearExpiredRateLimits, ForceReset, Blank, Account
    <2>5. CASE ResetLands
      BY <2>0, <2>5 DEF ResetLands, Account
    <2>6. ASSUME NEW r \in Request, RequestStep(r) PROVE row' = row
      BY <2>6 DEF RequestStep, Select, Attempt, Limited, MidStreamLimited,
        ApplyRateLimitCooldown, ApplyAwaitingPersist, Succeeds, StreamEnds,
        Fails, Throws, AttemptReturns, PersistTimesOut
    <2>7. CASE TakeJob \/ MarkEnds \/ JobFails \/ PersistSettles \/ PersistFails \/ Tick
      BY <2>1, <2>7 DEF TakeJob, MarkEnds, JobFails, PersistSettles, PersistFails,
        Settles, Tick
    <2> QED
      BY <2>1, <2>2, <2>3, <2>4, <2>5, <2>6, <2>7 DEF Next
  <1> QED
    BY <1>1, TypeInit, TypeNext, PTL DEF Spec, HoldsNeverShorten

-----------------------------------------------------------------------------
(* A wait that ends well has its hold in the row *)

\* A request waits for a write that covers its hold, and a write that has
\* landed is in the row unless it was lifted; those who wait then know of it.
Covered ==
    /\ active.stage = "none" => pending = 0
    /\ active.cleared => active.stage = "landed"
    /\ \A r \in Request : phase[r] = "onActive" =>
          active.stage # "none" /\ hold[r] <= active.until
    /\ \A r \in Request : phase[r] = "onPending" =>
          pending # 0 /\ hold[r] <= pending
    /\ active.stage = "landed" /\ ~active.cleared => row.until >= active.until
    /\ \A r \in Request :
          phase[r] = "onActive" /\ active.stage = "landed" /\ active.cleared
          => cleared[r] \/ late[r]

\* Steps that touch neither the row, the writes nor those who wait.
LEMMA CoveredKept ==
    ASSUME Covered,
           UNCHANGED <<row, active, pending, cleared, late, hold>>,
           \A r \in Request : phase'[r] \in Waiting => phase'[r] = phase[r]
    PROVE  Covered'
  BY DEF Covered, Waiting

\* Steps that lift the hold.
LEMMA CoveredLifted ==
    ASSUME TypeOK, Covered, Lifted, UNCHANGED routing
    PROVE  Covered'
  BY Zenon DEF Covered, Lifted, TypeOK, Write, Waiting, routing

\* Steps that write a hold.
LEMMA CoveredMarked ==
    ASSUME TypeOK, Covered, row' \in Account, row'.until >= row.until,
           UNCHANGED <<active, pending, cleared, late, hold, phase>>
    PROVE  Covered'
  BY DEF Covered, TypeOK, Write, Account

LEMMA CoveredPersist ==
    ASSUME TypeOK, Covered, NEW r \in Request, phase[r] = "sent",
           NEW until \in Nat, Persist(r, until),
           hold' = [hold EXCEPT ![r] = until], UNCHANGED <<row, cleared>>
    PROVE  Covered'
  <1>0. /\ active.until \in Nat /\ active.cleared \in BOOLEAN /\ pending \in Nat
        /\ active.stage \in {"none", "sent", "landed"}
    BY DEF TypeOK, Write
  <1>1. CASE active.stage = "none"
    <2>1. /\ active' = NewWrite(until) /\ phase' = [phase EXCEPT ![r] = "onActive"]
          /\ UNCHANGED <<pending, late>>
      BY <1>1 DEF Persist
    <2>2. active'.until = until /\ active'.stage = "sent" /\ ~active'.cleared
      BY <2>1 DEF NewWrite
    <2> QED
      BY <1>0, <1>1, <2>1, <2>2 DEF Covered, TypeOK
  <1>2. CASE active.stage # "none" /\ until <= active.until
    <2>1. /\ phase' = [phase EXCEPT ![r] = "onActive"]
          /\ late' = [late EXCEPT ![r] = active.cleared]
          /\ UNCHANGED <<active, pending>>
      BY <1>2 DEF Persist, shared
    <2> QED
      BY <1>0, <1>2, <2>1 DEF Covered, TypeOK
  <1>3. CASE active.stage # "none" /\ ~(until <= active.until)
    <2>1. /\ phase' = [phase EXCEPT ![r] = "onPending"]
          /\ pending' = Greater(pending, until)
          /\ UNCHANGED <<active, late>>
      BY <1>3 DEF Persist
    <2>2. pending' >= pending /\ pending' >= until /\ pending' \in Nat /\ pending' # 0
      BY SMTT(30), <1>0, <1>3, <2>1, ComparisonType
    <2> QED
      BY <1>0, <1>3, <2>1, <2>2 DEF Covered, TypeOK
  <1> QED
    BY <1>1, <1>2, <1>3

LEMMA CoveredSettles ==
    ASSUME TypeOK, Covered, NEW how \in {"acked", "done"}, Settles(how)
    PROVE  Covered'
  <1>1. /\ pending' = 0
        /\ \A r \in Request : phase'[r] # "onPending"
        /\ \A r \in Request : phase'[r] = "onActive" =>
              phase[r] = "onPending" /\ hold'[r] = hold[r]
    BY DEF Settles, Forget, TypeOK
  <1>2. CASE pending = 0
    BY <1>1, <1>2 DEF Covered, Settles, NoWrite
  <1>3. CASE pending # 0
    <2>1. active'.stage = "sent" /\ active'.until = pending /\ ~active'.cleared
      BY <1>3 DEF Settles, NewWrite
    <2> QED
      BY <1>1, <1>3, <2>1 DEF Covered
  <1> QED
    BY <1>2, <1>3

LEMMA CoveredNext == TypeOK /\ Covered /\ [Next]_vars => Covered'
  <1> SUFFICES ASSUME TypeOK, Covered, [Next]_vars PROVE Covered'
    OBVIOUS
  <1>0. now \in Nat /\ row \in Account
    BY CooldownAssumption DEF TypeOK
  <1>1. ASSUME NEW r \in Request, RequestStep(r) PROVE Covered'
    <2>1. CASE Select(r) \/ Attempt(r) \/ Succeeds(r) \/ StreamEnds(r) \/ Fails(r)
               \/ Throws(r) \/ AttemptReturns(r)
      BY <2>1, CoveredKept DEF Select, Attempt, Succeeds, StreamEnds, Fails, Throws,
        AttemptReturns, Ends, TypeOK, Waiting, shared, history
    <2>2. CASE Limited(r) \/ MidStreamLimited(r)
      BY <2>2, CoveredKept DEF Limited, MidStreamLimited, ApplyRateLimitCooldown,
        Ends, TypeOK, Waiting, shared
    <2>3. CASE ApplyAwaitingPersist(r)
      <3>1. PICK delay \in ResetDelay :
              LET until == CooldownUntil(object[r], "quota", Reset(delay))
              IN /\ hold' = [hold EXCEPT ![r] = until]
                 /\ Persist(r, until)
                 /\ UNCHANGED <<row, cleared>>
                 /\ phase[r] = "sent"
        BY Zenon, <2>3 DEF ApplyAwaitingPersist
      <3> DEFINE until == CooldownUntil(object[r], "quota", Reset(delay))
      <3>2. until \in Nat
        BY <1>0, ResetType, CooldownUntilType
      <3> HIDE DEF until
      <3> QED
        BY Zenon, <3>1, <3>2, CoveredPersist DEF until
    <2>4. CASE PersistTimesOut(r)
      BY <2>4 DEF PersistTimesOut, Forget, Covered, TypeOK, shared
    <2> QED
      BY <1>1, <2>1, <2>2, <2>3, <2>4 DEF RequestStep
  <1>2. CASE TakeJob \/ MarkEnds \/ JobFails \/ Tick \/ UNCHANGED vars
    BY <1>2, CoveredKept DEF TakeJob, MarkEnds, JobFails, Tick, vars, routing,
      shared, history
  <1>3. CASE MarkLands
    <2>1. running.kind \in Kind \cup {"none"} /\ running.until \in Nat
      BY DEF TypeOK, Job
    <2>2. row'.until >= row.until /\ row' \in Account
      BY <1>0, <1>3, <2>1, MarkedType DEF MarkLands
    <2> QED
      BY <1>3, <2>2, CoveredMarked DEF MarkLands, routing, shared, history
  <1>4. CASE ResetLands
    <2>1. row' \in Account /\ row'.until = row.until /\ row.until \in Nat
      BY Zenon, <1>0, <1>4 DEF ResetLands, Account
    <2>2. row'.until >= row.until
      BY <2>1
    <2> QED
      BY <1>4, <2>1, <2>2, CoveredMarked DEF ResetLands, routing, shared, history
  <1>5. CASE ClearLands \/ ClearExpiredRateLimits \/ ForceReset
    BY <1>5, CoveredLifted DEF ClearLands, ClearExpiredRateLimits, ForceReset
  <1>6. CASE PersistLands
    <2>1. active.until \in Nat /\ "quota" \in Kind \cup {"none"}
      BY DEF TypeOK, Write, Kind
    <2>2. row'.until >= active.until
      BY <1>0, <1>6, <2>1, MarkedType DEF PersistLands
    <2>3. /\ active'.until = active.until /\ active'.stage = "landed"
          /\ active'.cleared = active.cleared
      BY <1>6 DEF PersistLands, TypeOK, Write
    <2> QED
      BY <1>6, <2>2, <2>3 DEF PersistLands, Covered, routing, history
  <1>7. CASE PersistSettles \/ PersistFails
    BY <1>7, CoveredSettles DEF PersistSettles, PersistFails
  <1> QED
    BY <1>1, <1>2, <1>3, <1>4, <1>5, <1>6, <1>7 DEF Next

\* A request whose wait for the row ended well finds its hold, or a longer
\* one, in the row, unless the hold was lifted since the write landed.
THEOREM AcknowledgedHoldsAreDurable == Spec => AcknowledgedIsDurable
  <1> DEFINE Durable == \A r \in Request :
                 phase[r] # "acked" /\ phase'[r] = "acked"
                 => row.until >= hold[r] \/ cleared[r] \/ late[r]
  <1>1. Init => Covered
    BY DEF Init, Covered, NoWrite
  <1>2. TypeOK /\ Covered /\ [Next]_vars => [Durable]_vars
    <2> SUFFICES ASSUME TypeOK, Covered, Next,
                        NEW r \in Request, phase[r] # "acked", phase'[r] = "acked"
                 PROVE  row.until >= hold[r] \/ cleared[r] \/ late[r]
      BY DEF vars
    <2>1. CASE PersistSettles
      <3>1. phase[r] = "onActive" /\ active.stage = "landed"
        BY <2>1 DEF PersistSettles, Settles, TypeOK
      <3>2. row.until \in Nat /\ hold[r] \in Nat /\ active.until \in Nat
        BY DEF TypeOK, Account, Write
      <3> QED
        BY <3>1, <3>2 DEF Covered
    <2>2. ASSUME NEW q \in Request, RequestStep(q) PROVE FALSE
      <3>0. CASE AttemptReturns(q)
        BY <3>0 DEF AttemptReturns
      <3>1. CASE ~AttemptReturns(q)
        <4>1. PICK p \in Phase \ {"acked"} : phase' = [phase EXCEPT ![q] = p]
          BY <2>2, <3>1 DEF RequestStep, Select, Attempt, Limited, MidStreamLimited,
            ApplyRateLimitCooldown, ApplyAwaitingPersist, Persist, Succeeds,
            StreamEnds, Fails, Throws, PersistTimesOut, Ends, Phase, Waiting
        <4> QED
          BY <4>1 DEF TypeOK
      <3> QED
        BY <3>0, <3>1
    <2>3. CASE PersistFails
      BY <2>3 DEF PersistFails, Settles, TypeOK
    <2>4. CASE phase' = phase
      BY <2>4
    <2>5. CASE TakeJob \/ MarkLands \/ MarkEnds \/ ResetLands \/ ClearLands
               \/ JobFails \/ PersistLands \/ ClearExpiredRateLimits \/ ForceReset
               \/ Tick
      BY <2>4, <2>5 DEF TakeJob, MarkLands, MarkEnds, ResetLands, ClearLands,
        JobFails, PersistLands, ClearExpiredRateLimits, ForceReset, Tick, routing
    <2> QED
      BY <2>1, <2>2, <2>3, <2>5 DEF Next
  <1> QED
    BY <1>1, <1>2, CoveredNext, TypeInit, TypeNext, PTL
    DEF Spec, AcknowledgedIsDurable

-----------------------------------------------------------------------------
(* The lease of the recovery probe *)

\* On every way out of an attempt the lease it took is returned, by the handler of the
\* answer or by the finally block.
THEOREM LeaseAlwaysHasProbe == Spec => []LeaseHasProbe
  <1>1. Init => LeaseHasProbe
    BY DEF Init, LeaseHasProbe
  <1>2. TypeOK /\ LeaseHasProbe /\ [Next]_vars => LeaseHasProbe'
    <2> SUFFICES ASSUME TypeOK, LeaseHasProbe, [Next]_vars, lease' # 0
                 PROVE  \E q \in Request : phase'[q] = "sent" /\ probe'[q]
      BY DEF LeaseHasProbe
    <2>1. ASSUME NEW r \in Request, RequestStep(r)
          PROVE  \E q \in Request : phase'[q] = "sent" /\ probe'[q]
      <3>1. CASE Limited(r) \/ MidStreamLimited(r) \/ ApplyAwaitingPersist(r)
                 \/ Succeeds(r) \/ Fails(r) \/ AttemptReturns(r)
        BY <3>1 DEF Limited, MidStreamLimited, ApplyRateLimitCooldown,
          ApplyAwaitingPersist, Succeeds, Fails, AttemptReturns
      <3>2. CASE Select(r) \/ StreamEnds(r) \/ PersistTimesOut(r)
        BY <3>2 DEF Select, StreamEnds, PersistTimesOut, Ends, Waiting, TypeOK,
          LeaseHasProbe
      <3>3. CASE Attempt(r)
        BY <3>3 DEF Attempt, TypeOK, LeaseHasProbe
      <3>4. CASE Throws(r)
        BY <3>4 DEF Throws, Ends, TypeOK, LeaseHasProbe
      <3> QED
        BY <2>1, <3>1, <3>2, <3>3, <3>4 DEF RequestStep
    <2>2. ASSUME NEW how \in {"acked", "done"}, Settles(how)
          PROVE  \E q \in Request : phase'[q] = "sent" /\ probe'[q]
      BY Zenon, <2>2 DEF Settles, TypeOK, LeaseHasProbe
    <2>3. CASE PersistSettles \/ PersistFails
      BY <2>2, <2>3 DEF PersistSettles, PersistFails
    <2>4. CASE \/ TakeJob \/ MarkLands \/ MarkEnds \/ ResetLands \/ ClearLands
               \/ JobFails \/ PersistLands \/ ClearExpiredRateLimits
               \/ ForceReset \/ Tick \/ UNCHANGED vars
      BY <2>4 DEF TakeJob, MarkLands, MarkEnds, ResetLands, ClearLands, JobFails,
        PersistLands, ClearExpiredRateLimits, ForceReset, Tick, vars, routing,
        LeaseHasProbe
    <2> QED
      BY <2>1, <2>3, <2>4 DEF Next
  <1> QED
    BY <1>1, <1>2, TypeInit, TypeNext, PTL DEF Spec

=============================================================================
