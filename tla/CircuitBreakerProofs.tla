------------------------ MODULE CircuitBreakerProofs ------------------------
(***************************************************************************)
(* Proofs about the circuit breaker, for every set of keys and every value  *)
(* of the thresholds and durations that BreakerAssumption allows.           *)
(***************************************************************************)
EXTENDS CircuitBreaker, TLAPS

\* The clocks of an entry stay in their ranges when time passes.
LEMMA CountdownType ==
    /\ \A c \in Nat : Greater(c - 1, 0) \in Nat
    /\ \A l \in Nat \cup {-1} : Greater(l - 1, -1) \in Nat \cup {-1}
    /\ \A a \in 0..ProbeTtl : Lesser(a + 1, ProbeTtl) \in 0..ProbeTtl
  BY BreakerAssumption DEF Greater, Lesser

\* What a failure makes of an entry is an entry (recordFailure's three branches).
LEMMA FailedType ==
    ASSUME NEW e \in CircuitEntry
    PROVE  Failed(e) \in CircuitEntry
  <1> USE BreakerAssumption DEF CircuitEntry, Lesser, Greater, Open, Closed
  <1>1. CASE e.state = "half-open"
    BY <1>1 DEF Failed
  <1>2. CASE e.state = "open"
    BY <1>2 DEF Failed
  <1>3. CASE e.state \in {"absent", "closed"}
    BY <1>3 DEF Failed
  <1> QED BY <1>1, <1>2, <1>3

LEMMA FreshType == Closed(0) \in CircuitEntry /\ NoEntry \in CircuitEntry
  BY BreakerAssumption DEF Closed, NoEntry, CircuitEntry

\* The breaker keeps its types through every call and every passing of time.
THEOREM TypeCorrect == Spec => []TypeOK
  <1> USE BreakerAssumption
  <1>1. Init => TypeOK
    BY FreshType DEF Init, TypeOK
  <1>2. TypeOK /\ [Next]_vars => TypeOK'
    <2> SUFFICES ASSUME TypeOK, [Next]_vars PROVE TypeOK'
      OBVIOUS
    <2>1. CASE Tick
      <3>1. ASSUME NEW k \in Key PROVE entries'[k] \in CircuitEntry
        <4>1. entries[k].cooldown \in Nat /\ entries[k].lease \in Nat \cup {-1}
          BY DEF TypeOK, CircuitEntry
        <4>3. /\ Greater(entries[k].cooldown - 1, 0) \in Nat
              /\ Greater(entries[k].lease - 1, -1) \in Nat \cup {-1}
          BY <4>1, CountdownType
        <4>2. ASSUME NEW e \in CircuitEntry, NEW c \in Nat, NEW l \in Nat \cup {-1}
              PROVE [e EXCEPT !.cooldown = c, !.lease = l] \in CircuitEntry
          BY Zenon DEF CircuitEntry
        <4> QED BY Zenon, <4>2, <4>3, <2>1 DEF Tick, TypeOK
      <3>2. probeAge' \in [Key -> 0..ProbeTtl]
        BY Zenon, <2>1, CountdownType DEF Tick, TypeOK
      <3> QED BY Zenon, <3>1, <3>2, <2>1 DEF Tick, TypeOK
    <2>2. ASSUME NEW k \in Key, ShouldAllow(k) PROVE TypeOK'
      <3>1. HalfOpen(entries[k].failureCount, entries[k].previousCooldown) \in CircuitEntry
        BY DEF TypeOK, CircuitEntry, HalfOpen
      <3>2. probeAge' \in [Key -> 0..ProbeTtl] /\ overlapped' \in SUBSET Key
        BY <2>2 DEF ShouldAllow, TypeOK
      <3> QED BY <3>1, <3>2, <2>2 DEF ShouldAllow, TypeOK
    <2>3. ASSUME NEW k \in Key, RecordSuccess(k) PROVE TypeOK'
      BY <2>3, FreshType DEF RecordSuccess, TypeOK
    <2>4. ASSUME NEW k \in Key, ForceClose(k) PROVE TypeOK'
      BY <2>4, FreshType DEF ForceClose, TypeOK
    <2>5. ASSUME NEW k \in Key, NEW kind \in FailureKind, RecordFailure(k, kind)
          PROVE TypeOK'
      <3>1. entries' \in [Key -> CircuitEntry]
        <4>1. CASE entries[k].state # "absent"
          <5>1. Failed(entries[k]) \in CircuitEntry
            BY FailedType DEF TypeOK
          <5> QED BY <5>1, <4>1, <2>5 DEF RecordFailure, TypeOK
        <4>2. CASE entries[k].state = "absent"
          <5>1. Failed(Closed(0)) \in CircuitEntry
            BY FailedType, FreshType
          <5> QED BY Zenon, <5>1, <4>2, <2>5, FreshType DEF RecordFailure, TypeOK
        <4> QED BY <4>1, <4>2
      <3>2. order' \in Seq(Key)
        <4>1. EvictsOldest => order # <<>>
          BY DEF EvictsOldest, TypeOK
        <4>2. (IF EvictsOldest THEN Tail(order) ELSE order) \in Seq(Key)
          BY <4>1 DEF TypeOK
        <4>3. order' = order \/ order' = Append(IF EvictsOldest THEN Tail(order) ELSE order, k)
          BY <2>5 DEF RecordFailure
        <4>4. ASSUME NEW s \in Seq(Key) PROVE Append(s, k) \in Seq(Key)
          OBVIOUS
        <4> QED BY Zenon, <4>2, <4>3, <4>4 DEF TypeOK
      <3> QED BY <3>1, <3>2, <2>5 DEF RecordFailure, TypeOK
    <2>6. CASE UNCHANGED vars
      BY <2>6 DEF vars, TypeOK
    <2> QED BY <2>1, <2>2, <2>3, <2>4, <2>5, <2>6 DEF Next, Calls
  <1> QED BY <1>1, <1>2, PTL DEF Spec

-----------------------------------------------------------------------------
\* A failure of an entry within its bounds: it is open with a fresh cooldown between
\* the base and the cap, or it is closed and below the threshold.
LEMMA FailedBounded ==
    ASSUME NEW e \in CircuitEntry, e.previousCooldown \in OpenCooldown..HalfOpenBackoffMax,
           e.state \in {"open", "half-open"} <=> e.failureCount >= FailureThreshold
    PROVE  LET f == Failed(e) IN
           /\ f.state \in {"open", "closed"}
           /\ f.previousCooldown \in OpenCooldown..HalfOpenBackoffMax
           /\ f.cooldown <= f.previousCooldown
           /\ f.state = "open" => f.cooldown >= ProbeTtl /\ f.failureCount >= FailureThreshold
           /\ f.state = "closed" => f.failureCount < FailureThreshold
  <1> USE BreakerAssumption DEF CircuitEntry, Lesser, Greater, Open, Closed
  <1>1. CASE e.state = "half-open"
    BY <1>1 DEF Failed
  <1>2. CASE e.state = "open"
    BY <1>2 DEF Failed
  <1>3. CASE e.state \in {"absent", "closed"}
    BY <1>3 DEF Failed
  <1> QED BY <1>1, <1>2, <1>3

\* BackoffBounded and ProbeLeaseGuarded for one entry and its probe's age.
EntryBounded(e) ==
    /\ e.state = "half-open" => e.probeInFlight
    /\ e.previousCooldown \in OpenCooldown..HalfOpenBackoffMax
    /\ e.cooldown <= e.previousCooldown
    /\ e.state \in {"open", "half-open"} <=> e.failureCount >= FailureThreshold

LeaseGuarded(e, age) ==
    age < ProbeTtl =>
        /\ e.state = "open" => age + e.cooldown >= ProbeTtl
        /\ e.state = "half-open" => e.probeInFlight /\ age + e.lease >= ProbeTtl

Inv ==
    /\ TypeOK
    /\ NoOverlappingProbes
    /\ \A k \in Key : EntryBounded(entries[k]) /\ LeaseGuarded(entries[k], probeAge[k])

LEMMA FailedGuarded ==
    ASSUME NEW e \in CircuitEntry, EntryBounded(e), NEW age \in 0..ProbeTtl
    PROVE  EntryBounded(Failed(e)) /\ LeaseGuarded(Failed(e), age)
  <1>1. Failed(e) \in CircuitEntry
    BY FailedType
  <1> QED BY <1>1, FailedBounded, BreakerAssumption DEF EntryBounded, LeaseGuarded, CircuitEntry

LEMMA FreshGuarded ==
    ASSUME NEW age \in 0..ProbeTtl
    PROVE  /\ EntryBounded(Closed(0)) /\ LeaseGuarded(Closed(0), age)
           /\ EntryBounded(NoEntry) /\ LeaseGuarded(NoEntry, age)
  BY BreakerAssumption DEF EntryBounded, LeaseGuarded, Closed, NoEntry

\* Time takes one unit from the lease or the cooldown and adds one to the age.
LEMMA TickGuarded ==
    ASSUME NEW e \in CircuitEntry, NEW age \in 0..ProbeTtl,
           EntryBounded(e), LeaseGuarded(e, age)
    PROVE  LET f == [e EXCEPT !.cooldown = Greater(@ - 1, 0), !.lease = Greater(@ - 1, -1)] IN
           EntryBounded(f) /\ LeaseGuarded(f, Lesser(age + 1, ProbeTtl))
  <1> DEFINE f == [e EXCEPT !.cooldown = Greater(@ - 1, 0), !.lease = Greater(@ - 1, -1)]
  <1>1. /\ f.state = e.state /\ f.failureCount = e.failureCount
        /\ f.previousCooldown = e.previousCooldown /\ f.probeInFlight = e.probeInFlight
        /\ f.cooldown = Greater(e.cooldown - 1, 0) /\ f.lease = Greater(e.lease - 1, -1)
    BY DEF CircuitEntry
  <1>2. /\ e.cooldown \in Nat /\ e.lease \in Nat \cup {-1} /\ e.previousCooldown \in Nat
        /\ e.failureCount \in Nat
    BY DEF CircuitEntry
  <1> HIDE DEF f
  <1>3. EntryBounded(f)
    BY <1>1, <1>2, BreakerAssumption DEF EntryBounded, Greater
  <1>4. LeaseGuarded(f, Lesser(age + 1, ProbeTtl))
    BY <1>1, <1>2, BreakerAssumption DEF LeaseGuarded, Greater, Lesser
  <1> QED BY <1>3, <1>4 DEF f

\* Inv is inductive: one step per call of the breaker, and one for time.
THEOREM InvCorrect == Spec => []Inv
  <1> USE BreakerAssumption
  <1>1. Init => Inv
    <2> SUFFICES ASSUME Init PROVE Inv
      OBVIOUS
    <2>1. TypeOK
      BY FreshType DEF Init, TypeOK
    <2> QED BY <2>1, FreshGuarded DEF Init, Inv, NoOverlappingProbes
  <1>2. Inv /\ TypeOK' /\ [Next]_vars => Inv'
    <2> SUFFICES ASSUME Inv, TypeOK', [Next]_vars PROVE Inv'
      OBVIOUS
    <2>1. CASE Tick
      <3>1. ASSUME NEW k \in Key
            PROVE  EntryBounded(entries'[k]) /\ LeaseGuarded(entries'[k], probeAge'[k])
        BY Zenon, <2>1, TickGuarded DEF Tick, Inv, TypeOK
      <3> QED BY Zenon, <3>1, <2>1 DEF Tick, Inv, NoOverlappingProbes
    <2>2. ASSUME NEW k \in Key, ShouldAllow(k) PROVE Inv'
      <3>1. probeAge[k] = ProbeTtl
        <4>1. /\ entries[k] \in CircuitEntry /\ probeAge[k] \in 0..ProbeTtl
              /\ LeaseGuarded(entries[k], probeAge[k])
          BY DEF Inv, TypeOK
        <4>2. AdmitsProbe(entries[k])
          BY <2>2 DEF ShouldAllow
        <4>3. entries[k].lease \in Nat \cup {-1} /\ entries[k].cooldown \in Nat
          BY <4>1 DEF CircuitEntry
        <4> QED BY <4>1, <4>2, <4>3 DEF AdmitsProbe, LeaseGuarded
      <3>2. EntryBounded(entries'[k]) /\ LeaseGuarded(entries'[k], probeAge'[k])
        <4>1. /\ entries'[k] = HalfOpen(entries[k].failureCount, entries[k].previousCooldown)
              /\ probeAge'[k] = 0
          BY <2>2 DEF ShouldAllow, Inv, TypeOK
        <4>2. entries[k].state \in {"open", "half-open"} /\ entries[k] \in CircuitEntry
          BY <2>2 DEF ShouldAllow, AdmitsProbe, Inv, TypeOK
        <4>3. EntryBounded(entries[k])
          BY DEF Inv
        <4> QED BY <4>1, <4>2, <4>3 DEF EntryBounded, LeaseGuarded, HalfOpen, CircuitEntry
      <3>3. ASSUME NEW j \in Key, j # k
            PROVE  EntryBounded(entries'[j]) /\ LeaseGuarded(entries'[j], probeAge'[j])
        BY <2>2, <3>3 DEF ShouldAllow, Inv, TypeOK
      <3>4. NoOverlappingProbes'
        BY <2>2, <3>1 DEF ShouldAllow, Inv, NoOverlappingProbes
      <3> QED BY <3>2, <3>3, <3>4 DEF Inv
    <2>3. ASSUME NEW k \in Key, RecordSuccess(k) \/ ForceClose(k) PROVE Inv'
      <3>1. ASSUME NEW j \in Key
            PROVE  EntryBounded(entries'[j]) /\ LeaseGuarded(entries'[j], probeAge'[j])
        BY <2>3, FreshGuarded DEF RecordSuccess, ForceClose, Inv, TypeOK
      <3> QED BY <2>3, <3>1 DEF RecordSuccess, ForceClose, Inv, NoOverlappingProbes
    <2>4. ASSUME NEW k \in Key, NEW kind \in FailureKind, RecordFailure(k, kind)
          PROVE  Inv'
      <3>1. ASSUME NEW j \in Key
            PROVE  EntryBounded(entries'[j]) /\ LeaseGuarded(entries'[j], probeAge'[j])
        <4>1. /\ EntryBounded(Failed(entries[k])) /\ LeaseGuarded(Failed(entries[k]), probeAge[k])
          BY FailedGuarded DEF Inv, TypeOK
        <4>2. /\ EntryBounded(Failed(Closed(0))) /\ LeaseGuarded(Failed(Closed(0)), probeAge[k])
          BY FailedGuarded, FreshGuarded, FreshType DEF Inv, TypeOK
        <4>3. \/ entries'[j] = entries[j]
              \/ entries'[j] = NoEntry
              \/ j = k /\ entries'[j] \in {Failed(entries[k]), Failed(Closed(0))}
          BY <2>4 DEF RecordFailure, Inv, TypeOK
        <4>4. probeAge' = probeAge
          BY <2>4 DEF RecordFailure
        <4> QED BY <4>1, <4>2, <4>3, <4>4, FreshGuarded DEF Inv, TypeOK
      <3> QED BY <2>4, <3>1 DEF RecordFailure, Inv, NoOverlappingProbes
    <2>5. CASE UNCHANGED vars
      BY <2>5 DEF vars, Inv, NoOverlappingProbes
    <2> QED BY <2>1, <2>2, <2>3, <2>4, <2>5 DEF Next, Calls
  <1> QED BY <1>1, <1>2, TypeCorrect, PTL DEF Spec

\* Two half-open admissions of shouldAllow for one account are never less than a
\* probe lease apart, whatever closes, evicts or re-opens the circuit in between.
THEOREM ProbesNeverOverlap == Spec => []NoOverlappingProbes
  <1>1. Inv => NoOverlappingProbes
    BY DEF Inv
  <1> QED BY <1>1, InvCorrect, PTL

\* The backoff of recordFailure never leaves the range from the base cooldown to the
\* cap, and a half-open entry always has its probe in flight.
THEOREM BackoffStaysBounded == Spec => []BackoffBounded
  <1>1. Inv => BackoffBounded
    BY Zenon DEF Inv, BackoffBounded, EntryBounded
  <1> QED BY <1>1, InvCorrect, PTL

\* A failure of an open or a half-open entry keeps what backoff there is.
LEMMA FailedKeeps ==
    ASSUME NEW e \in CircuitEntry, EntryBounded(e), e.state \in {"open", "half-open"}
    PROVE  LET f == Failed(e) IN
           /\ f.state = "open"
           /\ f.cooldown >= e.cooldown
           /\ f.previousCooldown >= e.previousCooldown
  <1> USE BreakerAssumption DEF CircuitEntry, EntryBounded, Lesser, Greater, Open
  <1>1. CASE e.state = "half-open"
    BY <1>1 DEF Failed
  <1>2. CASE e.state = "open"
    BY <1>2 DEF Failed
  <1> QED BY <1>1, <1>2

\* recordFailure's "PRESERVE the escalated backoff": a failure, fresh or stale, that
\* reaches an open or a half-open circuit leaves it open, brings the next probe no
\* nearer and gives up nothing of the escalation.  It takes BackoffBounded: doubling
\* at the cap, and re-arming from a backoff above it, would otherwise shorten it.
THEOREM BackoffNeverShrinks == Spec => BackoffKept
  <1>1. ASSUME Inv, NEW k \in Key, NEW kind \in FailureKind, RecordFailure(k, kind),
               entries[k].state \in {"open", "half-open"}
        PROVE  /\ entries'[k].state = "open"
               /\ entries'[k].cooldown >= entries[k].cooldown
               /\ entries'[k].previousCooldown >= entries[k].previousCooldown
    <2>1. entries \in [Key -> CircuitEntry] /\ entries[k] \in CircuitEntry /\ EntryBounded(entries[k])
      BY <1>1 DEF Inv, TypeOK
    <2>2. entries'[k] = Failed(entries[k])
      BY <1>1, <2>1 DEF RecordFailure
    <2> QED BY <1>1, <2>1, <2>2, FailedKeeps
  <1>2. Inv /\ [Next]_vars =>
          [\A k \in Key, kind \in FailureKind :
             RecordFailure(k, kind) /\ entries[k].state \in {"open", "half-open"}
               => /\ entries'[k].state = "open"
                  /\ entries'[k].cooldown >= entries[k].cooldown
                  /\ entries'[k].previousCooldown >= entries[k].previousCooldown]_vars
    BY <1>1
  <1> QED BY <1>2, InvCorrect, PTL DEF BackoffKept, Spec

=============================================================================
