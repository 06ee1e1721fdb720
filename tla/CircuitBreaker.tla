--------------------------- MODULE CircuitBreaker ---------------------------
(***************************************************************************)
(* The per-account circuit breaker, packages/proxy/src/circuit-breaker.ts.  *)
(*                                                                         *)
(* The code keeps absolute timestamps and compares them with the injected   *)
(* `now'.  The model keeps what those comparisons see, the time that is     *)
(* left: `cooldown' is cooldownEndsAt - now, stopped at 0 (the code asks     *)
(* now < cooldownEndsAt), and `lease' is probeDeadlineAt - now, stopped at  *)
(* -1 (the code asks now > probeDeadlineAt).  Tick is the passing of time.  *)
(* No bound on the clock is needed and every run covers all of its reach.   *)
(* openedAt is only logged and is left out.                                 *)
(***************************************************************************)
EXTENDS Integers, Sequences

CONSTANTS
    Key,                \* the (provider, accountId) pairs
    FailureThreshold,
    OpenCooldown,       \* openCooldownMs
    HalfOpenBackoffMax, \* halfOpenBackoffMaxMs
    ProbeTtl,           \* probeTtlMs
    MaxTrackedKeys,
    Enabled             \* the CCFLARE_CIRCUIT_BREAKER kill switch

\* The relations between the defaults of lines 85-102: the lease of a probe
\* is no longer than the base cooldown, the base cooldown no longer than the cap.
ASSUME BreakerAssumption ==
    /\ FailureThreshold \in Nat \ {0}
    /\ OpenCooldown \in Nat \ {0}
    /\ HalfOpenBackoffMax \in Nat /\ OpenCooldown <= HalfOpenBackoffMax
    /\ ProbeTtl \in Nat \ {0} /\ ProbeTtl <= OpenCooldown
    /\ MaxTrackedKeys \in Nat \ {0}
    /\ Enabled \in BOOLEAN

VARIABLES
    entries,     \* the Map's values; state "absent" for a key it does not hold
    order,       \* the Map's insertion order
    probeAge,    \* history: time since the key's last half-open admission
    overlapped   \* history: keys that had a probe admitted within the lease of another

vars == <<entries, order, probeAge, overlapped>>

-----------------------------------------------------------------------------
Lesser(a, b) == IF a <= b THEN a ELSE b
Greater(a, b) == IF a >= b THEN a ELSE b

CircuitEntry ==
    [state: {"absent", "closed", "open", "half-open"},
     failureCount: Nat,
     cooldown: Nat,
     previousCooldown: Nat,
     probeInFlight: BOOLEAN,
     lease: Nat \cup {-1}]

\* The entry in each of its states.  Closed(0) is resetEntry and the literal with
\* which recordFailure creates an entry; an open entry remembers the cooldown it
\* was opened with; the cooldown of a half-open one has elapsed.
Closed(failures) ==
    [state |-> "closed", failureCount |-> failures, cooldown |-> 0,
     previousCooldown |-> OpenCooldown, probeInFlight |-> FALSE, lease |-> -1]

Open(failures, duration) ==
    [state |-> "open", failureCount |-> failures, cooldown |-> duration,
     previousCooldown |-> duration, probeInFlight |-> FALSE, lease |-> -1]

HalfOpen(failures, previous) ==
    [state |-> "half-open", failureCount |-> failures, cooldown |-> 0,
     previousCooldown |-> previous, probeInFlight |-> TRUE, lease |-> ProbeTtl]

NoEntry ==
    [state |-> "absent", failureCount |-> 0, cooldown |-> 0,
     previousCooldown |-> OpenCooldown, probeInFlight |-> FALSE, lease |-> -1]

UncountedKinds ==
    {"model_fallback_429", "out_of_credits", "extra_usage_exhausted",
     "model_scoped_429", "windowless_429"}

FailureKind ==
    UncountedKinds \cup
    {"upstream_429_with_reset", "upstream_429_no_reset_default_5h",
     "upstream_429_no_reset_probe_cooldown", "all_models_exhausted_429",
     "upstream_529_overloaded_with_reset", "upstream_529_overloaded_no_reset",
     "upstream_402_payment_required", "xai_capacity_402", "org_permission_denied"}

ShouldCountAsCircuitFailure(kind) == kind \notin UncountedKinds

Init ==
    /\ entries = [k \in Key |-> NoEntry]
    /\ order = <<>>
    /\ probeAge = [k \in Key |-> ProbeTtl]
    /\ overlapped = {}

-----------------------------------------------------------------------------
AdmitsProbeAlways(e) == \* mutant: a half-open entry ignores the probe in flight
    (e.state = "open" /\ e.cooldown = 0) \/ e.state = "half-open"

AdmitsProbeOnce(e) == \* mutant: an abandoned probe keeps its slot for ever
    \/ e.state = "open" /\ e.cooldown = 0
    \/ e.state = "half-open" /\ ~e.probeInFlight

\* An open circuit is promoted once its cooldown has elapsed; a half-open one
\* re-admits only when the lease of the probe in flight has run out.
AdmitsProbe(e) ==
    \/ e.state = "open" /\ e.cooldown = 0
    \/ e.state = "half-open" /\ (e.probeInFlight => e.lease < 0)

\* shouldAllow answers true without a state change for an absent or a closed
\* entry, and false without one when it admits no probe: those calls stutter.
ShouldAllow(k) ==
    /\ Enabled
    /\ AdmitsProbe(entries[k])
    /\ entries' = [entries EXCEPT ![k] = HalfOpen(@.failureCount, @.previousCooldown)]
    /\ probeAge' = [probeAge EXCEPT ![k] = 0]
    /\ overlapped' = IF probeAge[k] < ProbeTtl THEN overlapped \cup {k} ELSE overlapped
    /\ UNCHANGED order

RecordSuccess(k) ==
    /\ Enabled
    /\ \/ entries[k].state = "half-open"
       \/ entries[k].state = "closed" /\ entries[k].failureCount > 0
    /\ entries' = [entries EXCEPT ![k] = Closed(0)]
    /\ UNCHANGED <<order, probeAge, overlapped>>

\* The active-clear job (server.ts) found the account's own rate limit expired.
ForceClose(k) ==
    /\ Enabled
    /\ entries[k].state # "absent"
    /\ ~(entries[k].state = "closed" /\ entries[k].failureCount = 0)
    /\ entries' = [entries EXCEPT ![k] = Closed(0)]
    /\ UNCHANGED <<order, probeAge, overlapped>>

FailedToBase(e) == \* mutant: a stale failure resets the backoff to the base
    CASE e.state = "half-open" ->
           Open(e.failureCount, Lesser(2 * e.previousCooldown, HalfOpenBackoffMax))
      [] e.state = "open" -> Open(e.failureCount, OpenCooldown)
      [] OTHER -> IF e.failureCount + 1 >= FailureThreshold
                  THEN Open(e.failureCount + 1, OpenCooldown)
                  ELSE Closed(e.failureCount + 1)

\* What a counted failure makes of an entry.
Failed(e) ==
    CASE e.state = "half-open" ->
           Open(e.failureCount, Lesser(2 * e.previousCooldown, HalfOpenBackoffMax))
      [] e.state = "open" ->
           Open(e.failureCount,
                Greater(OpenCooldown, Lesser(e.previousCooldown, HalfOpenBackoffMax)))
      [] OTHER ->
           IF e.failureCount + 1 >= FailureThreshold
           THEN Open(e.failureCount + 1, OpenCooldown)
           ELSE Closed(e.failureCount + 1)

\* evictIfOverCapacity: the new key was inserted last and the Map holds at least
\* one other, so the oldest key that is not protected is the first one.
EvictsOldest == Len(order) + 1 > MaxTrackedKeys

RecordFailure(k, kind) ==
    /\ Enabled
    /\ ShouldCountAsCircuitFailure(kind)
    /\ IF entries[k].state # "absent"
       THEN /\ entries' = [entries EXCEPT ![k] = Failed(@)]
            /\ UNCHANGED order
       ELSE /\ entries' = [x \in Key |->
                  IF x = k THEN Failed(Closed(0))
                  ELSE IF EvictsOldest /\ x = Head(order) THEN NoEntry
                  ELSE entries[x]]
            /\ order' = Append(IF EvictsOldest THEN Tail(order) ELSE order, k)
    /\ UNCHANGED <<probeAge, overlapped>>

Tick ==
    /\ entries' = [k \in Key |->
          [entries[k] EXCEPT !.cooldown = Greater(@ - 1, 0),
                             !.lease = Greater(@ - 1, -1)]]
    /\ probeAge' = [k \in Key |-> Lesser(probeAge[k] + 1, ProbeTtl)]
    /\ UNCHANGED <<order, overlapped>>

Calls(k) ==
    \/ ShouldAllow(k)
    \/ RecordSuccess(k)
    \/ ForceClose(k)
    \/ \E kind \in FailureKind : RecordFailure(k, kind)

Next == Tick \/ \E k \in Key : Calls(k)

Spec == Init /\ [][Next]_vars

\* Time passes, and requests that ask shouldAllow keep arriving for every account.
FairSpec == Spec /\ WF_vars(Tick) /\ \A k \in Key : WF_vars(ShouldAllow(k))
-----------------------------------------------------------------------------
(***************************************************************************)
(* Properties                                                              *)
(***************************************************************************)

\* Every entry has the shape of CircuitEntry and the history variables their ranges.
TypeOK ==
    /\ entries \in [Key -> CircuitEntry]
    /\ order \in Seq(Key)
    /\ probeAge \in [Key -> 0..ProbeTtl]
    /\ overlapped \in SUBSET Key

\* "Admit EXACTLY ONE probe": whatever sequence of closings, evictions, re-openings,
\* late results and abandoned leases lies between them, two half-open admissions
\* of shouldAllow for one account are never less than a probe lease apart.
NoOverlappingProbes == overlapped = {}

\* A half-open entry always has a probe in flight (the last two assignments of
\* shouldAllow are never reached), and the backoff stays between the base
\* cooldown and the cap of recordFailure whatever order failures arrive in.
BackoffBounded ==
    \A k \in Key :
        /\ entries[k].state = "half-open" => entries[k].probeInFlight
        /\ entries[k].previousCooldown \in OpenCooldown..HalfOpenBackoffMax
        /\ entries[k].cooldown <= entries[k].previousCooldown
        /\ entries[k].state \in {"open", "half-open"} <=> entries[k].failureCount >= FailureThreshold

\* A failure that reaches an open or a half-open circuit never brings the next
\* probe nearer and never discards an escalated backoff (recordFailure, "PRESERVE
\* the escalated backoff"): only closing the circuit does.
BackoffKept ==
    [][\A k \in Key, kind \in FailureKind :
          RecordFailure(k, kind) /\ entries[k].state \in {"open", "half-open"}
            => /\ entries'[k].state = "open"
               /\ entries'[k].cooldown >= entries[k].cooldown
               /\ entries'[k].previousCooldown >= entries[k].previousCooldown]_vars

\* Once an account's failures cease, an open or half-open circuit is either closed
\* (or dropped from the Map) or admits a probe again: neither a long cooldown nor
\* an abandoned probe wedges the account (the lease of lines 92-102).
NotWedged ==
    \A k \in Key :
        <>[][\A kind \in FailureKind : ~RecordFailure(k, kind)]_vars
          => (entries[k].state \in {"open", "half-open"}
                ~> (entries[k].state \in {"closed", "absent"} \/ probeAge[k] = 0))
=============================================================================
