---------------------------- MODULE DegradedMode ----------------------------
(***************************************************************************)
(* The Anthropic degraded-mode coordinator                                 *)
(* (packages/proxy/src/anthropic-degraded-mode.ts) in "enforce" mode, with *)
(* the lifecycle adapter that owns a committed permit                      *)
(* (anthropic-degraded-response-lifecycle.ts) and the places of            *)
(* handlers/proxy-operations.ts that reserve, commit, cancel and settle.   *)
(*                                                                         *)
(* A cohort (endpoint, model family, protocol) that overloads Quorum       *)
(* accounts within EvidenceWindow is opened: large requests are refused    *)
(* until nextProbeAt, then one of them may probe.  A successful probe      *)
(* starts a recovery window in which every large request gets one send.    *)
(*                                                                         *)
(* Every deadline of the code is kept as the time left until it, counted   *)
(* down to zero by Tick; the expiries stay lazy, as in pruneEntry.  Small  *)
(* requests, and large ones of an unprotected cohort, are sent without a   *)
(* permit: the model sees only their overload answers (Observe).           *)
(***************************************************************************)
EXTENDS Integers, FiniteSets

CONSTANTS
    Key,             \* cohort keys
    Account,         \* underlying account ids
    Request,         \* large requests, each with one protected send
    None,            \* no Retry-After header, no account, no holder
    RetryAfter,      \* the numeric Retry-After values an answer may carry
    Quorum, MaxCohorts, EvidenceWindow, RecoveryWindow, ProbeLease,
    RetryMin, RetryFallback, RetryMax,
    MaxEpoch,        \* bound: cohort entries ever created
    MaxGeneration    \* bound: transitions of one entry

ASSUME DegradedAssumption ==
    /\ Quorum \in Nat \ {0} /\ MaxCohorts \in Nat \ {0}
    /\ EvidenceWindow \in Nat \ {0} /\ RecoveryWindow \in Nat \ {0}
    /\ ProbeLease \in Nat \ {0}
    /\ RetryMin \in Nat \ {0} /\ RetryMax \in Nat
    /\ RetryFallback \in RetryMin..RetryMax
    /\ RetryAfter \subseteq Int
    /\ MaxEpoch \in Nat /\ MaxGeneration \in Nat \ {0}
    /\ IsFiniteSet(Key)
    /\ None \notin Account \cup Request \cup Key \cup Int

VARIABLES
    cohort,     \* the cohorts map; an absent entry has state "absent"
    nextEpoch,  \* nextEntryEpoch
    permit,     \* the FencedPermit of each request
    sending,    \* where the request's handler is
    settled,    \* settled of the request's lifecycle adapter
    owed,       \* history: longest Retry-After left since protection opened
    holder      \* history: the request that was granted the last probe

coordinator == <<cohort, nextEpoch>>
history == <<owed, holder>>
vars == <<cohort, nextEpoch, permit, sending, settled, owed, holder>>

-----------------------------------------------------------------------------
(* Data *)

Header == RetryAfter \cup {None}
Protected == {"open", "probing", "recovering"}
Unseen == -1

Lease == [gen : 0..MaxGeneration, account : Account \cup {None},
          left : 0..ProbeLease, committed : BOOLEAN]
NoLease == [gen |-> 0, account |-> None, left |-> 0, committed |-> FALSE]
NoEvidence == [a \in Account |-> Unseen]

Entry == [state : {"absent", "collecting"} \cup Protected,
          epoch : 0..MaxEpoch, gen : 0..MaxGeneration,
          evidence : [Account -> Unseen..EvidenceWindow],
          wait : 0..RetryMax, lease : Lease, stable : 0..RecoveryWindow]
Absent == [state |-> "absent", epoch |-> 0, gen |-> 0,
           evidence |-> NoEvidence, wait |-> 0, lease |-> NoLease, stable |-> 0]

Permit == [phase : {"none", "reserved", "committed", "terminal"},
           kind : {"probe", "recovery_send"},
           key : Key \cup {None}, account : Account \cup {None},
           epoch : 0..MaxEpoch, gen : 0..MaxGeneration, left : 0..ProbeLease]
NoPermit == [phase |-> "none", kind |-> "probe", key |-> None,
             account |-> None, epoch |-> 0, gen |-> 0, left |-> 0]

Larger(x, y) == IF x > y THEN x ELSE y
Less(x) == IF x > 0 THEN x - 1 ELSE x

-----------------------------------------------------------------------------
(* The coordinator's operations on one entry *)

Sanitize(ra) ==
    LET wanted == IF ra = None THEN RetryFallback ELSE ra
    IN  IF wanted < RetryMin THEN RetryMin
        ELSE IF wanted > RetryMax THEN RetryMax ELSE wanted

\* Forgets the deadline that is already set.
OverwriteDeadline(e, ra) ==
    [state |-> "open", epoch |-> e.epoch, gen |-> e.gen + 1,
     evidence |-> NoEvidence, wait |-> Sanitize(ra), lease |-> NoLease,
     stable |-> 0]

TransitionToOpen(e, ra) ==
    [state |-> "open", epoch |-> e.epoch, gen |-> e.gen + 1,
     evidence |-> NoEvidence, wait |-> Larger(e.wait, Sanitize(ra)),
     lease |-> NoLease, stable |-> 0]

LiveEvidence(e) ==
    [a \in Account |-> IF e.evidence[a] > 0 THEN e.evidence[a] ELSE Unseen]

Witnesses(evidence) == {a \in Account : evidence[a] # Unseen}

\* Takes elapsed time for proof that the transport is gone.
ExpireAnyLease(e) == e.state = "probing" /\ e.lease.left = 0

LeaseLapsed(e) ==
    e.state = "probing" /\ ~e.lease.committed /\ e.lease.left = 0

PruneEntry(e) ==
    CASE e.state = "collecting" ->
           IF Witnesses(LiveEvidence(e)) = {} THEN Absent
           ELSE [e EXCEPT !.evidence = LiveEvidence(e)]
      [] e.state = "recovering" /\ e.stable = 0 -> Absent
      [] LeaseLapsed(e) -> TransitionToOpen(e, RetryMin)
      [] OTHER -> e

PruneAll(c) == [k \in Key |-> PruneEntry(c[k])]

-----------------------------------------------------------------------------
(* recordOutcome and makeCollectingEntry, on the whole map *)

Retained(c) == {k \in Key : c[k].state # "absent"}

\* Evicts whatever entry is oldest.
EvictAnything(c) == Retained(c)

Evictable(c) == {k \in Key : c[k].state = "collecting"}

\* The minimum of no evidence is Infinity.
Oldest(c, k) ==
    LET times == {c[k].evidence[a] : a \in Witnesses(c[k].evidence)}
    IN  IF times = {} THEN EvidenceWindow + 1
        ELSE CHOOSE x \in times : \A y \in times : x <= y

IsOlder(c, i, j) ==
    \/ Oldest(c, i) < Oldest(c, j)
    \/ Oldest(c, i) = Oldest(c, j) /\ c[i].epoch <= c[j].epoch

Churn(c, a) == {k \in Evictable(c) : Witnesses(c[k].evidence) = {a}}

Evict(c, a) ==
    LET pool == IF Churn(c, a) # {} THEN Churn(c, a) ELSE Evictable(c)
    IN  IF Cardinality(Retained(c)) < MaxCohorts \/ pool = {} THEN c
        ELSE LET victim == CHOOSE i \in pool : \A j \in pool : IsOlder(c, i, j)
             IN  [c EXCEPT ![victim] = Absent]

Room(c) == Cardinality(Retained(c)) < MaxCohorts

\* The map in which the evidence is recorded: only the cohort itself is pruned
\* when it is retained, all of them when room is needed.
Prepared(k, a) ==
    LET own == PruneEntry(cohort[k])
    IN  IF own.state # "absent" THEN [cohort EXCEPT ![k] = own]
        ELSE Evict(PruneAll(cohort), a)

Creates(k, a) == Prepared(k, a)[k].state = "absent" /\ Room(Prepared(k, a))
Drops(k, a) == Prepared(k, a)[k].state = "absent" /\ ~Room(Prepared(k, a))

Collecting(epoch) ==
    [state |-> "collecting", epoch |-> epoch, gen |-> 0,
     evidence |-> NoEvidence, wait |-> 0, lease |-> NoLease, stable |-> 0]

Recorded(e, a, ra) ==
    LET evidence == [LiveEvidence(e) EXCEPT ![a] = EvidenceWindow]
    IN  CASE e.state = "recovering" -> TransitionToOpen(e, ra)
          [] e.state \in {"open", "probing"} ->
               [e EXCEPT !.wait = Larger(@, Sanitize(ra))]
          [] OTHER ->
               IF Cardinality(Witnesses(evidence)) < Quorum
               THEN [e EXCEPT !.evidence = evidence]
               ELSE TransitionToOpen(e, ra)

RecordOutcome(k, a, ra) ==
    LET c == Prepared(k, a)
        e == IF Creates(k, a) THEN Collecting(nextEpoch + 1) ELSE c[k]
    IN  IF Drops(k, a) THEN c ELSE [c EXCEPT ![k] = Recorded(e, a, ra)]

-----------------------------------------------------------------------------
(* The fences of a permit *)

\* Any permit of the account that holds the lease matches.
SameAccount(p, e) ==
    e.state = "probing" /\ e.epoch = p.epoch /\ e.lease.account = p.account

MatchingProbeLease(p, e) ==
    /\ e.state = "probing"
    /\ e.epoch = p.epoch
    /\ e.lease.gen = p.gen
    /\ e.lease.account = p.account

MatchingRecovery(p, e) ==
    e.state = "recovering" /\ e.epoch = p.epoch /\ e.gen = p.gen

\* commitPermit and cancelPermit accept the permit.
Reservable(p, e) ==
    IF p.kind = "recovery_send" THEN MatchingRecovery(p, e)
    ELSE MatchingProbeLease(p, e) /\ ~e.lease.committed

\* completePermit accepts the permit.
Completable(p, e) ==
    IF p.kind = "recovery_send" THEN MatchingRecovery(p, e)
    ELSE MatchingProbeLease(p, e) /\ e.lease.committed

Completed(p, e, outcome, ra) ==
    IF ~Completable(p, e) THEN e
    ELSE CASE p.kind = "recovery_send" ->
                IF outcome = "overloaded" THEN TransitionToOpen(e, ra) ELSE e
           [] p.kind = "probe" /\ outcome = "success" ->
                [state |-> "recovering", epoch |-> e.epoch, gen |-> e.gen + 1,
                 evidence |-> e.evidence, wait |-> 0, lease |-> NoLease,
                 stable |-> RecoveryWindow]
           [] OTHER -> TransitionToOpen(e, ra)

\* The watchdog leaves a committed lease alone.
ExpireUncommitted(p, e) == MatchingProbeLease(p, e) /\ ~e.lease.committed

Expirable(p, e) == MatchingProbeLease(p, e)

-----------------------------------------------------------------------------
(* Actions *)

Init ==
    /\ cohort = [k \in Key |-> Absent]
    /\ nextEpoch = 0
    /\ permit = [r \in Request |-> NoPermit]
    /\ sending = [r \in Request |-> "idle"]
    /\ settled = [r \in Request |-> FALSE]
    /\ owed = [k \in Key |-> 0]
    /\ holder = [k \in Key |-> None]

\* History: what an overload answer for k makes the coordinator owe.
Owes(k, ra) ==
    owed' = [owed EXCEPT ![k] =
               IF cohort'[k].state \in {"open", "probing"}
               THEN Larger(owed[k], Sanitize(ra)) ELSE 0]

\* An overload answer of account a in cohort k is recorded.
Records(k, a) ==
    /\ Creates(k, a) => nextEpoch < MaxEpoch
    /\ nextEpoch' = IF Creates(k, a) THEN nextEpoch + 1 ELSE nextEpoch

\* A trusted pre-commit overload on a send that needed no permit.
Observe(k, a, ra) ==
    /\ Records(k, a)
    /\ cohort' = RecordOutcome(k, a, ra)
    /\ Owes(k, ra)
    /\ UNCHANGED <<permit, sending, settled, holder>>

\* The request of slot r ends and its permit is garbage; the slot is free for
\* the next request.
Ends(r) ==
    /\ permit' = [permit EXCEPT ![r] = NoPermit]
    /\ sending' = [sending EXCEPT ![r] = "idle"]
    /\ settled' = [settled EXCEPT ![r] = FALSE]

\* reservePhysicalSend: a large request is granted a send.
Reserve(r, k, a) ==
    LET e == PruneEntry(cohort[k])
        probe == e.state = "open"
        gen == IF probe THEN e.gen + 1 ELSE e.gen
    IN  /\ sending[r] = "idle"
        /\ e.state \in {"open", "recovering"}
        /\ probe => e.wait = 0 /\ e.gen + 3 <= MaxGeneration
        /\ cohort' = [cohort EXCEPT ![k] =
             IF probe
             THEN [state |-> "probing", epoch |-> e.epoch, gen |-> gen,
                   evidence |-> e.evidence, wait |-> e.wait,
                   lease |-> [gen |-> gen, account |-> a,
                              left |-> ProbeLease, committed |-> FALSE],
                   stable |-> e.stable]
             ELSE e]
        /\ permit' = [permit EXCEPT ![r] =
             [phase |-> "reserved",
              kind |-> IF probe THEN "probe" ELSE "recovery_send",
              key |-> k, account |-> a, epoch |-> e.epoch, gen |-> gen,
              left |-> IF probe THEN ProbeLease ELSE 0]]
        /\ sending' = [sending EXCEPT ![r] = "reserved"]
        /\ holder' = IF probe THEN [holder EXCEPT ![k] = r] ELSE holder
        /\ UNCHANGED <<nextEpoch, settled, owed>>

\* A reservation that is refused, or needs no permit, and getCohortState.
Inspect(k) ==
    /\ cohort' = [cohort EXCEPT ![k] = PruneEntry(cohort[k])]
    /\ UNCHANGED <<nextEpoch, permit, sending, settled, history>>

\* snapshot(): the only reader that prunes every cohort.
Snapshot ==
    /\ cohort' = PruneAll(cohort)
    /\ UNCHANGED <<nextEpoch, permit, sending, settled, history>>

\* commitPhysicalSendReservation: the send leaves, or the fence refuses it and
\* the request ends.
Commit(r) ==
    LET p == permit[r]
        e == PruneEntry(cohort[p.key])
    IN  /\ sending[r] = "reserved"
        /\ IF Reservable(p, e)
           THEN /\ cohort' = [cohort EXCEPT ![p.key] =
                     IF p.kind = "probe"
                     THEN [e EXCEPT !.lease =
                            [gen |-> e.lease.gen, account |-> e.lease.account,
                             left |-> e.lease.left, committed |-> TRUE]]
                     ELSE e]
                /\ permit' = [permit EXCEPT ![r].phase = "committed"]
                /\ sending' = [sending EXCEPT ![r] = "sent"]
                /\ UNCHANGED settled
           ELSE cohort' = [cohort EXCEPT ![p.key] = e] /\ Ends(r)
        /\ UNCHANGED <<nextEpoch, history>>

\* cancelPhysicalSendReservation: the routing is aborted or the send vetoed.
Cancel(r) ==
    LET p == permit[r]
        e == PruneEntry(cohort[p.key])
    IN  /\ sending[r] = "reserved"
        /\ cohort' = [cohort EXCEPT ![p.key] =
             IF Reservable(p, e) /\ p.kind = "probe"
             THEN TransitionToOpen(e, None) ELSE e]
        /\ Ends(r)
        /\ UNCHANGED <<nextEpoch, history>>

\* settle() on the map c leaves this one: c itself when the watchdog was first.
Settled(r, c, outcome, ra) ==
    LET k == permit[r].key
    IN  IF settled[r] THEN c
        ELSE [c EXCEPT ![k] =
                Completed(permit[r], PruneEntry(c[k]), outcome, ra)]

Accepted(r) ==
    ~settled[r] /\ Completable(permit[r], PruneEntry(cohort[permit[r].key]))

\* The response ended: complete, truncated, failed, cancelled or, in the
\* middle of the stream, overloaded.
Settle(r, outcome, ra) ==
    /\ sending[r] = "sent"
    /\ outcome # "overloaded" => ra = None
    /\ cohort' = Settled(r, cohort, outcome, ra)
    /\ IF outcome # "failed" /\ Accepted(r)
       THEN Owes(permit[r].key, ra) ELSE UNCHANGED owed
    /\ Ends(r)
    /\ UNCHANGED <<nextEpoch, holder>>

\* observeTrustedOverload on a protected send, before anything of the answer
\* reached the client: the evidence is recorded, then the permit settles.
OverloadAnswer(r, ra) ==
    LET p == permit[r]
    IN  /\ sending[r] = "sent"
        /\ Records(p.key, p.account)
        /\ cohort' = Settled(r, RecordOutcome(p.key, p.account, ra),
                             "overloaded", ra)
        /\ Owes(p.key, ra)
        /\ Ends(r)
        /\ UNCHANGED holder

\* The watchdog of a committed probe: abort the transport, then expire().
Watchdog(r) ==
    LET p == permit[r]
        e == cohort[p.key]
    IN  /\ sending[r] = "sent" /\ ~settled[r]
        /\ p.kind = "probe" /\ p.left = 0
        /\ settled' = [settled EXCEPT ![r] = TRUE]
        /\ cohort' = IF Expirable(p, e)
                     THEN [cohort EXCEPT ![p.key] = TransitionToOpen(e, RetryMin)]
                     ELSE cohort
        /\ permit' = IF Expirable(p, e)
                     THEN [permit EXCEPT ![r].phase = "terminal"] ELSE permit
        /\ UNCHANGED <<nextEpoch, sending, history>>

Tick ==
    /\ cohort' = [k \in Key |->
         [state |-> cohort[k].state, epoch |-> cohort[k].epoch,
          gen |-> cohort[k].gen,
          evidence |-> [a \in Account |-> Less(cohort[k].evidence[a])],
          wait |-> Less(cohort[k].wait),
          lease |-> [gen |-> cohort[k].lease.gen,
                     account |-> cohort[k].lease.account,
                     left |-> Less(cohort[k].lease.left),
                     committed |-> cohort[k].lease.committed],
          stable |-> Less(cohort[k].stable)]]
    /\ permit' = [r \in Request |->
         [phase |-> permit[r].phase, kind |-> permit[r].kind,
          key |-> permit[r].key, account |-> permit[r].account,
          epoch |-> permit[r].epoch, gen |-> permit[r].gen,
          left |-> Less(permit[r].left)]]
    /\ owed' = [k \in Key |-> Less(owed[k])]
    /\ UNCHANGED <<nextEpoch, sending, settled, holder>>

Next ==
    \/ \E k \in Key, a \in Account, ra \in Header : Observe(k, a, ra)
    \/ \E r \in Request, k \in Key, a \in Account : Reserve(r, k, a)
    \/ \E k \in Key : Inspect(k)
    \/ Snapshot
    \/ \E r \in Request : Commit(r)
    \/ \E r \in Request : Cancel(r)
    \/ \E r \in Request, ra \in Header,
         outcome \in {"success", "failed", "overloaded"} : Settle(r, outcome, ra)
    \/ \E r \in Request, ra \in Header : OverloadAnswer(r, ra)
    \/ \E r \in Request : Watchdog(r)
    \/ Tick

Spec == Init /\ [][Next]_vars

\* Time passes, the watchdog timer fires, and a handler that has reserved a
\* send goes on to commit or cancel it.  Nothing is assumed of the provider:
\* a sent request may never be answered.
FairSpec ==
    /\ Spec
    /\ WF_vars(Tick)
    /\ \A r \in Request : WF_vars(Watchdog(r)) /\ WF_vars(Commit(r) \/ Cancel(r))

-----------------------------------------------------------------------------
(* Properties *)

\* Every entry, permit and history variable has its type: no deadline exceeds
\* the clamp of sanitizeAnthropicRetryAfterSeconds, and the map of cohorts never
\* outgrows maxCohorts, although protected entries are never evicted from it.
TypeOK ==
    /\ cohort \in [Key -> Entry]
    /\ Cardinality(Retained(cohort)) <= MaxCohorts
    /\ nextEpoch \in 0..MaxEpoch
    /\ permit \in [Request -> Permit]
    /\ sending \in [Request -> {"idle", "reserved", "sent"}]
    /\ settled \in [Request -> BOOLEAN]
    /\ owed \in [Key -> 0..RetryMax]
    /\ holder \in [Key -> Request \cup {None}]

\* The probes of cohort k whose transport has neither ended nor been aborted.
OnTheWire(k) ==
    {r \in Request : /\ sending[r] = "sent" /\ ~settled[r]
                     /\ permit[r].kind = "probe" /\ permit[r].key = k}

\* At most one probe of a cohort is on the wire.  pruneEntry never expires a
\* committed lease by elapsed time, and the watchdog aborts the transport
\* before it releases the lease, so no successor overlaps it.  (With TypeOK.)
OneProbeInFlight == TypeOK /\ \A k \in Key : Cardinality(OnTheWire(k)) <= 1

\* A cohort enters the recovery window only through the success of the request
\* that was granted its latest probe; a permit whose lease lapsed and was
\* granted to someone else, or whose entry was deleted and made anew, is
\* refused by the epoch and generation fences of matchingProbeLease.
OnlyLatestProbeRecovers ==
    [][\A k \in Key :
         (cohort[k].state # "recovering" /\ cohort'[k].state = "recovering")
         => holder[k] \in OnTheWire(k) /\ sending'[holder[k]] = "idle"]_vars

\* No probe is granted before the longest Retry-After that an overload answer
\* that was recorded carried since the cohort opened has passed, whatever
\* expired leases, cancelled sends and shorter answers came in between.
RetryAfterHonoured ==
    [][\A k \in Key :
         (cohort[k].state # "probing" /\ cohort'[k].state = "probing")
         => owed[k] = 0]_vars

\* Protection is never lost to capacity: an open or probing cohort stays
\* protected until a probe succeeds, a recovering one until its window ends.
ProtectionKept ==
    [][\A k \in Key :
         (cohort[k].state \in {"open", "probing"} \/ cohort[k].stable > 0)
         => cohort'[k].state \in Protected]_vars

\* A probe slot is always released again: the handler of a reservation commits
\* or cancels it, and the watchdog ends a probe the provider never answers.
ProbeSlotReleased ==
    \A k \in Key : cohort[k].state = "probing" ~> cohort[k].state # "probing"

=============================================================================
