------------------------- MODULE DegradedModeProofs -------------------------
(***************************************************************************)
(* Proofs about the degraded-mode coordinator, for every set of cohorts,   *)
(* accounts and requests and every value of the limits.                    *)
(*                                                                         *)
(* Almost every operation rewrites entries in a way that Follows below     *)
(* captures: an entry keeps its epoch, its generation only grows, and a    *)
(* lease is never handed to anyone else.  The two exceptions are the grant *)
(* of a probe (Reserve) and the end of a committed one (Settle, Watchdog). *)
(***************************************************************************)
EXTENDS DegradedMode, FiniteSetTheorems, WellFoundedInduction, TLAPS

-----------------------------------------------------------------------------
(* The inductive invariant *)

\* What holds of one entry: the generation leaves room for the transitions
\* that are still possible, the lease of a probe carries the generation of its
\* entry, and only open and probing entries have a deadline.
Sound(e) ==
    /\ e \in Entry
    /\ e.state = "absent" => e.wait = 0 /\ e.epoch = 0
    /\ e.state = "collecting" => e.wait = 0 /\ e.gen = 0
    /\ e.state = "probing" => e.lease.gen = e.gen /\ e.gen + 2 <= MaxGeneration
    /\ e.state = "recovering" => e.wait = 0 /\ e.gen + 1 <= MaxGeneration
    /\ e.stable > 0 => e.state = "recovering"

\* r holds a permit for a probe.
Probes(r) == sending[r] # "idle" /\ permit[r].kind = "probe"

\* The request in slot r has a permit that names a cohort and an account.
Named(r) ==
    sending[r] # "idle" => permit[r].key \in Key /\ permit[r].account \in Account

\* The permit of a probe was made by the entry that is there now, or by one
\* that was deleted before it.
Fenced(r) ==
    Probes(r) =>
      LET e == cohort[permit[r].key]
      IN  /\ permit[r].epoch <= nextEpoch
          /\ e.state # "absent" => permit[r].epoch <= e.epoch
          /\ (e.state # "absent" /\ permit[r].epoch = e.epoch)
               => permit[r].gen <= e.gen

\* No two probes of a cohort have the same epoch and generation.
Distinct(r, q) ==
    (Probes(r) /\ Probes(q) /\ permit[r].key = permit[q].key
       /\ permit[r].epoch = permit[q].epoch /\ permit[r].gen = permit[q].gen)
    => r = q

\* A probe that is on the wire holds the committed lease of its cohort.
HoldsLease(r) ==
    (Probes(r) /\ sending[r] = "sent" /\ ~settled[r]) =>
      LET e == cohort[permit[r].key]
      IN  MatchingProbeLease(permit[r], e) /\ e.lease.committed

\* The request whose permit the lease matches is the one that was granted it.
GrantedTo(r) ==
    (Probes(r) /\ MatchingProbeLease(permit[r], cohort[permit[r].key]))
    => holder[permit[r].key] = r

Leases ==
    /\ \A k \in Key : cohort[k].epoch <= nextEpoch
    /\ \A r \in Request : Named(r) /\ Fenced(r) /\ HoldsLease(r) /\ GrantedTo(r)
    /\ \A r, q \in Request : Distinct(r, q)

IInv ==
    /\ TypeOK
    /\ \A k \in Key : Sound(cohort[k]) /\ owed[k] <= cohort[k].wait
    /\ Leases

-----------------------------------------------------------------------------
(* The least element of a set of numbers *)

\* Every nonempty set of natural numbers has a least element.
LEMMA LeastNumber ==
    ASSUME NEW T, T \subseteq Nat, T # {}
    PROVE  \E m \in T : \A n \in T : m <= n
<1> DEFINE R == {ss \in Nat \X Nat : ss[1] < ss[2]}
<1>1. IsWellFoundedOn(R, Nat)
  BY Zenon, NatLessThanWellFounded DEF OpToRel
<1> HIDE DEF R
<1>2. PICK x \in T : \A y \in T : ~ (<<y, x>> \in R)
  BY Zenon, <1>1, WFMin
<1>3. ASSUME NEW y \in T PROVE x <= y
  <2>1. x \in Nat /\ y \in Nat
    BY Zenon
  <2>2. <<y, x>> \in Nat \X Nat /\ <<y, x>>[1] = y /\ <<y, x>>[2] = x
    BY Zenon, <2>1
  <2>3. ~ (<<y, x>>[1] < <<y, x>>[2])
    BY Zenon, <1>2, <2>2 DEF R
  <2> QED
    BY <2>1, <2>2, <2>3
<1> QED
  BY Zenon, <1>3

-----------------------------------------------------------------------------
(* The operations on one entry *)

\* sanitizeAnthropicRetryAfterSeconds clamps whatever the header carried.
LEMMA SanitizeClamps ==
    ASSUME NEW ra \in Header \cup {RetryMin}
    PROVE  /\ Sanitize(ra) \in RetryMin..RetryMax
           /\ Sanitize(ra) \in Nat /\ Sanitize(ra) <= RetryMax
<1>1. ra = None \/ ra \in Int
  BY DegradedAssumption DEF Header
<1> QED
  BY <1>1, DegradedAssumption DEF Sanitize

\* f is what is left of e: the same entry, at least as far on, or one made
\* anew with epoch n + 1, or nothing; a lease is kept by its holder or gone.
Continues(e, f, n) ==
    /\ Sound(f)
    /\ f.state # "absent" =>
         \/ e.state # "absent" /\ f.epoch = e.epoch /\ f.gen >= e.gen
         \/ f.epoch = n + 1
    /\ f.state = "probing" =>
         /\ e.state = "probing" /\ f.epoch = e.epoch /\ f.gen = e.gen
         /\ f.lease.gen = e.lease.gen /\ f.lease.account = e.lease.account
         /\ e.lease.committed => f.lease.committed

\* ... and no probe has succeeded: recovery does not start, protection stays.
Follows(e, f, n) ==
    /\ Continues(e, f, n)
    /\ f.state = "recovering" => e.state = "recovering"
    /\ (e.state \in {"open", "probing"} \/ e.stable > 0) => f.state \in Protected

\* A committed lease stays.
Kept(e, f) ==
    (e.state = "probing" /\ e.lease.committed) => f.state = "probing"

\* The names of states are different from each other.
LEMMA ProtectedStates ==
    \A s : s \in Protected <=> s \in {"open", "probing", "recovering"}
  BY Zenon DEF Protected

LEMMA EntryFields ==
    ASSUME NEW e \in Entry
    PROVE  /\ e.state \in {"absent", "collecting", "open", "probing", "recovering"}
           /\ e.epoch \in Nat /\ e.epoch <= MaxEpoch
           /\ e.gen \in Nat /\ e.gen <= MaxGeneration
           /\ e.evidence \in [Account -> Unseen..EvidenceWindow]
           /\ e.wait \in Nat /\ e.wait <= RetryMax
           /\ e.lease \in Lease
           /\ e.stable \in Nat /\ e.stable <= RecoveryWindow
  BY DegradedAssumption DEF Entry, Protected

LEMMA Constants ==
    /\ NoLease \in Lease
    /\ NoEvidence \in [Account -> Unseen..EvidenceWindow]
    /\ Absent \in Entry /\ Sound(Absent)
<1>1. NoLease \in Lease
  BY DegradedAssumption DEF NoLease, Lease
<1>2. NoEvidence \in [Account -> Unseen..EvidenceWindow]
  BY DegradedAssumption DEF NoEvidence, Unseen
<1>3. Absent \in Entry
  BY <1>1, <1>2, DegradedAssumption DEF Absent, Entry
<1> QED
  BY <1>1, <1>2, <1>3, DegradedAssumption DEF Absent, Sound

\* transitionToOpen never shortens the deadline, and the answer's own
\* Retry-After is honoured.
LEMMA OpenIsSound ==
    ASSUME NEW e, Sound(e), NEW ra \in Header \cup {RetryMin}, e.gen < MaxGeneration
    PROVE  /\ Sound(TransitionToOpen(e, ra))
           /\ TransitionToOpen(e, ra).state = "open"
           /\ TransitionToOpen(e, ra).epoch = e.epoch
           /\ TransitionToOpen(e, ra).gen = e.gen + 1
           /\ TransitionToOpen(e, ra).wait >= e.wait
           /\ TransitionToOpen(e, ra).wait >= Sanitize(ra)
<1> DEFINE f == TransitionToOpen(e, ra)
<1>1. e \in Entry
  BY Zenon DEF Sound
<1>2. /\ e.epoch \in Nat /\ e.epoch <= MaxEpoch /\ e.gen \in Nat
      /\ e.wait \in Nat /\ e.wait <= RetryMax
  BY Zenon, <1>1, EntryFields
<1>3. Larger(e.wait, Sanitize(ra)) \in 0..RetryMax
      /\ Larger(e.wait, Sanitize(ra)) >= e.wait
      /\ Larger(e.wait, Sanitize(ra)) >= Sanitize(ra)
  BY <1>2, SanitizeClamps, DegradedAssumption DEF Larger
<1>4. /\ f.state = "open" /\ f.epoch = e.epoch /\ f.gen = e.gen + 1
      /\ f.evidence = NoEvidence /\ f.wait = Larger(e.wait, Sanitize(ra))
      /\ f.lease = NoLease /\ f.stable = 0
  BY Zenon DEF TransitionToOpen
<1>5. f \in Entry
  <2>1. "open" \in {"absent", "collecting"} \cup Protected
    BY Zenon DEF Protected
  <2>2. e.epoch \in 0..MaxEpoch /\ e.gen + 1 \in 0..MaxGeneration
        /\ 0 \in 0..RecoveryWindow
    BY <1>2, DegradedAssumption
  <2> QED
    BY Zenon, <2>1, <2>2, <1>3, Constants DEF TransitionToOpen, Entry
<1> QED
  BY <1>3, <1>4, <1>5 DEF Sound

\* An entry follows itself, and following is transitive.
LEMMA FollowsItself ==
    ASSUME NEW e, Sound(e), NEW n
    PROVE  Follows(e, e, n) /\ Kept(e, e)
<1>1. e \in Entry
  BY Zenon DEF Sound
<1>2. e.gen \in Nat /\ e.stable \in Nat
  BY Zenon, <1>1, EntryFields
<1> QED
  BY <1>2 DEF Follows, Continues, Kept, Sound, Protected

LEMMA FollowsOn ==
    ASSUME NEW n, NEW e, NEW f, NEW g, Sound(e), Follows(e, f, n),
           Follows(f, g, n),
           f.state \in Protected => g.state \in Protected
    PROVE  Follows(e, g, n)
<1>1. e \in Entry /\ f \in Entry /\ g \in Entry
  BY Zenon DEF Sound, Follows, Continues
<1>2. /\ e.gen \in Nat /\ f.gen \in Nat /\ g.gen \in Nat
      /\ e.stable \in Nat /\ f.stable \in Nat
      /\ f.state \in {"absent", "collecting", "open", "probing", "recovering"}
  BY Zenon, <1>1, EntryFields
<1>3. (e.state \in {"open", "probing"} \/ e.stable > 0) => g.state \in Protected
  BY Zenon DEF Follows, Continues
<1>4. g.state # "absent" =>
         \/ e.state # "absent" /\ g.epoch = e.epoch /\ g.gen >= e.gen
         \/ g.epoch = n + 1
  <2>1. g.state # "absent" =>
          \/ f.state # "absent" /\ g.epoch = f.epoch /\ g.gen >= f.gen
          \/ g.epoch = n + 1
    BY Zenon DEF Follows, Continues
  <2>2. f.state # "absent" =>
          \/ e.state # "absent" /\ f.epoch = e.epoch /\ f.gen >= e.gen
          \/ f.epoch = n + 1
    BY Zenon DEF Follows, Continues
  <2> QED
    BY <1>2, <2>1, <2>2
<1> QED
  BY Zenon, <1>3, <1>4 DEF Follows, Continues

\* A released entry: transitionToOpen on a protected entry follows it, and
\* keeps a committed lease of nobody.
LEMMA OpenFollows ==
    ASSUME NEW e, Sound(e), e.state \in {"probing", "recovering"},
           NEW ra \in Header \cup {RetryMin}, NEW n
    PROVE  /\ Follows(e, TransitionToOpen(e, ra), n)
           /\ TransitionToOpen(e, ra).wait >= e.wait
           /\ TransitionToOpen(e, ra).wait >= Sanitize(ra)
           /\ TransitionToOpen(e, ra).state = "open"
           /\ TransitionToOpen(e, ra).epoch = e.epoch
<1>1. e.gen \in Nat /\ e.gen < MaxGeneration
  BY EntryFields, DegradedAssumption DEF Sound
<1>2. /\ Sound(TransitionToOpen(e, ra))
      /\ TransitionToOpen(e, ra).state = "open"
      /\ TransitionToOpen(e, ra).epoch = e.epoch
      /\ TransitionToOpen(e, ra).gen = e.gen + 1
      /\ TransitionToOpen(e, ra).wait >= e.wait
      /\ TransitionToOpen(e, ra).wait >= Sanitize(ra)
  BY Zenon, <1>1, OpenIsSound
<1>3. e.gen + 1 >= e.gen
  BY <1>1
<1> QED
  BY Zenon, <1>2, <1>3 DEF Follows, Continues, Protected

\* pruneEntry: what time alone does to an entry.
LEMMA PruneFollows ==
    ASSUME NEW e, Sound(e), NEW n
    PROVE  LET f == PruneEntry(e)
           IN  /\ Follows(e, f, n) /\ Kept(e, f)
               /\ f.wait >= e.wait
               /\ f.state # "absent" => f.epoch = e.epoch
               /\ f.state = "probing" => f = e
               /\ f.state \in {"absent", "collecting", "open", "probing", "recovering"}
               /\ f.state \in {"open", "probing"} => e.state \in {"open", "probing"}
               /\ e.state = "absent" => f.state = "absent"
<1> DEFINE f == PruneEntry(e)
<1>0. e \in Entry /\ e.wait \in Nat /\ e.stable \in Nat /\ e.gen \in Nat
      /\ e.evidence \in [Account -> Unseen..EvidenceWindow]
      /\ e.state \in {"absent", "collecting", "open", "probing", "recovering"}
  BY Zenon, EntryFields DEF Sound
<1>1. CASE e.state = "collecting" /\ f = Absent
  <2>1. e.wait = 0 /\ ~(e.stable > 0)
    BY Zenon, <1>1 DEF Sound
  <2>2. f.state = "absent" /\ f.wait = 0
    BY <1>1 DEF Absent
  <2> QED
    BY <1>1, <1>0, <2>1, <2>2, Constants DEF Follows, Continues, Kept
<1>2. CASE e.state = "collecting" /\ f = [e EXCEPT !.evidence = LiveEvidence(e)]
  <2>1. LiveEvidence(e) \in [Account -> Unseen..EvidenceWindow]
    BY <1>0, DegradedAssumption DEF LiveEvidence, Unseen
  <2>2. f \in Entry
    BY Zenon, <1>2, <1>0, <2>1 DEF Entry
  <2>3. /\ f.state = e.state /\ f.epoch = e.epoch /\ f.gen = e.gen
        /\ f.wait = e.wait /\ f.lease = e.lease /\ f.stable = e.stable
    BY Zenon, <1>2, <1>0 DEF Entry
  <2>4. Sound(f)
    BY Zenon, <2>2, <2>3 DEF Sound
  <2> QED
    BY <1>2, <1>0, <2>3, <2>4 DEF Follows, Continues, Kept, Sound
<1>3. CASE e.state = "recovering" /\ e.stable = 0
  <2>1. f = Absent
    BY Zenon, <1>3 DEF PruneEntry, LeaseLapsed
  <2>2. f.state = "absent" /\ f.wait = 0 /\ e.wait = 0
    BY <1>3, <2>1 DEF Absent, Sound
  <2> QED
    BY <1>3, <1>0, <2>1, <2>2, Constants DEF Follows, Continues, Kept
<1>4. CASE LeaseLapsed(e)
  <2>1. e.state = "probing" /\ ~e.lease.committed
    BY Zenon, <1>4 DEF LeaseLapsed
  <2>2. f = TransitionToOpen(e, RetryMin)
    BY Zenon, <1>4, <2>1 DEF PruneEntry
  <2> QED
    BY Zenon, <2>1, <2>2, OpenFollows DEF Kept
<1>5. CASE f = e
  BY <1>5, <1>0, FollowsItself
<1> QED
  BY Zenon, <1>0, <1>1, <1>2, <1>3, <1>4, <1>5 DEF PruneEntry

\* A new entry collects nothing yet.
LEMMA CollectingIsSound ==
    ASSUME NEW n \in Nat, n < MaxEpoch
    PROVE  Sound(Collecting(n + 1)) /\ Collecting(n + 1).epoch = n + 1
<1>1. "collecting" \in {"absent", "collecting"} \cup Protected
  BY Zenon
<1>2. n + 1 \in 0..MaxEpoch /\ 0 \in 0..MaxGeneration /\ 0 \in 0..RetryMax
      /\ 0 \in 0..RecoveryWindow
  BY DegradedAssumption
<1>3. Collecting(n + 1) \in Entry
  BY Zenon, <1>1, <1>2, Constants DEF Collecting, Entry
<1> QED
  BY <1>3 DEF Sound, Collecting

\* recordOutcome on a retained entry e: the entry goes on, its deadline never
\* gets shorter, and when it is open or probing afterwards the answer's
\* Retry-After has been taken into account.
LEMMA RecordedFollows ==
    ASSUME NEW e, Sound(e), e.state # "absent", NEW a \in Account,
           NEW ra \in Header, NEW n
    PROVE  LET f == Recorded(e, a, ra)
           IN  /\ Follows(e, f, n) /\ Kept(e, f)
               /\ f.wait >= e.wait
               /\ f.state \in {"open", "probing"} => f.wait >= Sanitize(ra)
               /\ f.state # "absent" /\ f.state # "recovering" /\ f.epoch = e.epoch
               /\ e.state \in Protected => f.state \in Protected
<1> DEFINE f == Recorded(e, a, ra)
<1> DEFINE evidence == [LiveEvidence(e) EXCEPT ![a] = EvidenceWindow]
<1>0. e \in Entry /\ e.wait \in Nat /\ e.wait <= RetryMax /\ e.stable \in Nat
      /\ e.gen \in Nat /\ e.epoch \in Nat
      /\ e.evidence \in [Account -> Unseen..EvidenceWindow]
      /\ e.state \in {"collecting", "open", "probing", "recovering"}
  BY Zenon, EntryFields DEF Sound
<1>1. CASE e.state = "recovering"
  <2>1. f = TransitionToOpen(e, ra)
    BY Zenon, <1>1 DEF Recorded
  <2> QED
    BY Zenon, <1>1, <2>1, OpenFollows DEF Kept, Protected
<1>2. CASE e.state \in {"open", "probing"}
  <2>1. f = [e EXCEPT !.wait = Larger(e.wait, Sanitize(ra))]
    BY Zenon, <1>2, <1>0 DEF Recorded, Entry
  <2>2. /\ Larger(e.wait, Sanitize(ra)) \in 0..RetryMax
        /\ Larger(e.wait, Sanitize(ra)) >= e.wait
        /\ Larger(e.wait, Sanitize(ra)) >= Sanitize(ra)
    BY <1>0, SanitizeClamps, DegradedAssumption DEF Larger
  <2>3. /\ f.state = e.state /\ f.epoch = e.epoch /\ f.gen = e.gen
        /\ f.wait = Larger(e.wait, Sanitize(ra)) /\ f.lease = e.lease
        /\ f.stable = e.stable
    BY Zenon, <2>1, <1>0 DEF Entry
  <2>4. f \in Entry
    BY Zenon, <2>1, <2>2, <1>0 DEF Entry
  <2>5. Sound(f)
    BY Zenon, <1>2, <2>3, <2>4 DEF Sound
  <2>6. f.state \in Protected
    BY Zenon, <1>2, <2>3 DEF Protected
  <2>7. Follows(e, f, n) /\ Kept(e, f)
    BY <1>2, <1>0, <2>3, <2>5, <2>6 DEF Follows, Continues, Kept
  <2> QED
    BY Zenon, <1>2, <2>2, <2>3, <2>6, <2>7
<1>3. CASE e.state = "collecting"
  <2>0. e.wait = 0 /\ e.gen = 0 /\ ~(e.stable > 0)
    BY Zenon, <1>3 DEF Sound
  <2>1. CASE f = [e EXCEPT !.evidence = evidence]
    <3>1. LiveEvidence(e) \in [Account -> Unseen..EvidenceWindow]
      BY <1>0, DegradedAssumption DEF LiveEvidence, Unseen
    <3>2. evidence \in [Account -> Unseen..EvidenceWindow]
      BY <3>1, DegradedAssumption DEF Unseen
    <3>3. f \in Entry
      BY Zenon, <2>1, <3>2, <1>0 DEF Entry
    <3>4. /\ f.state = e.state /\ f.epoch = e.epoch /\ f.gen = e.gen
          /\ f.wait = e.wait /\ f.lease = e.lease /\ f.stable = e.stable
      BY Zenon, <2>1, <1>0 DEF Entry
    <3>5. Sound(f)
      BY Zenon, <3>3, <3>4 DEF Sound
    <3> QED
      BY <1>3, <1>0, <2>0, <3>4, <3>5 DEF Follows, Continues, Kept, Protected
  <2>2. CASE f = TransitionToOpen(e, ra)
    <3>1. /\ Sound(f) /\ f.state = "open" /\ f.epoch = e.epoch
          /\ f.gen = e.gen + 1 /\ f.wait >= e.wait /\ f.wait >= Sanitize(ra)
      BY <2>2, <2>0, OpenIsSound, DegradedAssumption
    <3> QED
      BY <1>3, <1>0, <2>0, <3>1 DEF Follows, Continues, Kept, Protected
  <2> QED
    BY Zenon, <1>3, <2>1, <2>2 DEF Recorded
<1> QED
  BY Zenon, <1>0, <1>1, <1>2, <1>3

\* completePermit: only the permit that holds the committed lease, or one of
\* the recovery window, changes the entry, and only the success of a probe
\* lets the deadline go.
LEMMA CompletedFollows ==
    ASSUME NEW e, Sound(e), NEW p, p.kind \in {"probe", "recovery_send"},
           NEW outcome, NEW ra \in Header, NEW n,
           ~(p.kind = "probe" /\ outcome = "success" /\ Completable(p, e))
    PROVE  LET f == Completed(p, e, outcome, ra)
           IN  /\ Follows(e, f, n)
               /\ ~(p.kind = "probe" /\ Completable(p, e)) => Kept(e, f)
               /\ f.wait >= e.wait
               /\ f.state # "absent" => f.epoch = e.epoch
               /\ e.state \in Protected => f.state \in Protected
               /\ (Completable(p, e) /\ outcome # "failed"
                     /\ f.state \in {"open", "probing"}) => f.wait >= Sanitize(ra)
               /\ f # e => f.wait >= Sanitize(ra)
               /\ e.state = "absent" => f.state = "absent"
<1> DEFINE f == Completed(p, e, outcome, ra)
<1>0. e \in Entry /\ e.wait \in Nat
  BY Zenon, EntryFields DEF Sound
<1>1. CASE f = e
  <2>1. ASSUME Completable(p, e), outcome # "failed",
               e.state \in {"open", "probing"}
        PROVE  FALSE
    <3>1. p.kind = "probe" /\ e.state = "probing"
      BY Zenon, <2>1 DEF Completable, MatchingRecovery, MatchingProbeLease
    <3>2. outcome # "success" /\ p.kind # "recovery_send"
      BY Zenon, <2>1, <3>1
    <3>3. f = TransitionToOpen(e, ra)
      BY Zenon, <2>1, <3>2 DEF Completed
    <3>4. f.state = "open"
      BY <3>3 DEF TransitionToOpen
    <3> QED
      BY Zenon, <1>1, <3>1, <3>4
  <2> QED
    BY <1>1, <1>0, <2>1, FollowsItself
<1>2. CASE f # e
  <2>1. f = TransitionToOpen(e, ra) /\ Completable(p, e)
    <3>1. Completable(p, e)
      BY Zenon, <1>2 DEF Completed
    <3>2. CASE p.kind = "recovery_send"
      BY Zenon, <1>2, <3>1, <3>2 DEF Completed
    <3>3. CASE p.kind = "probe"
      <4>1. outcome # "success"
        BY Zenon, <3>1, <3>3
      <4>2. p.kind # "recovery_send"
        BY Zenon, <3>3
      <4> QED
        BY Zenon, <3>1, <4>1, <4>2 DEF Completed
    <3> QED
      BY Zenon, <3>1, <3>2, <3>3
  <2>2. e.state \in {"probing", "recovering"}
        /\ (p.kind = "recovery_send" => e.state = "recovering")
    BY Zenon, <2>1 DEF Completable, MatchingRecovery, MatchingProbeLease
  <2>3. /\ Follows(e, f, n) /\ f.wait >= e.wait /\ f.wait >= Sanitize(ra)
        /\ f.state = "open" /\ f.epoch = e.epoch
    BY <2>1, <2>2, OpenFollows
  <2>4. ~(p.kind = "probe" /\ Completable(p, e)) => Kept(e, f)
    BY Zenon, <2>1, <2>2 DEF Kept
  <2> QED
    BY Zenon, <2>2, <2>3, <2>4 DEF Protected
<1> QED
  BY Zenon, <1>1, <1>2

-----------------------------------------------------------------------------
(* The map of cohorts *)

\* The age of the oldest piece of evidence is a number.
LEMMA OldestIsNumber ==
    ASSUME NEW c \in [Key -> Entry], NEW k \in Key
    PROVE  Oldest(c, k) \in Nat
<1> DEFINE times == {c[k].evidence[a] : a \in Witnesses(c[k].evidence)}
<1>1. c[k].evidence \in [Account -> Unseen..EvidenceWindow]
  BY Zenon, EntryFields
<1>2. times \subseteq Nat
  BY <1>1, DegradedAssumption DEF Witnesses, Unseen
<1>3. CASE times = {}
  BY <1>3, DegradedAssumption DEF Oldest
<1>4. CASE times # {}
  <2>1. \E x \in times : \A y \in times : x <= y
    BY Zenon, <1>2, <1>4, LeastNumber
  <2>2. (CHOOSE x \in times : \A y \in times : x <= y) \in times
    BY Zenon, <2>1
  <2>3. Oldest(c, k) = CHOOSE x \in times : \A y \in times : x <= y
    BY Zenon, <1>4 DEF Oldest
  <2> QED
    BY Zenon, <1>2, <2>2, <2>3
<1> QED
  BY Zenon, <1>3, <1>4

\* evictForNewEntry finds a victim in every pool that is not empty.
LEMMA VictimExists ==
    ASSUME NEW c \in [Key -> Entry], NEW pool, pool \subseteq Key, pool # {}
    PROVE  \E i \in pool : \A j \in pool : IsOlder(c, i, j)
<1> DEFINE ages == {Oldest(c, i) : i \in pool}
<1>1. \A i \in Key : Oldest(c, i) \in Nat /\ c[i].epoch \in Nat
  BY Zenon, OldestIsNumber, EntryFields
<1>2. PICK m \in ages : \A n \in ages : m <= n
  <2>1. ages \subseteq Nat /\ ages # {}
    BY Zenon, <1>1
  <2> QED
    BY Zenon, <2>1, LeastNumber
<1> DEFINE old == {i \in pool : Oldest(c, i) = m}
<1> DEFINE epochs == {c[i].epoch : i \in old}
<1>3. PICK u \in epochs : \A n \in epochs : u <= n
  <2>1. epochs \subseteq Nat /\ epochs # {}
    BY Zenon, <1>1, <1>2
  <2> QED
    BY Zenon, <2>1, LeastNumber
<1>4. PICK i \in old : c[i].epoch = u
  BY Zenon, <1>3
<1>5. ASSUME NEW j \in pool PROVE IsOlder(c, i, j)
  <2>1. m <= Oldest(c, j) /\ Oldest(c, i) = m
    BY Zenon, <1>2, <1>4
  <2>2. CASE Oldest(c, j) = m
    BY Zenon, <1>3, <1>4, <2>1, <2>2 DEF IsOlder
  <2>3. CASE Oldest(c, j) # m
    BY <1>1, <2>1, <2>3 DEF IsOlder
  <2> QED
    BY Zenon, <2>2, <2>3
<1> QED
  BY Zenon, <1>4, <1>5

\* Eviction takes at most one entry, and only one that is still collecting.
LEMMA EvictTakesCollecting ==
    ASSUME NEW c \in [Key -> Entry], NEW a, NEW k \in Key
    PROVE  /\ Evict(c, a) \in [Key -> Entry]
           /\ \/ Evict(c, a)[k] = c[k]
              \/ Evict(c, a)[k] = Absent /\ c[k].state = "collecting"
<1> DEFINE pool == IF Churn(c, a) # {} THEN Churn(c, a) ELSE Evictable(c)
<1> DEFINE victim == CHOOSE i \in pool : \A j \in pool : IsOlder(c, i, j)
<1>1. CASE Evict(c, a) = c
  BY Zenon, <1>1
<1>2. CASE Evict(c, a) # c
  <2>1. pool # {} /\ Evict(c, a) = [c EXCEPT ![victim] = Absent]
    BY Zenon, <1>2 DEF Evict
  <2>2. pool \subseteq Evictable(c) /\ Evictable(c) \subseteq Key
    BY Zenon DEF Churn, Evictable
  <2>3. victim \in pool
    <3>1. \E i \in pool : \A j \in pool : IsOlder(c, i, j)
      BY Zenon, <2>1, <2>2, VictimExists
    <3> HIDE DEF pool
    <3> QED
      BY Zenon, <3>1
  <2>4. victim \in Key /\ c[victim].state = "collecting"
    BY Zenon, <2>2, <2>3 DEF Evictable
  <2> HIDE DEF victim, pool
  <2> QED
    BY Zenon, <2>1, <2>4, Constants
<1> QED
  BY Zenon, <1>1, <1>2

\* Fewer entries are retained when none appears.
LEMMA FewerRetained ==
    ASSUME NEW c, NEW d, Cardinality(Retained(c)) <= MaxCohorts,
           \A k \in Key : d[k].state # "absent" => c[k].state # "absent"
    PROVE  Cardinality(Retained(d)) <= MaxCohorts
<1>1. Retained(d) \in SUBSET Retained(c)
  BY Zenon DEF Retained
<1>2. IsFiniteSet(Retained(c))
  <2>1. Retained(c) \in SUBSET Key
    BY Zenon DEF Retained
  <2> QED
    BY Zenon, <2>1, FS_Subset, DegradedAssumption
<1>3. Cardinality(Retained(d)) <= Cardinality(Retained(c))
      /\ IsFiniteSet(Retained(d))
  BY Zenon, <1>1, <1>2, FS_Subset
<1>4. Cardinality(Retained(c)) \in Nat /\ Cardinality(Retained(d)) \in Nat
  BY Zenon, <1>2, <1>3, FS_CardinalityType
<1> QED
  BY <1>3, <1>4, DegradedAssumption

\* One entry is added where there is room for it.
LEMMA RoomForOne ==
    ASSUME NEW c, NEW d, NEW k \in Key, Room(c),
           \A j \in Key \ {k} : d[j].state # "absent" => c[j].state # "absent"
    PROVE  Cardinality(Retained(d)) <= MaxCohorts
<1>1. Retained(d) \in SUBSET (Retained(c) \cup {k})
  BY Zenon DEF Retained
<1>2. IsFiniteSet(Retained(c))
  <2>1. Retained(c) \in SUBSET Key
    BY Zenon DEF Retained
  <2> QED
    BY Zenon, <2>1, FS_Subset, DegradedAssumption
<1>3. /\ IsFiniteSet(Retained(c) \cup {k})
      /\ Cardinality(Retained(c) \cup {k}) =
           IF k \in Retained(c) THEN Cardinality(Retained(c))
                                ELSE Cardinality(Retained(c)) + 1
  BY Zenon, <1>2, FS_AddElement
<1>4. Cardinality(Retained(d)) <= Cardinality(Retained(c) \cup {k})
      /\ IsFiniteSet(Retained(d))
  BY Zenon, <1>1, <1>3, FS_Subset
<1>5. Cardinality(Retained(c)) \in Nat /\ Cardinality(Retained(d)) \in Nat
  BY Zenon, <1>2, <1>4, FS_CardinalityType
<1> QED
  BY <1>3, <1>4, <1>5, DegradedAssumption DEF Room

\* What the rest of the proof uses of the state.
LEMMA SoundCohorts ==
    ASSUME IInv
    PROVE  /\ cohort \in [Key -> Entry] /\ nextEpoch \in Nat
           /\ \A k \in Key : Sound(cohort[k]) /\ cohort[k] \in Entry
           /\ \A k \in Key : PruneEntry(cohort[k]) \in Entry
<1>1. \A k \in Key : Sound(cohort[k])
  BY Zenon DEF IInv
<1>2. \A k \in Key : PruneEntry(cohort[k]) \in Entry
  BY Zenon, <1>1, PruneFollows DEF Follows, Continues, Sound
<1> QED
  BY <1>1, <1>2, DegradedAssumption DEF IInv, TypeOK, Sound

\* The map in which an outcome is recorded: pruned, and with at most one
\* collecting entry evicted.
LEMMA PreparedFollows ==
    ASSUME IInv, NEW k \in Key, NEW a \in Account
    PROVE  LET c == Prepared(k, a)
           IN  /\ c \in [Key -> Entry]
               /\ \A j \in Key :
                    /\ Follows(cohort[j], c[j], nextEpoch)
                    /\ Kept(cohort[j], c[j]) /\ c[j].wait >= cohort[j].wait
                    /\ c[j].state # "absent" => c[j].epoch = cohort[j].epoch
<1> DEFINE c == Prepared(k, a)
<1>0. /\ cohort \in [Key -> Entry]
      /\ \A j \in Key : Sound(cohort[j]) /\ cohort[j].wait \in Nat
      /\ \A j \in Key : PruneEntry(cohort[j]) \in Entry
  BY Zenon, SoundCohorts, EntryFields
<1>1. CASE PruneEntry(cohort[k]).state # "absent"
  <2>1. c = [cohort EXCEPT ![k] = PruneEntry(cohort[k])]
    BY Zenon, <1>1 DEF Prepared
  <2>2. c \in [Key -> Entry]
    BY Zenon, <2>1, <1>0
  <2>3. ASSUME NEW j \in Key
        PROVE  c[j] = PruneEntry(cohort[j]) \/ c[j] = cohort[j]
    BY Zenon, <2>1, <1>0
  <2>4. ASSUME NEW j \in Key
        PROVE  /\ Follows(cohort[j], c[j], nextEpoch)
               /\ Kept(cohort[j], c[j]) /\ c[j].wait >= cohort[j].wait
               /\ c[j].state # "absent" => c[j].epoch = cohort[j].epoch
    <3>1. CASE c[j] = PruneEntry(cohort[j])
      BY <1>0, <3>1, PruneFollows
    <3>2. CASE c[j] = cohort[j]
      BY <1>0, <3>2, FollowsItself
    <3> QED
      BY Zenon, <2>3, <3>1, <3>2
  <2> QED
    BY Zenon, <2>2, <2>4
<1>2. CASE PruneEntry(cohort[k]).state = "absent"
  <2> DEFINE b == PruneAll(cohort)
  <2>1. c = Evict(b, a)
    BY Zenon, <1>2 DEF Prepared
  <2>2. b \in [Key -> Entry] /\ \A j \in Key : b[j] = PruneEntry(cohort[j])
    BY Zenon, <1>0 DEF PruneAll
  <2> HIDE DEF b
  <2>3. c \in [Key -> Entry]
    BY <1>2, <2>1, <2>2, EvictTakesCollecting
  <2>4. ASSUME NEW j \in Key
        PROVE  /\ Follows(cohort[j], c[j], nextEpoch)
               /\ Kept(cohort[j], c[j]) /\ c[j].wait >= cohort[j].wait
               /\ c[j].state # "absent" => c[j].epoch = cohort[j].epoch
    <3> DEFINE f == PruneEntry(cohort[j])
    <3>1. /\ Follows(cohort[j], f, nextEpoch) /\ Kept(cohort[j], f)
          /\ f.wait >= cohort[j].wait
          /\ f.state # "absent" => f.epoch = cohort[j].epoch
      BY Zenon, <1>0, PruneFollows
    <3>2. c[j] = f \/ (c[j] = Absent /\ f.state = "collecting")
      BY <2>1, <2>2, EvictTakesCollecting
    <3>3. CASE c[j] = f
      BY Zenon, <3>1, <3>3
    <3>4. CASE c[j] = Absent /\ f.state = "collecting"
      <4>1. f.wait = 0 /\ cohort[j].wait = 0
        BY <3>1, <3>4, <1>0 DEF Follows, Continues, Sound
      <4>2. c[j].state = "absent" /\ c[j].wait = 0 /\ Sound(c[j])
        BY <3>4, Constants DEF Absent
      <4>3. ~(cohort[j].state \in {"open", "probing"} \/ cohort[j].stable > 0)
        BY Zenon, <3>1, <3>4 DEF Follows, Continues, Protected
      <4> HIDE DEF f, c
      <4> QED
        BY <4>1, <4>2, <4>3 DEF Follows, Continues, Kept
    <3> QED
      BY Zenon, <3>2, <3>3, <3>4
  <2> QED
    BY Zenon, <2>3, <2>4
<1> QED
  BY Zenon, <1>1, <1>2

\* recordOutcome on the whole map.
LEMMA OutcomeFollows ==
    ASSUME IInv, NEW k \in Key, NEW a \in Account, NEW ra \in Header,
           Creates(k, a) => nextEpoch < MaxEpoch
    PROVE  LET d == RecordOutcome(k, a, ra)
           IN  /\ d \in [Key -> Entry]
               /\ Cardinality(Retained(d)) <= MaxCohorts
               /\ \A j \in Key :
                    /\ Follows(cohort[j], d[j], nextEpoch)
                    /\ Kept(cohort[j], d[j]) /\ d[j].wait >= cohort[j].wait
                    /\ d[j].state # "absent" =>
                         \/ d[j].epoch = cohort[j].epoch
                         \/ Creates(k, a) /\ d[j].epoch = nextEpoch + 1
               /\ d[k].state \in {"open", "probing"} => d[k].wait >= Sanitize(ra)
               /\ d[k].state # "recovering"
<1> DEFINE c == Prepared(k, a)
           d == RecordOutcome(k, a, ra)
           e == IF Creates(k, a) THEN Collecting(nextEpoch + 1) ELSE c[k]
<1>0. /\ cohort \in [Key -> Entry] /\ nextEpoch \in Nat
      /\ \A j \in Key : Sound(cohort[j]) /\ cohort[j].wait \in Nat
      /\ Cardinality(Retained(cohort)) <= MaxCohorts
  BY Zenon, SoundCohorts, EntryFields DEF IInv, TypeOK
<1>1. /\ c \in [Key -> Entry]
      /\ \A j \in Key :
           /\ Follows(cohort[j], c[j], nextEpoch)
           /\ Kept(cohort[j], c[j]) /\ c[j].wait >= cohort[j].wait
           /\ c[j].state # "absent" => c[j].epoch = cohort[j].epoch
  BY Zenon, PreparedFollows
<1>2. \A j \in Key : Sound(c[j]) /\ c[j].wait \in Nat
                     /\ (c[j].state # "absent" => cohort[j].state # "absent")
  <2> SUFFICES ASSUME NEW j \in Key
               PROVE  Sound(c[j]) /\ c[j].wait \in Nat
                      /\ (c[j].state # "absent" => cohort[j].state # "absent")
    BY Zenon
  <2>1. Sound(c[j]) /\ c[j].wait \in Nat
    BY Zenon, <1>1, EntryFields DEF Follows, Continues
  <2>2. c[j].state # "absent" => cohort[j].state # "absent"
    <3> SUFFICES ASSUME c[j].state # "absent", cohort[j].state = "absent"
                 PROVE FALSE
      BY Zenon
    <3>1. c[j].epoch = nextEpoch + 1 /\ c[j].epoch = cohort[j].epoch
      BY Zenon, <1>1 DEF Follows, Continues
    <3>2. cohort[j].epoch <= nextEpoch /\ cohort[j].epoch \in Nat
      BY Zenon, <1>0, EntryFields DEF IInv, Leases
    <3> QED
      BY <1>0, <3>1, <3>2
  <2> QED
    BY Zenon, <2>1, <2>2
<1>3. Cardinality(Retained(c)) <= MaxCohorts
  BY Zenon, <1>0, <1>2, FewerRetained
<1>4. CASE Drops(k, a)
  <2>1. d = c /\ d[k].state = "absent"
    BY Zenon, <1>4 DEF RecordOutcome, Drops
  <2> HIDE DEF c
  <2> QED
    BY Zenon, <1>1, <1>3, <2>1
<1>5. CASE ~Drops(k, a)
  <2>1. d = [c EXCEPT ![k] = Recorded(e, a, ra)]
    BY Zenon, <1>5 DEF RecordOutcome
  <2>2. Sound(e) /\ e.state # "absent"
    <3>1. CASE Creates(k, a)
      BY Zenon, <3>1, <1>0, CollectingIsSound DEF Collecting
    <3>2. CASE ~Creates(k, a)
      BY Zenon, <3>2, <1>5, <1>2 DEF Creates, Drops
    <3> QED
      BY Zenon, <3>1, <3>2
  <2> DEFINE f == Recorded(e, a, ra)
  <2>3. /\ Follows(e, f, nextEpoch) /\ Kept(e, f) /\ f.wait >= e.wait
        /\ f.state \in {"open", "probing"} => f.wait >= Sanitize(ra)
        /\ f.state # "absent" /\ f.state # "recovering" /\ f.epoch = e.epoch
        /\ e.state \in Protected => f.state \in Protected
    <3> HIDE DEF e
    <3> QED
      BY Zenon, <2>2, RecordedFollows
  <2>4. f \in Entry /\ f.wait \in Nat /\ e.wait \in Nat
    BY Zenon, <2>2, <2>3, EntryFields DEF Follows, Continues, Sound
  <2>5. /\ d \in [Key -> Entry] /\ d[k] = f
        /\ \A j \in Key \ {k} : d[j] = c[j]
    <3>1. d = [c EXCEPT ![k] = f] /\ c \in [Key -> Entry] /\ f \in Entry
      BY Zenon, <1>1, <2>1, <2>4
    <3> HIDE DEF c, d, f
    <3> QED
      BY Zenon, <3>1
  <2>6. /\ Follows(cohort[k], f, nextEpoch)
        /\ Kept(cohort[k], f) /\ f.wait >= cohort[k].wait
        /\ \/ f.epoch = cohort[k].epoch
           \/ Creates(k, a) /\ f.epoch = nextEpoch + 1
    <3>1. CASE Creates(k, a)
      <4>1. /\ e.epoch = nextEpoch + 1 /\ e.wait = 0 /\ e.state = "collecting"
            /\ ~(e.state \in {"probing", "recovering"})
        BY Zenon, <3>1 DEF Collecting
      <4>2. c[k].state = "absent"
        BY Zenon, <3>1 DEF Creates
      <4>3. /\ ~(cohort[k].state \in {"open", "probing"} \/ cohort[k].stable > 0)
            /\ cohort[k].wait = 0
        BY <1>0, <1>1, <1>2, <4>2 DEF Follows, Continues, Protected, Sound
      <4>4. /\ Sound(f) /\ f.epoch = nextEpoch + 1
            /\ f.state # "probing" /\ f.state # "recovering"
        BY Zenon, <2>3, <4>1 DEF Follows, Continues
      <4> HIDE DEF f
      <4> QED
        BY <3>1, <2>4, <4>3, <4>4 DEF Follows, Continues, Kept
    <3>2. CASE ~Creates(k, a)
      <4>1. e = c[k]
        BY Zenon, <3>2
      <4> HIDE DEF e, c, f
      <4>2. e.epoch = cohort[k].epoch
        BY Zenon, <1>1, <2>2, <4>1
      <4>3. Follows(cohort[k], f, nextEpoch)
        BY Zenon, <1>0, <1>1, <2>3, <4>1, <4>2, FollowsOn
      <4>4. Kept(cohort[k], f)
        <5>1. (cohort[k].state = "probing" /\ cohort[k].lease.committed)
                => e.state = "probing" /\ e.lease.committed
          BY Zenon, <1>1, <4>1 DEF Kept, Follows, Continues
        <5> QED
          BY Zenon, <2>3, <5>1 DEF Kept
      <4> QED
        BY <1>0, <1>1, <2>3, <2>4, <4>1, <4>2, <4>3, <4>4
    <3> QED
      BY Zenon, <3>1, <3>2
  <2>7. Cardinality(Retained(d)) <= MaxCohorts
    <3> HIDE DEF c, d, e
    <3>1. CASE Creates(k, a)
      <4>1. Room(c)
        BY Zenon, <3>1 DEF Creates, c
      <4> QED
        BY Zenon, <2>5, <4>1, RoomForOne
    <3>2. CASE ~Creates(k, a)
      <4>1. c[k].state # "absent"
        BY Zenon, <2>2, <3>2 DEF e
      <4> QED
        BY Zenon, <1>3, <2>5, <4>1, FewerRetained
    <3> QED
      BY Zenon, <3>1, <3>2
  <2> HIDE DEF c, f
  <2> QED
    BY Zenon, <1>1, <2>3, <2>5, <2>6, <2>7
<1> QED
  BY Zenon, <1>4, <1>5

-----------------------------------------------------------------------------
(* Steps *)

\* The whole map goes on.
Advance == \A k \in Key : Continues(cohort[k], cohort'[k], nextEpoch)

\* No cohort is granted a probe or starts to recover, and protection is kept.
Orderly ==
    \A k \in Key :
      /\ cohort'[k].state = "probing" => cohort[k].state = "probing"
      /\ cohort'[k].state = "recovering" => cohort[k].state = "recovering"
      /\ (cohort[k].state \in {"open", "probing"} \/ cohort[k].stable > 0)
           => cohort'[k].state \in Protected

\* Every entry that is left is older than the counter.
Counted == \A k \in Key : cohort'[k].state # "absent" => cohort'[k].epoch <= nextEpoch'

\* The permit in slot r names the same send.
SamePermit(r) ==
    /\ permit'[r].key = permit[r].key /\ permit'[r].account = permit[r].account
    /\ permit'[r].epoch = permit[r].epoch /\ permit'[r].gen = permit[r].gen

\* Nothing is granted, and what is on the wire was on it before.
NoGrant ==
    \A r \in Request : sending'[r] # "idle" =>
       /\ sending[r] # "idle" /\ permit'[r].kind = permit[r].kind /\ SamePermit(r)

LEMMA FollowsAll ==
    ASSUME \A k \in Key : Follows(cohort[k], cohort'[k], nextEpoch)
    PROVE  Advance /\ Orderly
  BY Zenon DEF Advance, Orderly, Follows, Continues

LEMMA PermitFields ==
    ASSUME IInv, NEW r \in Request
    PROVE  /\ permit[r] \in Permit
           /\ permit[r].kind \in {"probe", "recovery_send"}
           /\ permit[r].epoch \in Nat /\ permit[r].gen \in Nat
           /\ permit[r].phase \in {"none", "reserved", "committed", "terminal"}
           /\ permit[r].left \in 0..ProbeLease
           /\ sending[r] \in {"idle", "reserved", "sent"}
           /\ settled[r] \in BOOLEAN
           /\ sending[r] # "idle" =>
                permit[r].key \in Key /\ permit[r].account \in Account
<1>1. permit[r] \in Permit
  BY Zenon DEF IInv, TypeOK
<1>2. sending[r] # "idle" =>
        permit[r].key \in Key /\ permit[r].account \in Account
  BY Zenon DEF IInv, Leases, Named
<1>3. sending[r] \in {"idle", "reserved", "sent"} /\ settled[r] \in BOOLEAN
  BY Zenon DEF IInv, TypeOK
<1> QED
  BY <1>1, <1>2, <1>3, DegradedAssumption DEF Permit

\* The fences survive any step in which the map goes on and no probe is granted.
LEMMA LeasesKept ==
    ASSUME IInv, Advance, Counted, nextEpoch' >= nextEpoch, nextEpoch' \in Nat,
           \A r \in Request : Named(r)' /\ HoldsLease(r)',
           \A r \in Request : Probes(r)' => Probes(r) /\ SamePermit(r),
           UNCHANGED holder
    PROVE  Leases'
<1>0. /\ nextEpoch \in Nat
      /\ \A k \in Key : /\ cohort[k].epoch \in Nat /\ cohort'[k].epoch \in Nat
                        /\ cohort[k].gen \in Nat /\ cohort'[k].gen \in Nat
                        /\ cohort[k].epoch <= nextEpoch
  <2>1. \A k \in Key : cohort[k] \in Entry /\ cohort'[k] \in Entry
    BY Zenon, SoundCohorts DEF Advance, Follows, Continues, Sound
  <2> QED
    BY Zenon, <2>1, SoundCohorts, EntryFields DEF IInv, Leases
<1>1. ASSUME NEW k \in Key PROVE cohort'[k].epoch <= nextEpoch'
  <2>1. CASE cohort'[k].state = "absent"
    BY <2>1 DEF Advance, Follows, Continues, Sound
  <2>2. CASE cohort'[k].state # "absent"
    BY Zenon, <2>2 DEF Counted
  <2> QED
    BY Zenon, <2>1, <2>2
<1>2. ASSUME NEW r \in Request, Probes(r)'
      PROVE  /\ Probes(r) /\ SamePermit(r) /\ permit[r].key \in Key
             /\ permit[r].epoch \in Nat /\ permit[r].gen \in Nat
  BY Zenon, <1>2, PermitFields DEF Probes
<1>3. ASSUME NEW r \in Request PROVE Fenced(r)'
  <2> SUFFICES ASSUME Probes(r)' PROVE Fenced(r)'
    BY Zenon DEF Fenced
  <2> DEFINE k == permit[r].key
  <2>1. Fenced(r) /\ Probes(r) /\ SamePermit(r) /\ k \in Key
        /\ permit[r].epoch \in Nat /\ permit[r].gen \in Nat
    BY Zenon, <1>2 DEF IInv, Leases
  <2>2. permit[r].epoch <= nextEpoch
    BY Zenon, <2>1 DEF Fenced
  <2>3. CASE cohort'[k].epoch = nextEpoch + 1
    BY <1>0, <2>1, <2>2, <2>3 DEF Fenced, SamePermit
  <2>4. CASE cohort'[k].state = "absent"
    BY <1>0, <2>1, <2>2, <2>4 DEF Fenced, SamePermit
  <2>5. CASE /\ cohort[k].state # "absent" /\ cohort'[k].epoch = cohort[k].epoch
             /\ cohort'[k].gen >= cohort[k].gen
    BY <1>0, <2>1, <2>2, <2>5 DEF Fenced, SamePermit
  <2> QED
    BY Zenon, <2>1, <2>3, <2>4, <2>5 DEF Advance, Follows, Continues
<1>4. ASSUME NEW r \in Request PROVE GrantedTo(r)'
  <2> SUFFICES ASSUME Probes(r)',
                      MatchingProbeLease(permit[r], cohort[permit[r].key])'
               PROVE  holder'[permit'[r].key] = r
    BY Zenon DEF GrantedTo
  <2> DEFINE k == permit[r].key
  <2>1. GrantedTo(r) /\ Probes(r) /\ SamePermit(r) /\ k \in Key
    BY Zenon, <1>2 DEF IInv, Leases
  <2>2. MatchingProbeLease(permit[r], cohort'[k])
    BY Zenon, <2>1 DEF MatchingProbeLease, SamePermit
  <2>3. MatchingProbeLease(permit[r], cohort[k])
    BY Zenon, <2>1, <2>2 DEF MatchingProbeLease, Advance, Follows, Continues
  <2> QED
    BY Zenon, <2>1, <2>3 DEF GrantedTo, SamePermit
<1>5. ASSUME NEW r \in Request, NEW q \in Request PROVE Distinct(r, q)'
  <2> SUFFICES ASSUME Probes(r)', Probes(q)', permit'[r].key = permit'[q].key,
                      permit'[r].epoch = permit'[q].epoch,
                      permit'[r].gen = permit'[q].gen
               PROVE  r = q
    BY Zenon DEF Distinct
  <2>1. Distinct(r, q)
    BY Zenon DEF IInv, Leases
  <2>2. Probes(r) /\ Probes(q) /\ SamePermit(r) /\ SamePermit(q)
    BY Zenon, <1>2
  <2> QED
    BY Zenon, <2>1, <2>2 DEF Distinct, SamePermit
<1> QED
  BY Zenon, <1>1, <1>3, <1>4, <1>5 DEF Leases

\* A probe that stays on the wire keeps a lease that is kept.
LEMMA LeaseHeldOn ==
    ASSUME IInv, Advance, NEW r \in Request, SamePermit(r),
           Kept(cohort[permit[r].key], cohort'[permit[r].key]),
           (Probes(r)' /\ sending'[r] = "sent" /\ ~settled'[r])
             => Probes(r) /\ sending[r] = "sent" /\ ~settled[r]
    PROVE  HoldsLease(r)'
<1> SUFFICES ASSUME Probes(r)', sending'[r] = "sent", ~settled'[r]
             PROVE  HoldsLease(r)'
  BY Zenon DEF HoldsLease
<1> DEFINE k == permit[r].key
<1>1. HoldsLease(r) /\ Probes(r) /\ k \in Key
  BY Zenon, PermitFields DEF IInv, Leases, Probes
<1>2. MatchingProbeLease(permit[r], cohort[k]) /\ cohort[k].lease.committed
  BY Zenon, <1>1 DEF HoldsLease
<1>3. cohort'[k].state = "probing"
  BY Zenon, <1>2 DEF Kept, MatchingProbeLease
<1>4. MatchingProbeLease(permit[r], cohort'[k]) /\ cohort'[k].lease.committed
  BY Zenon, <1>1, <1>2, <1>3 DEF MatchingProbeLease, Advance, Follows, Continues
<1> QED
  BY Zenon, <1>1, <1>4 DEF HoldsLease, MatchingProbeLease, SamePermit

PermitsTyped ==
    /\ permit \in [Request -> Permit]
    /\ sending \in [Request -> {"idle", "reserved", "sent"}]
    /\ settled \in [Request -> BOOLEAN]

\* A step in which the map goes on and nothing is granted keeps the invariant.
LEMMA QuietStep ==
    ASSUME IInv, Advance, Counted, NoGrant, PermitsTyped', UNCHANGED holder,
           cohort' \in [Key -> Entry], Cardinality(Retained(cohort')) <= MaxCohorts,
           nextEpoch' \in 0..MaxEpoch, nextEpoch' >= nextEpoch,
           owed' \in [Key -> 0..RetryMax],
           \A k \in Key : owed'[k] <= cohort'[k].wait,
           \A r \in Request : HoldsLease(r)'
    PROVE  IInv'
<1>1. TypeOK'
  BY Zenon DEF TypeOK, IInv, PermitsTyped, Retained
<1>2. \A k \in Key : Sound(cohort'[k])
  BY Zenon DEF Advance, Follows, Continues
<1>3. \A r \in Request : Named(r)'
  BY Zenon, PermitFields DEF Named, NoGrant, SamePermit
<1>4. \A r \in Request : Probes(r)' => Probes(r) /\ SamePermit(r)
  BY Zenon DEF Probes, NoGrant
<1>5. nextEpoch' \in Nat
  BY DegradedAssumption
<1>6. Leases'
  BY Zenon, <1>3, <1>4, <1>5, LeasesKept
<1> QED
  BY Zenon, <1>1, <1>2, <1>6 DEF IInv

\* One entry goes on, the rest stays as it is.
LEMMA OneEntry ==
    ASSUME IInv, NEW k \in Key, NEW f, Continues(cohort[k], f, nextEpoch),
           f.state # "absent" => f.epoch = cohort[k].epoch,
           cohort' = [cohort EXCEPT ![k] = f], UNCHANGED nextEpoch
    PROVE  /\ cohort' \in [Key -> Entry]
           /\ Cardinality(Retained(cohort')) <= MaxCohorts
           /\ Advance /\ Counted
           /\ nextEpoch' \in 0..MaxEpoch /\ nextEpoch' >= nextEpoch
           /\ cohort'[k] = f /\ \A j \in Key \ {k} : cohort'[j] = cohort[j]
           /\ Follows(cohort[k], f, nextEpoch) => Orderly
<1>0. /\ cohort \in [Key -> Entry] /\ nextEpoch \in Nat /\ nextEpoch \in 0..MaxEpoch
      /\ \A j \in Key : Sound(cohort[j]) /\ cohort[j].epoch <= nextEpoch
                        /\ cohort[j].epoch \in Nat
      /\ f \in Entry
  BY Zenon, SoundCohorts, EntryFields DEF IInv, TypeOK, Leases, Follows, Continues, Sound
<1>1. /\ cohort' \in [Key -> Entry] /\ cohort'[k] = f
      /\ \A j \in Key \ {k} : cohort'[j] = cohort[j]
  BY Zenon, <1>0
<1>2. f.state # "absent" => cohort[k].state # "absent"
  BY <1>0 DEF Follows, Continues
<1>3. Cardinality(Retained(cohort')) <= MaxCohorts
  BY Zenon, <1>1, <1>2, FewerRetained DEF IInv, TypeOK
<1>4. Advance
  <2> SUFFICES ASSUME NEW j \in Key
               PROVE  Continues(cohort[j], cohort'[j], nextEpoch)
    BY Zenon DEF Advance
  <2>1. CASE j = k
    BY Zenon, <1>1, <2>1
  <2>2. CASE j # k
    BY Zenon, <1>0, <1>1, <2>2, FollowsItself DEF Follows
  <2> QED
    BY Zenon, <2>1, <2>2
<1>5. Counted
  BY Zenon, <1>0, <1>1 DEF Counted
<1>6. ASSUME Follows(cohort[k], f, nextEpoch) PROVE Orderly
  <2>1. ASSUME NEW j \in Key PROVE Follows(cohort[j], cohort'[j], nextEpoch)
    <3>1. CASE j = k
      BY Zenon, <1>1, <1>6, <3>1
    <3>2. CASE j # k
      BY Zenon, <1>0, <1>1, <3>2, FollowsItself
    <3> QED
      BY Zenon, <3>1, <3>2
  <2> QED
    BY Zenon, <2>1, FollowsAll
<1> QED
  BY <1>0, <1>1, <1>3, <1>4, <1>5, <1>6

LEMMA OthersStay ==
    ASSUME IInv, NEW k \in Key, \A j \in Key \ {k} : cohort'[j] = cohort[j],
           cohort'[k].wait >= cohort[k].wait
    PROVE  /\ \A j \in Key : cohort'[j].wait >= cohort[j].wait
           /\ \A j \in Key \ {k} : Kept(cohort[j], cohort'[j])
<1>1. ASSUME NEW j \in Key PROVE cohort'[j].wait >= cohort[j].wait
  <2>1. cohort[j].wait \in Nat
    BY Zenon, SoundCohorts, EntryFields
  <2>2. CASE j = k
    BY Zenon, <2>2
  <2>3. CASE j # k
    BY <2>1, <2>3
  <2> QED
    BY Zenon, <2>2, <2>3
<1>2. ASSUME NEW j \in Key \ {k} PROVE Kept(cohort[j], cohort'[j])
  BY Zenon, <1>2 DEF Kept
<1> QED
  BY Zenon, <1>1, <1>2

\* The request in slot r ends.
LEMMA EndsKeeps ==
    ASSUME IInv, NEW r \in Request, Ends(r)
    PROVE  /\ PermitsTyped' /\ NoGrant /\ sending'[r] = "idle"
           /\ \A q \in Request \ {r} :
                /\ permit'[q] = permit[q] /\ sending'[q] = sending[q]
                /\ settled'[q] = settled[q]
<1>1. /\ permit \in [Request -> Permit]
      /\ sending \in [Request -> {"idle", "reserved", "sent"}]
      /\ settled \in [Request -> BOOLEAN]
  BY Zenon DEF IInv, TypeOK
<1>2. NoPermit \in Permit
  BY DegradedAssumption DEF NoPermit, Permit
<1>3. PermitsTyped'
  BY Zenon, <1>1, <1>2 DEF PermitsTyped, Ends
<1>4. /\ sending'[r] = "idle"
      /\ \A q \in Request \ {r} :
           /\ permit'[q] = permit[q] /\ sending'[q] = sending[q]
           /\ settled'[q] = settled[q]
  BY Zenon, <1>1 DEF Ends
<1> QED
  BY Zenon, <1>3, <1>4 DEF NoGrant, SamePermit

\* Nothing happens to the permits.
LEMMA PermitsUnchanged ==
    ASSUME IInv, UNCHANGED <<permit, sending, settled>>
    PROVE  PermitsTyped' /\ NoGrant
  BY Zenon DEF IInv, TypeOK, PermitsTyped, NoGrant, SamePermit

\* Where every committed lease is kept, every probe on the wire keeps its own.
LEMMA AllLeasesHeld ==
    ASSUME IInv, Advance, NoGrant,
           \A q \in Request : sending'[q] = "sent" =>
             sending[q] = "sent" /\ settled'[q] = settled[q],
           \A k \in Key : Kept(cohort[k], cohort'[k])
    PROVE  \A q \in Request : HoldsLease(q)'
<1> SUFFICES ASSUME NEW q \in Request PROVE HoldsLease(q)'
  BY Zenon
<1>1. CASE sending'[q] = "sent"
  <2>1. SamePermit(q) /\ sending[q] # "idle" /\ permit'[q].kind = permit[q].kind
    BY Zenon, <1>1 DEF NoGrant
  <2>2. permit[q].key \in Key
    BY Zenon, <2>1, PermitFields
  <2>3. Probes(q)' => Probes(q)
    BY Zenon, <2>1 DEF Probes
  <2> QED
    BY Zenon, <1>1, <2>1, <2>2, <2>3, LeaseHeldOn
<1>2. CASE sending'[q] # "sent"
  BY Zenon, <1>2 DEF HoldsLease
<1> QED
  BY Zenon, <1>1, <1>2

-----------------------------------------------------------------------------
(* One lemma per action *)

\* What an overload answer makes the coordinator owe stays within the deadline.
LEMMA OwesWithinWait ==
    ASSUME IInv, NEW k \in Key, NEW ra \in Header, Owes(k, ra),
           cohort' \in [Key -> Entry],
           \A j \in Key \ {k} : cohort'[j].wait >= cohort[j].wait,
           cohort'[k].state \in {"open", "probing"} =>
             cohort'[k].wait >= cohort[k].wait /\ cohort'[k].wait >= Sanitize(ra)
    PROVE  /\ owed' \in [Key -> 0..RetryMax]
           /\ \A j \in Key : owed'[j] <= cohort'[j].wait
<1>1. /\ owed \in [Key -> 0..RetryMax] /\ RetryMax \in Nat
      /\ \A j \in Key : owed[j] \in Nat /\ owed[j] <= cohort[j].wait
  BY DegradedAssumption DEF IInv, TypeOK
<1>2. \A j \in Key : cohort[j].wait \in Nat /\ cohort'[j].wait \in Nat
  BY Zenon, SoundCohorts, EntryFields
<1>3. Sanitize(ra) \in Nat /\ Sanitize(ra) <= RetryMax
  BY Zenon, SanitizeClamps
<1>4. Larger(owed[k], Sanitize(ra)) \in 0..RetryMax
  BY <1>1, <1>3 DEF Larger
<1>5. owed' \in [Key -> 0..RetryMax]
  BY <1>1, <1>4 DEF Owes
<1>6. ASSUME NEW j \in Key, j # k PROVE owed'[j] <= cohort'[j].wait
  <2>1. owed'[j] = owed[j]
    BY Zenon, <1>1, <1>6 DEF Owes
  <2> QED
    BY <1>1, <1>2, <1>6, <2>1
<1>7. owed'[k] <= cohort'[k].wait
  <2>1. CASE cohort'[k].state \in {"open", "probing"}
    <3>1. owed'[k] = Larger(owed[k], Sanitize(ra))
      BY Zenon, <1>1, <2>1 DEF Owes
    <3> QED
      BY <1>1, <1>2, <1>3, <2>1, <3>1 DEF Larger
  <2>2. CASE ~(cohort'[k].state \in {"open", "probing"})
    <3>1. owed'[k] = 0
      BY Zenon, <1>1, <2>2 DEF Owes
    <3> QED
      BY <1>2, <3>1
  <2> QED
    BY Zenon, <2>1, <2>2
<1> QED
  BY Zenon, <1>5, <1>6, <1>7

\* Nothing more is owed, and no deadline gets shorter.
LEMMA OwedUnchanged ==
    ASSUME IInv, UNCHANGED owed, cohort' \in [Key -> Entry],
           \A j \in Key : cohort'[j].wait >= cohort[j].wait
    PROVE  /\ owed' \in [Key -> 0..RetryMax]
           /\ \A j \in Key : owed'[j] <= cohort'[j].wait
<1>1. /\ owed \in [Key -> 0..RetryMax]
      /\ \A j \in Key : owed[j] \in Nat /\ owed[j] <= cohort[j].wait
  BY DegradedAssumption DEF IInv, TypeOK
<1>2. \A j \in Key : cohort[j].wait \in Nat /\ cohort'[j].wait \in Nat
  BY Zenon, SoundCohorts, EntryFields
<1> QED
  BY <1>1, <1>2

\* recordOutcome as a step of the map.
LEMMA RecordsStep ==
    ASSUME IInv, NEW k \in Key, NEW a \in Account, NEW ra \in Header,
           Records(k, a), NEW d, d = RecordOutcome(k, a, ra)
    PROVE  /\ nextEpoch' \in 0..MaxEpoch /\ nextEpoch' >= nextEpoch
           /\ \A j \in Key : d[j].state # "absent" => d[j].epoch <= nextEpoch'
<1>1. nextEpoch \in 0..MaxEpoch /\ nextEpoch \in Nat /\ MaxEpoch \in Nat
  BY DegradedAssumption DEF IInv, TypeOK
<1>2. /\ nextEpoch' \in 0..MaxEpoch /\ nextEpoch' >= nextEpoch
      /\ Creates(k, a) => nextEpoch' = nextEpoch + 1
  BY <1>1 DEF Records
<1>3. \A j \in Key : d[j].state # "absent" =>
         \/ d[j].epoch = cohort[j].epoch
         \/ Creates(k, a) /\ d[j].epoch = nextEpoch + 1
  BY Zenon, OutcomeFollows DEF Records
<1>4. \A j \in Key : cohort[j].epoch \in Nat /\ cohort[j].epoch <= nextEpoch
  BY Zenon, SoundCohorts, EntryFields DEF IInv, Leases
<1> QED
  BY <1>1, <1>2, <1>3, <1>4

LEMMA ObserveStep ==
    ASSUME IInv, NEW k \in Key, NEW a \in Account, NEW ra \in Header,
           Observe(k, a, ra)
    PROVE  IInv' /\ Orderly
<1>1. /\ cohort' = RecordOutcome(k, a, ra) /\ Records(k, a) /\ Owes(k, ra)
      /\ UNCHANGED <<permit, sending, settled, holder>>
  BY Zenon DEF Observe
<1>2. /\ cohort' \in [Key -> Entry] /\ Cardinality(Retained(cohort')) <= MaxCohorts
      /\ \A j \in Key : /\ Follows(cohort[j], cohort'[j], nextEpoch)
                        /\ Kept(cohort[j], cohort'[j])
                        /\ cohort'[j].wait >= cohort[j].wait
      /\ cohort'[k].state \in {"open", "probing"} => cohort'[k].wait >= Sanitize(ra)
  BY Zenon, <1>1, OutcomeFollows DEF Records
<1>3. /\ nextEpoch' \in 0..MaxEpoch /\ nextEpoch' >= nextEpoch /\ Counted
  BY Zenon, <1>1, RecordsStep DEF Counted
<1>4. Advance /\ Orderly
  BY Zenon, <1>2, FollowsAll
<1>5. PermitsTyped' /\ NoGrant
  BY Zenon, <1>1, PermitsUnchanged
<1>6. /\ owed' \in [Key -> 0..RetryMax]
      /\ \A j \in Key : owed'[j] <= cohort'[j].wait
  BY Zenon, <1>1, <1>2, OwesWithinWait
<1>7. \A q \in Request : HoldsLease(q)'
  BY Zenon, <1>1, <1>2, <1>4, <1>5, AllLeasesHeld
<1> QED
  BY Zenon, <1>1, <1>2, <1>3, <1>4, <1>5, <1>6, <1>7, QuietStep

\* An operation that only prunes the entry it looks at.
LEMMA InspectStep ==
    ASSUME IInv, NEW k \in Key, Inspect(k)
    PROVE  IInv' /\ Orderly
<1> DEFINE f == PruneEntry(cohort[k])
<1>1. /\ cohort' = [cohort EXCEPT ![k] = f]
      /\ UNCHANGED <<nextEpoch, permit, sending, settled, owed, holder>>
  BY Zenon DEF Inspect, history
<1>2. /\ Follows(cohort[k], f, nextEpoch) /\ Kept(cohort[k], f)
      /\ f.wait >= cohort[k].wait
      /\ f.state # "absent" => f.epoch = cohort[k].epoch
  BY Zenon, SoundCohorts, PruneFollows
<1> HIDE DEF f
<1>3. /\ cohort' \in [Key -> Entry] /\ Cardinality(Retained(cohort')) <= MaxCohorts
      /\ Orderly /\ Advance /\ Counted /\ nextEpoch' \in 0..MaxEpoch /\ nextEpoch' >= nextEpoch
      /\ cohort'[k] = f /\ \A j \in Key \ {k} : cohort'[j] = cohort[j]
  <2>1. Continues(cohort[k], f, nextEpoch)
    BY Zenon, <1>2 DEF Follows
  <2> QED
    BY Zenon, <1>1, <1>2, <2>1, OneEntry
<1>4. \A j \in Key : Kept(cohort[j], cohort'[j]) /\ cohort'[j].wait >= cohort[j].wait
  BY Zenon, <1>2, <1>3, OthersStay
<1>5. PermitsTyped' /\ NoGrant
  BY Zenon, <1>1, PermitsUnchanged
<1>6. /\ owed' \in [Key -> 0..RetryMax]
      /\ \A j \in Key : owed'[j] <= cohort'[j].wait
  BY Zenon, <1>1, <1>3, <1>4, OwedUnchanged
<1>7. \A q \in Request : HoldsLease(q)'
  BY Zenon, <1>1, <1>3, <1>4, <1>5, AllLeasesHeld
<1> QED
  BY Zenon, <1>1, <1>3, <1>5, <1>6, <1>7, QuietStep

LEMMA SnapshotStep ==
    ASSUME IInv, Snapshot
    PROVE  IInv' /\ Orderly
<1>1. /\ cohort' = PruneAll(cohort)
      /\ UNCHANGED <<nextEpoch, permit, sending, settled, owed, holder>>
  BY Zenon DEF Snapshot, history
<1>2. /\ cohort' \in [Key -> Entry]
      /\ \A j \in Key : cohort'[j] = PruneEntry(cohort[j])
  BY Zenon, <1>1, SoundCohorts DEF PruneAll
<1>3. \A j \in Key :
        /\ Follows(cohort[j], cohort'[j], nextEpoch) /\ Kept(cohort[j], cohort'[j])
        /\ cohort'[j].wait >= cohort[j].wait
        /\ cohort'[j].state # "absent" => cohort'[j].epoch = cohort[j].epoch
  BY <1>2, SoundCohorts, PruneFollows
<1>4. Advance /\ Orderly
  BY Zenon, <1>3, FollowsAll
<1>5. nextEpoch' \in 0..MaxEpoch /\ nextEpoch' \in Nat /\ nextEpoch' >= nextEpoch
  BY <1>1, DegradedAssumption DEF IInv, TypeOK
<1>6. \A j \in Key : cohort[j].epoch \in Nat /\ cohort[j].epoch <= nextEpoch
  BY Zenon, SoundCohorts, EntryFields DEF IInv, Leases
<1>7. Counted
  BY Zenon, <1>1, <1>3, <1>5, <1>6 DEF Counted
<1>8. Cardinality(Retained(cohort')) <= MaxCohorts
  <2>1. ASSUME NEW j \in Key, cohort'[j].state # "absent"
        PROVE  cohort[j].state # "absent"
    BY <1>1, <1>3, <1>5, <1>6, <2>1 DEF Follows, Continues
  <2> QED
    BY Zenon, <2>1, FewerRetained DEF IInv, TypeOK
<1>9. PermitsTyped' /\ NoGrant
  BY Zenon, <1>1, PermitsUnchanged
<1>10. /\ owed' \in [Key -> 0..RetryMax]
       /\ \A j \in Key : owed'[j] <= cohort'[j].wait
  BY Zenon, <1>1, <1>2, <1>3, OwedUnchanged
<1>11. \A q \in Request : HoldsLease(q)'
  BY Zenon, <1>1, <1>3, <1>4, <1>9, AllLeasesHeld
<1> QED
  BY Zenon, <1>1, <1>2, <1>4, <1>5, <1>7, <1>8, <1>9, <1>10, <1>11, QuietStep

\* The end of the request in slot r, with an entry of its cohort that goes on
\* and loses no committed lease.
LEMMA EndsQuietly ==
    ASSUME IInv, NEW r \in Request, Ends(r), NEW k \in Key, NEW f,
           cohort' = [cohort EXCEPT ![k] = f],
           Follows(cohort[k], f, nextEpoch), Kept(cohort[k], f),
           f.wait >= cohort[k].wait,
           f.state # "absent" => f.epoch = cohort[k].epoch,
           UNCHANGED <<nextEpoch, owed, holder>>
    PROVE  IInv' /\ Orderly
<1>1. /\ cohort' \in [Key -> Entry] /\ Cardinality(Retained(cohort')) <= MaxCohorts
      /\ Orderly /\ Advance /\ Counted /\ nextEpoch' \in 0..MaxEpoch /\ nextEpoch' >= nextEpoch
      /\ cohort'[k] = f /\ \A j \in Key \ {k} : cohort'[j] = cohort[j]
  <2>1. Continues(cohort[k], f, nextEpoch)
    BY Zenon DEF Follows
  <2> QED
    BY Zenon, <2>1, OneEntry
<1>2. \A j \in Key : Kept(cohort[j], cohort'[j]) /\ cohort'[j].wait >= cohort[j].wait
  BY Zenon, <1>1, OthersStay
<1>3. /\ PermitsTyped' /\ NoGrant /\ sending'[r] = "idle"
      /\ \A q \in Request \ {r} :
           /\ permit'[q] = permit[q] /\ sending'[q] = sending[q]
           /\ settled'[q] = settled[q]
  BY Zenon, EndsKeeps
<1>4. /\ owed' \in [Key -> 0..RetryMax]
      /\ \A j \in Key : owed'[j] <= cohort'[j].wait
  BY Zenon, <1>1, <1>2, OwedUnchanged
<1>5. \A q \in Request : HoldsLease(q)'
  BY Zenon, <1>1, <1>2, <1>3, AllLeasesHeld
<1> QED
  BY Zenon, <1>1, <1>3, <1>4, <1>5, QuietStep

LEMMA CancelStep ==
    ASSUME IInv, NEW r \in Request, Cancel(r)
    PROVE  IInv' /\ Orderly
<1> DEFINE p == permit[r]
           k == p.key
           e == PruneEntry(cohort[k])
           f == IF Reservable(p, e) /\ p.kind = "probe"
                THEN TransitionToOpen(e, None) ELSE e
<1>1. /\ cohort' = [cohort EXCEPT ![k] = f] /\ Ends(r) /\ sending[r] = "reserved"
      /\ UNCHANGED <<nextEpoch, owed, holder>>
  BY Zenon DEF Cancel, history
<1>2. k \in Key
  BY Zenon, <1>1, PermitFields
<1>3. /\ Follows(cohort[k], e, nextEpoch) /\ Kept(cohort[k], e)
      /\ e.wait >= cohort[k].wait
      /\ e.state # "absent" => e.epoch = cohort[k].epoch
      /\ e.state = "probing" => e = cohort[k]
  BY Zenon, <1>2, SoundCohorts, PruneFollows
<1>4. /\ Follows(cohort[k], f, nextEpoch) /\ Kept(cohort[k], f)
      /\ f.wait >= cohort[k].wait
      /\ f.state # "absent" => f.epoch = cohort[k].epoch
  <2>1. CASE Reservable(p, e) /\ p.kind = "probe"
    <3>1. f = TransitionToOpen(e, None) /\ None \in Header
      BY Zenon, <2>1 DEF Header
    <3>2. e.state = "probing" /\ ~e.lease.committed /\ e = cohort[k]
      BY Zenon, <1>3, <2>1 DEF Reservable, MatchingProbeLease
    <3>3. Sound(cohort[k])
      BY Zenon, <1>2, SoundCohorts
    <3> HIDE DEF e, f
    <3>4. /\ Follows(cohort[k], f, nextEpoch) /\ f.wait >= cohort[k].wait
          /\ f.epoch = cohort[k].epoch
      BY Zenon, <3>1, <3>2, <3>3, OpenFollows
    <3> QED
      BY Zenon, <3>2, <3>4 DEF Kept
  <2>2. CASE ~(Reservable(p, e) /\ p.kind = "probe")
    <3>1. f = e
      BY Zenon, <2>2
    <3> HIDE DEF e, f
    <3> QED
      BY Zenon, <1>3, <3>1
  <2> QED
    BY Zenon, <2>1, <2>2
<1> HIDE DEF f, k
<1> QED
  BY Zenon, <1>1, <1>2, <1>4, EndsQuietly

\* commitPermit on the lease of a probe: the lease is the same, and committed.
CommittedLease(e) ==
    [e EXCEPT !.lease = [gen |-> e.lease.gen, account |-> e.lease.account,
                         left |-> e.lease.left, committed |-> TRUE]]

LEMMA CommitLease ==
    ASSUME NEW e, Sound(e), e.state = "probing", NEW n
    PROVE  LET f == CommittedLease(e)
           IN  /\ Follows(e, f, n) /\ Kept(e, f) /\ f.wait >= e.wait
               /\ f.epoch = e.epoch /\ f.state = "probing" /\ f.lease.committed
               /\ f.lease.gen = e.lease.gen /\ f.lease.account = e.lease.account
<1> DEFINE f == CommittedLease(e)
<1>1. /\ e \in Entry /\ e.lease \in Lease /\ e.gen \in Nat /\ e.wait \in Nat
  BY Zenon, EntryFields DEF Sound
<1> DEFINE l == [gen |-> e.lease.gen, account |-> e.lease.account,
                 left |-> e.lease.left, committed |-> TRUE]
<1>2. /\ l \in Lease /\ l.gen = e.lease.gen /\ l.account = e.lease.account
      /\ l.committed
  BY Zenon, <1>1 DEF Lease
<1>3. f = [e EXCEPT !.lease = l]
  BY Zenon DEF CommittedLease
<1> HIDE DEF l
<1>4. /\ f \in Entry /\ f.state = e.state /\ f.epoch = e.epoch /\ f.gen = e.gen
      /\ f.wait = e.wait /\ f.lease = l /\ f.stable = e.stable
  BY Zenon, <1>1, <1>2, <1>3 DEF Entry
<1>5. Sound(f)
  BY Zenon, <1>2, <1>4 DEF Sound
<1>6. Follows(e, f, n)
  BY <1>1, <1>2, <1>4, <1>5 DEF Follows, Continues, Protected
<1> QED
  BY <1>1, <1>2, <1>4, <1>6 DEF Kept

LEMMA CommitStep ==
    ASSUME IInv, NEW r \in Request, Commit(r)
    PROVE  IInv' /\ Orderly
<1> DEFINE p == permit[r]
           k == p.key
           e == PruneEntry(cohort[k])
           f == IF p.kind = "probe" THEN CommittedLease(e) ELSE e
<1>1. sending[r] = "reserved" /\ UNCHANGED <<nextEpoch, owed, holder>>
  BY Zenon DEF Commit, history
<1>2. k \in Key /\ p.kind \in {"probe", "recovery_send"}
  BY Zenon, <1>1, PermitFields
<1>3. /\ Follows(cohort[k], e, nextEpoch) /\ Kept(cohort[k], e)
      /\ e.wait >= cohort[k].wait
      /\ e.state # "absent" => e.epoch = cohort[k].epoch
      /\ e.state = "probing" => e = cohort[k]
  BY Zenon, <1>2, SoundCohorts, PruneFollows
<1>4. CASE ~Reservable(p, e)
  <2>1. cohort' = [cohort EXCEPT ![k] = e] /\ Ends(r)
    BY Zenon, <1>4 DEF Commit
  <2> HIDE DEF e, k
  <2> QED
    BY Zenon, <1>1, <1>2, <1>3, <2>1, EndsQuietly
<1>5. CASE Reservable(p, e)
  <2>1. /\ cohort' = [cohort EXCEPT ![k] = f]
        /\ permit' = [permit EXCEPT ![r].phase = "committed"]
        /\ sending' = [sending EXCEPT ![r] = "sent"] /\ UNCHANGED settled
    BY Zenon, <1>5 DEF Commit, CommittedLease
  <2>2. /\ Follows(cohort[k], f, nextEpoch) /\ Kept(cohort[k], f)
        /\ f.wait >= cohort[k].wait
        /\ f.state # "absent" => f.epoch = cohort[k].epoch
        /\ p.kind = "probe" => MatchingProbeLease(p, f) /\ f.lease.committed
    <3>1. CASE p.kind = "probe"
      <4>1. e.state = "probing" /\ e = cohort[k] /\ MatchingProbeLease(p, e)
        BY Zenon, <1>3, <1>5, <3>1 DEF Reservable, MatchingProbeLease
      <4>2. f = CommittedLease(e)
        BY Zenon, <3>1
      <4>3. Sound(e)
        BY Zenon, <1>2, <4>1, SoundCohorts
      <4> HIDE DEF e, f, k
      <4>4. LET g == CommittedLease(e)
            IN  /\ Follows(e, g, nextEpoch) /\ Kept(e, g) /\ g.wait >= e.wait
                /\ g.epoch = e.epoch /\ g.state = "probing" /\ g.lease.committed
                /\ g.lease.gen = e.lease.gen /\ g.lease.account = e.lease.account
        BY Zenon, <4>1, <4>3, CommitLease
      <4> QED
        BY Zenon, <4>1, <4>2, <4>4 DEF MatchingProbeLease
    <3>2. CASE p.kind # "probe"
      <4>1. f = e
        BY Zenon, <3>2
      <4> HIDE DEF e, f
      <4> QED
        BY Zenon, <1>3, <3>2, <4>1
    <3> QED
      BY Zenon, <3>1, <3>2
  <2> HIDE DEF f, e
  <2>3. /\ cohort' \in [Key -> Entry] /\ Cardinality(Retained(cohort')) <= MaxCohorts
        /\ Orderly /\ Advance /\ Counted /\ nextEpoch' \in 0..MaxEpoch
        /\ nextEpoch' >= nextEpoch
        /\ cohort'[k] = f /\ \A j \in Key \ {k} : cohort'[j] = cohort[j]
    <3>1. Continues(cohort[k], f, nextEpoch)
      BY Zenon, <2>2 DEF Follows
    <3> QED
      BY Zenon, <1>1, <1>2, <2>1, <2>2, <3>1, OneEntry
  <2>4. \A j \in Key : Kept(cohort[j], cohort'[j]) /\ cohort'[j].wait >= cohort[j].wait
    BY Zenon, <1>2, <2>2, <2>3, OthersStay
  <2>5. /\ permit \in [Request -> Permit] /\ sending \in [Request -> {"idle", "reserved", "sent"}]
        /\ settled \in [Request -> BOOLEAN]
    BY Zenon DEF IInv, TypeOK
  <2>6. PermitsTyped'
    BY <2>1, <2>5 DEF PermitsTyped, Permit
  <2>7. /\ \A q \in Request : permit'[q].kind = permit[q].kind /\ SamePermit(q)
        /\ \A q \in Request \ {r} : sending'[q] = sending[q]
        /\ sending'[r] = "sent"
    BY <2>1, <2>5 DEF SamePermit, Permit
  <2>8. NoGrant
    BY Zenon, <1>1, <2>7 DEF NoGrant
  <2>9. /\ owed' \in [Key -> 0..RetryMax]
        /\ \A j \in Key : owed'[j] <= cohort'[j].wait
    BY Zenon, <1>1, <2>3, <2>4, OwedUnchanged
  <2>10. ASSUME NEW q \in Request PROVE HoldsLease(q)'
    <3>1. CASE q = r
      <4>1. permit'[r].kind = "probe" =>
              MatchingProbeLease(permit'[r], cohort'[k]) /\ cohort'[k].lease.committed
        BY Zenon, <2>2, <2>3, <2>7 DEF MatchingProbeLease, SamePermit
      <4> QED
        BY Zenon, <2>7, <3>1, <4>1 DEF HoldsLease, Probes, SamePermit
    <3>2. CASE q # r
      <4>1. CASE sending[q] = "idle"
        BY Zenon, <2>7, <3>2, <4>1 DEF HoldsLease, Probes
      <4>2. CASE sending[q] # "idle"
        <5>1. Kept(cohort[permit[q].key], cohort'[permit[q].key])
          BY Zenon, <2>4, <4>2, PermitFields
        <5> QED
          BY Zenon, <2>1, <2>3, <2>7, <3>2, <5>1, LeaseHeldOn DEF Probes
      <4> QED
        BY Zenon, <4>1, <4>2
    <3> QED
      BY Zenon, <3>1, <3>2
  <2> QED
    BY Zenon, <1>1, <2>3, <2>6, <2>8, <2>9, <2>10, QuietStep
<1> QED
  BY Zenon, <1>4, <1>5

\* A probe whose permit matches the lease is the only one on the wire.
LEMMA SoleHolder ==
    ASSUME IInv, NEW r \in Request, NEW q \in Request, Probes(r),
           MatchingProbeLease(permit[r], cohort[permit[r].key]),
           Probes(q), sending[q] = "sent", ~settled[q],
           permit[q].key = permit[r].key
    PROVE  q = r
<1>1. HoldsLease(q) /\ Distinct(r, q)
  BY Zenon DEF IInv, Leases
<1>2. MatchingProbeLease(permit[q], cohort[permit[r].key])
  BY Zenon, <1>1 DEF HoldsLease
<1> QED
  BY Zenon, <1>1, <1>2 DEF MatchingProbeLease, Distinct

\* The probe in slot r leaves the wire and its lease is gone: nobody else's
\* lease was in the entry, so every other probe on the wire keeps its own.
LEMMA LeaseReleased ==
    ASSUME IInv, Advance, NoGrant, NEW r \in Request, Probes(r),
           MatchingProbeLease(permit[r], cohort[permit[r].key]),
           sending'[r] # "sent" \/ settled'[r],
           \A j \in Key \ {permit[r].key} : Kept(cohort[j], cohort'[j]),
           \A q \in Request \ {r} :
             sending'[q] = sending[q] /\ settled'[q] = settled[q]
    PROVE  \A q \in Request : HoldsLease(q)'
<1> SUFFICES ASSUME NEW q \in Request, Probes(q)', sending'[q] = "sent", ~settled'[q]
             PROVE  HoldsLease(q)'
  BY Zenon DEF HoldsLease
<1>1. q # r /\ sending[q] = "sent" /\ ~settled[q]
  BY Zenon
<1>2. SamePermit(q) /\ Probes(q) /\ permit[q].key \in Key
  BY Zenon, <1>1, PermitFields DEF NoGrant, Probes
<1>3. permit[q].key # permit[r].key
  BY Zenon, <1>1, <1>2, SoleHolder
<1> QED
  BY Zenon, <1>1, <1>2, <1>3, LeaseHeldOn

LEMMA WatchdogStep ==
    ASSUME IInv, NEW r \in Request, Watchdog(r)
    PROVE  IInv' /\ Orderly
<1> DEFINE p == permit[r]
           k == p.key
           e == cohort[k]
           f == TransitionToOpen(e, RetryMin)
<1>1. /\ sending[r] = "sent" /\ ~settled[r] /\ p.kind = "probe"
      /\ settled' = [settled EXCEPT ![r] = TRUE]
      /\ cohort' = IF Expirable(p, e) THEN [cohort EXCEPT ![k] = f] ELSE cohort
      /\ permit' = IF Expirable(p, e)
                   THEN [permit EXCEPT ![r].phase = "terminal"] ELSE permit
      /\ UNCHANGED <<nextEpoch, sending, owed, holder>>
  BY Zenon DEF Watchdog, history
<1>2. k \in Key /\ Probes(r) /\ Sound(e)
  BY Zenon, <1>1, PermitFields, SoundCohorts DEF Probes
<1>3. /\ permit \in [Request -> Permit]
      /\ sending \in [Request -> {"idle", "reserved", "sent"}]
      /\ settled \in [Request -> BOOLEAN] /\ cohort \in [Key -> Entry]
  BY Zenon DEF IInv, TypeOK
<1>4. PermitsTyped'
  BY <1>1, <1>3 DEF PermitsTyped, Permit
<1>5. /\ \A q \in Request : permit'[q].kind = permit[q].kind /\ SamePermit(q)
      /\ settled'[r] /\ \A q \in Request \ {r} : settled'[q] = settled[q]
  <2>1. CASE Expirable(p, e)
    BY Zenon, <1>1, <1>3, <2>1 DEF SamePermit, Permit
  <2>2. CASE ~Expirable(p, e)
    BY Zenon, <1>1, <1>3, <2>2 DEF SamePermit
  <2> QED
    BY Zenon, <2>1, <2>2
<1>6. NoGrant
  BY Zenon, <1>1, <1>5 DEF NoGrant
<1>7. /\ MatchingProbeLease(p, e)
      /\ cohort' = [cohort EXCEPT ![k] = f]
  <2>1. HoldsLease(r)
    BY Zenon DEF IInv, Leases
  <2>2. MatchingProbeLease(p, e)
    BY Zenon, <1>1, <1>2, <2>1 DEF HoldsLease
  <2> QED
    BY Zenon, <1>1, <2>2 DEF Expirable
<1>8. /\ Follows(e, f, nextEpoch) /\ f.wait >= e.wait /\ f.epoch = e.epoch
  BY Zenon, <1>2, <1>7, OpenFollows DEF MatchingProbeLease
<1>9. /\ cohort' \in [Key -> Entry] /\ Cardinality(Retained(cohort')) <= MaxCohorts
      /\ Orderly /\ Advance /\ Counted /\ nextEpoch' \in 0..MaxEpoch
      /\ nextEpoch' >= nextEpoch
      /\ cohort'[k] = f /\ \A j \in Key \ {k} : cohort'[j] = cohort[j]
  <2>1. Continues(e, f, nextEpoch)
    BY Zenon, <1>8 DEF Follows
  <2> HIDE DEF f
  <2> QED
    BY Zenon, <1>1, <1>2, <1>7, <1>8, <2>1, OneEntry
<1>10. /\ \A j \in Key : cohort'[j].wait >= cohort[j].wait
       /\ \A j \in Key \ {k} : Kept(cohort[j], cohort'[j])
  BY Zenon, <1>2, <1>8, <1>9, OthersStay
<1>11. /\ owed' \in [Key -> 0..RetryMax]
       /\ \A j \in Key : owed'[j] <= cohort'[j].wait
  BY Zenon, <1>1, <1>9, <1>10, OwedUnchanged
<1>12. \A q \in Request : HoldsLease(q)'
  BY Zenon, <1>1, <1>2, <1>5, <1>6, <1>7, <1>9, <1>10, LeaseReleased
<1> QED
  BY Zenon, <1>1, <1>4, <1>6, <1>9, <1>11, <1>12, QuietStep

\* Everything but the entry of its cohort k and the debt to it, when the
\* request in slot r ends and its entry continues as f.
LEMMA EndsWith ==
    ASSUME IInv, NEW r \in Request, Ends(r), NEW k \in Key, NEW f,
           cohort' = [cohort EXCEPT ![k] = f], Continues(cohort[k], f, nextEpoch),
           f.state # "absent" => f.epoch = cohort[k].epoch,
           UNCHANGED <<nextEpoch, holder>>,
           owed' \in [Key -> 0..RetryMax],
           \A j \in Key : owed'[j] <= cohort'[j].wait,
           \/ Kept(cohort[k], f)
           \/ /\ Probes(r) /\ permit[r].key = k
              /\ MatchingProbeLease(permit[r], cohort[k])
    PROVE  IInv'
<1>1. /\ cohort' \in [Key -> Entry] /\ Cardinality(Retained(cohort')) <= MaxCohorts
      /\ Advance /\ Counted /\ nextEpoch' \in 0..MaxEpoch /\ nextEpoch' >= nextEpoch
      /\ cohort'[k] = f /\ \A j \in Key \ {k} : cohort'[j] = cohort[j]
  BY Zenon, OneEntry
<1>2. \A j \in Key \ {k} : Kept(cohort[j], cohort'[j])
  BY Zenon, <1>1 DEF Kept
<1>3. /\ PermitsTyped' /\ NoGrant /\ sending'[r] = "idle"
      /\ \A q \in Request \ {r} :
           /\ permit'[q] = permit[q] /\ sending'[q] = sending[q]
           /\ settled'[q] = settled[q]
  BY Zenon, EndsKeeps
<1>4. \A q \in Request : HoldsLease(q)'
  <2>1. CASE Kept(cohort[k], f)
    <3>1. \A j \in Key : Kept(cohort[j], cohort'[j])
      BY Zenon, <1>1, <1>2, <2>1
    <3> QED
      BY Zenon, <1>1, <1>3, <3>1, AllLeasesHeld
  <2>2. CASE /\ Probes(r) /\ permit[r].key = k
             /\ MatchingProbeLease(permit[r], cohort[k])
    BY Zenon, <1>1, <1>2, <1>3, <2>2, LeaseReleased
  <2> QED
    BY Zenon, <2>1, <2>2
<1> QED
  BY Zenon, <1>1, <1>3, <1>4, QuietStep

\* What an accepted outcome of a send, other than the success of a probe, does
\* to the entry of its cohort k.
LEMMA CompletedEntry ==
    ASSUME IInv, NEW r \in Request, sending[r] = "sent", ~settled[r],
           NEW k \in Key, permit[r].key = k, NEW outcome, NEW ra \in Header,
           NEW e, e = PruneEntry(cohort[k]),
           NEW f, f = Completed(permit[r], e, outcome, ra),
           ~(permit[r].kind = "probe" /\ outcome = "success"
               /\ Completable(permit[r], e))
    PROVE  /\ Follows(cohort[k], f, nextEpoch) /\ f.wait >= cohort[k].wait
           /\ f.state # "absent" => f.epoch = cohort[k].epoch
           /\ (Completable(permit[r], e) /\ outcome # "failed"
                 /\ f.state \in {"open", "probing"}) => f.wait >= Sanitize(ra)
           /\ \/ Kept(cohort[k], f)
              \/ Probes(r) /\ MatchingProbeLease(permit[r], cohort[k])
<1> DEFINE p == permit[r]
<1>1. Sound(cohort[k]) /\ p.kind \in {"probe", "recovery_send"}
  BY Zenon, SoundCohorts, PermitFields
<1>2. /\ Follows(cohort[k], e, nextEpoch) /\ Kept(cohort[k], e)
      /\ e.wait >= cohort[k].wait
      /\ e.state # "absent" => e.epoch = cohort[k].epoch
      /\ e.state = "probing" => e = cohort[k]
  BY Zenon, <1>1, PruneFollows
<1>3. Sound(e)
  BY Zenon, <1>2 DEF Follows, Continues
<1>4. /\ Follows(e, f, nextEpoch) /\ f.wait >= e.wait
      /\ ~(p.kind = "probe" /\ Completable(p, e)) => Kept(e, f)
      /\ f.state # "absent" => f.epoch = e.epoch
      /\ e.state \in Protected => f.state \in Protected
      /\ (Completable(p, e) /\ outcome # "failed"
            /\ f.state \in {"open", "probing"}) => f.wait >= Sanitize(ra)
      /\ e.state = "absent" => f.state = "absent"
  BY SMTT(30), <1>1, <1>3, CompletedFollows
<1>5. Follows(cohort[k], f, nextEpoch)
  BY Zenon, <1>1, <1>2, <1>4, FollowsOn
<1>6. f.wait >= cohort[k].wait
  <2>1. cohort[k].wait \in Nat /\ e.wait \in Nat /\ f.wait \in Nat
    BY Zenon, <1>1, <1>3, <1>4, EntryFields DEF Sound, Follows, Continues
  <2> QED
    BY SMTT(30), <1>2, <1>4, <2>1
<1>7. f.state # "absent" => f.epoch = cohort[k].epoch
  BY Zenon, <1>2, <1>4
<1>8. Kept(cohort[k], f) \/ (Probes(r) /\ MatchingProbeLease(p, cohort[k]))
  <2>1. CASE p.kind = "probe" /\ Completable(p, e)
    BY Zenon, <1>2, <2>1 DEF Completable, MatchingProbeLease, Probes
  <2>2. CASE ~(p.kind = "probe" /\ Completable(p, e))
    BY Zenon, <1>2, <1>4, <2>2 DEF Kept, Follows, Continues
  <2> QED
    BY Zenon, <2>1, <2>2
<1> QED
  BY Zenon, <1>4, <1>5, <1>6, <1>7, <1>8

\* Steps other than the success of the probe that was granted last.
LEMMA SettleStep ==
    ASSUME IInv, NEW r \in Request, NEW ra \in Header,
           NEW outcome \in {"success", "failed", "overloaded"},
           Settle(r, outcome, ra),
           settled[r] \/ ~(/\ permit[r].kind = "probe" /\ outcome = "success"
                           /\ Completable(permit[r], PruneEntry(cohort[permit[r].key])))
    PROVE  IInv' /\ Orderly
<1> DEFINE k == permit[r].key
           e == PruneEntry(cohort[k])
           f == Completed(permit[r], e, outcome, ra)
<1>1. /\ sending[r] = "sent" /\ cohort' = Settled(r, cohort, outcome, ra)
      /\ IF outcome # "failed" /\ Accepted(r) THEN Owes(k, ra) ELSE UNCHANGED owed
      /\ Ends(r) /\ UNCHANGED <<nextEpoch, holder>>
  BY Zenon DEF Settle
<1>2. k \in Key /\ Sound(cohort[k]) /\ cohort[k].wait \in Nat
      /\ cohort \in [Key -> Entry]
  BY Zenon, <1>1, PermitFields, SoundCohorts, EntryFields
<1>3. CASE settled[r]
  <2>1. cohort' = [cohort EXCEPT ![k] = cohort[k]] /\ UNCHANGED owed
    BY Zenon, <1>1, <1>2, <1>3 DEF Settled, Accepted
  <2>2. /\ Follows(cohort[k], cohort[k], nextEpoch) /\ Kept(cohort[k], cohort[k])
        /\ cohort[k].wait >= cohort[k].wait
    BY SMTT(30), <1>2, FollowsItself
  <2> QED
    BY Zenon, <1>1, <1>2, <2>1, <2>2, EndsQuietly
<1>4. CASE ~settled[r]
  <2>1. cohort' = [cohort EXCEPT ![k] = f]
    BY Zenon, <1>1, <1>4 DEF Settled
  <2>2. /\ Follows(cohort[k], f, nextEpoch) /\ f.wait >= cohort[k].wait
        /\ f.state # "absent" => f.epoch = cohort[k].epoch
        /\ (Completable(permit[r], e) /\ outcome # "failed"
              /\ f.state \in {"open", "probing"}) => f.wait >= Sanitize(ra)
        /\ \/ Kept(cohort[k], f)
           \/ Probes(r) /\ MatchingProbeLease(permit[r], cohort[k])
    BY Zenon, <1>1, <1>2, <1>4, CompletedEntry
  <2>3. Continues(cohort[k], f, nextEpoch)
    BY Zenon, <2>2 DEF Follows
  <2>4. Accepted(r) => Completable(permit[r], e)
    BY Zenon DEF Accepted
  <2> HIDE DEF f, e
  <2>5. /\ cohort' \in [Key -> Entry] /\ Orderly
        /\ cohort'[k] = f /\ \A j \in Key \ {k} : cohort'[j] = cohort[j]
    BY Zenon, <1>1, <1>2, <2>1, <2>2, <2>3, OneEntry
  <2>6. \A j \in Key : cohort'[j].wait >= cohort[j].wait
    BY Zenon, <1>2, <2>2, <2>5, OthersStay
  <2>7. /\ owed' \in [Key -> 0..RetryMax]
        /\ \A j \in Key : owed'[j] <= cohort'[j].wait
    <3>1. CASE outcome # "failed" /\ Accepted(r)
      <4>1. Owes(k, ra)
        BY Zenon, <1>1, <3>1
      <4>2. cohort'[k].state \in {"open", "probing"} =>
              cohort'[k].wait >= cohort[k].wait /\ cohort'[k].wait >= Sanitize(ra)
        BY Zenon, <2>2, <2>4, <2>5, <3>1
      <4> HIDE DEF k
      <4> QED
        BY Zenon, <1>2, <2>5, <2>6, <4>1, <4>2, OwesWithinWait
    <3>2. CASE ~(outcome # "failed" /\ Accepted(r))
      BY Zenon, <1>1, <2>5, <2>6, <3>2, OwedUnchanged
    <3> QED
      BY Zenon, <3>1, <3>2
  <2>8. IInv'
    BY Zenon, <1>1, <1>2, <2>1, <2>2, <2>3, <2>7, EndsWith
  <2> QED
    BY Zenon, <2>5, <2>8
<1> QED
  BY Zenon, <1>3, <1>4

\* The success of the probe in slot r: the recovery window opens.
LEMMA ProbeSucceeds ==
    ASSUME IInv, NEW r \in Request, NEW ra \in Header, Settle(r, "success", ra),
           ~settled[r], permit[r].kind = "probe",
           Completable(permit[r], PruneEntry(cohort[permit[r].key]))
    PROVE  /\ IInv' /\ sending'[r] = "idle"
           /\ r \in OnTheWire(permit[r].key) /\ holder[permit[r].key] = r
           /\ cohort'[permit[r].key].state = "recovering"
           /\ \A j \in Key \ {permit[r].key} : cohort'[j] = cohort[j]
<1> DEFINE k == permit[r].key
           e == PruneEntry(cohort[k])
           f == [state |-> "recovering", epoch |-> e.epoch, gen |-> e.gen + 1,
                 evidence |-> e.evidence, wait |-> 0, lease |-> NoLease,
                 stable |-> RecoveryWindow]
<1>1. /\ sending[r] = "sent" /\ cohort' = Settled(r, cohort, "success", ra)
      /\ IF "success" # "failed" /\ Accepted(r)
         THEN Owes(k, ra) ELSE UNCHANGED owed
      /\ Ends(r) /\ UNCHANGED <<nextEpoch, holder>>
  BY Zenon DEF Settle
<1>2. k \in Key /\ Sound(cohort[k]) /\ Probes(r)
      /\ cohort \in [Key -> Entry]
  BY Zenon, <1>1, PermitFields, SoundCohorts DEF Probes
<1>3. e.state = "probing" /\ MatchingProbeLease(permit[r], e)
  BY Zenon DEF Completable, MatchingProbeLease
<1>4. e = cohort[k]
  BY Zenon, <1>2, <1>3, PruneFollows
<1>5. cohort' = [cohort EXCEPT ![k] = f] /\ Owes(k, ra)
  <2>1. Completed(permit[r], e, "success", ra) = f
    BY Zenon DEF Completed
  <2>2. Accepted(r)
    BY Zenon DEF Accepted
  <2> QED
    BY Zenon, <1>1, <2>1, <2>2 DEF Settled
<1>6. /\ f.state = "recovering" /\ f.epoch = e.epoch /\ f.gen = e.gen + 1
      /\ f.wait = 0
  BY Zenon
<1>7. Sound(f)
  <2>1. /\ e.epoch \in 0..MaxEpoch /\ e.gen \in Nat /\ e.gen + 2 <= MaxGeneration
        /\ e.evidence \in [Account -> Unseen..EvidenceWindow]
    BY Zenon, <1>2, <1>3, <1>4, EntryFields DEF Sound, Entry
  <2>2. e.gen + 1 \in 0..MaxGeneration /\ 0 \in 0..RetryMax
        /\ RecoveryWindow \in 0..RecoveryWindow
    BY SMTT(30), <2>1, DegradedAssumption
  <2>3. "recovering" \in {"absent", "collecting"} \cup Protected
    BY Zenon DEF Protected
  <2>4. f \in Entry
    BY Zenon, <2>1, <2>2, <2>3, Constants DEF Entry
  <2>5. f.gen + 1 <= MaxGeneration
    BY SMTT(30), <2>1, <1>6, DegradedAssumption
  <2> HIDE DEF f
  <2> QED
    BY Zenon, <1>6, <2>4, <2>5 DEF Sound
<1>8. Continues(cohort[k], f, nextEpoch)
  <2>1. e.gen \in Nat
    BY Zenon, <1>2, <1>4, EntryFields DEF Sound
  <2>2. e.gen + 1 >= e.gen
    BY <2>1
  <2> HIDE DEF f
  <2> QED
    BY Zenon, <1>3, <1>4, <1>6, <1>7, <2>2 DEF Continues
<1> HIDE DEF f
<1>9. /\ cohort' \in [Key -> Entry]
      /\ cohort'[k] = f /\ \A j \in Key \ {k} : cohort'[j] = cohort[j]
  BY ZenonT(30), <1>1, <1>2, <1>4, <1>5, <1>6, <1>8, OneEntry
<1>10. \A j \in Key \ {k} : cohort'[j].wait >= cohort[j].wait
  BY <1>9, SoundCohorts, EntryFields
<1>11. cohort'[k].state = "recovering"
  BY Zenon, <1>6, <1>9
<1>12. /\ owed' \in [Key -> 0..RetryMax]
       /\ \A j \in Key : owed'[j] <= cohort'[j].wait
  <2> HIDE DEF k
  <2> QED
    BY Zenon, <1>2, <1>5, <1>9, <1>10, <1>11, OwesWithinWait
<1>13. MatchingProbeLease(permit[r], cohort[k]) /\ f.epoch = cohort[k].epoch
  BY Zenon, <1>3, <1>4, <1>6
<1>14. IInv'
  BY Zenon, <1>1, <1>2, <1>5, <1>8, <1>12, <1>13, EndsWith
<1>15. sending'[r] = "idle"
  BY Zenon, <1>1, EndsKeeps
<1>16. holder[k] = r
  BY Zenon, <1>2, <1>13 DEF IInv, Leases, GrantedTo
<1>17. r \in OnTheWire(k)
  BY Zenon, <1>1, <1>2 DEF OnTheWire
<1> QED
  BY Zenon, <1>9, <1>11, <1>14, <1>15, <1>16, <1>17

\* An overload answer to a protected send: the evidence is recorded, the entry
\* is pruned, and the permit completes.
LEMMA OverloadAnswerStep ==
    ASSUME IInv, NEW r \in Request, NEW ra \in Header, OverloadAnswer(r, ra)
    PROVE  IInv' /\ Orderly
<1> DEFINE p == permit[r]
           k == p.key
           d == RecordOutcome(k, p.account, ra)
           g == PruneEntry(d[k])
           f == IF settled[r] THEN d[k] ELSE Completed(p, g, "overloaded", ra)
<1>1. /\ sending[r] = "sent" /\ Records(k, p.account)
      /\ cohort' = Settled(r, d, "overloaded", ra)
      /\ Owes(k, ra) /\ Ends(r) /\ UNCHANGED holder
  BY Zenon DEF OverloadAnswer
<1>2. /\ k \in Key /\ p.account \in Account /\ p.kind \in {"probe", "recovery_send"}
      /\ Sound(cohort[k])
  BY Zenon, <1>1, PermitFields, SoundCohorts
<1>3. /\ d \in [Key -> Entry] /\ Cardinality(Retained(d)) <= MaxCohorts
      /\ \A j \in Key : /\ Follows(cohort[j], d[j], nextEpoch)
                        /\ Kept(cohort[j], d[j]) /\ d[j].wait >= cohort[j].wait
      /\ d[k].state \in {"open", "probing"} => d[k].wait >= Sanitize(ra)
      /\ d[k].state # "recovering"
  BY Zenon, <1>1, <1>2, OutcomeFollows DEF Records
<1>4. /\ nextEpoch' \in 0..MaxEpoch /\ nextEpoch' >= nextEpoch
      /\ \A j \in Key : d[j].state # "absent" => d[j].epoch <= nextEpoch'
  BY Zenon, <1>1, <1>2, RecordsStep
<1> HIDE DEF d
<1>5. Sound(d[k]) /\ d[k].wait \in Nat
  BY Zenon, <1>2, <1>3, EntryFields DEF Follows, Continues
<1>6. /\ Follows(d[k], g, nextEpoch) /\ Kept(d[k], g) /\ g.wait >= d[k].wait
      /\ g.state # "absent" => g.epoch = d[k].epoch
      /\ g.state = "probing" => g = d[k]
      /\ g.state \in {"open", "probing"} => d[k].state \in {"open", "probing"}
      /\ d[k].state = "absent" => g.state = "absent"
  BY Zenon, <1>5, PruneFollows
<1>7. Sound(g) /\ g.wait \in Nat
  BY Zenon, <1>6, EntryFields DEF Follows, Continues, Sound
<1>8. /\ Follows(d[k], f, nextEpoch) /\ f.wait >= d[k].wait /\ f.wait \in Nat
      /\ d[k].state \in Protected => f.state \in Protected
      /\ f.state # "absent" => f.epoch = d[k].epoch
      /\ f.state \in {"open", "probing"} => f.wait >= Sanitize(ra)
      /\ d[k].state = "absent" => f.state = "absent"
      /\ Kept(d[k], f) \/ (p.kind = "probe" /\ MatchingProbeLease(p, d[k]))
  <2>1. CASE settled[r]
    <3>1. f = d[k]
      BY Zenon, <2>1
    <3> HIDE DEF f, g
    <3> QED
      BY SMTT(30), <1>3, <1>5, <3>1, FollowsItself
  <2>2. CASE ~settled[r]
    <3>1. f = Completed(p, g, "overloaded", ra)
      BY Zenon, <2>2
    <3>2. "overloaded" # "success" /\ "overloaded" # "failed"
      BY Zenon
    <3> HIDE DEF f, g
    <3>3. /\ Follows(g, f, nextEpoch) /\ f.wait >= g.wait
          /\ ~(p.kind = "probe" /\ Completable(p, g)) => Kept(g, f)
          /\ f.state # "absent" => f.epoch = g.epoch
          /\ g.state \in Protected => f.state \in Protected
          /\ f # g => f.wait >= Sanitize(ra)
          /\ g.state = "absent" => f.state = "absent"
      BY SMTT(30), <1>2, <1>7, <3>1, <3>2, CompletedFollows
    <3>4. f.wait \in Nat
      BY Zenon, <3>3, EntryFields DEF Follows, Continues, Sound
    <3>5. d[k].state \in Protected => g.state \in Protected
      BY Zenon, <1>3, <1>6 DEF Follows, Protected
    <3>6. Follows(d[k], f, nextEpoch)
      BY Zenon, <1>5, <1>6, <3>3, FollowsOn
    <3>7. f.wait >= g.wait /\ g.wait >= d[k].wait /\ f.wait >= d[k].wait
      BY SMTT(30), <1>5, <1>6, <1>7, <3>3, <3>4
    <3>8. f.state \in {"open", "probing"} => f.wait >= Sanitize(ra)
      <4>1. CASE f # g
        BY Zenon, <3>3, <4>1
      <4>2. CASE f = g
        <5>1. Sanitize(ra) \in Nat
          BY Zenon, SanitizeClamps
        <5> QED
          BY SMTT(30), <1>3, <1>5, <1>6, <1>7, <4>2, <5>1
      <4> QED
        BY Zenon, <4>1, <4>2
    <3>9. Kept(d[k], f) \/ (p.kind = "probe" /\ MatchingProbeLease(p, d[k]))
      <4>1. CASE p.kind = "probe" /\ Completable(p, g)
        BY Zenon, <1>6, <4>1 DEF Completable, MatchingProbeLease
      <4>2. CASE ~(p.kind = "probe" /\ Completable(p, g))
        BY Zenon, <1>6, <3>3, <4>2 DEF Kept, Follows, Continues
      <4> QED
        BY Zenon, <4>1, <4>2
    <3> QED
      BY Zenon, <1>6, <3>3, <3>4, <3>5, <3>6, <3>7, <3>8, <3>9
  <2> QED
    BY Zenon, <2>1, <2>2
<1>9. cohort' = [d EXCEPT ![k] = f]
  BY Zenon, <1>1, <1>2, <1>3 DEF Settled
<1> HIDE DEF f, g
<1>10. f \in Entry
  BY Zenon, <1>8 DEF Follows, Continues, Sound
<1>11. /\ cohort' \in [Key -> Entry] /\ cohort'[k] = f
       /\ \A j \in Key \ {k} : cohort'[j] = d[j]
  BY Zenon, <1>2, <1>3, <1>9, <1>10
<1>12. Follows(cohort[k], f, nextEpoch)
  BY Zenon, <1>2, <1>3, <1>8, FollowsOn
<1>13. Advance /\ Orderly
  <2>1. ASSUME NEW j \in Key PROVE Follows(cohort[j], cohort'[j], nextEpoch)
    BY Zenon, <1>3, <1>11, <1>12
  <2> QED
    BY Zenon, <2>1, FollowsAll
<1>14. Counted
  BY Zenon, <1>4, <1>8, <1>11 DEF Counted
<1>15. Cardinality(Retained(cohort')) <= MaxCohorts
  BY ZenonT(30), <1>3, <1>8, <1>11, FewerRetained
<1>16. /\ PermitsTyped' /\ NoGrant /\ sending'[r] = "idle"
       /\ \A q \in Request \ {r} :
            /\ permit'[q] = permit[q] /\ sending'[q] = sending[q]
            /\ settled'[q] = settled[q]
  BY Zenon, <1>1, EndsKeeps
<1>17. /\ owed' \in [Key -> 0..RetryMax]
       /\ \A j \in Key : owed'[j] <= cohort'[j].wait
  <2>1. \A j \in Key \ {k} : cohort'[j].wait >= cohort[j].wait
    BY Zenon, <1>3, <1>11
  <2>2. cohort'[k].wait >= cohort[k].wait
    <3>1. cohort[k].wait \in Nat
      BY Zenon, <1>2, EntryFields DEF Sound
    <3> QED
      BY SMTT(30), <1>2, <1>3, <1>5, <1>8, <1>11, <3>1
  <2>3. cohort'[k].state \in {"open", "probing"} => cohort'[k].wait >= Sanitize(ra)
    BY Zenon, <1>8, <1>11
  <2> HIDE DEF k
  <2> QED
    BY Zenon, <1>1, <1>2, <1>11, <2>1, <2>2, <2>3, OwesWithinWait
<1>18. \A j \in Key \ {k} : Kept(cohort[j], cohort'[j])
  BY Zenon, <1>3, <1>11
<1>19. \A q \in Request : HoldsLease(q)'
  <2>1. CASE Kept(d[k], f)
    <3>1. Kept(cohort[k], cohort'[k])
      BY Zenon, <1>2, <1>3, <1>11, <2>1 DEF Kept, Follows, Continues
    <3>2. \A j \in Key : Kept(cohort[j], cohort'[j])
      BY Zenon, <1>18, <3>1
    <3> QED
      BY Zenon, <1>13, <1>16, <3>2, AllLeasesHeld
  <2>2. CASE p.kind = "probe" /\ MatchingProbeLease(p, d[k])
    <3>1. Probes(r) /\ MatchingProbeLease(p, cohort[k])
      BY Zenon, <1>1, <1>2, <1>3, <2>2
         DEF Probes, MatchingProbeLease, Follows, Continues
    <3> QED
      BY Zenon, <1>13, <1>16, <1>18, <3>1, LeaseReleased
  <2> QED
    BY Zenon, <1>8, <2>1, <2>2
<1> QED
  BY Zenon, <1>1, <1>4, <1>11, <1>13, <1>14, <1>15, <1>16, <1>17, <1>19, QuietStep

\* What reservePhysicalSend does to the permits, in either case.
LEMMA ReservePermits ==
    ASSUME IInv, NEW r \in Request, NEW k \in Key, NEW a \in Account,
           Reserve(r, k, a), NEW e, e = PruneEntry(cohort[k]),
           NEW gen, gen = IF e.state = "open" THEN e.gen + 1 ELSE e.gen
    PROVE  /\ PermitsTyped' /\ sending[r] = "idle"
           /\ sending'[r] = "reserved" /\ UNCHANGED settled
           /\ permit'[r].kind = (IF e.state = "open" THEN "probe" ELSE "recovery_send")
           /\ permit'[r].key = k /\ permit'[r].account = a
           /\ permit'[r].epoch = e.epoch /\ permit'[r].gen = gen
           /\ \A q \in Request \ {r} :
                permit'[q] = permit[q] /\ sending'[q] = sending[q]
           /\ \A q \in Request : Named(q)'
<1> DEFINE p == [phase |-> "reserved",
                 kind |-> IF e.state = "open" THEN "probe" ELSE "recovery_send",
                 key |-> k, account |-> a, epoch |-> e.epoch, gen |-> gen,
                 left |-> IF e.state = "open" THEN ProbeLease ELSE 0]
<1>1. /\ sending[r] = "idle"
      /\ e.state = "open" => e.gen + 3 <= MaxGeneration
      /\ permit' = [permit EXCEPT ![r] = p]
      /\ sending' = [sending EXCEPT ![r] = "reserved"] /\ UNCHANGED settled
  BY Zenon DEF Reserve
<1>2. e \in Entry
  BY Zenon, SoundCohorts
<1>3. e.epoch \in 0..MaxEpoch /\ gen \in 0..MaxGeneration
  <2>1. e.epoch \in 0..MaxEpoch /\ e.gen \in 0..MaxGeneration /\ e.gen \in Nat
    BY Zenon, <1>2, EntryFields DEF Entry
  <2> QED
    BY <1>1, <2>1, DegradedAssumption
<1>4. ProbeLease \in 0..ProbeLease /\ 0 \in 0..ProbeLease
  BY DegradedAssumption
<1>5. p \in Permit
  BY Zenon, <1>3, <1>4 DEF Permit
<1>6. /\ p.kind = (IF e.state = "open" THEN "probe" ELSE "recovery_send")
      /\ p.key = k /\ p.account = a /\ p.epoch = e.epoch /\ p.gen = gen
  BY Zenon
<1> HIDE DEF p
<1>7. /\ permit \in [Request -> Permit]
      /\ sending \in [Request -> {"idle", "reserved", "sent"}]
      /\ settled \in [Request -> BOOLEAN]
  BY Zenon DEF IInv, TypeOK
<1>8. PermitsTyped'
  BY Zenon, <1>1, <1>5, <1>7 DEF PermitsTyped
<1>9. /\ permit'[r] = p /\ sending'[r] = "reserved"
      /\ \A q \in Request \ {r} :
           permit'[q] = permit[q] /\ sending'[q] = sending[q]
  BY Zenon, <1>1, <1>7
<1>10. ASSUME NEW q \in Request PROVE Named(q)'
  <2>1. CASE q = r
    BY Zenon, <1>6, <1>9, <2>1 DEF Named
  <2>2. CASE q # r
    BY Zenon, <1>9, <2>2, PermitFields DEF Named
  <2> QED
    BY Zenon, <2>1, <2>2
<1> QED
  BY Zenon, <1>1, <1>6, <1>8, <1>9, <1>10

\* A send in the recovery window.
LEMMA ReserveRecovery ==
    ASSUME IInv, NEW r \in Request, NEW k \in Key, NEW a \in Account,
           Reserve(r, k, a), NEW e, e = PruneEntry(cohort[k]), e.state # "open"
    PROVE  IInv' /\ Orderly
<1>1. /\ cohort' = [cohort EXCEPT ![k] = e] /\ UNCHANGED <<nextEpoch, owed, holder>>
  BY Zenon DEF Reserve
<1>2. /\ Follows(cohort[k], e, nextEpoch) /\ Kept(cohort[k], e)
      /\ e.wait >= cohort[k].wait
      /\ e.state # "absent" => e.epoch = cohort[k].epoch
  BY Zenon, SoundCohorts, PruneFollows
<1>3. Continues(cohort[k], e, nextEpoch)
  BY Zenon, <1>2 DEF Follows
<1>4. /\ cohort' \in [Key -> Entry] /\ Cardinality(Retained(cohort')) <= MaxCohorts
      /\ Orderly /\ Advance /\ Counted /\ nextEpoch' \in 0..MaxEpoch
      /\ nextEpoch' >= nextEpoch
      /\ cohort'[k] = e /\ \A j \in Key \ {k} : cohort'[j] = cohort[j]
  BY Zenon, <1>1, <1>2, <1>3, OneEntry
<1>5. \A j \in Key : Kept(cohort[j], cohort'[j]) /\ cohort'[j].wait >= cohort[j].wait
  BY Zenon, <1>2, <1>4, OthersStay
<1>6. /\ owed' \in [Key -> 0..RetryMax]
      /\ \A j \in Key : owed'[j] <= cohort'[j].wait
  BY ZenonT(30), <1>1, <1>4, <1>5, OwedUnchanged
<1>7. /\ PermitsTyped' /\ sending'[r] = "reserved" /\ UNCHANGED settled
      /\ permit'[r].kind = "recovery_send"
      /\ \A q \in Request \ {r} :
           permit'[q] = permit[q] /\ sending'[q] = sending[q]
      /\ \A q \in Request : Named(q)'
  <2> DEFINE gen == IF e.state = "open" THEN e.gen + 1 ELSE e.gen
  <2> HIDE DEF gen
  <2>1. gen = IF e.state = "open" THEN e.gen + 1 ELSE e.gen
    BY Zenon DEF gen
  <2> QED
    BY SMTT(30), <2>1, ReservePermits
<1>8. ASSUME NEW q \in Request, Probes(q)'
      PROVE  q # r /\ Probes(q) /\ SamePermit(q) /\ permit[q].key \in Key
  BY Zenon, <1>7, <1>8, PermitFields DEF Probes, SamePermit
<1>9. ASSUME NEW q \in Request PROVE HoldsLease(q)'
  <2> SUFFICES ASSUME Probes(q)' PROVE HoldsLease(q)'
    BY Zenon DEF HoldsLease
  <2> QED
    BY Zenon, <1>4, <1>5, <1>7, <1>8, LeaseHeldOn
<1>10. Leases'
  <2>1. nextEpoch' \in Nat
    BY <1>4, DegradedAssumption
  <2> QED
    BY ZenonT(30), <1>1, <1>4, <1>7, <1>8, <1>9, <2>1, LeasesKept
<1>11. TypeOK'
  BY Zenon, <1>1, <1>4, <1>6, <1>7 DEF TypeOK, PermitsTyped, Retained, IInv
<1>12. \A j \in Key : Sound(cohort'[j])
  BY Zenon, <1>4 DEF Advance, Continues
<1> QED
  BY Zenon, <1>4, <1>6, <1>10, <1>11, <1>12 DEF IInv

\* The lease that a probe is granted.
Granted(e, a) ==
    [state |-> "probing", epoch |-> e.epoch, gen |-> e.gen + 1,
     evidence |-> e.evidence, wait |-> e.wait,
     lease |-> [gen |-> e.gen + 1, account |-> a, left |-> ProbeLease,
                committed |-> FALSE],
     stable |-> e.stable]

LEMMA GrantIsSound ==
    ASSUME NEW e, Sound(e), e.state = "open", e.gen + 3 <= MaxGeneration,
           NEW a \in Account
    PROVE  LET f == Granted(e, a)
           IN  /\ Sound(f) /\ f.state = "probing" /\ f.epoch = e.epoch
               /\ f.gen = e.gen + 1 /\ f.wait = e.wait
<1> DEFINE f == Granted(e, a)
           l == [gen |-> e.gen + 1, account |-> a, left |-> ProbeLease,
                 committed |-> FALSE]
<1>1. /\ e \in Entry /\ e.gen \in Nat /\ ~(e.stable > 0)
  BY Zenon, EntryFields DEF Sound
<1>2. e.gen + 1 \in 0..MaxGeneration /\ ProbeLease \in 0..ProbeLease
  BY <1>1, DegradedAssumption
<1>3. l \in Lease /\ l.gen = e.gen + 1
  BY Zenon, <1>2 DEF Lease
<1> HIDE DEF l
<1>4. "probing" \in {"absent", "collecting"} \cup Protected
  BY Zenon DEF Protected
<1>5. f = [state |-> "probing", epoch |-> e.epoch, gen |-> e.gen + 1,
           evidence |-> e.evidence, wait |-> e.wait, lease |-> l,
           stable |-> e.stable]
  BY Zenon DEF Granted, l
<1>6. f \in Entry
  BY <1>1, <1>2, <1>3, <1>4, <1>5 DEF Entry
<1>7. /\ f.state = "probing" /\ f.epoch = e.epoch /\ f.gen = e.gen + 1
      /\ f.wait = e.wait /\ f.stable = e.stable /\ f.lease = l
  BY <1>5
<1> HIDE DEF f
<1>8. f.gen + 2 <= MaxGeneration
  BY <1>1, <1>7, DegradedAssumption
<1>9. Sound(f)
  BY Zenon, <1>1, <1>3, <1>6, <1>7, <1>8 DEF Sound
<1> QED
  BY Zenon, <1>7, <1>9 DEF f

\* A probe is granted: the deadline has passed, nobody is on the wire, and the
\* new generation is that of no other permit.
LEMMA ReserveProbe ==
    ASSUME IInv, NEW r \in Request, NEW k \in Key, NEW a \in Account,
           Reserve(r, k, a), NEW e, e = PruneEntry(cohort[k]), e.state = "open"
    PROVE  /\ IInv' /\ owed[k] = 0
           /\ cohort'[k].state = "probing"
           /\ \A j \in Key \ {k} : cohort'[j] = cohort[j]
<1> DEFINE f == Granted(e, a)
           gen == e.gen + 1
<1>1. /\ cohort' = [cohort EXCEPT ![k] = f] /\ holder' = [holder EXCEPT ![k] = r]
      /\ e.wait = 0 /\ e.gen + 3 <= MaxGeneration
      /\ UNCHANGED <<nextEpoch, owed>>
  BY Zenon DEF Reserve, Granted
<1>2. /\ Follows(cohort[k], e, nextEpoch) /\ Kept(cohort[k], e)
      /\ e.wait >= cohort[k].wait /\ e.epoch = cohort[k].epoch
      /\ cohort[k].state \in {"open", "probing"} /\ cohort[k].state # "absent"
  BY Zenon, SoundCohorts, PruneFollows
<1>3. Sound(e) /\ e.gen >= cohort[k].gen /\ e.gen \in Nat /\ cohort[k].gen \in Nat
      /\ e.epoch \in Nat
  <2>1. Sound(e)
    BY Zenon, <1>2 DEF Follows, Continues
  <2>2. /\ e.gen \in Nat /\ cohort[k].gen \in Nat
        /\ e.epoch \in Nat /\ cohort[k].epoch <= nextEpoch /\ nextEpoch \in Nat
    BY Zenon, <2>1, SoundCohorts, EntryFields DEF Sound, IInv, Leases
  <2> QED
    BY SMTT(30), <1>2, <2>1, <2>2 DEF Follows, Continues
<1>4. /\ Sound(f) /\ f.state = "probing" /\ f.epoch = e.epoch
      /\ f.gen = gen /\ f.wait = e.wait /\ f.lease.gen = gen /\ ~f.lease.committed
  BY Zenon, <1>1, <1>3, GrantIsSound DEF Granted
<1> HIDE DEF f
<1>5. /\ PermitsTyped' /\ sending[r] = "idle"
      /\ sending'[r] = "reserved" /\ UNCHANGED settled
      /\ permit'[r].kind = "probe" /\ permit'[r].key = k
      /\ permit'[r].epoch = e.epoch /\ permit'[r].gen = gen
      /\ \A q \in Request \ {r} :
           permit'[q] = permit[q] /\ sending'[q] = sending[q]
      /\ \A q \in Request : Named(q)'
  <2>1. gen = IF e.state = "open" THEN e.gen + 1 ELSE e.gen
    BY ZenonT(30)
  <2> HIDE DEF gen
  <2> QED
    BY SMTT(30), <2>1, ReservePermits
<1>6. /\ cohort \in [Key -> Entry] /\ nextEpoch \in Nat /\ nextEpoch \in 0..MaxEpoch
      /\ \A j \in Key : Sound(cohort[j]) /\ cohort[j].epoch <= nextEpoch
      /\ holder \in [Key -> Request \cup {None}]
      /\ owed \in [Key -> 0..RetryMax] /\ owed[k] \in Nat
      /\ owed[k] <= cohort[k].wait /\ cohort[k].wait \in Nat
      /\ Cardinality(Retained(cohort)) <= MaxCohorts
  BY SMTT(30), SoundCohorts, EntryFields, DegradedAssumption DEF IInv, TypeOK, Leases
<1>7. /\ cohort' \in [Key -> Entry] /\ cohort'[k] = f
      /\ \A j \in Key \ {k} : cohort'[j] = cohort[j]
      /\ holder' \in [Key -> Request \cup {None}] /\ holder'[k] = r
      /\ \A j \in Key \ {k} : holder'[j] = holder[j]
  <2>1. f \in Entry
    BY Zenon, <1>4 DEF Sound
  <2> QED
    BY Zenon, <1>1, <1>6, <2>1
<1>8. owed[k] = 0
  BY <1>1, <1>2, <1>6
<1>9. Cardinality(Retained(cohort')) <= MaxCohorts
  BY ZenonT(30), <1>2, <1>6, <1>7, FewerRetained
<1>10. TypeOK'
  BY Zenon, <1>1, <1>5, <1>6, <1>7, <1>9 DEF TypeOK, PermitsTyped, Retained
<1>11. \A j \in Key : Sound(cohort'[j]) /\ owed'[j] <= cohort'[j].wait
  <2>1. \A j \in Key : owed[j] <= cohort[j].wait
    BY Zenon DEF IInv
  <2> QED
    BY SMTT(30), <1>1, <1>4, <1>6, <1>7, <1>8, <2>1
<1>12. \A j \in Key : cohort'[j].epoch <= nextEpoch'
  BY Zenon, <1>1, <1>2, <1>4, <1>6, <1>7
<1>13. ASSUME NEW q \in Request \ {r}, Probes(q)'
       PROVE  /\ Probes(q) /\ permit[q].key \in Key /\ Fenced(q) /\ HoldsLease(q)
              /\ GrantedTo(q) /\ permit'[q] = permit[q]
              /\ permit[q].epoch \in Nat /\ permit[q].gen \in Nat
              /\ permit[q].key = k /\ permit[q].epoch = e.epoch
                   => permit[q].gen < gen
  <2>1. /\ Probes(q) /\ permit[q].key \in Key /\ Fenced(q) /\ HoldsLease(q)
        /\ GrantedTo(q) /\ permit'[q] = permit[q]
        /\ permit[q].epoch \in Nat /\ permit[q].gen \in Nat
    BY ZenonT(30), <1>5, <1>13, PermitFields DEF Probes, IInv, Leases
  <2>2. permit[q].key = k /\ permit[q].epoch = e.epoch => permit[q].gen < gen
    BY SMTT(30), <1>2, <1>3, <2>1 DEF Fenced
  <2> QED
    BY Zenon, <2>1, <2>2
<1>14. ASSUME NEW q \in Request PROVE Fenced(q)'
  <2> SUFFICES ASSUME Probes(q)' PROVE Fenced(q)'
    BY ZenonT(30) DEF Fenced
  <2>1. CASE q = r
    BY SMTT(30), <1>1, <1>2, <1>3, <1>4, <1>5, <1>6, <1>7, <2>1 DEF Fenced
  <2>2. CASE q # r /\ permit[q].key = k
    BY SMTT(30), <1>1, <1>2, <1>3, <1>4, <1>7, <1>13, <2>2 DEF Fenced
  <2>3. CASE q # r /\ permit[q].key # k
    BY ZenonT(30), <1>1, <1>7, <1>13, <2>3 DEF Fenced
  <2> QED
    BY Zenon, <2>1, <2>2, <2>3
<1>15. ASSUME NEW q \in Request PROVE HoldsLease(q)'
  <2> SUFFICES ASSUME Probes(q)', sending'[q] = "sent", ~settled'[q]
               PROVE  HoldsLease(q)'
    BY Zenon DEF HoldsLease
  <2>1. q # r /\ sending[q] = "sent" /\ ~settled[q]
    BY Zenon, <1>5
  <2>2. /\ MatchingProbeLease(permit[q], cohort[permit[q].key])
        /\ cohort[permit[q].key].lease.committed
    BY Zenon, <1>13, <2>1 DEF HoldsLease
  <2>3. permit[q].key # k
    BY Zenon, <1>2, <2>2 DEF Kept, MatchingProbeLease
  <2>4. permit'[q] = permit[q] /\ cohort'[permit[q].key] = cohort[permit[q].key]
    BY Zenon, <1>7, <1>13, <2>1, <2>3
  <2>5. /\ MatchingProbeLease(permit'[q], cohort'[permit'[q].key])
        /\ cohort'[permit'[q].key].lease.committed
    BY Zenon, <2>2, <2>4
  <2> QED
    BY Zenon, <2>5 DEF HoldsLease
<1>16. ASSUME NEW q \in Request PROVE GrantedTo(q)'
  <2> SUFFICES ASSUME Probes(q)',
                      MatchingProbeLease(permit'[q], cohort'[permit'[q].key])
               PROVE  holder'[permit'[q].key] = q
    BY Zenon DEF GrantedTo, MatchingProbeLease
  <2>1. CASE q = r
    BY ZenonT(30), <1>5, <1>7, <2>1
  <2>2. CASE q # r
    <3>1. Probes(q) /\ GrantedTo(q) /\ permit'[q] = permit[q] /\ permit[q].key \in Key
      BY ZenonT(30), <1>13, <2>2
    <3>2. permit[q].key # k
      BY SMTT(30), <1>3, <1>4, <1>7, <1>13, <2>2 DEF MatchingProbeLease
    <3>3. /\ cohort'[permit[q].key] = cohort[permit[q].key]
          /\ holder'[permit[q].key] = holder[permit[q].key]
      BY Zenon, <1>7, <3>1, <3>2
    <3> QED
      BY Zenon, <3>1, <3>3 DEF GrantedTo
  <2> QED
    BY Zenon, <2>1, <2>2
<1>17. ASSUME NEW q \in Request, NEW w \in Request PROVE Distinct(q, w)'
  <2> SUFFICES ASSUME Probes(q)', Probes(w)', permit'[q].key = permit'[w].key,
                      permit'[q].epoch = permit'[w].epoch,
                      permit'[q].gen = permit'[w].gen, q # w
               PROVE  FALSE
    BY Zenon DEF Distinct
  <2>1. CASE q = r
    BY SMTT(30), <1>3, <1>5, <1>13, <2>1
  <2>2. CASE w = r
    BY SMTT(30), <1>3, <1>5, <1>13, <2>2
  <2>3. CASE q # r /\ w # r
    BY Zenon, <1>13, <2>3 DEF IInv, Leases, Distinct
  <2> QED
    BY Zenon, <2>1, <2>2, <2>3
<1> QED
  BY ZenonT(30), <1>4, <1>5, <1>7, <1>8, <1>10, <1>11, <1>12, <1>14, <1>15, <1>16, <1>17
     DEF IInv, Leases

LEMMA LessIsLess ==
    ASSUME NEW n \in Nat, NEW x \in 0..n
    PROVE  Less(x) \in 0..n /\ Less(x) <= x
  BY DEF Less

\* A deadline that is ahead of another one stays ahead of it.
LEMMA LessKeepsOrder ==
    ASSUME NEW x \in Nat, NEW y \in Nat, x <= y
    PROVE  Less(x) <= Less(y)
  BY DEF Less

\* Time passes for one entry.
Ticked(e) ==
    [state |-> e.state, epoch |-> e.epoch, gen |-> e.gen,
     evidence |-> [a \in Account |-> Less(e.evidence[a])],
     wait |-> Less(e.wait),
     lease |-> [gen |-> e.lease.gen, account |-> e.lease.account,
                left |-> Less(e.lease.left), committed |-> e.lease.committed],
     stable |-> Less(e.stable)]

LEMMA TickedFollows ==
    ASSUME NEW e, Sound(e), NEW n
    PROVE  LET f == Ticked(e)
           IN  /\ Follows(e, f, n) /\ Kept(e, f)
               /\ f.wait = Less(e.wait) /\ f.state = e.state /\ f.epoch = e.epoch
<1> DEFINE f == Ticked(e)
           l == [gen |-> e.lease.gen, account |-> e.lease.account,
                 left |-> Less(e.lease.left), committed |-> e.lease.committed]
           v == [a \in Account |-> Less(e.evidence[a])]
<1>1. /\ e \in Entry /\ e.gen \in Nat /\ e.stable \in 0..RecoveryWindow
      /\ e.wait \in 0..RetryMax /\ e.lease \in Lease
      /\ e.evidence \in [Account -> Unseen..EvidenceWindow]
      /\ e.wait \in Nat /\ e.stable \in Nat
  BY Zenon, EntryFields DEF Sound, Entry
<1>2. l \in Lease /\ l.gen = e.lease.gen /\ l.account = e.lease.account
      /\ l.committed = e.lease.committed
  <2>1. Less(e.lease.left) \in 0..ProbeLease
    BY <1>1, DegradedAssumption DEF Less, Lease
  <2> QED
    BY Zenon, <1>1, <2>1 DEF Lease
<1>3. v \in [Account -> Unseen..EvidenceWindow]
  BY <1>1, DegradedAssumption DEF Less, Unseen
<1>4. Less(e.wait) \in 0..RetryMax /\ Less(e.stable) \in 0..RecoveryWindow
      /\ Less(e.wait) <= e.wait /\ Less(e.stable) <= e.stable
  BY <1>1, DegradedAssumption DEF Less
<1>5. f = [state |-> e.state, epoch |-> e.epoch, gen |-> e.gen, evidence |-> v,
           wait |-> Less(e.wait), lease |-> l, stable |-> Less(e.stable)]
  BY Zenon DEF Ticked
<1> HIDE DEF l, v
<1>6. f \in Entry
  BY SMTT(30), <1>1, <1>2, <1>3, <1>4, <1>5 DEF Entry
<1>7. /\ f.state = e.state /\ f.epoch = e.epoch /\ f.gen = e.gen
      /\ f.wait = Less(e.wait) /\ f.lease = l /\ f.stable = Less(e.stable)
  BY SMTT(30), <1>5
<1> HIDE DEF f
<1>8. f.stable > 0 => e.stable > 0
  BY <1>1, <1>4, <1>7, DegradedAssumption
<1>9. e.wait = 0 => f.wait = 0
  BY <1>7 DEF Less
<1>10. Sound(f)
  BY Zenon, <1>2, <1>6, <1>7, <1>8, <1>9 DEF Sound
<1>11. Follows(e, f, n)
  BY SMTT(30), <1>1, <1>2, <1>7, <1>10 DEF Follows, Continues, Sound, Protected
<1> QED
  BY Zenon, <1>7, <1>11 DEF Kept, f

LEMMA TickStep ==
    ASSUME IInv, Tick
    PROVE  IInv' /\ Orderly
<1>1. /\ cohort' = [k \in Key |-> Ticked(cohort[k])]
      /\ owed' = [k \in Key |-> Less(owed[k])]
      /\ UNCHANGED <<nextEpoch, sending, settled, holder>>
  BY Zenon DEF Tick, Ticked
<1>2. \A k \in Key : Sound(cohort[k])
  BY Zenon, SoundCohorts
<1>3. \A k \in Key :
        /\ Follows(cohort[k], cohort'[k], nextEpoch) /\ Kept(cohort[k], cohort'[k])
        /\ cohort'[k].wait = Less(cohort[k].wait)
        /\ cohort'[k].state = cohort[k].state /\ cohort'[k].epoch = cohort[k].epoch
  BY Zenon, <1>1, <1>2, TickedFollows
<1>4. cohort' \in [Key -> Entry]
  <2>1. \A k \in Key : Ticked(cohort[k]) \in Entry
    BY Zenon, <1>2, TickedFollows DEF Follows, Continues, Sound
  <2> QED
    BY Zenon, <1>1, <2>1
<1>5. Advance /\ Orderly
  BY Zenon, <1>3, FollowsAll
<1>6. Cardinality(Retained(cohort')) <= MaxCohorts
  BY ZenonT(30), <1>3, FewerRetained DEF IInv, TypeOK
<1>7. nextEpoch' \in 0..MaxEpoch /\ nextEpoch' >= nextEpoch /\ Counted
  BY SMTT(30), <1>1, <1>3, DegradedAssumption DEF IInv, TypeOK, Counted, Leases
<1>8. /\ owed' \in [Key -> 0..RetryMax]
      /\ \A k \in Key : owed'[k] <= cohort'[k].wait
  <2>1. /\ owed \in [Key -> 0..RetryMax] /\ RetryMax \in Nat
        /\ \A k \in Key : owed[k] \in Nat /\ owed[k] <= cohort[k].wait
                          /\ cohort[k].wait \in Nat
    BY SMTT(30), SoundCohorts, EntryFields, DegradedAssumption DEF IInv, TypeOK
  <2>2. \A k \in Key : Less(owed[k]) \in 0..RetryMax
    BY Zenon, <2>1, LessIsLess
  <2>3. \A k \in Key : Less(owed[k]) <= Less(cohort[k].wait)
    BY Zenon, <2>1, LessKeepsOrder
  <2> QED
    BY Zenon, <1>1, <1>3, <2>2, <2>3
<1>9. \A r \in Request :
        /\ permit'[r] \in Permit
        /\ permit'[r].kind = permit[r].kind /\ SamePermit(r)
  <2> SUFFICES ASSUME NEW r \in Request
               PROVE  /\ permit'[r] \in Permit
                      /\ permit'[r].kind = permit[r].kind /\ SamePermit(r)
    BY Zenon
  <2>1. permit[r] \in Permit /\ permit[r].left \in 0..ProbeLease
    BY Zenon, PermitFields
  <2>2. Less(permit[r].left) \in 0..ProbeLease
    BY <2>1, DegradedAssumption DEF Less
  <2>3. permit'[r] = [phase |-> permit[r].phase, kind |-> permit[r].kind,
                      key |-> permit[r].key, account |-> permit[r].account,
                      epoch |-> permit[r].epoch, gen |-> permit[r].gen,
                      left |-> Less(permit[r].left)]
    BY Zenon DEF Tick
  <2> QED
    BY SMTT(30), <2>1, <2>2, <2>3 DEF Permit, SamePermit
<1>10. PermitsTyped'
  <2>1. permit' = [r \in Request |-> permit'[r]]
    BY Zenon DEF Tick
  <2>2. permit' \in [Request -> Permit]
    BY Zenon, <1>9, <2>1
  <2> QED
    BY Zenon, <1>1, <2>2 DEF PermitsTyped, IInv, TypeOK
<1>11. NoGrant
  BY Zenon, <1>1, <1>9 DEF NoGrant
<1>12. \A q \in Request : HoldsLease(q)'
  BY Zenon, <1>1, <1>3, <1>5, <1>11, AllLeasesHeld
<1> QED
  BY Zenon, <1>1, <1>4, <1>5, <1>6, <1>7, <1>8, <1>10, <1>11, <1>12, QuietStep

-----------------------------------------------------------------------------
(* Theorems *)

\* What a step may do to the state of a cohort, with the debt to it.
StepOK ==
    \A k \in Key :
      /\ (cohort[k].state # "recovering" /\ cohort'[k].state = "recovering")
           => holder[k] \in OnTheWire(k) /\ sending'[holder[k]] = "idle"
      /\ (cohort[k].state # "probing" /\ cohort'[k].state = "probing")
           => owed[k] = 0
      /\ (cohort[k].state \in {"open", "probing"} \/ cohort[k].stable > 0)
           => cohort'[k].state \in Protected

LEMMA OrderlyIsOK == Orderly => StepOK
  BY Zenon DEF Orderly, StepOK

LEMMA InitHolds == Init => IInv
<1> SUFFICES ASSUME Init PROVE IInv
  BY Zenon
<1>1. cohort \in [Key -> Entry] /\ \A k \in Key : cohort[k] = Absent
  BY Zenon, Constants DEF Init
<1>2. NoPermit \in Permit
  BY DegradedAssumption DEF NoPermit, Permit
<1>3. Cardinality(Retained(cohort)) <= MaxCohorts
  <2>1. Retained(cohort) = {}
    BY <1>1 DEF Retained, Absent
  <2> QED
    BY <2>1, FS_EmptySet, DegradedAssumption
<1>4. TypeOK
  BY <1>1, <1>2, <1>3, DegradedAssumption DEF Init, TypeOK
<1>5. \A k \in Key : Sound(cohort[k]) /\ owed[k] <= cohort[k].wait
  BY <1>1, Constants, DegradedAssumption DEF Init, Absent
<1>6. Leases
  BY SMTT(30), <1>1, DegradedAssumption
     DEF Init, Leases, Absent, Named, Fenced, HoldsLease, GrantedTo, Distinct, Probes
<1> QED
  BY Zenon, <1>4, <1>5, <1>6 DEF IInv

LEMMA StepHolds == IInv /\ [Next]_vars => IInv' /\ (UNCHANGED vars \/ StepOK)
<1> SUFFICES ASSUME IInv, [Next]_vars PROVE IInv' /\ (UNCHANGED vars \/ StepOK)
  BY Zenon
<1>1. ASSUME NEW k \in Key, NEW a \in Account, NEW ra \in Header, Observe(k, a, ra)
      PROVE  IInv' /\ StepOK
  BY Zenon, <1>1, ObserveStep, OrderlyIsOK
<1>2. ASSUME NEW r \in Request, NEW k \in Key, NEW a \in Account, Reserve(r, k, a)
      PROVE  IInv' /\ StepOK
  <2>1. CASE PruneEntry(cohort[k]).state = "open"
    <3>1. /\ IInv' /\ owed[k] = 0 /\ cohort'[k].state = "probing"
          /\ \A j \in Key \ {k} : cohort'[j] = cohort[j]
      BY Zenon, <1>2, <2>1, ReserveProbe
    <3>2. \A j \in Key : cohort[j].stable > 0 => cohort[j].state = "recovering"
      BY Zenon, SoundCohorts DEF Sound
    <3> QED
      BY Zenon, <3>1, <3>2 DEF StepOK, Protected
  <2>2. CASE PruneEntry(cohort[k]).state # "open"
    BY Zenon, <1>2, <2>2, ReserveRecovery, OrderlyIsOK
  <2> QED
    BY Zenon, <2>1, <2>2
<1>3. ASSUME NEW k \in Key, Inspect(k) PROVE IInv' /\ StepOK
  BY Zenon, <1>3, InspectStep, OrderlyIsOK
<1>4. ASSUME Snapshot PROVE IInv' /\ StepOK
  BY Zenon, <1>4, SnapshotStep, OrderlyIsOK
<1>5. ASSUME NEW r \in Request, Commit(r) PROVE IInv' /\ StepOK
  BY Zenon, <1>5, CommitStep, OrderlyIsOK
<1>6. ASSUME NEW r \in Request, Cancel(r) PROVE IInv' /\ StepOK
  BY Zenon, <1>6, CancelStep, OrderlyIsOK
<1>7. ASSUME NEW r \in Request, NEW ra \in Header,
             NEW outcome \in {"success", "failed", "overloaded"},
             Settle(r, outcome, ra)
      PROVE  IInv' /\ StepOK
  <2> DEFINE k == permit[r].key
             wins == /\ ~settled[r] /\ permit[r].kind = "probe"
                     /\ outcome = "success"
                     /\ Completable(permit[r], PruneEntry(cohort[k]))
  <2>1. CASE wins
    <3>1. /\ IInv' /\ sending'[r] = "idle" /\ r \in OnTheWire(k) /\ holder[k] = r
          /\ cohort'[k].state = "recovering"
          /\ \A j \in Key \ {k} : cohort'[j] = cohort[j]
      BY Zenon, <1>7, <2>1, ProbeSucceeds
    <3>2. \A j \in Key : cohort[j].stable > 0 => cohort[j].state = "recovering"
      BY Zenon, SoundCohorts DEF Sound
    <3> HIDE DEF k
    <3> QED
      BY Zenon, <3>1, <3>2 DEF StepOK, Protected
  <2>2. CASE ~wins
    BY Zenon, <1>7, <2>2, SettleStep, OrderlyIsOK
  <2> QED
    BY Zenon, <2>1, <2>2
<1>8. ASSUME NEW r \in Request, NEW ra \in Header, OverloadAnswer(r, ra)
      PROVE  IInv' /\ StepOK
  BY ZenonT(30), <1>8, OverloadAnswerStep, OrderlyIsOK
<1>9. ASSUME NEW r \in Request, Watchdog(r) PROVE IInv' /\ StepOK
  BY Zenon, <1>9, WatchdogStep, OrderlyIsOK
<1>10. ASSUME Tick PROVE IInv' /\ StepOK
  BY Zenon, <1>10, TickStep, OrderlyIsOK
<1>11. CASE Next
  BY ZenonT(30), <1>11, <1>1, <1>2, <1>3, <1>4, <1>5, <1>6, <1>7, <1>8, <1>9, <1>10
     DEF Next
<1>12. CASE UNCHANGED vars
  BY ZenonT(30), <1>12 DEF vars, IInv, TypeOK, Retained, Leases, Named, Fenced, Distinct,
              HoldsLease, GrantedTo, Probes, MatchingProbeLease, Sound
<1> QED
  BY Zenon, <1>11, <1>12

LEMMA Invariant == Spec => []IInv
<1>1. IInv /\ [Next]_vars => IInv'
  BY Zenon, StepHolds
<1> QED
  BY <1>1, InitHolds, PTL DEF Spec

\* Where every probe on the wire holds the lease of its cohort there is at most
\* one.
LEMMA OneOnTheWire == IInv => OneProbeInFlight
<1> SUFFICES ASSUME IInv, NEW k \in Key PROVE Cardinality(OnTheWire(k)) <= 1
  BY Zenon DEF OneProbeInFlight, IInv
<1>1. ASSUME NEW r \in OnTheWire(k), NEW q \in OnTheWire(k) PROVE q = r
  <2>1. /\ r \in Request /\ q \in Request /\ Probes(r) /\ Probes(q)
        /\ sending[r] = "sent" /\ ~settled[r] /\ sending[q] = "sent" /\ ~settled[q]
        /\ permit[r].key = k /\ permit[q].key = k
    BY Zenon DEF OnTheWire, Probes
  <2>2. MatchingProbeLease(permit[r], cohort[k])
    BY Zenon, <2>1 DEF IInv, Leases, HoldsLease
  <2> QED
    BY Zenon, <2>1, <2>2, SoleHolder
<1>2. CASE OnTheWire(k) = {}
  BY <1>2, FS_EmptySet
<1>3. CASE OnTheWire(k) # {}
  <2>1. PICK r \in OnTheWire(k) : TRUE
    BY Zenon, <1>3
  <2>2. OnTheWire(k) = {r}
    BY Zenon, <1>1, <2>1
  <2>3. Cardinality({r}) = 1
    BY Zenon, FS_Singleton
  <2> QED
    BY <2>2, <2>3
<1> QED
  BY Zenon, <1>2, <1>3

\* At most one probe of a cohort is on the wire, and the map of cohorts never
\* outgrows its capacity: the lease that commitPermit marks is released only by
\* the request that holds it.
THEOREM ProbesDoNotOverlap == Spec => []OneProbeInFlight
  BY Invariant, OneOnTheWire, PTL

\* A cohort starts to recover only when the request that was granted its latest
\* probe succeeds: the epoch and generation fences of matchingProbeLease refuse
\* every other permit.
THEOREM LatestProbeDecides == Spec => OnlyLatestProbeRecovers
<1>1. IInv /\ [Next]_vars =>
        [\A k \in Key :
           (cohort[k].state # "recovering" /\ cohort'[k].state = "recovering")
           => holder[k] \in OnTheWire(k) /\ sending'[holder[k]] = "idle"]_vars
  BY Zenon, StepHolds DEF StepOK
<1> QED
  BY <1>1, Invariant, PTL DEF Spec, OnlyLatestProbeRecovers

\* reservePhysicalSend grants no probe before the longest Retry-After recorded
\* since the cohort opened has passed: transitionToOpen and recordOutcome only
\* ever move nextProbeAt later.
THEOREM RetryAfterKept == Spec => RetryAfterHonoured
<1>1. IInv /\ [Next]_vars =>
        [\A k \in Key :
           (cohort[k].state # "probing" /\ cohort'[k].state = "probing")
           => owed[k] = 0]_vars
  BY Zenon, StepHolds DEF StepOK
<1> QED
  BY <1>1, Invariant, PTL DEF Spec, RetryAfterHonoured

\* No capacity pressure, expiry or stale permit ends the protection of a cohort
\* early: pruneEntry and evictForNewEntry delete only what protects nothing.
THEOREM ProtectionStays == Spec => ProtectionKept
<1>1. IInv /\ [Next]_vars =>
        [\A k \in Key :
           (cohort[k].state \in {"open", "probing"} \/ cohort[k].stable > 0)
           => cohort'[k].state \in Protected]_vars
  BY Zenon, StepHolds DEF StepOK
<1> QED
  BY <1>1, Invariant, PTL DEF Spec, ProtectionKept

=============================================================================
