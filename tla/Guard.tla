------------------------------- MODULE Guard --------------------------------
(***************************************************************************)
(* The request path and the maintenance lifecycle of the local guard       *)
(* (createGuard in scripts/ccflare-guard.mjs): every request passes the    *)
(* lifecycle barrier, a fair admission queue, a pool of body readers and   *)
(* the queue again before its upstream fetch, may sleep through a trusted  *)
(* recovery and retry, and can be aborted wherever it waits, while the     *)
(* runner drains the guard, attaches a replacement upstream or shuts it    *)
(* down.                                                                   *)
(*                                                                         *)
(* The guard is one event loop.  `s' holds the variables of createGuard's  *)
(* closure and the position of every handler; an operator that takes and   *)
(* returns such a record is a synchronous function of the code, and an     *)
(* action runs from one await to the next.  A handler whose promise has    *)
(* resolved runs before the loop takes the next event (Quiet).             *)
(***************************************************************************)
EXTENDS Integers, Sequences, FiniteSets, Functions

CONSTANTS
    Request,      \* the requests that may arrive
    Limited,      \* those on a limited path; the others pass through
    Weight,       \* the bytes a request's body reserves
    MaxActive, MaxQueue, MaxReaders, MaxBytes, MaxRecoveryWaits, MaxAttempts,
    MaxRecycles   \* how often the runner replaces the upstream

ASSUME GuardAssumption ==
    /\ IsFiniteSet(Request) /\ Limited \subseteq Request
    /\ Weight \in [Request -> 0 .. MaxBytes]
    /\ {MaxActive, MaxReaders, MaxAttempts} \subseteq Nat \ {0}
    /\ {MaxQueue, MaxBytes, MaxRecoveryWaits, MaxRecycles} \subseteq Nat

VARIABLE s
vars == <<s>>

NoGeneration == 0

\* Positions of a handler: in the permit queue, behind the lifecycle barrier,
\* waiting for the upstream or the client, or with its promise resolved.
Queued == {"queue1", "queue2"}
Barred == {"barrier", "fetchwait"}
Streaming == {"fetch", "send", "peek", "inspect", "forward"}
Resumed == {"admit", "admitted", "granted", "dispatch"}
Positions == Queued \cup Barred \cup Streaming \cup Resumed \cup
    {"new", "bodyqueue", "reading", "sleep", "failing", "done"}

Init ==
    s = [req |-> [r \in Request |->
                    [pc |-> "new", gen |-> NoGeneration, attempt |-> 0,
                     permit |-> FALSE, body |-> FALSE, aborted |-> FALSE,
                     sent |-> {}]],
         queue |-> <<>>, bodyQueue |-> <<>>,
         lifecycle |-> "serving", generation |-> 1, allow |-> FALSE,
         attaching |-> FALSE, recycles |-> 0]

-----------------------------------------------------------------------------
(***************************************************************************)
(* The synchronous functions.                                              *)
(***************************************************************************)
Live(t, r) == t.req[r].pc \notin {"new", "done"}
Active(t) == {r \in Request : t.req[r].permit}
Readers(t) == {r \in Request : t.req[r].body}
Sleeping(t) == {r \in Request : t.req[r].pc = "sleep"}
Waiters(t) == {r \in Request : t.req[r].pc \in Barred}
Move(t, r, pc) == [t EXCEPT !.req[r].pc = pc]

\* What a queue keeps of G, in the order of the queue.
Keep(q, G) ==
    LET kept[i \in 0 .. Len(q)] ==
            IF i = 0 THEN <<>>
            ELSE IF q[i] \in G THEN Append(kept[i - 1], q[i]) ELSE kept[i - 1]
    IN  kept[Len(q)]

\* New work may be admitted; a dispatched request belongs to a generation.
Open(t) == t.lifecycle = "serving" \/ (t.lifecycle = "shutdown" /\ t.allow)
Mine(t, r) == t.req[r].gen = t.generation

\* Permits go to the first waiters that may run, in the order of the queue.
drainQueue(t) ==
    LET eligible == Keep(t.queue, {r \in Request : Open(t) \/ Mine(t, r)})
        free == MaxActive - Cardinality(Active(t))
        granted == {eligible[i] : i \in {k \in DOMAIN eligible : k <= free}}
    IN  [t EXCEPT
            !.queue = Keep(@, Request \ granted),
            !.req = [r \in Request |->
                IF r \in granted
                THEN [@[r] EXCEPT !.permit = TRUE,
                        !.pc = IF t.req[r].pc = "queue1" THEN "admitted" ELSE "granted"]
                ELSE @[r]]]

release(t, r) ==
    IF t.req[r].permit THEN drainQueue([t EXCEPT !.req[r].permit = FALSE]) ELSE t

Reserved(R) == FoldFunctionOnSet(+, 0, Weight, R)

canAcquireBodyReader(t, R) ==
    /\ Open(t)
    /\ Cardinality(Readers(t) \cup R) <= MaxReaders
    /\ Reserved(Readers(t) \cup R) <= MaxBytes

\* Readers are admitted from the head while the head fits.
drainBodyReaderQueue(t) ==
    IF t.bodyQueue = <<>> THEN t ELSE
    LET fits(n) == canAcquireBodyReader(t, {t.bodyQueue[i] : i \in 1 .. n})
        n == CHOOSE k \in 0 .. Len(t.bodyQueue) :
                /\ k = 0 \/ fits(k)
                /\ k = Len(t.bodyQueue) \/ ~fits(k + 1)
        granted == {t.bodyQueue[i] : i \in 1 .. n}
    IN  [t EXCEPT
            !.bodyQueue = SubSeq(@, n + 1, Len(@)),
            !.req = [r \in Request |->
                IF r \in granted THEN [@[r] EXCEPT !.body = TRUE, !.pc = "reading"]
                                 ELSE @[r]]]

releaseBody(t, r) ==
    IF t.req[r].body
    THEN drainBodyReaderQueue([t EXCEPT !.req[r].body = FALSE]) ELSE t

\* A drain that ends when no request is in its fetch.
checkRecycleFetching(t) ==
    IF t.lifecycle = "draining" /\ \A r \in Request : t.req[r].pc # "fetch"
    THEN [t EXCEPT !.lifecycle = "absent"] ELSE t

\* The drain ends with the last request that was dispatched.
checkRecycle(t) ==
    IF /\ t.lifecycle = "draining"
       /\ \A r \in Request : Live(t, r) => t.req[r].gen = NoGeneration
    THEN [t EXCEPT !.lifecycle = "absent"] ELSE t

\* The end of a handler: what it holds is released and its context disposed.
Finish(t, r) ==
    checkRecycle(Move(releaseBody(release(t, r), r), r, "done"))

\* An abort signal reaches the handler wherever it waits.
Abort(t, r) ==
    LET u == [t EXCEPT !.req[r].aborted = TRUE, !.req[r].pc = "failing",
                       !.queue = Keep(@, Request \ {r}),
                       !.bodyQueue = Keep(@, Request \ {r})]
    IN  IF t.req[r].pc = "bodyqueue" THEN drainBodyReaderQueue(u) ELSE u

\* Many at once, with admission closed: nobody is admitted in between.
AbortAll(t, R) ==
    [t EXCEPT !.queue = Keep(@, Request \ R),
              !.bodyQueue = Keep(@, Request \ R),
              !.req = [r \in Request |->
                  IF r \in R THEN [@[r] EXCEPT !.aborted = TRUE, !.pc = "failing"]
                             ELSE @[r]]]

\* acquire: a permit at once, a place in the queue, or a refusal.
acquire(t, r, queued, granted) ==
    CASE t.req[r].aborted -> Finish(t, r)
      [] ~t.req[r].aborted
           /\ Cardinality(Active(t)) < MaxActive /\ t.queue = <<>>
           /\ (Open(t) \/ Mine(t, r)) ->
            [t EXCEPT !.req[r].permit = TRUE, !.req[r].pc = granted]
      [] OTHER ->
            IF Len(t.queue) >= MaxQueue THEN Finish(t, r)
            ELSE [Move(t, r, queued) EXCEPT !.queue = Append(@, r)]

acquireBodyReader(t, r) ==
    CASE t.req[r].aborted -> Finish(t, r)
      [] ~t.req[r].aborted
           /\ t.bodyQueue = <<>> /\ canAcquireBodyReader(t, {r}) ->
            [t EXCEPT !.req[r].body = TRUE, !.req[r].pc = "reading"]
      [] OTHER ->
            IF Len(t.bodyQueue) >= MaxQueue THEN Finish(t, r)
            ELSE [Move(t, r, "bodyqueue") EXCEPT !.bodyQueue = Append(@, r)]

\* waitForServing: go on at `passed', wait behind the barrier, or fail.
waitForServing(t, r, passed, barred) ==
    LET gen == t.req[r].gen
    IN  CASE gen # NoGeneration ->
                IF Mine(t, r) /\ t.lifecycle # "absent" THEN passed ELSE Finish(t, r)
          [] gen = NoGeneration /\ Open(t) -> passed
          [] OTHER ->
                IF t.lifecycle = "shutdown" \/ Cardinality(Waiters(t)) >= MaxQueue
                THEN Finish(t, r) ELSE Move(t, r, barred)

\* A fetch that does not tie its request to the generation it is sent to.
dispatchedUnowned(t, r) ==
    [t EXCEPT !.req[r].pc = "fetch", !.req[r].sent = @ \cup {t.generation}]

\* The physical fetch, on the upstream of the current generation.
dispatched(t, r) ==
    [t EXCEPT !.req[r].pc = "fetch",
              !.req[r].gen = IF @ = NoGeneration THEN t.generation ELSE @,
              !.req[r].sent = @ \cup {t.generation}]

fetchUpstream(t, r) ==
    IF t.req[r].aborted THEN Finish(t, r)
    ELSE waitForServing(t, r, dispatched(t, r), "fetchwait")

\* The lifecycle barrier opens for everyone behind it, or fails them.
OpenBarrier(t) ==
    [t EXCEPT !.req = [r \in Request |->
        CASE @[r].pc = "barrier" -> [@[r] EXCEPT !.pc = "admit"]
          [] @[r].pc = "fetchwait" -> [@[r] EXCEPT !.pc = "dispatch"]
          [] OTHER -> @[r]]]

FailBarrier(t) ==
    [t EXCEPT !.req = [r \in Request |->
        IF @[r].pc \in Barred THEN [@[r] EXCEPT !.pc = "failing"] ELSE @[r]]]

-----------------------------------------------------------------------------
(***************************************************************************)
(* The handler of a request.                                               *)
(***************************************************************************)
At(r, pc) == s.req[r].pc = pc
Quiet == \A r \in Request : s.req[r].pc \notin Resumed

\* Accepted: refused while shutting down, or sent to the barrier.
Arrive(r) ==
    /\ At(r, "new")
    /\ s' = IF s.lifecycle = "shutdown" THEN Move(s, r, "done")
            ELSE waitForServing(s, r, Move(s, r, "admit"), "barrier")

\* The body is refused for its declared length, or waits for a reader's lease.
bodyPlan(t, r) == {Finish(t, r), acquireBodyReader(t, r)}

\* Past the barrier: the admission queue, or the body of a passed-through one.
Admit(r) ==
    /\ At(r, "admit")
    /\ s' \in IF r \in Limited THEN {acquire(s, r, "queue1", "admitted")}
              ELSE bodyPlan(s, r)

\* The admission permit only kept the order: it is given back before the body
\* is read.
ReadBody(r) ==
    /\ At(r, "admitted")
    /\ s' \in bodyPlan(release(s, r), r)

\* The body is complete: a permit for the fetch, or straight to it.
BodyRead(r) ==
    /\ At(r, "reading")
    /\ s' = IF r \in Limited THEN acquire(s, r, "queue2", "granted")
            ELSE fetchUpstream([s EXCEPT !.req[r].attempt = 1], r)

\* An attempt begins with its permit, unless the deadline has passed.
Attempt(r) ==
    /\ At(r, "granted")
    /\ s' \in {Finish(s, r),
               IF s.req[r].attempt >= MaxAttempts THEN Finish(s, r)
               ELSE fetchUpstream([s EXCEPT !.req[r].attempt = @ + 1], r)}

\* A request let through the barrier before its fetch looks again.
Dispatch(r) ==
    /\ At(r, "dispatch")
    /\ s' \in {Finish(s, r), fetchUpstream(s, r)}

\* The upstream answers: a final response streamed under the permit, or a 503
\* that a trusted header, or by option its body, may turn into a retry.
Respond(r) ==
    /\ At(r, "fetch")
    /\ \/ s' = Move(s, r, "send")
       \/ r \in Limited /\ s' = Move(release(s, r), r, "peek")
       \/ r \in Limited /\ s' = Move(s, r, "inspect")

\* A retry is slept on if an attempt and a recovery wait are left; otherwise
\* the client is answered.
planned(t, r) ==
    Move(t, r, IF \/ t.req[r].attempt >= MaxAttempts
                  \/ Cardinality(Sleeping(t)) >= MaxRecoveryWaits
               THEN "forward" ELSE "sleep")

\* The 503 is understood; a body too large to inspect is streamed on.
Recover(r) ==
    \/ /\ s.req[r].pc \in {"peek", "inspect"}
       /\ LET t == release(s, r) IN s' \in {Move(t, r, "forward"), planned(t, r)}
    \/ /\ At(r, "inspect")
       /\ s' = Move(s, r, "send")

\* The sleep is over: its wait is released and the retry queues again.
Wake(r) ==
    /\ At(r, "sleep")
    /\ s' = acquire(Move(s, r, "granted"), r, "queue2", "granted")

\* The response is delivered, or a wait failed and the handler cleans up.
End(r) ==
    /\ s.req[r].pc \in {"send", "forward", "failing"}
    /\ s' = Finish(s, r)

\* The client's upload or the upstream's answer fails.
Fail(r) ==
    /\ s.req[r].pc \in Streaming \cup {"reading"}
    /\ s' = Move(s, r, "failing")

\* The client goes away or a deadline fires.
Aborts(r) ==
    /\ Live(s, r) /\ ~s.req[r].aborted
    /\ s' = Abort(s, r)

Resume(r) == Admit(r) \/ ReadBody(r) \/ Attempt(r) \/ Dispatch(r)
Event(r) == BodyRead(r) \/ Respond(r) \/ Recover(r) \/ Wake(r) \/ End(r)
Handle(r) ==
    \/ Resume(r)
    \/ Quiet /\ Event(r)

-----------------------------------------------------------------------------
(***************************************************************************)
(* The lifecycle.                                                          *)
(***************************************************************************)
beginRecycle ==
    /\ s.lifecycle = "serving" /\ s.recycles < MaxRecycles
    /\ s' = checkRecycle([s EXCEPT !.lifecycle = "draining",
                                   !.recycles = @ + 1])

\* The grace is over: what was dispatched is aborted.
RecycleTimer ==
    /\ s.lifecycle = "draining"
    /\ s' = [AbortAll(s, {r \in Request :
                Live(s, r) /\ ~s.req[r].aborted /\ s.req[r].gen # NoGeneration})
             EXCEPT !.lifecycle = "absent"]

attachReplacement ==
    /\ s.lifecycle = "absent" /\ ~s.attaching
    /\ s' = [s EXCEPT !.attaching = TRUE]

\* An attach that opens the barrier and leaves the queues to later releases.
VerifiedUndrained ==
    /\ s.attaching
    /\ \E verified \in BOOLEAN :
        LET t == [s EXCEPT !.attaching = FALSE]
        IN  s' = IF ~verified \/ t.lifecycle # "absent" THEN t
                 ELSE OpenBarrier([t EXCEPT !.lifecycle = "serving",
                                            !.generation = @ + 1])

\* The replacement is verified, unless the guard was shut down meanwhile.
Verified ==
    /\ s.attaching
    /\ \E verified \in BOOLEAN :
        LET t == [s EXCEPT !.attaching = FALSE]
        IN  s' = IF ~verified \/ t.lifecycle # "absent" THEN t
                 ELSE drainBodyReaderQueue(drainQueue(OpenBarrier(
                        [t EXCEPT !.lifecycle = "serving", !.generation = @ + 1])))

\* A shutdown that forgets the requests behind the barrier.
shutdownBarred ==
    /\ s.lifecycle # "shutdown"
    /\ LET t == [s EXCEPT !.allow = s.lifecycle = "serving",
                          !.lifecycle = "shutdown"]
       IN  s' = drainBodyReaderQueue(drainQueue(t))

\* Work already admitted may finish on a serving generation; a maintenance
\* barrier is never opened again.
shutdown ==
    /\ s.lifecycle # "shutdown"
    /\ LET t == [s EXCEPT !.allow = s.lifecycle = "serving",
                          !.lifecycle = "shutdown"]
           u == IF t.allow THEN t
                ELSE AbortAll(t, {r \in Request : Live(t, r) /\ ~t.req[r].aborted
                                        /\ t.req[r].gen = NoGeneration})
       IN  s' = drainBodyReaderQueue(drainQueue(FailBarrier(u)))

Lifecycle ==
    beginRecycle \/ RecycleTimer \/ attachReplacement \/ Verified \/ shutdown

Next ==
    \/ \E r \in Request :
        \/ Handle(r)
        \/ Quiet /\ (Arrive(r) \/ Fail(r) \/ Aborts(r))
    \/ Quiet /\ Lifecycle

EndOfAbsence ==
    /\ Quiet /\ s.lifecycle = "absent"
    /\ Verified \/ shutdown
    /\ s'.lifecycle # "absent"

\* Handlers run on, uploads, upstreams and sleeps end, the grace timer fires,
\* and an absence ends with a replacement or with a shutdown.  No request has
\* to arrive and no deadline has to fire.
Fairness ==
    /\ WF_vars(\E r \in Request : Handle(r))
    /\ WF_vars(Quiet /\ RecycleTimer)
    /\ WF_vars(EndOfAbsence)

Spec == Init /\ [][Next]_vars /\ Fairness

-----------------------------------------------------------------------------
TypeOK ==
    /\ s.req \in [Request ->
        [pc : Positions, gen : 0 .. MaxRecycles + 1, attempt : 0 .. MaxAttempts,
         permit : BOOLEAN, body : BOOLEAN, aborted : BOOLEAN,
         sent : SUBSET (1 .. MaxRecycles + 1)]]
    /\ \A r \in Request :
        /\ s.req[r].pc \in Queued <=> r \in Range(s.queue)
        /\ s.req[r].pc = "bodyqueue" <=> r \in Range(s.bodyQueue)
    /\ IsInjective(s.queue) /\ IsInjective(s.bodyQueue)
    /\ s.lifecycle \in {"serving", "draining", "absent", "shutdown"}
    /\ s.generation \in 1 .. MaxRecycles + 1
    /\ s.recycles \in 0 .. MaxRecycles

\* A request is sent to upstreams of one generation only: its retries after a
\* recovery sleep, a wait in the queue or a wait at the barrier never reach a
\* replacement ("Never replay them on a replacement").
NoReplayOnReplacement ==
    \A r \in Request : Cardinality(s.req[r].sent) <= 1

\* Once the guard reports itself drained and the runner reaps the backend, no
\* request still uses it: every dispatched one is finished or aborted.
RecycleDrained ==
    s.lifecycle = "absent" =>
        \A r \in Request :
            Live(s, r) /\ s.req[r].gen # NoGeneration => s.req[r].aborted

\* The limits are neither exceeded nor left unused, whatever is granted, handed
\* on and aborted at the same time.  Permits, body readers and their bytes,
\* recovery waits and the three queues stay within their bounds; and while work
\* may be admitted nobody waits for a permit that is free, or at the head of
\* the body readers' queue for room that is there.  (With TypeOK.)
LimitsExact ==
    /\ TypeOK
    /\ Cardinality(Active(s)) <= MaxActive
    /\ Cardinality(Readers(s)) <= MaxReaders /\ Reserved(Readers(s)) <= MaxBytes
    /\ Cardinality(Sleeping(s)) <= MaxRecoveryWaits
    /\ Len(s.queue) <= MaxQueue /\ Len(s.bodyQueue) <= MaxQueue
    /\ Cardinality(Waiters(s)) <= MaxQueue
    /\ Open(s) =>
        /\ s.queue # <<>> => Cardinality(Active(s)) = MaxActive
        /\ s.bodyQueue # <<>> => ~canAcquireBodyReader(s, {Head(s.bodyQueue)})

\* Every accepted request ends, without the help of any deadline: no wake-up
\* is lost between the barrier, the two queues, the recovery waits, a recycle
\* and a shutdown.
RequestsSettle ==
    \A r \in Request : ~At(r, "new") ~> At(r, "done")

=============================================================================
