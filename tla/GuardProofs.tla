----------------------------- MODULE GuardProofs -----------------------------
(***************************************************************************)
(* Proofs about Guard, for any number of requests, any limits and any      *)
(* number of replacements.                                                 *)
(***************************************************************************)
EXTENDS Guard, FiniteSetTheorems, SequenceTheorems, WellFoundedInduction, TLAPS

\* The state of the guard has its fields, and so has every request.
Context(q) ==
    q = [f \in {"pc", "gen", "attempt", "permit", "body", "aborted", "sent"} |-> q[f]]
Shape(t) ==
    /\ t = [f \in {"req", "queue", "bodyQueue", "lifecycle", "generation",
                   "allow", "attaching", "recycles"} |-> t[f]]
    /\ t.req = [r \in Request |-> t.req[r]]
    /\ \A r \in Request : Context(t.req[r])

\* From t to u no request changed its generation or was sent anywhere.
Kept(t, u) ==
    /\ Shape(u)
    /\ u.generation = t.generation
    /\ \A r \in Request :
        u.req[r].gen = t.req[r].gen /\ u.req[r].sent = t.req[r].sent

\* A request was sent to the generation it belongs to, and to no other.
Owned(q) == q.sent \subseteq {q.gen} /\ (q.gen = NoGeneration => q.sent = {})

Sound(t) ==
    /\ Shape(t)
    /\ t.generation \in Nat \ {0}
    /\ \A r \in Request : Owned(t.req[r])

Inv == Sound(s)

-----------------------------------------------------------------------------
(***************************************************************************)
(* The synchronous functions that send nothing.                            *)
(***************************************************************************)
LEMMA KeptRefl == ASSUME NEW t, Shape(t) PROVE Kept(t, t)
BY DEF Kept

LEMMA KeptTrans ==
    ASSUME NEW t, NEW u, NEW v, Kept(t, u), Kept(u, v) PROVE Kept(t, v)
BY DEF Kept

\* A function of the requests that leaves generation and sends alone.
LEMMA RequestsKept ==
    ASSUME NEW t, Shape(t), NEW f, f = [r \in Request |-> f[r]],
           \A r \in Request : Context(f[r]) /\ f[r].gen = t.req[r].gen
                                            /\ f[r].sent = t.req[r].sent
    PROVE  Kept(t, [t EXCEPT !.req = f])
BY Zenon DEF Kept, Shape

LEMMA QueueKept ==
    ASSUME NEW t, Shape(t), NEW q
    PROVE  Kept(t, [t EXCEPT !.queue = q]) /\ Kept(t, [t EXCEPT !.bodyQueue = q])
BY DEF Kept, Shape

LEMMA QueuesKept ==
    ASSUME NEW t, NEW p, NEW q, Shape(t)
    PROVE  Kept(t, [t EXCEPT !.queue = p, !.bodyQueue = q])
BY Zenon DEF Kept, Shape

LEMMA LifeKept ==
    ASSUME NEW t, Shape(t), NEW x
    PROVE  /\ Kept(t, [t EXCEPT !.lifecycle = x])
           /\ Kept(t, [t EXCEPT !.allow = x])
           /\ Kept(t, [t EXCEPT !.attaching = x])
           /\ Kept(t, [t EXCEPT !.recycles = x])
BY DEF Kept, Shape

LEMMA FieldsKept ==
    ASSUME NEW t, Shape(t), NEW r \in Request, NEW q,
           Context(q), q.gen = t.req[r].gen, q.sent = t.req[r].sent
    PROVE  Kept(t, [t EXCEPT !.req[r] = q])
<1> DEFINE f == [t.req EXCEPT ![r] = q]
<1>1. f = [x \in Request |-> f[x]] /\ \A x \in Request : f[x] = IF x = r THEN q ELSE t.req[x]
    BY DEF Shape
<1>2. \A x \in Request : Context(f[x]) /\ f[x].gen = t.req[x].gen /\ f[x].sent = t.req[x].sent
    BY <1>1 DEF Shape
<1> HIDE DEF f
<1>3. Kept(t, [t EXCEPT !.req = f])
    BY <1>1, <1>2, RequestsKept
<1> QED BY <1>3 DEF f

LEMMA ContextFields ==
    ASSUME NEW q, Context(q), NEW x
    PROVE  /\ LET p == [q EXCEPT !.pc = x] IN Context(p) /\ p.gen = q.gen /\ p.sent = q.sent
           /\ LET p == [q EXCEPT !.permit = FALSE] IN Context(p) /\ p.gen = q.gen /\ p.sent = q.sent
           /\ LET p == [q EXCEPT !.body = FALSE] IN Context(p) /\ p.gen = q.gen /\ p.sent = q.sent
           /\ LET p == [q EXCEPT !.attempt = x] IN Context(p) /\ p.gen = q.gen /\ p.sent = q.sent
           /\ LET p == [q EXCEPT !.permit = TRUE, !.pc = x]
              IN  Context(p) /\ p.gen = q.gen /\ p.sent = q.sent
           /\ LET p == [q EXCEPT !.body = TRUE, !.pc = x]
              IN  Context(p) /\ p.gen = q.gen /\ p.sent = q.sent
           /\ LET p == [q EXCEPT !.aborted = TRUE, !.pc = x]
              IN  Context(p) /\ p.gen = q.gen /\ p.sent = q.sent
BY Zenon DEF Context

LEMMA FieldKept ==
    ASSUME NEW t, Shape(t), NEW r \in Request, NEW x
    PROVE  /\ Kept(t, [t EXCEPT !.req[r].pc = x])
           /\ Kept(t, [t EXCEPT !.req[r].permit = FALSE])
           /\ Kept(t, [t EXCEPT !.req[r].body = FALSE])
           /\ Kept(t, [t EXCEPT !.req[r].attempt = x])
<1>1. Context(t.req[r])
    BY DEF Shape
<1>2. Kept(t, [t EXCEPT !.req[r].pc = x])
    BY ZenonT(30), <1>1, ContextFields, FieldsKept
<1>3. Kept(t, [t EXCEPT !.req[r].permit = FALSE])
    BY Zenon, <1>1, ContextFields, FieldsKept
<1>4. Kept(t, [t EXCEPT !.req[r].body = FALSE])
    BY Zenon, <1>1, ContextFields, FieldsKept
<1>5. Kept(t, [t EXCEPT !.req[r].attempt = x])
    BY ZenonT(30), <1>1, ContextFields, FieldsKept
<1> QED BY <1>2, <1>3, <1>4, <1>5

\* Permits and readers' leases that are granted, handed on and released.
LEMMA DrainQueueKept == ASSUME NEW t, Shape(t) PROVE Kept(t, drainQueue(t))
<1> DEFINE eligible == Keep(t.queue, {r \in Request : Open(t) \/ Mine(t, r)})
           free == MaxActive - Cardinality(Active(t))
           granted == {eligible[i] : i \in {k \in DOMAIN eligible : k <= free}}
           rest == Keep(t.queue, Request \ granted)
           to(q) == IF q.pc = "queue1" THEN "admitted" ELSE "granted"
           given(q) == [q EXCEPT !.permit = TRUE, !.pc = to(q)]
           f == [r \in Request |-> IF r \in granted THEN given(t.req[r]) ELSE t.req[r]]
           u == [t EXCEPT !.queue = rest]
<1>1. drainQueue(t) = [t EXCEPT !.queue = rest, !.req = f]
    BY DEF drainQueue
<1> HIDE DEF granted, rest
<1>2. Kept(t, u)
    BY Zenon, QueueKept
<1>3. u.req = t.req /\ [t EXCEPT !.queue = rest, !.req = f] = [u EXCEPT !.req = f]
    BY DEF Shape
<1>4. \A r \in Request : LET q == t.req[r]
                         IN  Context(given(q)) /\ given(q).gen = q.gen /\ given(q).sent = q.sent
  <2> TAKE r \in Request
  <2>1. Context(t.req[r])
      BY DEF Shape
  <2> HIDE DEF to
  <2> QED BY ZenonT(30), <2>1, ContextFields
<1>5. f = [r \in Request |-> f[r]]
      /\ \A r \in Request : Context(f[r]) /\ f[r].gen = u.req[r].gen /\ f[r].sent = u.req[r].sent
    BY Zenon, <1>3, <1>4 DEF Shape
<1>6. Kept(u, [u EXCEPT !.req = f])
  <2>1. Shape(u)
      BY <1>2 DEF Kept
  <2> HIDE DEF f, u
  <2> QED BY <1>5, <2>1, RequestsKept
<1> QED BY <1>1, <1>2, <1>3, <1>6, KeptTrans

LEMMA ReleaseKept ==
    ASSUME NEW t, Shape(t), NEW r \in Request PROVE Kept(t, release(t, r))
<1> DEFINE u == [t EXCEPT !.req[r].permit = FALSE]
<1>1. Kept(t, u) /\ Shape(u)
    BY ZenonT(30), FieldKept DEF Kept
<1>2. Kept(t, drainQueue(u))
    BY <1>1, DrainQueueKept, KeptTrans
<1> QED BY <1>2, KeptRefl DEF release

LEMMA DrainBodyKept == ASSUME NEW t, Shape(t) PROVE Kept(t, drainBodyReaderQueue(t))
<1> SUFFICES ASSUME t.bodyQueue # <<>> PROVE Kept(t, drainBodyReaderQueue(t))
    BY KeptRefl DEF drainBodyReaderQueue
<1> DEFINE fits(n) == canAcquireBodyReader(t, {t.bodyQueue[i] : i \in 1 .. n})
           n == CHOOSE k \in 0 .. Len(t.bodyQueue) :
                  /\ k = 0 \/ fits(k)
                  /\ k = Len(t.bodyQueue) \/ ~fits(k + 1)
           granted == {t.bodyQueue[i] : i \in 1 .. n}
           rest == SubSeq(t.bodyQueue, n + 1, Len(t.bodyQueue))
           given(q) == [q EXCEPT !.body = TRUE, !.pc = "reading"]
           f == [r \in Request |-> IF r \in granted THEN given(t.req[r]) ELSE t.req[r]]
           u == [t EXCEPT !.bodyQueue = rest]
<1>1. drainBodyReaderQueue(t) = [t EXCEPT !.bodyQueue = rest, !.req = f]
    BY DEF drainBodyReaderQueue
<1> HIDE DEF granted, rest
<1>2. Kept(t, u)
    BY Zenon, QueueKept
<1>3. u.req = t.req /\ [t EXCEPT !.bodyQueue = rest, !.req = f] = [u EXCEPT !.req = f]
    BY DEF Shape
<1>4. \A r \in Request : LET q == t.req[r]
                         IN  Context(given(q)) /\ given(q).gen = q.gen /\ given(q).sent = q.sent
    BY Zenon, ContextFields DEF Shape
<1>5. f = [r \in Request |-> f[r]]
      /\ \A r \in Request : Context(f[r]) /\ f[r].gen = u.req[r].gen /\ f[r].sent = u.req[r].sent
    BY Zenon, <1>3, <1>4 DEF Shape
<1>6. Kept(u, [u EXCEPT !.req = f])
  <2>1. Shape(u)
      BY <1>2 DEF Kept
  <2> HIDE DEF f, u
  <2> QED BY <1>5, <2>1, RequestsKept
<1> QED BY <1>1, <1>2, <1>3, <1>6, KeptTrans

LEMMA ReleaseBodyKept ==
    ASSUME NEW t, Shape(t), NEW r \in Request PROVE Kept(t, releaseBody(t, r))
<1> DEFINE u == [t EXCEPT !.req[r].body = FALSE]
<1>1. Kept(t, u) /\ Shape(u)
    BY ZenonT(30), FieldKept DEF Kept
<1>2. Kept(t, drainBodyReaderQueue(u))
    BY <1>1, DrainBodyKept, KeptTrans
<1> QED BY <1>2, KeptRefl DEF releaseBody

LEMMA MoveKept ==
    ASSUME NEW t, Shape(t), NEW r \in Request, NEW pc PROVE Kept(t, Move(t, r, pc))
BY Zenon, FieldKept DEF Move

LEMMA CheckRecycleKept == ASSUME NEW t, Shape(t) PROVE Kept(t, checkRecycle(t))
BY Zenon, LifeKept, KeptRefl DEF checkRecycle

LEMMA FinishKept ==
    ASSUME NEW t, Shape(t), NEW r \in Request PROVE Kept(t, Finish(t, r))
<1> DEFINE u == release(t, r)
           v == releaseBody(u, r)
           w == Move(v, r, "done")
<1>1. Kept(t, u) /\ Shape(u)
    BY ReleaseKept DEF Kept
<1>2. Kept(u, v) /\ Shape(v)
    BY <1>1, ReleaseBodyKept DEF Kept
<1>3. Kept(v, w) /\ Shape(w)
    BY <1>2, MoveKept DEF Kept
<1>4. Kept(w, checkRecycle(w))
    BY <1>3, CheckRecycleKept
<1>5. Finish(t, r) = checkRecycle(w)
    BY DEF Finish
<1> HIDE DEF u, v, w
<1> QED BY SMTT(30), <1>1, <1>2, <1>3, <1>4, <1>5, KeptTrans

LEMMA AbortKept ==
    ASSUME NEW t, Shape(t), NEW r \in Request PROVE Kept(t, Abort(t, r))
<1> DEFINE q == [t.req[r] EXCEPT !.aborted = TRUE, !.pc = "failing"]
           f == [t.req EXCEPT ![r] = q]
           a == Keep(t.queue, Request \ {r})
           b == Keep(t.bodyQueue, Request \ {r})
           v == [t EXCEPT !.req[r] = q]
           u == [v EXCEPT !.queue = a, !.bodyQueue = b]
<1>1. Context(q) /\ q.gen = t.req[r].gen /\ q.sent = t.req[r].sent
    BY Zenon, ContextFields DEF Shape
<1> HIDE DEF a, b
<1>2. Kept(t, v)
  <2> HIDE DEF q
  <2> QED BY <1>1, FieldsKept
<1>3. Kept(v, u)
  <2>1. Shape(v)
      BY <1>2 DEF Kept
  <2> HIDE DEF v
  <2> QED BY Zenon, <2>1, QueuesKept
<1>5. [t EXCEPT !.req[r].aborted = TRUE, !.req[r].pc = "failing", !.queue = a,
                !.bodyQueue = b] = u
    BY Zenon DEF Shape, Context
<1>6. Abort(t, r) \in {u, drainBodyReaderQueue(u)}
    BY <1>5 DEF Abort, a, b
<1> HIDE DEF u, v
<1>7. Kept(t, u) /\ Shape(u)
    BY <1>2, <1>3, KeptTrans DEF Kept
<1> QED BY <1>6, <1>7, DrainBodyKept, KeptTrans

LEMMA AbortAllKept ==
    ASSUME NEW t, Shape(t), NEW R PROVE Kept(t, AbortAll(t, R))
<1> DEFINE a == Keep(t.queue, Request \ R)
           b == Keep(t.bodyQueue, Request \ R)
           failed(q) == [q EXCEPT !.aborted = TRUE, !.pc = "failing"]
           f == [r \in Request |-> IF r \in R THEN failed(t.req[r]) ELSE t.req[r]]
           v == [t EXCEPT !.req = f]
           u == [v EXCEPT !.queue = a, !.bodyQueue = b]
<1>1. AbortAll(t, R) = [t EXCEPT !.queue = a, !.bodyQueue = b, !.req = f]
    BY DEF AbortAll
<1> HIDE DEF a, b
<1>2. \A r \in Request : LET q == t.req[r]
                         IN  Context(failed(q)) /\ failed(q).gen = q.gen
                             /\ failed(q).sent = q.sent
    BY Zenon, ContextFields DEF Shape
<1>3. f = [r \in Request |-> f[r]]
      /\ \A r \in Request : Context(f[r]) /\ f[r].gen = t.req[r].gen /\ f[r].sent = t.req[r].sent
    BY Zenon, <1>2 DEF Shape
<1> HIDE DEF f
<1>4. Kept(t, v)
    BY <1>3, RequestsKept
<1>5. Kept(v, u)
  <2>1. Shape(v)
      BY <1>4 DEF Kept
  <2> HIDE DEF v
  <2> QED BY Zenon, <2>1, QueuesKept
<1>7. AbortAll(t, R) = u
    BY Zenon, <1>1 DEF Shape
<1> HIDE DEF u, v
<1> QED BY <1>4, <1>5, <1>7, KeptTrans

\* The barrier, opened or failed.
LEMMA BarrierKept ==
    ASSUME NEW t, Shape(t) PROVE Kept(t, OpenBarrier(t)) /\ Kept(t, FailBarrier(t))
<1> DEFINE moved(q, x) == [q EXCEPT !.pc = x]
           f == [r \in Request |->
                    CASE t.req[r].pc = "barrier" -> moved(t.req[r], "admit")
                      [] t.req[r].pc = "fetchwait" -> moved(t.req[r], "dispatch")
                      [] OTHER -> t.req[r]]
           g == [r \in Request |->
                    IF t.req[r].pc \in Barred THEN moved(t.req[r], "failing")
                                              ELSE t.req[r]]
<1>1. \A r \in Request : \A x :
        LET q == t.req[r]
        IN  Context(moved(q, x)) /\ moved(q, x).gen = q.gen /\ moved(q, x).sent = q.sent
    BY Zenon, ContextFields DEF Shape
<1>2. OpenBarrier(t) = [t EXCEPT !.req = f] /\ FailBarrier(t) = [t EXCEPT !.req = g]
    BY DEF OpenBarrier, FailBarrier
<1> HIDE DEF moved
<1>3. f = [r \in Request |-> f[r]]
      /\ \A r \in Request : Context(f[r]) /\ f[r].gen = t.req[r].gen /\ f[r].sent = t.req[r].sent
    BY <1>1 DEF Shape
<1>4. g = [r \in Request |-> g[r]]
      /\ \A r \in Request : Context(g[r]) /\ g[r].gen = t.req[r].gen /\ g[r].sent = t.req[r].sent
    BY <1>1 DEF Shape
<1> HIDE DEF f, g
<1> QED BY <1>2, <1>3, <1>4, RequestsKept

-----------------------------------------------------------------------------
(***************************************************************************)
(* The functions that may dispatch, and the actions.                       *)
(***************************************************************************)
LEMMA KeptSound == ASSUME NEW t, NEW u, Sound(t), Kept(t, u) PROVE Sound(u)
BY DEF Sound, Kept, Owned

LEMMA SoundKept == ASSUME NEW t, Sound(t) PROVE Shape(t)
BY DEF Sound

\* A permit or a reader's lease, at once or after a wait.
LEMMA AcquireSound ==
    ASSUME NEW t, Sound(t), NEW r \in Request, NEW queued, NEW granted
    PROVE  Sound(acquire(t, r, queued, granted)) /\ Sound(acquireBodyReader(t, r))
<1> DEFINE q == [t.req[r] EXCEPT !.permit = TRUE, !.pc = granted]
           p == [t.req[r] EXCEPT !.body = TRUE, !.pc = "reading"]
           a == [t EXCEPT !.req[r].permit = TRUE, !.req[r].pc = granted]
           b == [t EXCEPT !.req[r].body = TRUE, !.req[r].pc = "reading"]
           u == Move(t, r, queued)
           v == Move(t, r, "bodyqueue")
           c == [u EXCEPT !.queue = Append(u.queue, r)]
           d == [v EXCEPT !.bodyQueue = Append(v.bodyQueue, r)]
<1>1. Shape(t)
    BY SoundKept
<1>2. Context(q) /\ q.gen = t.req[r].gen /\ q.sent = t.req[r].sent
      /\ Context(p) /\ p.gen = t.req[r].gen /\ p.sent = t.req[r].sent
    BY Zenon, <1>1, ContextFields DEF Shape
<1>3. a = [t EXCEPT !.req[r] = q] /\ b = [t EXCEPT !.req[r] = p]
    BY Zenon, <1>1 DEF Shape, Context
<1>4. Sound(a) /\ Sound(b)
  <2> HIDE DEF p, q, a, b
  <2>1. Kept(t, a) /\ Kept(t, b)
      BY <1>1, <1>2, <1>3, FieldsKept
  <2> QED BY <2>1, KeptSound
<1>5. Sound(Finish(t, r))
    BY <1>1, FinishKept, KeptSound
<1>6. Sound(c)
  <2>1. Kept(t, u) /\ Shape(u)
      BY <1>1, MoveKept DEF Kept
  <2> HIDE DEF u
  <2>2. Kept(u, c)
      BY ZenonT(30), <2>1, QueueKept
  <2> HIDE DEF c
  <2> QED BY <2>1, <2>2, KeptSound
<1>7. Sound(d)
  <2>1. Kept(t, v) /\ Shape(v)
      BY <1>1, MoveKept DEF Kept
  <2> HIDE DEF v
  <2>2. Kept(v, d)
      BY Zenon, <2>1, QueueKept
  <2> HIDE DEF d
  <2> QED BY <2>1, <2>2, KeptSound
<1>8. acquire(t, r, queued, granted) \in {Finish(t, r), a, c}
    BY DEF acquire
<1>9. acquireBodyReader(t, r) \in {Finish(t, r), b, d}
    BY DEF acquireBodyReader
<1> HIDE DEF a, b, c, d
<1> QED BY SMTT(30), <1>4, <1>5, <1>6, <1>7, <1>8, <1>9

\* A dispatch ties the request to the current generation, or finds it tied.
LEMMA DispatchedSound ==
    ASSUME NEW t, Sound(t), NEW r \in Request,
           t.req[r].gen = NoGeneration \/ Mine(t, r)
    PROVE  Sound(dispatched(t, r))
<1> DEFINE u == dispatched(t, r)
<1>1. Shape(u) /\ u.generation = t.generation
    BY ZenonT(30) DEF Sound, Shape, Context, dispatched
<1>2. \A x \in Request : x # r => u.req[x] = t.req[x]
    BY DEF Sound, Shape, dispatched
<1>3. /\ u.req[r].gen = IF t.req[r].gen = NoGeneration THEN t.generation ELSE t.req[r].gen
      /\ u.req[r].sent = t.req[r].sent \cup {t.generation}
    BY DEF Sound, Shape, Context, dispatched
<1>4. u.req[r].gen = t.generation /\ t.req[r].sent \subseteq {t.generation}
    BY <1>3 DEF Sound, Owned, Mine, NoGeneration
<1>5. Owned(u.req[r])
    BY <1>3, <1>4 DEF Sound, Owned, NoGeneration
<1> HIDE DEF u
<1> QED BY <1>1, <1>2, <1>5 DEF Sound, u

LEMMA WaitForServingSound ==
    ASSUME NEW t, Sound(t), NEW r \in Request, NEW passed, NEW barred,
           t.req[r].gen = NoGeneration \/ Mine(t, r) => Sound(passed)
    PROVE  Sound(waitForServing(t, r, passed, barred))
<1>1. Sound(Finish(t, r)) /\ Sound(Move(t, r, barred))
    BY SoundKept, FinishKept, MoveKept, KeptSound
<1> QED BY <1>1 DEF waitForServing

LEMMA FetchSound ==
    ASSUME NEW t, Sound(t), NEW r \in Request PROVE Sound(fetchUpstream(t, r))
<1>1. Sound(Finish(t, r))
    BY SoundKept, FinishKept, KeptSound
<1>2. Sound(waitForServing(t, r, dispatched(t, r), "fetchwait"))
    BY DispatchedSound, WaitForServingSound
<1> QED BY <1>1, <1>2 DEF fetchUpstream

\* Every step keeps requests with their generation.
LEMMA HandlerSound ==
    ASSUME Inv, NEW r \in Request,
           Arrive(r) \/ Handle(r) \/ Fail(r) \/ Aborts(r)
    PROVE  Inv'
<1> SUFFICES Sound(s')
    BY DEF Inv, Sound, Shape, Context, Owned
<1>0. Sound(s) /\ Shape(s)
    BY SoundKept DEF Inv
<1>m. \A pc : Sound(Move(s, r, pc))
    BY <1>0, MoveKept, KeptSound
<1>f. Sound(Finish(s, r))
    BY <1>0, FinishKept, KeptSound
<1>r. Sound(release(s, r)) /\ Shape(release(s, r))
    BY <1>0, ReleaseKept, KeptSound DEF Kept
<1>u. \A x : Sound([s EXCEPT !.req[r].attempt = x])
    BY Zenon, <1>0, FieldKept, KeptSound
<1>1. CASE Arrive(r)
    BY <1>1, <1>0, <1>m, WaitForServingSound DEF Arrive
<1>2. CASE Admit(r)
    BY <1>2, <1>0, <1>f, AcquireSound DEF Admit, bodyPlan
<1>3. CASE ReadBody(r)
  <2> DEFINE u == release(s, r)
  <2>1. Sound(Finish(u, r)) /\ Sound(acquireBodyReader(u, r))
      BY <1>r, FinishKept, KeptSound, AcquireSound
  <2> QED BY <1>3, <2>1 DEF ReadBody, bodyPlan
<1>4. CASE BodyRead(r)
    BY ZenonT(30), <1>4, <1>0, <1>u, AcquireSound, FetchSound DEF BodyRead
<1>5. CASE Attempt(r)
    BY ZenonT(30), <1>5, <1>f, <1>u, FetchSound DEF Attempt
<1>6. CASE Dispatch(r)
    BY <1>6, <1>0, <1>f, FetchSound DEF Dispatch
<1>7. \A pc : Sound(Move(release(s, r), r, pc))
    BY <1>r, MoveKept, KeptSound
<1>8. CASE Respond(r)
    BY <1>8, <1>m, <1>7 DEF Respond
<1>9. CASE Recover(r)
    BY <1>9, <1>m, <1>7 DEF Recover, planned
<1>10. CASE Wake(r)
    BY <1>10, <1>m, AcquireSound DEF Wake
<1>11. CASE End(r)
    BY <1>11, <1>f DEF End
<1>12. CASE Fail(r)
    BY <1>12, <1>m DEF Fail
<1>13. CASE Aborts(r)
    BY <1>13, <1>0, AbortKept, KeptSound DEF Aborts
<1> QED BY SMTT(30), <1>1, <1>2, <1>3, <1>4, <1>5, <1>6, <1>8, <1>9, <1>10, <1>11, <1>12, <1>13
        DEF Handle, Resume, Event

LEMMA LifecycleSound == ASSUME Inv, Lifecycle PROVE Inv'
<1> SUFFICES Sound(s')
    BY DEF Inv, Sound, Shape, Context, Owned
<1>0. Sound(s) /\ Shape(s)
    BY SoundKept DEF Inv
<1>1. CASE beginRecycle
  <2> DEFINE u == [s EXCEPT !.lifecycle = "draining", !.recycles = @ + 1]
  <2>1. Kept(s, u) /\ Shape(u)
      BY Zenon, <1>0 DEF Kept, Shape
  <2>2. s' = checkRecycle(u)
      BY <1>1 DEF beginRecycle
  <2> HIDE DEF u
  <2> QED BY SMTT(30), <1>0, <2>1, <2>2, CheckRecycleKept, KeptTrans, KeptSound
<1>2. CASE RecycleTimer
  <2> DEFINE u == AbortAll(s, {r \in Request :
                    Live(s, r) /\ ~s.req[r].aborted /\ s.req[r].gen # NoGeneration})
  <2>1. s' = [u EXCEPT !.lifecycle = "absent"]
      BY <1>2 DEF RecycleTimer
  <2>2. Kept(s, u) /\ Shape(u)
      BY <1>0, AbortAllKept DEF Kept
  <2> HIDE DEF u
  <2> QED BY ZenonT(30), <1>0, <2>1, <2>2, LifeKept, KeptTrans, KeptSound
<1>3. CASE attachReplacement
  <2>1. Kept(s, s')
      BY Zenon, <1>3, <1>0 DEF attachReplacement, Kept, Shape
  <2> QED BY <1>0, <2>1, KeptSound
<1>4. CASE Verified
  <2> DEFINE u == [s EXCEPT !.attaching = FALSE]
             v == [u EXCEPT !.lifecycle = "serving", !.generation = @ + 1]
             w == OpenBarrier(v)
             x == drainQueue(w)
  <2>1. Sound(u)
    <3>1. Kept(s, u)
        BY Zenon, <1>0 DEF Kept, Shape
    <3> QED BY <1>0, <3>1, KeptSound
  <2>2. s' \in {u, drainBodyReaderQueue(x)}
      BY <1>4 DEF Verified
  <2>3. Sound(v) /\ Shape(v)
    <3> HIDE DEF u
    <3>1. Shape(v) /\ v.req = u.req /\ v.generation = u.generation + 1
        BY Zenon, <2>1 DEF Sound, Shape
    <3> QED BY <2>1, <3>1 DEF Sound
  <2> HIDE DEF u, v
  <2>4. Kept(v, w) /\ Shape(w)
      BY <2>3, BarrierKept DEF Kept
  <2> HIDE DEF w
  <2>5. Kept(w, x) /\ Shape(x)
      BY <2>4, DrainQueueKept DEF Kept
  <2> HIDE DEF x
  <2>6. Kept(x, drainBodyReaderQueue(x))
      BY <2>5, DrainBodyKept
  <2> QED BY SMTT(30), <2>1, <2>2, <2>3, <2>4, <2>5, <2>6, KeptSound
<1>5. CASE shutdown
  <2> DEFINE t == [s EXCEPT !.allow = s.lifecycle = "serving", !.lifecycle = "shutdown"]
             R == {r \in Request : Live(t, r) /\ ~t.req[r].aborted
                                        /\ t.req[r].gen = NoGeneration}
             u == IF t.allow THEN t ELSE AbortAll(t, R)
             v == FailBarrier(u)
             w == drainQueue(v)
  <2>1. s' = drainBodyReaderQueue(w)
      BY <1>5 DEF shutdown
  <2>2. Kept(s, t) /\ Shape(t)
      BY Zenon, <1>0 DEF Kept, Shape
  <2> HIDE DEF t, R
  <2>3. Kept(t, u) /\ Shape(u)
      BY SMTT(30), <2>2, AbortAllKept, KeptRefl DEF Kept
  <2> HIDE DEF u
  <2>4. Kept(u, v) /\ Shape(v)
      BY SMTT(30), <2>3, BarrierKept DEF Kept
  <2> HIDE DEF v
  <2>5. Kept(v, w) /\ Shape(w)
      BY <2>4, DrainQueueKept DEF Kept
  <2> HIDE DEF w
  <2>6. Kept(w, s')
      BY <2>1, <2>5, DrainBodyKept
  <2> QED BY SMTT(30), <1>0, <2>2, <2>3, <2>4, <2>5, <2>6, KeptSound
<1> QED BY SMTT(30), <1>1, <1>2, <1>3, <1>4, <1>5 DEF Lifecycle

-----------------------------------------------------------------------------
\* The inductive invariant: what a request was sent to is the generation it
\* belongs to (context.generation, set by the first dispatch).
THEOREM Invariance == Spec => []Inv
<1>1. Init => Inv
  <2> SUFFICES ASSUME Init PROVE Sound(s)
      BY DEF Inv
  <2>1. Shape(s) /\ s.generation = 1
      BY Zenon DEF Init, Shape, Context
  <2>2. \A r \in Request : s.req[r].gen = NoGeneration /\ s.req[r].sent = {}
      BY DEF Init
  <2> QED BY <2>1, <2>2 DEF Sound, Owned
<1>2. Inv /\ [Next]_vars => Inv'
  <2>1. Inv /\ Next => Inv'
      BY HandlerSound, LifecycleSound DEF Next
  <2>2. Inv /\ UNCHANGED vars => Inv'
      BY DEF Inv, vars, Sound, Shape, Context, Owned
  <2> QED BY <2>1, <2>2
<1> QED BY <1>1, <1>2, PTL DEF Spec

\* No request is ever sent to upstreams of two generations, however many
\* requests, retries, recycles and aborts interleave: dispatched work owns the
\* generation of its first fetch and is never replayed on a replacement
\* (waitForServing and fetchUpstream).
THEOREM NeverReplayed == Spec => []NoReplayOnReplacement
<1>1. Inv => NoReplayOnReplacement
  <2> SUFFICES ASSUME Inv, NEW r \in Request PROVE Cardinality(s.req[r].sent) <= 1
      BY DEF NoReplayOnReplacement
  <2> DEFINE g == s.req[r].gen
             S == s.req[r].sent
  <2>1. S \subseteq {g}
      BY DEF Inv, Sound, Owned
  <2> HIDE DEF S, g
  <2>2. IsFiniteSet({g}) /\ Cardinality({g}) = 1
      BY Zenon, FS_Singleton
  <2>3. Cardinality(S) <= Cardinality({g})
      BY <2>1, <2>2, FS_Subset
  <2> QED BY <2>2, <2>3 DEF S
<1> QED BY <1>1, Invariance, PTL

-----------------------------------------------------------------------------
(***************************************************************************)
(* Induction, and the bytes a set of readers has reserved.                 *)
(***************************************************************************)

\* Every nonempty set of natural numbers has a least element.
LEMMA NatMin ==
    ASSUME NEW T, T \subseteq Nat, T # {}
    PROVE  \E m \in T : \A n \in T : m <= n
<1> DEFINE R == {ss \in Nat \X Nat : ss[1] < ss[2]}
<1>1. IsWellFoundedOn(R, Nat)
    BY NatLessThanWellFounded DEF OpToRel
<1> HIDE DEF R
<1>2. PICK x \in T : \A y \in T : ~ (<<y, x>> \in R)
    BY Zenon, <1>1, WFMin
<1>3. \A y \in T : x <= y
    <2> SUFFICES ASSUME NEW y \in T PROVE x <= y
        OBVIOUS
    <2>1. x \in Nat /\ y \in Nat
        OBVIOUS
    <2>2. <<y, x>> \in Nat \X Nat /\ <<y, x>>[1] = y /\ <<y, x>>[2] = x
        BY <2>1
    <2>3. ~ (<<y, x>>[1] < <<y, x>>[2])
        BY <1>2, <2>2 DEF R
    <2> QED BY <2>1, <2>2, <2>3
<1> QED BY <1>3

\* Induction, for a set of numbers.
LEMMA Induct ==
    ASSUME NEW S, 0 \in S, \A n \in Nat : n \in S => n + 1 \in S
    PROVE  Nat \subseteq S
<1> SUFFICES ASSUME Nat \ S # {} PROVE FALSE
    OBVIOUS
<1>1. PICK m \in Nat \ S : \A n \in Nat \ S : m <= n
    BY Zenon, Nat \ S \subseteq Nat, NatMin
<1>2. m # 0 /\ m - 1 \in Nat
    BY <1>1
<1>3. m - 1 \in S
    BY <1>1, <1>2
<1>4. (m - 1) + 1 \in S
    BY <1>2, <1>3
<1> QED BY <1>1, <1>2, <1>4

Pick(z) == CHOOSE x \in z : TRUE
Sums(f, S) == CHOOSE g : g = [z \in SUBSET S |->
                 IF z = {} THEN 0 ELSE f[Pick(z)] + g[z \ {Pick(z)}]]

LEMMA ReservedIsSums == ASSUME NEW R PROVE Reserved(R) = Sums(Weight, R)[R]
BY DEF Reserved, FoldFunctionOnSet, MapThenFoldSet, Sums, Pick

LEMMA Subsets ==
    ASSUME NEW S, IsFiniteSet(S), NEW z \in SUBSET S
    PROVE  /\ IsFiniteSet(z) /\ Cardinality(z) \in Nat /\ Cardinality(z) <= Cardinality(S)
           /\ Cardinality(z) = 0 <=> z = {}
           /\ \A x \in z : z \ {x} \in SUBSET S /\ Cardinality(z \ {x}) = Cardinality(z) - 1
<1>1. IsFiniteSet(z) /\ Cardinality(z) <= Cardinality(S)
    BY FS_Subset
<1>2. Cardinality(z) \in Nat /\ (Cardinality(z) = 0 <=> z = {})
    BY <1>1, FS_CardinalityType, FS_EmptySet
<1>3. \A x \in z : Cardinality(z \ {x}) = Cardinality(z) - 1
    BY <1>1, FS_RemoveElement
<1> QED BY <1>1, <1>2, <1>3

\* The recursion by which the sum is defined has a solution on a finite set.
LEMMA SumsExist ==
    ASSUME NEW S, IsFiniteSet(S), NEW f
    PROVE  Sums(f, S) = [z \in SUBSET S |->
                           IF z = {} THEN 0 ELSE f[Pick(z)] + Sums(f, S)[z \ {Pick(z)}]]
<1> DEFINE Upto(n) == {z \in SUBSET S : Cardinality(z) <= n}
           Body(g, z) == IF z = {} THEN 0 ELSE f[Pick(z)] + g[z \ {Pick(z)}]
           Good == {n \in Nat : \E g : \A z \in Upto(n) : g[z] = Body(g, z)}
<1>1. 0 \in Good
    <2> DEFINE g == [z \in Upto(0) |-> 0]
    <2>1. \A z \in Upto(0) : z = {}
        BY Subsets
    <2>2. \A z \in Upto(0) : g[z] = Body(g, z)
        BY <2>1
    <2> QED BY Zenon, <2>2
<1>2. ASSUME NEW n \in Nat, n \in Good PROVE n + 1 \in Good
    <2>1. PICK g : \A z \in Upto(n) : g[z] = Body(g, z)
        BY Zenon, <1>2
    <2> DEFINE h == [z \in Upto(n + 1) |-> Body(g, z)]
    <2>2. \A z \in Upto(n) : z \in Upto(n + 1)
        BY Subsets
    <2>3. \A z \in Upto(n) : h[z] = g[z]
        BY Zenon, <2>1, <2>2
    <2>4. \A z \in Upto(n + 1) : z # {} => z \ {Pick(z)} \in Upto(n)
        <3> SUFFICES ASSUME NEW z \in Upto(n + 1), z # {} PROVE z \ {Pick(z)} \in Upto(n)
            OBVIOUS
        <3>1. Pick(z) \in z
            BY DEF Pick
        <3>2. z \in SUBSET S /\ Cardinality(z) <= n + 1
            OBVIOUS
        <3> HIDE DEF Upto
        <3>3. Cardinality(z) \in Nat
              /\ z \ {Pick(z)} \in SUBSET S /\ Cardinality(z \ {Pick(z)}) = Cardinality(z) - 1
            <4> DEFINE x == Pick(z)
            <4> HIDE DEF x
            <4>1. /\ Cardinality(z) \in Nat
                  /\ \A y \in z : z \ {y} \in SUBSET S /\ Cardinality(z \ {y}) = Cardinality(z) - 1
                BY Zenon, <3>2, Subsets
            <4>2. x \in z => z \ {x} \in SUBSET S /\ Cardinality(z \ {x}) = Cardinality(z) - 1
                BY Zenon, <4>1
            <4> QED BY Zenon, <3>1, <4>1, <4>2 DEF x
        <3> QED BY <3>2, <3>3 DEF Upto
    <2>5. \A z \in Upto(n + 1) : h[z] = Body(h, z)
        BY Zenon, <2>3, <2>4
    <2> HIDE DEF h
    <2>6. \E k : \A z \in Upto(n + 1) : k[z] = Body(k, z)
        BY Zenon, <2>5
    <2> HIDE DEF Upto, Body
    <2> QED BY <2>6
<1>3. Cardinality(S) \in Good
    <2> HIDE DEF Good
    <2> QED BY <1>1, <1>2, Induct, FS_CardinalityType
<1>4. Upto(Cardinality(S)) = SUBSET S
    BY Subsets
<1>5. PICK g : \A z \in SUBSET S : g[z] = Body(g, z)
    BY Zenon, <1>3, <1>4
<1> DEFINE k == [z \in SUBSET S |-> Body(g, z)]
<1>6. \A z \in SUBSET S : k[z] = Body(k, z)
    BY Zenon, <1>5
<1>7. k = [z \in SUBSET S |-> Body(k, z)]
    BY Zenon, <1>6
<1> HIDE DEF k
<1>8. \E x : x = [z \in SUBSET S |-> Body(x, z)]
    BY Zenon, <1>7
<1> QED BY Zenon, <1>8 DEF Sums

LEMMA SumsUnfold ==
    ASSUME NEW S, IsFiniteSet(S), NEW f, NEW z \in SUBSET S
    PROVE  /\ Sums(f, S)[{}] = 0
           /\ z # {} => Sums(f, S)[z] = f[Pick(z)] + Sums(f, S)[z \ {Pick(z)}]
<1> DEFINE g == Sums(f, S)
           Body(t) == IF t = {} THEN 0 ELSE f[Pick(t)] + g[t \ {Pick(t)}]
<1>1. g = [t \in SUBSET S |-> Body(t)]
    BY Zenon, SumsExist
<1> HIDE DEF g
<1>2. \A t \in SUBSET S : g[t] = Body(t)
    BY Zenon, <1>1
<1>3. {} \in SUBSET S
    OBVIOUS
<1> QED BY Zenon, <1>2, <1>3 DEF g

AnyOrder(f, S) ==
    \A z \in SUBSET S : /\ Sums(f, S)[z] \in Nat
                        /\ \A y \in z : Sums(f, S)[z] = f[y] + Sums(f, S)[z \ {y}]

\* The sum does not depend on the order in which the elements are taken.
LEMMA SumsAnyOrder ==
    ASSUME NEW S, IsFiniteSet(S), NEW f, \A x \in S : f[x] \in Nat
    PROVE  AnyOrder(f, S)
<1> DEFINE g == Sums(f, S)
           Fine(z) == g[z] \in Nat /\ \A y \in z : g[z] = f[y] + g[z \ {y}]
           Good == {n \in Nat : \A z \in SUBSET S : Cardinality(z) <= n => Fine(z)}
<1>1. g[{}] = 0 /\ \A z \in SUBSET S : z # {} => g[z] = f[Pick(z)] + g[z \ {Pick(z)}]
    BY Zenon, SumsUnfold
<1> HIDE DEF g
<1>2. 0 \in Good
    <2>1. \A z \in SUBSET S : Cardinality(z) <= 0 => z = {}
        <3> SUFFICES ASSUME NEW z \in SUBSET S, Cardinality(z) <= 0 PROVE z = {}
            OBVIOUS
        <3>1. Cardinality(z) \in Nat /\ (Cardinality(z) = 0 => z = {})
            BY Zenon, Subsets
        <3> QED BY <3>1
    <2>2. Fine({})
        BY <1>1
    <2> QED BY Zenon, <2>1, <2>2
<1>3. ASSUME NEW n \in Nat, n \in Good PROVE n + 1 \in Good
    <2>0. \A z \in SUBSET S : Cardinality(z) <= n => Fine(z)
        BY Zenon, <1>3
    <2> HIDE DEF Fine
    <2> SUFFICES ASSUME NEW z \in SUBSET S, Cardinality(z) <= n + 1, ~(Cardinality(z) <= n)
                 PROVE  Fine(z)
        BY <2>0
    <2> USE DEF Fine
    <2>1. z # {} /\ \A y \in z : z \ {y} \in SUBSET S /\ Cardinality(z \ {y}) <= n
        <3>1. Cardinality(z) \in Nat /\ (z = {} => Cardinality(z) = 0)
              /\ \A y \in z : z \ {y} \in SUBSET S /\ Cardinality(z \ {y}) = Cardinality(z) - 1
            BY Zenon, Subsets
        <3> QED BY <3>1
    <2>2. \A y \in z : Fine(z \ {y})
        BY Zenon, <2>0, <2>1
    <2> DEFINE x == Pick(z)
    <2>3. x \in z
        BY Zenon, <2>1 DEF Pick
    <2>4. g[z] = f[x] + g[z \ {x}]
        BY Zenon, <1>1, <2>1
    <2> HIDE DEF x
    <2>5. f[x] \in Nat /\ g[z \ {x}] \in Nat
        BY Zenon, <2>2, <2>3
    <2>6. g[z] \in Nat
        BY <2>4, <2>5
    <2>7. ASSUME NEW y \in z, y # x PROVE g[z] = f[y] + g[z \ {y}]
        <3>1. y \in z \ {x} /\ x \in z \ {y} /\ (z \ {x}) \ {y} = (z \ {y}) \ {x}
            BY <2>3, <2>7
        <3> DEFINE rest == g[(z \ {y}) \ {x}]
        <3>2. g[z \ {x}] = f[y] + rest
            BY Zenon, <2>2, <2>3, <3>1
        <3>3. g[z \ {y}] = f[x] + rest
            BY Zenon, <2>2, <3>1
        <3>4. rest \in Nat
            <4> DEFINE t == z \ {y}
            <4>1. t \in SUBSET S /\ Cardinality(t) <= n /\ x \in t
                BY Zenon, <2>1, <3>1
            <4> HIDE DEF t
            <4>2. t \ {x} \in SUBSET S /\ Cardinality(t \ {x}) = Cardinality(t) - 1 /\ Cardinality(t) \in Nat
                BY ZenonT(30), <4>1, Subsets
            <4>3. Cardinality(t \ {x}) <= n
                BY <4>1, <4>2
            <4> QED BY Zenon, <2>0, <4>2, <4>3 DEF t
        <3> HIDE DEF rest
        <3>5. f[y] \in Nat
            OBVIOUS
        <3> QED BY <2>4, <2>5, <3>2, <3>3, <3>4, <3>5
    <2> QED BY Zenon, <2>4, <2>6, <2>7
<1>4. Cardinality(S) \in Good
    <2> HIDE DEF Good
    <2> QED BY <1>2, <1>3, Induct, FS_CardinalityType
<1>5. \A z \in SUBSET S : Cardinality(z) <= Cardinality(S)
    BY Zenon, Subsets
<1> QED BY Zenon, <1>4, <1>5 DEF g, AnyOrder

LEMMA SumsTake ==
    ASSUME NEW S, IsFiniteSet(S), NEW f, \A x \in S : f[x] \in Nat, NEW y \in S
    PROVE  Sums(f, S)[S] \in Nat /\ Sums(f, S)[S] = f[y] + Sums(f, S)[S \ {y}]
<1>1. AnyOrder(f, S)
    BY Zenon, SumsAnyOrder
<1>2. S \in SUBSET S
    OBVIOUS
<1> QED BY Zenon, <1>1, <1>2 DEF AnyOrder

SameSums(f, S, h, T) == \A z \in SUBSET T : Sums(f, S)[z] = Sums(h, T)[z]

\* It depends on the values at the elements summed alone.
LEMMA SumsAgree ==
    ASSUME NEW S, IsFiniteSet(S), NEW T \in SUBSET S, NEW f, NEW h, \A x \in T : f[x] = h[x]
    PROVE  SameSums(f, S, h, T)
<1> DEFINE a == Sums(f, S)
           b == Sums(h, T)
           Good == {n \in Nat : \A z \in SUBSET T : Cardinality(z) <= n => a[z] = b[z]}
<1>0. IsFiniteSet(T) /\ \A z \in SUBSET T : z \in SUBSET S
    BY Zenon, FS_Subset
<1>1. a[{}] = 0 /\ \A z \in SUBSET T : z # {} => a[z] = f[Pick(z)] + a[z \ {Pick(z)}]
    BY Zenon, <1>0, SumsUnfold
<1>2. b[{}] = 0 /\ \A z \in SUBSET T : z # {} => b[z] = h[Pick(z)] + b[z \ {Pick(z)}]
    BY Zenon, <1>0, SumsUnfold
<1> HIDE DEF a, b
<1>3. 0 \in Good
    <2>1. \A z \in SUBSET T : Cardinality(z) <= 0 => z = {}
        <3> SUFFICES ASSUME NEW z \in SUBSET T, Cardinality(z) <= 0 PROVE z = {}
            OBVIOUS
        <3>1. Cardinality(z) \in Nat /\ (Cardinality(z) = 0 => z = {})
            BY Zenon, <1>0, Subsets
        <3> QED BY <3>1
    <2> QED BY Zenon, <1>1, <1>2, <2>1
<1>4. ASSUME NEW n \in Nat, n \in Good PROVE n + 1 \in Good
    <2>0. \A z \in SUBSET T : Cardinality(z) <= n => a[z] = b[z]
        BY Zenon, <1>4
    <2> SUFFICES ASSUME NEW z \in SUBSET T, Cardinality(z) <= n + 1 PROVE a[z] = b[z]
        OBVIOUS
    <2>1. CASE z = {}
        BY Zenon, <1>1, <1>2, <2>1
    <2>2. CASE z # {}
        <3> DEFINE x == Pick(z)
        <3>1. x \in z
            BY Zenon, <2>2 DEF Pick
        <3>2. a[z] = f[x] + a[z \ {x}] /\ b[z] = h[x] + b[z \ {x}]
            BY Zenon, <1>1, <1>2, <2>2
        <3> HIDE DEF x
        <3>3. Cardinality(z) \in Nat /\ z \ {x} \in SUBSET T /\ Cardinality(z \ {x}) = Cardinality(z) - 1
            BY Zenon, <1>0, <3>1, Subsets
        <3>4. Cardinality(z \ {x}) <= n
            BY <3>3
        <3> QED BY Zenon, <2>0, <3>1, <3>2, <3>3, <3>4
    <2> QED BY Zenon, <2>1, <2>2
<1>5. Cardinality(T) \in Good
    <2> HIDE DEF Good
    <2> QED BY <1>0, <1>3, <1>4, Induct, FS_CardinalityType
<1>6. \A z \in SUBSET T : Cardinality(z) <= Cardinality(T)
    BY Zenon, <1>0, Subsets
<1> QED BY Zenon, <1>5, <1>6 DEF a, b, SameSums

\* A reader that leaves takes its bytes along.
LEMMA ReservedShrinks ==
    ASSUME NEW R \in SUBSET Request, NEW r
    PROVE  Reserved(R) \in Nat /\ Reserved(R \ {r}) <= Reserved(R)
<1>1. IsFiniteSet(R) /\ \A x \in R : Weight[x] \in Nat
    BY FS_Subset, GuardAssumption
<1>2. R \in SUBSET R /\ R \ {r} \in SUBSET R /\ R \ {r} \in SUBSET (R \ {r}) /\ R \ {r} \in SUBSET Request
    OBVIOUS
<1>3. AnyOrder(Weight, R)
    BY Zenon, <1>1, SumsAnyOrder
<1>4. SameSums(Weight, R, Weight, R \ {r})
    BY Zenon, <1>1, <1>2, SumsAgree
<1>5. Sums(Weight, R)[R \ {r}] = Reserved(R \ {r}) /\ Sums(Weight, R)[R] = Reserved(R)
    BY Zenon, <1>2, <1>4, ReservedIsSums DEF SameSums
<1>6. Reserved(R) \in Nat /\ Reserved(R \ {r}) \in Nat
    BY Zenon, <1>2, <1>3, <1>5 DEF AnyOrder
<1>7. r \in R => Reserved(R) = Weight[r] + Reserved(R \ {r}) /\ Weight[r] \in Nat
    BY Zenon, <1>1, <1>2, <1>3, <1>5 DEF AnyOrder
<1>8. r \notin R => R \ {r} = R
    OBVIOUS
<1> QED BY <1>6, <1>7, <1>8

-----------------------------------------------------------------------------
(***************************************************************************)
(* What filtering a queue leaves in it: the members of G, once each, and no*)
(* more than there were.                                                   *)
(***************************************************************************)

\* Keep as the last of the queues it builds up.
KeepStep(q, G, f, i) ==
    IF i = 0 THEN <<>> ELSE IF q[i] \in G THEN Append(f[i - 1], q[i]) ELSE f[i - 1]
Keeping(q, G) == CHOOSE f : f = [i \in 0 .. Len(q) |-> KeepStep(q, G, f, i)]

LEMMA KeepIsLast == ASSUME NEW q, NEW G PROVE Keep(q, G) = Keeping(q, G)[Len(q)]
BY DEF Keep, Keeping, KeepStep

LEMMA KeepingExists ==
    ASSUME NEW q, Len(q) \in Nat, NEW G
    PROVE  \A i \in 0 .. Len(q) : Keeping(q, G)[i] = KeepStep(q, G, Keeping(q, G), i)
<1> DEFINE Good == {n \in Nat : \E f : \A i \in 0 .. n : f[i] = KeepStep(q, G, f, i)}
<1>1. 0 \in Good
    <2> DEFINE f == [i \in {0} |-> <<>>]
    <2>1. \A i \in 0 .. 0 : f[i] = KeepStep(q, G, f, i)
        BY DEF KeepStep
    <2> HIDE DEF f
    <2> QED BY <2>1
<1>2. ASSUME NEW n \in Nat, n \in Good PROVE n + 1 \in Good
    <2>1. PICK f : \A i \in 0 .. n : f[i] = KeepStep(q, G, f, i)
        BY <1>2
    <2> DEFINE h == [i \in 0 .. (n + 1) |-> KeepStep(q, G, f, i)]
    <2>2. \A i \in 0 .. n : i \in 0 .. (n + 1)
        OBVIOUS
    <2>3. \A i \in 0 .. n : h[i] = f[i]
        BY Zenon, <2>1, <2>2
    <2>4. \A i \in 0 .. (n + 1) : i # 0 => i - 1 \in 0 .. n
        OBVIOUS
    <2>5. \A i \in 0 .. (n + 1) : KeepStep(q, G, f, i) = KeepStep(q, G, h, i)
        BY Zenon, <2>3, <2>4 DEF KeepStep
    <2>6. \A i \in 0 .. (n + 1) : h[i] = KeepStep(q, G, h, i)
        BY Zenon, <2>5
    <2> HIDE DEF h
    <2>7. \E k : \A i \in 0 .. (n + 1) : k[i] = KeepStep(q, G, k, i)
        BY Zenon, <2>6
    <2> QED BY <2>7
<1>3. Len(q) \in Good
    <2> HIDE DEF Good
    <2> QED BY <1>1, <1>2, Induct
<1>4. PICK f : \A i \in 0 .. Len(q) : f[i] = KeepStep(q, G, f, i)
    BY Zenon, <1>3
<1> DEFINE k == [i \in 0 .. Len(q) |-> KeepStep(q, G, f, i)]
<1>5. \A i \in 0 .. Len(q) : k[i] = f[i] /\ (i # 0 => i - 1 \in 0 .. Len(q))
    <2>1. \A i \in 0 .. Len(q) : k[i] = f[i]
        BY Zenon, <1>4
    <2>2. \A i \in 0 .. Len(q) : i # 0 => i - 1 \in 0 .. Len(q)
        OBVIOUS
    <2> QED BY Zenon, <2>1, <2>2
<1>6. \A i \in 0 .. Len(q) : KeepStep(q, G, f, i) = KeepStep(q, G, k, i)
    BY Zenon, <1>5 DEF KeepStep
<1>7. k = [i \in 0 .. Len(q) |-> KeepStep(q, G, k, i)]
    BY Zenon, <1>6
<1> HIDE DEF k
<1>8. \E x : x = [i \in 0 .. Len(q) |-> KeepStep(q, G, x, i)]
    BY Zenon, <1>7
<1> DEFINE p == Keeping(q, G)
<1>9. p = [i \in 0 .. Len(q) |-> KeepStep(q, G, p, i)]
    BY Zenon, <1>8 DEF Keeping
<1> HIDE DEF p
<1>10. \A i \in 0 .. Len(q) : p[i] = KeepStep(q, G, p, i)
    BY Zenon, <1>9
<1> QED BY Zenon, <1>10 DEF p

LEMMA Appended ==
    ASSUME NEW T, NEW q \in Seq(T), NEW e \in T
    PROVE  LET a == Append(q, e) IN
           /\ a \in Seq(T) /\ Len(a) = Len(q) + 1 /\ Range(a) = Range(q) \cup {e}
           /\ IsInjective(q) /\ e \notin Range(q) => IsInjective(a)
<1> DEFINE a == Append(q, e)
<1>1. /\ a \in Seq(T) /\ Len(q) \in Nat /\ Len(a) = Len(q) + 1
      /\ DOMAIN q = 1 .. Len(q) /\ DOMAIN a = 1 .. Len(q) + 1
      /\ a[Len(q) + 1] = e /\ \A i \in DOMAIN q : a[i] = q[i]
    OBVIOUS
<1> HIDE DEF a
<1>2. \A i \in DOMAIN a : i = Len(q) + 1 \/ i \in DOMAIN q
    BY <1>1
<1>3. Len(q) + 1 \in DOMAIN a /\ \A i \in DOMAIN q : i \in DOMAIN a
    BY <1>1
<1>4. Range(a) = Range(q) \cup {e}
    BY Zenon, <1>1, <1>2, <1>3 DEF Range
<1>5. ASSUME IsInjective(q), e \notin Range(q) PROVE IsInjective(a)
    <2> SUFFICES ASSUME NEW i \in DOMAIN a, NEW j \in DOMAIN a, a[i] = a[j] PROVE i = j
        BY Zenon DEF IsInjective
    <2>1. \A k \in DOMAIN q : a[k] = q[k] /\ q[k] # e
        BY Zenon, <1>1, <1>5 DEF Range
    <2> QED BY Zenon, <1>1, <1>2, <1>5, <2>1 DEF IsInjective
<1> QED BY Zenon, <1>1, <1>4, <1>5 DEF a

\* Keep leaves the members of G, in a queue that is no longer and repeats nobody.
LEMMA KeepFacts ==
    ASSUME NEW T, NEW q \in Seq(T), NEW G
    PROVE  /\ Keep(q, G) \in Seq(T) /\ Len(Keep(q, G)) <= Len(q)
           /\ Range(Keep(q, G)) = Range(q) \cap G
           /\ IsInjective(q) => IsInjective(Keep(q, G))
<1> DEFINE p == Keeping(q, G)
           Upto(i) == {q[j] : j \in 1 .. i}
           Fine(i) == /\ p[i] \in Seq(T) /\ Len(p[i]) <= i
                      /\ Range(p[i]) = Upto(i) \cap G
                      /\ IsInjective(q) => IsInjective(p[i])
           Good == {n \in Nat : n <= Len(q) => Fine(n)}
<1>0. Len(q) \in Nat /\ DOMAIN q = 1 .. Len(q) /\ \A i \in 1 .. Len(q) : q[i] \in T
    OBVIOUS
<1>1. \A i \in 0 .. Len(q) : p[i] = KeepStep(q, G, p, i)
    BY Zenon, <1>0, KeepingExists
<1> HIDE DEF p
<1>2. 0 \in Good
    <2>1. p[0] = <<>>
        BY <1>0, <1>1 DEF KeepStep
    <2>2. Upto(0) = {} /\ Range(<<>>) = {} /\ IsInjective(<<>>) /\ <<>> \in Seq(T) /\ Len(<<>>) = 0
        BY DEF Range, IsInjective
    <2>3. Fine(0)
        BY <2>1, <2>2
    <2> HIDE DEF Fine
    <2> QED BY <2>3
<1>3. ASSUME NEW n \in Nat, n \in Good PROVE n + 1 \in Good
    <2> HIDE DEF Fine
    <2> SUFFICES ASSUME n + 1 <= Len(q) PROVE Fine(n + 1)
        OBVIOUS
    <2> USE DEF Fine
    <2>1. Fine(n)
        BY <1>0, <1>3
    <2>2. n + 1 \in 1 .. Len(q) /\ n + 1 # 0 /\ (n + 1) - 1 = n /\ n + 1 \in 0 .. Len(q)
        BY <1>0
    <2> DEFINE e == q[n + 1]
    <2>3. e \in T /\ Upto(n + 1) = Upto(n) \cup {e}
        <3>1. e \in T
            BY Zenon, <1>0, <2>2
        <3>2. \A j : j \in 1 .. (n + 1) <=> j \in 1 .. n \/ j = n + 1
            OBVIOUS
        <3> QED BY Zenon, <3>1, <3>2
    <2>4. p[n + 1] = IF e \in G THEN Append(p[n], e) ELSE p[n]
        BY Zenon, <1>1, <2>2 DEF KeepStep
    <2>5. IsInjective(q) => e \notin Upto(n)
        <3>1. \A j \in 1 .. n : j \in 1 .. Len(q) /\ j # n + 1
            BY <1>0
        <3> QED BY Zenon, <1>0, <2>2, <3>1 DEF IsInjective
    <2> HIDE DEF e, Upto
    <2>6. CASE e \in G
        <3> DEFINE a == Append(p[n], e)
        <3>1. /\ a \in Seq(T) /\ Len(a) = Len(p[n]) + 1 /\ Range(a) = Range(p[n]) \cup {e}
              /\ IsInjective(p[n]) /\ e \notin Range(p[n]) => IsInjective(a)
            BY Zenon, <2>1, <2>3, Appended
        <3> HIDE DEF a
        <3>2. Len(p[n]) \in Nat /\ Len(p[n]) <= n
            BY <2>1
        <3>3. Len(a) <= n + 1
            BY <3>1, <3>2
        <3>4. Range(a) = Upto(n + 1) \cap G
            BY Zenon, <2>1, <2>3, <2>6, <3>1
        <3>5. IsInjective(q) => IsInjective(a)
            BY Zenon, <2>1, <2>5, <3>1
        <3>6. p[n + 1] = a
            BY Zenon, <2>4, <2>6 DEF a
        <3> QED BY Zenon, <3>1, <3>3, <3>4, <3>5, <3>6
    <2>7. CASE e \notin G
        <3>1. p[n + 1] = p[n]
            BY Zenon, <2>4, <2>7
        <3>2. Len(p[n]) <= n + 1
            BY <2>1
        <3>3. Range(p[n]) = Upto(n + 1) \cap G
            BY Zenon, <2>1, <2>3, <2>7
        <3> QED BY Zenon, <2>1, <3>1, <3>2, <3>3
    <2> QED BY Zenon, <2>6, <2>7
<1>4. Len(q) \in Good
    <2> HIDE DEF Good
    <2> QED BY <1>0, <1>2, <1>3, Induct
<1>5. Fine(Len(q))
    BY <1>0, <1>4
<1>6. Upto(Len(q)) = Range(q)
    BY Zenon, <1>0 DEF Range
<1> QED BY Zenon, <1>5, <1>6, KeepIsLast DEF p

LEMMA KeepAll ==
    ASSUME NEW T, NEW q \in Seq(T), NEW G, Range(q) \subseteq G
    PROVE  Keep(q, G) = q
<1> DEFINE p == Keeping(q, G)
           Fine(i) == /\ p[i] \in Seq(T) /\ Len(p[i]) = i
                      /\ \A j \in 1 .. i : p[i][j] = q[j]
           Good == {n \in Nat : n <= Len(q) => Fine(n)}
<1>0. Len(q) \in Nat /\ DOMAIN q = 1 .. Len(q) /\ \A i \in 1 .. Len(q) : q[i] \in T
    OBVIOUS
<1>1. \A i \in 0 .. Len(q) : p[i] = KeepStep(q, G, p, i)
    BY Zenon, <1>0, KeepingExists
<1>g. \A i \in 1 .. Len(q) : q[i] \in G
    BY Zenon, <1>0 DEF Range
<1> HIDE DEF p
<1>2. 0 \in Good
    <2>1. p[0] = <<>>
        BY <1>0, <1>1 DEF KeepStep
    <2>2. <<>> \in Seq(T) /\ Len(<<>>) = 0 /\ 1 .. 0 = {}
        OBVIOUS
    <2>3. Fine(0)
        BY <2>1, <2>2
    <2> HIDE DEF Fine
    <2> QED BY <2>3
<1>3. ASSUME NEW n \in Nat, n \in Good PROVE n + 1 \in Good
    <2> HIDE DEF Fine
    <2> SUFFICES ASSUME n + 1 <= Len(q) PROVE Fine(n + 1)
        OBVIOUS
    <2>1. Fine(n)
        BY <1>0, <1>3
    <2>2. n + 1 \in 1 .. Len(q) /\ n + 1 # 0 /\ (n + 1) - 1 = n /\ n + 1 \in 0 .. Len(q)
        BY <1>0
    <2> DEFINE e == q[n + 1]
               a == Append(p[n], e)
    <2>3. p[n + 1] = a /\ e \in T
        BY Zenon, <1>0, <1>1, <1>g, <2>2 DEF KeepStep
    <2>4. /\ a \in Seq(T) /\ Len(a) = n + 1 /\ a[n + 1] = e
          /\ \A j \in 1 .. n : a[j] = p[n][j]
        BY <2>1, <2>3 DEF Fine
    <2>5. \A j \in 1 .. (n + 1) : j = n + 1 \/ j \in 1 .. n
        OBVIOUS
    <2> HIDE DEF a
    <2>6. \A j \in 1 .. (n + 1) : a[j] = q[j]
        BY Zenon, <2>1, <2>4, <2>5 DEF Fine
    <2> QED BY Zenon, <2>3, <2>4, <2>6 DEF Fine
<1>4. Len(q) \in Good
    <2> HIDE DEF Good
    <2> QED BY <1>0, <1>2, <1>3, Induct
<1>5. Fine(Len(q))
    BY <1>0, <1>4
<1>6. p[Len(q)] = q
    BY <1>0, <1>5
<1> QED BY Zenon, <1>6, KeepIsLast DEF p

\* A queue of the requests in R, each once.
Line(q, R) ==
    q \in Seq(Request) /\ IsInjective(q) /\ Range(q) = R /\ Len(q) <= MaxQueue

LEMMA LineKeep ==
    ASSUME NEW q, NEW R, Line(q, R), NEW G
    PROVE  Line(Keep(q, G), R \cap G) /\ (R \subseteq G => Keep(q, G) = q)
<1>1. /\ Keep(q, G) \in Seq(Request) /\ Len(Keep(q, G)) <= Len(q)
      /\ Range(Keep(q, G)) = Range(q) \cap G
      /\ IsInjective(q) => IsInjective(Keep(q, G))
    BY Zenon, KeepFacts DEF Line
<1>2. Len(Keep(q, G)) \in Nat /\ Len(q) \in Nat /\ MaxQueue \in Nat
    BY <1>1, GuardAssumption DEF Line
<1>3. Len(Keep(q, G)) <= MaxQueue
    BY <1>1, <1>2 DEF Line
<1> QED BY Zenon, <1>1, <1>3, KeepAll DEF Line

LEMMA LineAppend ==
    ASSUME NEW q, NEW R, Line(q, R), NEW r \in Request, r \notin R, ~(Len(q) >= MaxQueue)
    PROVE  Line(Append(q, r), R \cup {r}) /\ Append(q, r) # <<>>
<1> DEFINE a == Append(q, r)
<1>1. /\ a \in Seq(Request) /\ Len(a) = Len(q) + 1 /\ Range(a) = Range(q) \cup {r}
      /\ IsInjective(q) /\ r \notin Range(q) => IsInjective(a)
    BY Zenon, Appended DEF Line
<1>2. Len(q) \in Nat /\ MaxQueue \in Nat
    BY GuardAssumption DEF Line
<1> HIDE DEF a
<1>3. Len(a) <= MaxQueue /\ a # <<>>
    BY <1>1, <1>2
<1> QED BY Zenon, <1>1, <1>3 DEF Line, a

LEMMA LineEmpty ==
    ASSUME NEW q, NEW R, Line(q, R)
    PROVE  q = <<>> <=> R = {}
<1>1. q \in Seq(Request)
    BY DEF Line
<1>2. q # <<>> => 1 \in DOMAIN q
    BY <1>1
<1>3. DOMAIN <<>> = {}
    OBVIOUS
<1> QED BY Zenon, <1>2, <1>3 DEF Line, Range

\* The first n of a queue, and what is left of it.
LEMMA LineFirst ==
    ASSUME NEW q, NEW R, Line(q, R), NEW n \in 0 .. Len(q)
    PROVE  LET g == {q[i] : i \in 1 .. n}
               rest == SubSeq(q, n + 1, Len(q))
           IN  /\ Line(rest, R \ g) /\ g \subseteq R
               /\ rest # <<>> => /\ n + 1 \in 1 .. Len(q)
                                 /\ {q[i] : i \in 1 .. (n + 1)} = g \cup {Head(rest)}
<1> DEFINE g == {q[i] : i \in 1 .. n}
           rest == SubSeq(q, n + 1, Len(q))
<1>0. Len(q) \in Nat /\ n \in Nat /\ n <= Len(q) /\ DOMAIN q = 1 .. Len(q)
      /\ \A i \in 1 .. Len(q) : q[i] \in Request
    BY DEF Line
<1>a. /\ rest \in Seq(Request) /\ Len(rest) = IF n + 1 <= Len(q) THEN Len(q) - (n + 1) + 1 ELSE 0
      /\ \A i \in 1 .. Len(q) - (n + 1) + 1 : rest[i] = q[(n + 1) + i - 1]
    <2>1. n + 1 \in Int /\ Len(q) \in Int /\ \A j \in (n + 1) .. Len(q) : q[j] \in Request
        BY <1>0
    <2> DEFINE m == n + 1
               l == Len(q)
    <2> HIDE DEF m, l
    <2>2. m \in Int /\ l \in Int /\ \A j \in m .. l : q[j] \in Request
        BY Zenon, <2>1 DEF m, l
    <2>3. /\ SubSeq(q, m, l) \in Seq(Request)
          /\ Len(SubSeq(q, m, l)) = IF m <= l THEN l - m + 1 ELSE 0
          /\ \A i \in 1 .. l - m + 1 : SubSeq(q, m, l)[i] = q[m + i - 1]
        BY SMTT(30), <2>2, SubSeqProperties
    <2> QED BY Zenon, <2>3 DEF m, l
<1> HIDE DEF rest
<1>b. Len(rest) = Len(q) - n
    <2>1. Len(rest) = IF n + 1 <= Len(q) THEN Len(q) - (n + 1) + 1 ELSE 0
        BY Zenon, <1>a
    <2>2. Len(q) \in Nat /\ n \in Nat /\ n <= Len(q)
        BY Zenon, <1>0
    <2> QED BY <2>1, <2>2
<1>c. ASSUME NEW i \in 1 .. (Len(q) - n) PROVE rest[i] = q[n + i]
    <2>1. i \in 1 .. Len(q) - (n + 1) + 1 /\ (n + 1) + i - 1 = n + i
        BY <1>0
    <2> QED BY Zenon, <1>a, <2>1
<1>1. /\ rest \in Seq(Request) /\ Len(rest) = Len(q) - n
      /\ \A i \in 1 .. (Len(q) - n) : rest[i] = q[n + i]
    BY Zenon, <1>a, <1>b, <1>c
<1>2. DOMAIN rest = 1 .. (Len(q) - n)
    BY <1>1
<1>3. \A i, j \in 1 .. Len(q) : q[i] = q[j] => i = j
    BY Zenon, <1>0 DEF Line, IsInjective
<1>4. IsInjective(rest)
    <2> SUFFICES ASSUME NEW i \in DOMAIN rest, NEW j \in DOMAIN rest, rest[i] = rest[j] PROVE i = j
        BY Zenon DEF IsInjective
    <2>1. i \in Int /\ j \in Int /\ n + i \in 1 .. Len(q) /\ n + j \in 1 .. Len(q) /\ q[n + i] = q[n + j]
        BY <1>0, <1>1, <1>2
    <2>2. n + i = n + j
        BY Zenon, <1>3, <2>1
    <2> QED BY <1>0, <2>1, <2>2
<1>5. Range(rest) = R \ g
    <2>1. Range(rest) = {rest[i] : i \in 1 .. (Len(q) - n)} /\ R = {q[i] : i \in 1 .. Len(q)}
        BY Zenon, <1>0, <1>2 DEF Line, Range
    <2>2. ASSUME NEW i \in 1 .. (Len(q) - n) PROVE rest[i] \in R \ g
        <3>1. n + i \in 1 .. Len(q) /\ \A j \in 1 .. n : j \in 1 .. Len(q) /\ j # n + i
            BY <1>0, <2>2
        <3> QED BY Zenon, <1>1, <1>3, <2>1, <3>1
    <2>3. ASSUME NEW x \in R \ g PROVE \E i \in 1 .. (Len(q) - n) : rest[i] = x
        <3>1. PICK k \in 1 .. Len(q) : x = q[k]
            BY Zenon, <2>1
        <3>2. k \notin 1 .. n
            BY Zenon, <3>1
        <3>3. k - n \in 1 .. (Len(q) - n) /\ n + (k - n) = k
            BY <1>0, <3>2
        <3>4. rest[k - n] = q[n + (k - n)]
            BY Zenon, <1>1, <3>3
        <3>5. rest[k - n] = x
            BY Zenon, <3>1, <3>3, <3>4
        <3> QED BY Zenon, <3>3, <3>5
    <2> HIDE DEF g
    <2>4. \A x \in Range(rest) : x \in R \ g
        BY Zenon, <2>1, <2>2
    <2>5. \A x \in R \ g : x \in Range(rest)
        BY Zenon, <2>1, <2>3
    <2> QED BY Zenon, <2>4, <2>5
<1>6. Len(rest) <= MaxQueue
    BY <1>0, <1>1, GuardAssumption DEF Line
<1>7. g \subseteq R
    <2>1. \A i \in 1 .. n : i \in 1 .. Len(q)
        BY <1>0
    <2> QED BY Zenon, <1>0, <2>1 DEF Line, Range
<1>8. ASSUME rest # <<>>
      PROVE n + 1 \in 1 .. Len(q) /\ {q[i] : i \in 1 .. (n + 1)} = g \cup {Head(rest)}
    <2>1. n + 1 \in 1 .. Len(q) /\ Head(rest) = q[n + 1]
        BY <1>0, <1>1, <1>8
    <2>2. \A i : i \in 1 .. (n + 1) <=> i \in 1 .. n \/ i = n + 1
        BY <1>0
    <2> QED BY Zenon, <2>1, <2>2
<1>9. Line(rest, R \ g)
    BY Zenon, <1>1, <1>4, <1>5, <1>6 DEF Line
<1> QED BY Zenon, <1>7, <1>8, <1>9 DEF rest

\* How many the first k of a queue are.
First(q, k) == {q[i] : i \in {j \in DOMAIN q : j <= k}}

LEMMA FirstCount ==
    ASSUME NEW q, NEW R, Line(q, R), NEW k \in Nat
    PROVE  /\ First(q, k) \subseteq R /\ IsFiniteSet(First(q, k))
           /\ Cardinality(First(q, k)) <= k
           /\ First(q, k) # R => Cardinality(First(q, k)) = k
<1> DEFINE I == {j \in DOMAIN q : j <= k}
           g == {q[i] : i \in I}
           f == [i \in I |-> q[i]]
<1>1. Len(q) \in Nat /\ DOMAIN q = 1 .. Len(q)
    BY DEF Line
<1>2. I = IF k < Len(q) THEN 1 .. k ELSE 1 .. Len(q)
    BY <1>1
<1>3. IsFiniteSet(I) /\ Cardinality(I) <= k /\ (k < Len(q) => Cardinality(I) = k)
    <2> DEFINE m == Len(q)
    <2>0. m \in Nat
        BY <1>1
    <2> HIDE DEF I, m
    <2>1. \A l \in Nat : IsFiniteSet(1 .. l) /\ Cardinality(1 .. l) = l
        BY FS_Interval
    <2>2. k < m => I = 1 .. k
        BY Zenon, <1>2 DEF m
    <2>3. ~(k < m) => I = 1 .. m /\ m <= k
        BY <1>2, <2>0 DEF m
    <2>4. k < m => IsFiniteSet(I) /\ Cardinality(I) = k
        BY Zenon, <2>1, <2>2
    <2>5. ~(k < m) => IsFiniteSet(I) /\ Cardinality(I) = m
        BY Zenon, <2>0, <2>1, <2>3
    <2>6. IsFiniteSet(I) /\ Cardinality(I) <= k /\ (k < m => Cardinality(I) = k)
        BY <2>0, <2>3, <2>4, <2>5
    <2> QED BY Zenon, <2>6 DEF m
<1>4. f \in Bijection(I, g)
    BY Zenon DEF Bijection, Injection, Surjection, Line, IsInjective
<1>5. IsFiniteSet(g) /\ Cardinality(g) = Cardinality(I)
    <2> HIDE DEF f, g, I
    <2> QED BY Zenon, <1>3, <1>4, FS_Bijection DEF ExistsBijection
<1>6. g \subseteq R /\ (~(k < Len(q)) => g = R)
    <2>1. ~(k < Len(q)) => I = DOMAIN q
        BY <1>1, <1>2
    <2> QED BY Zenon, <2>1 DEF Line, Range
<1> HIDE DEF g, I
<1>7. g # R => k < Len(q)
    BY Zenon, <1>6
<1>8. Cardinality(g) <= k /\ (g # R => Cardinality(g) = k)
    BY Zenon, <1>3, <1>5, <1>7
<1> QED BY Zenon, <1>5, <1>6, <1>8 DEF First, g, I

-----------------------------------------------------------------------------
(***************************************************************************)
(* The books.  Safe says that positions, queues, permits, readers and      *)
(* generations agree and that the limits are kept; it holds between any two*)
(* calls of the synchronous functions.  That nobody waits for what is free *)
(* holds only when a handler gives up control: a step that frees something *)
(* ends with the drains, which hand it on.                                 *)
(***************************************************************************)

\* From here on a leaf goes to Zenon unless it names SMT.
USE Zenon

\* Where a request holds no permit.
Without == Queued \cup {"new", "admit", "barrier", "bodyqueue", "reading", "sleep"}
InQueue(t) == {r \in Request : t.req[r].pc \in Queued}
InBody(t) == {r \in Request : t.req[r].pc = "bodyqueue"}

\* What a handler's position says about it.
Handler(t, q) ==
    /\ q.pc \in Positions
    /\ q.attempt \in 0 .. MaxAttempts
    /\ q.permit \in BOOLEAN /\ q.body \in BOOLEAN /\ q.aborted \in BOOLEAN
    /\ q.gen \in 0 .. t.generation /\ q.sent \subseteq 1 .. t.generation
    /\ q.pc \in Without => ~q.permit
    /\ q.pc = "new" => q.gen = NoGeneration

\* Every replacement is attached after a drain of its own.
Cycle(t) ==
    /\ t.lifecycle \in {"serving", "draining", "absent", "shutdown"}
    /\ t.recycles \in 0 .. MaxRecycles
    /\ t.generation \in 1 .. t.recycles + 1
    /\ t.lifecycle \in {"draining", "absent"} => t.generation <= t.recycles

\* The bounds, apart from those of the queues.
PermitsFit(t) == Cardinality(Active(t)) <= MaxActive
ReadersFit(t) == Cardinality(Readers(t)) <= MaxReaders /\ Reserved(Readers(t)) <= MaxBytes
WaitsFit(t) ==
    /\ Cardinality(Sleeping(t)) <= MaxRecoveryWaits
    /\ Cardinality(Waiters(t)) <= MaxQueue

Drained(t) ==
    t.lifecycle = "absent" =>
        \A r \in Request : Live(t, r) /\ t.req[r].gen # NoGeneration => t.req[r].aborted

Safe(t) ==
    /\ \A r \in Request : Handler(t, t.req[r])
    /\ Line(t.queue, InQueue(t)) /\ Line(t.bodyQueue, InBody(t))
    /\ Cycle(t) /\ PermitsFit(t) /\ ReadersFit(t) /\ WaitsFit(t) /\ Drained(t)

\* Nobody waits for what is free.
PermitsUsed(t) == Open(t) /\ t.queue # <<>> => Cardinality(Active(t)) = MaxActive
ReadersUsed(t) ==
    Open(t) /\ t.bodyQueue # <<>> => ~canAcquireBodyReader(t, {Head(t.bodyQueue)})

Good(t) == Shape(t) /\ Safe(t) /\ PermitsUsed(t) /\ ReadersUsed(t)

\* Two states of one lifecycle; two requests of one history.
Same(t, u) ==
    /\ u.lifecycle = t.lifecycle /\ u.generation = t.generation
    /\ u.allow = t.allow /\ u.recycles = t.recycles
Alike(q, p) ==
    /\ p.gen = q.gen /\ p.sent = q.sent /\ p.attempt = q.attempt
    /\ p.aborted = q.aborted

LEMMA Finite ==
    ASSUME NEW R \in SUBSET Request PROVE IsFiniteSet(R) /\ Cardinality(R) \in Nat
BY GuardAssumption, FS_Subset, FS_CardinalityType

LEMMA Bounds ==
    /\ MaxActive \in Nat /\ MaxReaders \in Nat /\ MaxQueue \in Nat /\ MaxAttempts \in Nat
    /\ MaxAttempts >= 1 /\ MaxBytes \in Nat /\ MaxRecoveryWaits \in Nat /\ MaxRecycles \in Nat
BY SMT, GuardAssumption

LEMMA SameCycle ==
    ASSUME NEW t, NEW u, Same(t, u)
    PROVE  /\ Open(u) <=> Open(t)
           /\ Cycle(t) => Cycle(u)
           /\ \A q : Handler(t, q) => Handler(u, q)
BY DEF Same, Open, Cycle, Handler

\* The requests in G got their permits.
Promoted(q, p) ==
    Alike(q, p) /\ p.pc \in {"admitted", "granted"} /\ p.permit = TRUE /\ p.body = q.body
Grants(t, u, G) ==
    /\ Same(t, u) /\ u.bodyQueue = t.bodyQueue
    /\ G \subseteq InQueue(t) /\ Line(u.queue, InQueue(t) \ G)
    /\ Cardinality(Active(t)) + Cardinality(G) <= MaxActive
    /\ Open(t) /\ G # InQueue(t) => Cardinality(Active(t)) + Cardinality(G) = MaxActive
    /\ \A r \in G : Promoted(t.req[r], u.req[r])
    /\ \A r \in Request \ G : u.req[r] = t.req[r]

LEMMA DrainQueueGrants ==
    ASSUME NEW t, Shape(t), Line(t.queue, InQueue(t)), PermitsFit(t)
    PROVE  \E G : Grants(t, drainQueue(t), G)
<1> DEFINE E == {r \in Request : Open(t) \/ Mine(t, r)}
           eligible == Keep(t.queue, E)
           free == MaxActive - Cardinality(Active(t))
           granted == {eligible[i] : i \in {k \in DOMAIN eligible : k <= free}}
           rest == Keep(t.queue, Request \ granted)
           to(q) == IF q.pc = "queue1" THEN "admitted" ELSE "granted"
           given(q) == [q EXCEPT !.permit = TRUE, !.pc = to(q)]
           f == [r \in Request |-> IF r \in granted THEN given(t.req[r]) ELSE t.req[r]]
           u == drainQueue(t)
           W == InQueue(t)
<1>1. u = [t EXCEPT !.queue = rest, !.req = f]
    BY SMT DEF drainQueue
<1>2. Line(eligible, W \cap E)
    BY LineKeep
<1>3. Cardinality(Active(t)) \in Nat /\ free \in Nat
    <2>1. Active(t) \in SUBSET Request
        BY SMT DEF Active
    <2>2. Cardinality(Active(t)) \in Nat
        BY <2>1, Finite
    <2> QED BY SMT, <2>2, Bounds DEF PermitsFit
<1> HIDE DEF eligible, free
<1>4. /\ granted \subseteq W \cap E /\ IsFiniteSet(granted) /\ Cardinality(granted) <= free
      /\ granted # W \cap E => Cardinality(granted) = free
    <2>1. granted = First(eligible, free)
        BY DEF First
    <2> HIDE DEF granted
    <2> QED BY ZenonT(30), <1>2, <1>3, <2>1, FirstCount
<1> HIDE DEF granted
<1>5. Line(rest, W \ granted)
    <2>1. Line(rest, W \cap (Request \ granted))
        BY LineKeep
    <2>2. W \cap (Request \ granted) = W \ granted
        BY SMT DEF InQueue
    <2> QED BY <2>1, <2>2
<1> HIDE DEF rest, to
<1>6. u.queue = rest /\ u.bodyQueue = t.bodyQueue /\ Same(t, u) /\ u.req = f
    BY <1>1 DEF Shape, Same
<1>7. Cardinality(granted) \in Nat
    BY <1>4, FS_CardinalityType
<1>8. Cardinality(Active(t)) + Cardinality(granted) <= MaxActive
    BY SMT, <1>3, <1>4, <1>7, Bounds DEF free
<1>9. Open(t) /\ granted # W => Cardinality(Active(t)) + Cardinality(granted) = MaxActive
    <2>1. Open(t) => W \cap E = W
        BY SMT DEF InQueue
    <2> HIDE DEF E
    <2>2. Open(t) /\ granted # W => Cardinality(granted) = free
        BY <1>4, <2>1
    <2> QED BY SMT, <1>3, <1>7, <2>2, Bounds DEF free
<1>10. \A r \in granted : Promoted(t.req[r], u.req[r])
    <2> SUFFICES ASSUME NEW r \in granted PROVE Promoted(t.req[r], u.req[r])
        OBVIOUS
    <2>1. r \in Request /\ Context(t.req[r])
        BY <1>4 DEF InQueue, Shape
    <2>2. u.req[r] = given(t.req[r])
        BY <1>6, <2>1
    <2> DEFINE q == t.req[r]
    <2>3. to(q) \in {"admitted", "granted"}
        BY DEF to
    <2> HIDE DEF q
    <2>4. Promoted(q, given(q))
        BY ZenonT(30), <2>1, <2>3 DEF Context, Promoted, Alike, q
    <2> QED BY <2>2, <2>4 DEF q
<1>11. \A r \in Request \ granted : u.req[r] = t.req[r]
    BY <1>6
<1>12. granted \subseteq W
    BY <1>4
<1> HIDE DEF u, W
<1> QED BY <1>5, <1>6, <1>8, <1>9, <1>10, <1>11, <1>12 DEF Grants, W, u

LEMMA DrainedKept ==
    ASSUME NEW t, NEW u, Drained(t), Same(t, u), \A r \in Request : Handler(t, t.req[r]),
           \A r \in Request : /\ u.req[r].gen = t.req[r].gen
                              /\ t.req[r].aborted => u.req[r].aborted
                              /\ Live(u, r) => Live(t, r) \/ t.req[r].pc = "new"
    PROVE  Drained(u)
BY DEF Drained, Same, Handler

LEMMA GrantsSafe ==
    ASSUME NEW t, NEW u, NEW G, Safe(t), Grants(t, u, G)
    PROVE  Safe(u) /\ PermitsUsed(u) /\ (ReadersUsed(t) => ReadersUsed(u))
<1>0. G \subseteq Request /\ Same(t, u)
    BY DEF Grants, InQueue
<1>1. \A r \in G : /\ t.req[r].pc \in Queued /\ Handler(t, t.req[r]) /\ ~t.req[r].permit
                   /\ Alike(t.req[r], u.req[r]) /\ u.req[r].pc \in {"admitted", "granted"}
                   /\ u.req[r].permit = TRUE /\ u.req[r].body = t.req[r].body
    BY DEF Grants, InQueue, Safe, Promoted, Handler, Without
<1>2. \A r \in Request \ G : u.req[r] = t.req[r]
    BY DEF Grants
<1>3. \A r \in Request : Handler(u, u.req[r])
    <2>1. \A r \in G : Handler(t, u.req[r])
        <3> SUFFICES ASSUME NEW r \in G PROVE Handler(t, u.req[r])
            OBVIOUS
        <3>1. u.req[r].pc \in Positions \ (Without \cup {"new"})
            BY SMT, <1>1 DEF Positions, Without, Queued, Barred, Streaming, Resumed
        <3>2. u.req[r].permit \in BOOLEAN
            BY <1>1
        <3> QED BY <1>1, <3>1, <3>2 DEF Handler, Alike
    <2>2. \A r \in Request \ G : Handler(t, u.req[r])
        BY <1>2 DEF Safe
    <2> QED BY <1>0, <2>1, <2>2, SameCycle
<1>4. \A r \in G : /\ u.req[r].pc \notin Queued /\ u.req[r].pc # "bodyqueue" /\ u.req[r].pc # "sleep"
                   /\ u.req[r].pc \notin Barred
                   /\ t.req[r].pc # "bodyqueue" /\ t.req[r].pc # "sleep" /\ t.req[r].pc \notin Barred
                   /\ t.req[r].pc \notin {"new", "done"}
    BY SMT, <1>1 DEF Queued, Barred
<1>5. InQueue(u) = InQueue(t) \ G /\ InBody(u) = InBody(t)
    BY <1>0, <1>1, <1>2, <1>4 DEF InQueue, InBody
<1>6. Active(u) = Active(t) \cup G /\ Active(t) \cap G = {} /\ Readers(u) = Readers(t)
    BY <1>0, <1>1, <1>2 DEF Active, Readers
<1>7. Sleeping(u) = Sleeping(t) /\ Waiters(u) = Waiters(t)
    BY <1>0, <1>1, <1>2, <1>4 DEF Sleeping, Waiters
<1>8. Cardinality(Active(u)) = Cardinality(Active(t)) + Cardinality(G)
    <2>1. IsFiniteSet(Active(t)) /\ IsFiniteSet(G) /\ Cardinality(Active(t)) \in Nat /\ Cardinality(G) \in Nat
        BY <1>0, Finite DEF Active
    <2>2. Cardinality(Active(t) \cup G) = Cardinality(Active(t)) + Cardinality(G) - Cardinality({})
        BY ZenonT(30), <1>6, <2>1, FS_Union
    <2> QED BY SMT, <1>6, <2>1, <2>2, FS_EmptySet
<1>9. Line(u.queue, InQueue(u)) /\ Line(u.bodyQueue, InBody(u))
    BY <1>5 DEF Grants, Safe
<1>10. PermitsFit(u) /\ ReadersFit(u) /\ WaitsFit(u)
    BY <1>6, <1>7, <1>8 DEF Grants, Safe, PermitsFit, ReadersFit, WaitsFit
<1>11. Drained(u)
    <2>1. \A r \in Request : /\ u.req[r].gen = t.req[r].gen
                             /\ t.req[r].aborted => u.req[r].aborted
                             /\ Live(u, r) => Live(t, r) \/ t.req[r].pc = "new"
        BY <1>1, <1>2, <1>4 DEF Alike, Live
    <2> QED BY <1>0, <2>1, DrainedKept DEF Safe
<1>12. Cycle(u) /\ (Open(u) <=> Open(t))
    BY <1>0, SameCycle DEF Safe
<1>13. Safe(u)
    BY <1>3, <1>9, <1>10, <1>11, <1>12 DEF Safe
<1>14. PermitsUsed(u)
    <2>1. u.queue # <<>> => G # InQueue(t)
        BY <1>5, <1>9, LineEmpty
    <2> QED BY <1>8, <1>12, <2>1 DEF PermitsUsed, Grants
<1>15. ReadersUsed(t) => ReadersUsed(u)
    BY <1>6, <1>12 DEF ReadersUsed, canAcquireBodyReader, Grants
<1> QED BY <1>13, <1>14, <1>15

LEMMA DrainQueueSafe ==
    ASSUME NEW t, Shape(t), Safe(t)
    PROVE  LET u == drainQueue(t)
           IN  /\ Shape(u) /\ Same(t, u) /\ Safe(u) /\ PermitsUsed(u)
               /\ ReadersUsed(t) => ReadersUsed(u)
               /\ \A r \in Request \ InQueue(t) : u.req[r] = t.req[r]
<1>1. PICK G : Grants(t, drainQueue(t), G)
    BY DrainQueueGrants DEF Safe
<1>2. Safe(drainQueue(t)) /\ PermitsUsed(drainQueue(t)) /\ (ReadersUsed(t) => ReadersUsed(drainQueue(t)))
    BY <1>1, GrantsSafe
<1>3. Same(t, drainQueue(t)) /\ \A r \in Request \ InQueue(t) : drainQueue(t).req[r] = t.req[r]
    BY <1>1 DEF Grants
<1>4. Shape(drainQueue(t))
    BY DrainQueueKept DEF Kept
<1> QED BY <1>2, <1>3, <1>4

\* The requests in G got their leases.
Leased(q, p) ==
    Alike(q, p) /\ p.pc = "reading" /\ p.permit = q.permit /\ p.body = TRUE
RoomFor(R) == Cardinality(R) <= MaxReaders /\ Reserved(R) <= MaxBytes
Leases(t, u, G) ==
    /\ Same(t, u) /\ u.queue = t.queue
    /\ G \subseteq InBody(t) /\ Line(u.bodyQueue, InBody(t) \ G)
    /\ RoomFor(Readers(t) \cup G)
    /\ Open(t) /\ u.bodyQueue # <<>> => ~RoomFor((Readers(t) \cup G) \cup {Head(u.bodyQueue)})
    /\ \A r \in G : Leased(t.req[r], u.req[r])
    /\ \A r \in Request \ G : u.req[r] = t.req[r]

LEMMA DrainBodyLeases ==
    ASSUME NEW t, Shape(t), Line(t.bodyQueue, InBody(t)), ReadersFit(t)
    PROVE  \E G : Leases(t, drainBodyReaderQueue(t), G)
<1> DEFINE Q == t.bodyQueue
           W == InBody(t)
           u == drainBodyReaderQueue(t)
<1>0. RoomFor(Readers(t) \cup {}) /\ Same(t, t)
    <2>1. Readers(t) \cup {} = Readers(t)
        OBVIOUS
    <2> QED BY <2>1 DEF RoomFor, ReadersFit, Same
<1>1. CASE Q = <<>>
    <2>1. u = t
        BY <1>1 DEF drainBodyReaderQueue
    <2>2. W \ {} = W
        OBVIOUS
    <2>3. Leases(t, t, {})
        BY <1>0, <1>1, <2>2 DEF Leases
    <2> QED BY <2>1, <2>3
<1>2. CASE Q # <<>>
    <2> DEFINE fits(n) == canAcquireBodyReader(t, {t.bodyQueue[i] : i \in 1 .. n})
               P(k) == (k = 0 \/ fits(k)) /\ (k = Len(t.bodyQueue) \/ ~fits(k + 1))
               n == CHOOSE k \in 0 .. Len(t.bodyQueue) : P(k)
               G == {t.bodyQueue[i] : i \in 1 .. n}
               rest == SubSeq(t.bodyQueue, n + 1, Len(t.bodyQueue))
               given(q) == [q EXCEPT !.body = TRUE, !.pc = "reading"]
               f == [r \in Request |-> IF r \in G THEN given(t.req[r]) ELSE t.req[r]]
    <2>1. u = [t EXCEPT !.bodyQueue = rest, !.req = f]
        BY SMT, <1>2 DEF drainBodyReaderQueue
    <2>2. \A k : fits(k) <=> Open(t) /\ RoomFor(Readers(t) \cup {Q[i] : i \in 1 .. k})
        BY DEF canAcquireBodyReader, RoomFor
    <2>3. n \in 0 .. Len(Q) /\ P(n)
        <3> HIDE DEF fits
        <3> DEFINE T == {k \in Nat : k = Len(Q) \/ ~fits(k + 1)}
        <3>1. Len(Q) \in Nat
            BY SMT DEF Line
        <3>2. T \subseteq Nat /\ T # {}
            BY SMT, <3>1
        <3>3. PICK m \in T : \A k \in T : m <= k
            BY <3>2, NatMin
        <3>4. m \in 0 .. Len(Q)
            BY SMT, <3>1, <3>3
        <3>5. m # 0 => m - 1 \notin T /\ m - 1 \in Nat /\ (m - 1) + 1 = m
            BY SMT, <3>3
        <3>6. m # 0 => fits(m)
            BY <3>5
        <3>7. P(m)
            BY <3>3, <3>6
        <3>8. \E k \in 0 .. Len(Q) : P(k)
            BY <3>4, <3>7
        <3> HIDE DEF P
        <3> QED BY <3>8
    <2> HIDE DEF n, rest
    <2>4. /\ Line(rest, W \ G) /\ G \subseteq W
          /\ rest # <<>> => n + 1 \in 1 .. Len(Q) /\ {Q[i] : i \in 1 .. (n + 1)} = G \cup {Head(rest)}
        BY <2>3, LineFirst DEF rest
    <2>5. RoomFor(Readers(t) \cup G)
        <3>1. CASE n = 0
            <4>1. G = {}
                BY SMT, <3>1
            <4> QED BY <1>0, <4>1
        <3>2. CASE n # 0
            BY <2>2, <2>3, <3>2
        <3> QED BY <3>1, <3>2
    <2>6. Open(t) /\ rest # <<>> => ~RoomFor((Readers(t) \cup G) \cup {Head(rest)})
        <3> SUFFICES ASSUME Open(t), rest # <<>> PROVE ~RoomFor((Readers(t) \cup G) \cup {Head(rest)})
            OBVIOUS
        <3>1. n # Len(Q)
            <4>1. Len(Q) \in Nat /\ n \in Nat
                BY SMT, <2>3 DEF Line
            <4>2. n + 1 \in 1 .. Len(Q)
                BY <2>4
            <4> QED BY SMT, <4>1, <4>2
        <3>2. ~RoomFor(Readers(t) \cup {Q[i] : i \in 1 .. (n + 1)})
            BY <2>2, <2>3, <3>1
        <3>3. (Readers(t) \cup G) \cup {Head(rest)} = Readers(t) \cup {Q[i] : i \in 1 .. (n + 1)}
            <4> HIDE DEF G
            <4> QED BY ZenonT(30), <2>4
        <3> QED BY <3>2, <3>3
    <2> HIDE DEF G
    <2>7. u.bodyQueue = rest /\ u.queue = t.queue /\ Same(t, u) /\ u.req = f
        BY <2>1 DEF Shape, Same
    <2>8. \A r \in G : Leased(t.req[r], u.req[r])
        <3> SUFFICES ASSUME NEW r \in G PROVE Leased(t.req[r], u.req[r])
            OBVIOUS
        <3>1. r \in Request /\ Context(t.req[r])
            BY <2>4 DEF InBody, Shape
        <3>2. u.req[r] = given(t.req[r])
            BY <2>7, <3>1
        <3> DEFINE q == t.req[r]
        <3> HIDE DEF q
        <3>4. Leased(q, given(q))
            BY ZenonT(30), <3>1 DEF Context, Leased, Alike, q
        <3> QED BY <3>2, <3>4 DEF q
    <2>9. \A r \in Request \ G : u.req[r] = t.req[r]
        BY <2>7
    <2> HIDE DEF u, W, fits
    <2> QED BY <2>4, <2>5, <2>6, <2>7, <2>8, <2>9 DEF Leases, W, u
<1> QED BY <1>1, <1>2

LEMMA LeasesSafe ==
    ASSUME NEW t, NEW u, NEW G, Safe(t), Leases(t, u, G)
    PROVE  Safe(u) /\ ReadersUsed(u) /\ (PermitsUsed(t) => PermitsUsed(u))
<1>0. G \subseteq Request /\ Same(t, u)
    BY DEF Leases, InBody
<1>1. \A r \in G : /\ t.req[r].pc = "bodyqueue" /\ Handler(t, t.req[r]) /\ ~t.req[r].permit
                   /\ Alike(t.req[r], u.req[r]) /\ u.req[r].pc = "reading"
                   /\ u.req[r].permit = t.req[r].permit /\ u.req[r].body = TRUE
    BY DEF Leases, InBody, Safe, Leased, Handler, Without
<1>2. \A r \in Request \ G : u.req[r] = t.req[r]
    BY DEF Leases
<1>3. \A r \in Request : Handler(u, u.req[r])
    <2>1. \A r \in G : Handler(t, u.req[r])
        <3> SUFFICES ASSUME NEW r \in G PROVE Handler(t, u.req[r])
            OBVIOUS
        <3>1. u.req[r].pc \in Positions /\ u.req[r].pc # "new"
            BY SMT, <1>1 DEF Positions
        <3>2. u.req[r].body \in BOOLEAN
            BY <1>1
        <3> QED BY <1>1, <3>1, <3>2 DEF Handler, Alike
    <2>2. \A r \in Request \ G : Handler(t, u.req[r])
        BY <1>2 DEF Safe
    <2> QED BY <1>0, <2>1, <2>2, SameCycle
<1>4. \A r \in G : /\ u.req[r].pc \notin Queued /\ u.req[r].pc # "bodyqueue" /\ u.req[r].pc # "sleep"
                   /\ u.req[r].pc \notin Barred
                   /\ t.req[r].pc \notin Queued /\ t.req[r].pc # "sleep" /\ t.req[r].pc \notin Barred
                   /\ t.req[r].pc \notin {"new", "done"}
    BY SMT, <1>1 DEF Queued, Barred
<1>5. InBody(u) = InBody(t) \ G /\ InQueue(u) = InQueue(t)
    BY <1>0, <1>1, <1>2, <1>4 DEF InQueue, InBody
<1>6. Active(u) = Active(t) /\ Readers(u) = Readers(t) \cup G
    BY <1>0, <1>1, <1>2 DEF Active, Readers
<1>7. Sleeping(u) = Sleeping(t) /\ Waiters(u) = Waiters(t)
    BY <1>0, <1>1, <1>2, <1>4 DEF Sleeping, Waiters
<1>9. Line(u.queue, InQueue(u)) /\ Line(u.bodyQueue, InBody(u))
    BY <1>5 DEF Leases, Safe
<1>10. PermitsFit(u) /\ ReadersFit(u) /\ WaitsFit(u)
    BY <1>6, <1>7 DEF Leases, Safe, PermitsFit, ReadersFit, WaitsFit, RoomFor
<1>11. Drained(u)
    <2>1. \A r \in Request : /\ u.req[r].gen = t.req[r].gen
                             /\ t.req[r].aborted => u.req[r].aborted
                             /\ Live(u, r) => Live(t, r) \/ t.req[r].pc = "new"
        BY <1>1, <1>2, <1>4 DEF Alike, Live
    <2> QED BY <1>0, <2>1, DrainedKept DEF Safe
<1>12. Cycle(u) /\ (Open(u) <=> Open(t))
    BY <1>0, SameCycle DEF Safe
<1>13. Safe(u)
    BY <1>3, <1>9, <1>10, <1>11, <1>12 DEF Safe
<1>14. ReadersUsed(u)
    BY <1>6, <1>12 DEF ReadersUsed, canAcquireBodyReader, Leases, RoomFor
<1>15. PermitsUsed(t) => PermitsUsed(u)
    BY <1>6, <1>12 DEF PermitsUsed, Leases
<1> QED BY <1>13, <1>14, <1>15

LEMMA DrainBodySafe ==
    ASSUME NEW t, Shape(t), Safe(t)
    PROVE  LET u == drainBodyReaderQueue(t)
           IN  /\ Shape(u) /\ Same(t, u) /\ Safe(u) /\ ReadersUsed(u)
               /\ PermitsUsed(t) => PermitsUsed(u)
               /\ \A r \in Request \ InBody(t) : u.req[r] = t.req[r]
<1> DEFINE u == drainBodyReaderQueue(t)
<1>1. PICK G : Leases(t, u, G)
    BY DrainBodyLeases DEF Safe
<1>2. Safe(u) /\ ReadersUsed(u) /\ (PermitsUsed(t) => PermitsUsed(u))
    BY <1>1, LeasesSafe
<1>3. Same(t, u) /\ \A r \in Request \ InBody(t) : u.req[r] = t.req[r]
    BY <1>1 DEF Leases
<1>4. Shape(u)
    BY DrainBodyKept DEF Kept
<1> QED BY <1>2, <1>3, <1>4

\* One request moves on, and nothing else changes.
Parked == Queued \cup {"bodyqueue"}
Sets(t, u, r, q) ==
    /\ Same(t, u) /\ u.queue = t.queue /\ u.bodyQueue = t.bodyQueue
    /\ u.req[r] = q /\ \A x \in Request \ {r} : u.req[x] = t.req[x]

\* It stands in no queue, before or after, and no count grows that has no room.
Steady(t, p, q) ==
    /\ p.pc \notin Parked /\ q.pc \notin Parked /\ Handler(t, q)
    /\ q.pc = "sleep" => p.pc = "sleep" \/ Cardinality(Sleeping(t)) < MaxRecoveryWaits
    /\ q.pc \in Barred => p.pc \in Barred \/ Cardinality(Waiters(t)) < MaxQueue
    /\ t.lifecycle = "absent" /\ q.pc \notin {"new", "done"} /\ q.gen # NoGeneration => q.aborted

LEMMA OneMore ==
    ASSUME NEW R \in SUBSET Request, NEW S \in SUBSET Request, NEW r, S \subseteq R \cup {r},
           NEW n \in Nat, Cardinality(R) <= n, r \in S => r \in R \/ Cardinality(R) < n
    PROVE  Cardinality(S) <= n
<1>1. IsFiniteSet(R) /\ Cardinality(R) \in Nat /\ Cardinality(S) \in Nat
    BY Finite
<1>2. IsFiniteSet(R \cup {r}) /\ Cardinality(R \cup {r}) = IF r \in R THEN Cardinality(R) ELSE Cardinality(R) + 1
    BY <1>1, FS_AddElement
<1>3. Cardinality(S) <= Cardinality(R \cup {r})
    BY <1>2, FS_Subset
<1>4. r \notin S => Cardinality(S) <= Cardinality(R)
    <2>1. r \notin S => S \in SUBSET R
        OBVIOUS
    <2> QED BY <1>1, <2>1, FS_Subset
<1> QED BY SMT, <1>1, <1>2, <1>3, <1>4

LEMMA SetsSafe ==
    ASSUME NEW t, NEW u, NEW r \in Request, NEW q, Safe(t), Sets(t, u, r, q),
           Steady(t, t.req[r], q), PermitsFit(u), ReadersFit(u)
    PROVE  /\ Safe(u)
           /\ Active(u) = Active(t) /\ PermitsUsed(t) => PermitsUsed(u)
           /\ Readers(u) = Readers(t) /\ ReadersUsed(t) => ReadersUsed(u)
<1>1. Same(t, u) /\ u.req[r] = q /\ \A x \in Request \ {r} : u.req[x] = t.req[x]
    BY DEF Sets
<1>2. \A x \in Request : Handler(u, u.req[x])
    BY <1>1, SameCycle DEF Safe, Steady
<1>3. InQueue(u) = InQueue(t) /\ InBody(u) = InBody(t)
    BY <1>1 DEF InQueue, InBody, Steady, Parked
<1>4. Line(u.queue, InQueue(u)) /\ Line(u.bodyQueue, InBody(u))
    BY <1>3 DEF Safe, Sets
<1>5. Cycle(u) /\ (Open(u) <=> Open(t))
    BY <1>1, SameCycle DEF Safe
<1>6. Cardinality(Sleeping(u)) <= MaxRecoveryWaits
    <2>1. Sleeping(t) \in SUBSET Request /\ Sleeping(u) \in SUBSET Request
        BY DEF Sleeping
    <2>2. Sleeping(u) \subseteq Sleeping(t) \cup {r}
        BY <1>1 DEF Sleeping
    <2>3. r \in Sleeping(u) => r \in Sleeping(t) \/ Cardinality(Sleeping(t)) < MaxRecoveryWaits
        BY <1>1 DEF Sleeping, Steady
    <2>4. Cardinality(Sleeping(t)) <= MaxRecoveryWaits
        BY DEF Safe, WaitsFit
    <2> QED BY <2>1, <2>2, <2>3, <2>4, Bounds, OneMore
<1>7. Cardinality(Waiters(u)) <= MaxQueue
    <2>1. Waiters(t) \in SUBSET Request /\ Waiters(u) \in SUBSET Request
        BY DEF Waiters
    <2>2. Waiters(u) \subseteq Waiters(t) \cup {r}
        BY <1>1 DEF Waiters
    <2>3. r \in Waiters(u) => r \in Waiters(t) \/ Cardinality(Waiters(t)) < MaxQueue
        BY <1>1 DEF Waiters, Steady
    <2>4. Cardinality(Waiters(t)) <= MaxQueue
        BY DEF Safe, WaitsFit
    <2> QED BY <2>1, <2>2, <2>3, <2>4, Bounds, OneMore
<1>8. Drained(u)
    BY <1>1 DEF Drained, Same, Safe, Steady, Live
<1>9. Safe(u)
    BY <1>2, <1>4, <1>5, <1>6, <1>7, <1>8 DEF Safe, WaitsFit
<1>10. Active(u) = Active(t) /\ PermitsUsed(t) => PermitsUsed(u)
    BY <1>5 DEF PermitsUsed, Sets
<1>11. Readers(u) = Readers(t) /\ ReadersUsed(t) => ReadersUsed(u)
    BY <1>5 DEF ReadersUsed, canAcquireBodyReader, Sets
<1> QED BY <1>9, <1>10, <1>11

-----------------------------------------------------------------------------
(***************************************************************************)
(* The functions of one request: Move, release, releaseBody, Finish and the*)
(* ways a permit or a reader is taken.                                     *)
(***************************************************************************)

\* A record of a request that differs in one field, or two.
Differs(q, p) == Alike(q, p) /\ p.permit = q.permit /\ p.body = q.body

LEMMA SetsField ==
    ASSUME NEW t, Shape(t), NEW r \in Request, NEW p
    PROVE  Sets(t, [t EXCEPT !.req[r] = p], r, p)
BY SMT DEF Shape, Sets, Same

LEMMA MoveSets ==
    ASSUME NEW t, Shape(t), NEW r \in Request, NEW x
    PROVE  \E p : p.pc = x /\ Differs(t.req[r], p) /\ Sets(t, Move(t, r, x), r, p)
<1> DEFINE q == t.req[r]
           p == [q EXCEPT !.pc = x]
<1>1. Context(q)
    BY DEF Shape
<1>2. Sets(t, Move(t, r, x), r, p)
    BY SetsField DEF Move
<1> HIDE DEF q
<1>3. p.pc = x /\ Differs(q, p)
    BY <1>1 DEF Context, Differs, Alike
<1> QED BY <1>2, <1>3 DEF q

LEMMA PermitSets ==
    ASSUME NEW t, Shape(t), NEW r \in Request
    PROVE  \E p : /\ p.pc = t.req[r].pc /\ Alike(t.req[r], p)
                  /\ p.permit = FALSE /\ p.body = t.req[r].body
                  /\ Sets(t, [t EXCEPT !.req[r].permit = FALSE], r, p)
<1> DEFINE q == t.req[r]
           p == [q EXCEPT !.permit = FALSE]
<1>1. Context(q)
    BY DEF Shape
<1>2. Sets(t, [t EXCEPT !.req[r].permit = FALSE], r, p)
    BY SetsField
<1> HIDE DEF q
<1>3. p.pc = q.pc /\ Alike(q, p) /\ p.permit = FALSE /\ p.body = q.body
    BY <1>1 DEF Context, Alike
<1> QED BY <1>2, <1>3 DEF q

LEMMA BodySets ==
    ASSUME NEW t, Shape(t), NEW r \in Request
    PROVE  \E p : /\ p.pc = t.req[r].pc /\ Alike(t.req[r], p)
                  /\ p.permit = t.req[r].permit /\ p.body = FALSE
                  /\ Sets(t, [t EXCEPT !.req[r].body = FALSE], r, p)
<1> DEFINE q == t.req[r]
           p == [q EXCEPT !.body = FALSE]
<1>1. Context(q)
    BY DEF Shape
<1>2. Sets(t, [t EXCEPT !.req[r].body = FALSE], r, p)
    BY SetsField
<1> HIDE DEF q
<1>3. p.pc = q.pc /\ Alike(q, p) /\ p.permit = q.permit /\ p.body = FALSE
    BY <1>1 DEF Context, Alike
<1> QED BY <1>2, <1>3 DEF q

\* The counts of a state in which one request may have let go.
LEMMA SetsFit ==
    ASSUME NEW t, NEW u, NEW r \in Request, NEW q, Safe(t), Sets(t, u, r, q)
    PROVE  /\ q.permit = t.req[r].permit => Active(u) = Active(t) /\ PermitsFit(u)
           /\ q.permit = FALSE => PermitsFit(u)
           /\ q.body = t.req[r].body => Readers(u) = Readers(t) /\ ReadersFit(u)
           /\ q.body = FALSE => ReadersFit(u)
<1>1. u.req[r] = q /\ \A x \in Request \ {r} : u.req[x] = t.req[x]
    BY DEF Sets
<1>2. q.permit = t.req[r].permit => Active(u) = Active(t) /\ PermitsFit(u)
    <2>1. q.permit = t.req[r].permit => Active(u) = Active(t)
        BY <1>1 DEF Active
    <2> QED BY <2>1 DEF Safe, PermitsFit
<1>3. q.permit = FALSE => PermitsFit(u)
    <2> SUFFICES ASSUME q.permit = FALSE PROVE PermitsFit(u)
        OBVIOUS
    <2>1. Active(u) \in SUBSET Active(t) /\ Active(t) \in SUBSET Request
        BY <1>1 DEF Active
    <2>2. r \notin Active(u) /\ Active(u) \in SUBSET Request /\ Active(u) \subseteq Active(t) \cup {r}
        BY <1>1, <2>1 DEF Active
    <2>3. Cardinality(Active(t)) <= MaxActive
        BY DEF Safe, PermitsFit
    <2> QED BY <2>1, <2>2, <2>3, Bounds, OneMore DEF PermitsFit
<1>4. q.body = t.req[r].body => Readers(u) = Readers(t) /\ ReadersFit(u)
    <2>1. q.body = t.req[r].body => Readers(u) = Readers(t)
        BY <1>1 DEF Readers
    <2> QED BY <2>1 DEF Safe, ReadersFit
<1>5. q.body = FALSE => ReadersFit(u)
    <2> SUFFICES ASSUME q.body = FALSE PROVE ReadersFit(u)
        OBVIOUS
    <2> DEFINE R == Readers(t)
    <2>1. Readers(u) = R \ {r} /\ R \in SUBSET Request /\ Readers(u) \in SUBSET Request
        BY <1>1 DEF Readers
    <2>2. Cardinality(R) <= MaxReaders /\ Reserved(R) <= MaxBytes
        BY DEF Safe, ReadersFit
    <2> HIDE DEF R
    <2>3. Cardinality(R \ {r}) <= MaxReaders
        <3>1. R \ {r} \subseteq R \cup {r} /\ r \notin R \ {r} /\ R \ {r} \in SUBSET Request
            BY <2>1
        <3> QED BY <2>1, <2>2, <3>1, Bounds, OneMore
    <2>4. Reserved(R \ {r}) <= MaxBytes
        <3>1. Reserved(R) \in Nat /\ Reserved(R \ {r}) <= Reserved(R)
            BY <2>1, ReservedShrinks
        <3>2. Reserved(R \ {r}) \in Nat
            <4>1. R \ {r} \in SUBSET Request
                BY <2>1
            <4> QED BY <4>1, ReservedShrinks
        <3> QED BY SMT, <2>2, <3>1, <3>2, Bounds
    <2> QED BY <2>1, <2>3, <2>4 DEF ReadersFit
<1> QED BY <1>2, <1>3, <1>4, <1>5

LEMMA MoveGood ==
    ASSUME NEW t, Good(t), NEW r \in Request, NEW x \in Positions \ (Parked \cup {"new"}),
           t.req[r].pc \notin Parked, x = "done" \/ t.req[r].pc # "done",
           x \in Without => ~t.req[r].permit,
           x = "sleep" => Cardinality(Sleeping(t)) < MaxRecoveryWaits,
           x \in Barred => Cardinality(Waiters(t)) < MaxQueue
    PROVE  Good(Move(t, r, x)) /\ Same(t, Move(t, r, x)) /\ Move(t, r, x).req[r].pc = x
<1> DEFINE p == t.req[r]
           u == Move(t, r, x)
<1>0. Shape(t) /\ Safe(t) /\ PermitsUsed(t) /\ ReadersUsed(t)
    BY DEF Good
<1>1. PICK q : q.pc = x /\ Differs(p, q) /\ Sets(t, u, r, q)
    BY <1>0, MoveSets
<1>2. Shape(u)
    BY <1>0, MoveKept DEF Kept
<1> HIDE DEF u
<1>3. PermitsFit(u) /\ ReadersFit(u) /\ Active(u) = Active(t) /\ Readers(u) = Readers(t)
    BY <1>0, <1>1, SetsFit DEF Differs
<1>4. Steady(t, p, q)
    <2>1. Handler(t, p)
        BY <1>0 DEF Safe
    <2>2. Handler(t, q)
        BY <1>1, <2>1 DEF Handler, Differs, Alike
    <2>3. t.lifecycle = "absent" /\ x \notin {"new", "done"} /\ p.gen # NoGeneration => p.aborted
        BY <1>0, <2>1 DEF Safe, Drained, Live, Handler
    <2> QED BY <1>1, <2>2, <2>3 DEF Steady, Differs, Alike
<1>5. Safe(u) /\ PermitsUsed(u) /\ ReadersUsed(u)
    BY <1>0, <1>1, <1>3, <1>4, SetsSafe
<1>6. Same(t, u) /\ u.req[r].pc = x
    BY <1>1 DEF Sets
<1> QED BY <1>2, <1>5, <1>6 DEF Good, u

\* A permit is given back, and handed on.
LEMMA ReleaseGood ==
    ASSUME NEW t, Good(t), NEW r \in Request, t.req[r].pc \notin Parked
    PROVE  LET u == release(t, r)
           IN  /\ Good(u) /\ Same(t, u) /\ u.req[r].pc = t.req[r].pc /\ ~u.req[r].permit
               /\ Alike(t.req[r], u.req[r])
<1>0. Shape(t) /\ Safe(t) /\ PermitsUsed(t) /\ ReadersUsed(t)
    BY DEF Good
<1> DEFINE p == t.req[r]
           v == [t EXCEPT !.req[r].permit = FALSE]
           u == drainQueue(v)
<1>1. CASE ~p.permit
    BY <1>1, <1>0 DEF release, Same, Alike
<1>2. CASE p.permit
    <2>1. PICK q : /\ q.pc = p.pc /\ Alike(p, q) /\ q.permit = FALSE /\ q.body = p.body
                   /\ Sets(t, v, r, q)
        BY <1>0, PermitSets
    <2>2. Shape(v)
        BY ZenonT(30), <1>0, FieldKept DEF Kept
    <2>3. release(t, r) = u
        BY <1>2 DEF release
    <2> HIDE DEF v
    <2>4. PermitsFit(v) /\ ReadersFit(v) /\ Readers(v) = Readers(t)
        BY <1>0, <2>1, SetsFit
    <2>5. Steady(t, p, q)
        <3>1. Handler(t, p)
            BY <1>0 DEF Safe
        <3>2. Handler(t, q)
            BY <2>1, <3>1 DEF Handler, Alike
        <3>3. t.lifecycle = "absent" /\ p.pc \notin {"new", "done"} /\ p.gen # NoGeneration => p.aborted
            BY <1>0 DEF Safe, Drained, Live
        <3> QED BY <2>1, <3>2, <3>3 DEF Steady, Alike
    <2>6. Safe(v) /\ ReadersUsed(v)
        BY <1>0, <2>1, <2>4, <2>5, SetsSafe
    <2>7. /\ Shape(u) /\ Same(v, u) /\ Safe(u) /\ PermitsUsed(u) /\ ReadersUsed(u)
          /\ \A x \in Request \ InQueue(v) : u.req[x] = v.req[x]
        BY <2>2, <2>6, DrainQueueSafe
    <2>8. v.req[r] = q /\ r \notin InQueue(v) /\ Same(t, v)
        BY <2>1 DEF Sets, InQueue, Parked
    <2>9. u.req[r] = q /\ Same(t, u)
        BY <2>7, <2>8 DEF Same
    <2> HIDE DEF u
    <2> QED BY <2>1, <2>3, <2>7, <2>9 DEF Good
<1> QED BY <1>1, <1>2

\* So is a reader's lease.
LEMMA ReleaseBodyGood ==
    ASSUME NEW t, Good(t), NEW r \in Request, t.req[r].pc \notin Parked
    PROVE  LET u == releaseBody(t, r)
           IN  Good(u) /\ Same(t, u) /\ u.req[r].pc = t.req[r].pc
<1>0. Shape(t) /\ Safe(t) /\ PermitsUsed(t) /\ ReadersUsed(t)
    BY DEF Good
<1> DEFINE p == t.req[r]
           v == [t EXCEPT !.req[r].body = FALSE]
           u == drainBodyReaderQueue(v)
<1>1. CASE ~p.body
    BY <1>1, <1>0 DEF releaseBody, Same
<1>2. CASE p.body
    <2>1. PICK q : /\ q.pc = p.pc /\ Alike(p, q) /\ q.permit = p.permit /\ q.body = FALSE
                   /\ Sets(t, v, r, q)
        BY <1>0, BodySets
    <2>2. Shape(v)
        BY ZenonT(30), <1>0, FieldKept DEF Kept
    <2>3. releaseBody(t, r) = u
        BY <1>2 DEF releaseBody
    <2> HIDE DEF v
    <2>4. PermitsFit(v) /\ ReadersFit(v) /\ Active(v) = Active(t)
        BY <1>0, <2>1, SetsFit
    <2>5. Steady(t, p, q)
        <3>1. Handler(t, p)
            BY <1>0 DEF Safe
        <3>2. Handler(t, q)
            BY <2>1, <3>1 DEF Handler, Alike
        <3>3. t.lifecycle = "absent" /\ p.pc \notin {"new", "done"} /\ p.gen # NoGeneration => p.aborted
            BY <1>0 DEF Safe, Drained, Live
        <3> QED BY <2>1, <3>2, <3>3 DEF Steady, Alike
    <2>6. Safe(v) /\ PermitsUsed(v)
        BY <1>0, <2>1, <2>4, <2>5, SetsSafe
    <2>7. /\ Shape(u) /\ Same(v, u) /\ Safe(u) /\ ReadersUsed(u) /\ PermitsUsed(u)
          /\ \A x \in Request \ InBody(v) : u.req[x] = v.req[x]
        BY <2>2, <2>6, DrainBodySafe
    <2>8. v.req[r] = q /\ r \notin InBody(v) /\ Same(t, v)
        BY <2>1 DEF Sets, InBody, Parked
    <2>9. u.req[r] = q /\ Same(t, u)
        BY <2>7, <2>8 DEF Same
    <2> HIDE DEF u
    <2> QED BY <2>1, <2>3, <2>7, <2>9 DEF Good
<1> QED BY <1>1, <1>2

\* A state that differs in its lifecycle alone.
LEMMA LifeSafe ==
    ASSUME NEW t, NEW u, Safe(t), u.req = t.req, u.queue = t.queue, u.bodyQueue = t.bodyQueue,
           u.generation \in Nat, t.generation \in Nat, t.generation <= u.generation,
           Cycle(u), Drained(u)
    PROVE  Safe(u)
<1>1. \A r \in Request : Handler(u, u.req[r])
    <2> SUFFICES ASSUME NEW r \in Request PROVE Handler(u, u.req[r])
        OBVIOUS
    <2>1. Handler(t, t.req[r])
        BY DEF Safe
    <2>2. \A n \in 0 .. t.generation : n \in 0 .. u.generation
        BY SMT
    <2>3. \A n \in 1 .. t.generation : n \in 1 .. u.generation
        BY SMT
    <2> QED BY <2>1, <2>2, <2>3 DEF Handler
<1>2. /\ InQueue(u) = InQueue(t) /\ InBody(u) = InBody(t) /\ Active(u) = Active(t)
      /\ Readers(u) = Readers(t) /\ Sleeping(u) = Sleeping(t) /\ Waiters(u) = Waiters(t)
    BY DEF InQueue, InBody, Active, Readers, Sleeping, Waiters
<1> QED BY <1>1, <1>2 DEF Safe, PermitsFit, ReadersFit, WaitsFit

\* The end of the drain.
LEMMA CheckRecycleGood ==
    ASSUME NEW t, Good(t)
    PROVE  Good(checkRecycle(t))
<1> DEFINE u == [t EXCEPT !.lifecycle = "absent"]
<1>0. Shape(t) /\ Safe(t) /\ PermitsUsed(t) /\ ReadersUsed(t)
    BY DEF Good
<1> SUFFICES ASSUME t.lifecycle = "draining",
                    \A r \in Request : Live(t, r) => t.req[r].gen = NoGeneration
             PROVE  Good(u)
    BY DEF checkRecycle
<1>1. /\ u.lifecycle = "absent" /\ u.req = t.req /\ u.queue = t.queue /\ u.bodyQueue = t.bodyQueue
      /\ u.generation = t.generation /\ u.recycles = t.recycles /\ u.allow = t.allow
    BY SMT, <1>0 DEF Shape
<1>2. Shape(u)
    BY <1>0, LifeKept DEF Kept
<1> HIDE DEF u
<1>3. Cycle(u)
    BY SMT, <1>0, <1>1 DEF Safe, Cycle
<1>4. Drained(u)
    BY <1>1 DEF Drained, Live
<1>5. u.generation \in Nat /\ t.generation \in Nat /\ t.generation <= u.generation
    BY SMT, <1>0, <1>1 DEF Safe, Cycle
<1>6. Safe(u)
    BY <1>0, <1>1, <1>3, <1>4, <1>5, LifeSafe
<1>7. ~Open(u)
    BY SMT, <1>1 DEF Open
<1> QED BY <1>2, <1>6, <1>7 DEF Good, PermitsUsed, ReadersUsed

LEMMA FinishGood ==
    ASSUME NEW t, Good(t), NEW r \in Request, t.req[r].pc \notin Parked
    PROVE  Good(Finish(t, r))
<1> DEFINE u == release(t, r)
           v == releaseBody(u, r)
           w == Move(v, r, "done")
<1>1. Good(u) /\ u.req[r].pc \notin Parked
    BY ReleaseGood
<1> HIDE DEF u
<1>2. Good(v) /\ v.req[r].pc \notin Parked
    BY <1>1, ReleaseBodyGood
<1> HIDE DEF v
<1>3. "done" \in Positions \ (Parked \cup {"new"}) /\ "done" \notin Without
      /\ "done" # "sleep" /\ "done" \notin Barred
    BY SMT DEF Positions, Parked, Queued, Barred, Without
<1>4. Good(w)
    BY <1>2, <1>3, MoveGood
<1> HIDE DEF w
<1>5. Good(checkRecycle(w))
    BY <1>4, CheckRecycleGood
<1> QED BY <1>5 DEF Finish, u, v, w

\* A permit at once.
LEMMA PermitGood ==
    ASSUME NEW t, Good(t), NEW r \in Request, NEW x \in {"admitted", "granted"},
           t.req[r].pc \notin Parked \cup {"done"},
           Cardinality(Active(t)) < MaxActive, t.queue = <<>>
    PROVE  Good([t EXCEPT !.req[r].permit = TRUE, !.req[r].pc = x])
<1> DEFINE p == t.req[r]
           q == [p EXCEPT !.permit = TRUE, !.pc = x]
           u == [t EXCEPT !.req[r].permit = TRUE, !.req[r].pc = x]
<1>0. Shape(t) /\ Safe(t) /\ PermitsUsed(t) /\ ReadersUsed(t) /\ Context(p)
    BY DEF Good, Shape
<1>1. u = [t EXCEPT !.req[r] = q]
    BY <1>0 DEF Shape, Context
<1>2. Context(q) /\ q.pc = x /\ Alike(p, q) /\ q.permit = TRUE /\ q.body = p.body
    <2> HIDE DEF p
    <2> QED BY <1>0 DEF Context, Alike
<1> HIDE DEF q, u
<1>3. Sets(t, u, r, q) /\ Shape(u)
    BY <1>0, <1>1, <1>2, SetsField, FieldsKept DEF Kept, Alike
<1>4. PermitsFit(u)
    <2>1. Active(u) \in SUBSET Request /\ Active(t) \in SUBSET Request /\ Active(u) \subseteq Active(t) \cup {r}
        BY <1>3 DEF Active, Sets
    <2>2. Cardinality(Active(t)) <= MaxActive
        BY <1>0 DEF Safe, PermitsFit
    <2> QED BY <2>1, <2>2, Bounds, OneMore DEF PermitsFit
<1>5. ReadersFit(u) /\ Readers(u) = Readers(t)
    BY <1>0, <1>2, <1>3, SetsFit
<1>6. Steady(t, p, q)
    <2>1. Handler(t, p)
        BY <1>0 DEF Safe
    <2>2. x \in Positions /\ x \notin Without /\ x \notin Parked /\ x # "new" /\ x # "sleep" /\ x \notin Barred
        BY SMT DEF Positions, Without, Parked, Queued, Barred, Resumed, Streaming
    <2>3. TRUE \in BOOLEAN
        OBVIOUS
    <2>4. Handler(t, q)
        BY <1>2, <2>1, <2>2, <2>3 DEF Handler, Alike
    <2>5. t.lifecycle = "absent" /\ p.gen # NoGeneration => p.aborted
        BY <1>0, <2>1 DEF Safe, Drained, Live, Handler
    <2> QED BY <1>2, <2>2, <2>4, <2>5 DEF Steady, Alike
<1>7. Safe(u) /\ ReadersUsed(u)
    BY <1>0, <1>3, <1>4, <1>5, <1>6, SetsSafe
<1>8. PermitsUsed(u)
    BY <1>3 DEF PermitsUsed, Sets
<1> QED BY <1>3, <1>7, <1>8 DEF Good, u

\* A lease at once.
LEMMA LeaseGood ==
    ASSUME NEW t, Good(t), NEW r \in Request, t.req[r].pc \notin Parked \cup {"done"},
           ~t.req[r].permit, t.bodyQueue = <<>>, canAcquireBodyReader(t, {r})
    PROVE  Good([t EXCEPT !.req[r].body = TRUE, !.req[r].pc = "reading"])
<1> DEFINE p == t.req[r]
           q == [p EXCEPT !.body = TRUE, !.pc = "reading"]
           u == [t EXCEPT !.req[r].body = TRUE, !.req[r].pc = "reading"]
<1>0. Shape(t) /\ Safe(t) /\ PermitsUsed(t) /\ ReadersUsed(t) /\ Context(p)
    BY DEF Good, Shape
<1>1. u = [t EXCEPT !.req[r] = q]
    BY <1>0 DEF Shape, Context
<1>2. Context(q) /\ q.pc = "reading" /\ Alike(p, q) /\ q.permit = p.permit /\ q.body = TRUE
    <2> HIDE DEF p
    <2> QED BY <1>0 DEF Context, Alike
<1> HIDE DEF q, u
<1>3. Sets(t, u, r, q) /\ Shape(u)
    BY <1>0, <1>1, <1>2, SetsField, FieldsKept DEF Kept, Alike
<1>4. PermitsFit(u) /\ Active(u) = Active(t)
    BY <1>0, <1>2, <1>3, SetsFit
<1>5. ReadersFit(u)
    <2>1. Readers(u) = Readers(t) \cup {r}
        BY <1>2, <1>3 DEF Readers, Sets
    <2> QED BY <2>1 DEF ReadersFit, canAcquireBodyReader
<1>6. Steady(t, p, q)
    <2>1. Handler(t, p)
        BY <1>0 DEF Safe
    <2>2. "reading" \in Positions /\ "reading" \notin Parked /\ "reading" \notin Barred
        BY SMT DEF Positions, Parked, Queued, Barred
    <2>3. TRUE \in BOOLEAN
        OBVIOUS
    <2>4. Handler(t, q)
        BY <1>2, <2>1, <2>2, <2>3 DEF Handler, Alike
    <2>5. t.lifecycle = "absent" /\ p.gen # NoGeneration => p.aborted
        BY <1>0, <2>1 DEF Safe, Drained, Live, Handler
    <2> QED BY <1>2, <2>2, <2>4, <2>5 DEF Steady, Alike
<1>7. Safe(u) /\ PermitsUsed(u)
    BY <1>0, <1>3, <1>4, <1>5, <1>6, SetsSafe
<1>8. ReadersUsed(u)
    BY <1>3 DEF ReadersUsed, Sets
<1> QED BY <1>3, <1>7, <1>8 DEF Good, u

\* A request that joins a queue.
Joins(t, u, r, x) ==
    /\ Same(t, u) /\ \A y \in Request \ {r} : u.req[y] = t.req[y]
    /\ u.req[r].pc = x /\ Differs(t.req[r], u.req[r])

LEMMA JoinsKeeps ==
    ASSUME NEW t, NEW u, Safe(t), NEW r \in Request, NEW x \in Parked, Joins(t, u, r, x),
           t.req[r].pc \notin Parked \cup {"done"}, ~t.req[r].permit
    PROVE  /\ \A y \in Request : Handler(u, u.req[y])
           /\ Cycle(u) /\ PermitsFit(u) /\ ReadersFit(u) /\ WaitsFit(u) /\ Drained(u)
           /\ Active(u) = Active(t) /\ Readers(u) = Readers(t) /\ (Open(u) <=> Open(t))
           /\ InQueue(u) = IF x \in Queued THEN InQueue(t) \cup {r} ELSE InQueue(t)
           /\ InBody(u) = IF x \in Queued THEN InBody(t) ELSE InBody(t) \cup {r}
           /\ r \notin InQueue(t) /\ r \notin InBody(t)
<1>1. Same(t, u) /\ (\A y \in Request \ {r} : u.req[y] = t.req[y])
      /\ u.req[r].pc = x /\ Differs(t.req[r], u.req[r])
    BY DEF Joins
<1>2. x \in Positions /\ x \notin Barred /\ x # "sleep" /\ x # "new"
      /\ (x \in Queued \/ x = "bodyqueue") /\ (x \in Queued => x # "bodyqueue")
    BY SMT DEF Positions, Barred, Parked, Queued
<1>3. \A y \in Request : Handler(u, u.req[y])
    <2>1. Handler(t, t.req[r])
        BY DEF Safe
    <2>2. Handler(t, u.req[r])
        BY <1>1, <1>2, <2>1 DEF Handler, Differs, Alike
    <2> QED BY <1>1, <2>2, SameCycle DEF Safe
<1>4. Cycle(u) /\ (Open(u) <=> Open(t))
    BY <1>1, SameCycle DEF Safe
<1>5. Active(u) = Active(t) /\ Readers(u) = Readers(t)
    BY <1>1 DEF Active, Readers, Differs
<1>6. Sleeping(u) \in SUBSET Sleeping(t) /\ Waiters(u) \in SUBSET Waiters(t)
    BY <1>1, <1>2 DEF Sleeping, Waiters
<1>7. WaitsFit(u)
    <2>1. /\ Sleeping(t) \in SUBSET Request /\ Waiters(t) \in SUBSET Request
          /\ Sleeping(u) \in SUBSET Request /\ Waiters(u) \in SUBSET Request
          /\ Sleeping(u) \subseteq Sleeping(t) \cup {r} /\ Waiters(u) \subseteq Waiters(t) \cup {r}
          /\ r \notin Sleeping(u) /\ r \notin Waiters(u)
        BY <1>1, <1>2, <1>6 DEF Sleeping, Waiters
    <2>2. Cardinality(Sleeping(t)) <= MaxRecoveryWaits /\ Cardinality(Waiters(t)) <= MaxQueue
        BY DEF Safe, WaitsFit
    <2>3. Cardinality(Sleeping(u)) <= MaxRecoveryWaits
        BY <2>1, <2>2, Bounds, OneMore
    <2>4. Cardinality(Waiters(u)) <= MaxQueue
        BY <2>1, <2>2, Bounds, OneMore
    <2> QED BY <2>3, <2>4 DEF WaitsFit
<1>8. Drained(u)
    <2>1. \A y \in Request : /\ u.req[y].gen = t.req[y].gen
                             /\ t.req[y].aborted => u.req[y].aborted
                             /\ Live(u, y) => Live(t, y) \/ t.req[y].pc = "new"
        BY <1>1 DEF Differs, Alike, Live
    <2> QED BY <1>1, <2>1, DrainedKept DEF Safe
<1>9. PermitsFit(u) /\ ReadersFit(u)
    BY <1>5 DEF Safe, PermitsFit, ReadersFit
<1>10. /\ InQueue(u) = IF x \in Queued THEN InQueue(t) \cup {r} ELSE InQueue(t)
       /\ InBody(u) = IF x \in Queued THEN InBody(t) ELSE InBody(t) \cup {r}
       /\ r \notin InQueue(t) /\ r \notin InBody(t)
    <2>1. \A y \in Request \ {r} : u.req[y].pc = t.req[y].pc
        BY <1>1
    <2>2. t.req[r].pc \notin Queued /\ t.req[r].pc # "bodyqueue"
        BY DEF Parked
    <2>3. r \notin InQueue(t) /\ r \notin InBody(t)
        BY <2>2 DEF InQueue, InBody
    <2>4. CASE x \in Queued
        <3>1. InQueue(u) = InQueue(t) \cup {r}
            BY <1>1, <2>1, <2>4 DEF InQueue
        <3>2. InBody(u) = InBody(t)
            BY <1>1, <1>2, <2>1, <2>2, <2>4 DEF InBody
        <3> QED BY <2>3, <2>4, <3>1, <3>2
    <2>5. CASE x \notin Queued
        <3>1. InQueue(u) = InQueue(t)
            BY <1>1, <2>1, <2>2, <2>5 DEF InQueue
        <3>2. InBody(u) = InBody(t) \cup {r}
            BY <1>1, <1>2, <2>1, <2>5 DEF InBody
        <3> QED BY <2>3, <2>5, <3>1, <3>2
    <2> QED BY <2>4, <2>5
<1> QED BY <1>3, <1>4, <1>5, <1>7, <1>8, <1>9, <1>10

-----------------------------------------------------------------------------
(***************************************************************************)
(* The handlers.                                                           *)
(***************************************************************************)

\* acquire, wherever it is called from.
LEMMA AcquireGood ==
    ASSUME NEW t, Good(t), NEW r \in Request, NEW queued \in Queued,
           NEW granted \in {"admitted", "granted"},
           t.req[r].pc \notin Parked \cup {"done"}, ~t.req[r].permit
    PROVE  Good(acquire(t, r, queued, granted))
<1> DEFINE m == Move(t, r, queued)
           c == [m EXCEPT !.queue = Append(m.queue, r)]
           a == [t EXCEPT !.req[r].permit = TRUE, !.req[r].pc = granted]
<1>0. Shape(t) /\ Safe(t) /\ PermitsUsed(t) /\ ReadersUsed(t)
    BY DEF Good
<1>f. Good(Finish(t, r))
    BY FinishGood
<1>1. ASSUME ~(/\ Cardinality(Active(t)) < MaxActive /\ t.queue = <<>>
               /\ Open(t) \/ Mine(t, r)), ~(Len(t.queue) >= MaxQueue)
      PROVE  Good(c)
    <2>1. PICK q : q.pc = queued /\ Differs(t.req[r], q) /\ Sets(t, m, r, q)
        BY <1>0, MoveSets
    <2>2. Shape(m)
        BY <1>0, MoveKept DEF Kept
    <2> HIDE DEF m
    <2>3. /\ c.queue = Append(t.queue, r) /\ c.bodyQueue = t.bodyQueue /\ c.req = m.req /\ Same(m, c)
        BY SMT, <2>1, <2>2 DEF Shape, Same, Sets
    <2>4. Shape(c)
        BY <2>2, QueueKept DEF Kept
    <2> HIDE DEF c
    <2>5. queued \in Parked /\ Joins(t, c, r, queued)
        BY <2>1, <2>3 DEF Joins, Sets, Same, Parked
    <2>6. /\ \A y \in Request : Handler(c, c.req[y])
          /\ Cycle(c) /\ PermitsFit(c) /\ ReadersFit(c) /\ WaitsFit(c) /\ Drained(c)
          /\ Active(c) = Active(t) /\ Readers(c) = Readers(t) /\ (Open(c) <=> Open(t))
          /\ InQueue(c) = InQueue(t) \cup {r} /\ InBody(c) = InBody(t) /\ r \notin InQueue(t)
        BY <1>0, <2>5, JoinsKeeps
    <2>7. Line(c.queue, InQueue(c)) /\ Line(c.bodyQueue, InBody(c))
        BY <1>0, <1>1, <2>3, <2>6, LineAppend DEF Safe
    <2>8. Safe(c)
        BY <2>6, <2>7 DEF Safe
    <2>9. ReadersUsed(c)
        BY <1>0, <2>3, <2>6 DEF ReadersUsed, canAcquireBodyReader
    <2>10. PermitsUsed(c)
        <3>1. Open(t) => ~(Cardinality(Active(t)) < MaxActive) \/ Cardinality(Active(t)) = MaxActive
            BY <1>0, <1>1 DEF PermitsUsed
        <3>2. Cardinality(Active(t)) \in Nat /\ Cardinality(Active(t)) <= MaxActive
            BY <1>0, Finite DEF Safe, PermitsFit, Active
        <3>3. Open(t) => Cardinality(Active(t)) = MaxActive
            BY SMT, <3>1, <3>2, Bounds
        <3> QED BY <2>6, <3>3 DEF PermitsUsed
    <2> QED BY <2>4, <2>8, <2>9, <2>10 DEF Good
<1>2. ASSUME Cardinality(Active(t)) < MaxActive, t.queue = <<>> PROVE Good(a)
    BY <1>2, PermitGood
<1> DEFINE now == /\ Cardinality(Active(t)) < MaxActive /\ t.queue = <<>>
                  /\ Open(t) \/ Mine(t, r)
<1>3. acquire(t, r, queued, granted) =
        IF t.req[r].aborted THEN Finish(t, r)
        ELSE IF now THEN a
        ELSE IF Len(t.queue) >= MaxQueue THEN Finish(t, r) ELSE c
    BY SMT DEF acquire
<1> HIDE DEF a, c
<1> QED BY <1>f, <1>1, <1>2, <1>3

LEMMA AcquireBodyGood ==
    ASSUME NEW t, Good(t), NEW r \in Request,
           t.req[r].pc \notin Parked \cup {"done"}, ~t.req[r].permit
    PROVE  Good(acquireBodyReader(t, r))
<1> DEFINE m == Move(t, r, "bodyqueue")
           c == [m EXCEPT !.bodyQueue = Append(m.bodyQueue, r)]
           a == [t EXCEPT !.req[r].body = TRUE, !.req[r].pc = "reading"]
           now == t.bodyQueue = <<>> /\ canAcquireBodyReader(t, {r})
<1>0. Shape(t) /\ Safe(t) /\ PermitsUsed(t) /\ ReadersUsed(t)
    BY DEF Good
<1>f. Good(Finish(t, r))
    BY FinishGood
<1>1. ASSUME ~now, ~(Len(t.bodyQueue) >= MaxQueue)
      PROVE  Good(c)
    <2>1. PICK q : q.pc = "bodyqueue" /\ Differs(t.req[r], q) /\ Sets(t, m, r, q)
        BY <1>0, MoveSets
    <2>2. Shape(m)
        BY <1>0, MoveKept DEF Kept
    <2> HIDE DEF m
    <2>3. /\ c.bodyQueue = Append(t.bodyQueue, r) /\ c.queue = t.queue /\ c.req = m.req /\ Same(m, c)
        BY SMT, <2>1, <2>2 DEF Shape, Same, Sets
    <2>4. Shape(c)
        BY <2>2, QueueKept DEF Kept
    <2> HIDE DEF c
    <2>5. "bodyqueue" \in Parked /\ "bodyqueue" \notin Queued /\ Joins(t, c, r, "bodyqueue")
        <3>1. "bodyqueue" \in Parked /\ "bodyqueue" \notin Queued
            BY SMT DEF Parked, Queued
        <3> QED BY <2>1, <2>3, <3>1 DEF Joins, Sets, Same
    <2>6. /\ \A y \in Request : Handler(c, c.req[y])
          /\ Cycle(c) /\ PermitsFit(c) /\ ReadersFit(c) /\ WaitsFit(c) /\ Drained(c)
          /\ Active(c) = Active(t) /\ Readers(c) = Readers(t) /\ (Open(c) <=> Open(t))
          /\ InQueue(c) = InQueue(t) /\ InBody(c) = InBody(t) \cup {r} /\ r \notin InBody(t)
        BY <1>0, <2>5, JoinsKeeps
    <2>7. Line(c.queue, InQueue(c)) /\ Line(c.bodyQueue, InBody(c))
        BY <1>0, <1>1, <2>3, <2>6, LineAppend DEF Safe
    <2>8. Safe(c)
        BY <2>6, <2>7 DEF Safe
    <2>9. PermitsUsed(c)
        BY <1>0, <2>3, <2>6 DEF PermitsUsed
    <2>10. ReadersUsed(c)
        <3>1. t.bodyQueue \in Seq(Request)
            BY <1>0 DEF Safe, Line
        <3>2. Head(c.bodyQueue) = IF t.bodyQueue = <<>> THEN r ELSE Head(t.bodyQueue)
            BY SMT, <2>3, <3>1
        <3>3. CASE t.bodyQueue = <<>>
            BY <1>1, <2>6, <3>2, <3>3 DEF ReadersUsed, canAcquireBodyReader
        <3>4. CASE t.bodyQueue # <<>>
            BY <1>0, <2>6, <3>2, <3>4 DEF ReadersUsed, canAcquireBodyReader
        <3> QED BY <3>3, <3>4
    <2> QED BY <2>4, <2>8, <2>9, <2>10 DEF Good
<1>2. ASSUME now PROVE Good(a)
    BY <1>2, LeaseGood
<1>3. acquireBodyReader(t, r) =
        IF t.req[r].aborted THEN Finish(t, r)
        ELSE IF now THEN a
        ELSE IF Len(t.bodyQueue) >= MaxQueue THEN Finish(t, r) ELSE c
    BY SMT DEF acquireBodyReader
<1> HIDE DEF a, c, now
<1> QED BY <1>f, <1>1, <1>2, <1>3

\* A dispatch, of a request that may go to the upstream of this generation.
MayGo(t, r) ==
    \/ t.req[r].gen # NoGeneration /\ Mine(t, r) /\ t.lifecycle # "absent"
    \/ t.req[r].gen = NoGeneration /\ Open(t)

LEMMA DispatchedGood ==
    ASSUME NEW t, Good(t), NEW r \in Request, t.req[r].pc \notin Parked, MayGo(t, r)
    PROVE  Good(dispatched(t, r))
<1> DEFINE p == t.req[r]
           g == IF p.gen = NoGeneration THEN t.generation ELSE p.gen
           q == [p EXCEPT !.pc = "fetch", !.gen = g, !.sent = p.sent \cup {t.generation}]
           u == dispatched(t, r)
<1>0. Shape(t) /\ Safe(t) /\ PermitsUsed(t) /\ ReadersUsed(t) /\ Context(p)
    BY DEF Good, Shape
<1>1. u = [t EXCEPT !.req[r] = q]
    BY <1>0 DEF dispatched, Shape, Context
<1>2. /\ Context(q) /\ q.pc = "fetch" /\ q.gen = g /\ q.sent = p.sent \cup {t.generation}
      /\ q.attempt = p.attempt /\ q.permit = p.permit /\ q.body = p.body /\ q.aborted = p.aborted
    <2> HIDE DEF p, g
    <2> QED BY <1>0 DEF Context
<1> HIDE DEF q, u
<1>3. Sets(t, u, r, q)
    BY <1>0, <1>1, SetsField
<1>4. Shape(u)
    BY <1>0, <1>1, <1>2 DEF Shape
<1>5. PermitsFit(u) /\ ReadersFit(u) /\ Active(u) = Active(t) /\ Readers(u) = Readers(t)
    BY <1>0, <1>2, <1>3, SetsFit
<1>6. Steady(t, p, q)
    <2>1. Handler(t, p) /\ Cycle(t)
        BY <1>0 DEF Safe
    <2>2. "fetch" \in Positions /\ "fetch" \notin Parked /\ "fetch" \notin Barred /\ "fetch" \notin Without
        BY SMT DEF Positions, Parked, Queued, Barred, Streaming, Without
    <2>3. t.generation \in 1 .. t.generation /\ t.generation \in 0 .. t.generation
        BY SMT, <2>1 DEF Cycle
    <2>4. Handler(t, q)
        <3>1. g \in 0 .. t.generation
            BY <2>1, <2>3 DEF Handler
        <3>2. p.sent \cup {t.generation} \subseteq 1 .. t.generation
            BY <2>1, <2>3 DEF Handler
        <3> HIDE DEF g
        <3> QED BY <1>2, <2>1, <2>2, <3>1, <3>2 DEF Handler
    <2>5. t.lifecycle # "absent"
        BY SMT DEF MayGo, Open
    <2> QED BY <1>2, <2>2, <2>4, <2>5 DEF Steady
<1>7. Safe(u) /\ PermitsUsed(u) /\ ReadersUsed(u)
    BY <1>0, <1>3, <1>5, <1>6, SetsSafe
<1> QED BY <1>4, <1>7 DEF Good, u

LEMMA WaitForServingGood ==
    ASSUME NEW t, Good(t), NEW r \in Request, t.req[r].pc \notin Parked \cup {"done"},
           NEW passed, MayGo(t, r) => Good(passed), NEW barred \in Barred,
           barred = "barrier" => ~t.req[r].permit
    PROVE  Good(waitForServing(t, r, passed, barred))
<1>1. Good(Finish(t, r))
    BY FinishGood
<1>2. ~(Cardinality(Waiters(t)) >= MaxQueue) => Good(Move(t, r, barred))
    <2>1. Cardinality(Waiters(t)) \in Nat
        BY Finite DEF Waiters
    <2>2. ~(Cardinality(Waiters(t)) >= MaxQueue) => Cardinality(Waiters(t)) < MaxQueue
        BY SMT, <2>1, Bounds
    <2>3. barred \in Positions \ (Parked \cup {"new"}) /\ barred # "done" /\ barred # "sleep"
          /\ (barred \in Without => barred = "barrier")
        BY SMT DEF Positions, Parked, Queued, Barred, Without
    <2> QED BY <2>2, <2>3, MoveGood
<1>3. waitForServing(t, r, passed, barred) =
        IF t.req[r].gen # NoGeneration
        THEN IF Mine(t, r) /\ t.lifecycle # "absent" THEN passed ELSE Finish(t, r)
        ELSE IF Open(t) THEN passed
        ELSE IF t.lifecycle = "shutdown" \/ Cardinality(Waiters(t)) >= MaxQueue
             THEN Finish(t, r) ELSE Move(t, r, barred)
    BY SMT DEF waitForServing
<1> QED BY <1>1, <1>2, <1>3 DEF MayGo

LEMMA FetchGood ==
    ASSUME NEW t, Good(t), NEW r \in Request, t.req[r].pc \notin Parked \cup {"done"}
    PROVE  Good(fetchUpstream(t, r))
<1>1. Good(Finish(t, r))
    BY FinishGood
<1>2. MayGo(t, r) => Good(dispatched(t, r))
    BY DispatchedGood
<1>3. "fetchwait" \in Barred /\ "fetchwait" # "barrier"
    BY SMT DEF Barred
<1>4. Good(waitForServing(t, r, dispatched(t, r), "fetchwait"))
    BY <1>2, <1>3, WaitForServingGood
<1> QED BY <1>1, <1>4 DEF fetchUpstream

\* The requests in R are aborted and taken from the queues.
Failed(q, p) ==
    /\ p.gen = q.gen /\ p.sent = q.sent /\ p.attempt = q.attempt
    /\ p.permit = q.permit /\ p.body = q.body
    /\ p.aborted = TRUE /\ p.pc = "failing"
Drops(t, u, R) ==
    /\ Same(t, u)
    /\ u.queue = Keep(t.queue, Request \ R) /\ u.bodyQueue = Keep(t.bodyQueue, Request \ R)
    /\ \A r \in R : Failed(t.req[r], u.req[r])
    /\ \A r \in Request \ R : u.req[r] = t.req[r]

LEMMA DropsSafe ==
    ASSUME NEW t, NEW u, NEW R \in SUBSET Request, Safe(t), Drops(t, u, R)
    PROVE  /\ Safe(u)
           /\ PermitsUsed(t) => PermitsUsed(u)
           /\ R \cap InBody(t) = {} /\ ReadersUsed(t) => ReadersUsed(u)
<1>1. /\ Same(t, u) /\ (\A r \in R : Failed(t.req[r], u.req[r]))
      /\ \A r \in Request \ R : u.req[r] = t.req[r]
    BY DEF Drops
<1>2. "failing" \in Positions /\ "failing" \notin Without /\ "failing" \notin Queued
      /\ "failing" \notin Barred /\ TRUE \in BOOLEAN
    BY SMT DEF Positions, Without, Queued, Barred
<1>3. \A r \in Request : Handler(u, u.req[r])
    <2>1. \A r \in R : Handler(t, u.req[r])
        BY <1>1, <1>2 DEF Safe, Handler, Failed
    <2> QED BY <1>1, <2>1, SameCycle DEF Safe
<1>4. Cycle(u) /\ (Open(u) <=> Open(t))
    BY <1>1, SameCycle DEF Safe
<1>5. Active(u) = Active(t) /\ Readers(u) = Readers(t)
    BY <1>1 DEF Active, Readers, Failed
<1>6. /\ InQueue(u) = InQueue(t) \cap (Request \ R) /\ InBody(u) = InBody(t) \cap (Request \ R)
    <2>1. \A r \in R : u.req[r].pc \notin Queued /\ u.req[r].pc # "bodyqueue"
        BY <1>1, <1>2 DEF Failed
    <2>2. \A r \in Request \ R : u.req[r].pc = t.req[r].pc
        BY <1>1
    <2>3. InQueue(u) = InQueue(t) \cap (Request \ R)
        BY <2>1, <2>2 DEF InQueue
    <2>4. InBody(u) = InBody(t) \cap (Request \ R)
        BY <2>1, <2>2 DEF InBody
    <2> QED BY <2>3, <2>4
<1>7. Line(u.queue, InQueue(u)) /\ Line(u.bodyQueue, InBody(u))
    <2>1. Line(t.queue, InQueue(t)) /\ Line(t.bodyQueue, InBody(t))
        BY DEF Safe
    <2>2. Line(Keep(t.queue, Request \ R), InQueue(u)) /\ Line(Keep(t.bodyQueue, Request \ R), InBody(u))
        <3> DEFINE G == Request \ R
        <3>1. InQueue(u) = InQueue(t) \cap G /\ InBody(u) = InBody(t) \cap G
            BY <1>6
        <3> HIDE DEF G
        <3>2. Line(Keep(t.queue, G), InQueue(t) \cap G)
            BY <2>1, LineKeep
        <3>3. Line(Keep(t.bodyQueue, G), InBody(t) \cap G)
            BY <2>1, LineKeep
        <3> QED BY <3>1, <3>2, <3>3 DEF G
    <2> QED BY <2>2 DEF Drops
<1>8. WaitsFit(u)
    <2>1. Sleeping(u) \in SUBSET Sleeping(t) /\ Waiters(u) \in SUBSET Waiters(t)
        BY <1>1, <1>2 DEF Sleeping, Waiters, Failed
    <2>2. /\ Sleeping(t) \in SUBSET Request /\ Waiters(t) \in SUBSET Request
          /\ Sleeping(u) \in SUBSET Request /\ Waiters(u) \in SUBSET Request
        BY DEF Sleeping, Waiters
    <2>3. /\ IsFiniteSet(Sleeping(t)) /\ Cardinality(Sleeping(t)) \in Nat /\ Cardinality(Sleeping(u)) \in Nat
          /\ IsFiniteSet(Waiters(t)) /\ Cardinality(Waiters(t)) \in Nat /\ Cardinality(Waiters(u)) \in Nat
        BY <2>2, Finite
    <2>4. /\ Cardinality(Sleeping(u)) <= Cardinality(Sleeping(t))
          /\ Cardinality(Waiters(u)) <= Cardinality(Waiters(t))
        BY <2>1, <2>3, FS_Subset
    <2>5. Cardinality(Sleeping(t)) <= MaxRecoveryWaits /\ Cardinality(Waiters(t)) <= MaxQueue
        BY DEF Safe, WaitsFit
    <2>6. Cardinality(Sleeping(u)) <= MaxRecoveryWaits /\ Cardinality(Waiters(u)) <= MaxQueue
        BY SMT, <2>3, <2>4, <2>5, Bounds
    <2> QED BY <2>6 DEF WaitsFit
<1>9. Drained(u)
    BY <1>1 DEF Safe, Drained, Same, Failed, Live
<1>10. PermitsFit(u) /\ ReadersFit(u)
    BY <1>5 DEF Safe, PermitsFit, ReadersFit
<1>11. Safe(u)
    BY <1>3, <1>4, <1>7, <1>8, <1>9, <1>10 DEF Safe
<1>12. PermitsUsed(t) => PermitsUsed(u)
    <2>1. u.queue # <<>> => t.queue # <<>>
        BY <1>6, <1>7, LineEmpty DEF Safe
    <2> QED BY <1>4, <1>5, <2>1 DEF PermitsUsed
<1>13. R \cap InBody(t) = {} /\ ReadersUsed(t) => ReadersUsed(u)
    <2> SUFFICES ASSUME R \cap InBody(t) = {}, ReadersUsed(t) PROVE ReadersUsed(u)
        OBVIOUS
    <2>1. InBody(t) \subseteq Request \ R
        BY DEF InBody
    <2>2. u.bodyQueue = t.bodyQueue
        BY <2>1, LineKeep DEF Drops, Safe
    <2> QED BY <1>4, <1>5, <2>2 DEF ReadersUsed, canAcquireBodyReader
<1> QED BY <1>11, <1>12, <1>13

LEMMA AbortGood ==
    ASSUME NEW t, Good(t), NEW r \in Request
    PROVE  Good(Abort(t, r))
<1> DEFINE p == t.req[r]
           q == [p EXCEPT !.aborted = TRUE, !.pc = "failing"]
           a == Keep(t.queue, Request \ {r})
           b == Keep(t.bodyQueue, Request \ {r})
           v == [t EXCEPT !.req[r] = q]
           u == [v EXCEPT !.queue = a, !.bodyQueue = b]
<1>0. Shape(t) /\ Safe(t) /\ PermitsUsed(t) /\ ReadersUsed(t) /\ Context(p)
    BY DEF Good, Shape
<1>1. Abort(t, r) = IF p.pc = "bodyqueue" THEN drainBodyReaderQueue(u) ELSE u
    <2> HIDE DEF a, b
    <2>1. [t EXCEPT !.req[r].aborted = TRUE, !.req[r].pc = "failing", !.queue = a,
                    !.bodyQueue = b] = u
        BY <1>0 DEF Shape, Context
    <2> HIDE DEF u
    <2> QED BY SMT, <2>1 DEF Abort, a, b
<1>2. Context(q) /\ Failed(p, q)
    <2> HIDE DEF p
    <2> QED BY <1>0 DEF Context, Failed
<1> HIDE DEF a, b, q
<1>3. Sets(t, v, r, q) /\ Shape(v)
    BY <1>0, <1>2, SetsField, FieldsKept DEF Kept, Failed
<1> HIDE DEF v
<1>4. u.req = v.req /\ u.queue = a /\ u.bodyQueue = b /\ Same(v, u)
    BY <1>3 DEF Shape, Same
<1>5. Shape(u)
    BY <1>3, QueuesKept DEF Kept
<1> HIDE DEF u
<1>6. Drops(t, u, {r})
    BY <1>2, <1>3, <1>4 DEF Drops, Sets, Same, a, b
<1>7. {r} \in SUBSET Request /\ (p.pc # "bodyqueue" => {r} \cap InBody(t) = {})
    BY DEF InBody
<1>8. Safe(u) /\ PermitsUsed(u) /\ (p.pc # "bodyqueue" => ReadersUsed(u))
    BY <1>0, <1>6, <1>7, DropsSafe
<1>9. Good(drainBodyReaderQueue(u))
    BY <1>5, <1>8, DrainBodySafe DEF Good
<1> QED BY <1>1, <1>5, <1>8, <1>9 DEF Good

LEMMA AbortAllDrops ==
    ASSUME NEW t, Shape(t), NEW R \in SUBSET Request
    PROVE  Shape(AbortAll(t, R)) /\ Drops(t, AbortAll(t, R), R)
<1> DEFINE a == Keep(t.queue, Request \ R)
           b == Keep(t.bodyQueue, Request \ R)
           failed(q) == [q EXCEPT !.aborted = TRUE, !.pc = "failing"]
           f == [r \in Request |-> IF r \in R THEN failed(t.req[r]) ELSE t.req[r]]
           u == AbortAll(t, R)
<1>1. u = [t EXCEPT !.queue = a, !.bodyQueue = b, !.req = f]
    BY SMT DEF AbortAll
<1>2. Shape(u)
    BY AbortAllKept DEF Kept
<1> HIDE DEF a, b
<1>3. u.queue = a /\ u.bodyQueue = b /\ u.req = f /\ Same(t, u)
    BY <1>1 DEF Shape, Same
<1>4. \A r \in R : Failed(t.req[r], u.req[r])
    <2> SUFFICES ASSUME NEW r \in R PROVE Failed(t.req[r], u.req[r])
        OBVIOUS
    <2> DEFINE q == t.req[r]
    <2>1. Context(q) /\ u.req[r] = failed(q)
        BY <1>3 DEF Shape
    <2> HIDE DEF q
    <2>2. Failed(q, failed(q))
        BY <2>1 DEF Context, Failed
    <2> QED BY <2>1, <2>2 DEF q
<1>5. \A r \in Request \ R : u.req[r] = t.req[r]
    BY <1>3
<1> HIDE DEF u
<1> QED BY <1>2, <1>3, <1>4, <1>5 DEF Drops, a, b, u

\* The requests behind the barrier go on, or fail.
Shifted(q, p) ==
    \/ p = q
    \/ /\ q.pc \in Barred /\ Differs(q, p) /\ p.pc \in {"admit", "dispatch", "failing"}
       /\ p.pc = "admit" => q.pc = "barrier"
Shifts(t, u) ==
    /\ Same(t, u) /\ u.queue = t.queue /\ u.bodyQueue = t.bodyQueue
    /\ \A r \in Request : Shifted(t.req[r], u.req[r])

LEMMA ShiftsSafe ==
    ASSUME NEW t, NEW u, Safe(t), Shifts(t, u)
    PROVE  /\ Safe(u) /\ Active(u) = Active(t) /\ Readers(u) = Readers(t)
           /\ PermitsUsed(t) => PermitsUsed(u)
           /\ ReadersUsed(t) => ReadersUsed(u)
<1>1. /\ Same(t, u) /\ u.queue = t.queue /\ u.bodyQueue = t.bodyQueue
      /\ \A r \in Request : Shifted(t.req[r], u.req[r])
    BY DEF Shifts
<1>2. \A x \in {"admit", "dispatch", "failing"} :
        /\ x \in Positions /\ x \notin Parked /\ x \notin Barred /\ x # "sleep" /\ x # "new"
        /\ x \in Without => x = "admit"
    BY SMT DEF Positions, Parked, Queued, Barred, Without, Resumed
<1>3. \A x \in Barred : x \notin Parked /\ x # "sleep" /\ x \notin {"new", "done"}
    BY SMT DEF Barred, Parked, Queued
<1>b. "barrier" \in Without
    BY SMT DEF Without
<1>4. ASSUME NEW r \in Request
      PROVE  /\ Handler(t, u.req[r])
             /\ u.req[r].permit = t.req[r].permit /\ u.req[r].body = t.req[r].body
             /\ u.req[r].gen = t.req[r].gen /\ u.req[r].aborted = t.req[r].aborted
             /\ u.req[r].pc \in Queued <=> t.req[r].pc \in Queued
             /\ u.req[r].pc = "bodyqueue" <=> t.req[r].pc = "bodyqueue"
             /\ u.req[r].pc = "sleep" => t.req[r].pc = "sleep"
             /\ u.req[r].pc \in Barred => t.req[r].pc \in Barred
             /\ Live(u, r) => Live(t, r) \/ t.req[r].pc = "new"
    <2>1. Shifted(t.req[r], u.req[r]) /\ Handler(t, t.req[r])
        BY <1>1, <1>4 DEF Safe
    <2>2. CASE u.req[r] = t.req[r]
        BY <2>1, <2>2 DEF Live
    <2>3. CASE u.req[r] # t.req[r]
        <3> DEFINE q == t.req[r]
                   p == u.req[r]
        <3>1. /\ q.pc \in Barred /\ Differs(q, p) /\ p.pc \in {"admit", "dispatch", "failing"}
              /\ p.pc = "admit" => q.pc = "barrier"
            BY <2>1, <2>3 DEF Shifted
        <3>2. Live(t, r)
            BY <1>3, <3>1 DEF Live
        <3> HIDE DEF p, q
        <3>3. Handler(t, p)
            BY <1>2, <1>b, <2>1, <3>1 DEF Handler, Differs, Alike, q
        <3> QED BY <1>2, <1>3, <3>1, <3>2, <3>3 DEF Differs, Alike, Parked, p, q
    <2> QED BY <2>2, <2>3
<1>5. \A r \in Request : Handler(u, u.req[r])
    BY <1>1, <1>4, SameCycle
<1>6. Cycle(u) /\ (Open(u) <=> Open(t))
    BY <1>1, SameCycle DEF Safe
<1>7. Active(u) = Active(t) /\ Readers(u) = Readers(t)
    BY <1>4 DEF Active, Readers
<1>8. InQueue(u) = InQueue(t) /\ InBody(u) = InBody(t)
    BY <1>4 DEF InQueue, InBody
<1>9. WaitsFit(u)
    <2>1. Sleeping(u) \in SUBSET Sleeping(t) /\ Waiters(u) \in SUBSET Waiters(t)
        BY <1>4 DEF Sleeping, Waiters
    <2>2. /\ Sleeping(t) \in SUBSET Request /\ Waiters(t) \in SUBSET Request
          /\ Sleeping(u) \in SUBSET Request /\ Waiters(u) \in SUBSET Request
        BY DEF Sleeping, Waiters
    <2>3. /\ IsFiniteSet(Sleeping(t)) /\ Cardinality(Sleeping(t)) \in Nat /\ Cardinality(Sleeping(u)) \in Nat
          /\ IsFiniteSet(Waiters(t)) /\ Cardinality(Waiters(t)) \in Nat /\ Cardinality(Waiters(u)) \in Nat
        BY <2>2, Finite
    <2>4. /\ Cardinality(Sleeping(u)) <= Cardinality(Sleeping(t))
          /\ Cardinality(Waiters(u)) <= Cardinality(Waiters(t))
        BY <2>1, <2>3, FS_Subset
    <2>5. Cardinality(Sleeping(t)) <= MaxRecoveryWaits /\ Cardinality(Waiters(t)) <= MaxQueue
        BY DEF Safe, WaitsFit
    <2>6. Cardinality(Sleeping(u)) <= MaxRecoveryWaits /\ Cardinality(Waiters(u)) <= MaxQueue
        BY SMT, <2>3, <2>4, <2>5, Bounds
    <2> QED BY <2>6 DEF WaitsFit
<1>10. Drained(u)
    <2>1. \A r \in Request : /\ u.req[r].gen = t.req[r].gen
                             /\ t.req[r].aborted => u.req[r].aborted
                             /\ Live(u, r) => Live(t, r) \/ t.req[r].pc = "new"
        BY <1>4
    <2> QED BY <1>1, <2>1, DrainedKept DEF Safe
<1>11. Safe(u)
    BY <1>1, <1>5, <1>6, <1>7, <1>8, <1>9, <1>10 DEF Safe, PermitsFit, ReadersFit
<1>12. PermitsUsed(t) => PermitsUsed(u)
    BY <1>1, <1>6, <1>7 DEF PermitsUsed
<1>13. ReadersUsed(t) => ReadersUsed(u)
    BY <1>1, <1>6, <1>7 DEF ReadersUsed, canAcquireBodyReader
<1> QED BY <1>7, <1>11, <1>12, <1>13

LEMMA BarrierShifts ==
    ASSUME NEW t, Shape(t)
    PROVE  /\ Shape(OpenBarrier(t)) /\ Shifts(t, OpenBarrier(t))
           /\ Shape(FailBarrier(t)) /\ Shifts(t, FailBarrier(t))
<1> DEFINE moved(q, x) == [q EXCEPT !.pc = x]
           f == [r \in Request |->
                    CASE t.req[r].pc = "barrier" -> moved(t.req[r], "admit")
                      [] t.req[r].pc = "fetchwait" -> moved(t.req[r], "dispatch")
                      [] OTHER -> t.req[r]]
           g == [r \in Request |->
                    IF t.req[r].pc \in Barred THEN moved(t.req[r], "failing")
                                              ELSE t.req[r]]
<1>1. OpenBarrier(t) = [t EXCEPT !.req = f] /\ FailBarrier(t) = [t EXCEPT !.req = g]
    BY SMT DEF OpenBarrier, FailBarrier
<1>2. \A h : LET u == [t EXCEPT !.req = h]
             IN  u.req = h /\ Same(t, u) /\ u.queue = t.queue /\ u.bodyQueue = t.bodyQueue
    BY DEF Shape, Same
<1>3. \A r \in Request : \A x : Differs(t.req[r], moved(t.req[r], x)) /\ moved(t.req[r], x).pc = x
    <2> SUFFICES ASSUME NEW r \in Request, NEW x
                 PROVE  Differs(t.req[r], moved(t.req[r], x)) /\ moved(t.req[r], x).pc = x
        OBVIOUS
    <2> DEFINE q == t.req[r]
    <2>1. Context(q)
        BY DEF Shape
    <2> HIDE DEF q
    <2>2. Differs(q, moved(q, x)) /\ moved(q, x).pc = x
        BY <2>1 DEF Context, Differs, Alike
    <2> QED BY <2>2 DEF q
<1> HIDE DEF moved
<1>4. \A r \in Request : Shifted(t.req[r], f[r])
    <2>1. "barrier" \in Barred /\ "fetchwait" \in Barred /\ "barrier" # "fetchwait" /\ "dispatch" # "admit"
        BY SMT DEF Barred
    <2>2. \A r \in Request : f[r] = IF t.req[r].pc = "barrier" THEN moved(t.req[r], "admit")
                                    ELSE IF t.req[r].pc = "fetchwait" THEN moved(t.req[r], "dispatch")
                                    ELSE t.req[r]
        BY SMT, <2>1
    <2> HIDE DEF f
    <2> SUFFICES ASSUME NEW r \in Request PROVE Shifted(t.req[r], f[r])
        OBVIOUS
    <2>3. CASE t.req[r].pc = "barrier"
        BY <1>3, <2>1, <2>2, <2>3 DEF Shifted
    <2>4. CASE t.req[r].pc = "fetchwait"
        BY <1>3, <2>1, <2>2, <2>4 DEF Shifted
    <2>5. CASE t.req[r].pc \notin {"barrier", "fetchwait"}
        BY <2>2, <2>5 DEF Shifted
    <2> QED BY <2>3, <2>4, <2>5
<1>5. \A r \in Request : Shifted(t.req[r], g[r])
    <2>1. "failing" # "admit"
        OBVIOUS
    <2> QED BY <1>3, <2>1 DEF Shifted
<1> HIDE DEF f, g
<1>6. Shifts(t, OpenBarrier(t)) /\ Shifts(t, FailBarrier(t))
    BY <1>1, <1>2, <1>4, <1>5 DEF Shifts
<1>7. Shape(OpenBarrier(t)) /\ Shape(FailBarrier(t))
    BY BarrierKept DEF Kept
<1> QED BY <1>6, <1>7

-----------------------------------------------------------------------------
(***************************************************************************)
(* The actions.                                                            *)
(***************************************************************************)
LEMMA AttemptKept ==
    ASSUME NEW t, Good(t), NEW r \in Request, t.req[r].pc \notin Parked,
           NEW x \in 0 .. MaxAttempts
    PROVE  LET u == [t EXCEPT !.req[r].attempt = x]
           IN  Good(u) /\ u.req[r].pc = t.req[r].pc
<1> DEFINE p == t.req[r]
           q == [p EXCEPT !.attempt = x]
           u == [t EXCEPT !.req[r].attempt = x]
<1>0. Shape(t) /\ Safe(t) /\ PermitsUsed(t) /\ ReadersUsed(t) /\ Context(p)
    BY DEF Good, Shape
<1>1. Sets(t, u, r, q)
    BY <1>0, SetsField
<1>2. Shape(u)
    BY ZenonT(30), <1>0, FieldKept DEF Kept
<1>3. /\ q.pc = p.pc /\ q.gen = p.gen /\ q.sent = p.sent /\ q.aborted = p.aborted
      /\ q.permit = p.permit /\ q.body = p.body /\ q.attempt = x
    <2> HIDE DEF p
    <2> QED BY <1>0 DEF Context
<1> HIDE DEF q, u
<1>4. PermitsFit(u) /\ ReadersFit(u) /\ Active(u) = Active(t) /\ Readers(u) = Readers(t)
    BY <1>0, <1>1, <1>3, SetsFit
<1>5. Steady(t, p, q)
    <2>1. Handler(t, p)
        BY <1>0 DEF Safe
    <2>2. Handler(t, q)
        BY <1>3, <2>1 DEF Handler
    <2>3. t.lifecycle = "absent" /\ p.pc \notin {"new", "done"} /\ p.gen # NoGeneration => p.aborted
        BY <1>0 DEF Safe, Drained, Live
    <2> QED BY <1>3, <2>2, <2>3 DEF Steady
<1>6. Safe(u) /\ PermitsUsed(u) /\ ReadersUsed(u)
    BY <1>0, <1>1, <1>4, <1>5, SetsSafe
<1>7. u.req[r].pc = p.pc
    BY <1>1, <1>3 DEF Sets
<1> QED BY <1>2, <1>6, <1>7 DEF Good, u

\* A handler that is not parked may move on to any later position that holds a permit.
LEMMA MoveOn ==
    ASSUME NEW t, Good(t), NEW r \in Request, t.req[r].pc \notin Parked \cup {"done"}
    PROVE  \A x \in {"done", "send", "peek", "inspect", "forward", "failing", "granted"} :
                Good(Move(t, r, x)) /\ Move(t, r, x).req[r].pc = x
<1> DEFINE X == {"done", "send", "peek", "inspect", "forward", "failing", "granted"}
<1>1. t.req[r].pc \notin Parked /\ t.req[r].pc # "done"
    OBVIOUS
<1>2. \A x \in X : x \in Positions \ (Parked \cup {"new"}) /\ x \notin Without /\ x \notin Barred /\ x # "sleep"
    BY SMT DEF Positions, Streaming, Resumed, Parked, Queued, Barred, Without
<1> HIDE DEF X
<1>3. ASSUME NEW x \in X PROVE Good(Move(t, r, x)) /\ Move(t, r, x).req[r].pc = x
    BY <1>1, <1>2, <1>3, MoveGood
<1> QED BY <1>3 DEF X

LEMMA HandlerGood ==
    ASSUME Good(s), NEW r \in Request, Arrive(r) \/ Handle(r) \/ Fail(r) \/ Aborts(r)
    PROVE  Good(s')
<1> DEFINE p == s.req[r]
<1>0. Handler(s, p)
    BY DEF Good, Safe
<1>p. p.pc \in Without => ~p.permit
    BY <1>0 DEF Handler
<1>x. /\ \A x \in Streaming \cup Resumed \cup {"sleep", "reading", "failing", "new"} :
            x \notin Parked \cup {"done"}
      /\ {"new", "admit", "reading", "sleep"} \subseteq Without
      /\ {"queue1", "queue2"} \subseteq Queued /\ "barrier" \in Barred
    BY SMT DEF Streaming, Resumed, Parked, Queued, Barred, Without
<1>y. \A x \in {"done", "send", "peek", "inspect", "forward", "failing", "granted", "fetch"} :
        x \in Positions \ (Parked \cup {"new"}) /\ x \notin Without /\ x \notin Barred /\ x # "sleep"
    BY SMT DEF Positions, Streaming, Resumed, Parked, Queued, Barred, Without
<1>f. p.pc \notin Parked => Good(Finish(s, r))
    BY FinishGood
<1>m. p.pc \notin Parked \cup {"done"} =>
        \A x \in {"done", "send", "peek", "inspect", "forward", "failing", "granted"} :
            Good(Move(s, r, x)) /\ Move(s, r, x).req[r].pc = x
    BY MoveOn
<1>r. p.pc \notin Parked \cup {"done"} =>
        LET t == release(s, r)
        IN  Good(t) /\ t.req[r].pc = p.pc /\ ~t.req[r].permit
    BY ReleaseGood
<1>1. CASE Arrive(r)
    <2>1. p.pc = "new" /\ p.pc \notin Parked \cup {"done"} /\ ~p.permit
        BY <1>1, <1>p, <1>x DEF Arrive, At
    <2>2. Good(Move(s, r, "done"))
        BY <1>m, <2>1
    <2>3. Good(Move(s, r, "admit"))
        <3>1. "admit" \in Positions \ (Parked \cup {"new"}) /\ "admit" # "sleep" /\ "admit" \notin Barred
            BY SMT DEF Positions, Resumed, Parked, Queued, Barred
        <3> QED BY <2>1, <3>1, MoveGood
    <2>4. Good(waitForServing(s, r, Move(s, r, "admit"), "barrier"))
        BY <1>x, <2>1, <2>3, WaitForServingGood
    <2> QED BY <1>1, <2>2, <2>4 DEF Arrive
<1>2. CASE Admit(r)
    <2>1. p.pc \notin Parked \cup {"done"} /\ ~p.permit
        BY <1>2, <1>p, <1>x DEF Admit, At, Resumed
    <2>2. Good(acquire(s, r, "queue1", "admitted")) /\ Good(acquireBodyReader(s, r))
        BY <1>x, <2>1, AcquireGood, AcquireBodyGood
    <2>3. Good(Finish(s, r))
        BY <1>f, <2>1
    <2> QED BY <1>2, <2>2, <2>3 DEF Admit, bodyPlan
<1>3. CASE ReadBody(r)
    <2> DEFINE t == release(s, r)
    <2>1. p.pc \notin Parked \cup {"done"}
        BY <1>3, <1>x DEF ReadBody, At, Resumed
    <2>2. Good(t) /\ t.req[r].pc \notin Parked \cup {"done"} /\ ~t.req[r].permit
        BY <1>r, <2>1
    <2> HIDE DEF t
    <2>3. Good(Finish(t, r)) /\ Good(acquireBodyReader(t, r))
        BY <2>2, FinishGood, AcquireBodyGood
    <2> QED BY <1>3, <2>3 DEF ReadBody, bodyPlan, t
<1>4. CASE BodyRead(r)
    <2> DEFINE t == [s EXCEPT !.req[r].attempt = 1]
    <2>1. p.pc \notin Parked \cup {"done"} /\ ~p.permit
        BY <1>4, <1>p, <1>x DEF BodyRead, At
    <2>2. Good(acquire(s, r, "queue2", "granted"))
        BY <1>x, <2>1, AcquireGood
    <2>3. 1 \in 0 .. MaxAttempts
        BY SMT, Bounds
    <2>4. Good(t) /\ t.req[r].pc = p.pc
        BY <2>1, <2>3, AttemptKept
    <2>5. s' = IF r \in Limited THEN acquire(s, r, "queue2", "granted") ELSE fetchUpstream(t, r)
        BY <1>4 DEF BodyRead
    <2> HIDE DEF t
    <2>6. Good(fetchUpstream(t, r))
        BY <2>1, <2>4, FetchGood
    <2> QED BY <2>2, <2>5, <2>6
<1>5. CASE Attempt(r)
    <2> DEFINE n == p.attempt + 1
               t == [s EXCEPT !.req[r].attempt = n]
    <2>1. p.pc \notin Parked \cup {"done"}
        BY <1>5, <1>x DEF Attempt, At, Resumed
    <2>2. s' \in {Finish(s, r), IF p.attempt >= MaxAttempts THEN Finish(s, r) ELSE fetchUpstream(t, r)}
        BY <1>5 DEF Attempt
    <2>3. ~(p.attempt >= MaxAttempts) => n \in 0 .. MaxAttempts
        BY SMT, <1>0, Bounds DEF Handler
    <2> HIDE DEF n
    <2>4. ~(p.attempt >= MaxAttempts) => Good(t) /\ t.req[r].pc = p.pc
        BY <2>1, <2>3, AttemptKept
    <2> HIDE DEF t
    <2>5. ~(p.attempt >= MaxAttempts) => Good(fetchUpstream(t, r))
        BY <2>1, <2>4, FetchGood
    <2> QED BY <1>f, <2>1, <2>2, <2>5
<1>6. CASE Dispatch(r)
    <2>1. p.pc \notin Parked \cup {"done"}
        BY <1>6, <1>x DEF Dispatch, At, Resumed
    <2>2. Good(fetchUpstream(s, r))
        BY <2>1, FetchGood
    <2> QED BY <1>6, <1>f, <2>1, <2>2 DEF Dispatch
<1>8. CASE Respond(r)
    <2>1. p.pc \notin Parked \cup {"done"}
        BY <1>8, <1>x DEF Respond, At, Streaming
    <2> DEFINE t == release(s, r)
    <2>2. Good(t) /\ t.req[r].pc = p.pc
        BY <1>r, <2>1
    <2> HIDE DEF t
    <2>3. Good(Move(t, r, "peek"))
        BY <1>y, <2>1, <2>2, MoveGood
    <2> QED BY <1>8, <1>m, <2>1, <2>3 DEF Respond, t
<1>9. CASE Recover(r)
    <2>1. p.pc \notin Parked \cup {"done"}
        BY <1>9, <1>x DEF Recover, At, Streaming
    <2> DEFINE t == release(s, r)
    <2>2. Good(t) /\ t.req[r].pc = p.pc /\ ~t.req[r].permit
        BY <1>r, <2>1
    <2>3. s' \in {Move(t, r, "forward"), planned(t, r), Move(s, r, "send")}
        BY <1>9 DEF Recover
    <2> HIDE DEF t
    <2>4. Good(Move(t, r, "forward"))
        BY <1>y, <2>1, <2>2, MoveGood
    <2>5. ~(Cardinality(Sleeping(t)) >= MaxRecoveryWaits) => Good(Move(t, r, "sleep"))
        <3>1. Cardinality(Sleeping(t)) \in Nat
            BY Finite DEF Sleeping
        <3>2. ~(Cardinality(Sleeping(t)) >= MaxRecoveryWaits) => Cardinality(Sleeping(t)) < MaxRecoveryWaits
            BY SMT, <3>1, Bounds
        <3>3. "sleep" \in Positions \ (Parked \cup {"new"}) /\ "sleep" \notin Barred
            BY SMT DEF Positions, Parked, Queued, Barred
        <3> QED BY <2>1, <2>2, <3>2, <3>3, MoveGood
    <2>6. Good(planned(t, r))
        BY <2>4, <2>5 DEF planned
    <2> QED BY <1>m, <2>1, <2>3, <2>4, <2>6
<1>10. CASE Wake(r)
    <2>1. p.pc \notin Parked \cup {"done"} /\ ~p.permit
        BY <1>10, <1>p, <1>x DEF Wake, At
    <2> DEFINE t == Move(s, r, "granted")
    <2>2. Good(t) /\ t.req[r].pc = "granted" /\ "granted" \notin Parked \cup {"done"}
        BY <1>m, <1>x, <2>1 DEF Resumed
    <2>3. ~t.req[r].permit
        <3>1. Shape(s)
            BY DEF Good
        <3>2. PICK q : q.pc = "granted" /\ Differs(s.req[r], q) /\ Sets(s, Move(s, r, "granted"), r, q)
            BY <3>1, MoveSets
        <3> QED BY <2>1, <3>2 DEF Differs, Sets
    <2> HIDE DEF t
    <2>4. Good(acquire(t, r, "queue2", "granted"))
        BY <1>x, <2>2, <2>3, AcquireGood
    <2> QED BY <1>10, <2>4 DEF Wake, t
<1>11. CASE End(r)
    <2>1. p.pc \notin Parked
        BY <1>11, <1>x DEF End, Streaming
    <2> QED BY <1>11, <1>f, <2>1 DEF End
<1>12. CASE Fail(r)
    <2>1. p.pc \notin Parked \cup {"done"}
        BY <1>12, <1>x DEF Fail
    <2> QED BY <1>12, <1>m, <2>1 DEF Fail
<1>13. CASE Aborts(r)
    BY <1>13, AbortGood DEF Aborts
<1> QED BY <1>1, <1>2, <1>3, <1>4, <1>5, <1>6, <1>8, <1>9, <1>10, <1>11, <1>12, <1>13
        DEF Handle, Resume, Event

-----------------------------------------------------------------------------
(***************************************************************************)
(* The lifecycle and the theorems.                                         *)
(***************************************************************************)

\* Only the lifecycle moves: the requests and the queues are as before.
LEMMA Opened ==
    ASSUME NEW t, NEW u, Good(t), Shape(u), u.req = t.req, u.queue = t.queue,
           u.bodyQueue = t.bodyQueue, u.generation \in Nat, t.generation <= u.generation,
           Cycle(u), Drained(u)
    PROVE  Safe(u)
<1>1. Safe(t) /\ t.generation \in Nat
    BY SMT DEF Good, Safe, Cycle
<1> QED BY <1>1, LifeSafe

LEMMA LifecycleGood ==
    ASSUME Good(s), Lifecycle
    PROVE  Good(s')
<1>0. Shape(s) /\ Safe(s) /\ PermitsUsed(s) /\ ReadersUsed(s) /\ Cycle(s)
    BY DEF Good, Safe
<1>g. s.generation \in Nat /\ s.generation <= s.generation
    BY SMT, <1>0 DEF Cycle
<1>1. CASE beginRecycle
    <2> DEFINE u == [s EXCEPT !.lifecycle = "draining", !.recycles = @ + 1]
    <2>1. /\ Shape(u) /\ u.lifecycle = "draining" /\ u.recycles = s.recycles + 1 /\ u.req = s.req
          /\ u.queue = s.queue /\ u.bodyQueue = s.bodyQueue /\ u.generation = s.generation
        BY <1>0 DEF Shape
    <2>2. s' = checkRecycle(u) /\ s.recycles < MaxRecycles
        BY <1>1 DEF beginRecycle
    <2> HIDE DEF u
    <2>3. Cycle(u) /\ Drained(u) /\ ~Open(u)
        BY SMT, <1>0, <2>1, <2>2, Bounds DEF Cycle, Drained, Open
    <2>4. Safe(u)
        BY <1>g, <2>1, <2>3, Opened
    <2>5. Good(u)
        BY <2>1, <2>3, <2>4 DEF Good, PermitsUsed, ReadersUsed
    <2> QED BY <2>2, <2>5, CheckRecycleGood
<1>2. CASE RecycleTimer
    <2> DEFINE R == {r \in Request : Live(s, r) /\ ~s.req[r].aborted /\ s.req[r].gen # NoGeneration}
               t == AbortAll(s, R)
               u == [t EXCEPT !.lifecycle = "absent"]
    <2>1. s' = u /\ s.lifecycle = "draining"
        BY <1>2 DEF RecycleTimer
    <2>2. Shape(t) /\ Drops(s, t, R)
        <3>1. R \in SUBSET Request
            OBVIOUS
        <3> QED BY <1>0, <3>1, AbortAllDrops
    <2> HIDE DEF t
    <2>3. Safe(t)
        <3>1. R \in SUBSET Request
            OBVIOUS
        <3> QED BY <1>0, <2>2, <3>1, DropsSafe
    <2>4. /\ u.lifecycle = "absent" /\ u.req = t.req /\ u.queue = t.queue /\ u.bodyQueue = t.bodyQueue
          /\ u.generation = t.generation /\ u.recycles = t.recycles
        BY <2>2 DEF Shape
    <2>5. Shape(u)
        BY <2>2, LifeKept DEF Kept
    <2> HIDE DEF u
    <2>6. Cycle(t) /\ t.lifecycle = "draining"
        BY <2>1, <2>2, <2>3 DEF Safe, Drops, Same
    <2>7. Cycle(u) /\ ~Open(u) /\ u.generation \in Nat /\ t.generation \in Nat /\ t.generation <= u.generation
        BY SMT, <2>4, <2>6 DEF Cycle, Open
    <2>8. Drained(u)
        <3>1. \A r \in R : t.req[r].aborted
            BY <2>2 DEF Drops, Failed
        <3>2. \A r \in Request \ R : t.req[r] = s.req[r]
            BY <2>2 DEF Drops
        <3>3. ASSUME NEW r \in Request, Live(u, r), u.req[r].gen # NoGeneration PROVE u.req[r].aborted
            <4>1. CASE r \in R
                BY <2>4, <3>1, <4>1
            <4>2. CASE r \notin R
                BY <2>4, <3>2, <3>3, <4>2 DEF Live
            <4> QED BY <4>1, <4>2
        <3> QED BY <3>3 DEF Drained
    <2>9. Safe(u)
        BY <2>3, <2>4, <2>7, <2>8, LifeSafe
    <2> QED BY <2>1, <2>5, <2>7, <2>9 DEF Good, PermitsUsed, ReadersUsed
<1>3. CASE attachReplacement
    <2>1. /\ Shape(s') /\ s'.lifecycle = s.lifecycle /\ s'.recycles = s.recycles /\ s'.req = s.req
          /\ s'.queue = s.queue /\ s'.bodyQueue = s.bodyQueue /\ s'.generation = s.generation
        BY <1>0, <1>3 DEF attachReplacement, Shape
    <2>2. s.lifecycle = "absent"
        BY <1>3 DEF attachReplacement
    <2> DEFINE u == s'
    <2> HIDE DEF u
    <2>3. Cycle(u) /\ Drained(u)
        BY <1>0, <2>1 DEF Cycle, Drained, Safe, Live, u
    <2>4. ~Open(u)
        BY SMT, <2>1, <2>2 DEF Open, u
    <2>5. Safe(u)
        BY <1>g, <2>1, <2>3, Opened DEF u
    <2> QED BY <2>1, <2>4, <2>5 DEF Good, PermitsUsed, ReadersUsed, u
<1>4. CASE Verified
    <2> DEFINE t == [s EXCEPT !.attaching = FALSE]
               v == [t EXCEPT !.lifecycle = "serving", !.generation = @ + 1]
               w == OpenBarrier(v)
               x == drainQueue(w)
    <2>1. s' = t \/ (t.lifecycle = "absent" /\ s' = drainBodyReaderQueue(x))
        BY SMT, <1>4 DEF Verified
    <2>2. /\ Shape(t) /\ t.lifecycle = s.lifecycle /\ t.recycles = s.recycles /\ t.req = s.req
          /\ t.queue = s.queue /\ t.bodyQueue = s.bodyQueue /\ t.generation = s.generation
          /\ t.allow = s.allow
        BY <1>0 DEF Shape
    <2>3. /\ Shape(v) /\ v.lifecycle = "serving" /\ v.recycles = t.recycles /\ v.req = t.req
          /\ v.queue = t.queue /\ v.bodyQueue = t.bodyQueue /\ v.generation = t.generation + 1
        <3> HIDE DEF t
        <3> QED BY <2>2 DEF Shape
    <2> HIDE DEF t, v
    <2>4. Good(t)
        <3>1. Cycle(t) /\ Drained(t)
            BY <1>0, <2>2 DEF Cycle, Drained, Safe, Live
        <3>2. Safe(t)
            BY <1>g, <2>2, <3>1, Opened
        <3>3. (Open(t) <=> Open(s)) /\ Active(t) = Active(s) /\ Readers(t) = Readers(s)
            BY <2>2 DEF Open, Active, Readers
        <3> QED BY <1>0, <2>2, <3>2, <3>3 DEF Good, PermitsUsed, ReadersUsed, canAcquireBodyReader
    <2>5. t.lifecycle = "absent" => Safe(v)
        <3> SUFFICES ASSUME t.lifecycle = "absent" PROVE Safe(v)
            OBVIOUS
        <3>1. Cycle(t)
            BY <2>4 DEF Good, Safe
        <3>2. Cycle(v) /\ Drained(v) /\ v.generation \in Nat /\ t.generation <= v.generation
            BY SMT, <2>3, <3>1 DEF Cycle, Drained
        <3> QED BY <2>3, <2>4, <3>2, Opened
    <2>6. Shape(w) /\ Shifts(v, w)
        BY <2>3, BarrierShifts
    <2>7. t.lifecycle = "absent" => Safe(w)
        BY <2>5, <2>6, ShiftsSafe
    <2> HIDE DEF w
    <2>8. t.lifecycle = "absent" => Shape(x) /\ Safe(x) /\ PermitsUsed(x)
        BY <2>6, <2>7, DrainQueueSafe
    <2> HIDE DEF x
    <2>9. t.lifecycle = "absent" => Good(drainBodyReaderQueue(x))
        BY <2>8, DrainBodySafe DEF Good
    <2> QED BY <2>1, <2>4, <2>9
<1>5. CASE shutdown
    <2> DEFINE t == [s EXCEPT !.allow = s.lifecycle = "serving", !.lifecycle = "shutdown"]
               R == {r \in Request : Live(t, r) /\ ~t.req[r].aborted
                                        /\ t.req[r].gen = NoGeneration}
               u == IF t.allow THEN t ELSE AbortAll(t, R)
               v == FailBarrier(u)
               w == drainQueue(v)
    <2>1. s' = drainBodyReaderQueue(w)
        BY <1>5 DEF shutdown
    <2>2. /\ Shape(t) /\ t.lifecycle = "shutdown" /\ t.recycles = s.recycles /\ t.req = s.req
          /\ t.queue = s.queue /\ t.bodyQueue = s.bodyQueue /\ t.generation = s.generation
        BY <1>0 DEF Shape
    <2> HIDE DEF t
    <2>3. Safe(t)
        <3>1. Cycle(t) /\ Drained(t)
            BY SMT, <1>0, <2>2 DEF Cycle, Drained
        <3> QED BY <1>g, <2>2, <3>1, Opened
    <2>4. Shape(u) /\ Safe(u)
        <3>1. R \in SUBSET Request
            OBVIOUS
        <3> HIDE DEF R
        <3>2. Shape(AbortAll(t, R)) /\ Safe(AbortAll(t, R))
            BY <2>2, <2>3, <3>1, AbortAllDrops, DropsSafe
        <3> QED BY <2>2, <2>3, <3>2
    <2> HIDE DEF u
    <2>5. Shape(v) /\ Safe(v)
        BY <2>4, BarrierShifts, ShiftsSafe
    <2> HIDE DEF v
    <2>6. Shape(w) /\ Safe(w) /\ PermitsUsed(w)
        BY <2>5, DrainQueueSafe
    <2> HIDE DEF w
    <2>7. Good(drainBodyReaderQueue(w))
        BY <2>6, DrainBodySafe DEF Good
    <2> QED BY <2>1, <2>7
<1> QED BY <1>1, <1>2, <1>3, <1>4, <1>5 DEF Lifecycle

\* The inductive invariant.
GoodInv == Good(s)

LEMMA GoodInit == Init => GoodInv
<1> SUFFICES ASSUME Init PROVE Good(s)
    BY SMT DEF GoodInv
<1>1. Shape(s) /\ s.generation = 1 /\ s.recycles = 0 /\ s.lifecycle = "serving"
      /\ s.queue = <<>> /\ s.bodyQueue = <<>>
    BY DEF Init, Shape, Context
<1>2. \A r \in Request :
        /\ s.req[r].pc = "new" /\ s.req[r].gen = NoGeneration /\ s.req[r].attempt = 0
        /\ s.req[r].permit = FALSE /\ s.req[r].body = FALSE /\ s.req[r].aborted = FALSE
        /\ s.req[r].sent = {}
    BY SMT DEF Init
<1>3. /\ "new" \in Positions /\ "new" \notin Queued /\ "new" # "bodyqueue" /\ "new" \notin Barred
      /\ FALSE \in BOOLEAN /\ 0 \in 0 .. MaxAttempts /\ NoGeneration \in 0 .. 1
    BY SMT, Bounds DEF Positions, Queued, Barred, NoGeneration
<1>4. \A r \in Request : Handler(s, s.req[r])
    BY <1>1, <1>2, <1>3 DEF Handler
<1>5. /\ InQueue(s) = {} /\ InBody(s) = {} /\ Active(s) = {} /\ Readers(s) = {}
      /\ Sleeping(s) = {} /\ Waiters(s) = {}
    BY <1>2, <1>3 DEF InQueue, InBody, Active, Readers, Sleeping, Waiters
<1>6. Line(<<>>, {})
    <2>1. <<>> \in Seq(Request) /\ Len(<<>>) <= MaxQueue /\ DOMAIN <<>> = {}
        BY SMT, Bounds
    <2> QED BY <2>1 DEF Line, Range, IsInjective
<1>7. Cycle(s)
    BY SMT, <1>1, Bounds DEF Cycle
<1>8. Drained(s)
    BY <1>2 DEF Drained, Live
<1>9. Cardinality({}) = 0 /\ Reserved({}) = 0
    <2>1. Sums(Weight, {})[{}] = 0
        BY SumsUnfold, FS_EmptySet
    <2> QED BY <2>1, ReservedIsSums, FS_EmptySet
<1>10. PermitsFit(s) /\ ReadersFit(s) /\ WaitsFit(s)
    BY SMT, <1>5, <1>9, Bounds DEF PermitsFit, ReadersFit, WaitsFit
<1>11. Safe(s)
    BY <1>1, <1>4, <1>5, <1>6, <1>7, <1>8, <1>10 DEF Safe
<1> QED BY <1>1, <1>11 DEF Good, PermitsUsed, ReadersUsed

\* Along every behaviour of the guard the books of permits, readers, queues and
\* generations agree, and nobody waits for what is free.
THEOREM BooksKept == Spec => []GoodInv
<1>1. Init => GoodInv
    BY GoodInit
<1>2. GoodInv /\ [Next]_vars => GoodInv'
    <2> SUFFICES ASSUME Good(s), [Next]_vars PROVE Good(s')
        BY SMT DEF GoodInv
    <2>1. CASE \E r \in Request : Handle(r) \/ Arrive(r) \/ Fail(r) \/ Aborts(r)
        BY <2>1, HandlerGood
    <2>2. CASE Lifecycle
        BY <2>2, LifecycleGood
    <2>3. CASE UNCHANGED vars
        BY <2>3 DEF vars
    <2> QED BY <2>1, <2>2, <2>3 DEF Next
<1> QED BY <1>1, <1>2, PTL DEF Spec

\* RecycleDrained for every guard: whatever requests wait, run or are aborted
\* when a recycle begins, the backend is reaped only when every dispatched
\* request is finished or aborted.
THEOREM ReapedWhenDrained == Spec => []RecycleDrained
<1>1. GoodInv => RecycleDrained
    BY DEF GoodInv, Good, Safe, Drained, RecycleDrained
<1> QED BY <1>1, BooksKept, PTL

\* LimitsExact for every guard: permits, body readers, their bytes, recovery
\* waits and the queues stay within their bounds, for every number of requests
\* and every size of body, and no permit or reader is free while a request that
\* could take it waits.
THEOREM LimitsKept == Spec => []LimitsExact
<1>1. GoodInv => LimitsExact
    <2> SUFFICES ASSUME Good(s) PROVE LimitsExact
        BY SMT DEF GoodInv
    <2>1. Shape(s) /\ Safe(s) /\ PermitsUsed(s) /\ ReadersUsed(s)
        BY DEF Good
    <2>2. Line(s.queue, InQueue(s)) /\ Line(s.bodyQueue, InBody(s)) /\ Cycle(s)
          /\ PermitsFit(s) /\ ReadersFit(s) /\ WaitsFit(s)
        BY <2>1 DEF Safe
    <2>3. s.generation \in 1 .. MaxRecycles + 1 /\ s.recycles \in 0 .. MaxRecycles
        BY SMT, <2>2, Bounds DEF Cycle
    <2>4. 0 .. s.generation \subseteq 0 .. MaxRecycles + 1 /\ 1 .. s.generation \subseteq 1 .. MaxRecycles + 1
        BY SMT, <2>3, Bounds
    <2>5. ASSUME NEW r \in Request
          PROVE  s.req[r] \in [pc : Positions, gen : 0 .. MaxRecycles + 1, attempt : 0 .. MaxAttempts,
                               permit : BOOLEAN, body : BOOLEAN, aborted : BOOLEAN,
                               sent : SUBSET (1 .. MaxRecycles + 1)]
        <3> DEFINE q == s.req[r]
        <3>1. Context(q) /\ Handler(s, q)
            BY <2>1 DEF Shape, Safe
        <3> HIDE DEF q
        <3>2. /\ q.pc \in Positions /\ q.gen \in 0 .. MaxRecycles + 1 /\ q.attempt \in 0 .. MaxAttempts
              /\ q.permit \in BOOLEAN /\ q.body \in BOOLEAN /\ q.aborted \in BOOLEAN
              /\ q.sent \in SUBSET (1 .. MaxRecycles + 1)
            BY <2>4, <3>1 DEF Handler
        <3>3. q = [pc |-> q.pc, gen |-> q.gen, attempt |-> q.attempt, permit |-> q.permit,
                   body |-> q.body, aborted |-> q.aborted, sent |-> q.sent]
            BY SMT, <3>1 DEF Context
        <3>4. q \in [pc : Positions, gen : 0 .. MaxRecycles + 1, attempt : 0 .. MaxAttempts,
                     permit : BOOLEAN, body : BOOLEAN, aborted : BOOLEAN,
                     sent : SUBSET (1 .. MaxRecycles + 1)]
            BY <3>2, <3>3
        <3> QED BY <3>4 DEF q
    <2>6. TypeOK
        <3>1. s.req \in [Request ->
                [pc : Positions, gen : 0 .. MaxRecycles + 1, attempt : 0 .. MaxAttempts,
                 permit : BOOLEAN, body : BOOLEAN, aborted : BOOLEAN,
                 sent : SUBSET (1 .. MaxRecycles + 1)]]
            BY <2>1, <2>5 DEF Shape
        <3>2. \A r \in Request :
                /\ s.req[r].pc \in Queued <=> r \in Range(s.queue)
                /\ s.req[r].pc = "bodyqueue" <=> r \in Range(s.bodyQueue)
            BY <2>2 DEF Line, InQueue, InBody
        <3> QED BY <2>2, <2>3, <3>1, <3>2 DEF TypeOK, Line, Cycle
    <2> QED BY <2>1, <2>2, <2>6
            DEF LimitsExact, Line, PermitsFit, ReadersFit, WaitsFit, PermitsUsed, ReadersUsed
<1> QED BY <1>1, BooksKept, PTL

=============================================================================
