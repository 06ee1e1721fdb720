---------------------------- MODULE BodyAdmission ----------------------------
(***************************************************************************)
(* The weighted admission of request bodies (apps/server/src/               *)
(* body-admission.ts): a FIFO of waiting requests in front of a byte budget, *)
(* the lease an admitted request holds while its handler runs and its       *)
(* response streams, abort signals and the shutdown of the server.          *)
(*                                                                         *)
(* A step is a synchronous piece of code.  The loop of drain() is taken one *)
(* iteration at a time, and nothing else runs until it ends (draining).     *)
(***************************************************************************)
EXTENDS Naturals, Sequences, FiniteSets, FiniteSetsExt

CONSTANTS
    Request,    \* proxied requests with a body
    Budget,     \* budgetBytes
    QueueLimit, \* queueLimit
    Multiplier, \* BODY_ADMISSION_RESERVATION_MULTIPLIER
    MaxBody     \* MAX_REQUEST_BODY_BYTES

ASSUME AdmissionAssumption ==
    /\ IsFiniteSet(Request)
    /\ Budget \in Nat \ {0}
    /\ QueueLimit \in Nat
    /\ Multiplier \in Nat \ {0}
    /\ MaxBody \in Nat \ {0}

VARIABLES
    reserved,     \* reservedBytes
    active,       \* activeLeases
    queue,        \* the waiting requests and their reservations
    draining,     \* drain() is running
    shuttingDown,
    conn,         \* where each request is
    lease,        \* reservedByLease of its lease
    admitted,     \* counters.admitted
    released,     \* counters.released
    ticket        \* history: the order in which the requests called acquire

vars == <<reserved, active, queue, draining, shuttingDown, conn, lease,
          admitted, released, ticket>>

Conn == {"new", "queued", "handling", "streaming", "cancelled", "over"}

Init ==
    /\ reserved = 0
    /\ active = 0
    /\ queue = <<>>
    /\ draining = FALSE
    /\ shuttingDown = FALSE
    /\ conn = [r \in Request |-> "new"]
    /\ lease = [r \in Request |-> 0]
    /\ admitted = 0
    /\ released = 0
    /\ ticket = [r \in Request |-> 0]
-----------------------------------------------------------------------------
Smaller(m, n) == IF m < n THEN m ELSE n
Minus(m, n) == IF n > m THEN 0 ELSE m - n

\* What the headers say of the body: its length, or nothing that can be relied on
\* (an encoding, chunks, a length that is not canonical).
Opaque == MaxBody + 1
BodyLength == 0..Opaque

\* bodyAdmissionReservationBytes
Worst == Smaller(Budget, Multiplier * MaxBody)
Reservation(length) ==
    IF length > MaxBody THEN Worst ELSE Smaller(Budget, length * Multiplier)

CanAdmit(bytes) == reserved + bytes <= Budget

CreateLease(r, bytes) ==
    /\ reserved' = reserved + bytes
    /\ active' = active + 1
    /\ admitted' = admitted + 1
    /\ lease' = [lease EXCEPT ![r] = bytes]
    /\ conn' = [conn EXCEPT ![r] = "handling"]

FastPathOverQueue(bytes) == CanAdmit(bytes) \* mutant: waiting requests are overtaken

\* acquire admits at once only in front of an empty queue.
FastPath(bytes) == queue = <<>> /\ CanAdmit(bytes)

Open == ~shuttingDown

\* Every change that may make room ends in drain(), which a shutdown disables.
Wakes == ~shuttingDown

\* acquire, called by withBodyAdmission: admit, wait or refuse.  A request whose
\* signal has been aborted, one that is larger than the budget, one that finds the
\* queue full and one that comes during shutdown are all refused.
Acquire(r, bytes) ==
    /\ ~draining /\ conn[r] = "new"
    /\ ticket' = [ticket EXCEPT ![r] = Cardinality({q \in Request : conn[q] # "new"}) + 1]
    /\ \/ /\ Open /\ bytes <= Budget /\ FastPath(bytes)
          /\ CreateLease(r, bytes)
          /\ UNCHANGED <<queue, draining>>
       \/ /\ Open /\ bytes <= Budget /\ ~FastPath(bytes) /\ Len(queue) < QueueLimit
          /\ queue' = Append(queue, [req |-> r, bytes |-> bytes])
          /\ conn' = [conn EXCEPT ![r] = "queued"]
          /\ draining' = Wakes
          /\ UNCHANGED <<reserved, active, admitted, lease>>
       \/ /\ conn' = [conn EXCEPT ![r] = "over"]
          /\ UNCHANGED <<reserved, active, queue, draining, admitted, lease>>
    /\ UNCHANGED <<shuttingDown, released>>

HeadFits == queue # <<>> /\ CanAdmit(Head(queue).bytes)

DrainSpins == draining /\ UNCHANGED vars \* mutant: the loop never advances

\* One iteration of drain().
Drain ==
    /\ draining
    /\ \/ /\ HeadFits
          /\ CreateLease(Head(queue).req, Head(queue).bytes)
          /\ queue' = Tail(queue)
          /\ UNCHANGED draining
       \/ /\ ~HeadFits
          /\ draining' = FALSE
          /\ UNCHANGED <<reserved, active, queue, conn, lease, admitted>>
    /\ UNCHANGED <<shuttingDown, released, ticket>>

\* queue.splice(i, 1)
Without(i) == [j \in 1..(Len(queue) - 1) |-> IF j < i THEN queue[j] ELSE queue[j + 1]]

AbortUndrained(r) == \* mutant: the queue is not drained after a removal
    /\ ~draining /\ conn[r] = "queued"
    /\ \E i \in DOMAIN queue : queue[i].req = r /\ queue' = Without(i)
    /\ conn' = [conn EXCEPT ![r] = "over"]
    /\ UNCHANGED <<reserved, active, draining, shuttingDown, lease, admitted, released, ticket>>

\* The abort listener of a waiting request: leave the queue and drain.
Abort(r) ==
    /\ ~draining /\ conn[r] = "queued"
    /\ \E i \in DOMAIN queue : queue[i].req = r /\ queue' = Without(i)
    /\ conn' = [conn EXCEPT ![r] = "over"]
    /\ draining' = Wakes
    /\ UNCHANGED <<reserved, active, shuttingDown, lease, admitted, released, ticket>>

\* shutdown rejects every waiting request; leases run on.
Shutdown ==
    /\ ~draining /\ ~shuttingDown
    /\ shuttingDown' = TRUE
    /\ queue' = <<>>
    /\ conn' = [r \in Request |-> IF conn[r] = "queued" THEN "over" ELSE conn[r]]
    /\ UNCHANGED <<reserved, active, draining, lease, admitted, released, ticket>>

\* The lease's reduceTo, once the handler knows the size of the body it has read.
ReduceTo(r, bytes) ==
    /\ ~draining /\ conn[r] = "handling"
    /\ bytes < lease[r]
    /\ lease' = [lease EXCEPT ![r] = bytes]
    /\ reserved' = Minus(reserved, lease[r] - bytes)
    /\ draining' = Wakes
    /\ UNCHANGED <<active, queue, shuttingDown, conn, admitted, released, ticket>>

Release(r) ==
    /\ lease' = [lease EXCEPT ![r] = 0]
    /\ reserved' = Minus(reserved, lease[r])
    /\ active' = Minus(active, 1)
    /\ released' = released + 1
    /\ draining' = Wakes

\* The handler throws, or answers without a body.
HandlerEnds(r) ==
    /\ ~draining /\ conn[r] = "handling"
    /\ Release(r)
    /\ conn' = [conn EXCEPT ![r] = "over"]
    /\ UNCHANGED <<queue, shuttingDown, admitted, ticket>>

\* It answers with a stream, which keeps the lease.
HandlerAnswers(r) ==
    /\ ~draining /\ conn[r] = "handling"
    /\ conn' = [conn EXCEPT ![r] = "streaming"]
    /\ UNCHANGED <<reserved, active, queue, draining, shuttingDown, lease,
                   admitted, released, ticket>>

\* The client cancels the response while a read of the upstream is outstanding.
Cancel(r) ==
    /\ ~draining /\ conn[r] = "streaming"
    /\ Release(r)
    /\ conn' = [conn EXCEPT ![r] = "cancelled"]
    /\ UNCHANGED <<queue, shuttingDown, admitted, ticket>>

StreamEndsAgain(r) == \* mutant: the lease is released twice
    /\ ~draining /\ conn[r] \in {"streaming", "cancelled"}
    /\ conn' = [conn EXCEPT ![r] = "over"]
    /\ Release(r)
    /\ UNCHANGED <<queue, shuttingDown, admitted, ticket>>

\* The outstanding read ends the stream, by its end or by an error; after a
\* cancellation the lease has been given back already.
StreamEnds(r) ==
    /\ ~draining /\ conn[r] \in {"streaming", "cancelled"}
    /\ conn' = [conn EXCEPT ![r] = "over"]
    /\ IF conn[r] = "streaming" THEN Release(r)
       ELSE UNCHANGED <<lease, reserved, active, released, draining>>
    /\ UNCHANGED <<queue, shuttingDown, admitted, ticket>>

Next ==
    \/ \E r \in Request, length \in BodyLength : Acquire(r, Reservation(length))
    \/ \E r \in Request, length \in 0..MaxBody : ReduceTo(r, Smaller(Budget, length * Multiplier))
    \/ \E r \in Request : Abort(r) \/ HandlerEnds(r) \/ HandlerAnswers(r) \/ Cancel(r)
                          \/ StreamEnds(r)
    \/ Drain
    \/ Shutdown

Spec == Init /\ [][Next]_vars

\* The loop of drain() runs to its end, handlers return, and the streams of the
\* providers end.
Ends(r) == HandlerEnds(r) \/ HandlerAnswers(r)
FairSpec ==
    /\ Spec
    /\ WF_vars(Drain)
    /\ \A r \in Request : WF_vars(Ends(r)) /\ WF_vars(StreamEnds(r))
-----------------------------------------------------------------------------
(***************************************************************************)
(* Properties                                                              *)
(***************************************************************************)
Held == {r \in Request : conn[r] \in {"handling", "streaming"}}

\* The counters are natural numbers, and the queue holds requests with reservations.
TypeOK ==
    /\ reserved \in Nat
    /\ active \in Nat
    /\ queue \in Seq([req: Request, bytes: 0..Budget])
    /\ draining \in BOOLEAN
    /\ shuttingDown \in BOOLEAN
    /\ conn \in [Request -> Conn]
    /\ lease \in [Request -> 0..Budget]
    /\ admitted \in Nat
    /\ released \in Nat
    /\ ticket \in [Request -> Nat]

\* The bytes of the bodies held never exceed the budget, although leases are
\* shrunk, released by the handler, by the stream and by its cancellation, in any
\* order.
BudgetKept == reserved <= Budget

\* reservedBytes and activeLeases, which createLease, reduceTo and release each
\* adjust by a difference and clamp at zero, are exactly what the leases still held
\* add up to: nothing leaks and nothing is given back twice.
Accounting ==
    /\ reserved = MapThenSumSet(LAMBDA r : lease[r], Held)
    /\ active = Cardinality(Held)
    /\ admitted = active + released

\* Outside drain() the request at the head of the queue does not fit: room that is
\* made by a smaller body, a release or an abort in front of it is never left unused.
NoStrandedHead == ~draining => ~HeadFits

\* The budget is neither leaked nor left unused: what body-admission.ts counts is
\* what is held, and the oldest waiting request waits only for room that is not
\* there, whichever of acquire, reduceTo, release, abort and shutdown came last.
BudgetExact == Accounting /\ NoStrandedHead

\* "A FIFO ... admission controller" (body-admission.ts 111): no request is admitted
\* while one that called acquire before it goes on waiting, by the fast path of
\* acquire or otherwise.
NoOvertaking ==
    [][\A r, q \in Request :
         /\ r \notin Held /\ r \in Held'
         /\ conn[q] = "queued" /\ conn'[q] = "queued"
         => ticket'[r] < ticket[q]]_vars

\* A waiting request is eventually admitted or refused, provided that handlers and
\* streams end.
WaitersSettle == \A r \in Request : conn[r] = "queued" ~> conn[r] # "queued"
=============================================================================
