------------------------- MODULE BodyAdmissionProofs -------------------------
(***************************************************************************)
(* Proofs about BodyAdmission, for any number of requests and any budget.   *)
(***************************************************************************)
EXTENDS BodyAdmission, FiniteSetTheorems, WellFoundedInduction, TLAPS

Waiting == [req: Request, bytes: 0..Budget]

\* A reservation never exceeds the budget (bodyAdmissionReservationBytes), so
\* acquire never refuses a request for its size alone.
LEMMA ReservationFits ==
    ASSUME NEW length \in Nat
    PROVE  Smaller(Budget, length * Multiplier) \in 0..Budget /\ Reservation(length) \in 0..Budget
<1>1. \A n \in Nat : Smaller(Budget, n) \in 0..Budget
    BY AdmissionAssumption DEF Smaller
<1>2. length * Multiplier \in Nat /\ Multiplier * MaxBody \in Nat
    BY AdmissionAssumption
<1> QED BY <1>1, <1>2 DEF Reservation, Worst

\* The clamped difference of reduceTo and release neither leaves the naturals nor
\* grows.
LEMMA MinusShrinks ==
    ASSUME NEW m \in Nat, NEW n \in Nat
    PROVE  Minus(m, n) \in Nat /\ Minus(m, n) <= m
BY DEF Minus

LEMMA AppendQueue ==
    ASSUME NEW s \in Seq(Waiting), NEW w \in Waiting
    PROVE  Append(s, w) \in Seq(Waiting) /\ Append(s, w) # <<>>
           /\ (s # <<>> => Head(Append(s, w)) = Head(s))
BY SMTT(30)

LEMMA HeadTailQueue ==
    ASSUME NEW s \in Seq(Waiting), s # <<>>
    PROVE  Head(s) \in Waiting /\ Tail(s) \in Seq(Waiting)
OBVIOUS

LEMMA WithoutQueue ==
    ASSUME queue \in Seq(Waiting), NEW i \in DOMAIN queue
    PROVE  Without(i) \in Seq(Waiting)
<1>1. Len(queue) \in Nat /\ DOMAIN queue = 1..Len(queue) /\ Len(queue) - 1 \in Nat
    OBVIOUS
<1>2. \A j \in 1..(Len(queue) - 1) : (IF j < i THEN queue[j] ELSE queue[j + 1]) \in Waiting
    BY <1>1
<1> QED BY <1>1, <1>2 DEF Without

LEMMA TicketType == Cardinality({q \in Request : conn[q] # "new"}) + 1 \in Nat
<1>1. IsFiniteSet({q \in Request : conn[q] # "new"})
    BY AdmissionAssumption, FS_Subset
<1> QED BY <1>1, FS_CardinalityType

LEMMA LeaseType ==
    ASSUME TypeOK, NEW r \in Request, NEW bytes \in 0..Budget, CreateLease(r, bytes)
    PROVE  /\ reserved' \in Nat /\ active' \in Nat /\ admitted' \in Nat
           /\ conn' \in [Request -> Conn] /\ lease' \in [Request -> 0..Budget]
<1>1. bytes \in Nat
    BY AdmissionAssumption
<1>2. reserved' \in Nat /\ active' \in Nat /\ admitted' \in Nat
    BY <1>1 DEF TypeOK, CreateLease
<1>3. conn' \in [Request -> Conn] /\ lease' \in [Request -> 0..Budget]
    BY DEF TypeOK, CreateLease, Conn
<1> QED BY <1>2, <1>3

LEMMA ReleaseType ==
    ASSUME TypeOK, NEW r \in Request, Release(r)
    PROVE  /\ reserved' \in Nat /\ reserved' <= reserved /\ active' \in Nat
           /\ released' \in Nat /\ lease' \in [Request -> 0..Budget]
           /\ draining' \in BOOLEAN
<1>1. lease[r] \in Nat
    BY AdmissionAssumption DEF TypeOK
<1>2. reserved' \in Nat /\ reserved' <= reserved /\ active' \in Nat
    BY <1>1, MinusShrinks DEF TypeOK, Release
<1>3. released' \in Nat /\ lease' \in [Request -> 0..Budget] /\ draining' \in BOOLEAN
    BY AdmissionAssumption DEF TypeOK, Release, Wakes
<1> QED BY <1>2, <1>3

\* The room that the admission of one request leaves is never negative.
LEMMA LeaseFits ==
    ASSUME TypeOK, NEW r \in Request, NEW bytes \in 0..Budget, CanAdmit(bytes), CreateLease(r, bytes)
    PROVE  BudgetKept'
BY AdmissionAssumption DEF TypeOK, CanAdmit, CreateLease, BudgetKept

Inv == TypeOK /\ BudgetKept

LEMMA InvInit == Init => Inv
<1> SUFFICES ASSUME Init PROVE Inv
    OBVIOUS
<1>1. queue \in Seq(Waiting)
    BY DEF Init
<1>2. conn \in [Request -> Conn] /\ lease \in [Request -> 0..Budget] /\ ticket \in [Request -> Nat]
    BY AdmissionAssumption DEF Init, Conn
<1>3. reserved \in Nat /\ active \in Nat /\ admitted \in Nat /\ released \in Nat
      /\ draining \in BOOLEAN /\ shuttingDown \in BOOLEAN
    BY Zenon DEF Init
<1>4. BudgetKept
    BY AdmissionAssumption DEF Init, BudgetKept
<1> QED BY <1>1, <1>2, <1>3, <1>4 DEF Inv, TypeOK, Waiting

LEMMA InvNext == Inv /\ [Next]_vars => Inv'
<1> SUFFICES ASSUME Inv, [Next]_vars PROVE Inv'
    OBVIOUS
<1> USE DEF Waiting
<1>1. ASSUME NEW r \in Request, NEW length \in BodyLength, Acquire(r, Reservation(length))
      PROVE  Inv'
    <2> DEFINE bytes == Reservation(length)
    <2>1. bytes \in 0..Budget
        BY ReservationFits, AdmissionAssumption DEF BodyLength, Opaque
    <2> HIDE DEF bytes
    <2>2. ticket' \in [Request -> Nat] /\ shuttingDown' \in BOOLEAN /\ released' \in Nat
        BY <1>1, TicketType DEF Inv, TypeOK, Acquire
    <2>3. CASE CreateLease(r, bytes) /\ FastPath(bytes) /\ UNCHANGED <<queue, draining>>
        BY <2>1, <2>2, <2>3, LeaseType, LeaseFits DEF Inv, TypeOK, FastPath
    <2>4. CASE /\ queue' = Append(queue, [req |-> r, bytes |-> bytes])
               /\ conn' = [conn EXCEPT ![r] = "queued"]
               /\ draining' = Wakes
               /\ UNCHANGED <<reserved, active, admitted, lease>>
        <3>1. queue' \in Seq(Waiting)
            BY <2>1, <2>4, AppendQueue DEF Inv, TypeOK
        <3> QED BY <3>1, <2>2, <2>4 DEF Inv, TypeOK, BudgetKept, Wakes, Conn
    <2>5. CASE /\ conn' = [conn EXCEPT ![r] = "over"]
               /\ UNCHANGED <<reserved, active, queue, draining, admitted, lease>>
        BY <2>2, <2>5 DEF Inv, TypeOK, BudgetKept, Conn
    <2> QED BY <1>1, <2>3, <2>4, <2>5 DEF Acquire, bytes
<1>2. ASSUME NEW r \in Request, NEW length \in 0..MaxBody,
             ReduceTo(r, Smaller(Budget, length * Multiplier))
      PROVE  Inv'
    <2> DEFINE bytes == Smaller(Budget, length * Multiplier)
    <2>0. length \in Nat
        BY AdmissionAssumption
    <2>1. bytes \in 0..Budget
        BY <2>0, ReservationFits
    <2> HIDE DEF bytes
    <2>2. bytes < lease[r] /\ lease[r] \in 0..Budget /\ reserved' = Minus(reserved, lease[r] - bytes)
        BY <1>2 DEF ReduceTo, Inv, TypeOK, bytes
    <2>3. lease[r] - bytes \in Nat
        BY <2>1, <2>2, AdmissionAssumption
    <2>4. reserved' \in Nat /\ reserved' <= reserved
        BY <2>2, <2>3, MinusShrinks DEF Inv, TypeOK
    <2>5. lease' \in [Request -> 0..Budget] /\ draining' \in BOOLEAN
          /\ UNCHANGED <<active, queue, shuttingDown, conn, admitted, released, ticket>>
        BY <1>2, <2>1 DEF ReduceTo, Inv, TypeOK, Wakes, bytes
    <2> QED BY <2>4, <2>5, AdmissionAssumption DEF Inv, TypeOK, BudgetKept
<1>3. ASSUME NEW r \in Request, Abort(r)
      PROVE  Inv'
    <2>1. PICK i \in DOMAIN queue : queue' = Without(i)
        BY <1>3 DEF Abort
    <2>2. queue' \in Seq(Waiting)
        BY <2>1, WithoutQueue DEF Inv, TypeOK
    <2> QED BY Zenon, <1>3, <2>2 DEF Abort, Inv, TypeOK, BudgetKept, Wakes, Conn
<1>4. ASSUME NEW r \in Request, Release(r), UNCHANGED <<queue, shuttingDown, admitted, ticket>>,
             conn' \in [Request -> Conn]
      PROVE  Inv'
    BY <1>4, ReleaseType, AdmissionAssumption DEF Inv, TypeOK, BudgetKept
<1>5. ASSUME NEW r \in Request, HandlerEnds(r)
      PROVE  Inv'
    BY <1>4, <1>5 DEF HandlerEnds, Inv, TypeOK, Conn
<1>6. ASSUME NEW r \in Request, HandlerAnswers(r)
      PROVE  Inv'
    BY <1>6 DEF HandlerAnswers, Inv, TypeOK, BudgetKept, Conn
<1>7. ASSUME NEW r \in Request, Cancel(r)
      PROVE  Inv'
    BY <1>4, <1>7 DEF Cancel, Inv, TypeOK, Conn
<1>8. ASSUME NEW r \in Request, StreamEnds(r)
      PROVE  Inv'
    <2>1. conn' \in [Request -> Conn] /\ UNCHANGED <<queue, shuttingDown, admitted, ticket>>
        BY <1>8 DEF StreamEnds, Inv, TypeOK, Conn
    <2>2. CASE Release(r)
        BY <1>4, <2>1, <2>2
    <2>3. CASE UNCHANGED <<lease, reserved, active, released, draining>>
        BY <2>1, <2>3 DEF Inv, TypeOK, BudgetKept
    <2> QED BY <1>8, <2>2, <2>3 DEF StreamEnds
<1>9. CASE Drain
    <2>1. CASE HeadFits /\ CreateLease(Head(queue).req, Head(queue).bytes) /\ queue' = Tail(queue)
               /\ UNCHANGED <<draining, shuttingDown, released, ticket>>
        <3>1. Head(queue).req \in Request /\ Head(queue).bytes \in 0..Budget /\ queue' \in Seq(Waiting)
            BY Zenon, <2>1, HeadTailQueue DEF HeadFits, Inv, TypeOK
        <3> QED BY Zenon, <2>1, <3>1, LeaseType, LeaseFits DEF HeadFits, Inv, TypeOK
    <2>2. CASE draining' = FALSE /\ UNCHANGED <<reserved, active, queue, conn, lease, admitted,
                                                 shuttingDown, released, ticket>>
        BY Zenon, <2>2 DEF Inv, TypeOK, BudgetKept
    <2> QED BY Zenon, <1>9, <2>1, <2>2 DEF Drain
<1>10. CASE Shutdown
    <2>1. queue' \in Seq(Waiting) /\ conn' \in [Request -> Conn]
        BY <1>10 DEF Shutdown, Inv, TypeOK, Conn
    <2> QED BY <1>10, <2>1 DEF Shutdown, Inv, TypeOK, BudgetKept
<1>11. CASE UNCHANGED vars
    BY <1>11 DEF vars, Inv, TypeOK, BudgetKept
<1> QED BY <1>1, <1>2, <1>3, <1>5, <1>6, <1>7, <1>8, <1>9, <1>10, <1>11 DEF Next

\* The controller's counters, queue and leases keep their types in every behaviour
\* of acquire, drain, reduceTo, release, abort and shutdown.
THEOREM TypeCorrect == Spec => []TypeOK
BY InvInit, InvNext, PTL DEF Spec, Inv

\* canAdmit is asked before every createLease, so reservedBytes never exceeds
\* budgetBytes, whatever the requests, sizes and order of releases.
THEOREM BudgetAlwaysKept == Spec => []BudgetKept
BY InvInit, InvNext, PTL DEF Spec, Inv
-----------------------------------------------------------------------------
(***************************************************************************)
(* Room is never left unused.  drain() does nothing once the server shuts    *)
(* down, so the invariant needs that shutdown has emptied the queue.         *)
(***************************************************************************)
Served == NoStrandedHead /\ (shuttingDown => queue = <<>>)

LEMMA ServedNext == TypeOK /\ Served /\ [Next]_vars => Served'
<1> SUFFICES ASSUME TypeOK, Served, [Next]_vars PROVE Served'
    OBVIOUS
<1> USE DEF Waiting
<1>1. ASSUME draining' = Wakes, UNCHANGED <<queue, shuttingDown>>
      PROVE  Served'
    BY Zenon, <1>1 DEF Served, NoStrandedHead, HeadFits, Wakes
<1>2. ASSUME NEW r \in Request, NEW length \in BodyLength, Acquire(r, Reservation(length))
      PROVE  Served'
    <2> DEFINE bytes == Reservation(length)
    <2> HIDE DEF bytes
    <2>1. CASE Open /\ FastPath(bytes) /\ UNCHANGED <<queue, draining, shuttingDown>>
        BY <2>1 DEF FastPath, Served, NoStrandedHead, HeadFits
    <2>2. CASE Open /\ draining' = Wakes /\ UNCHANGED shuttingDown
        BY Zenon, <2>2 DEF Open, Wakes, Served, NoStrandedHead
    <2>3. CASE UNCHANGED <<reserved, queue, draining, shuttingDown>>
        BY <2>3 DEF Served, NoStrandedHead, HeadFits, CanAdmit
    <2> QED BY <1>2, <2>1, <2>2, <2>3 DEF Acquire, bytes
<1>3. ASSUME NEW r \in Request, NEW bytes, ReduceTo(r, bytes)
      PROVE  Served'
    BY <1>1, <1>3 DEF ReduceTo
<1>4. ASSUME NEW r \in Request, Abort(r)
      PROVE  Served'
    <2>1. queue # <<>>
        BY <1>4 DEF Abort, TypeOK
    <2> QED BY Zenon, <1>4, <2>1 DEF Abort, Wakes, Served, NoStrandedHead
<1>5. ASSUME NEW r \in Request, HandlerEnds(r) \/ Cancel(r)
      PROVE  Served'
    BY <1>1, <1>5 DEF HandlerEnds, Cancel, Release
<1>6. ASSUME UNCHANGED <<reserved, queue, draining, shuttingDown>>
      PROVE  Served'
    BY <1>6 DEF Served, NoStrandedHead, HeadFits, CanAdmit
<1>7. ASSUME NEW r \in Request, StreamEnds(r)
      PROVE  Served'
    BY <1>1, <1>6, <1>7 DEF StreamEnds, Release
<1>8. CASE Drain
    <2>1. CASE HeadFits /\ queue' = Tail(queue) /\ UNCHANGED <<draining, shuttingDown>>
        BY <1>8, <2>1 DEF Drain, HeadFits, Served, NoStrandedHead
    <2>2. CASE ~HeadFits /\ UNCHANGED <<reserved, queue, shuttingDown>>
        BY <2>2 DEF HeadFits, CanAdmit, Served, NoStrandedHead
    <2> QED BY Zenon, <1>8, <2>1, <2>2 DEF Drain
<1>9. CASE Shutdown
    BY <1>9 DEF Shutdown, Served, NoStrandedHead, HeadFits
<1> QED BY <1>2, <1>3, <1>4, <1>5, <1>6, <1>7, <1>8, <1>9 DEF Next, HandlerAnswers, vars

\* Every operation that makes room or moves the head of the queue ends in drain():
\* outside it the oldest waiting request never fits into the budget.
THEOREM RoomNeverWasted == Spec => []NoStrandedHead
<1>1. Init => Served
    BY DEF Init, Served, NoStrandedHead, HeadFits
<1> QED BY <1>1, ServedNext, TypeCorrect, PTL DEF Spec, Served

-----------------------------------------------------------------------------
(***************************************************************************)
(* First come, first served.  Two facts tie the queue to the history: it     *)
(* holds exactly the waiting requests, in the order in which they called      *)
(* acquire, and nobody has a later ticket than there were calls.              *)
(***************************************************************************)
Called == {q \in Request : conn[q] # "new"}

InLine ==
    /\ \A i \in DOMAIN queue : conn[queue[i].req] = "queued"
    /\ \A q \in Request : conn[q] = "queued" => \E i \in DOMAIN queue : queue[i].req = q
    /\ \A i, j \in DOMAIN queue : i < j => ticket[queue[i].req] < ticket[queue[j].req]
    /\ \A q \in Called : ticket[q] <= Cardinality(Called)

LEMMA CalledFinite == IsFiniteSet(Called) /\ Cardinality(Called) \in Nat
<1>1. IsFiniteSet(Called)
    BY AdmissionAssumption, FS_Subset DEF Called
<1> QED BY <1>1, FS_CardinalityType

LEMMA Entries ==
    ASSUME TypeOK
    PROVE  /\ queue \in Seq(Waiting) /\ Len(queue) \in Nat /\ DOMAIN queue = 1..Len(queue)
           /\ \A i \in DOMAIN queue : queue[i].req \in Request
<1>1. queue \in Seq(Waiting)
    BY Zenon DEF TypeOK, Waiting
<1>2. Len(queue) \in Nat /\ DOMAIN queue = 1..Len(queue) /\ \A i \in DOMAIN queue : queue[i] \in Waiting
    BY <1>1
<1> QED BY <1>1, <1>2 DEF Waiting

\* Everybody in the queue has a ticket of their own.
LEMMA OnePlaceEach ==
    ASSUME TypeOK, InLine, NEW i \in DOMAIN queue, NEW j \in DOMAIN queue, i # j
    PROVE  queue[i].req # queue[j].req
<1>1. i < j \/ j < i
    BY Entries
<1>2. ticket[queue[i].req] \in Nat /\ ticket[queue[j].req] \in Nat
    BY Zenon, Entries DEF TypeOK
<1>3. ticket[queue[i].req] < ticket[queue[j].req] \/ ticket[queue[j].req] < ticket[queue[i].req]
    BY Zenon, <1>1 DEF InLine
<1>4. ticket[queue[i].req] # ticket[queue[j].req]
    BY <1>2, <1>3
<1> QED BY Zenon, <1>4

\* A step that moves nobody into the queue, out of it or out of "new" keeps the line.
LEMMA LineUntouched ==
    ASSUME TypeOK, InLine, UNCHANGED <<queue, ticket>>,
           \A q \in Request : /\ conn'[q] = "queued" <=> conn[q] = "queued"
                              /\ conn'[q] = "new" <=> conn[q] = "new"
    PROVE  InLine'
<1>1. Called' = Called
    BY DEF Called
<1>2. \A i \in DOMAIN queue : queue[i].req \in Request
    BY Zenon, Entries
<1> QED BY Zenon, <1>1, <1>2 DEF InLine

\* The first call of acquire takes a ticket later than every other.
LEMMA NextTicket ==
    ASSUME TypeOK, InLine, NEW r \in Request, NEW c \in Conn \ {"new"}, conn[r] = "new",
           conn' = [conn EXCEPT ![r] = c],
           ticket' = [ticket EXCEPT ![r] = Cardinality(Called) + 1]
    PROVE  /\ \A q \in Called' : ticket'[q] <= Cardinality(Called')
           /\ \A q \in Called : q # r /\ ticket'[q] = ticket[q] /\ ticket'[q] < ticket'[r]
<1>1. Called' = Called \cup {r} /\ r \notin Called
    BY DEF TypeOK, Called, Conn
<1>2. Cardinality(Called') = Cardinality(Called) + 1
    BY Zenon, <1>1, CalledFinite, FS_AddElement
<1>3. ticket'[r] = Cardinality(Called) + 1 /\ \A q \in Called : q # r /\ ticket'[q] = ticket[q]
    BY <1>1 DEF TypeOK, Called
<1>4. \A q \in Called : ticket[q] <= Cardinality(Called) /\ ticket[q] \in Nat
    BY DEF InLine, TypeOK, Called
<1> QED BY <1>1, <1>2, <1>3, <1>4, CalledFinite

LEMMA LineNext == TypeOK /\ InLine /\ [Next]_vars => InLine'
<1> SUFFICES ASSUME TypeOK, InLine, [Next]_vars PROVE InLine'
    OBVIOUS
<1>0. queue \in Seq(Waiting) /\ Len(queue) \in Nat /\ DOMAIN queue = 1..Len(queue)
      /\ \A i \in DOMAIN queue : queue[i].req \in Request /\ queue[i].req \in Called
    BY Zenon, Entries DEF InLine, Called
<1>1. ASSUME NEW r \in Request, NEW length \in BodyLength, Acquire(r, Reservation(length))
      PROVE  InLine'
    <2> DEFINE w == [req |-> r, bytes |-> Reservation(length)]
    <2>1. conn[r] = "new" /\ ticket' = [ticket EXCEPT ![r] = Cardinality(Called) + 1]
        BY Zenon, <1>1 DEF Acquire, Called
    <2>2. CASE \E c \in {"handling", "over"} : conn' = [conn EXCEPT ![r] = c] /\ queue' = queue
        <3>1. PICK c \in {"handling", "over"} : conn' = [conn EXCEPT ![r] = c] /\ queue' = queue
            BY Zenon, <2>2
        <3>2. /\ \A q \in Called' : ticket'[q] <= Cardinality(Called')
              /\ \A q \in Called : q # r /\ ticket'[q] = ticket[q]
            BY Zenon, <2>1, <3>1, NextTicket DEF Conn
        <3>3. \A q \in Request : q # r => conn'[q] = conn[q]
            BY <3>1 DEF TypeOK
        <3>4. conn'[r] # "queued"
            BY <3>1 DEF TypeOK
        <3> QED BY ZenonT(30), <1>0, <3>1, <3>2, <3>3, <3>4 DEF InLine
    <2>3. CASE conn' = [conn EXCEPT ![r] = "queued"] /\ queue' = Append(queue, w)
        <3>1. /\ \A q \in Called' : ticket'[q] <= Cardinality(Called')
              /\ \A q \in Called : q # r /\ ticket'[q] = ticket[q] /\ ticket'[q] < ticket'[r]
            BY Zenon, <2>1, <2>3, NextTicket DEF Conn
        <3>2. conn'[r] = "queued" /\ \A q \in Request : q # r => conn'[q] = conn[q]
            BY <2>3 DEF TypeOK
        <3> DEFINE last == Len(queue) + 1
        <3>3. /\ DOMAIN queue' = 1..last
              /\ queue'[last] = w
              /\ \A i \in DOMAIN queue : queue'[i] = queue[i]
            BY <1>0, <2>3
        <3>4. /\ last \in DOMAIN queue' /\ queue'[last].req = r
              /\ \A i \in DOMAIN queue' : i = last \/ (i \in DOMAIN queue /\ queue'[i] = queue[i])
              /\ \A i \in DOMAIN queue : i \in DOMAIN queue' /\ queue'[i] = queue[i] /\ i < last
            BY <1>0, <3>3
        <3>5. \A i, j \in DOMAIN queue' : i < j => i \in DOMAIN queue
            BY <1>0, <3>3
        <3> HIDE DEF last, w
        <3>6. \A i \in DOMAIN queue' : conn'[queue'[i].req] = "queued"
            <4> SUFFICES ASSUME NEW i \in DOMAIN queue' PROVE conn'[queue'[i].req] = "queued"
                OBVIOUS
            <4>1. CASE i = last
                BY Zenon, <3>2, <3>4, <4>1
            <4>2. CASE i \in DOMAIN queue /\ queue'[i] = queue[i]
                <5>1. queue[i].req \in Request /\ queue[i].req # r /\ conn[queue[i].req] = "queued"
                    BY Zenon, <1>0, <3>1, <4>2 DEF InLine
                <5> QED BY Zenon, <3>2, <4>2, <5>1
            <4> QED BY Zenon, <3>4, <4>1, <4>2
        <3>7. \A q \in Request : conn'[q] = "queued" => \E i \in DOMAIN queue' : queue'[i].req = q
            BY Zenon, <3>2, <3>4 DEF InLine
        <3>8. \A i, j \in DOMAIN queue' : i < j => ticket'[queue'[i].req] < ticket'[queue'[j].req]
            <4> SUFFICES ASSUME NEW i \in DOMAIN queue', NEW j \in DOMAIN queue', i < j
                         PROVE  ticket'[queue'[i].req] < ticket'[queue'[j].req]
                OBVIOUS
            <4>1. i \in DOMAIN queue /\ queue'[i] = queue[i] /\ queue[i].req \in Called
                BY Zenon, <1>0, <3>4, <3>5
            <4>2. CASE j = last
                <5>1. queue'[j].req = r
                    BY Zenon, <3>4, <4>2
                <5> QED BY Zenon, <3>1, <4>1, <5>1
            <4>3. CASE j \in DOMAIN queue /\ queue'[j] = queue[j]
                <5>1. queue[j].req \in Called /\ ticket[queue[i].req] < ticket[queue[j].req]
                    BY Zenon, <1>0, <4>1, <4>3 DEF InLine
                <5>2. ticket'[queue[i].req] = ticket[queue[i].req] /\ ticket'[queue[j].req] = ticket[queue[j].req]
                    BY Zenon, <3>1, <4>1, <5>1
                <5> QED BY Zenon, <4>1, <4>3, <5>1, <5>2
            <4> QED BY Zenon, <3>4, <4>2, <4>3
        <3> QED BY Zenon, <3>1, <3>6, <3>7, <3>8 DEF InLine
    <2> QED BY Zenon, <1>1, <2>2, <2>3 DEF Acquire, CreateLease
<1>2. CASE Drain
    <2>1. CASE HeadFits /\ CreateLease(Head(queue).req, Head(queue).bytes) /\ queue' = Tail(queue)
               /\ UNCHANGED ticket
        <3> DEFINE r == Head(queue).req
        <3>1. queue # <<>> /\ 1 \in DOMAIN queue /\ r = queue[1].req
            BY <1>0, <2>1 DEF HeadFits
        <3>2. /\ DOMAIN queue' = 1..(Len(queue) - 1)
              /\ \A i \in DOMAIN queue' : queue'[i] = queue[i + 1]
            BY <1>0, <2>1, <3>1
        <3>3. /\ \A i \in DOMAIN queue' : i + 1 \in DOMAIN queue /\ 1 < i + 1 /\ queue'[i] = queue[i + 1]
              /\ \A i, j \in DOMAIN queue' : i < j => i + 1 < j + 1
              /\ \A i \in DOMAIN queue : i = 1 \/ \E j \in DOMAIN queue' : i = j + 1
            <4>1. \A i \in DOMAIN queue : i = 1 \/ (i - 1 \in DOMAIN queue' /\ i = (i - 1) + 1)
                BY <1>0, <3>2
            <4> QED BY <1>0, <3>2, <4>1
        <3>4. conn' = [conn EXCEPT ![r] = "handling"] /\ ticket' = ticket
            BY Zenon, <2>1 DEF CreateLease
        <3> HIDE DEF r
        <3>5. r \in Request /\ conn[r] = "queued"
            BY Zenon, <1>0, <3>1 DEF InLine
        <3>6. conn'[r] = "handling" /\ \A q \in Request : q # r => conn'[q] = conn[q]
            BY <3>4, <3>5 DEF TypeOK
        <3>7. \A i \in DOMAIN queue : 1 < i => queue[i].req # r
            <4>1. \A i \in DOMAIN queue : 1 < i => i # 1
                BY <1>0
            <4> QED BY Zenon, <3>1, <4>1, OnePlaceEach
        <3>8. Called' = Called
            BY <3>5, <3>6 DEF Called
        <3>9. \A i \in DOMAIN queue' : conn'[queue'[i].req] = "queued"
            <4> SUFFICES ASSUME NEW i \in DOMAIN queue' PROVE conn'[queue'[i].req] = "queued"
                OBVIOUS
            <4>1. i + 1 \in DOMAIN queue /\ 1 < i + 1 /\ queue'[i] = queue[i + 1]
                BY Zenon, <3>3
            <4>2. queue[i + 1].req \in Request /\ queue[i + 1].req # r /\ conn[queue[i + 1].req] = "queued"
                BY Zenon, <1>0, <3>7, <4>1 DEF InLine
            <4> QED BY Zenon, <3>6, <4>1, <4>2
        <3>10. \A q \in Request : conn'[q] = "queued" => \E i \in DOMAIN queue' : queue'[i].req = q
            <4> SUFFICES ASSUME NEW q \in Request, conn'[q] = "queued"
                         PROVE  \E i \in DOMAIN queue' : queue'[i].req = q
                OBVIOUS
            <4>1. q # r
                BY <3>6
            <4>2. PICK i \in DOMAIN queue : queue[i].req = q
                BY Zenon, <3>6, <4>1 DEF InLine
            <4> QED BY Zenon, <3>1, <3>3, <4>1, <4>2
        <3>11. \A i, j \in DOMAIN queue' : i < j => ticket'[queue'[i].req] < ticket'[queue'[j].req]
            BY ZenonT(30), <3>3, <3>4 DEF InLine
        <3> QED BY Zenon, <3>4, <3>8, <3>9, <3>10, <3>11 DEF InLine
    <2>2. CASE UNCHANGED <<queue, conn, ticket>>
        BY Zenon, <2>2, LineUntouched
    <2> QED BY Zenon, <1>2, <2>1, <2>2 DEF Drain
<1>3. ASSUME NEW r \in Request, Abort(r)
      PROVE  InLine'
    <2>1. PICK k \in DOMAIN queue : queue[k].req = r /\ queue' = Without(k)
        BY Zenon, <1>3 DEF Abort
    <2>2. conn[r] = "queued" /\ conn' = [conn EXCEPT ![r] = "over"] /\ ticket' = ticket
        BY Zenon, <1>3 DEF Abort
    <2>3. conn'[r] = "over" /\ \A q \in Request : q # r => conn'[q] = conn[q]
        BY <2>2 DEF TypeOK
    <2> DEFINE at(j) == IF j < k THEN j ELSE j + 1
    <2>4. /\ DOMAIN queue' = 1..(Len(queue) - 1)
          /\ \A j \in DOMAIN queue' : queue'[j] = queue[at(j)]
        BY <2>1 DEF Without
    <2>5. /\ \A j \in DOMAIN queue' : at(j) \in DOMAIN queue /\ at(j) # k
          /\ \A i, j \in DOMAIN queue' : i < j => at(i) < at(j)
        BY <1>0, <2>4
    <2>6. \A i \in DOMAIN queue : i = k \/ \E j \in DOMAIN queue' : i = at(j)
        <3> SUFFICES ASSUME NEW i \in DOMAIN queue, i # k PROVE \E j \in DOMAIN queue' : i = at(j)
            OBVIOUS
        <3>1. CASE i < k
            BY <1>0, <2>4, <3>1
        <3>2. CASE i > k
            <4>1. i - 1 \in DOMAIN queue' /\ at(i - 1) = i
                BY <1>0, <2>4, <3>2
            <4> QED BY <4>1
        <3> QED BY <1>0, <3>1, <3>2
    <2> HIDE DEF at
    <2>7. \A i \in DOMAIN queue : i # k => queue[i].req # r
        BY Zenon, <2>1, OnePlaceEach
    <2>8. Called' = Called
        BY <2>2, <2>3 DEF Called
    <2>9. \A i \in DOMAIN queue' : conn'[queue'[i].req] = "queued"
        <3> SUFFICES ASSUME NEW i \in DOMAIN queue' PROVE conn'[queue'[i].req] = "queued"
            OBVIOUS
        <3>1. at(i) \in DOMAIN queue /\ at(i) # k /\ queue'[i] = queue[at(i)]
            BY Zenon, <2>4, <2>5
        <3>2. queue[at(i)].req \in Request /\ queue[at(i)].req # r /\ conn[queue[at(i)].req] = "queued"
            BY Zenon, <1>0, <2>7, <3>1 DEF InLine
        <3> QED BY Zenon, <2>3, <3>1, <3>2
    <2>10. \A q \in Request : conn'[q] = "queued" => \E i \in DOMAIN queue' : queue'[i].req = q
        <3> SUFFICES ASSUME NEW q \in Request, conn'[q] = "queued"
                     PROVE  \E i \in DOMAIN queue' : queue'[i].req = q
            OBVIOUS
        <3>1. q # r
            BY <2>3
        <3>2. PICK i \in DOMAIN queue : queue[i].req = q
            BY Zenon, <2>3, <3>1 DEF InLine
        <3> QED BY Zenon, <2>1, <2>4, <2>6, <3>1, <3>2
    <2>11. \A i, j \in DOMAIN queue' : i < j => ticket'[queue'[i].req] < ticket'[queue'[j].req]
        BY Zenon, <2>2, <2>4, <2>5 DEF InLine
    <2> QED BY Zenon, <2>2, <2>8, <2>9, <2>10, <2>11 DEF InLine
<1>4. CASE Shutdown
    <2>1. queue' = <<>> /\ ticket' = ticket
          /\ conn' = [r \in Request |-> IF conn[r] = "queued" THEN "over" ELSE conn[r]]
        BY Zenon, <1>4 DEF Shutdown
    <2>2. Called' = Called /\ \A q \in Request : conn'[q] # "queued"
        BY <2>1 DEF Called
    <2>3. DOMAIN queue' = {}
        BY <2>1
    <2> QED BY Zenon, <2>1, <2>2, <2>3 DEF InLine
<1>5. ASSUME NEW r \in Request, conn[r] \notin {"new", "queued"},
             NEW c \in Conn \ {"new", "queued"}, conn' = [conn EXCEPT ![r] = c],
             UNCHANGED <<queue, ticket>>
      PROVE  InLine'
    BY <1>5, LineUntouched DEF TypeOK, Conn
<1>6. ASSUME NEW r \in Request, HandlerEnds(r) \/ HandlerAnswers(r) \/ Cancel(r) \/ StreamEnds(r)
      PROVE  InLine'
    <2>1. /\ conn[r] \notin {"new", "queued"} /\ UNCHANGED <<queue, ticket>>
          /\ \E c \in {"over", "streaming", "cancelled"} : conn' = [conn EXCEPT ![r] = c]
        BY <1>6 DEF HandlerEnds, HandlerAnswers, Cancel, StreamEnds
    <2> QED BY Zenon, <1>5, <2>1 DEF Conn
<1>7. ASSUME UNCHANGED <<queue, ticket, conn>>
      PROVE  InLine'
    BY Zenon, <1>7, LineUntouched
<1> QED BY Zenon, <1>1, <1>2, <1>3, <1>4, <1>6, <1>7 DEF Next, ReduceTo, vars

LEMMA LineCorrect == Spec => []InLine
<1>1. ASSUME Init PROVE InLine
    <2>1. \A q \in Request : conn[q] = "new"
        BY <1>1 DEF Init
    <2>2. DOMAIN queue = {} /\ Called = {}
        BY <1>1, <2>1 DEF Init, Called
    <2> QED BY <2>1, <2>2 DEF InLine
<1> QED BY <1>1, LineNext, TypeCorrect, PTL DEF Spec

\* FIFO: acquire's fast path asks for an empty queue, drain() admits its head only, and
\* the splice of an abort leaves the others in order.  So nobody is admitted while a
\* request that called acquire earlier goes on waiting.
THEOREM FirstComeFirstServed == Spec => NoOvertaking
<1>1. ASSUME TypeOK, InLine, Next, NEW r \in Request, NEW q \in Request,
             r \notin Held, r \in Held', conn[q] = "queued", conn'[q] = "queued"
      PROVE  ticket'[r] < ticket[q]
    <2>1. conn[r] \notin {"handling", "streaming"} /\ conn'[r] \in {"handling", "streaming"} /\ r # q
        BY Zenon, <1>1 DEF Held
    <2>2. PICK k \in DOMAIN queue : queue[k].req = q
        BY Zenon, <1>1 DEF InLine
    <2>3. queue # <<>>
        BY <2>2
    <2>4. ASSUME NEW p \in Request, NEW c, conn' = [conn EXCEPT ![p] = c],
                 c \notin {"handling", "streaming"} \/ conn[p] \in {"handling", "streaming"}
          PROVE  FALSE
        BY <1>1, <2>1, <2>4 DEF TypeOK
    <2>5. ASSUME NEW p \in Request, NEW length \in BodyLength, Acquire(p, Reservation(length))
          PROVE  FALSE
        BY Zenon, <2>3, <2>4, <2>5 DEF Acquire, FastPath
    <2>6. ASSUME NEW p \in Request,
                 Abort(p) \/ HandlerEnds(p) \/ HandlerAnswers(p) \/ Cancel(p) \/ StreamEnds(p)
          PROVE  FALSE
        <3>1. CASE HandlerAnswers(p)
            BY Zenon, <2>4, <3>1 DEF HandlerAnswers
        <3>2. CASE Abort(p) \/ HandlerEnds(p) \/ Cancel(p) \/ StreamEnds(p)
            <4>1. \E c \in {"over", "cancelled"} : conn' = [conn EXCEPT ![p] = c]
                BY Zenon, <3>2 DEF Abort, HandlerEnds, Cancel, StreamEnds
            <4> QED BY Zenon, <2>4, <4>1
        <3> QED BY Zenon, <2>6, <3>1, <3>2
    <2>7. conn' # conn
        BY Zenon, <2>1
    <2>8. ~Shutdown
        BY <1>1, <2>1 DEF Shutdown
    <2>9. Drain
        BY Zenon, <1>1, <2>5, <2>6, <2>7, <2>8 DEF Next, ReduceTo
    <2> DEFINE h == Head(queue).req
    <2>10. conn' = [conn EXCEPT ![h] = "handling"] /\ ticket' = ticket
        BY Zenon, <2>7, <2>9 DEF Drain, CreateLease
    <2>11. 1 \in DOMAIN queue /\ h = queue[1].req /\ h \in Request
        BY <1>1, <2>3, Entries
    <2> HIDE DEF h
    <2>12. r = h /\ q # h
        BY <1>1, <2>1, <2>10, <2>11 DEF TypeOK
    <2>13. 1 < k
        <3>1. k # 1
            BY Zenon, <2>2, <2>11, <2>12
        <3> QED BY <1>1, <3>1, <2>2, Entries
    <2> QED BY Zenon, <1>1, <2>2, <2>10, <2>11, <2>12, <2>13 DEF InLine
<1>2. TypeOK /\ InLine /\ [Next]_vars =>
        [\A r, q \in Request :
           /\ r \notin Held /\ r \in Held'
           /\ conn[q] = "queued" /\ conn'[q] = "queued"
           => ticket'[r] < ticket[q]]_vars
    BY Zenon, <1>1
<1> QED BY <1>2, LineCorrect, TypeCorrect, PTL DEF Spec, NoOvertaking
-----------------------------------------------------------------------------
(***************************************************************************)
(* Sums.  MapThenSumSet takes the elements of a finite set one by one, in an  *)
(* order that it does not say; the accounting needs that the order does not   *)
(* matter and that one more element adds its own value.                      *)
(***************************************************************************)
Total(f, S) == MapThenSumSet(LAMBDA r : f[r], S)
Pick(s) == CHOOSE x \in s : TRUE
Sums(f, S) == CHOOSE g : g = [s \in SUBSET S |->
                 IF s = {} THEN 0 ELSE f[Pick(s)] + g[s \ {Pick(s)}]]

LEMMA TotalIsSums ==
  ASSUME NEW f, NEW S
  PROVE Total(f, S) = Sums(f, S)[S]
BY DEF Total, MapThenSumSet, MapThenFoldSet, Sums, Pick

LEMMA NatMin ==
    ASSUME NEW T, T \subseteq Nat, T # {}
    PROVE  \E m \in T : \A n \in T : m <= n
<1> DEFINE R == {ss \in Nat \X Nat : ss[1] < ss[2]}
<1>1. IsWellFoundedOn(R, Nat)
    BY NatLessThanWellFounded DEF OpToRel
<1> HIDE DEF R
<1>2. PICK x \in T : \A y \in T : ~ (<<y, x>> \in R)
    BY Zenon, <1>1, WFMin
<1>3. \A y \in T : x <= y
    <2> SUFFICES ASSUME NEW y \in T PROVE x <= y
        OBVIOUS
    <2>1. x \in Nat /\ y \in Nat
        OBVIOUS
    <2>2. <<y, x>> \in Nat \X Nat /\ <<y, x>>[1] = y /\ <<y, x>>[2] = x
        BY <2>1
    <2>3. ~ (<<y, x>>[1] < <<y, x>>[2])
        BY <1>2, <2>2 DEF R
    <2> QED BY <2>1, <2>2, <2>3
<1> QED BY <1>3

\* Induction, for a set of numbers.
LEMMA Induct ==
    ASSUME NEW S, 0 \in S, \A n \in Nat : n \in S => n + 1 \in S
    PROVE  Nat \subseteq S
<1> SUFFICES ASSUME Nat \ S # {} PROVE FALSE
    OBVIOUS
<1>1. PICK m \in Nat \ S : \A n \in Nat \ S : m <= n
    BY Zenon, Nat \ S \subseteq Nat, NatMin
<1>2. m # 0 /\ m - 1 \in Nat
    BY <1>1
<1>3. m - 1 \in S
    BY <1>1, <1>2
<1>4. (m - 1) + 1 \in S
    BY <1>2, <1>3
<1> QED BY <1>1, <1>2, <1>4

LEMMA Subsets ==
    ASSUME NEW S, IsFiniteSet(S), NEW s \in SUBSET S
    PROVE  /\ IsFiniteSet(s) /\ Cardinality(s) \in Nat /\ Cardinality(s) <= Cardinality(S)
           /\ Cardinality(s) = 0 <=> s = {}
           /\ \A x \in s : s \ {x} \in SUBSET S /\ Cardinality(s \ {x}) = Cardinality(s) - 1
<1>1. IsFiniteSet(s) /\ Cardinality(s) <= Cardinality(S)
    BY FS_Subset
<1>2. Cardinality(s) \in Nat /\ (Cardinality(s) = 0 <=> s = {})
    BY <1>1, FS_CardinalityType, FS_EmptySet
<1>3. \A x \in s : Cardinality(s \ {x}) = Cardinality(s) - 1
    BY <1>1, FS_RemoveElement
<1> QED BY <1>1, <1>2, <1>3

\* The recursion by which the sum is defined has a solution on a finite set.
LEMMA SumsExist ==
    ASSUME NEW S, IsFiniteSet(S), NEW f
    PROVE  Sums(f, S) = [s \in SUBSET S |->
                           IF s = {} THEN 0 ELSE f[Pick(s)] + Sums(f, S)[s \ {Pick(s)}]]
<1> DEFINE Upto(n) == {s \in SUBSET S : Cardinality(s) <= n}
           Body(g, s) == IF s = {} THEN 0 ELSE f[Pick(s)] + g[s \ {Pick(s)}]
           Good == {n \in Nat : \E g : \A s \in Upto(n) : g[s] = Body(g, s)}
<1>1. 0 \in Good
    <2> DEFINE g == [s \in Upto(0) |-> 0]
    <2>1. \A s \in Upto(0) : s = {}
        BY Subsets
    <2>2. \A s \in Upto(0) : g[s] = Body(g, s)
        BY <2>1
    <2> QED BY Zenon, <2>2
<1>2. ASSUME NEW n \in Nat, n \in Good PROVE n + 1 \in Good
    <2>1. PICK g : \A s \in Upto(n) : g[s] = Body(g, s)
        BY Zenon, <1>2
    <2> DEFINE h == [s \in Upto(n + 1) |-> Body(g, s)]
    <2>2. \A s \in Upto(n) : s \in Upto(n + 1)
        BY Subsets
    <2>3. \A s \in Upto(n) : h[s] = g[s]
        BY Zenon, <2>1, <2>2
    <2>4. \A s \in Upto(n + 1) : s # {} => s \ {Pick(s)} \in Upto(n)
        <3> SUFFICES ASSUME NEW s \in Upto(n + 1), s # {} PROVE s \ {Pick(s)} \in Upto(n)
            OBVIOUS
        <3>1. Pick(s) \in s
            BY DEF Pick
        <3>2. s \in SUBSET S /\ Cardinality(s) <= n + 1
            OBVIOUS
        <3> HIDE DEF Upto
        <3>3. Cardinality(s) \in Nat
              /\ s \ {Pick(s)} \in SUBSET S /\ Cardinality(s \ {Pick(s)}) = Cardinality(s) - 1
            <4> DEFINE x == Pick(s)
            <4> HIDE DEF x
            <4>1. /\ Cardinality(s) \in Nat
                  /\ \A y \in s : s \ {y} \in SUBSET S /\ Cardinality(s \ {y}) = Cardinality(s) - 1
                BY Zenon, <3>2, Subsets
            <4>2. x \in s => s \ {x} \in SUBSET S /\ Cardinality(s \ {x}) = Cardinality(s) - 1
                BY Zenon, <4>1
            <4> QED BY Zenon, <3>1, <4>1, <4>2 DEF x
        <3> QED BY <3>2, <3>3 DEF Upto
    <2>5. \A s \in Upto(n + 1) : h[s] = Body(h, s)
        BY Zenon, <2>3, <2>4
    <2> HIDE DEF h
    <2>6. \E k : \A s \in Upto(n + 1) : k[s] = Body(k, s)
        BY Zenon, <2>5
    <2> HIDE DEF Upto, Body
    <2> QED BY <2>6
<1>3. Cardinality(S) \in Good
    <2> HIDE DEF Good
    <2> QED BY <1>1, <1>2, Induct, FS_CardinalityType
<1>4. Upto(Cardinality(S)) = SUBSET S
    BY Subsets
<1>5. PICK g : \A s \in SUBSET S : g[s] = Body(g, s)
    BY Zenon, <1>3, <1>4
<1> DEFINE k == [s \in SUBSET S |-> Body(g, s)]
<1>6. \A s \in SUBSET S : k[s] = Body(k, s)
    BY Zenon, <1>5
<1>7. k = [s \in SUBSET S |-> Body(k, s)]
    BY Zenon, <1>6
<1> HIDE DEF k
<1>8. \E x : x = [s \in SUBSET S |-> Body(x, s)]
    BY Zenon, <1>7
<1> QED BY Zenon, <1>8 DEF Sums

LEMMA SumsUnfold ==
    ASSUME NEW S, IsFiniteSet(S), NEW f, NEW s \in SUBSET S
    PROVE  /\ Sums(f, S)[{}] = 0
           /\ s # {} => Sums(f, S)[s] = f[Pick(s)] + Sums(f, S)[s \ {Pick(s)}]
<1> DEFINE g == Sums(f, S)
           Body(t) == IF t = {} THEN 0 ELSE f[Pick(t)] + g[t \ {Pick(t)}]
<1>1. g = [t \in SUBSET S |-> Body(t)]
    BY Zenon, SumsExist
<1> HIDE DEF g
<1>2. \A t \in SUBSET S : g[t] = Body(t)
    BY Zenon, <1>1
<1>3. {} \in SUBSET S
    OBVIOUS
<1> QED BY Zenon, <1>2, <1>3 DEF g

AnyOrder(f, S) ==
    \A s \in SUBSET S : /\ Sums(f, S)[s] \in Nat
                        /\ \A y \in s : Sums(f, S)[s] = f[y] + Sums(f, S)[s \ {y}]

\* The sum does not depend on the order in which the elements are taken.
LEMMA SumsAnyOrder ==
    ASSUME NEW S, IsFiniteSet(S), NEW f, \A x \in S : f[x] \in Nat
    PROVE  AnyOrder(f, S)
<1> DEFINE g == Sums(f, S)
           Fine(s) == g[s] \in Nat /\ \A y \in s : g[s] = f[y] + g[s \ {y}]
           Good == {n \in Nat : \A s \in SUBSET S : Cardinality(s) <= n => Fine(s)}
<1>1. g[{}] = 0 /\ \A s \in SUBSET S : s # {} => g[s] = f[Pick(s)] + g[s \ {Pick(s)}]
    BY Zenon, SumsUnfold
<1> HIDE DEF g
<1>2. 0 \in Good
    <2>1. \A s \in SUBSET S : Cardinality(s) <= 0 => s = {}
        <3> SUFFICES ASSUME NEW s \in SUBSET S, Cardinality(s) <= 0 PROVE s = {}
            OBVIOUS
        <3>1. Cardinality(s) \in Nat /\ (Cardinality(s) = 0 => s = {})
            BY Zenon, Subsets
        <3> QED BY <3>1
    <2>2. Fine({})
        BY <1>1
    <2> QED BY Zenon, <2>1, <2>2
<1>3. ASSUME NEW n \in Nat, n \in Good PROVE n + 1 \in Good
    <2>0. \A s \in SUBSET S : Cardinality(s) <= n => Fine(s)
        BY Zenon, <1>3
    <2> HIDE DEF Fine
    <2> SUFFICES ASSUME NEW s \in SUBSET S, Cardinality(s) <= n + 1, ~(Cardinality(s) <= n)
                 PROVE  Fine(s)
        BY <2>0
    <2> USE DEF Fine
    <2>1. s # {} /\ \A y \in s : s \ {y} \in SUBSET S /\ Cardinality(s \ {y}) <= n
        <3>1. Cardinality(s) \in Nat /\ (s = {} => Cardinality(s) = 0)
              /\ \A y \in s : s \ {y} \in SUBSET S /\ Cardinality(s \ {y}) = Cardinality(s) - 1
            BY Zenon, Subsets
        <3> QED BY <3>1
    <2>2. \A y \in s : Fine(s \ {y})
        BY Zenon, <2>0, <2>1
    <2> DEFINE x == Pick(s)
    <2>3. x \in s
        BY Zenon, <2>1 DEF Pick
    <2>4. g[s] = f[x] + g[s \ {x}]
        BY Zenon, <1>1, <2>1
    <2> HIDE DEF x
    <2>5. f[x] \in Nat /\ g[s \ {x}] \in Nat
        BY Zenon, <2>2, <2>3
    <2>6. g[s] \in Nat
        BY <2>4, <2>5
    <2>7. ASSUME NEW y \in s, y # x PROVE g[s] = f[y] + g[s \ {y}]
        <3>1. y \in s \ {x} /\ x \in s \ {y} /\ (s \ {x}) \ {y} = (s \ {y}) \ {x}
            BY <2>3, <2>7
        <3> DEFINE rest == g[(s \ {y}) \ {x}]
        <3>2. g[s \ {x}] = f[y] + rest
            BY Zenon, <2>2, <2>3, <3>1
        <3>3. g[s \ {y}] = f[x] + rest
            BY Zenon, <2>2, <3>1
        <3>4. rest \in Nat
            <4> DEFINE t == s \ {y}
            <4>1. t \in SUBSET S /\ Cardinality(t) <= n /\ x \in t
                BY Zenon, <2>1, <3>1
            <4> HIDE DEF t
            <4>2. t \ {x} \in SUBSET S /\ Cardinality(t \ {x}) = Cardinality(t) - 1 /\ Cardinality(t) \in Nat
                BY ZenonT(30), <4>1, Subsets
            <4>3. Cardinality(t \ {x}) <= n
                BY <4>1, <4>2
            <4> QED BY Zenon, <2>0, <4>2, <4>3 DEF t
        <3> HIDE DEF rest
        <3>5. f[y] \in Nat
            OBVIOUS
        <3> QED BY <2>4, <2>5, <3>2, <3>3, <3>4, <3>5
    <2> QED BY Zenon, <2>4, <2>6, <2>7
<1>4. Cardinality(S) \in Good
    <2> HIDE DEF Good
    <2> QED BY <1>2, <1>3, Induct, FS_CardinalityType
<1>5. \A s \in SUBSET S : Cardinality(s) <= Cardinality(S)
    BY Zenon, Subsets
<1> QED BY Zenon, <1>4, <1>5 DEF g, AnyOrder

LEMMA SumsTake ==
    ASSUME NEW S, IsFiniteSet(S), NEW f, \A x \in S : f[x] \in Nat, NEW y \in S
    PROVE  Sums(f, S)[S] \in Nat /\ Sums(f, S)[S] = f[y] + Sums(f, S)[S \ {y}]
<1>1. AnyOrder(f, S)
    BY Zenon, SumsAnyOrder
<1>2. S \in SUBSET S
    OBVIOUS
<1> QED BY Zenon, <1>1, <1>2 DEF AnyOrder

SameSums(f, S, h, T) == \A s \in SUBSET T : Sums(f, S)[s] = Sums(h, T)[s]

\* It depends on the values at the elements summed alone.
LEMMA SumsAgree ==
    ASSUME NEW S, IsFiniteSet(S), NEW T \in SUBSET S, NEW f, NEW h, \A x \in T : f[x] = h[x]
    PROVE  SameSums(f, S, h, T)
<1> DEFINE a == Sums(f, S)
           b == Sums(h, T)
           Good == {n \in Nat : \A s \in SUBSET T : Cardinality(s) <= n => a[s] = b[s]}
<1>0. IsFiniteSet(T) /\ \A s \in SUBSET T : s \in SUBSET S
    BY Zenon, FS_Subset
<1>1. a[{}] = 0 /\ \A s \in SUBSET T : s # {} => a[s] = f[Pick(s)] + a[s \ {Pick(s)}]
    BY Zenon, <1>0, SumsUnfold
<1>2. b[{}] = 0 /\ \A s \in SUBSET T : s # {} => b[s] = h[Pick(s)] + b[s \ {Pick(s)}]
    BY Zenon, <1>0, SumsUnfold
<1> HIDE DEF a, b
<1>3. 0 \in Good
    <2>1. \A s \in SUBSET T : Cardinality(s) <= 0 => s = {}
        <3> SUFFICES ASSUME NEW s \in SUBSET T, Cardinality(s) <= 0 PROVE s = {}
            OBVIOUS
        <3>1. Cardinality(s) \in Nat /\ (Cardinality(s) = 0 => s = {})
            BY Zenon, <1>0, Subsets
        <3> QED BY <3>1
    <2> QED BY Zenon, <1>1, <1>2, <2>1
<1>4. ASSUME NEW n \in Nat, n \in Good PROVE n + 1 \in Good
    <2>0. \A s \in SUBSET T : Cardinality(s) <= n => a[s] = b[s]
        BY Zenon, <1>4
    <2> SUFFICES ASSUME NEW s \in SUBSET T, Cardinality(s) <= n + 1 PROVE a[s] = b[s]
        OBVIOUS
    <2>1. CASE s = {}
        BY Zenon, <1>1, <1>2, <2>1
    <2>2. CASE s # {}
        <3> DEFINE x == Pick(s)
        <3>1. x \in s
            BY Zenon, <2>2 DEF Pick
        <3>2. a[s] = f[x] + a[s \ {x}] /\ b[s] = h[x] + b[s \ {x}]
            BY Zenon, <1>1, <1>2, <2>2
        <3> HIDE DEF x
        <3>3. Cardinality(s) \in Nat /\ s \ {x} \in SUBSET T /\ Cardinality(s \ {x}) = Cardinality(s) - 1
            BY Zenon, <1>0, <3>1, Subsets
        <3>4. Cardinality(s \ {x}) <= n
            BY <3>3
        <3> QED BY Zenon, <2>0, <3>1, <3>2, <3>3, <3>4
    <2> QED BY Zenon, <2>1, <2>2
<1>5. Cardinality(T) \in Good
    <2> HIDE DEF Good
    <2> QED BY <1>0, <1>3, <1>4, Induct, FS_CardinalityType
<1>6. \A s \in SUBSET T : Cardinality(s) <= Cardinality(T)
    BY Zenon, <1>0, Subsets
<1> QED BY Zenon, <1>5, <1>6 DEF a, b, SameSums

\* MapThenSumSet of the community modules: the sum over no elements, and what one
\* more element adds, whatever happens to the function elsewhere.
LEMMA TotalOfNone ==
    ASSUME NEW f
    PROVE  Total(f, {}) = 0
BY Zenon, TotalIsSums, SumsUnfold, FS_EmptySet

LEMMA TotalsAgree ==
    ASSUME NEW S, IsFiniteSet(S), NEW f, NEW h, \A x \in S : f[x] = h[x]
    PROVE  Total(f, S) = Total(h, S)
<1>1. S \in SUBSET S
    OBVIOUS
<1>2. SameSums(f, S, h, S)
    BY Zenon, <1>1, SumsAgree
<1> QED BY Zenon, <1>1, <1>2, TotalIsSums DEF SameSums

LEMMA TotalType ==
    ASSUME NEW S, IsFiniteSet(S), NEW f, \A x \in S : f[x] \in Nat
    PROVE  Total(f, S) \in Nat
<1>1. AnyOrder(f, S)
    BY Zenon, SumsAnyOrder
<1>2. S \in SUBSET S
    OBVIOUS
<1> QED BY Zenon, <1>1, <1>2, TotalIsSums DEF AnyOrder

LEMMA TotalOfOneMore ==
    ASSUME NEW S, IsFiniteSet(S), NEW r, r \notin S, NEW f, NEW h,
           \A x \in S : f[x] \in Nat /\ h[x] = f[x], h[r] \in Nat
    PROVE  Total(h, S \cup {r}) = Total(f, S) + h[r]
<1> DEFINE U == S \cup {r}
<1>1. IsFiniteSet(U)
    BY FS_AddElement
<1>2. U \in SUBSET U /\ r \in U /\ U \ {r} = S /\ S \in SUBSET U /\ S \in SUBSET S
    OBVIOUS
<1>2a. \A x \in U : h[x] \in Nat
    OBVIOUS
<1> HIDE DEF U
<1>3. Sums(h, U)[U] = h[r] + Sums(h, U)[S]
    <2>1. Sums(h, U)[U] = h[r] + Sums(h, U)[U \ {r}]
        BY Zenon, <1>1, <1>2, <1>2a, SumsTake
    <2> QED BY Zenon, <1>2, <2>1
<1>4. Sums(h, U)[S] = Sums(f, S)[S]
    <2>1. \A x \in S : h[x] = f[x]
        OBVIOUS
    <2>2. SameSums(h, U, f, S)
        BY Zenon, <1>1, <1>2, <2>1, SumsAgree
    <2> QED BY Zenon, <1>2, <2>2 DEF SameSums
<1>5. Sums(f, S)[S] \in Nat
    BY Zenon, TotalType, TotalIsSums
<1>6. h[r] + Sums(f, S)[S] = Sums(f, S)[S] + h[r]
    BY <1>5
<1> QED BY Zenon, <1>3, <1>4, <1>6, TotalIsSums DEF U

-----------------------------------------------------------------------------
(***************************************************************************)
(* The books balance.  A lease is created for a request that holds none, and *)
(* reduced or released only by one that holds it, so that the clamps of       *)
(* reduceTo and release never cut anything off.                              *)
(***************************************************************************)
Books ==
    /\ reserved = Total(lease, Held)
    /\ active = Cardinality(Held)
    /\ admitted = active + released

LEMMA HeldFinite ==
    ASSUME NEW H \in SUBSET Request
    PROVE  IsFiniteSet(H) /\ Cardinality(H) \in Nat
BY Zenon, AdmissionAssumption, FS_Subset, FS_CardinalityType

LEMMA LeaseIsNat ==
    ASSUME TypeOK
    PROVE  \A r \in Request : lease[r] \in Nat
BY AdmissionAssumption DEF TypeOK

LEMMA LeaseOpened ==
    ASSUME TypeOK, Books, NEW r \in Request, r \notin Held, NEW bytes \in 0..Budget,
           CreateLease(r, bytes), released' = released
    PROVE  Books'
<1>1. lease' = [lease EXCEPT ![r] = bytes] /\ conn' = [conn EXCEPT ![r] = "handling"]
      /\ reserved' = reserved + bytes /\ active' = active + 1 /\ admitted' = admitted + 1
    BY Zenon DEF CreateLease
<1>2. Held' = Held \cup {r} /\ Held \in SUBSET Request
    BY <1>1 DEF TypeOK, Held
<1>3. lease'[r] = bytes /\ bytes \in Nat /\ \A x \in Held : lease[x] \in Nat /\ lease'[x] = lease[x]
    <2>1. \A x \in Held : x \in Request /\ x # r
        BY Zenon, <1>2
    <2>2. bytes \in Nat
        BY AdmissionAssumption
    <2> QED BY Zenon, <1>1, <2>1, <2>2, LeaseIsNat DEF TypeOK
<1>4. IsFiniteSet(Held) /\ Cardinality(Held) \in Nat
    BY Zenon, <1>2, HeldFinite
<1>5. Total(lease', Held') = Total(lease, Held) + bytes
    <2>1. Total(lease', Held \cup {r}) = Total(lease, Held) + lease'[r]
        BY ZenonT(30), <1>3, <1>4, TotalOfOneMore
    <2> QED BY Zenon, <1>2, <1>3, <2>1
<1>6. Cardinality(Held') = Cardinality(Held) + 1
    BY Zenon, <1>2, <1>4, FS_AddElement
<1>7. reserved' = Total(lease', Held')
    BY Zenon, <1>1, <1>5 DEF Books
<1>8. active' = Cardinality(Held')
    BY Zenon, <1>1, <1>6 DEF Books
<1>9. admitted' = active' + released'
    BY <1>1 DEF Books, TypeOK
<1> QED BY Zenon, <1>7, <1>8, <1>9 DEF Books

\* A request that holds a lease accounts for at least that much.
LEMMA HolderCounts ==
    ASSUME TypeOK, Books, NEW r \in Held
    PROVE  LET H == Held \ {r} IN
           /\ H \in SUBSET Request /\ IsFiniteSet(H) /\ r \notin H /\ H \cup {r} = Held
           /\ Total(lease, H) \in Nat /\ Cardinality(H) \in Nat
           /\ reserved = Total(lease, H) + lease[r] /\ active = Cardinality(H) + 1
           /\ \A x \in H : lease[x] \in Nat
           /\ r \in Request /\ lease[r] \in Nat
<1> DEFINE H == Held \ {r}
<1>1. H \in SUBSET Request /\ r \notin H /\ H \cup {r} = Held /\ r \in Request
    BY DEF Held
<1>2. IsFiniteSet(H) /\ Cardinality(H) \in Nat
    BY Zenon, <1>1, HeldFinite
<1>3. lease[r] \in Nat /\ \A x \in H : lease[x] \in Nat
    BY Zenon, <1>1, LeaseIsNat
<1> HIDE DEF H
<1>4. Total(lease, H) \in Nat
    BY Zenon, <1>2, <1>3, TotalType
<1>5. \A x \in H : lease[x] \in Nat /\ lease[x] = lease[x]
    BY Zenon, <1>3
<1>6. Total(lease, H \cup {r}) = Total(lease, H) + lease[r]
    BY Zenon, <1>1, <1>2, <1>3, <1>5, TotalOfOneMore
<1>7. Cardinality(H \cup {r}) = Cardinality(H) + 1
    BY Zenon, <1>1, <1>2, FS_AddElement
<1> QED BY Zenon, <1>1, <1>2, <1>3, <1>4, <1>6, <1>7 DEF Books, H

LEMMA LeaseClosed ==
    ASSUME TypeOK, Books, NEW r \in Held, Release(r), NEW c,
           conn' = [conn EXCEPT ![r] = c], c \notin {"handling", "streaming"}, admitted' = admitted
    PROVE  Books'
<1> DEFINE H == Held \ {r}
<1>1. /\ H \in SUBSET Request /\ IsFiniteSet(H) /\ r \notin H /\ H \cup {r} = Held
      /\ Total(lease, H) \in Nat /\ Cardinality(H) \in Nat
      /\ reserved = Total(lease, H) + lease[r] /\ active = Cardinality(H) + 1
      /\ \A x \in H : lease[x] \in Nat
      /\ r \in Request /\ lease[r] \in Nat
    BY Zenon, HolderCounts
<1>2. lease' = [lease EXCEPT ![r] = 0] /\ reserved' = Minus(reserved, lease[r])
      /\ active' = Minus(active, 1) /\ released' = released + 1
    BY Zenon DEF Release
<1>3. Held' = H
    BY <1>1 DEF TypeOK, Held
<1> HIDE DEF H
<1>4. \A x \in H : lease'[x] = lease[x]
    BY <1>1, <1>2 DEF TypeOK
<1>5. Total(lease', H) = Total(lease, H)
    BY Zenon, <1>1, <1>4, TotalsAgree
<1>6. reserved' = Total(lease, H) /\ active' = Cardinality(H)
    BY <1>1, <1>2 DEF Minus
<1>7. admitted' = active' + released'
    BY <1>1, <1>2, <1>6 DEF Books, TypeOK
<1> QED BY Zenon, <1>3, <1>5, <1>6, <1>7 DEF Books

LEMMA BooksNext == TypeOK /\ InLine /\ Books /\ [Next]_vars => Books'
<1> SUFFICES ASSUME TypeOK, InLine, Books, [Next]_vars PROVE Books'
    OBVIOUS
<1>1. ASSUME UNCHANGED <<reserved, active, lease, admitted, released>>, Held' = Held
      PROVE  Books'
    BY Zenon, <1>1 DEF Books
<1>2. ASSUME NEW r \in Request, NEW c, conn' = [conn EXCEPT ![r] = c],
             c \in {"handling", "streaming"} <=> conn[r] \in {"handling", "streaming"}
      PROVE  Held' = Held
    BY <1>2 DEF TypeOK, Held
<1>3. ASSUME NEW r \in Request, NEW length \in BodyLength, Acquire(r, Reservation(length))
      PROVE  Books'
    <2> DEFINE bytes == Reservation(length)
    <2>1. bytes \in 0..Budget
        BY ReservationFits, AdmissionAssumption DEF BodyLength, Opaque
    <2> HIDE DEF bytes
    <2>2. conn[r] = "new" /\ released' = released
        BY Zenon, <1>3 DEF Acquire
    <2>3. CASE CreateLease(r, bytes)
        <3>1. r \notin Held
            BY <2>2 DEF Held
        <3> QED BY Zenon, <2>1, <2>2, <2>3, <3>1, LeaseOpened
    <2>4. CASE UNCHANGED <<reserved, active, admitted, lease>>
               /\ \E c \in {"queued", "over"} : conn' = [conn EXCEPT ![r] = c]
        <3>1. Held' = Held
            BY Zenon, <1>2, <2>2, <2>4
        <3> QED BY Zenon, <1>1, <2>2, <2>4, <3>1
    <2> QED BY Zenon, <1>3, <2>3, <2>4 DEF Acquire, bytes
<1>4. CASE Drain
    <2>1. CASE HeadFits /\ CreateLease(Head(queue).req, Head(queue).bytes) /\ released' = released
        <3>1. queue # <<>> /\ queue \in Seq(Waiting) /\ 1 \in DOMAIN queue /\ Head(queue) = queue[1]
            BY <2>1, Entries DEF HeadFits
        <3>2. Head(queue) \in Waiting
            BY Zenon, <3>1, HeadTailQueue
        <3>3. Head(queue).req \in Request /\ Head(queue).bytes \in 0..Budget
            BY <3>2 DEF Waiting
        <3>4. conn[Head(queue).req] = "queued"
            BY Zenon, <3>1 DEF InLine
        <3>5. Head(queue).req \notin Held
            BY <3>4 DEF Held
        <3> QED BY Zenon, <2>1, <3>3, <3>5, LeaseOpened
    <2>2. CASE UNCHANGED <<reserved, active, conn, lease, admitted, released>>
        BY Zenon, <1>1, <2>2 DEF Held
    <2> QED BY Zenon, <1>4, <2>1, <2>2 DEF Drain
<1>5. ASSUME NEW r \in Request, NEW length \in 0..MaxBody,
             ReduceTo(r, Smaller(Budget, length * Multiplier))
      PROVE  Books'
    <2> DEFINE bytes == Smaller(Budget, length * Multiplier)
               H == Held \ {r}
    <2>0. length \in Nat
        BY AdmissionAssumption
    <2>1. bytes \in 0..Budget
        BY <2>0, ReservationFits
    <2>2. bytes \in Nat
        BY <2>1, AdmissionAssumption
    <2> HIDE DEF bytes
    <2>3. r \in Held
        BY <1>5 DEF ReduceTo, Held
    <2>4. /\ IsFiniteSet(H) /\ r \notin H /\ H \cup {r} = Held /\ Total(lease, H) \in Nat
          /\ reserved = Total(lease, H) + lease[r] /\ lease[r] \in Nat
          /\ \A x \in H : lease[x] \in Nat
        BY Zenon, <2>3, HolderCounts
    <2>5. bytes < lease[r] /\ lease' = [lease EXCEPT ![r] = bytes]
          /\ reserved' = Minus(reserved, lease[r] - bytes)
          /\ UNCHANGED <<active, conn, admitted, released>>
        BY Zenon, <1>5 DEF ReduceTo, bytes
    <2>6. Held' = Held
        BY Zenon, <2>5 DEF Held
    <2> HIDE DEF H
    <2>7. reserved' = Total(lease, H) + bytes
        BY <2>2, <2>4, <2>5 DEF Minus
    <2>8. lease'[r] = bytes /\ \A x \in H : lease[x] \in Nat /\ lease'[x] = lease[x]
        <3>1. \A x \in H : x \in Request /\ x # r
            BY DEF H, Held
        <3> QED BY Zenon, <2>4, <2>5, <3>1 DEF TypeOK
    <2>9. Total(lease', H \cup {r}) = Total(lease, H) + lease'[r]
        BY Zenon, <2>2, <2>4, <2>8, TotalOfOneMore
    <2>10. reserved' = Total(lease', Held')
        BY Zenon, <2>4, <2>6, <2>7, <2>8, <2>9
    <2> QED BY Zenon, <2>5, <2>6, <2>10 DEF Books
<1>6. ASSUME NEW r \in Request, Abort(r)
      PROVE  Books'
    <2>1. conn[r] = "queued" /\ conn' = [conn EXCEPT ![r] = "over"]
          /\ UNCHANGED <<reserved, active, lease, admitted, released>>
        BY Zenon, <1>6 DEF Abort
    <2>2. Held' = Held
        BY Zenon, <1>2, <2>1
    <2> QED BY Zenon, <1>1, <2>1, <2>2
<1>7. ASSUME NEW r \in Request, HandlerEnds(r)
      PROVE  Books'
    <2>1. r \in Held
        BY <1>7 DEF HandlerEnds, Held
    <2> QED BY Zenon, <1>7, <2>1, LeaseClosed DEF HandlerEnds
<1>8. ASSUME NEW r \in Request, HandlerAnswers(r)
      PROVE  Books'
    <2>1. conn[r] = "handling" /\ conn' = [conn EXCEPT ![r] = "streaming"]
          /\ UNCHANGED <<reserved, active, lease, admitted, released>>
        BY Zenon, <1>8 DEF HandlerAnswers
    <2>2. Held' = Held
        BY Zenon, <1>2, <2>1
    <2> QED BY Zenon, <1>1, <2>1, <2>2
<1>9. ASSUME NEW r \in Request, Cancel(r)
      PROVE  Books'
    <2>1. r \in Held
        BY <1>9 DEF Cancel, Held
    <2>2. Release(r) /\ conn' = [conn EXCEPT ![r] = "cancelled"] /\ admitted' = admitted
        BY Zenon, <1>9 DEF Cancel
    <2>3. "cancelled" \notin {"handling", "streaming"}
        OBVIOUS
    <2> QED BY Zenon, <2>1, <2>2, <2>3, LeaseClosed
<1>10. ASSUME NEW r \in Request, StreamEnds(r)
      PROVE  Books'
    <2>1. CASE conn[r] = "streaming"
        <3>1. r \in Held
            BY <2>1 DEF Held
        <3>2. Release(r) /\ conn' = [conn EXCEPT ![r] = "over"] /\ admitted' = admitted
            BY Zenon, <1>10, <2>1 DEF StreamEnds
        <3> QED BY Zenon, <3>1, <3>2, LeaseClosed
    <2>2. CASE conn[r] # "streaming"
        <3>1. conn[r] = "cancelled" /\ conn' = [conn EXCEPT ![r] = "over"]
              /\ UNCHANGED <<reserved, active, lease, admitted, released>>
            BY <1>10, <2>2 DEF StreamEnds
        <3>2. Held' = Held
            BY Zenon, <1>2, <3>1
        <3> QED BY Zenon, <1>1, <3>1, <3>2
    <2> QED BY <2>1, <2>2
<1>11. CASE Shutdown
    <2>1. conn' = [r \in Request |-> IF conn[r] = "queued" THEN "over" ELSE conn[r]]
          /\ UNCHANGED <<reserved, active, lease, admitted, released>>
        BY Zenon, <1>11 DEF Shutdown
    <2>2. Held' = Held
        BY <2>1 DEF Held
    <2> QED BY Zenon, <1>1, <2>1, <2>2
<1>12. CASE UNCHANGED vars
    BY Zenon, <1>1, <1>12 DEF vars, Held
<1> QED BY Zenon, <1>3, <1>4, <1>5, <1>6, <1>7, <1>8, <1>9, <1>10, <1>11, <1>12 DEF Next

\* createLease, reduceTo and release keep reservedBytes and activeLeases by differences
\* clamped at zero, and a stream's end, its cancellation and the handler may each come
\* to release the same lease: the counters are still exactly what is held, and outside
\* drain() the oldest waiting request never fits, at any time and for any number of
\* requests.
THEOREM BooksBalance == Spec => []BudgetExact
<1>1. ASSUME Init PROVE Books
    <2>1. Held = {}
        BY <1>1 DEF Init, Held
    <2>2. Cardinality({}) = 0 /\ Total(lease, {}) = 0
        BY Zenon, FS_EmptySet, TotalOfNone
    <2> QED BY <1>1, <2>1, <2>2 DEF Init, Books
<1>2. Books => Accounting
    BY Zenon DEF Books, Accounting, Total
<1> QED BY <1>1, <1>2, BooksNext, LineCorrect, TypeCorrect, RoomNeverWasted, PTL
        DEF Spec, BudgetExact

=============================================================================
