----------------------- MODULE TokenRotationProofs -----------------------
(***************************************************************************)
(* Proofs about TokenRotation.tla, for every number of requests, logins,   *)
(* rotations and generations, and for every choice of faults and of what   *)
(* the operator does.                                                      *)
(***************************************************************************)
EXTENDS TokenRotation, Integers, TLAPS

\* A leaf goes to Zenon unless it names SMT.
USE Zenon

-----------------------------------------------------------------------------
(* Sequences: the queue of the outbox file. *)

LEMMA SeqElement ==
    ASSUME NEW S, NEW q \in Seq(S), NEW n \in 1..Len(q)
    PROVE  q[n] \in S
  BY SMT

LEMMA SeqShape ==
    ASSUME NEW S, NEW q \in Seq(S)
    PROVE  Len(q) \in Nat /\ DOMAIN q = 1..Len(q)
  BY SMT

LEMMA FunctionIsSeq ==
    ASSUME NEW S, NEW n \in Nat, NEW q \in [1..n -> S]
    PROVE  q \in Seq(S) /\ Len(q) = n
  BY SMT

LEMMA EmptyOrNot ==
    ASSUME NEW S
    PROVE  /\ <<>> \in Seq(S) /\ Len(<<>>) = 0
           /\ \A q \in Seq(S) : q # <<>> => Len(q) \in Nat \ {0}
  BY SMT

LEMMA HeadAndTail ==
    ASSUME NEW S, NEW q \in Seq(S), q # <<>>
    PROVE  /\ Head(q) = q[1] /\ Head(q) \in S
           /\ Tail(q) \in Seq(S) /\ Len(Tail(q)) = Len(q) - 1
           /\ \A n \in 1..(Len(q) - 1) : Tail(q)[n] = q[n + 1]
  BY SMT

LEMMA Appended ==
    ASSUME NEW S, NEW q \in Seq(S), NEW e \in S
    PROVE  /\ Append(q, e) \in Seq(S) /\ Len(Append(q, e)) = Len(q) + 1
           /\ Append(q, e)[Len(q) + 1] = e
           /\ \A n \in 1..Len(q) : Append(q, e)[n] = q[n]
  BY SMT

-----------------------------------------------------------------------------
(* Types *)

Row == [gen: 0..MaxGeneration, tok: Token \cup {NoToken}, reauth: BOOLEAN, paused: BOOLEAN]
FileOp == [op: {"save", "remove"}, rot: Rotation \cup {NoRotation}, owner: Proc \cup {NoProc}]

\* What a process holds at the places where it uses it.
Sound(l) ==
    /\ l \in Local
    /\ l.pc # "idle" => l.gen \in Generation /\ l.tok \in Token
    /\ l.pc \in {"minted", "persist", "persisted", "saving"} => l.new \in Token
    /\ l.pc \in {"flush", "flushed", "flushing"} => l.entry \in Rotation

ProcsSound == \A p \in Proc : Sound(procs[p])

\* A row in place has a token, and one is re-created only within the bound.
RowSound ==
    /\ db.gen # 0 => db.tok \in Token
    /\ db.gen = 0 => created < MaxGeneration

Awaiting == {"saving", "flushing"}

\* Whoever waits for an operation on the file waits for one operation.
OwnersWait ==
    \A n \in 1..Len(walQueue) :
        walQueue[n].owner # NoProc =>
            /\ procs[walQueue[n].owner].pc \in Awaiting
            /\ \A m \in 1..Len(walQueue) : walQueue[m].owner = walQueue[n].owner => m = n

Inv == TypeOK /\ ProcsSound /\ RowSound /\ OwnersWait

-----------------------------------------------------------------------------
(* Constants and single processes *)

LEMMA ConstantTypes ==
    /\ Login \subseteq Nat /\ 1 \in Login
    /\ Generation \subseteq Nat /\ 1 \in Generation /\ 0 \notin Generation
    /\ Generation \subseteq 0..MaxGeneration
    /\ 1 \in 1..MaxRotation
    /\ [f |-> 1, i |-> 1] \in Token
    /\ \A r \in Rotation \cup {NoRotation} : r.gen \in Generation => r \in Rotation
    /\ NoRotation \notin Rotation
  BY SMT, RotationAssumption DEF Login, Generation, Token, Rotation, NoRotation

LEMMA IdleSound == Sound(Idle)
  BY SMT, ConstantTypes, RotationAssumption
  DEF Sound, Idle, Local, Pc, NoToken, NoRotation, Generation

\* A write leaves the row it found or the new one; the latter only under its guard.
LEMMA UpdatesType ==
    ASSUME NEW guard \in BOOLEAN, NEW new, NEW u \in Updates(guard, new)
    PROVE  /\ u.row = db \/ (guard /\ u.row = new)
           /\ u.result \in {"ok", "lost", "threw"}
  <1>1. \/ guard /\ u = [row |-> new, result |-> "ok"]
        \/ u = [row |-> db, result |-> "lost"]
        \/ u = [row |-> db, result |-> "threw"]
        \/ guard /\ \E r \in {"lost", "threw"} : u = [row |-> new, result |-> r]
    BY DEF Updates
  <1>2. \/ guard /\ u.row = new /\ u.result \in {"ok", "lost", "threw"}
        \/ u.row = db /\ u.result \in {"ok", "lost", "threw"}
    <2>1. CASE guard /\ u = [row |-> new, result |-> "ok"]
      BY <2>1
    <2>2. CASE u = [row |-> db, result |-> "lost"]
      BY <2>2
    <2>3. CASE u = [row |-> db, result |-> "threw"]
      BY <2>3
    <2>4. CASE guard /\ \E r \in {"lost", "threw"} : u = [row |-> new, result |-> r]
      <3>1. PICK r \in {"lost", "threw"} : u = [row |-> new, result |-> r]
        BY <2>4
      <3> QED
        BY <2>4, <3>1
    <2> QED
      BY <1>1, <2>1, <2>2, <2>3, <2>4
  <1> QED
    BY <1>2

-----------------------------------------------------------------------------
(* Steps of one process *)

Moved(p) == procs' = [procs EXCEPT ![p] = procs'[p]] /\ Sound(procs'[p])

-----------------------------------------------------------------------------
(* The actions of a process *)

LEMMA CurrentRow ==
    ASSUME Inv, NEW p \in Proc, procs[p].pc # "idle", Current(p)
    PROVE  db.gen # 0 /\ db.tok \in Token
  <1>1. Sound(procs[p])
    BY DEF Inv, ProcsSound
  <1>2. procs[p].gen \in Generation
    BY <1>1 DEF Sound
  <1> QED
    BY <1>2, ConstantTypes DEF Current, Inv, RowSound

-----------------------------------------------------------------------------
(* The queue of operations on the file *)

LEMMA WalOpType ==
    ASSUME NEW op \in {"save", "remove"}, NEW rot \in Rotation \cup {NoRotation},
           NEW owner \in Proc \cup {NoProc}
    PROVE  WalOp(op, rot, owner) \in FileOp /\ WalOp(op, rot, owner).owner = owner
  BY DEF WalOp, FileOp

RebasedQueue(e) ==
    [n \in DOMAIN walQueue |-> IF walQueue[n].rot = pending
                               THEN [walQueue[n] EXCEPT !.rot = Rebased(e)]
                               ELSE walQueue[n]]

\* The survivor of a flush and the queue that will write it.
LEMMA RebasedType ==
    ASSUME Inv, NEW e \in Rotation, Survivor(e)
    PROVE  /\ Rebased(e) \in Rotation
           /\ RebasedQueue(e) \in Seq(FileOp) /\ Len(RebasedQueue(e)) = Len(walQueue)
           /\ \A n \in 1..Len(walQueue) : RebasedQueue(e)[n].owner = walQueue[n].owner
  <1> DEFINE rebased(n) == IF walQueue[n].rot = pending
                           THEN [walQueue[n] EXCEPT !.rot = Rebased(e)] ELSE walQueue[n]
             q == [n \in DOMAIN walQueue |-> rebased(n)]
  <1>1. Rebased(e) \in Rotation
    <2>1. e.gen \in Generation /\ e.tok \in Token
      BY DEF Rotation
    <2>2. pending \in Rotation
      BY <2>1, ConstantTypes DEF Survivor, Inv, TypeOK
    <2> QED
      BY <2>1, <2>2 DEF Rebased, Rotation
  <1>2. walQueue \in Seq(FileOp) /\ DOMAIN walQueue = 1..Len(walQueue) /\ Len(walQueue) \in Nat
    BY SeqShape DEF Inv, TypeOK, FileOp
  <1>3. \A n \in 1..Len(walQueue) : rebased(n) \in FileOp /\ rebased(n).owner = walQueue[n].owner
    <2>1. \A n \in 1..Len(walQueue) : walQueue[n] \in FileOp
      BY <1>2, SeqElement
    <2> QED
      BY <1>1, <2>1 DEF FileOp
  <1>4. RebasedQueue(e) = q
    BY DEF RebasedQueue
  <1> HIDE DEF rebased
  <1>5. q \in [1..Len(walQueue) -> FileOp] /\ q \in Seq(FileOp)
    BY SMT, <1>2, <1>3, FunctionIsSeq
  <1>6. Len(q) = Len(walQueue)
    BY SMT, <1>2, <1>5, SeqShape
  <1>7. \A n \in 1..Len(walQueue) : q[n].owner = walQueue[n].owner
    BY <1>2, <1>3
  <1> QED
    BY <1>1, <1>4, <1>5, <1>6, <1>7

-----------------------------------------------------------------------------
(* The handlers of the HTTP API, restarts and time *)

-----------------------------------------------------------------------------
LEMMA InvInit == Init => Inv
  <1> SUFFICES ASSUME Init PROVE Inv
    BY SMTT(30)
  <1>1. procs = [p \in Proc |-> Idle] /\ ProcsSound /\ procs \in [Proc -> Local]
    BY IdleSound DEF Init, ProcsSound, Sound
  <1>2. /\ live \in [Login -> 0..MaxRotation]
        /\ logins \in Login /\ created \in Generation
        /\ db \in Row /\ RowSound
    BY SMTT(30), ConstantTypes, RotationAssumption DEF Init, Row, RowSound
  <1>3. walQueue = <<>> /\ walQueue \in Seq(FileOp) /\ OwnersWait
    BY SMT DEF Init, OwnersWait
  <1>4. TypeOK
    BY <1>1, <1>2, <1>3 DEF Init, TypeOK, Row, FileOp
  <1> QED
    BY <1>1, <1>2, <1>3, <1>4 DEF Inv

LEMMA InvNext == Inv /\ [Next]_vars => Inv'
  \* A process that only moves is sound again, provided it has what the new place uses.
  <1>MoveSound.
      ASSUME NEW l, Sound(l), l.pc # "idle", NEW pc \in Pc,
             pc \in {"minted", "persist", "persisted", "saving"} => l.new \in Token,
             pc \in {"flush", "flushed", "flushing"} => l.entry \in Rotation
      PROVE  Sound([l EXCEPT !.pc = pc])
    BY <1>MoveSound DEF Sound, Local
  <1>ResultSound.
      ASSUME NEW l, Sound(l), NEW r \in {"none", "ok", "lost", "threw"}
      PROVE  Sound([l EXCEPT !.result = r]) /\ [l EXCEPT !.result = r].pc = l.pc
    BY <1>ResultSound DEF Sound, Local
  <1>YoungSound.
      ASSUME NEW l, Sound(l), NEW t \in Token
      PROVE  Sound([l EXCEPT !.young = @ \cup {t}])
    BY <1>YoungSound DEF Sound, Local
  <1>LeaveMoves.
      ASSUME Inv, NEW p \in Proc, Leave(p)
      PROVE  Moved(p)
    BY <1>LeaveMoves, IdleSound DEF Inv, TypeOK, Leave, Moved
  <1>GotoMoves.
      ASSUME Inv, NEW p \in Proc, NEW pc \in Pc, procs[p].pc # "idle", Goto(p, pc),
             pc \in {"minted", "persist", "persisted", "saving"} => procs[p].new \in Token,
             pc \in {"flush", "flushed", "flushing"} => procs[p].entry \in Rotation
      PROVE  Moved(p)
    <2> USE <1>GotoMoves
    <2>1. Sound(procs[p]) /\ procs \in [Proc -> Local]
      BY DEF Inv, ProcsSound, TypeOK
    <2>2. Sound([procs[p] EXCEPT !.pc = pc])
      BY <2>1, <1>MoveSound
    <2>3. /\ procs'[p] = [procs[p] EXCEPT !.pc = pc]
          /\ procs' = [procs EXCEPT ![p] = procs'[p]]
      BY <2>1 DEF Goto
    <2> QED
      BY <2>2, <2>3 DEF Moved
  <1>SettleMoves.
      ASSUME Inv, NEW p \in Proc, Settle(p)
      PROVE  Moved(p) /\ inFlight' \in Proc \cup {NoProc}
    BY <1>SettleMoves, <1>LeaveMoves DEF Settle, Inv, TypeOK
  <1>ThrowMoves.
      ASSUME Inv, NEW p \in Proc, procs[p].pc # "idle", Throw(p)
      PROVE  Moved(p) /\ inFlight' \in Proc \cup {NoProc}
    <2> USE <1>ThrowMoves
    <2>1. CASE p \in Request
      <3>1. Goto(p, "failed") /\ inFlight' = inFlight
        BY <2>1 DEF Throw
      <3>2. "failed" \in Pc
        BY DEF Pc
      <3>3. Moved(p)
        BY <3>1, <3>2, <1>GotoMoves
      <3> QED
        BY <3>1, <3>3 DEF Inv, TypeOK
    <2>2. CASE p \notin Request
      BY <2>2, <1>SettleMoves DEF Throw
    <2> QED
      BY <2>1, <2>2
  <1>JoinOrExchangeMoves.
      ASSUME Inv, NEW p \in Proc, procs[p].pc # "idle", NEW t \in Token, JoinOrExchange(p, t)
      PROVE  Moved(p) /\ inFlight' \in Proc \cup {NoProc}
    <2> USE <1>JoinOrExchangeMoves
    <2>1. CASE InFlightFor(procs[p].gen)
      <3>1. Leave(p) /\ inFlight' = inFlight
        BY <2>1 DEF JoinOrExchange
      <3> QED
        BY <3>1, <1>LeaveMoves DEF Inv, TypeOK
    <2>2. CASE ~InFlightFor(procs[p].gen)
      <3>1. Sound(procs[p]) /\ procs \in [Proc -> Local]
        BY DEF Inv, ProcsSound, TypeOK
      <3>2. /\ procs'[p] = [procs[p] EXCEPT !.pc = "exchange", !.tok = t,
                                            !.entry = NoRotation, !.result = "none"]
            /\ procs' = [procs EXCEPT ![p] = procs'[p]]
            /\ inFlight' = p
        BY <2>2, <3>1 DEF JoinOrExchange
      <3>3. Sound(procs'[p])
        BY <3>1, <3>2 DEF Sound, Local, Pc
      <3> QED
        BY <3>2, <3>3 DEF Moved
    <2> QED
      BY <2>1, <2>2
  \* A process that does not wait for the file moves and nothing touches the outbox.
  <1>LocalStep.
      ASSUME Inv, NEW p \in Proc, procs[p].pc \notin Awaiting, Moved(p),
             live' \in [Login -> 0..MaxRotation], valid' \in SUBSET Token,
             db' \in Row, RowSound',
             inFlight' \in Proc \cup {NoProc}, backoff' \in BOOLEAN,
             forgotten' \in SUBSET Login, cleared' \in SUBSET Login,
             UNCHANGED <<logins, created, outbox, handlers>>
      PROVE  Inv'
    <2> USE <1>LocalStep
    <2>1. procs \in [Proc -> Local] /\ ProcsSound /\ OwnersWait
      BY DEF Inv, TypeOK
    <2>2. \A q \in Proc : procs'[q] = IF q = p THEN procs'[p] ELSE procs[q]
      BY <2>1 DEF Moved
    <2>3. ProcsSound'
      BY <2>1, <2>2 DEF ProcsSound, Moved
    <2>4. procs' \in [Proc -> Local]
      BY <2>1, <2>3 DEF ProcsSound, Sound, Moved
    <2>5. TypeOK'
      BY <2>4 DEF Inv, TypeOK, outbox, handlers, Row
    <2>6. OwnersWait'
      <3>1. walQueue' = walQueue
        BY DEF outbox
      <3>2. walQueue \in Seq(FileOp)
        BY DEF Inv, TypeOK, FileOp
      <3>3. \A n \in 1..Len(walQueue) : walQueue[n].owner \in Proc \cup {NoProc}
        <4>1. \A n \in 1..Len(walQueue) : walQueue[n] \in FileOp
          BY <3>2, SeqElement
        <4> QED
          BY <4>1 DEF FileOp
      <3> SUFFICES ASSUME NEW n \in 1..Len(walQueue), walQueue[n].owner # NoProc
                   PROVE  /\ procs'[walQueue[n].owner].pc \in Awaiting
                          /\ \A m \in 1..Len(walQueue) :
                                walQueue[m].owner = walQueue[n].owner => m = n
        BY <3>1 DEF OwnersWait
      <3>4. /\ procs[walQueue[n].owner].pc \in Awaiting
            /\ \A m \in 1..Len(walQueue) : walQueue[m].owner = walQueue[n].owner => m = n
        BY <2>1 DEF OwnersWait
      <3>5. walQueue[n].owner \in Proc /\ walQueue[n].owner # p
        BY <3>3, <3>4
      <3> QED
        BY <2>2, <3>4, <3>5
    <2> QED
      BY <2>3, <2>5, <2>6 DEF Inv
  \* In particular when the provider, the row and the history stay as they are.
  <1>QuietStep.
      ASSUME Inv, NEW p \in Proc, procs[p].pc \notin Awaiting, Moved(p),
             inFlight' \in Proc \cup {NoProc}, backoff' \in BOOLEAN,
             cleared' \in SUBSET Login,
             UNCHANGED <<provider, db, created, outbox, handlers, forgotten>>
      PROVE  Inv'
    BY <1>QuietStep, <1>LocalStep DEF Inv, TypeOK, RowSound, provider, Row
  \* A write of the row that keeps its generation.
  <1>WriteStep.
      ASSUME Inv, NEW p \in Proc, procs[p].pc \notin Awaiting, Moved(p),
             NEW guard \in BOOLEAN, NEW new \in Row,
             guard => db.gen # 0 /\ new.gen = db.gen /\ new.tok \in Token,
             NEW u \in Updates(guard, new), db' = u.row,
             inFlight' \in Proc \cup {NoProc},
             UNCHANGED <<provider, created, outbox, backoff, handlers, history>>
      PROVE  Inv'
    <2> USE <1>WriteStep
    <2>1. db' = db \/ (guard /\ db' = new)
      BY UpdatesType
    <2>2. db' \in Row /\ RowSound'
      BY <2>1 DEF Inv, TypeOK, RowSound, Row
    <2> QED
      BY <2>2, <1>LocalStep DEF Inv, TypeOK, provider, history
  <1>StartInv.
      ASSUME Inv, NEW p \in Proc, At(p, "idle"), db.gen # 0, NEW pc \in {"begin", "selected"},
             procs' = [procs EXCEPT ![p] =
                          [Idle EXCEPT !.pc = pc, !.gen = db.gen, !.tok = db.tok]],
             UNCHANGED <<provider, db, created, outbox, inFlight, backoff, handlers, history>>
      PROVE  Inv'
    <2> USE <1>StartInv
    <2>1. procs \in [Proc -> Local] /\ db.gen \in Generation /\ db.tok \in Token
      BY SMT DEF Inv, TypeOK, RowSound, Row, Generation
    <2>2. Sound([Idle EXCEPT !.pc = pc, !.gen = db.gen, !.tok = db.tok])
      BY <2>1, IdleSound, ConstantTypes DEF Sound, Idle, Local, Pc
    <2>3. Moved(p)
      BY <2>1, <2>2 DEF Moved
    <2>4. procs[p].pc \notin Awaiting
      BY DEF At, Awaiting
    <2> QED
      BY <2>3, <2>4, <1>QuietStep DEF Inv, TypeOK, history
  <1>JoinInv.
      ASSUME Inv, NEW p \in Proc, Join(p) \/ InBackoff(p)
      PROVE  Inv'
    <2> USE <1>JoinInv
    <2>1. /\ Leave(p) /\ procs[p].pc \notin Awaiting
          /\ UNCHANGED <<provider, db, created, outbox, inFlight, handlers, history>>
          /\ backoff' \in BOOLEAN
      BY DEF Join, InBackoff, At, Awaiting, Inv, TypeOK
    <2>2. Moved(p)
      BY <2>1, <1>LeaveMoves
    <2> QED
      BY <2>1, <2>2, <1>QuietStep DEF Inv, TypeOK, history
  <1>AdoptRowMoves.
      ASSUME Inv, NEW p \in Proc, procs[p].pc # "idle", Current(p), NEW t, AdoptRow(p, t)
      PROVE  Moved(p) /\ inFlight' \in Proc \cup {NoProc} /\ backoff' \in BOOLEAN
    <2> USE <1>AdoptRowMoves
    <2>1. db.tok \in Token
      BY CurrentRow
    <2>2. CASE db.tok \in valid /\ db.tok # t
      <3>1. Leave(p) /\ backoff' = FALSE /\ inFlight' = inFlight
        BY <2>2 DEF AdoptRow
      <3> QED
        BY <3>1, <1>LeaveMoves DEF Inv, TypeOK
    <2>3. CASE ~(db.tok \in valid /\ db.tok # t)
      <3>1. JoinOrExchange(p, db.tok) /\ backoff' = backoff
        BY <2>3 DEF AdoptRow
      <3> QED
        BY <2>1, <3>1, <1>JoinOrExchangeMoves DEF Inv, TypeOK
    <2> QED
      BY <2>2, <2>3
  \* The entry of a process's own generation is a rotation.
  <1>PendingType.
      ASSUME Inv, NEW p \in Proc, procs[p].pc # "idle", Pending(procs[p].gen) # NoRotation
      PROVE  Pending(procs[p].gen) \in Rotation
    BY <1>PendingType DEF Pending, Inv, TypeOK
  <1>FlushMoves.
      ASSUME Inv, NEW p \in Proc, procs[p].pc # "idle", NEW e \in Rotation,
             procs' = [procs EXCEPT ![p].pc = "flush", ![p].entry = e]
      PROVE  Moved(p)
    <2> USE <1>FlushMoves
    <2>1. procs \in [Proc -> Local] /\ Sound(procs[p])
      BY DEF Inv, TypeOK, ProcsSound
    <2>2. /\ procs'[p] = [procs[p] EXCEPT !.pc = "flush", !.entry = e]
          /\ procs' = [procs EXCEPT ![p] = procs'[p]]
      BY <2>1
    <2>3. Sound(procs'[p])
      BY <2>1, <2>2 DEF Sound, Local, Pc
    <2> QED
      BY <2>2, <2>3 DEF Moved
  <1>CheckRowInv.
      ASSUME Inv, NEW p \in Proc, CheckRow(p)
      PROVE  Inv'
    <2> USE <1>CheckRowInv
    <2>1. /\ procs[p].pc # "idle" /\ procs[p].pc \notin Awaiting
          /\ UNCHANGED <<provider, db, created, outbox, handlers, history>>
      BY DEF CheckRow, At, Awaiting
    <2>2. inFlight \in Proc \cup {NoProc} /\ backoff \in BOOLEAN
      BY DEF Inv, TypeOK
    <2>3. Moved(p) /\ inFlight' \in Proc \cup {NoProc} /\ backoff' \in BOOLEAN
      <3>1. CASE /\ Pending(procs[p].gen) # NoRotation
                 /\ procs' = [procs EXCEPT ![p].pc = "flush", ![p].entry = Pending(procs[p].gen)]
                 /\ UNCHANGED <<inFlight, backoff>>
        BY <2>1, <2>2, <3>1, <1>PendingType, <1>FlushMoves
      <3>2. CASE Current(p) /\ AdoptRow(p, procs[p].tok)
        BY <2>1, <3>2, <1>AdoptRowMoves
      <3>3. CASE Leave(p) /\ UNCHANGED <<inFlight, backoff>>
        BY <2>2, <3>3, <1>LeaveMoves
      <3> QED
        BY <3>1, <3>2, <3>3 DEF CheckRow
    <2> QED
      BY <2>1, <2>3, <1>QuietStep DEF Inv, TypeOK, history
  <1>AdoptPendingInv.
      ASSUME Inv, NEW p \in Proc, AdoptPending(p)
      PROVE  Inv'
    <2> USE <1>AdoptPendingInv
    <2>1. /\ procs[p].pc # "idle" /\ procs[p].pc \notin Awaiting
          /\ UNCHANGED <<provider, db, created, outbox, handlers, history>>
      BY DEF AdoptPending, At, Awaiting
    <2>2. inFlight \in Proc \cup {NoProc} /\ backoff \in BOOLEAN
      BY DEF Inv, TypeOK
    <2>3. Moved(p) /\ inFlight' \in Proc \cup {NoProc} /\ backoff' \in BOOLEAN
      <3>1. CASE Leave(p) /\ UNCHANGED <<inFlight, backoff>>
        BY <2>2, <3>1, <1>LeaveMoves
      <3>2. CASE Current(p) /\ AdoptRow(p, procs[p].entry.tok)
        BY <2>1, <3>2, <1>AdoptRowMoves
      <3>3. CASE Current(p) /\ AdoptRow(p, procs[p].tok)
        BY <2>1, <3>3, <1>AdoptRowMoves
      <3> QED
        BY <3>1, <3>2, <3>3 DEF AdoptPending
    <2> QED
      BY <2>1, <2>3, <1>QuietStep DEF Inv, TypeOK, history
  <1>RefreshRowInv.
      ASSUME Inv, NEW p \in Proc, RefreshRow(p)
      PROVE  Inv'
    <2> USE <1>RefreshRowInv
    <2>1. /\ procs[p].pc # "idle" /\ procs[p].pc \notin Awaiting
          /\ UNCHANGED <<provider, db, created, outbox, backoff, handlers, history>>
      BY DEF RefreshRow, At, Awaiting
    <2>2. Moved(p) /\ inFlight' \in Proc \cup {NoProc}
      <3>1. CASE Pending(procs[p].gen) # NoRotation
        <4>1. /\ procs' = [procs EXCEPT ![p].pc = "flush", ![p].entry = Pending(procs[p].gen)]
              /\ inFlight' = inFlight
          BY <3>1 DEF RefreshRow
        <4> QED
          BY <2>1, <3>1, <4>1, <1>PendingType, <1>FlushMoves DEF Inv, TypeOK
      <3>2. CASE Pending(procs[p].gen) = NoRotation
        <4>1. JoinOrExchange(p, procs[p].tok)
          BY <3>2 DEF RefreshRow
        <4>2. procs[p].tok \in Token
          BY <2>1 DEF Inv, ProcsSound, Sound
        <4> QED
          BY <2>1, <4>1, <4>2, <1>JoinOrExchangeMoves
      <3> QED
        BY <3>1, <3>2
    <2> QED
      BY <2>1, <2>2, <1>QuietStep DEF Inv, TypeOK, history
  <1>MintedInv.
      ASSUME Inv, NEW p \in Proc, Minted(p)
      PROVE  Inv'
    <2> USE <1>MintedInv
    <2>1. /\ procs[p].pc = "minted" /\ procs[p].pc \notin Awaiting
          /\ UNCHANGED <<provider, db, created, outbox, backoff, handlers, history>>
      BY DEF Minted, At, Awaiting
    <2>2. procs[p].new \in Token /\ "persist" \in Pc
      BY <2>1 DEF Inv, ProcsSound, Sound, Pc
    <2>3. Moved(p) /\ inFlight' \in Proc \cup {NoProc}
      <3>1. CASE Goto(p, "persist") /\ UNCHANGED inFlight
        BY <2>1, <2>2, <3>1, <1>GotoMoves DEF Inv, TypeOK
      <3>2. CASE Settle(p)
        BY <3>2, <1>SettleMoves
      <3>3. CASE Throw(p)
        BY <2>1, <3>3, <1>ThrowMoves
      <3> QED
        BY <3>1, <3>2, <3>3 DEF Minted
    <2> QED
      BY <2>1, <2>3, <1>QuietStep DEF Inv, TypeOK, history
  \* The row after a guarded write of a token or a flag.
  <1>OwnedRow.
      ASSUME Inv, NEW gen \in Generation, NEW expected \in Token, NEW t \in Token
      PROVE  /\ Owns(gen, expected) \in BOOLEAN
             /\ [db EXCEPT !.tok = t, !.reauth = FALSE] \in Row
             /\ [db EXCEPT !.reauth = TRUE] \in Row
             /\ [db EXCEPT !.paused = TRUE] \in Row
             /\ Owns(gen, expected) => db.gen # 0 /\ db.tok \in Token
             /\ [db EXCEPT !.tok = t, !.reauth = FALSE].gen = db.gen
             /\ [db EXCEPT !.tok = t, !.reauth = FALSE].tok = t
             /\ [db EXCEPT !.reauth = TRUE].gen = db.gen
             /\ [db EXCEPT !.reauth = TRUE].tok = db.tok
             /\ [db EXCEPT !.paused = TRUE].gen = db.gen
             /\ [db EXCEPT !.paused = TRUE].tok = db.tok
    BY <1>OwnedRow, ConstantTypes DEF Inv, TypeOK, Row, Owns
  <1>ResultMoves.
      ASSUME Inv, NEW p \in Proc, procs[p].pc # "idle", NEW pc \in Pc,
             NEW r \in {"none", "ok", "lost", "threw"},
             procs' = [procs EXCEPT ![p].pc = pc, ![p].result = r],
             pc \in {"minted", "persist", "persisted", "saving"} => procs[p].new \in Token,
             pc \in {"flush", "flushed", "flushing"} => procs[p].entry \in Rotation
      PROVE  Moved(p)
    <2> USE <1>ResultMoves
    <2>1. procs \in [Proc -> Local] /\ Sound(procs[p])
      BY DEF Inv, TypeOK, ProcsSound
    <2>2. /\ procs'[p] = [procs[p] EXCEPT !.pc = pc, !.result = r]
          /\ procs' = [procs EXCEPT ![p] = procs'[p]]
      BY <2>1
    <2>3. Sound(procs'[p])
      BY <2>1, <2>2 DEF Sound, Local
    <2> QED
      BY <2>2, <2>3 DEF Moved
  <1>PersistInv.
      ASSUME Inv, NEW p \in Proc, Persist(p)
      PROVE  Inv'
    <2> USE <1>PersistInv
    <2>1. /\ procs[p].pc = "persist" /\ procs[p].pc \notin Awaiting
          /\ UNCHANGED <<provider, created, outbox, inFlight, backoff, handlers, history>>
      BY DEF Persist, At, Awaiting
    <2>2. /\ procs[p].gen \in Generation /\ procs[p].tok \in Token /\ procs[p].new \in Token
          /\ "persisted" \in Pc
      BY <2>1 DEF Inv, ProcsSound, Sound, Pc
    <2>3. PICK u \in Updates(Owns(procs[p].gen, procs[p].tok),
                             [db EXCEPT !.tok = procs[p].new, !.reauth = FALSE]) :
                 /\ db' = u.row
                 /\ procs' = [procs EXCEPT ![p].pc = "persisted", ![p].result = u.result]
      BY DEF Persist, UpdateTokensIfRefreshTokenMatches
    <2>4. /\ Owns(procs[p].gen, procs[p].tok) \in BOOLEAN
          /\ [db EXCEPT !.tok = procs[p].new, !.reauth = FALSE] \in Row
          /\ Owns(procs[p].gen, procs[p].tok) => db.gen # 0
          /\ [db EXCEPT !.tok = procs[p].new, !.reauth = FALSE].gen = db.gen
          /\ [db EXCEPT !.tok = procs[p].new, !.reauth = FALSE].tok = procs[p].new
      BY <2>2, <1>OwnedRow
    <2>5. u.result \in {"ok", "lost", "threw"}
      BY <2>3, <2>4, UpdatesType
    <2>6. Moved(p)
      BY <2>1, <2>2, <2>3, <2>5, <1>ResultMoves
    <2>7. inFlight' \in Proc \cup {NoProc}
      BY <2>1 DEF Inv, TypeOK
    <2> QED
      BY <2>1, <2>2, <2>3, <2>4, <2>6, <2>7, <1>WriteStep
  <1>FlushWriteInv.
      ASSUME Inv, NEW p \in Proc, FlushWrite(p)
      PROVE  Inv'
    <2> USE <1>FlushWriteInv
    <2> DEFINE e == procs[p].entry
    <2>1. /\ procs[p].pc = "flush" /\ procs[p].pc \notin Awaiting
          /\ UNCHANGED <<provider, created, outbox, inFlight, backoff, handlers, history>>
      BY DEF FlushWrite, At, Awaiting
    <2>2. /\ e \in Rotation /\ "flushed" \in Pc
      BY <2>1 DEF Inv, ProcsSound, Sound, Pc
    <2>3. e.gen \in Generation /\ e.anchor \in Token /\ e.tok \in Token
      BY <2>2 DEF Rotation
    <2>4. PICK u \in Updates(Owns(e.gen, e.anchor), [db EXCEPT !.tok = e.tok, !.reauth = FALSE]) :
                 /\ db' = u.row
                 /\ procs' = [procs EXCEPT ![p].pc = "flushed", ![p].result = u.result]
      BY DEF FlushWrite, UpdateTokensIfRefreshTokenMatches
    <2>5. /\ Owns(e.gen, e.anchor) \in BOOLEAN
          /\ [db EXCEPT !.tok = e.tok, !.reauth = FALSE] \in Row
          /\ Owns(e.gen, e.anchor) => db.gen # 0
          /\ [db EXCEPT !.tok = e.tok, !.reauth = FALSE].gen = db.gen
          /\ [db EXCEPT !.tok = e.tok, !.reauth = FALSE].tok = e.tok
      BY <2>3, <1>OwnedRow
    <2>6. u.result \in {"ok", "lost", "threw"}
      BY <2>4, <2>5, UpdatesType
    <2>7. Moved(p)
      BY <2>1, <2>2, <2>4, <2>6, <1>ResultMoves
    <2>8. inFlight' \in Proc \cup {NoProc}
      BY <2>1 DEF Inv, TypeOK
    <2> HIDE DEF e
    <2> QED
      BY <2>1, <2>3, <2>4, <2>5, <2>7, <2>8, <1>WriteStep
  <1>FlagInv.
      ASSUME Inv, NEW p \in Proc, Flag(p)
      PROVE  Inv'
    <2> USE <1>FlagInv
    <2>1. /\ procs[p].pc = "flag" /\ procs[p].pc \notin Awaiting
          /\ UNCHANGED <<provider, created, outbox, inFlight, backoff, handlers, history>>
          /\ Goto(p, "pause") \/ Leave(p)
      BY DEF Flag, At, Awaiting
    <2>2. procs[p].gen \in Generation /\ procs[p].tok \in Token /\ "pause" \in Pc
      BY <2>1 DEF Inv, ProcsSound, Sound, Pc
    <2>3. PICK u \in Updates(Owns(procs[p].gen, procs[p].tok), [db EXCEPT !.reauth = TRUE]) :
                 db' = u.row
      BY DEF Flag, FlagRequiresReauthIfTokenMatches
    <2>4. /\ Owns(procs[p].gen, procs[p].tok) \in BOOLEAN
          /\ [db EXCEPT !.reauth = TRUE] \in Row
          /\ Owns(procs[p].gen, procs[p].tok) => db.gen # 0 /\ db.tok \in Token
          /\ [db EXCEPT !.reauth = TRUE].gen = db.gen
          /\ [db EXCEPT !.reauth = TRUE].tok = db.tok
      BY <2>2, <1>OwnedRow
    <2>5. Moved(p) /\ inFlight' \in Proc \cup {NoProc}
      <3>1. CASE Goto(p, "pause")
        BY <2>1, <2>2, <3>1, <1>GotoMoves DEF Inv, TypeOK
      <3>2. CASE Leave(p)
        BY <2>1, <3>2, <1>LeaveMoves DEF Inv, TypeOK
      <3> QED
        BY <2>1, <3>1, <3>2
    <2> QED
      BY <2>1, <2>3, <2>4, <2>5, <1>WriteStep
  <1>PauseInv.
      ASSUME Inv, NEW p \in Proc, Pause(p)
      PROVE  Inv'
    <2> USE <1>PauseInv
    <2>1. /\ procs[p].pc = "pause" /\ procs[p].pc \notin Awaiting
          /\ UNCHANGED <<provider, created, outbox, backoff, handlers, history>>
          /\ Settle(p)
      BY DEF Pause, At, Awaiting
    <2>2. procs[p].gen \in Generation /\ procs[p].tok \in Token
      BY <2>1 DEF Inv, ProcsSound, Sound
    <2> DEFINE guard == Owns(procs[p].gen, procs[p].tok) /\ ~db.paused
    <2>3. PICK u \in Updates(guard, [db EXCEPT !.paused = TRUE]) : db' = u.row
      BY DEF Pause, PauseIfActive
    <2>4. /\ guard \in BOOLEAN
          /\ [db EXCEPT !.paused = TRUE] \in Row
          /\ guard => db.gen # 0 /\ db.tok \in Token
          /\ [db EXCEPT !.paused = TRUE].gen = db.gen
          /\ [db EXCEPT !.paused = TRUE].tok = db.tok
      BY <2>2, <1>OwnedRow
    <2>5. Moved(p) /\ inFlight' \in Proc \cup {NoProc}
      BY <2>1, <1>SettleMoves
    <2> HIDE DEF guard
    <2> QED
      BY <2>1, <2>3, <2>4, <2>5, <1>WriteStep
  <1>LostCasInv.
      ASSUME Inv, NEW p \in Proc, LostCas(p)
      PROVE  Inv'
    <2> USE <1>LostCasInv
    <2>1. /\ procs[p].pc = "persisted" /\ procs[p].pc \notin Awaiting
          /\ UNCHANGED <<provider, db, created, outbox, backoff, handlers, history>>
      BY DEF LostCas, At, Awaiting
    <2>2. procs \in [Proc -> Local] /\ Sound(procs[p])
      BY DEF Inv, TypeOK, ProcsSound
    <2>3. Moved(p) /\ inFlight' \in Proc \cup {NoProc}
      <3>1. CASE procs' = [procs EXCEPT ![p].pc = "final", ![p].new = NoToken] /\ UNCHANGED inFlight
        <4>1. /\ procs'[p] = [procs[p] EXCEPT !.pc = "final", !.new = NoToken]
              /\ procs' = [procs EXCEPT ![p] = procs'[p]]
          BY <2>2, <3>1
        <4>2. Sound(procs'[p])
          BY <2>1, <2>2, <4>1 DEF Sound, Local, Pc
        <4> QED
          BY <3>1, <4>1, <4>2 DEF Moved, Inv, TypeOK
      <3>2. CASE Settle(p)
        BY <3>2, <1>SettleMoves
      <3>3. CASE procs' = [procs EXCEPT ![p].result = "threw"] /\ UNCHANGED inFlight
        <4>1. /\ procs'[p] = [procs[p] EXCEPT !.result = "threw"]
              /\ procs' = [procs EXCEPT ![p] = procs'[p]]
          BY <2>2, <3>3
        <4>2. Sound(procs'[p])
          BY ZenonT(30), <2>2, <4>1, <1>ResultSound
        <4> QED
          BY <3>3, <4>1, <4>2 DEF Moved, Inv, TypeOK
      <3> QED
        BY <3>1, <3>2, <3>3 DEF LostCas
    <2> QED
      BY <2>1, <2>3, <1>QuietStep DEF Inv, TypeOK, history
  <1>FinalInv.
      ASSUME Inv, NEW p \in Proc, Final(p)
      PROVE  Inv'
    <2> USE <1>FinalInv
    <2>1. /\ procs[p].pc = "final" /\ procs[p].pc \notin Awaiting
          /\ UNCHANGED <<provider, db, created, outbox, handlers, forgotten, cleared>>
      BY DEF Final, At, Awaiting, history
    <2>2. backoff \in BOOLEAN /\ cleared' \in SUBSET Login
      BY <2>1 DEF Inv, TypeOK
    <2>3. CASE Settle(p) /\ UNCHANGED backoff
      BY <2>1, <2>2, <2>3, <1>SettleMoves, <1>QuietStep
    <2>4. CASE Throw(p) /\ UNCHANGED backoff
      BY <2>1, <2>2, <2>4, <1>ThrowMoves, <1>QuietStep
    <2>5. CASE Settle(p) /\ backoff' = IF p \in Request THEN FALSE ELSE backoff
      <3>1. backoff' \in BOOLEAN
        BY <2>2, <2>5
      <3> QED
        BY <2>1, <2>2, <2>5, <3>1, <1>SettleMoves, <1>QuietStep
    <2> QED
      BY <2>3, <2>4, <2>5 DEF Final
  <1>FailedInv.
      ASSUME Inv, NEW p \in Proc, Failed(p)
      PROVE  Inv'
    <2> USE <1>FailedInv
    <2>1. /\ procs[p].pc = "failed" /\ procs[p].pc \notin Awaiting
          /\ UNCHANGED <<provider, db, created, outbox, handlers, history>>
          /\ Settle(p) /\ backoff' \in BOOLEAN
      BY DEF Failed, At, Awaiting, Inv, TypeOK
    <2> QED
      BY <2>1, <1>SettleMoves, <1>QuietStep DEF Inv, TypeOK, history
  <1>RejectedInv.
      ASSUME Inv, NEW p \in Proc, Rejected(p)
      PROVE  Inv'
    <2> USE <1>RejectedInv
    <2>1. /\ procs[p].pc = "rejected" /\ procs[p].pc \notin Awaiting
          /\ UNCHANGED <<provider, db, created, outbox, handlers, history>>
          /\ backoff' \in BOOLEAN
      BY DEF Rejected, At, Awaiting, Inv, TypeOK
    <2>2. Moved(p) /\ inFlight' \in Proc \cup {NoProc}
      <3>1. CASE Goto(p, IF p \in Request THEN "reread" ELSE "flag") /\ UNCHANGED inFlight
        <4>1. (IF p \in Request THEN "reread" ELSE "flag") \in {"reread", "flag"}
          OBVIOUS
        <4>2. PICK pc \in {"reread", "flag"} : Goto(p, pc)
          BY <3>1, <4>1
        <4>3. pc \in Pc
          BY DEF Pc
        <4>4. Moved(p)
          BY <2>1, <4>2, <4>3, <1>GotoMoves
        <4> QED
          BY <3>1, <4>4 DEF Inv, TypeOK
      <3>2. CASE Settle(p)
        BY <3>2, <1>SettleMoves
      <3> QED
        BY <3>1, <3>2 DEF Rejected
    <2> QED
      BY <2>1, <2>2, <1>QuietStep DEF Inv, TypeOK, history
  <1>RereadInv.
      ASSUME Inv, NEW p \in Proc, Reread(p)
      PROVE  Inv'
    <2> USE <1>RereadInv
    <2>1. /\ procs[p].pc = "reread" /\ procs[p].pc \notin Awaiting
          /\ UNCHANGED <<provider, db, created, outbox, handlers, history>>
          /\ backoff' \in BOOLEAN
      BY DEF Reread, At, Awaiting, Inv, TypeOK
    <2>2. Moved(p) /\ inFlight' \in Proc \cup {NoProc}
      <3>1. CASE Goto(p, "flag") /\ UNCHANGED inFlight
        <4>1. "flag" \in Pc
          BY DEF Pc
        <4>2. Moved(p)
          BY <2>1, <3>1, <4>1, <1>GotoMoves
        <4> QED
          BY <3>1, <4>2 DEF Inv, TypeOK
      <3>2. CASE Settle(p)
        BY <3>2, <1>SettleMoves
      <3> QED
        BY <3>1, <3>2 DEF Reread
    <2> QED
      BY <2>1, <2>2, <1>QuietStep DEF Inv, TypeOK, history
  \* The provider's answer: every process that is not idle remembers the new token.
  <1>WitnessSound.
      ASSUME Inv, NEW t \in Token
      PROVE  /\ Witness(t) \in [Proc -> Local]
             /\ \A q \in Proc : /\ Sound(Witness(t)[q])
                                /\ Witness(t)[q].pc = procs[q].pc
                                /\ Witness(t)[q].pc # "idle" => Witness(t)[q].tok = procs[q].tok
    <2> USE <1>WitnessSound
    <2>1. ASSUME NEW q \in Proc
          PROVE  /\ Sound(Witness(t)[q])
                 /\ Witness(t)[q].pc = procs[q].pc
                 /\ Witness(t)[q].pc # "idle" => Witness(t)[q].tok = procs[q].tok
      <3>1. Sound(procs[q])
        BY DEF Inv, ProcsSound
      <3>2. CASE procs[q].pc = "idle"
        BY <3>2, IdleSound DEF Witness, At, Idle
      <3>3. CASE procs[q].pc # "idle"
        <4>1. Witness(t)[q] = [procs[q] EXCEPT !.young = @ \cup {t}]
          BY <3>3 DEF Witness, At
        <4>2. Sound(Witness(t)[q])
          BY SMT, <3>1, <4>1, <1>YoungSound
        <4>3. procs[q] \in Local
          BY <3>1 DEF Sound
        <4> QED
          BY <4>1, <4>2, <4>3 DEF Local
      <3> QED
        BY <3>2, <3>3
    <2>2. Witness(t) = [q \in Proc |-> Witness(t)[q]]
      BY DEF Witness
    <2>3. \A q \in Proc : Witness(t)[q] \in Local
      BY <2>1 DEF Sound
    <2> QED
      BY <2>1, <2>2, <2>3
  \* The queue and its owners do not change and every process stays sound.
  <1>ProcsStep.
      ASSUME Inv, procs' \in [Proc -> Local], ProcsSound',
             \A q \in Proc : procs[q].pc \in Awaiting => procs'[q].pc = procs[q].pc,
             walQueue' = walQueue
      PROVE  OwnersWait'
    <2> USE <1>ProcsStep
    <2>1. walQueue \in Seq(FileOp) /\ OwnersWait
      BY DEF Inv, TypeOK, FileOp
    <2>2. \A n \in 1..Len(walQueue) : walQueue[n].owner \in Proc \cup {NoProc}
      <3>1. \A n \in 1..Len(walQueue) : walQueue[n] \in FileOp
        BY <2>1, SeqElement
      <3> QED
        BY <3>1 DEF FileOp
    <2> SUFFICES ASSUME NEW n \in 1..Len(walQueue), walQueue[n].owner # NoProc
                 PROVE  /\ procs'[walQueue[n].owner].pc \in Awaiting
                        /\ \A m \in 1..Len(walQueue) :
                              walQueue[m].owner = walQueue[n].owner => m = n
      BY DEF OwnersWait
    <2>3. /\ procs[walQueue[n].owner].pc \in Awaiting
          /\ \A m \in 1..Len(walQueue) : walQueue[m].owner = walQueue[n].owner => m = n
      BY <2>1 DEF OwnersWait
    <2> QED
      BY <2>2, <2>3
  <1>ExchangeInv.
      ASSUME Inv, NEW p \in Proc, Exchange(p)
      PROVE  Inv'
    <2> USE <1>ExchangeInv
    <2> DEFINE t == procs[p].tok
               next == [f |-> t.f, i |-> t.i + 1]
    <2>1. /\ procs[p].pc = "exchange" /\ procs[p].pc \notin Awaiting
          /\ UNCHANGED <<logins, db, created, outbox, backoff, handlers, cleared>>
      BY DEF Exchange, At, Awaiting
    <2>2. t \in Token /\ t.f \in Login /\ t.i \in 1..MaxRotation
      BY <2>1 DEF Inv, ProcsSound, Sound, Token
    <2>3. t.i < MaxRotation => next \in Token /\ next.i \in 0..MaxRotation /\ next.i = t.i + 1
      BY SMT, <2>2, RotationAssumption DEF Token
    <2>4. /\ live \in [Login -> 0..MaxRotation] /\ valid \in SUBSET Token
          /\ forgotten \in SUBSET Login /\ inFlight \in Proc \cup {NoProc}
          /\ Refused(p) \in Proc \cup {NoProc}
          /\ procs \in [Proc -> Local] /\ "failed" \in Pc /\ "rejected" \in Pc
      BY DEF Inv, TypeOK, Refused, Pc
    <2>5. CASE /\ t.i < MaxRotation
               /\ live' = [live EXCEPT ![t.f] = next.i]
               /\ valid' = valid \cup {next}
               /\ procs' = [Witness(next) EXCEPT ![p].pc = "minted", ![p].new = next]
               /\ UNCHANGED <<forgotten, inFlight>>
      <3>1. next \in Token
        BY <2>3, <2>5
      <3>2. /\ Witness(next) \in [Proc -> Local]
            /\ \A q \in Proc : Sound(Witness(next)[q]) /\ Witness(next)[q].pc = procs[q].pc
        BY <3>1, <1>WitnessSound
      <3> HIDE DEF next, t
      <3>3. /\ procs'[p] = [Witness(next)[p] EXCEPT !.pc = "minted", !.new = next]
            /\ \A q \in Proc \ {p} : procs'[q] = Witness(next)[q]
            /\ procs' = [q \in Proc |-> procs'[q]]
        BY <2>5, <3>2
      <3>4. Sound(procs'[p])
        BY <2>1, <3>1, <3>2, <3>3 DEF Sound, Local, Pc
      <3>5. ProcsSound'
        BY <3>2, <3>3, <3>4 DEF ProcsSound
      <3>6. procs' \in [Proc -> Local]
        BY <3>3, <3>5 DEF ProcsSound, Sound
      <3>7. OwnersWait'
        <4>1. walQueue' = walQueue
          BY <2>1 DEF outbox
        <4> QED
          BY <2>1, <3>2, <3>3, <3>5, <3>6, <4>1, <1>ProcsStep
      <3>8. live' \in [Login -> 0..MaxRotation] /\ valid' \in SUBSET Token
        BY <2>3, <2>4, <2>5, <3>1
      <3>9. TypeOK' /\ RowSound'
        BY SMT, <2>1, <2>4, <2>5, <3>6, <3>8 DEF Inv, TypeOK, RowSound, outbox, handlers
      <3> QED
        BY <3>5, <3>7, <3>9 DEF Inv
    <2>6. CASE /\ t.i < MaxRotation
               /\ live' = [live EXCEPT ![t.f] = next.i]
               /\ forgotten' = forgotten \cup {t.f}
               /\ Goto(p, "failed")
               /\ inFlight' = Refused(p)
               /\ UNCHANGED valid
      <3>1. Moved(p)
        BY <2>1, <2>4, <2>6, <1>GotoMoves
      <3>2. live' \in [Login -> 0..MaxRotation] /\ forgotten' \in SUBSET Login
        BY <2>2, <2>3, <2>4, <2>6
      <3> QED
        BY <2>1, <2>4, <2>6, <3>1, <3>2, <1>LocalStep DEF Inv, TypeOK, RowSound, Row
    <2>7. CASE /\ Goto(p, "rejected") \/ Goto(p, "failed")
               /\ inFlight' = Refused(p)
               /\ UNCHANGED <<live, valid, forgotten>>
      <3>1. Moved(p)
        BY <2>1, <2>4, <2>7, <1>GotoMoves
      <3> QED
        BY <2>1, <2>4, <2>7, <3>1, <1>LocalStep DEF Inv, TypeOK, RowSound, Row
    <2> QED
      BY <2>5, <2>6, <2>7 DEF Exchange
  \* One more operation, for nobody or for a process that begins to wait for it.  The
  \* operations already there may be rewritten as long as they keep their owners.
  <1>AppendStep.
      ASSUME Inv, procs' \in [Proc -> Local], ProcsSound',
             \A p \in Proc : procs[p].pc \in Awaiting => procs'[p].pc = procs[p].pc,
             NEW q \in Seq(FileOp), Len(q) = Len(walQueue),
             \A n \in 1..Len(walQueue) : q[n].owner = walQueue[n].owner,
             NEW o \in FileOp, walQueue' = Append(q, o),
             o.owner # NoProc => /\ procs[o.owner].pc \notin Awaiting
                                 /\ procs'[o.owner].pc \in Awaiting
      PROVE  OwnersWait' /\ walQueue' \in Seq(FileOp)
    <2> USE <1>AppendStep
    <2> DEFINE N == Len(walQueue)
    <2>1. walQueue \in Seq(FileOp) /\ OwnersWait
      BY DEF Inv, TypeOK, FileOp
    <2>2. N \in Nat
      BY <2>1, SeqShape
    <2>3. /\ walQueue' \in Seq(FileOp) /\ Len(walQueue') = N + 1
          /\ \A n \in 1..N : walQueue'[n].owner = walQueue[n].owner
          /\ walQueue'[N + 1].owner = o.owner
      BY SMT, <2>2, Appended
    <2>4. \A n \in 1..N : walQueue[n].owner \in Proc \cup {NoProc}
      <3>1. \A n \in 1..N : walQueue[n] \in FileOp
        BY <2>1, SeqElement
      <3> QED
        BY <3>1 DEF FileOp
    <2>5. \A n \in 1..N : walQueue[n].owner # NoProc =>
              /\ procs[walQueue[n].owner].pc \in Awaiting
              /\ procs'[walQueue[n].owner].pc \in Awaiting
              /\ walQueue[n].owner # o.owner
              /\ \A m \in 1..N : walQueue[m].owner = walQueue[n].owner => m = n
      BY <2>1, <2>4 DEF OwnersWait
    <2> SUFFICES ASSUME NEW n \in 1..Len(walQueue'), walQueue'[n].owner # NoProc
                 PROVE  /\ procs'[walQueue'[n].owner].pc \in Awaiting
                        /\ \A m \in 1..Len(walQueue') :
                              walQueue'[m].owner = walQueue'[n].owner => m = n
      BY <2>3 DEF OwnersWait
    <2> HIDE DEF N
    <2>6. n \in 1..N \/ n = N + 1
      BY SMT, <2>2, <2>3
    <2>7. CASE n \in 1..N
      BY SMT, <2>2, <2>3, <2>5, <2>7
    <2>8. CASE n = N + 1
      BY SMT, <2>2, <2>3, <2>5, <2>8
    <2> QED
      BY <2>6, <2>7, <2>8
  \* A process that moves and does not touch the others.
  <1>MovedOthers.
      ASSUME Inv, NEW p \in Proc, procs[p].pc \notin Awaiting, Moved(p)
      PROVE  /\ procs' \in [Proc -> Local] /\ ProcsSound'
             /\ \A q \in Proc : procs[q].pc \in Awaiting => procs'[q].pc = procs[q].pc
    <2> USE <1>MovedOthers
    <2>1. procs \in [Proc -> Local] /\ ProcsSound
      BY DEF Inv, TypeOK
    <2>2. \A q \in Proc : procs'[q] = IF q = p THEN procs'[p] ELSE procs[q]
      BY <2>1 DEF Moved
    <2>3. ProcsSound'
      BY <2>1, <2>2 DEF ProcsSound, Moved
    <2> QED
      BY <2>1, <2>2, <2>3 DEF ProcsSound, Sound, Moved
  \* What is left once the processes, the row, the queue and its entry are typed.
  <1>HistorySame.
      ASSUME Inv, UNCHANGED history
      PROVE  cleared' \in SUBSET Login /\ UNCHANGED forgotten
    BY <1>HistorySame DEF history, Inv, TypeOK
  <1>OutboxStep.
      ASSUME Inv, procs' \in [Proc -> Local], ProcsSound', OwnersWait',
             walQueue' \in Seq(FileOp), pending' \in Rotation \cup {NoRotation},
             wal' \in Rotation \cup {NoRotation}, inFlight' \in Proc \cup {NoProc},
             backoff' \in BOOLEAN, removing' \in BOOLEAN, cleared' \in SUBSET Login,
             UNCHANGED <<provider, db, created, reauth, forgotten>>
      PROVE  Inv'
    <2> USE <1>OutboxStep
    <2>1. TypeOK'
      BY DEF Inv, TypeOK, provider, FileOp
    <2>2. RowSound'
      BY DEF Inv, RowSound
    <2> QED
      BY <2>1, <2>2 DEF Inv
  <1>ClearPendingStep.
      ASSUME Inv, NEW gen, ClearPendingRotation(gen),
             procs' \in [Proc -> Local], ProcsSound',
             \A p \in Proc : procs[p].pc \in Awaiting => procs'[p].pc = procs[p].pc
      PROVE  /\ OwnersWait' /\ walQueue' \in Seq(FileOp)
             /\ pending' \in Rotation \cup {NoRotation} /\ wal' \in Rotation \cup {NoRotation}
    <2> USE <1>ClearPendingStep
    <2>1. CASE Pending(gen) = NoRotation
      <3>1. UNCHANGED outbox
        BY <2>1 DEF ClearPendingRotation
      <3>2. walQueue' = walQueue
        BY <3>1 DEF outbox
      <3>3. OwnersWait'
        BY <3>2, <1>ProcsStep
      <3> QED
        BY <3>1, <3>3 DEF outbox, Inv, TypeOK, FileOp
    <2>2. CASE Pending(gen) # NoRotation
      <3>1. /\ pending' = NoRotation /\ wal' = wal
            /\ walQueue' = Append(walQueue, WalOp("remove", NoRotation, NoProc))
        BY <2>2 DEF ClearPendingRotation
      <3>2. /\ WalOp("remove", NoRotation, NoProc) \in FileOp
            /\ WalOp("remove", NoRotation, NoProc).owner = NoProc
        BY WalOpType
      <3>3. walQueue \in Seq(FileOp) /\ wal \in Rotation \cup {NoRotation}
        BY DEF Inv, TypeOK, FileOp
      <3>4. OwnersWait' /\ walQueue' \in Seq(FileOp)
        BY <3>1, <3>2, <3>3, <1>AppendStep
      <3> QED
        BY <3>1, <3>3, <3>4
    <2> QED
      BY <2>1, <2>2
  <1>PersistedInv.
      ASSUME Inv, NEW p \in Proc, Persisted(p)
      PROVE  Inv'
    <2> USE <1>PersistedInv
    <2>1. /\ procs[p].pc = "persisted" /\ procs[p].pc \notin Awaiting /\ Goto(p, "final")
          /\ UNCHANGED <<provider, db, created, inFlight, backoff, handlers, history>>
          /\ "final" \in Pc
      BY DEF Persisted, At, Awaiting, Pc
    <2>2. Moved(p)
      BY <2>1, <1>GotoMoves
    <2>3. CASE p \in Request
      <3>1. ClearPendingRotation(procs[p].gen)
        BY <2>3 DEF Persisted
      <3>2. /\ procs' \in [Proc -> Local] /\ ProcsSound'
            /\ \A q \in Proc : procs[q].pc \in Awaiting => procs'[q].pc = procs[q].pc
        BY <2>1, <2>2, <1>MovedOthers
      <3>3. /\ OwnersWait' /\ walQueue' \in Seq(FileOp)
            /\ pending' \in Rotation \cup {NoRotation} /\ wal' \in Rotation \cup {NoRotation}
        BY <3>1, <3>2, <1>ClearPendingStep
      <3> QED
        BY <2>1, <3>2, <3>3, <1>HistorySame, <1>OutboxStep DEF Inv, TypeOK, handlers
    <2>4. CASE p \notin Request
      <3>1. UNCHANGED outbox
        BY <2>4 DEF Persisted
      <3> QED
        BY <2>1, <2>2, <3>1, <1>QuietStep DEF Inv, TypeOK, history
    <2> QED
      BY <2>3, <2>4
  <1>PersistThrewInv.
      ASSUME Inv, NEW p \in Proc, PersistThrew(p)
      PROVE  Inv'
    <2> USE <1>PersistThrewInv
    <2>1. /\ procs[p].pc = "persisted" /\ procs[p].pc \notin Awaiting
          /\ UNCHANGED <<provider, db, created, backoff, handlers, history>>
          /\ "saving" \in Pc
      BY DEF PersistThrew, At, Awaiting, Pc
    <2>2. procs[p].gen \in Generation /\ procs[p].tok \in Token /\ procs[p].new \in Token
      BY <2>1 DEF Inv, ProcsSound, Sound
    <2>3. CASE Settle(p) /\ UNCHANGED outbox
      BY <2>1, <2>3, <1>SettleMoves, <1>QuietStep DEF Inv, TypeOK, history
    <2>4. CASE Throw(p) /\ UNCHANGED outbox
      BY ZenonT(30), <2>1, <2>4, <1>ThrowMoves, <1>QuietStep DEF Inv, TypeOK, history
    <2>5. CASE /\ RecordPendingRotation(p, procs[p].tok, procs[p].new)
               /\ Goto(p, "saving") /\ UNCHANGED inFlight
      <3> DEFINE next == Recorded(procs[p].gen, procs[p].tok, procs[p].new)
      <3>1. next \in Rotation
        <4>1. pending.gen = procs[p].gen => pending \in Rotation
          BY <2>2, ConstantTypes DEF Inv, TypeOK
        <4> QED
          BY <2>2, <4>1 DEF Recorded, Rotation
      <3>2. /\ pending' = next /\ wal' = wal
            /\ walQueue' = Append(walQueue, WalOp("save", next, p))
        BY <2>5 DEF RecordPendingRotation
      <3> HIDE DEF next
      <3>3. Moved(p) /\ procs'[p].pc = "saving"
        <4>1. procs \in [Proc -> Local]
          BY DEF Inv, TypeOK
        <4>2. procs'[p].pc = "saving"
          BY <2>5, <4>1 DEF Goto, Local
        <4> QED
          BY <2>1, <2>2, <2>5, <4>2, <1>GotoMoves
      <3>4. /\ procs' \in [Proc -> Local] /\ ProcsSound'
            /\ \A q \in Proc : procs[q].pc \in Awaiting => procs'[q].pc = procs[q].pc
        BY <2>1, <3>3, <1>MovedOthers
      <3>5. WalOp("save", next, p) \in FileOp /\ WalOp("save", next, p).owner = p
        BY <3>1, WalOpType
      <3>6. walQueue \in Seq(FileOp) /\ wal \in Rotation \cup {NoRotation}
        BY DEF Inv, TypeOK, FileOp
      <3>7. procs'[p].pc \in Awaiting
        BY <3>3 DEF Awaiting
      <3>8. OwnersWait' /\ walQueue' \in Seq(FileOp)
        BY <2>1, <3>2, <3>4, <3>5, <3>6, <3>7, <1>AppendStep
      <3> QED
        BY SMTT(30), <2>1, <2>5, <3>1, <3>2, <3>4, <3>6, <3>8, <1>HistorySame, <1>OutboxStep
        DEF Inv, TypeOK, handlers
    <2> QED
      BY ZenonT(30), <2>3, <2>4, <2>5 DEF PersistThrew
  <1>FlushedMoves.
      ASSUME Inv, NEW p \in Proc, procs[p].pc # "idle",
             NEW r \in {"none", "ok", "lost", "threw"}, Flushed(p, r)
      PROVE  Moved(p)
    <2> USE <1>FlushedMoves
    <2>1. /\ procs \in [Proc -> Local] /\ Sound(procs[p]) /\ procs[p] \in Local
          /\ pending \in Rotation \cup {NoRotation}
      BY DEF Inv, TypeOK, ProcsSound, Sound
    <2> DEFINE entry == IF pending.gen = procs[p].gen THEN pending ELSE procs[p].entry
    <2>2. /\ procs'[p] = [procs[p] EXCEPT !.pc = "adopt", !.result = r, !.entry = entry]
          /\ procs' = [procs EXCEPT ![p] = procs'[p]]
      BY <2>1 DEF Flushed
    <2>3. entry \in Rotation \cup {NoRotation}
      BY <2>1 DEF Local
    <2> HIDE DEF entry
    <2>4. Sound(procs'[p])
      BY <2>1, <2>2, <2>3 DEF Sound, Local, Pc
    <2> QED
      BY <2>2, <2>4 DEF Moved
  <1>FlushDoneInv.
      ASSUME Inv, NEW p \in Proc, FlushDone(p)
      PROVE  Inv'
    <2> USE <1>FlushDoneInv
    <2> DEFINE e == procs[p].entry
               r == procs[p].result
               owner == IF p \in Request THEN p ELSE NoProc
    <2>1. /\ procs[p].pc = "flushed" /\ procs[p].pc \notin Awaiting
          /\ UNCHANGED <<provider, db, created, wal, inFlight, backoff, handlers, history>>
          /\ "flushing" \in Pc /\ "flushing" \in Awaiting
      BY DEF FlushDone, At, Awaiting, Pc
    <2>2. /\ e \in Rotation /\ r \in {"none", "ok", "lost", "threw"}
          /\ procs \in [Proc -> Local]
          /\ walQueue \in Seq(FileOp) /\ wal \in Rotation \cup {NoRotation}
          /\ inFlight \in Proc \cup {NoProc} /\ backoff \in BOOLEAN /\ removing \in BOOLEAN
          /\ pending \in Rotation \cup {NoRotation}
      BY <2>1 DEF Inv, TypeOK, ProcsSound, Sound, Local, FileOp
    <2>3. owner \in Proc \cup {NoProc}
      OBVIOUS
    <2>4. ASSUME IF p \in Request THEN Goto(p, "flushing") ELSE Leave(p)
          PROVE  /\ procs' \in [Proc -> Local] /\ ProcsSound'
                 /\ \A x \in Proc : procs[x].pc \in Awaiting => procs'[x].pc = procs[x].pc
                 /\ owner # NoProc => /\ procs[owner].pc \notin Awaiting
                                      /\ procs'[owner].pc \in Awaiting
      <3>1. Moved(p)
        BY <2>1, <2>2, <2>4, <1>GotoMoves, <1>LeaveMoves
      <3>2. p \in Request => procs'[p].pc = "flushing"
        BY <2>2, <2>4 DEF Goto, Local
      <3>3. /\ procs' \in [Proc -> Local] /\ ProcsSound'
            /\ \A x \in Proc : procs[x].pc \in Awaiting => procs'[x].pc = procs[x].pc
        BY <2>1, <3>1, <1>MovedOthers
      <3> QED
        BY <2>1, <3>2, <3>3
    <2>5. CASE /\ pending' = NoRotation
               /\ walQueue' = Append(walQueue, WalOp("remove", NoRotation, owner))
               /\ IF p \in Request THEN Goto(p, "flushing") ELSE Leave(p)
      <3>1. /\ WalOp("remove", NoRotation, owner) \in FileOp
            /\ WalOp("remove", NoRotation, owner).owner = owner
        BY SMTT(30), <2>3, WalOpType
      <3> HIDE DEF owner
      <3>2. OwnersWait' /\ walQueue' \in Seq(FileOp)
        BY SMTT(30), <2>2, <2>4, <2>5, <3>1, <1>AppendStep
      <3> QED
        BY <2>1, <2>2, <2>4, <2>5, <3>2, <1>HistorySame, <1>OutboxStep DEF handlers
    <2>6. CASE /\ Survivor(e)
               /\ pending' = Rebased(e)
               /\ walQueue' = Append(RebasedQueue(e), WalOp("save", Rebased(e), owner))
               /\ IF p \in Request THEN Goto(p, "flushing") ELSE Leave(p)
      <3>1. /\ Rebased(e) \in Rotation
            /\ RebasedQueue(e) \in Seq(FileOp) /\ Len(RebasedQueue(e)) = Len(walQueue)
            /\ \A n \in 1..Len(walQueue) : RebasedQueue(e)[n].owner = walQueue[n].owner
        BY ZenonT(30), <2>2, <2>6, RebasedType
      <3>2. /\ WalOp("save", Rebased(e), owner) \in FileOp
            /\ WalOp("save", Rebased(e), owner).owner = owner
        BY SMTT(30), <2>3, <3>1, WalOpType
      <3> HIDE DEF owner, e
      <3>3. OwnersWait' /\ walQueue' \in Seq(FileOp)
        BY <2>4, <2>6, <3>1, <3>2, <1>AppendStep
      <3> QED
        BY <2>1, <2>2, <2>4, <2>6, <3>1, <3>3, <1>HistorySame, <1>OutboxStep DEF handlers
    <2>7. CASE /\ IF p \in Request THEN Flushed(p, r) ELSE Leave(p)
               /\ UNCHANGED <<pending, walQueue>>
      <3>1. Moved(p)
        BY <2>1, <2>2, <2>7, <1>FlushedMoves, <1>LeaveMoves
      <3> QED
        BY <2>1, <2>7, <3>1, <1>QuietStep DEF Inv, TypeOK, history, outbox
    <2> QED
      BY <2>5, <2>6, <2>7 DEF FlushDone, RebasedQueue
  \* The process that waited for the operation at the head goes on.
  <1>WalWriteInv.
      ASSUME Inv, NEW ok \in BOOLEAN, WalWrite(ok)
      PROVE  Inv'
    <2> USE <1>WalWriteInv
    <2> DEFINE o == Head(walQueue)
               N == Len(walQueue)
    <2>1. /\ walQueue # <<>> /\ walQueue' = Tail(walQueue) /\ walQueue \in Seq(FileOp)
          /\ wal' \in {wal, o.rot}
          /\ UNCHANGED <<provider, db, created, pending, backoff, handlers, history>>
      BY DEF WalWrite, Inv, TypeOK, FileOp
    <2>2. /\ o \in FileOp /\ o = walQueue[1] /\ N \in Nat \ {0}
          /\ Tail(walQueue) \in Seq(FileOp) /\ Len(Tail(walQueue)) = N - 1
          /\ \A n \in 1..(N - 1) : Tail(walQueue)[n] = walQueue[n + 1]
      BY SMT, <2>1, HeadAndTail, SeqElement, SeqShape, EmptyOrNot
    <2>3. \A n \in 1..N : walQueue[n].owner \in Proc \cup {NoProc}
      <3>1. \A n \in 1..N : walQueue[n] \in FileOp
        BY <2>1, SeqElement
      <3> QED
        BY <3>1 DEF FileOp
    <2>4. /\ wal' \in Rotation \cup {NoRotation}
          /\ o.owner \in Proc \cup {NoProc}
      BY <2>1, <2>2 DEF FileOp, Inv, TypeOK
    <2>5. /\ procs \in [Proc -> Local] /\ ProcsSound /\ OwnersWait
          /\ inFlight \in Proc \cup {NoProc}
      BY DEF Inv, TypeOK
    <2>6. /\ procs' \in [Proc -> Local] /\ ProcsSound'
          /\ \A x \in Proc : x # o.owner => procs'[x] = procs[x]
          /\ inFlight' \in Proc \cup {NoProc}
      <3>1. CASE o.owner = NoProc
        <4>1. UNCHANGED <<procs, inFlight>>
          BY SMTT(30), <3>1 DEF WalWrite
        <4> QED
          BY <2>5, <4>1 DEF ProcsSound
      <3>2. CASE o.owner # NoProc
        <4>1. o.owner \in Proc /\ procs[o.owner].pc \in {"saving", "flushing"}
          BY SMT, <2>2, <2>4, <2>5, <3>2 DEF OwnersWait, Awaiting
        <4>2. procs[o.owner].pc # "idle" /\ procs[o.owner].result \in {"none", "ok", "lost", "threw"}
          BY <2>5, <4>1 DEF Local
        <4>3. Moved(o.owner) /\ inFlight' \in Proc \cup {NoProc}
          <5>1. CASE At(o.owner, "flushing")
            <6>1. /\ Flushed(o.owner, IF ok THEN procs[o.owner].result ELSE "threw")
                  /\ inFlight' = inFlight
              BY <3>2, <5>1 DEF WalWrite
            <6>2. PICK r \in {"none", "ok", "lost", "threw"} : Flushed(o.owner, r)
              BY <4>2, <6>1
            <6> QED
              BY <2>5, <4>1, <4>2, <6>1, <6>2, <1>FlushedMoves
          <5>2. CASE ~At(o.owner, "flushing")
            <6>1. Saved(o.owner, ok)
              BY <3>2, <5>2 DEF WalWrite
            <6>2. CASE ok
              <7>1. Goto(o.owner, "final") /\ inFlight' = inFlight /\ "final" \in Pc
                BY <6>1, <6>2 DEF Saved, Pc
              <7> QED
                BY <2>5, <4>1, <4>2, <7>1, <1>GotoMoves
            <6>3. CASE ~ok
              BY <4>1, <4>2, <6>1, <6>3, <1>ThrowMoves DEF Saved
            <6> QED
              BY <6>2, <6>3
          <5> QED
            BY <5>1, <5>2
        <4>4. \A x \in Proc : procs'[x] = IF x = o.owner THEN procs'[o.owner] ELSE procs[x]
          BY <2>5, <4>1, <4>3 DEF Moved
        <4>5. ProcsSound'
          BY <2>5, <4>3, <4>4 DEF ProcsSound, Moved
        <4> QED
          BY <2>5, <4>1, <4>3, <4>4, <4>5 DEF Moved, ProcsSound, Sound
      <3> QED
        BY <3>1, <3>2
    <2> HIDE DEF o, N
    <2>7. OwnersWait'
      <3>1. \A n \in 1..N : walQueue[n].owner # NoProc =>
                /\ procs[walQueue[n].owner].pc \in Awaiting
                /\ \A m \in 1..N : walQueue[m].owner = walQueue[n].owner => m = n
        BY <2>5 DEF OwnersWait, N
      <3>2. \A n \in 1..(N - 1) :
                /\ n + 1 \in 1..N
                /\ walQueue'[n] = walQueue[n + 1]
                /\ walQueue[n + 1].owner # NoProc => walQueue[n + 1].owner # o.owner
        BY SMT, <2>1, <2>2, <3>1
      <3>3. Len(walQueue') = N - 1
        BY <2>1, <2>2
      <3> SUFFICES ASSUME NEW n \in 1..(N - 1), walQueue'[n].owner # NoProc
                   PROVE  /\ procs'[walQueue'[n].owner].pc \in Awaiting
                          /\ \A m \in 1..(N - 1) :
                                walQueue'[m].owner = walQueue'[n].owner => m = n
        BY <3>3 DEF OwnersWait
      <3>4. procs'[walQueue'[n].owner].pc \in Awaiting
        BY SMT, <2>3, <2>6, <3>1, <3>2
      <3>5. \A m \in 1..(N - 1) : walQueue'[m].owner = walQueue'[n].owner => m = n
        <4> SUFFICES ASSUME NEW m \in 1..(N - 1), walQueue'[m].owner = walQueue'[n].owner
                     PROVE  m = n
          OBVIOUS
        <4>1. m + 1 = n + 1
          BY SMT, <3>1, <3>2
        <4> QED
          BY SMT, <2>2, <4>1
      <3> QED
        BY <3>4, <3>5
    <2>8. /\ walQueue' \in Seq(FileOp) /\ pending' \in Rotation \cup {NoRotation}
          /\ backoff' \in BOOLEAN /\ removing' \in BOOLEAN
      BY <2>1, <2>2 DEF Inv, TypeOK, handlers
    <2> QED
      BY <2>1, <2>4, <2>6, <2>7, <2>8, <1>HistorySame, <1>OutboxStep DEF handlers
  <1>NewLoginStep.
      ASSUME Inv, NewLogin, db' \in Row, RowSound', created' \in Generation,
             inFlight' \in Proc \cup {NoProc}, backoff' \in BOOLEAN,
             reauth' \in {"idle", "clear", "resume"}, removing' \in BOOLEAN,
             UNCHANGED <<outbox, history>>
      PROVE  Inv'
    <2> USE <1>NewLoginStep
    <2>1. /\ logins \in Login /\ logins < MaxLogin /\ live \in [Login -> 0..MaxRotation]
          /\ logins' = logins + 1
          /\ live' = [live EXCEPT ![logins + 1] = 1]
          /\ valid' = valid \cup {FirstToken}
          /\ procs' = Witness(FirstToken)
      BY DEF Inv, TypeOK, NewLogin
    <2>2. FirstToken \in Token /\ logins' \in Login
      BY SMT, <2>1, RotationAssumption DEF FirstToken, Token, Login
    <2>3. live' \in [Login -> 0..MaxRotation] /\ valid' \in SUBSET Token
      BY SMT, <2>1, <2>2, RotationAssumption DEF Inv, TypeOK
    <2>4. /\ procs' \in [Proc -> Local] /\ ProcsSound'
          /\ \A q \in Proc : procs[q].pc \in Awaiting => procs'[q].pc = procs[q].pc
      BY <2>1, <2>2, <1>WitnessSound DEF ProcsSound
    <2>5. OwnersWait'
      <3>1. walQueue' = walQueue
        BY DEF outbox
      <3> QED
        BY <2>4, <3>1, <1>ProcsStep
    <2>6. TypeOK'
      BY <2>2, <2>3, <2>4 DEF Inv, TypeOK, outbox, history, Row
    <2> QED
      BY <2>4, <2>5, <2>6 DEF Inv
  \* Steps that leave the processes and the outbox alone.
  <1>EnvironmentStep.
      ASSUME Inv, db' \in Row, RowSound',
             live' \in [Login -> 0..MaxRotation], valid' \in SUBSET Token,
             inFlight' \in Proc \cup {NoProc}, backoff' \in BOOLEAN,
             reauth' \in {"idle", "clear", "resume"}, removing' \in BOOLEAN,
             cleared' \in SUBSET Login,
             UNCHANGED <<logins, created, outbox, procs, forgotten>>
      PROVE  Inv'
    <2> USE <1>EnvironmentStep
    <2>1. TypeOK'
      BY DEF Inv, TypeOK, outbox, Row
    <2>2. ProcsSound' /\ OwnersWait'
      BY DEF Inv, ProcsSound, OwnersWait, outbox
    <2> QED
      BY <2>1, <2>2 DEF Inv
  <1>ReauthenticateInv.
      ASSUME Inv, Reauthenticate
      PROVE  Inv'
    <2> USE <1>ReauthenticateInv
    <2>1. /\ db.gen # 0 /\ NewLogin
          /\ db' = [db EXCEPT !.tok = FirstToken, !.reauth = FALSE]
          /\ reauth' = "clear"
          /\ UNCHANGED <<created, outbox, inFlight, backoff, removing, history>>
      BY DEF Reauthenticate
    <2>2. FirstToken \in Token
      BY SMT, <2>1, RotationAssumption DEF NewLogin, FirstToken, Token, Login, Inv, TypeOK
    <2>3. db' \in Row /\ RowSound'
      BY <2>1, <2>2 DEF Inv, TypeOK, RowSound, Row
    <2> QED
      BY <2>1, <2>3, <1>NewLoginStep DEF Inv, TypeOK
  <1>ReauthClearInv.
      ASSUME Inv, ReauthClear \/ OperatorClear
      PROVE  Inv'
    <2> USE <1>ReauthClearInv
    <2>1. /\ inFlight' \in Proc \cup {NoProc} /\ backoff' \in BOOLEAN
          /\ reauth' \in {"idle", "clear", "resume"} /\ removing' \in BOOLEAN
          /\ cleared' \in SUBSET Login
          /\ UNCHANGED <<provider, db, created, outbox, procs, forgotten>>
      BY DEF ReauthClear, OperatorClear, ClearRefreshCache, Forget, Inv, TypeOK, handlers, history
    <2> QED
      BY <2>1, <1>EnvironmentStep DEF Inv, TypeOK, RowSound, Row, provider
  <1>ReauthResumeInv.
      ASSUME Inv, ReauthResume
      PROVE  Inv'
    <2> USE <1>ReauthResumeInv
    <2> DEFINE guard == db.gen # 0 /\ db.paused
               new == [db EXCEPT !.paused = FALSE]
    <2>1. /\ inFlight' \in Proc \cup {NoProc} /\ backoff' \in BOOLEAN
          /\ reauth' \in {"idle", "clear", "resume"} /\ removing' \in BOOLEAN
          /\ UNCHANGED <<provider, created, outbox, procs, history>>
      BY DEF ReauthResume, ClearRefreshCache, Inv, TypeOK
    <2>2. PICK u \in Updates(guard, new) : db' = u.row
      BY DEF ReauthResume
    <2>3. guard \in BOOLEAN /\ new \in Row /\ new.gen = db.gen /\ new.tok = db.tok
      BY DEF Inv, TypeOK, Row
    <2>4. db' = db \/ db' = new
      BY <2>2, <2>3, UpdatesType
    <2>5. db' \in Row /\ RowSound'
      <3>1. db \in Row /\ RowSound /\ created' = created
        BY <2>1 DEF Inv, TypeOK, Row
      <3> HIDE DEF new
      <3> QED
        BY <2>3, <2>4, <3>1 DEF RowSound
    <2> QED
      BY <2>1, <2>5, <1>EnvironmentStep DEF Inv, TypeOK, provider, history
  <1>DeleteAccountInv.
      ASSUME Inv, DeleteAccount
      PROVE  Inv'
    <2> USE <1>DeleteAccountInv
    <2>1. /\ created < MaxGeneration /\ db' = NoRow /\ removing' = TRUE
          /\ UNCHANGED <<provider, created, outbox, inFlight, backoff, procs, reauth, history>>
      BY DEF DeleteAccount
    <2>2. db' \in Row /\ RowSound'
      BY SMT, <2>1, RotationAssumption DEF NoRow, Row, RowSound
    <2> QED
      BY <2>1, <2>2, <1>EnvironmentStep DEF Inv, TypeOK, provider, history
  <1>CleanUpInv.
      ASSUME Inv, CleanUp
      PROVE  Inv'
    <2> USE <1>CleanUpInv
    <2>1. /\ ClearPendingRotation(pending.gen) /\ inFlight' = NoProc /\ backoff' = FALSE
          /\ removing' = FALSE /\ cleared' \in SUBSET Login
          /\ UNCHANGED <<provider, db, created, procs, reauth, forgotten>>
      BY DEF CleanUp, ClearRefreshCache, Forget, Inv, TypeOK
    <2>2. procs' \in [Proc -> Local] /\ ProcsSound'
      BY <2>1 DEF Inv, TypeOK, ProcsSound
    <2>3. /\ OwnersWait' /\ walQueue' \in Seq(FileOp)
          /\ pending' \in Rotation \cup {NoRotation} /\ wal' \in Rotation \cup {NoRotation}
      BY <2>1, <2>2, <1>ClearPendingStep
    <2> QED
      BY <2>1, <2>2, <2>3, <1>OutboxStep
  <1>RecreateAccountInv.
      ASSUME Inv, RecreateAccount
      PROVE  Inv'
    <2> USE <1>RecreateAccountInv
    <2>1. /\ db.gen = 0 /\ NewLogin /\ created' = created + 1
          /\ db' = [gen |-> created + 1, tok |-> FirstToken, reauth |-> FALSE, paused |-> FALSE]
          /\ UNCHANGED <<outbox, inFlight, backoff, handlers, history>>
      BY DEF RecreateAccount
    <2>2. FirstToken \in Token
      BY SMT, <2>1, RotationAssumption DEF NewLogin, FirstToken, Token, Login, Inv, TypeOK
    <2>3. created \in Generation /\ created < MaxGeneration
      BY <2>1 DEF Inv, TypeOK, RowSound
    <2>4. created' \in Generation /\ created' # 0 /\ created' \in 0..MaxGeneration
      BY SMT, <2>1, <2>3, RotationAssumption DEF Generation
    <2>5. db' \in Row /\ RowSound'
      BY <2>1, <2>2, <2>4 DEF Row, RowSound
    <2> QED
      BY <2>1, <2>4, <2>5, <1>NewLoginStep DEF Inv, TypeOK, handlers
  <1>RestartInv.
      ASSUME Inv, Restart
      PROVE  Inv'
    <2> USE <1>RestartInv
    <2>1. /\ procs' = [p \in Proc |-> Idle] /\ inFlight' = NoProc /\ backoff' = FALSE
          /\ walQueue' = <<>> /\ pending' = wal /\ reauth' = "idle" /\ removing' = FALSE
          /\ forgotten' \in SUBSET Login
          /\ UNCHANGED <<provider, db, created, wal, cleared>>
      BY DEF Restart, Inv, TypeOK
    <2>2. procs' \in [Proc -> Local] /\ ProcsSound'
      BY <2>1, IdleSound DEF ProcsSound, Sound
    <2>3. OwnersWait'
      BY SMT, <2>1 DEF OwnersWait
    <2>4. walQueue' \in Seq(FileOp)
      BY <2>1, EmptyOrNot
    <2>5. TypeOK' /\ RowSound'
      BY <2>1, <2>2, <2>4 DEF Inv, TypeOK, RowSound, provider, FileOp
    <2> QED
      BY <2>2, <2>3, <2>5 DEF Inv
  <1>TimeInv.
      ASSUME Inv,
             BackoffEnds \/ (\E t \in Token : Expire(t)) \/ (\E f \in Login : Revoke(f))
      PROVE  Inv'
    <2> USE <1>TimeInv
    <2>1. CASE BackoffEnds
      BY <2>1, <1>HistorySame, <1>EnvironmentStep
      DEF BackoffEnds, Inv, TypeOK, RowSound, Row, provider, handlers
    <2>2. ASSUME NEW t \in Token, Expire(t) PROVE Inv'
      BY ZenonT(30), <2>2, <1>HistorySame, <1>EnvironmentStep
      DEF Expire, Inv, TypeOK, RowSound, Row, handlers
    <2>3. ASSUME NEW f \in Login, Revoke(f) PROVE Inv'
      <3>1. live' \in [Login -> 0..MaxRotation]
        BY SMT, <2>3, RotationAssumption DEF Revoke, Inv, TypeOK
      <3> QED
        BY SMT, <2>3, <3>1, <1>HistorySame, <1>EnvironmentStep
        DEF Revoke, Inv, TypeOK, RowSound, Row, handlers
    <2> QED
      BY <2>1, <2>2, <2>3
  <1> SUFFICES ASSUME Inv, [Next]_vars PROVE Inv'
    OBVIOUS
  <1>1. ASSUME NEW p \in Proc, Refresh(p) PROVE Inv'
    BY <1>1, <1>ExchangeInv, <1>MintedInv, <1>PersistInv, <1>PersistedInv, <1>LostCasInv, <1>PersistThrewInv,
       <1>FinalInv, <1>FailedInv, <1>RejectedInv, <1>FlagInv, <1>FlushWriteInv, <1>FlushDoneInv
    DEF Refresh
  <1>2. ASSUME NEW p \in Request, RequestStep(p) PROVE Inv'
    <2>1. p \in Proc
      BY DEF Proc
    <2>2. CASE Start(p)
      BY <2>1, <2>2, <1>StartInv DEF Start
    <2> QED
      BY <1>2, <2>1, <2>2, <1>JoinInv, <1>CheckRowInv, <1>AdoptPendingInv, <1>RereadInv, <1>PauseInv
      DEF RequestStep
  <1>3. ASSUME NEW p \in Scheduler, SelectRow(p) \/ RefreshRow(p) PROVE Inv'
    <2>1. p \in Proc
      BY DEF Proc
    <2>2. CASE SelectRow(p)
      BY <2>1, <2>2, <1>StartInv DEF SelectRow
    <2> QED
      BY <1>3, <2>1, <2>2, <1>RefreshRowInv
  <1>4. CASE Handlers
    BY <1>4, <1>ReauthenticateInv, <1>ReauthClearInv, <1>ReauthResumeInv, <1>DeleteAccountInv,
       <1>CleanUpInv, <1>RecreateAccountInv
    DEF Handlers
  <1>5. CASE UNCHANGED vars
    <2>1. TypeOK' /\ ProcsSound' /\ RowSound' /\ OwnersWait'
      BY SMT, <1>5 DEF vars, Inv, TypeOK, ProcsSound, RowSound, OwnersWait
    <2> QED
      BY SMTT(30), <2>1 DEF Inv
  <1> QED
    BY <1>1, <1>2, <1>3, <1>4, <1>5, <1>WalWriteInv, <1>RestartInv, <1>TimeInv DEF Next

\* The shape of the row, the outbox, its file and every process
\* (token-manager.ts, pending-rotation-registry.ts).  Inductive only together with
\* what a process holds where it uses it and with OwnersWait: otherwise the answer of
\* a write of the file could find its waiter gone.
THEOREM TypeCorrect == Spec => []TypeOK
  <1>1. Inv => TypeOK
    BY DEF Inv
  <1> QED
    BY <1>1, InvInit, InvNext, PTL DEF Spec

-----------------------------------------------------------------------------
(* The file of the write-ahead log *)

\* The operation that will run last leaves the registry's entry in the file.
FileFollows == walQueue # <<>> => walQueue[Len(walQueue)].rot = pending

\* The step leaves a file with nothing outstanding like the registry, or as it was.
Matches == walQueue' = <<>> /\ <<pending', wal'>> # <<pending, wal>> => wal' = pending'

\* Whatever is going on, however often the process is restarted and however many
\* writes of the file fail, no step that changes the registry's entry or the file
\* leaves them different once the queue is empty (enqueuePersistenceWrite of
\* pending-rotation-registry.ts).  FileFollows says what the queue owes the file.
THEOREM FileAlwaysMatches == Spec => FileMatchesOutbox
  <1>AppendFollows.
      ASSUME NEW q \in Seq(FileOp), NEW o \in FileOp, walQueue' = Append(q, o),
             o.rot = pending'
      PROVE  FileFollows' /\ Matches
    <2> USE <1>AppendFollows
    <2>1. /\ Len(walQueue') = Len(q) + 1 /\ walQueue'[Len(q) + 1] = o
          /\ Len(q) \in Nat /\ Len(walQueue') # 0
      BY SMT, Appended, SeqShape
    <2>2. walQueue' # <<>>
      BY <2>1, EmptyOrNot
    <2> QED
      BY <2>1, <2>2 DEF FileFollows, Matches
  <1>WalOpRotation.
      ASSUME NEW op, NEW rot, NEW owner
      PROVE  WalOp(op, rot, owner).rot = rot
    BY DEF WalOp
  <1>ClearFollows.
      ASSUME Inv, FileFollows, NEW gen, ClearPendingRotation(gen)
      PROVE  FileFollows' /\ Matches
    <2> USE <1>ClearFollows
    <2>1. CASE Pending(gen) = NoRotation
      BY <2>1 DEF ClearPendingRotation, outbox, FileFollows, Matches
    <2>2. CASE Pending(gen) # NoRotation
      <3>1. /\ pending' = NoRotation
            /\ walQueue' = Append(walQueue, WalOp("remove", NoRotation, NoProc))
        BY <2>2 DEF ClearPendingRotation
      <3>2. walQueue \in Seq(FileOp) /\ WalOp("remove", NoRotation, NoProc) \in FileOp
        BY WalOpType DEF Inv, TypeOK, FileOp
      <3> QED
        BY <3>1, <3>2, <1>WalOpRotation, <1>AppendFollows
    <2> QED
      BY <2>1, <2>2
  <1>RecordFollows.
      ASSUME Inv, NEW p \in Proc, procs[p].pc = "persisted",
             RecordPendingRotation(p, procs[p].tok, procs[p].new)
      PROVE  FileFollows' /\ Matches
    <2> USE <1>RecordFollows
    <2> DEFINE next == Recorded(procs[p].gen, procs[p].tok, procs[p].new)
    <2>1. procs[p].gen \in Generation /\ procs[p].tok \in Token /\ procs[p].new \in Token
      BY DEF Inv, ProcsSound, Sound
    <2>2. next \in Rotation
      <3>1. pending.gen = procs[p].gen => pending \in Rotation
        BY <2>1, ConstantTypes DEF Inv, TypeOK
      <3> QED
        BY ZenonT(30), <2>1, <3>1 DEF Recorded, Rotation
    <2>3. pending' = next /\ walQueue' = Append(walQueue, WalOp("save", next, p))
      BY DEF RecordPendingRotation
    <2> HIDE DEF next
    <2>4. walQueue \in Seq(FileOp) /\ WalOp("save", next, p) \in FileOp
      BY <2>2, WalOpType DEF Inv, TypeOK, FileOp
    <2> QED
      BY <2>3, <2>4, <1>WalOpRotation, <1>AppendFollows
  <1>FlushDoneFollows.
      ASSUME Inv, FileFollows, NEW p \in Proc, FlushDone(p)
      PROVE  FileFollows' /\ Matches
    <2> USE <1>FlushDoneFollows
    <2> DEFINE e == procs[p].entry
               owner == IF p \in Request THEN p ELSE NoProc
    <2>1. /\ e \in Rotation /\ walQueue \in Seq(FileOp) /\ owner \in Proc \cup {NoProc}
          /\ wal' = wal
      BY DEF FlushDone, At, Inv, TypeOK, ProcsSound, Sound, FileOp
    <2>2. CASE pending' = NoRotation /\ walQueue' = Append(walQueue, WalOp("remove", NoRotation, owner))
      <3> HIDE DEF owner, e
      <3>1. WalOp("remove", NoRotation, owner) \in FileOp
        BY <2>1, WalOpType
      <3> QED
        BY <2>1, <2>2, <3>1, <1>WalOpRotation, <1>AppendFollows
    <2>3. CASE /\ Survivor(e) /\ pending' = Rebased(e)
               /\ walQueue' = Append(RebasedQueue(e), WalOp("save", Rebased(e), owner))
      <3>1. Rebased(e) \in Rotation /\ RebasedQueue(e) \in Seq(FileOp)
        BY <2>1, <2>3, RebasedType
      <3>2. WalOp("save", Rebased(e), owner) \in FileOp
        BY <2>1, <3>1, WalOpType
      <3> QED
        BY <2>3, <3>1, <3>2, <1>WalOpRotation, <1>AppendFollows
    <2>4. CASE UNCHANGED <<pending, walQueue>>
      BY <2>1, <2>4 DEF FileFollows, Matches
    <2> QED
      BY <2>2, <2>3, <2>4 DEF FlushDone, RebasedQueue
  <1>WalWriteFollows.
      ASSUME Inv, FileFollows, NEW ok \in BOOLEAN, WalWrite(ok)
      PROVE  FileFollows' /\ Matches
    <2> USE <1>WalWriteFollows
    <2> DEFINE N == Len(walQueue)
    <2>1. /\ walQueue # <<>> /\ walQueue' = Tail(walQueue) /\ walQueue \in Seq(FileOp)
          /\ wal' \in {wal, Head(walQueue).rot} /\ pending' = pending
      BY DEF WalWrite, Inv, TypeOK, FileOp
    <2>2. /\ N \in Nat \ {0} /\ Head(walQueue) = walQueue[1] /\ walQueue[N].rot = pending
          /\ Tail(walQueue) \in Seq(FileOp) /\ Len(Tail(walQueue)) = N - 1
          /\ \A n \in 1..(N - 1) : Tail(walQueue)[n] = walQueue[n + 1]
      BY SMT, <2>1, HeadAndTail, EmptyOrNot DEF FileFollows
    <2> HIDE DEF N
    <2>3. CASE N = 1
      <3>1. Len(Tail(walQueue)) = 0
        BY SMT, <2>2, <2>3
      <3>2. Tail(walQueue) = <<>>
        <4>1. \A q \in Seq(FileOp) : q # <<>> => Len(q) \in Nat \ {0}
          BY EmptyOrNot
        <4> QED
          BY <2>2, <3>1, <4>1
      <3>3. Head(walQueue).rot = pending
        BY <2>2, <2>3
      <3> QED
        BY <2>1, <3>2, <3>3 DEF FileFollows, Matches
    <2>4. CASE N # 1
      <3>1. Len(walQueue') = N - 1 /\ walQueue'[N - 1] = walQueue[N] /\ N - 1 # 0
        BY SMT, <2>1, <2>2, <2>4
      <3>2. walQueue' # <<>>
        BY <3>1, EmptyOrNot
      <3> QED
        BY <2>1, <2>2, <3>1, <3>2 DEF FileFollows, Matches
    <2> QED
      BY SMTT(30), <2>3, <2>4
  \* Everything else leaves the outbox alone.
  <1>FollowsNext.
      ASSUME Inv, FileFollows, [Next]_vars
      PROVE  FileFollows' /\ Matches
    <2> USE <1>FollowsNext
    <2>1. UNCHANGED outbox => FileFollows' /\ Matches
      BY DEF outbox, FileFollows, Matches
    <2>2. ASSUME NEW p \in Proc, Refresh(p) PROVE FileFollows' /\ Matches
      <3>1. CASE Persisted(p)
        BY SMTT(30), <2>1, <3>1, <1>ClearFollows DEF Persisted
      <3>2. CASE PersistThrew(p)
        BY <2>1, <3>2, <1>RecordFollows DEF PersistThrew, At
      <3>3. CASE FlushDone(p)
        BY <3>3, <1>FlushDoneFollows
      <3>4. CASE Exchange(p) \/ Minted(p) \/ Persist(p) \/ LostCas(p) \/ Final(p)
                 \/ Failed(p) \/ Rejected(p) \/ Flag(p) \/ FlushWrite(p)
        BY <2>1, <3>4
        DEF Exchange, Minted, Persist, LostCas, Final, Failed, Rejected, Flag, FlushWrite
      <3> QED
        BY SMTT(30), <2>2, <3>1, <3>2, <3>3, <3>4 DEF Refresh
    <2>3. ASSUME NEW p \in Request, RequestStep(p) PROVE FileFollows' /\ Matches
      BY <2>1, <2>3
      DEF RequestStep, Start, Join, InBackoff, CheckRow, AdoptPending, Reread, Pause
    <2>4. ASSUME NEW p \in Scheduler, SelectRow(p) \/ RefreshRow(p) PROVE FileFollows' /\ Matches
      BY <2>1, <2>4 DEF SelectRow, RefreshRow
    <2>5. CASE Handlers
      <3>1. CASE CleanUp
        BY <3>1, <1>ClearFollows DEF CleanUp
      <3>2. CASE Reauthenticate \/ ReauthClear \/ ReauthResume \/ OperatorClear
                 \/ DeleteAccount \/ RecreateAccount
        BY <2>1, <3>2
        DEF Reauthenticate, ReauthClear, ReauthResume, OperatorClear, DeleteAccount,
            RecreateAccount
      <3> QED
        BY <2>5, <3>1, <3>2 DEF Handlers
    <2>6. CASE Restart
      BY <2>6 DEF Restart, FileFollows, Matches
    <2>7. CASE BackoffEnds \/ (\E t \in Token : Expire(t)) \/ (\E f \in Login : Revoke(f))
      BY <2>1, <2>7 DEF BackoffEnds, Expire, Revoke
    <2>8. CASE UNCHANGED vars
      BY <2>1, <2>8 DEF vars, outbox
    <2> QED
      BY <2>2, <2>3, <2>4, <2>5, <2>6, <2>7, <2>8, <1>WalWriteFollows DEF Next
  <1>1. Init => FileFollows
    BY DEF Init, FileFollows
  <1>2. Inv /\ FileFollows /\ [Next]_vars => FileFollows' /\ [Matches]_vars
    BY <1>FollowsNext
  <1> QED
    BY <1>1, <1>2, InvInit, InvNext, PTL DEF Spec, FileMatchesOutbox, Matches

-----------------------------------------------------------------------------
(***************************************************************************)
(* Tokens.  A world is what the provider and the clock say of them.  A      *)
(* token is Known once it has been minted, as far as the world still shows  *)
(* it: none is newer than the live one of its login, nor than one whose     *)
(* access token is valid.  It is Spent when its access token has expired:   *)
(* only then does a process exchange it.                                    *)
(***************************************************************************)
World == [live: [Login -> 0..MaxRotation], logins: Login, valid: SUBSET Token]
world == [live |-> live, logins |-> logins, valid |-> valid]

Before(a, b) == a.f < b.f \/ (a.f = b.f /\ a.i < b.i)
FirstOf(f) == [f |-> f, i |-> 1]

Known(w, t) ==
    /\ t \in Token /\ t.f <= w.logins
    /\ w.live[t.f] # 0 => t.i <= w.live[t.f]
    /\ \A v \in w.valid : v.f = t.f => t.i <= v.i
Spent(w, t) == Known(w, t) /\ t \notin w.valid
ValidKnown(w) == \A v \in w.valid : Known(w, v)

\* A rotation leads from a spent token to a later one.
SoundRotation(w, r) ==
    r # NoRotation => /\ Known(w, r.tok) /\ r.tok.i > 1
                      /\ Spent(w, r.anchor) /\ Before(r.anchor, r.tok)

\* The first token of every login after login g is among the young ones of l.
Saw(w, l, g) == \A f \in Login : g < f /\ f <= w.logins => FirstOf(f) \in l.young

Unrecorded == {"minted", "persist", "persisted"}
Capturing == {"flush", "flushed"}

\* What a process may rely on about the tokens it holds.
Fair(w, l) ==
    /\ l.pc # "idle" => Spent(w, l.tok) /\ l.young \subseteq w.valid /\ Saw(w, l, l.tok.f)
    /\ l.pc \in Unrecorded \cup {"saving"} =>
          l.new = [f |-> l.tok.f, i |-> l.tok.i + 1] /\ l.new \in l.young
    /\ SoundRotation(w, l.entry)
    /\ l.pc = "flushed" /\ l.result = "ok" => Saw(w, l, l.entry.tok.f)

RowFair(w, d) == d.gen # 0 => Known(w, d.tok) /\ d.tok.f = w.logins

OutboxFair ==
    /\ SoundRotation(world, pending)
    /\ SoundRotation(world, wal)
    /\ \A n \in 1..Len(walQueue) : SoundRotation(world, walQueue[n].rot)

\* A token is in nobody else's hands until its refresh records it.
Private ==
    \A q \in Proc : procs[q].pc \in Unrecorded =>
        /\ procs[q].new # pending.tok
        /\ \A p \in Proc :
              /\ procs[p].entry.tok # procs[q].new
              /\ p # q /\ procs[p].pc \in Unrecorded \cup {"saving"} =>
                    procs[p].new # procs[q].new

\* An entry that is being flushed is replaced by later ones only.
Captured ==
    \A p \in Proc : procs[p].pc \in Capturing /\ pending.gen = procs[p].entry.gen =>
        pending.tok = procs[p].entry.tok \/ Before(procs[p].entry.tok, pending.tok)

TokInv ==
    /\ Inv
    /\ RowFair(world, db)
    /\ ValidKnown(world)
    /\ OutboxFair
    /\ \A p \in Proc : Fair(world, procs[p])
    /\ Private
    /\ Captured

LEMMA WorldType ==
    ASSUME TokInv
    PROVE  /\ world \in World
           /\ world.live = live /\ world.logins = logins /\ world.valid = valid
  BY DEF TokInv, Inv, TypeOK, world, World

\* The world as a step leaves it.
LEMMA WorldNext ==
    /\ world' = [live |-> live', logins |-> logins', valid |-> valid']
    /\ world'.live = live' /\ world'.logins = logins' /\ world'.valid = valid'
  BY DEF world

LEMMA WorldSame ==
    ASSUME UNCHANGED provider
    PROVE  world' = world
  BY DEF world, provider

LEMMA NoRotationSound == ASSUME NEW w PROVE SoundRotation(w, NoRotation)
  BY DEF SoundRotation

LEMMA IdleFair == ASSUME NEW w PROVE Fair(w, Idle)
  BY NoRotationSound DEF Fair, Idle, Unrecorded

-----------------------------------------------------------------------------
(* The world moves on *)

\* What was known stays known, and what was spent stays spent.
Ages(w, x) ==
    \A t \in Token : /\ Known(w, t) => Known(x, t)
                     /\ Spent(w, t) => Spent(x, t)

LEMMA AgesRotation ==
    ASSUME NEW w, NEW x, Ages(w, x), NEW r, SoundRotation(w, r)
    PROVE  SoundRotation(x, r)
  BY DEF SoundRotation, Ages, Spent, Known

\* A new login.
LEMMA LoginAges ==
    ASSUME NEW w \in World, NEW x \in World, NEW g \in Login, ValidKnown(w), g = w.logins + 1,
           x.live = [w.live EXCEPT ![g] = 1], x.logins = g,
           x.valid = w.valid \cup {FirstOf(g)}
    PROVE  /\ Ages(w, x) /\ ValidKnown(x) /\ Known(x, FirstOf(g)) /\ ~Known(w, FirstOf(g))
  <1>1. /\ FirstOf(g) \in Token /\ FirstOf(g).f = g /\ FirstOf(g).i = 1
        /\ g \in Nat /\ w.logins \in Nat
    BY SMT, RotationAssumption DEF FirstOf, Token, Login, World
  <1>2. ASSUME NEW s \in Token, Known(w, s)
        PROVE  Known(x, s) /\ s.f # g
    <2>1. s.f \in Login /\ s.f \in Nat /\ s.f <= w.logins
      BY SMT, <1>2 DEF Known, Token, Login
    <2>2. x.live[s.f] = w.live[s.f]
      BY SMT, <1>1, <2>1 DEF World
    <2> QED
      BY SMT, <1>1, <1>2, <2>1, <2>2 DEF Known
  <1>3. Known(x, FirstOf(g))
    <2>1. x.live[g] = 1
      BY DEF World
    <2>2. ASSUME NEW v \in x.valid, v.f = g
          PROVE  1 <= v.i
      BY SMT, <1>1, <2>2, <1>2 DEF ValidKnown, World, Token
    <2> QED
      BY SMT, <1>1, <2>1, <2>2 DEF Known
  <1> QED
    BY <1>1, <1>2, <1>3 DEF Ages, ValidKnown, Spent, Known

-----------------------------------------------------------------------------
(* Steps of one process *)

\* l becomes m, with nothing in its hands that it had not or that is not in the
\* outbox.
Carries(w, l, m) ==
    /\ Fair(w, m)
    /\ m.pc \in Unrecorded => l.pc \in Unrecorded /\ m.new = l.new
    /\ m.pc = "saving" => l.pc \in Unrecorded \cup {"saving"} /\ m.new = l.new
    /\ m.entry \in {l.entry, NoRotation, pending}
    /\ m.pc \in Capturing => m.entry = pending \/ (l.pc \in Capturing /\ m.entry = l.entry)

LEMMA NoTokenUnheld ==
    ASSUME NEW l, Sound(l), l.pc \in Unrecorded
    PROVE  l.new # NoRotation.tok /\ l.new \in Token
  BY SMT, ConstantTypes DEF Sound, Unrecorded, NoRotation, NoToken, Token, Login

LEMMA CarriesSame ==
    ASSUME NEW w, NEW l, Fair(w, l)
    PROVE  Carries(w, l, l)
  BY DEF Carries

\* The outbox still has the same token for the same account, or nothing.
SameEntry ==
    \/ pending' = NoRotation
    \/ pending'.tok = pending.tok /\ pending'.gen = pending.gen

\* A step that records nothing.
LEMMA WorldStep ==
    ASSUME TokInv, Inv', ValidKnown(world'), RowFair(world', db'),
           \A q \in Proc : Carries(world', procs[q], procs'[q]),
           OutboxFair', SameEntry
    PROVE  TokInv'
  <1>1. ProcsSound /\ ProcsSound'
    BY DEF TokInv, Inv
  <1>2. \A q \in Proc : Fair(world', procs'[q])
    BY DEF Carries
  <1>3. Private'
    <2>1. ASSUME NEW q \in Proc, procs'[q].pc \in Unrecorded
          PROVE  /\ procs[q].pc \in Unrecorded /\ procs'[q].new = procs[q].new
                 /\ procs[q].new # NoRotation.tok
      BY <1>1, <2>1, NoTokenUnheld DEF Carries, ProcsSound
    <2>2. ASSUME NEW q \in Proc
          PROVE  /\ procs'[q].entry \in {procs[q].entry, NoRotation, pending}
                 /\ procs'[q].pc \in Unrecorded \cup {"saving"} =>
                       procs[q].pc \in Unrecorded \cup {"saving"} /\ procs'[q].new = procs[q].new
      BY DEF Carries
    <2> QED
      BY SMT, <2>1, <2>2 DEF TokInv, Private, SameEntry
  <1>4. Captured'
    <2>1. ASSUME NEW q \in Proc, procs'[q].pc \in Capturing
          PROVE  /\ \/ procs'[q].entry = pending
                    \/ procs[q].pc \in Capturing /\ procs'[q].entry = procs[q].entry
                 /\ procs'[q].entry.gen # NoRotation.gen
      <3>1. procs'[q].entry \in Rotation
        BY <1>1, <2>1 DEF ProcsSound, Sound, Capturing
      <3>2. procs'[q].entry.gen # NoRotation.gen
        BY <3>1, ConstantTypes DEF Rotation, NoRotation
      <3> QED
        BY <2>1, <3>2 DEF Carries
    <2> QED
      BY <2>1 DEF TokInv, Captured, SameEntry
  <1> QED
    BY <1>2, <1>3, <1>4 DEF TokInv

\* A step that mints and records nothing.
LEMMA CoreStep ==
    ASSUME TokInv, Inv', UNCHANGED provider, RowFair(world, db'),
           \A q \in Proc : Carries(world, procs[q], procs'[q]),
           OutboxFair', SameEntry
    PROVE  TokInv'
  <1>1. world' = world /\ ValidKnown(world)
    BY SMTT(30), WorldSame DEF TokInv
  <1> QED
    BY <1>1, WorldStep

LEMMA ProcessStep ==
    ASSUME TokInv, Inv', NEW p \in Proc,
           procs' = [procs EXCEPT ![p] = procs'[p]],
           Carries(world, procs[p], procs'[p]),
           UNCHANGED provider, RowFair(world, db'),
           OutboxFair', SameEntry
    PROVE  TokInv'
  <1>1. \A q \in Proc : Carries(world, procs[q], procs'[q])
    <2>1. procs \in [Proc -> Local] /\ \A q \in Proc : Carries(world, procs[q], procs[q])
      BY CarriesSame DEF TokInv, Inv, TypeOK
    <2> QED
      BY <2>1
  <1> QED
    BY <1>1, CoreStep

LEMMA OutboxSame ==
    ASSUME TokInv, UNCHANGED provider, UNCHANGED outbox
    PROVE  OutboxFair' /\ SameEntry
  BY WorldSame DEF TokInv, OutboxFair, outbox, SameEntry

LEMMA LeaveCarries ==
    ASSUME TokInv, NEW p \in Proc, Leave(p)
    PROVE  procs' = [procs EXCEPT ![p] = procs'[p]] /\ Carries(world, procs[p], procs'[p])
  <1>1. procs' = [procs EXCEPT ![p] = procs'[p]] /\ procs'[p] = Idle
    BY DEF TokInv, Inv, TypeOK, Leave
  <1>2. Idle.pc = "idle" /\ Idle.entry = NoRotation
    BY DEF Idle
  <1> QED
    BY <1>1, <1>2, IdleFair DEF Carries, Unrecorded, Capturing

LEMMA GotoCarries ==
    ASSUME TokInv, NEW p \in Proc, procs[p].pc # "idle", NEW pc \in Pc \ Capturing, Goto(p, pc),
           pc \in Unrecorded => procs[p].pc \in Unrecorded,
           pc = "saving" => procs[p].pc \in Unrecorded
    PROVE  procs' = [procs EXCEPT ![p] = procs'[p]] /\ Carries(world, procs[p], procs'[p])
  <1>1. procs \in [Proc -> Local] /\ Fair(world, procs[p]) /\ procs[p] \in Local
    BY DEF TokInv, Inv, TypeOK
  <1>2. /\ procs' = [procs EXCEPT ![p] = procs'[p]]
        /\ procs'[p] = [procs[p] EXCEPT !.pc = pc]
    BY <1>1 DEF Goto
  <1> DEFINE l == procs[p]
             m == procs'[p]
  <1>3. /\ m.pc = pc /\ m.tok = l.tok /\ m.new = l.new /\ m.young = l.young
        /\ m.entry = l.entry
    BY <1>1, <1>2 DEF Local
  <1>4. Fair(world, m)
    BY <1>1, <1>3 DEF Fair, Saw, Capturing
  <1> QED
    BY <1>2, <1>3, <1>4 DEF Carries

\* The token a process holds has expired.
LEMMA HeldSpent ==
    ASSUME TokInv, NEW p \in Proc, procs[p].pc # "idle"
    PROVE  procs[p].tok \notin valid /\ Spent(world, procs[p].tok)
           /\ Saw(world, procs[p], procs[p].tok.f) /\ procs[p].young \subseteq valid
  BY WorldType DEF TokInv, Fair, Spent

-----------------------------------------------------------------------------
(* The refresh: what needs neither the outbox nor the provider *)

LEMMA QuietPcs ==
    /\ \A pc \in {"final", "failed", "rejected", "reread", "flag", "pause"} :
          pc \in Pc \ Capturing /\ pc \notin Unrecorded /\ pc # "saving"
  BY DEF Unrecorded, Pc, Capturing

\* What a guarded write leaves, and what it says when it landed.
LEMMA UpdatesOutcome ==
    ASSUME NEW guard \in BOOLEAN, NEW new, NEW u \in Updates(guard, new)
    PROVE  /\ u.row = db \/ (guard /\ u.row = new)
           /\ u.result = "ok" => guard
  <1>1. \/ guard /\ u = [row |-> new, result |-> "ok"]
        \/ u = [row |-> db, result |-> "lost"]
        \/ u = [row |-> db, result |-> "threw"]
        \/ guard /\ \E r \in {"lost", "threw"} : u = [row |-> new, result |-> r]
    BY DEF Updates
  <1>2. \/ guard
        \/ u = [row |-> db, result |-> "lost"]
        \/ u = [row |-> db, result |-> "threw"]
    BY <1>1
  <1>3. u.result = "ok" => guard
    BY SMT, <1>2
  <1> QED
    BY <1>3, UpdatesType

\* A write of the row that keeps its generation and its token.
LEMMA RowKept ==
    ASSUME TokInv, NEW d, d.gen = db.gen, d.tok = db.tok
    PROVE  RowFair(world, d)
  BY DEF TokInv, RowFair

LEMMA QuarantineTok ==
    ASSUME TokInv, Inv', NEW p \in Proc, Flag(p) \/ Pause(p)
    PROVE  TokInv' /\ db'.tok = db.tok /\ db'.gen = db.gen
  <1>1. /\ procs[p].pc # "idle" /\ UNCHANGED provider /\ UNCHANGED outbox
        /\ Leave(p) \/ Goto(p, "pause")
    BY DEF Flag, Pause, Settle, At
  <1>2. db'.gen = db.gen /\ db'.tok = db.tok
    <2>1. db \in Row
      BY DEF TokInv, Inv, TypeOK, Row
    <2>2. ASSUME NEW g \in BOOLEAN, NEW new, new.gen = db.gen, new.tok = db.tok,
                 NEW u \in Updates(g, new), db' = u.row
          PROVE  db'.gen = db.gen /\ db'.tok = db.tok
      BY <2>2, UpdatesType
    <2>3. /\ [db EXCEPT !.reauth = TRUE].gen = db.gen /\ [db EXCEPT !.reauth = TRUE].tok = db.tok
          /\ [db EXCEPT !.paused = TRUE].gen = db.gen /\ [db EXCEPT !.paused = TRUE].tok = db.tok
      BY <2>1 DEF Row
    <2>4. /\ Owns(procs[p].gen, procs[p].tok) \in BOOLEAN
          /\ (Owns(procs[p].gen, procs[p].tok) /\ ~db.paused) \in BOOLEAN
      BY DEF Owns
    <2>5. CASE Flag(p)
      <3>1. PICK u \in FlagRequiresReauthIfTokenMatches(procs[p].gen, procs[p].tok) : db' = u.row
        BY <2>5 DEF Flag
      <3> QED
        BY <2>2, <2>3, <2>4, <3>1 DEF FlagRequiresReauthIfTokenMatches
    <2>6. CASE Pause(p)
      <3>1. PICK u \in PauseIfActive(procs[p].gen, procs[p].tok) : db' = u.row
        BY <2>6 DEF Pause
      <3> QED
        BY <2>2, <2>3, <2>4, <3>1 DEF PauseIfActive
    <2> QED
      BY <2>5, <2>6
  <1>3. procs' = [procs EXCEPT ![p] = procs'[p]] /\ Carries(world, procs[p], procs'[p])
    BY <1>1, QuietPcs, GotoCarries, LeaveCarries
  <1>4. RowFair(world, db') /\ OutboxFair' /\ SameEntry
    BY <1>1, <1>2, RowKept, OutboxSame
  <1> QED
    BY <1>1, <1>2, <1>3, <1>4, ProcessStep

\* A process learns the result of its write.
LEMMA ResultCarries ==
    ASSUME TokInv, NEW p \in Proc, NEW pc, NEW r,
           \/ procs[p].pc = "persist" /\ pc = "persisted"
           \/ procs[p].pc = "flush" /\ pc = "flushed",
           pc = "flushed" /\ r = "ok" => Saw(world, procs[p], procs[p].entry.tok.f),
           procs' = [procs EXCEPT ![p].pc = pc, ![p].result = r]
    PROVE  procs' = [procs EXCEPT ![p] = procs'[p]] /\ Carries(world, procs[p], procs'[p])
  <1>1. procs \in [Proc -> Local] /\ Fair(world, procs[p]) /\ procs[p] \in Local
    BY DEF TokInv, Inv, TypeOK
  <1> DEFINE l == procs[p]
             m == procs'[p]
  <1>2. /\ procs' = [procs EXCEPT ![p] = m]
        /\ m = [l EXCEPT !.pc = pc, !.result = r]
    BY <1>1
  <1>3. /\ m.pc = pc /\ m.result = r /\ m.tok = l.tok /\ m.new = l.new /\ m.young = l.young
        /\ m.entry = l.entry
    BY <1>1, <1>2 DEF Local
  <1>4. Fair(world, m)
    BY <1>1, <1>3 DEF Fair, Saw, Unrecorded
  <1> QED
    BY <1>2, <1>3, <1>4 DEF Carries, Unrecorded, Capturing

\* What a process was given is valid, of its own login, and newer than what it gave.
LEMMA HandHolds ==
    ASSUME TokInv, NEW p \in Proc, procs[p].pc \in Unrecorded \cup {"saving"}
    PROVE  /\ procs[p].tok \in Token /\ procs[p].new \in Token /\ procs[p].new \in valid
           /\ Known(world, procs[p].new) /\ procs[p].new.f = procs[p].tok.f
           /\ procs[p].new.i = procs[p].tok.i + 1 /\ Before(procs[p].tok, procs[p].new)
           /\ procs[p].new.i > 1
  <1>1. /\ Fair(world, procs[p]) /\ Sound(procs[p]) /\ procs[p].pc # "idle" /\ ValidKnown(world)
        /\ world.valid = valid
    BY WorldType DEF TokInv, Inv, ProcsSound, Unrecorded
  <1>2. /\ procs[p].new = [f |-> procs[p].tok.f, i |-> procs[p].tok.i + 1]
        /\ procs[p].new \in valid /\ Known(world, procs[p].new)
    BY <1>1 DEF Fair, ValidKnown
  <1>3. procs[p].tok \in Token /\ procs[p].tok.f \in Nat /\ procs[p].tok.i \in Nat \ {0}
    BY SMT, <1>1, RotationAssumption DEF Sound, Token, Login
  <1> QED
    BY SMT, <1>2, <1>3 DEF Before, Known

LEMMA PersistTok ==
    ASSUME TokInv, Inv', NEW p \in Proc, Persist(p)
    PROVE  /\ TokInv'
           /\ db'.tok = db.tok \/ (db.tok = procs[p].tok /\ db'.tok = procs[p].new)
           /\ db'.gen = db.gen
  <1>1. procs[p].pc = "persist" /\ UNCHANGED provider /\ UNCHANGED outbox
    BY DEF Persist, At
  <1>2. PICK u \in UpdateTokensIfRefreshTokenMatches(procs[p].gen, procs[p].tok, procs[p].new) :
          /\ db' = u.row
          /\ procs' = [procs EXCEPT ![p].pc = "persisted", ![p].result = u.result]
    BY DEF Persist
  <1> DEFINE new == [db EXCEPT !.tok = procs[p].new, !.reauth = FALSE]
             guard == Owns(procs[p].gen, procs[p].tok)
  <1>3. db \in Row /\ guard \in BOOLEAN
    BY DEF TokInv, Inv, TypeOK, Row, Owns
  <1>4. new.gen = db.gen /\ new.tok = procs[p].new
    BY <1>3 DEF Row
  <1> HIDE DEF new
  <1>5. u \in Updates(guard, new)
    BY <1>2 DEF UpdateTokensIfRefreshTokenMatches, new
  <1>6. db' = db \/ (guard /\ db' = new)
    BY <1>2, <1>3, <1>5, UpdatesOutcome
  <1>7. RowFair(world, db')
    <2>1. procs[p].pc \in Unrecorded \cup {"saving"}
      BY <1>1 DEF Unrecorded
    <2>2. Known(world, procs[p].new) /\ procs[p].new.f = procs[p].tok.f
      BY <2>1, HandHolds
    <2> QED
      BY <1>4, <1>6, <2>2 DEF TokInv, RowFair, Owns
  <1>8. procs' = [procs EXCEPT ![p] = procs'[p]] /\ Carries(world, procs[p], procs'[p])
    <2>1. "persisted" # "flushed"
      OBVIOUS
    <2> QED
      BY <1>1, <1>2, <2>1, ResultCarries
  <1>9. OutboxFair' /\ SameEntry
    BY <1>1, OutboxSame
  <1>10. TokInv'
    BY <1>1, <1>7, <1>8, <1>9, ProcessStep
  <1> QED
    BY <1>4, <1>6, <1>10 DEF Owns

LEMMA FlushWriteTok ==
    ASSUME TokInv, Inv', NEW p \in Proc, FlushWrite(p)
    PROVE  /\ TokInv'
           /\ db'.tok = db.tok \/ (Before(db.tok, db'.tok) /\ db.tok \notin valid)
           /\ db'.gen = db.gen
  <1> DEFINE e == procs[p].entry
  <1>1. procs[p].pc = "flush" /\ UNCHANGED provider /\ UNCHANGED outbox
    BY DEF FlushWrite, At
  <1>2. PICK u \in UpdateTokensIfRefreshTokenMatches(e.gen, e.anchor, e.tok) :
          /\ db' = u.row
          /\ procs' = [procs EXCEPT ![p].pc = "flushed", ![p].result = u.result]
    BY DEF FlushWrite
  <1> DEFINE new == [db EXCEPT !.tok = e.tok, !.reauth = FALSE]
             guard == Owns(e.gen, e.anchor)
  <1>3. db \in Row /\ guard \in BOOLEAN
    BY DEF TokInv, Inv, TypeOK, Row, Owns
  <1>4. new.gen = db.gen /\ new.tok = e.tok
    BY <1>3 DEF Row
  <1>5. u \in Updates(guard, new)
    BY <1>2 DEF UpdateTokensIfRefreshTokenMatches
  <1> HIDE DEF new
  <1>6. /\ db' = db \/ (guard /\ db' = new)
        /\ u.result = "ok" => guard
    BY <1>2, <1>3, <1>5, UpdatesOutcome
  <1>7. e \in Rotation /\ e # NoRotation /\ SoundRotation(world, e)
    BY <1>1, ConstantTypes DEF TokInv, Inv, ProcsSound, Sound, Fair
  <1>8. /\ Known(world, e.tok) /\ Before(e.anchor, e.tok) /\ e.anchor \notin valid
        /\ e.tok.f \in Nat /\ e.anchor.f \in Nat /\ e.gen # 0 /\ e.tok.f <= logins
    <2>1. e.tok \in Token /\ e.anchor \in Token /\ e.gen \in Generation
      BY <1>7 DEF Rotation
    <2> QED
      BY <1>7, <2>1, WorldType, ConstantTypes DEF SoundRotation, Spent, Known, Token
  <1>9. guard => e.tok.f = logins /\ db.tok = e.anchor
    BY SMT, <1>8, WorldType DEF Before, TokInv, RowFair, Owns
  <1>10. RowFair(world, db')
    BY <1>4, <1>6, <1>8, <1>9, WorldType DEF TokInv, RowFair
  <1>11. u.result = "ok" => Saw(world, procs[p], e.tok.f)
    <2>1. world.logins = logins /\ logins \in Nat /\ Login \subseteq Nat
      BY WorldType, ConstantTypes DEF World
    <2>2. ASSUME u.result = "ok", NEW f \in Login, e.tok.f < f, f <= world.logins
          PROVE  FALSE
      BY SMT, <1>6, <1>9, <2>1, <2>2
    <2> QED
      BY <2>2 DEF Saw
  <1>12. procs' = [procs EXCEPT ![p] = procs'[p]] /\ Carries(world, procs[p], procs'[p])
    BY <1>1, <1>2, <1>11, ResultCarries
  <1>13. OutboxFair' /\ SameEntry
    BY <1>1, OutboxSame
  <1>14. TokInv'
    BY <1>1, <1>10, <1>12, <1>13, ProcessStep
  <1> QED
    BY <1>4, <1>6, <1>8, <1>9, <1>14

-----------------------------------------------------------------------------
(* The refresh: the outbox *)

\* Nobody holds a spent token, or one that has been minted by an exchange, that is
\* later than what a refresh has in its hands.
LEMMA NothingLater ==
    ASSUME TokInv, NEW p \in Proc, procs[p].pc \in Unrecorded \cup {"saving"},
           NEW t, Known(world, t), t \notin valid \/ t.i > 1, t # procs[p].new
    PROVE  Before(t, procs[p].new)
  <1> DEFINE n == procs[p].new
  <1>1. /\ n \in Token /\ n \in valid /\ n.f = procs[p].tok.f
        /\ procs[p].young \subseteq valid /\ Saw(world, procs[p], n.f)
        /\ world.valid = valid /\ world.logins = logins
    BY HandHolds, HeldSpent, WorldType DEF Unrecorded
  <1> HIDE DEF n
  <1>2. /\ t \in Token /\ t.f \in Login /\ t.f \in Nat /\ t.i \in Nat \ {0} /\ t.f <= logins
        /\ n.f \in Nat /\ n.i \in Nat
    BY SMT, <1>1, RotationAssumption DEF Known, Token, Login
  <1>3. t = [f |-> t.f, i |-> t.i] /\ n = [f |-> n.f, i |-> n.i]
    BY <1>1, <1>2 DEF Token
  <1>4. t.f <= n.f
    <2> SUFFICES ASSUME n.f < t.f PROVE FALSE
      BY SMT, <1>2
    <2>1. FirstOf(t.f) \in valid /\ FirstOf(t.f).f = t.f /\ FirstOf(t.f).i = 1
      BY <1>1, <1>2 DEF Saw, FirstOf
    <2>2. t.i <= 1
      BY <1>1, <2>1 DEF Known
    <2>3. t = FirstOf(t.f)
      BY SMT, <1>2, <1>3, <2>2 DEF FirstOf
    <2> QED
      BY SMT, <1>2, <2>1, <2>2, <2>3
  <1>5. t.f = n.f => t.i <= n.i
    BY <1>1 DEF Known
  <1>6. t.f = n.f => t.i # n.i
    BY <1>3 DEF n
  <1> QED
    BY SMT, <1>2, <1>4, <1>5, <1>6 DEF Before, n

\* The queue with one more operation on the file.
LEMMA QueueSound ==
    ASSUME NEW w, NEW q \in Seq(FileOp), \A n \in 1..Len(q) : SoundRotation(w, q[n].rot),
           NEW o \in FileOp, SoundRotation(w, o.rot)
    PROVE  \A n \in 1..Len(Append(q, o)) : SoundRotation(w, Append(q, o)[n].rot)
  BY SMT DEF FileOp

LEMMA WalOpRot ==
    ASSUME NEW op \in {"save", "remove"}, NEW rot \in Rotation \cup {NoRotation},
           NEW owner \in Proc \cup {NoProc}
    PROVE  WalOp(op, rot, owner) \in FileOp /\ WalOp(op, rot, owner).rot = rot
  BY DEF WalOp, FileOp

LEMMA RecordSound ==
    ASSUME TokInv, NEW p \in Proc, procs[p].pc \in Unrecorded
    PROVE  LET next == Recorded(procs[p].gen, procs[p].tok, procs[p].new) IN
           /\ SoundRotation(world, next) /\ next \in Rotation
           /\ next.tok = procs[p].new
  <1> DEFINE next == Recorded(procs[p].gen, procs[p].tok, procs[p].new)
  <1>1. /\ procs[p].gen \in Generation /\ procs[p].tok \in Token /\ procs[p].new \in Token
        /\ Known(world, procs[p].new) /\ procs[p].new.i > 1
        /\ Before(procs[p].tok, procs[p].new) /\ Spent(world, procs[p].tok)
        /\ procs[p].new \in valid
    BY HandHolds, HeldSpent DEF TokInv, Inv, ProcsSound, Sound, Unrecorded
  <1>2. pending.gen = procs[p].gen => pending \in Rotation /\ pending # NoRotation
    BY <1>1, ConstantTypes DEF TokInv, Inv, TypeOK
  <1>3. pending.gen = procs[p].gen =>
          Spent(world, pending.anchor) /\ Before(pending.anchor, procs[p].new)
    <2> SUFFICES ASSUME pending.gen = procs[p].gen
                 PROVE  Spent(world, pending.anchor) /\ Before(pending.anchor, procs[p].new)
      OBVIOUS
    <2>1. Spent(world, pending.anchor)
      BY <1>2 DEF TokInv, OutboxFair, SoundRotation
    <2>2. Known(world, pending.anchor) /\ pending.anchor \notin valid
      BY <2>1, WorldType DEF Spent
    <2> QED
      BY <1>1, <2>1, <2>2, NothingLater
  <1>4. /\ next.tok = procs[p].new
        /\ next.anchor = IF pending.gen = procs[p].gen THEN pending.anchor ELSE procs[p].tok
        /\ next \in Rotation
    BY <1>1, <1>2 DEF Recorded, Rotation
  <1> HIDE DEF next
  <1>5. SoundRotation(world, next)
    BY <1>1, <1>3, <1>4 DEF SoundRotation
  <1> QED
    BY <1>4, <1>5 DEF next

\* An operation that leaves no rotation behind is queued, and the entry is dropped.
LEMMA DropFair ==
    ASSUME TokInv, UNCHANGED provider, pending' = NoRotation, wal' = wal,
           NEW owner \in Proc \cup {NoProc},
           walQueue' = Append(walQueue, WalOp("remove", NoRotation, owner))
    PROVE  OutboxFair'
  <1>1. world' = world /\ walQueue \in Seq(FileOp)
    BY WorldSame DEF TokInv, Inv, TypeOK, FileOp
  <1>2. /\ WalOp("remove", NoRotation, owner) \in FileOp
        /\ WalOp("remove", NoRotation, owner).rot = NoRotation
    BY WalOpRot
  <1>3. /\ \A n \in 1..Len(walQueue) : SoundRotation(world, walQueue[n].rot)
        /\ SoundRotation(world, wal) /\ SoundRotation(world, NoRotation)
    BY NoRotationSound DEF TokInv, OutboxFair
  <1>4. \A n \in 1..Len(walQueue') : SoundRotation(world, walQueue'[n].rot)
    BY <1>1, <1>2, <1>3, QueueSound
  <1> QED
    BY <1>1, <1>3, <1>4 DEF OutboxFair

LEMMA ClearFair ==
    ASSUME TokInv, UNCHANGED provider, NEW gen, ClearPendingRotation(gen)
    PROVE  OutboxFair' /\ SameEntry
  <1>1. CASE UNCHANGED outbox
    BY <1>1, OutboxSame
  <1>2. CASE /\ pending' = NoRotation /\ wal' = wal
             /\ walQueue' = Append(walQueue, WalOp("remove", NoRotation, NoProc))
    BY <1>2, DropFair DEF SameEntry
  <1> QED
    BY <1>1, <1>2 DEF ClearPendingRotation

\* A flush that landed while the entry was being replaced: the new entry is anchored
\* on what the row holds now.
LEMMA RebasedSound ==
    ASSUME TokInv, NEW p \in Proc, procs[p].pc = "flushed", procs[p].result = "ok",
           Survivor(procs[p].entry)
    PROVE  LET r == Rebased(procs[p].entry) IN
           /\ SoundRotation(world, r) /\ r \in Rotation
           /\ r.tok = pending.tok /\ r.gen = pending.gen
  <1> DEFINE e == procs[p].entry
             r == Rebased(e)
  <1>1. /\ e \in Rotation /\ e # NoRotation /\ pending.tok # e.tok /\ pending.gen = e.gen
        /\ procs[p].pc # "idle" /\ procs[p].pc \in Capturing
    BY ConstantTypes DEF TokInv, Inv, ProcsSound, Sound, Survivor, StillPending, Capturing
  <1>2. pending \in Rotation /\ pending # NoRotation
    BY <1>1, ConstantTypes DEF TokInv, Inv, TypeOK, Rotation
  <1>3. /\ Known(world, e.tok) /\ Known(world, pending.tok) /\ pending.tok.i > 1
        /\ Saw(world, procs[p], e.tok.f)
    BY <1>1, <1>2 DEF TokInv, OutboxFair, Fair, SoundRotation
  <1>4. Before(e.tok, pending.tok)
    BY <1>1 DEF TokInv, Captured
  <1>5. /\ e.tok \in Token /\ e.tok.f \in Nat /\ e.tok.i \in Nat
        /\ pending.tok \in Token /\ pending.tok.f \in Nat /\ pending.tok.i \in Nat
        /\ pending.tok.f \in Login
    BY SMT, <1>1, <1>2, RotationAssumption DEF Rotation, Token, Login
  <1>6. pending.tok.f <= e.tok.f
    <2> SUFFICES ASSUME e.tok.f < pending.tok.f PROVE FALSE
      BY SMT, <1>5
    <2>1. FirstOf(pending.tok.f) \in valid
      BY <1>1, <1>3, <1>5, HeldSpent, WorldType DEF Saw, Known
    <2> QED
      BY SMT, <1>3, <1>5, <2>1, WorldType DEF Known, FirstOf
  <1>7. Spent(world, e.tok)
    BY SMT, <1>3, <1>4, <1>5, <1>6 DEF Spent, Known, Before
  <1>8. r.tok = pending.tok /\ r.gen = pending.gen /\ r.anchor = e.tok /\ r \in Rotation
    BY <1>2, <1>5 DEF Rebased, Rotation
  <1> HIDE DEF r
  <1>9. SoundRotation(world, r)
    BY <1>3, <1>4, <1>7, <1>8 DEF SoundRotation
  <1> QED
    BY <1>8, <1>9 DEF r

-----------------------------------------------------------------------------
(* The provider, the handlers and time *)

LEMMA WorldTypeNext ==
    ASSUME Inv'
    PROVE  /\ world' \in World
           /\ world'.live = live' /\ world'.logins = logins' /\ world'.valid = valid'
  BY DEF Inv, TypeOK, world, World

LEMMA OutboxAges ==
    ASSUME TokInv, Ages(world, world'), UNCHANGED outbox
    PROVE  OutboxFair' /\ SameEntry
  BY AgesRotation DEF TokInv, OutboxFair, outbox, SameEntry

\* What a login or an exchange leaves of a process that only saw it.
LEMMA WitnessHolds ==
    ASSUME TokInv, NEW t \in Token, NEW q \in Proc
    PROVE  /\ procs[q].pc = "idle" => Witness(t)[q] = Idle
           /\ procs[q].pc # "idle" =>
                /\ Witness(t)[q].pc = procs[q].pc /\ Witness(t)[q].tok = procs[q].tok
                /\ Witness(t)[q].new = procs[q].new /\ Witness(t)[q].entry = procs[q].entry
                /\ Witness(t)[q].result = procs[q].result
                /\ Witness(t)[q].young = procs[q].young \cup {t}
  <1>1. procs[q] \in Local
    BY DEF TokInv, Inv, TypeOK
  <1>2. CASE procs[q].pc = "idle"
    BY <1>2 DEF Witness, At
  <1>3. CASE procs[q].pc # "idle"
    <2>1. Witness(t)[q] = [procs[q] EXCEPT !.young = @ \cup {t}]
      BY <1>3 DEF Witness, At
    <2> QED
      BY <1>1, <1>3, <2>1 DEF Local
  <1> QED
    BY <1>2, <1>3

LEMMA SeesMore ==
    ASSUME NEW w \in World, NEW x \in World, Ages(w, x), NEW t \in Token,
           x.valid = w.valid \cup {t},
           x.logins = w.logins \/ (x.logins = w.logins + 1 /\ t = FirstOf(x.logins)),
           NEW l, NEW m, Fair(w, l), l.pc # "idle", m.tok = l.tok, m.new = l.new,
           m.entry = l.entry, m.result = l.result, m.young = l.young \cup {t}, m.pc = l.pc
    PROVE  Fair(x, m)
  <1>1. SoundRotation(x, m.entry)
    BY AgesRotation DEF Fair
  <1>2. Spent(x, m.tok) /\ m.young \subseteq x.valid
    BY DEF Fair, Ages, Spent, Known
  <1>3. ASSUME NEW g, Saw(w, l, g)
        PROVE  Saw(x, m, g)
    <2>1. Login \subseteq Nat /\ w.logins \in Nat
      BY ConstantTypes DEF World
    <2>2. ASSUME NEW f \in Login, g < f, f <= x.logins
          PROVE  FirstOf(f) \in m.young
      <3>1. f <= w.logins \/ FirstOf(f) = t
        BY SMT, <2>1, <2>2
      <3> QED
        BY <1>3, <2>2, <3>1 DEF Saw
    <2> QED
      BY <2>2 DEF Saw
  <1>4. m.pc \in Unrecorded \cup {"saving"} =>
          m.new = [f |-> m.tok.f, i |-> m.tok.i + 1] /\ m.new \in m.young
    BY DEF Fair
  <1> QED
    BY <1>1, <1>2, <1>3, <1>4 DEF Fair

LEMMA LoginTok ==
    ASSUME TokInv, Inv', NewLogin, UNCHANGED outbox,
           db'.gen # 0 => db'.tok = FirstToken
    PROVE  TokInv'
  <1>1. /\ logins \in Login /\ logins < MaxLogin /\ logins' = logins + 1
        /\ live' = [live EXCEPT ![logins + 1] = 1]
        /\ valid' = valid \cup {FirstToken} /\ procs' = Witness(FirstToken)
    BY DEF TokInv, Inv, TypeOK, NewLogin
  <1>2. /\ FirstToken = FirstOf(logins') /\ FirstToken.f = logins' /\ FirstToken \in Token
        /\ logins' \in Login
    BY SMT, <1>1, RotationAssumption DEF FirstToken, FirstOf, Token, Login
  <1>3. /\ world \in World /\ world' \in World /\ ValidKnown(world)
        /\ world.logins = logins /\ world.live = live /\ world.valid = valid
        /\ world'.logins = logins' /\ world'.live = live' /\ world'.valid = valid'
    BY WorldType, WorldTypeNext DEF TokInv
  <1>4. Ages(world, world') /\ ValidKnown(world') /\ Known(world', FirstToken)
    BY <1>1, <1>2, <1>3, LoginAges
  <1>5. ASSUME NEW q \in Proc
        PROVE  Carries(world', procs[q], procs'[q])
    <2>1. CASE procs[q].pc = "idle"
      <3>1. procs'[q] = Idle
        BY <1>1, <1>2, <2>1, WitnessHolds
      <3> QED
        BY SMT, <3>1, IdleFair DEF Carries, Idle, Unrecorded, Capturing
    <2>2. CASE procs[q].pc # "idle"
      <3>1. /\ procs'[q].pc = procs[q].pc /\ procs'[q].tok = procs[q].tok
            /\ procs'[q].new = procs[q].new /\ procs'[q].entry = procs[q].entry
            /\ procs'[q].result = procs[q].result
            /\ procs'[q].young = procs[q].young \cup {FirstToken}
        BY <1>1, <1>2, <2>2, WitnessHolds
      <3>2. Fair(world, procs[q])
        BY DEF TokInv
      <3>3. Fair(world', procs'[q])
        BY SMTT(30), <1>1, <1>2, <1>3, <1>4, <2>2, <3>1, <3>2, SeesMore
      <3> QED
        BY <3>1, <3>3 DEF Carries
    <2> QED
      BY <2>1, <2>2
  <1>6. RowFair(world', db')
    BY <1>2, <1>3, <1>4 DEF RowFair
  <1>7. OutboxFair' /\ SameEntry
    BY <1>4, OutboxAges
  <1> QED
    BY <1>4, <1>5, <1>6, <1>7, WorldStep

\* The exchange mints a token.
Mints(p, t, next) ==
    /\ live[t.f] = t.i
    /\ next = [f |-> t.f, i |-> t.i + 1]
    /\ live' = [live EXCEPT ![t.f] = next.i]
    /\ valid' = valid \cup {next}
    /\ procs' = [Witness(next) EXCEPT ![p].pc = "minted", ![p].new = next]

\* The exchange mints a token and its answer is lost.
Loses(p, t) == live' = [live EXCEPT ![t.f] = t.i + 1]

-----------------------------------------------------------------------------
(* Handlers and restarts *)

\* A step that leaves provider and processes alone.
LEMMA QuietTok ==
    ASSUME TokInv, Inv', UNCHANGED provider, procs' = procs, RowFair(world, db'),
           OutboxFair', SameEntry
    PROVE  TokInv'
  <1>1. \A q \in Proc : Carries(world, procs[q], procs'[q])
    BY CarriesSame DEF TokInv
  <1> QED
    BY <1>1, CoreStep

LEMMA ReauthResumeTok ==
    ASSUME TokInv, Inv', ReauthResume
    PROVE  TokInv' /\ db'.tok = db.tok /\ db'.gen = db.gen
  <1>1. UNCHANGED provider /\ procs' = procs /\ UNCHANGED outbox
    BY DEF ReauthResume
  <1>2. PICK u \in Updates(db.gen # 0 /\ db.paused, [db EXCEPT !.paused = FALSE]) : db' = u.row
    BY DEF ReauthResume
  <1>3. (db.gen # 0 /\ db.paused) \in BOOLEAN
    OBVIOUS
  <1>4. db' = db \/ db' = [db EXCEPT !.paused = FALSE]
    BY <1>2, <1>3, UpdatesOutcome
  <1>5. db'.gen = db.gen /\ db'.tok = db.tok
    BY <1>4 DEF TokInv, Inv, TypeOK
  <1>6. RowFair(world, db')
    BY <1>5, RowKept
  <1> QED
    BY <1>1, <1>5, <1>6, OutboxSame, QuietTok

LEMMA NewRowTok ==
    ASSUME TokInv, Inv', Reauthenticate \/ RecreateAccount
    PROVE  TokInv' /\ (db.gen # 0 => Before(db.tok, db'.tok))
  <1>0. db \in Row
    BY DEF TokInv, Inv, TypeOK, Row
  <1>1. NewLogin /\ UNCHANGED outbox
    BY DEF Reauthenticate, RecreateAccount
  <1>4. db'.tok = FirstToken
    <2>1. CASE Reauthenticate
      BY <1>0, <2>1 DEF Reauthenticate, Row
    <2>2. CASE RecreateAccount
      BY <2>2 DEF RecreateAccount
    <2> QED
      BY <2>1, <2>2
  <1>2. db.gen # 0 => db.tok.f = logins /\ logins \in Nat
    BY WorldType, ConstantTypes DEF TokInv, RowFair, Inv, TypeOK
  <1>3. db.gen # 0 => Before(db.tok, db'.tok)
    BY SMT, <1>2, <1>4 DEF Before, FirstToken
  <1> QED
    BY <1>1, <1>3, <1>4, LoginTok

-----------------------------------------------------------------------------
(* The whole of it *)

LEMMA TokInit == Init => TokInv
  <1> SUFFICES ASSUME Init PROVE TokInv
    OBVIOUS
  <1>1. Inv
    BY InvInit
  <1>2. \A p \in Proc : procs[p] = Idle /\ Fair(world, procs[p])
    BY IdleFair DEF Init
  <1>3. Idle.pc \notin Unrecorded /\ Idle.pc \notin Capturing
    BY DEF Idle, Unrecorded, Capturing
  <1>4. Private /\ Captured
    BY <1>2, <1>3 DEF Private, Captured
  <1>5. OutboxFair
    BY SMT, NoRotationSound DEF Init, OutboxFair
  <1>6. world.live = live /\ world.logins = 1 /\ world.valid = {} /\ live[1] = 1
    BY SMT, RotationAssumption DEF Init, world, Login
  <1>7. db.tok.f = 1 /\ db.tok.i = 1 /\ db.tok \in Token
    BY SMT, RotationAssumption DEF Init, Token, Login
  <1>8. ValidKnown(world) /\ RowFair(world, db)
    BY SMT, <1>6, <1>7 DEF ValidKnown, RowFair, Known
  <1> QED
    BY <1>1, <1>2, <1>4, <1>5, <1>8 DEF TokInv

\* A row that is there is not turned back.
Forward ==
    db.gen # 0 /\ db'.gen # 0 => db'.tok = db.tok \/ Before(db.tok, db'.tok)

LEMMA TokNext == TokInv /\ [Next]_vars => TokInv' /\ Forward
  <1>AgesFair.
      ASSUME NEW w, NEW x, Ages(w, x), x.logins = w.logins, NEW l, Fair(w, l),
             l.pc # "idle" => l.young \subseteq x.valid
      PROVE  Fair(x, l)
    <2> USE <1>AgesFair
    <2>1. SoundRotation(x, l.entry)
      BY AgesRotation DEF Fair
    <2>2. l.pc # "idle" => Spent(x, l.tok) /\ l.young \subseteq x.valid /\ Saw(x, l, l.tok.f)
      BY DEF Fair, Ages, Spent, Known, Saw
    <2> QED
      BY <2>1, <2>2 DEF Fair, Saw
  \* Nothing changes but that some tokens expire.
  <1>ExpireAges.
      ASSUME NEW w \in World, NEW t, NEW x \in World, ValidKnown(w),
             x.live = w.live, x.logins = w.logins, x.valid = w.valid \ {t}
      PROVE  Ages(w, x) /\ ValidKnown(x)
    BY <1>ExpireAges DEF Ages, ValidKnown, Known, Spent
  \* A login is revoked, or its token rotated with the answer lost.
  <1>LiveAges.
      ASSUME NEW w \in World, NEW f \in Login, NEW n \in 0..MaxRotation, NEW x \in World,
             ValidKnown(w), n = 0 \/ (w.live[f] # 0 /\ w.live[f] <= n),
             x.live = [w.live EXCEPT ![f] = n], x.logins = w.logins, x.valid = w.valid
      PROVE  Ages(w, x) /\ ValidKnown(x)
    <2> USE <1>LiveAges
    <2>1. ASSUME NEW t \in Token, Known(w, t)
          PROVE  Known(x, t)
      <3>1. /\ w.live[t.f] \in 0..MaxRotation /\ t.f \in Login /\ t.i \in Nat
            /\ w.live \in [Login -> 0..MaxRotation] /\ n \in Nat
        BY SMT, RotationAssumption DEF World, Token
      <3>2. x.live[t.f] = IF t.f = f THEN n ELSE w.live[t.f]
        BY <3>1
      <3>3. w.live[f] \in 0..MaxRotation
        BY <3>1
      <3> QED
        BY SMT, <2>1, <3>1, <3>2, <3>3 DEF Known
    <2> QED
      BY <2>1 DEF Ages, ValidKnown, Spent, Known
  \* The live token of a login is rotated; what is exchanged has expired.
  <1>MintAges.
      ASSUME NEW w \in World, NEW t \in Token, NEW x \in World, NEW next \in Token,
             ValidKnown(w), Spent(w, t), w.live[t.f] = t.i, next = [f |-> t.f, i |-> t.i + 1],
             x.live = [w.live EXCEPT ![t.f] = next.i], x.logins = w.logins,
             x.valid = w.valid \cup {next}
      PROVE  /\ Ages(w, x) /\ ValidKnown(x) /\ Known(x, next) /\ ~Known(w, next)
             /\ \A v \in w.valid : v.f # t.f
    <2> USE <1>MintAges
    <2>1. /\ t.f \in Login /\ t.i \in 1..MaxRotation /\ next.f = t.f /\ next.i = t.i + 1
          /\ \A v \in w.valid : v \in Token /\ v.f \in Login /\ v.i \in 1..MaxRotation
      BY DEF World, Token
    <2>2. ASSUME NEW v \in w.valid
          PROVE  v.f # t.f
      <3>1. v \in Token /\ Known(w, v) /\ v # t
        BY DEF ValidKnown, Spent, World
      <3>2. v = [f |-> v.f, i |-> v.i] /\ t = [f |-> t.f, i |-> t.i]
        BY <3>1 DEF Token
      <3> QED
        BY SMT, <2>1, <3>1, <3>2 DEF Known, Spent
    <2>3. ASSUME NEW s \in Token, Known(w, s)
          PROVE  Known(x, s) /\ s # next
      <3>1. /\ s.f \in Login /\ s.i \in 1..MaxRotation
            /\ x.live[s.f] = IF s.f = t.f THEN t.i + 1 ELSE w.live[s.f]
        BY <2>1 DEF World, Token
      <3>2. s.f = t.f => s.i <= t.i
        BY SMT, <2>1, <2>3 DEF Known
      <3> QED
        BY SMT, <2>1, <2>3, <3>1, <3>2 DEF Known
    <2>4. Known(x, next)
      <3>1. x.live[next.f] = next.i
        BY <2>1 DEF World
      <3>2. \A v \in x.valid : v.f = next.f => next.i <= v.i
        BY SMT, <2>1, <2>2
      <3> QED
        BY <2>1, <3>1, <3>2 DEF Known, Spent
    <2> QED
      BY <2>2, <2>3, <2>4 DEF Ages, ValidKnown, Spent, Known
  \* A step that leaves row, provider and outbox alone.
  <1>CarryStep.
      ASSUME TokInv, Inv', NEW p \in Proc,
             procs' = [procs EXCEPT ![p] = procs'[p]],
             Carries(world, procs[p], procs'[p]),
             UNCHANGED <<provider, db, outbox>>
      PROVE  TokInv'
    <2> USE <1>CarryStep
    <2>1. UNCHANGED provider /\ UNCHANGED outbox /\ RowFair(world, db')
      BY DEF TokInv
    <2>2. OutboxFair' /\ SameEntry
      BY <2>1, OutboxSame
    <2> QED
      BY <2>1, <2>2, ProcessStep
  <1>SettleCarries.
      ASSUME TokInv, NEW p \in Proc, Settle(p)
      PROVE  procs' = [procs EXCEPT ![p] = procs'[p]] /\ Carries(world, procs[p], procs'[p])
    BY <1>SettleCarries, LeaveCarries DEF Settle
  <1>ThrowCarries.
      ASSUME TokInv, NEW p \in Proc, procs[p].pc # "idle", Throw(p)
      PROVE  procs' = [procs EXCEPT ![p] = procs'[p]] /\ Carries(world, procs[p], procs'[p])
    <2> USE <1>ThrowCarries
    <2>1. "failed" \in Pc \ Capturing /\ "failed" \notin Unrecorded
      BY DEF Pc, Capturing, Unrecorded
    <2> QED
      BY <2>1, <1>SettleCarries, GotoCarries DEF Throw
  <1>JoinOrExchangeCarries.
      ASSUME TokInv, NEW p \in Proc, procs[p].pc # "idle", NEW t, Spent(world, t),
             Saw(world, procs[p], t.f), JoinOrExchange(p, t)
      PROVE  procs' = [procs EXCEPT ![p] = procs'[p]] /\ Carries(world, procs[p], procs'[p])
    <2> USE <1>JoinOrExchangeCarries
    <2>1. CASE InFlightFor(procs[p].gen)
      BY <2>1, LeaveCarries DEF JoinOrExchange
    <2>2. CASE ~InFlightFor(procs[p].gen)
      <3>1. procs \in [Proc -> Local] /\ Fair(world, procs[p]) /\ procs[p] \in Local
        BY DEF TokInv, Inv, TypeOK
      <3>2. procs' = [procs EXCEPT ![p].pc = "exchange", ![p].tok = t,
                                   ![p].entry = NoRotation, ![p].result = "none"]
        BY <2>2 DEF JoinOrExchange
      <3>3. /\ procs' = [procs EXCEPT ![p] = procs'[p]]
            /\ procs'[p] = [procs[p] EXCEPT !.pc = "exchange", !.tok = t,
                                            !.entry = NoRotation, !.result = "none"]
        BY <3>1, <3>2
      <3> DEFINE l == procs[p]
                 m == procs'[p]
      <3>4. m.pc = "exchange" /\ m.tok = t /\ m.young = l.young /\ m.entry = NoRotation
        BY <3>1, <3>3 DEF Local
      <3>5. l.young \subseteq world.valid
        BY <3>1 DEF Fair
      <3>6. Fair(world, m)
        BY <3>4, <3>5, NoRotationSound DEF Fair, Saw, Unrecorded
      <3> QED
        BY <3>3, <3>4, <3>6 DEF Carries, Capturing, Unrecorded
    <2> QED
      BY <2>1, <2>2
  \* The row of a process that is current has the last login's token.
  <1>CurrentKnown.
      ASSUME TokInv, NEW p \in Proc, procs[p].pc # "idle", Current(p)
      PROVE  /\ db.gen # 0 /\ db.tok \in Token /\ Known(world, db.tok)
             /\ \A l : Saw(world, l, db.tok.f)
    <2> USE <1>CurrentKnown
    <2>1. db.gen # 0 /\ db.tok \in Token
      BY CurrentRow DEF TokInv
    <2>2. Known(world, db.tok) /\ db.tok.f = world.logins /\ world.logins \in Nat /\ Login \subseteq Nat
      BY <2>1, WorldType, ConstantTypes DEF TokInv, RowFair, World
    <2> QED
      BY SMT, <2>1, <2>2 DEF Saw
  <1>AdoptRowCarries.
      ASSUME TokInv, NEW p \in Proc, procs[p].pc # "idle", Current(p), NEW t, t \notin valid,
             AdoptRow(p, t)
      PROVE  procs' = [procs EXCEPT ![p] = procs'[p]] /\ Carries(world, procs[p], procs'[p])
    <2> USE <1>AdoptRowCarries
    <2>1. CASE db.tok \in valid /\ db.tok # t
      BY <2>1, LeaveCarries DEF AdoptRow
    <2>2. CASE ~(db.tok \in valid /\ db.tok # t)
      <3>1. JoinOrExchange(p, db.tok)
        BY <2>2 DEF AdoptRow
      <3>2. Spent(world, db.tok) /\ Saw(world, procs[p], db.tok.f)
        BY <2>2, <1>CurrentKnown, WorldType DEF Spent
      <3> QED
        BY <3>1, <3>2, <1>JoinOrExchangeCarries
    <2> QED
      BY <2>1, <2>2
  <1>BeginTok.
      ASSUME TokInv, Inv', NEW p \in Proc, db.gen # 0, db.tok \notin valid,
             NEW pc \in {"begin", "selected"},
             procs' = [procs EXCEPT ![p] =
                          [Idle EXCEPT !.pc = pc, !.gen = db.gen, !.tok = db.tok]],
             UNCHANGED <<provider, db, outbox>>
      PROVE  TokInv'
    <2> USE <1>BeginTok
    <2>1. procs \in [Proc -> Local]
      BY DEF TokInv, Inv, TypeOK
    <2> DEFINE m == procs'[p]
    <2>2. /\ procs' = [procs EXCEPT ![p] = m]
          /\ m = [Idle EXCEPT !.pc = pc, !.gen = db.gen, !.tok = db.tok]
      BY <2>1
    <2> HIDE DEF m
    <2>3. m.pc = pc /\ m.tok = db.tok /\ m.young = {} /\ m.entry = NoRotation
      BY <2>2 DEF Idle
    <2>4. Known(world, db.tok) /\ db.tok.f = world.logins /\ world.logins \in Nat /\ Login \subseteq Nat
      BY WorldType, ConstantTypes DEF TokInv, RowFair, World
    <2>5. Saw(world, m, m.tok.f)
      BY SMT, <2>3, <2>4 DEF Saw
    <2>6. Fair(world, m)
      BY <2>3, <2>4, <2>5, NoRotationSound, WorldType DEF Fair, Unrecorded, Spent
    <2>7. Carries(world, procs[p], m)
      BY <2>3, <2>6 DEF Carries, Unrecorded, Capturing
    <2> QED
      BY <2>2, <2>7, <1>CarryStep DEF m
  <1>JoinTok.
      ASSUME TokInv, Inv', NEW p \in Proc, Join(p) \/ InBackoff(p)
      PROVE  TokInv'
    <2> USE <1>JoinTok
    <2>1. Leave(p) /\ UNCHANGED <<provider, db, outbox>>
      BY DEF Join, InBackoff
    <2> QED
      BY <2>1, LeaveCarries, <1>CarryStep
  \* The outbox entry is captured in front of its flush.
  <1>CaptureCarries.
      ASSUME TokInv, NEW p \in Proc, procs[p].pc # "idle",
             procs' = [procs EXCEPT ![p].pc = "flush", ![p].entry = pending]
      PROVE  procs' = [procs EXCEPT ![p] = procs'[p]] /\ Carries(world, procs[p], procs'[p])
    <2> USE <1>CaptureCarries
    <2>1. procs \in [Proc -> Local] /\ Fair(world, procs[p]) /\ procs[p] \in Local
      BY DEF TokInv, Inv, TypeOK
    <2> DEFINE l == procs[p]
               m == procs'[p]
    <2>2. /\ procs' = [procs EXCEPT ![p] = m]
          /\ m = [l EXCEPT !.pc = "flush", !.entry = pending]
      BY <2>1
    <2>3. m.pc = "flush" /\ m.tok = l.tok /\ m.young = l.young /\ m.entry = pending
      BY <2>1, <2>2 DEF Local
    <2>4. Fair(world, m)
      BY <2>1, <2>3 DEF Fair, Saw, Unrecorded, TokInv, OutboxFair
    <2> QED
      BY <2>2, <2>3, <2>4 DEF Carries, Unrecorded
  <1>CheckRowTok.
      ASSUME TokInv, Inv', NEW p \in Proc, CheckRow(p)
      PROVE  TokInv'
    <2> USE <1>CheckRowTok
    <2>1. procs[p].pc # "idle" /\ UNCHANGED <<provider, db, outbox>>
      BY DEF CheckRow, At
    <2>2. procs' = [procs EXCEPT ![p] = procs'[p]] /\ Carries(world, procs[p], procs'[p])
      <3>1. CASE /\ Pending(procs[p].gen) # NoRotation
                 /\ procs' = [procs EXCEPT ![p].pc = "flush", ![p].entry = Pending(procs[p].gen)]
        BY <2>1, <3>1, <1>CaptureCarries DEF Pending
      <3>2. CASE Current(p) /\ AdoptRow(p, procs[p].tok)
        BY <2>1, <3>2, <1>AdoptRowCarries, HeldSpent
      <3>3. CASE Leave(p)
        BY <3>3, LeaveCarries
      <3> QED
        BY <3>1, <3>2, <3>3 DEF CheckRow
    <2> QED
      BY <2>1, <2>2, <1>CarryStep
  <1>AdoptPendingTok.
      ASSUME TokInv, Inv', NEW p \in Proc, AdoptPending(p)
      PROVE  TokInv'
    <2> USE <1>AdoptPendingTok
    <2>1. procs[p].pc # "idle" /\ UNCHANGED <<provider, db, outbox>>
      BY DEF AdoptPending, At
    <2>2. procs' = [procs EXCEPT ![p] = procs'[p]] /\ Carries(world, procs[p], procs'[p])
      <3>1. CASE Current(p) /\ procs[p].entry.tok \notin valid /\ AdoptRow(p, procs[p].entry.tok)
        BY <2>1, <3>1, <1>AdoptRowCarries
      <3>2. CASE Current(p) /\ AdoptRow(p, procs[p].tok)
        BY <2>1, <3>2, <1>AdoptRowCarries, HeldSpent
      <3>3. CASE Leave(p)
        BY <3>3, LeaveCarries
      <3> QED
        BY <3>1, <3>2, <3>3 DEF AdoptPending
    <2> QED
      BY <2>1, <2>2, <1>CarryStep
  <1>RefreshRowTok.
      ASSUME TokInv, Inv', NEW p \in Proc, RefreshRow(p)
      PROVE  TokInv'
    <2> USE <1>RefreshRowTok
    <2>1. procs[p].pc # "idle" /\ UNCHANGED <<provider, db, outbox>>
      BY DEF RefreshRow, At
    <2>2. procs' = [procs EXCEPT ![p] = procs'[p]] /\ Carries(world, procs[p], procs'[p])
      <3>1. CASE Pending(procs[p].gen) # NoRotation
        <4>1. Pending(procs[p].gen) = pending
          BY <3>1 DEF Pending
        <4>2. procs' = [procs EXCEPT ![p].pc = "flush", ![p].entry = pending]
          BY <3>1, <4>1 DEF RefreshRow
        <4> QED
          BY <2>1, <4>2, <1>CaptureCarries
      <3>2. CASE Pending(procs[p].gen) = NoRotation
        <4>1. JoinOrExchange(p, procs[p].tok)
          BY <3>2 DEF RefreshRow
        <4> QED
          BY <2>1, <4>1, HeldSpent, <1>JoinOrExchangeCarries
      <3> QED
        BY <3>1, <3>2
    <2> QED
      BY <2>1, <2>2, <1>CarryStep
  <1>MintedTok.
      ASSUME TokInv, Inv', NEW p \in Proc, Minted(p)
      PROVE  TokInv'
    <2> USE <1>MintedTok
    <2>1. procs[p].pc = "minted" /\ procs[p].pc # "idle" /\ UNCHANGED <<provider, db, outbox>>
      BY DEF Minted, At
    <2>2. procs[p].pc \in Unrecorded /\ "persist" \in Pc \ Capturing /\ "persist" # "saving"
      BY <2>1 DEF Unrecorded, Pc, Capturing
    <2>3. procs' = [procs EXCEPT ![p] = procs'[p]] /\ Carries(world, procs[p], procs'[p])
      BY <2>1, <2>2, GotoCarries, <1>SettleCarries, <1>ThrowCarries DEF Minted
    <2> QED
      BY <2>1, <2>3, <1>CarryStep
  <1>FinalTok.
      ASSUME TokInv, Inv', NEW p \in Proc, Final(p) \/ Failed(p) \/ Rejected(p) \/ Reread(p)
      PROVE  TokInv'
    <2> USE <1>FinalTok
    <2>1. procs[p].pc # "idle" /\ UNCHANGED <<provider, db, outbox>>
      BY DEF Final, Failed, Rejected, Reread, At
    <2>2. Settle(p) \/ Throw(p) \/ Goto(p, "reread") \/ Goto(p, "flag")
      BY DEF Final, Failed, Rejected, Reread
    <2>3. procs' = [procs EXCEPT ![p] = procs'[p]] /\ Carries(world, procs[p], procs'[p])
      BY <2>1, <2>2, QuietPcs, GotoCarries, <1>SettleCarries, <1>ThrowCarries
    <2> QED
      BY <2>1, <2>3, <1>CarryStep
  <1>LostCasTok.
      ASSUME TokInv, Inv', NEW p \in Proc, LostCas(p)
      PROVE  TokInv'
    <2> USE <1>LostCasTok
    <2>1. procs[p].pc = "persisted" /\ UNCHANGED <<provider, db, outbox>>
      BY DEF LostCas, At
    <2>2. procs \in [Proc -> Local] /\ Fair(world, procs[p]) /\ procs[p] \in Local
      BY DEF TokInv, Inv, TypeOK
    <2> DEFINE l == procs[p]
               m == procs'[p]
    <2>3. CASE Settle(p)
      BY <2>1, <2>3, <1>SettleCarries, <1>CarryStep
    <2>4. CASE procs' = [procs EXCEPT ![p].pc = "final", ![p].new = NoToken]
      <3>1. /\ procs' = [procs EXCEPT ![p] = m]
            /\ m = [l EXCEPT !.pc = "final", !.new = NoToken]
        BY <2>2, <2>4
      <3>2. m.pc = "final" /\ m.tok = l.tok /\ m.young = l.young /\ m.entry = l.entry
        BY <2>2, <3>1 DEF Local
      <3>3. Carries(world, l, m)
        BY <2>1, <2>2, <3>2 DEF Carries, Fair, Saw, Unrecorded, Capturing
      <3> QED
        BY <2>1, <3>1, <3>3, <1>CarryStep
    <2>5. CASE procs' = [procs EXCEPT ![p].result = "threw"]
      <3>1. /\ procs' = [procs EXCEPT ![p] = m]
            /\ m = [l EXCEPT !.result = "threw"]
        BY <2>2, <2>5
      <3>2. /\ m.pc = l.pc /\ m.tok = l.tok /\ m.new = l.new /\ m.young = l.young
            /\ m.entry = l.entry
        BY <2>2, <3>1 DEF Local
      <3>3. Carries(world, l, m)
        BY <2>1, <2>2, <3>2 DEF Carries, Fair, Saw, Unrecorded, Capturing
      <3> QED
        BY <2>1, <3>1, <3>3, <1>CarryStep
    <2> QED
      BY <2>3, <2>4, <2>5 DEF LostCas
  <1>RecordTok.
      ASSUME TokInv, Inv', NEW p \in Proc, procs[p].pc = "persisted",
             RecordPendingRotation(p, procs[p].tok, procs[p].new), Goto(p, "saving"),
             UNCHANGED <<provider, db>>
      PROVE  TokInv'
    <2> USE <1>RecordTok
    <2> DEFINE next == Recorded(procs[p].gen, procs[p].tok, procs[p].new)
    <2>1. /\ pending' = next /\ wal' = wal
          /\ walQueue' = Append(walQueue, WalOp("save", next, p))
      BY DEF RecordPendingRotation
    <2>2. SoundRotation(world, next) /\ next \in Rotation /\ next.tok = procs[p].new
      BY RecordSound DEF Unrecorded
    <2> HIDE DEF next
    <2>3. /\ world' = world /\ db' = db /\ ProcsSound /\ procs \in [Proc -> Local]
          /\ walQueue \in Seq(FileOp) /\ ProcsSound'
      BY WorldSame DEF TokInv, Inv, TypeOK, FileOp
    <2>4. RowFair(world, db)' /\ ValidKnown(world)'
      BY <2>3 DEF TokInv
    <2>5. OutboxFair'
      <3>1. WalOp("save", next, p) \in FileOp /\ WalOp("save", next, p).rot = next
        BY <2>2, WalOpRot
      <3>2. \A n \in 1..Len(walQueue) : SoundRotation(world, walQueue[n].rot)
        BY DEF TokInv, OutboxFair
      <3>3. \A n \in 1..Len(walQueue') : SoundRotation(world, walQueue'[n].rot)
        BY <2>1, <2>2, <2>3, <3>1, <3>2, QueueSound
      <3> QED
        BY <2>1, <2>2, <2>3, <3>3 DEF OutboxFair, TokInv
    <2>6. procs' = [procs EXCEPT ![p] = procs'[p]] /\ Carries(world, procs[p], procs'[p])
      <3>1. "saving" \in Pc \ Capturing /\ "saving" \notin Unrecorded /\ procs[p].pc \in Unrecorded
        BY DEF Pc, Capturing, Unrecorded
      <3> QED
        BY <3>1, GotoCarries
    <2>7. /\ \A q \in Proc \ {p} : procs'[q] = procs[q]
          /\ procs'[p].pc = "saving" /\ procs'[p].entry = procs[p].entry
          /\ procs'[p].new = procs[p].new
      BY <2>3 DEF Goto, Local
    <2>8. \A q \in Proc : Fair(world', procs'[q])
      BY <2>3, <2>6, <2>7 DEF Carries, TokInv
    <2>9. Private'
      <3>1. ASSUME NEW q \in Proc, procs'[q].pc \in Unrecorded
            PROVE  q # p /\ procs[q].pc \in Unrecorded /\ procs'[q].new = procs[q].new
        BY <2>7, <3>1 DEF Unrecorded
      <3>2. procs[p].pc \in Unrecorded
        BY DEF Unrecorded
      <3>3. ASSUME NEW q \in Proc
            PROVE  /\ procs'[q].entry = procs[q].entry /\ procs'[q].new = procs[q].new
                   /\ procs'[q].pc \in Unrecorded \cup {"saving"} =>
                         procs[q].pc \in Unrecorded \cup {"saving"}
        BY <2>7, <3>2
      <3>4. ASSUME NEW q \in Proc, procs'[q].pc \in Unrecorded
            PROVE  procs'[q].new # pending'.tok
        BY <2>1, <2>2, <3>1, <3>2, <3>4 DEF TokInv, Private
      <3> QED
        BY SMT, <3>1, <3>3, <3>4 DEF TokInv, Private
    <2>10. Captured'
      <3>1. ASSUME NEW q \in Proc, procs'[q].pc \in Capturing
            PROVE  Before(procs'[q].entry.tok, pending'.tok)
        <4>1. q # p /\ procs'[q] = procs[q] /\ procs[q].pc \in Capturing
          BY <2>7, <3>1 DEF Capturing
        <4>2. procs[q].entry \in Rotation /\ procs[q].entry # NoRotation
          BY <2>3, <4>1, ConstantTypes DEF ProcsSound, Sound, Capturing
        <4>3. Known(world, procs[q].entry.tok) /\ procs[q].entry.tok.i > 1
          BY <4>2 DEF TokInv, Fair, SoundRotation
        <4>4. procs[q].entry.tok # procs[p].new /\ procs[p].pc \in Unrecorded
          BY DEF TokInv, Private, Unrecorded
        <4> QED
          BY <2>1, <2>2, <4>1, <4>3, <4>4, NothingLater
      <3> QED
        BY <3>1 DEF Captured
    <2> QED
      BY <2>4, <2>5, <2>8, <2>9, <2>10 DEF TokInv
  <1>PersistThrewTok.
      ASSUME TokInv, Inv', NEW p \in Proc, PersistThrew(p)
      PROVE  TokInv'
    <2> USE <1>PersistThrewTok
    <2>1. procs[p].pc = "persisted" /\ procs[p].pc # "idle" /\ UNCHANGED <<provider, db>>
      BY DEF PersistThrew, At
    <2>2. CASE RecordPendingRotation(p, procs[p].tok, procs[p].new) /\ Goto(p, "saving")
      BY <2>1, <2>2, <1>RecordTok
    <2>3. CASE (Settle(p) \/ Throw(p)) /\ UNCHANGED outbox
      BY <2>1, <2>3, <1>SettleCarries, <1>ThrowCarries, <1>CarryStep
    <2> QED
      BY <2>2, <2>3 DEF PersistThrew
  <1>PersistedTok.
      ASSUME TokInv, Inv', NEW p \in Proc, Persisted(p)
      PROVE  TokInv'
    <2> USE <1>PersistedTok
    <2>1. procs[p].pc # "idle" /\ UNCHANGED provider /\ db' = db /\ Goto(p, "final")
      BY DEF Persisted, At
    <2>2. procs' = [procs EXCEPT ![p] = procs'[p]] /\ Carries(world, procs[p], procs'[p])
      BY <2>1, QuietPcs, GotoCarries
    <2>3. OutboxFair' /\ SameEntry
      BY <2>1, ClearFair, OutboxSame DEF Persisted
    <2>4. RowFair(world, db')
      BY <2>1 DEF TokInv
    <2> QED
      BY <2>1, <2>2, <2>3, <2>4, ProcessStep
  <1>FlushedCarries.
      ASSUME TokInv, NEW p \in Proc, procs[p].pc # "idle", NEW r, Flushed(p, r)
      PROVE  procs' = [procs EXCEPT ![p] = procs'[p]] /\ Carries(world, procs[p], procs'[p])
    <2> USE <1>FlushedCarries
    <2>1. procs \in [Proc -> Local] /\ Fair(world, procs[p]) /\ procs[p] \in Local
      BY DEF TokInv, Inv, TypeOK
    <2> DEFINE l == procs[p]
               m == procs'[p]
               entry == IF pending.gen = procs[p].gen THEN pending ELSE procs[p].entry
    <2>2. /\ procs' = [procs EXCEPT ![p] = m]
          /\ m = [l EXCEPT !.pc = "adopt", !.result = r, !.entry = entry]
      BY <2>1 DEF Flushed
    <2>3. entry \in {l.entry, pending} /\ SoundRotation(world, entry)
      BY <2>1 DEF TokInv, OutboxFair, Fair
    <2> HIDE DEF entry
    <2>4. m.pc = "adopt" /\ m.tok = l.tok /\ m.young = l.young /\ m.entry = entry
      BY <2>1, <2>2 DEF Local
    <2>5. Fair(world, m)
      BY <2>1, <2>3, <2>4 DEF Fair, Saw, Unrecorded
    <2> QED
      BY <2>2, <2>3, <2>4, <2>5 DEF Carries, Unrecorded, Capturing
  <1>RebasedFair.
      ASSUME TokInv, UNCHANGED provider, NEW e \in Rotation, Survivor(e),
             SoundRotation(world, Rebased(e)), Rebased(e) \in Rotation,
             pending' = Rebased(e), wal' = wal, NEW owner \in Proc \cup {NoProc},
             walQueue' = Append(RebasedQueue(e), WalOp("save", Rebased(e), owner))
      PROVE  OutboxFair'
    <2> USE <1>RebasedFair
    <2>1. world' = world /\ walQueue \in Seq(FileOp) /\ Inv
      BY WorldSame DEF TokInv, Inv, TypeOK, FileOp
    <2>2. /\ WalOp("save", Rebased(e), owner) \in FileOp
          /\ WalOp("save", Rebased(e), owner).rot = Rebased(e)
      BY WalOpRot
    <2>3. /\ \A n \in 1..Len(walQueue) : SoundRotation(world, walQueue[n].rot)
          /\ SoundRotation(world, wal)
      BY DEF TokInv, OutboxFair
    <2>4. /\ RebasedQueue(e) \in Seq(FileOp) /\ Len(RebasedQueue(e)) = Len(walQueue)
          /\ DOMAIN walQueue = 1..Len(walQueue)
          /\ \A n \in 1..Len(walQueue) : walQueue[n] \in FileOp
      BY <2>1, RebasedType, SeqShape, SeqElement
    <2>5. ASSUME NEW n \in 1..Len(walQueue)
          PROVE  RebasedQueue(e)[n].rot \in {walQueue[n].rot, Rebased(e)}
      <3>1. RebasedQueue(e)[n] = IF walQueue[n].rot = pending
                                 THEN [walQueue[n] EXCEPT !.rot = Rebased(e)] ELSE walQueue[n]
        BY <2>4 DEF RebasedQueue
      <3> QED
        BY <2>4, <3>1 DEF FileOp
    <2>6. \A n \in 1..Len(RebasedQueue(e)) : SoundRotation(world, RebasedQueue(e)[n].rot)
      BY <2>3, <2>4, <2>5
    <2>7. \A n \in 1..Len(walQueue') : SoundRotation(world, walQueue'[n].rot)
      BY <2>2, <2>4, <2>6, QueueSound
    <2> QED
      BY <2>1, <2>3, <2>7 DEF OutboxFair
  <1>FlushDoneTok.
      ASSUME TokInv, Inv', NEW p \in Proc, FlushDone(p)
      PROVE  TokInv'
    <2> USE <1>FlushDoneTok
    <2> DEFINE e == procs[p].entry
               r == procs[p].result
               owner == IF p \in Request THEN p ELSE NoProc
    <2>1. /\ procs[p].pc = "flushed" /\ procs[p].pc # "idle"
          /\ UNCHANGED provider /\ db' = db /\ wal' = wal
      BY DEF FlushDone, At
    <2>2. RowFair(world, db') /\ owner \in Proc \cup {NoProc}
      BY <2>1 DEF TokInv
    <2>3. ASSUME IF p \in Request THEN Goto(p, "flushing") ELSE Leave(p)
          PROVE  procs' = [procs EXCEPT ![p] = procs'[p]] /\ Carries(world, procs[p], procs'[p])
      <3>1. "flushing" \in Pc \ Capturing /\ "flushing" \notin Unrecorded /\ "flushing" # "saving"
        BY DEF Pc, Capturing, Unrecorded
      <3> QED
        BY <2>1, <2>3, <3>1, GotoCarries, LeaveCarries
    <2>4. CASE /\ pending' = NoRotation
               /\ walQueue' = Append(walQueue, WalOp("remove", NoRotation, owner))
               /\ IF p \in Request THEN Goto(p, "flushing") ELSE Leave(p)
      <3>1. OutboxFair'
        BY <2>1, <2>2, <2>4, DropFair
      <3> QED
        BY <2>1, <2>2, <2>3, <2>4, <3>1, ProcessStep DEF SameEntry
    <2>5. CASE /\ r = "ok" /\ Survivor(e)
               /\ pending' = Rebased(e)
               /\ walQueue' = Append(RebasedQueue(e), WalOp("save", Rebased(e), owner))
               /\ IF p \in Request THEN Goto(p, "flushing") ELSE Leave(p)
      <3>1. /\ SoundRotation(world, Rebased(e)) /\ Rebased(e) \in Rotation
            /\ Rebased(e).tok = pending.tok /\ Rebased(e).gen = pending.gen
        BY <2>1, <2>5, RebasedSound
      <3>2. e \in Rotation
        BY <2>1 DEF TokInv, Inv, ProcsSound, Sound
      <3>3. OutboxFair'
        BY <2>1, <2>2, <2>5, <3>1, <3>2, <1>RebasedFair
      <3> QED
        BY <2>1, <2>2, <2>3, <2>5, <3>1, <3>3, ProcessStep DEF SameEntry
    <2>6. CASE /\ IF p \in Request THEN Flushed(p, r) ELSE Leave(p)
               /\ UNCHANGED <<pending, walQueue>>
      <3>1. procs' = [procs EXCEPT ![p] = procs'[p]] /\ Carries(world, procs[p], procs'[p])
        BY <2>1, <2>6, <1>FlushedCarries, LeaveCarries
      <3>2. UNCHANGED outbox
        BY <2>1, <2>6 DEF outbox
      <3> QED
        BY <2>1, <2>2, <3>1, <3>2, OutboxSame, ProcessStep
    <2> QED
      BY <2>4, <2>5, <2>6 DEF FlushDone, RebasedQueue
  <1>WalWriteTok.
      ASSUME TokInv, Inv', NEW ok \in BOOLEAN, WalWrite(ok)
      PROVE  TokInv'
    <2> USE <1>WalWriteTok
    <2> DEFINE o == Head(walQueue)
    <2>1. /\ walQueue # <<>> /\ walQueue' = Tail(walQueue) /\ walQueue \in Seq(FileOp)
          /\ wal' \in {wal, o.rot}
          /\ UNCHANGED provider /\ db' = db /\ pending' = pending
      BY DEF WalWrite, TokInv, Inv, TypeOK, FileOp
    <2>2. /\ o \in FileOp /\ o = walQueue[1] /\ Len(walQueue) \in Nat \ {0}
          /\ Len(Tail(walQueue)) = Len(walQueue) - 1
          /\ \A n \in 1..(Len(walQueue) - 1) : Tail(walQueue)[n] = walQueue[n + 1]
      BY SMT, <2>1, HeadAndTail, SeqElement, SeqShape, EmptyOrNot
    <2>3. OutboxFair' /\ SameEntry
      <3>1. /\ \A n \in 1..Len(walQueue) : SoundRotation(world, walQueue[n].rot)
            /\ SoundRotation(world, wal) /\ SoundRotation(world, pending)
        BY DEF TokInv, OutboxFair
      <3>2. \A n \in 1..Len(walQueue') : SoundRotation(world, walQueue'[n].rot)
        BY SMT, <2>1, <2>2, <3>1
      <3>3. SoundRotation(world, wal')
        BY SMT, <2>1, <2>2, <3>1
      <3>4. world' = world
        BY <2>1, WorldSame
      <3> QED
        BY <2>1, <3>1, <3>2, <3>3, <3>4 DEF OutboxFair, SameEntry
    <2>4. RowFair(world, db')
      BY <2>1 DEF TokInv
    <2>5. CASE o.owner = NoProc
      <3>1. procs' = procs
        BY <2>5 DEF WalWrite
      <3>2. \A q \in Proc : Carries(world, procs[q], procs'[q])
        BY <3>1, CarriesSame DEF TokInv
      <3> QED
        BY <2>1, <2>3, <2>4, <3>2, CoreStep
    <2>6. CASE o.owner # NoProc
      <3>1. o.owner \in Proc /\ procs[o.owner].pc \in {"saving", "flushing"}
        BY SMT, <2>2, <2>6 DEF OwnersWait, Awaiting, FileOp, TokInv, Inv
      <3>2. procs[o.owner].pc # "idle"
        BY <3>1
      <3>3. /\ procs' = [procs EXCEPT ![o.owner] = procs'[o.owner]]
            /\ Carries(world, procs[o.owner], procs'[o.owner])
        <4>1. CASE At(o.owner, "flushing")
          <5>1. Flushed(o.owner, IF ok THEN procs[o.owner].result ELSE "threw")
            BY <2>6, <4>1 DEF WalWrite
          <5> QED
            BY <3>1, <3>2, <5>1, <1>FlushedCarries
        <4>2. CASE ~At(o.owner, "flushing")
          <5>1. Saved(o.owner, ok)
            BY <2>6, <4>2 DEF WalWrite
          <5> QED
            BY <3>1, <3>2, <5>1, QuietPcs, GotoCarries, <1>ThrowCarries DEF Saved
        <4> QED
          BY <4>1, <4>2
      <3> QED
        BY <2>1, <2>3, <2>4, <3>1, <3>3, ProcessStep
    <2> QED
      BY <2>5, <2>6
  <1>TimeTok.
      ASSUME TokInv, Inv',
             (\E t \in Token : Expire(t)) \/ (\E f \in Login : Revoke(f))
      PROVE  TokInv'
    <2> USE <1>TimeTok
    <2>1. /\ world \in World /\ world' \in World /\ ValidKnown(world)
          /\ world.logins = logins /\ world.live = live /\ world.valid = valid
          /\ world'.logins = logins' /\ world'.live = live' /\ world'.valid = valid'
      BY WorldType, WorldTypeNext DEF TokInv
    <2>2. UNCHANGED <<logins, db, outbox, procs>>
      BY DEF Expire, Revoke
    <2>3. /\ Ages(world, world') /\ ValidKnown(world')
          /\ \A p \in Proc : procs[p].pc # "idle" => procs[p].young \subseteq valid'
      <3>1. ASSUME NEW t \in Token, Expire(t)
            PROVE  /\ Ages(world, world') /\ ValidKnown(world')
                   /\ \A p \in Proc : procs[p].pc # "idle" => procs[p].young \subseteq valid'
        <4>1. /\ valid' = valid \ {t} /\ live' = live /\ logins' = logins
              /\ \A p \in Proc : t \notin procs[p].young
          BY <3>1 DEF Expire
        <4>2. \A p \in Proc : procs[p].pc # "idle" => procs[p].young \subseteq valid
          BY HeldSpent
        <4>3. Ages(world, world') /\ ValidKnown(world')
          BY <2>1, <4>1, <1>ExpireAges
        <4> QED
          BY <4>1, <4>2, <4>3
      <3>2. ASSUME NEW f \in Login, Revoke(f)
            PROVE  /\ Ages(world, world') /\ ValidKnown(world')
                   /\ \A p \in Proc : procs[p].pc # "idle" => procs[p].young \subseteq valid'
        <4>1. live' = [live EXCEPT ![f] = 0] /\ logins' = logins /\ valid' = valid
          BY <3>2 DEF Revoke
        <4>2. \A p \in Proc : procs[p].pc # "idle" => procs[p].young \subseteq valid
          BY HeldSpent
        <4>3. 0 \in 0..MaxRotation
          BY SMT, RotationAssumption
        <4>4. Ages(world, world') /\ ValidKnown(world')
          BY <2>1, <4>1, <4>3, <1>LiveAges
        <4> QED
          BY <4>1, <4>2, <4>4
      <3> QED
        BY <3>1, <3>2
    <2>4. ASSUME NEW q \in Proc
          PROVE  Carries(world', procs[q], procs'[q])
      <3>1. Fair(world', procs[q])
        BY <2>1, <2>2, <2>3, <1>AgesFair DEF TokInv
      <3> QED
        BY <2>2, <3>1, CarriesSame
    <2>5. RowFair(world', db')
      BY <2>1, <2>2, <2>3 DEF TokInv, RowFair, Ages, Known
    <2>6. OutboxFair' /\ SameEntry
      BY <2>2, <2>3, OutboxAges
    <2> QED
      BY <2>3, <2>4, <2>5, <2>6, WorldStep
  <1>RowAges.
      ASSUME TokInv, Ages(world, world'), world'.logins = world.logins, db' = db
      PROVE  RowFair(world', db')
    <2> USE <1>RowAges
    <2>1. RowFair(world, db)
      BY DEF TokInv
    <2>2. Known(world, db.tok) => Known(world', db.tok)
      BY DEF Ages, Known
    <2> QED
      BY <2>1, <2>2 DEF RowFair
  <1>MintTok.
      ASSUME TokInv, Inv', NEW p \in Proc, NEW t \in Token, NEW next \in Token,
             procs[p].pc = "exchange", procs[p].tok = t, Mints(p, t, next),
             logins' = logins, db' = db, UNCHANGED outbox
      PROVE  TokInv'
    <2> USE <1>MintTok
    <2>a. /\ world \in World /\ world' \in World /\ ValidKnown(world)
          /\ world.logins = logins /\ world.live = live /\ world.valid = valid
          /\ world'.logins = logins' /\ world'.live = live' /\ world'.valid = valid'
      BY WorldType, WorldTypeNext DEF TokInv
    <2>b. Spent(world, t)
      BY HeldSpent
    <2>c. procs \in [Proc -> Local] /\ ProcsSound
      BY DEF TokInv, Inv, TypeOK
    <2>d. pending' = pending /\ outbox' = outbox
      BY DEF outbox
    <2>e. t.f \in Login /\ t.i \in 1..MaxRotation
      BY DEF Token
    <2>1. world'.valid = world.valid \cup {next} /\ world'.logins = world.logins
      BY <2>a DEF Mints
    <2>2. /\ Ages(world, world') /\ ValidKnown(world') /\ Known(world', next)
          /\ ~Known(world, next)
      <3>1. /\ world'.live = [world.live EXCEPT ![t.f] = next.i] /\ world.live[t.f] = t.i
            /\ next = [f |-> t.f, i |-> t.i + 1]
        BY <2>a DEF Mints
      <3> QED
        BY SMT, <2>a, <2>b, <2>1, <3>1, <1>MintAges
    <2>3. Witness(next) \in [Proc -> Local]
      <3>1. ASSUME NEW q \in Proc
            PROVE  Witness(next)[q] \in Local
        <4>1. Idle \in Local /\ procs[q] \in Local
          BY <2>c, IdleSound DEF Sound
        <4>2. [procs[q] EXCEPT !.young = @ \cup {next}] \in Local
          BY <4>1 DEF Local
        <4> QED
          BY <4>1, <4>2 DEF Witness
      <3> QED
        BY <3>1 DEF Witness
    <2>4. /\ procs'[p].pc = "minted" /\ procs'[p].new = next
          /\ procs'[p].tok = t /\ procs'[p].entry = procs[p].entry
          /\ procs'[p].young = procs[p].young \cup {next}
      <3>1. /\ Witness(next)[p].tok = t /\ Witness(next)[p].entry = procs[p].entry
            /\ Witness(next)[p].young = procs[p].young \cup {next}
        BY WitnessHolds
      <3>2. procs'[p] = [Witness(next)[p] EXCEPT !.pc = "minted", !.new = next]
        BY <2>3 DEF Mints
      <3> QED
        BY SMT, <2>3, <3>1, <3>2 DEF Local
    <2>5. ASSUME NEW q \in Proc, q # p
          PROVE  /\ procs[q].pc = "idle" => procs'[q] = Idle
                 /\ procs[q].pc # "idle" =>
                      /\ procs'[q].pc = procs[q].pc /\ procs'[q].tok = procs[q].tok
                      /\ procs'[q].new = procs[q].new /\ procs'[q].entry = procs[q].entry
                      /\ procs'[q].result = procs[q].result
                      /\ procs'[q].young = procs[q].young \cup {next}
      <3>1. procs'[q] = Witness(next)[q]
        BY <2>3, <2>5 DEF Mints
      <3> QED
        BY SMT, <3>1, WitnessHolds
    <2>6. ASSUME NEW q \in Proc, q # p
          PROVE  Fair(world', procs'[q])
      <3>1. CASE procs[q].pc = "idle"
        BY <2>5, <2>6, <3>1, IdleFair
      <3>2. CASE procs[q].pc # "idle"
        <4>1. Fair(world, procs[q])
          BY DEF TokInv
        <4> QED
          BY SMT, <2>a, <2>1, <2>2, <2>5, <2>6, <3>2, <4>1, SeesMore
      <3> QED
        BY <3>1, <3>2
    <2>7. Fair(world', procs'[p])
      <3>1. Fair(world, procs[p])
        BY DEF TokInv
      <3>2. SoundRotation(world', procs'[p].entry)
        BY <2>2, <2>4, <3>1, AgesRotation DEF Fair
      <3>3. Spent(world', t)
        BY <2>b, <2>2 DEF Ages
      <3>4. procs'[p].young \subseteq valid' /\ Saw(world', procs'[p], t.f)
        BY <2>a, <2>1, <2>4, <3>1 DEF Fair, Saw
      <3>5. /\ "minted" # "flushed" /\ next \in procs'[p].young
            /\ next = [f |-> t.f, i |-> t.i + 1]
        BY <2>4 DEF Mints
      <3> QED
        BY <2>a, <2>4, <3>2, <3>3, <3>4, <3>5 DEF Fair
    <2>8. OutboxFair' /\ pending' = pending
      BY <2>d, <2>2, OutboxAges
    <2>9. /\ next # pending.tok
          /\ \A q \in Proc : /\ procs[q].entry.tok # next
                             /\ procs[q].pc \in Unrecorded \cup {"saving"} => procs[q].new # next
      <3>1. next # NoRotation.tok
        BY SMT, ConstantTypes DEF NoRotation, NoToken, Token, Login
      <3>2. \A r : SoundRotation(world, r) => r.tok # next
        BY <2>2, <3>1 DEF SoundRotation
      <3>3. ASSUME NEW q \in Proc, procs[q].pc \in Unrecorded \cup {"saving"}
            PROVE  procs[q].new # next
        <4>1. Fair(world, procs[q]) /\ procs[q].pc # "idle"
          BY <3>3 DEF TokInv, Unrecorded
        <4>2. procs[q].new \in world.valid
          BY <3>3, <4>1 DEF Fair
        <4> QED
          BY <2>a, <2>2, <4>2 DEF ValidKnown
      <3>4. ASSUME NEW q \in Proc
            PROVE  procs[q].entry.tok # next
        BY <3>2 DEF TokInv, Fair
      <3>5. next # pending.tok
        BY <3>2 DEF TokInv, OutboxFair
      <3> QED
        BY <3>3, <3>4, <3>5
    <2>10. ASSUME NEW q \in Proc
           PROVE  procs'[q].entry \in {procs[q].entry, NoRotation}
      BY SMT, <2>4, <2>5 DEF Idle
    <2>11. ASSUME NEW q \in Proc, q # p, procs'[q].pc # "idle"
           PROVE  procs'[q].pc = procs[q].pc /\ procs'[q].new = procs[q].new /\ procs'[q].entry = procs[q].entry
      BY SMT, <2>5, <2>11 DEF Idle
    <2>12. Private'
      <3>1. ASSUME NEW q \in Proc, procs'[q].pc \in Unrecorded
            PROVE  /\ procs'[q].new # NoRotation.tok
                   /\ q # p => procs[q].pc \in Unrecorded /\ procs'[q].new = procs[q].new
        <4>1. q # p => procs[q].pc \in Unrecorded /\ procs'[q].new = procs[q].new
          BY <2>11, <3>1 DEF Unrecorded
        <4>2. next # NoRotation.tok
          BY SMT, <2>1, ConstantTypes DEF NoRotation, NoToken, Token, Login
        <4> QED
          BY <2>c, <2>4, <4>1, <4>2, NoTokenUnheld DEF ProcsSound
      <3>2. ASSUME NEW q \in Proc, procs'[q].pc \in Unrecorded \cup {"saving"}, q # p
            PROVE  procs[q].pc \in Unrecorded \cup {"saving"} /\ procs'[q].new = procs[q].new
        BY <2>11, <3>2 DEF Unrecorded
      <3>3. Private
        BY DEF TokInv
      <3>4. ASSUME NEW q \in Proc, procs'[q].pc \in Unrecorded
            PROVE  procs'[q].new # pending'.tok
        BY <2>4, <2>8, <2>9, <3>1, <3>3, <3>4 DEF Private
      <3>5. ASSUME NEW q \in Proc, procs'[q].pc \in Unrecorded, NEW r \in Proc
            PROVE  procs'[r].entry.tok # procs'[q].new
        BY SMT, <2>4, <2>9, <2>10, <3>1, <3>3, <3>5 DEF Private
      <3>6. ASSUME NEW q \in Proc, procs'[q].pc \in Unrecorded, NEW r \in Proc, r # q,
                   procs'[r].pc \in Unrecorded \cup {"saving"}
            PROVE  procs'[r].new # procs'[q].new
        BY SMT, <2>4, <2>9, <3>1, <3>2, <3>3, <3>6 DEF Private
      <3> QED
        BY <3>4, <3>5, <3>6 DEF Private
    <2>13. Captured'
      <3>1. ASSUME NEW q \in Proc, procs'[q].pc \in Capturing
            PROVE  procs[q].pc \in Capturing /\ procs'[q].entry = procs[q].entry
        BY <2>4, <2>11, <3>1 DEF Capturing
      <3> QED
        BY <2>8, <3>1 DEF TokInv, Captured
    <2>14. RowFair(world', db')
      BY <2>a, <2>2, <1>RowAges
    <2> QED
      BY <2>2, <2>6, <2>7, <2>8, <2>12, <2>13, <2>14 DEF TokInv
  <1>LostTok.
      ASSUME TokInv, Inv', NEW p \in Proc, NEW t \in Token,
             procs[p].pc = "exchange", procs[p].tok = t, live[t.f] = t.i, t.i < MaxRotation,
             Loses(p, t), Goto(p, "failed"), valid' = valid,
             logins' = logins, db' = db, UNCHANGED outbox
      PROVE  TokInv'
    <2> USE <1>LostTok
    <2>a. /\ world \in World /\ world' \in World /\ ValidKnown(world)
          /\ world.logins = logins /\ world.live = live /\ world.valid = valid
          /\ world'.logins = logins' /\ world'.live = live' /\ world'.valid = valid'
      BY WorldType, WorldTypeNext DEF TokInv
    <2>b. Spent(world, t)
      BY HeldSpent
    <2>c. procs \in [Proc -> Local] /\ ProcsSound
      BY DEF TokInv, Inv, TypeOK
    <2>d. pending' = pending /\ outbox' = outbox
      BY DEF outbox
    <2>e. t.f \in Login /\ t.i \in 1..MaxRotation
      BY DEF Token
    <2>1. t.i + 1 \in 0..MaxRotation /\ live[t.f] # 0 /\ live[t.f] <= t.i + 1
      BY SMT, <2>e, RotationAssumption
    <2>2. Ages(world, world') /\ ValidKnown(world')
      <3>1. /\ world'.live = [world.live EXCEPT ![t.f] = t.i + 1] /\ world.live[t.f] = live[t.f]
            /\ world'.logins = world.logins /\ world'.valid = world.valid
        BY <2>a DEF Loses
      <3> QED
        BY SMT, <2>a, <2>e, <2>1, <3>1, <1>LiveAges
    <2>3. \A q \in Proc : Fair(world', procs[q])
      <3>1. ASSUME NEW q \in Proc
            PROVE  procs[q].pc # "idle" => procs[q].young \subseteq valid'
        BY HeldSpent
      <3>2. ASSUME NEW q \in Proc
            PROVE  Fair(world, procs[q])
        BY DEF TokInv
      <3>3. world'.logins = world.logins
        BY <2>a
      <3> QED
        BY <2>a, <2>2, <3>1, <3>2, <3>3, <1>AgesFair
    <2>4. ASSUME NEW q \in Proc
          PROVE  Carries(world', procs[q], procs'[q])
      <3>1. CASE q = p
        <4>1. procs'[p] = [procs[p] EXCEPT !.pc = "failed"]
          BY <2>c DEF Goto
        <4>2. /\ procs'[p].pc = "failed" /\ procs'[p].tok = t
              /\ procs'[p].entry = procs[p].entry /\ procs'[p].young = procs[p].young
          BY SMT, <2>c, <4>1 DEF Local
        <4>3. "failed" \notin Unrecorded \cup {"saving"} /\ "failed" \notin Capturing
              /\ "failed" # "flushed" /\ "failed" # "saving"
          BY DEF Unrecorded, Capturing
        <4>4. Fair(world', procs'[p])
          BY <2>d, <2>3, <4>2, <4>3 DEF Fair, Saw
        <4> QED
          BY <3>1, <4>2, <4>3, <4>4 DEF Carries
      <3>2. CASE q # p
        <4>1. procs'[q] = procs[q]
          BY <2>c, <3>2 DEF Goto
        <4> QED
          BY <2>3, <4>1, CarriesSame
      <3> QED
        BY <3>1, <3>2
    <2>5. OutboxFair' /\ SameEntry
      BY <2>d, <2>2, OutboxAges
    <2>6. RowFair(world', db')
      BY <2>a, <2>2, <1>RowAges
    <2> QED
      BY <2>2, <2>4, <2>5, <2>6, WorldStep
  <1>ExchangeTok.
      ASSUME TokInv, Inv', NEW p \in Proc, Exchange(p)
      PROVE  TokInv'
    <2> USE <1>ExchangeTok
    <2> DEFINE t == procs[p].tok
               next == [f |-> t.f, i |-> t.i + 1]
    <2>2. procs[p].pc = "exchange" /\ logins' = logins /\ db' = db /\ UNCHANGED outbox
      BY DEF Exchange, At
    <2>3. t \in Token
      BY <2>2, HeldSpent DEF Spent, Known
    <2>5. CASE /\ live[t.f] = t.i /\ t.i < MaxRotation
               /\ live' = [live EXCEPT ![t.f] = next.i]
               /\ valid' = valid \cup {next}
               /\ procs' = [Witness(next) EXCEPT ![p].pc = "minted", ![p].new = next]
      <3>1. next \in Token
        BY SMT, <2>3, <2>5, RotationAssumption DEF Token
      <3> QED
        BY <2>2, <2>3, <2>5, <3>1, <1>MintTok DEF Mints
    <2>6. CASE /\ live[t.f] = t.i /\ t.i < MaxRotation
               /\ live' = [live EXCEPT ![t.f] = next.i]
               /\ Goto(p, "failed")
               /\ UNCHANGED valid
      BY <2>2, <2>3, <2>6, <1>LostTok DEF Loses
    <2>7. CASE (Goto(p, "rejected") \/ Goto(p, "failed")) /\ UNCHANGED <<live, valid>>
      <3>1. UNCHANGED <<provider, db, outbox>>
        BY <2>2, <2>7 DEF provider
      <3>2. procs' = [procs EXCEPT ![p] = procs'[p]] /\ Carries(world, procs[p], procs'[p])
        BY <2>2, <2>7, GotoCarries DEF Pc, Capturing, Unrecorded
      <3> QED
        BY <3>1, <3>2, <1>CarryStep
    <2> QED
      BY <2>5, <2>6, <2>7 DEF Exchange
  <1>ClearTok.
      ASSUME TokInv, Inv', ReauthClear \/ OperatorClear \/ BackoffEnds \/ DeleteAccount
      PROVE  TokInv'
    <2> USE <1>ClearTok
    <2>1. UNCHANGED provider /\ procs' = procs /\ UNCHANGED outbox /\ db' \in {db, NoRow}
      BY DEF ReauthClear, OperatorClear, BackoffEnds, DeleteAccount
    <2>2. RowFair(world, db')
      BY SMT, <2>1 DEF TokInv, RowFair, NoRow
    <2> QED
      BY <2>1, <2>2, OutboxSame, QuietTok
  <1>CleanUpTok.
      ASSUME TokInv, Inv', CleanUp
      PROVE  TokInv'
    <2> USE <1>CleanUpTok
    <2>1. /\ UNCHANGED provider /\ procs' = procs /\ db' = db
          /\ ClearPendingRotation(pending.gen)
      BY DEF CleanUp
    <2>2. RowFair(world, db')
      BY <2>1 DEF TokInv
    <2>3. OutboxFair' /\ SameEntry
      BY <2>1, ClearFair
    <2> QED
      BY <2>1, <2>2, <2>3, QuietTok
  \* The file becomes the outbox.
  <1>RestartTok.
      ASSUME TokInv, Inv', Restart
      PROVE  TokInv'
    <2> USE <1>RestartTok
    <2>1. /\ procs' = [p \in Proc |-> Idle] /\ walQueue' = <<>> /\ pending' = wal
          /\ wal' = wal /\ db' = db /\ UNCHANGED provider
      BY DEF Restart
    <2>2. world' = world
      BY <2>1, WorldSame
    <2>3. \A p \in Proc : procs'[p] = Idle /\ Fair(world', procs'[p])
      BY <2>1, IdleFair
    <2>4. Idle.pc \notin Unrecorded /\ Idle.pc \notin Capturing
      BY DEF Idle, Unrecorded, Capturing
    <2>5. Private' /\ Captured'
      BY <2>3, <2>4 DEF Private, Captured
    <2>6. OutboxFair'
      <3>1. Len(walQueue') = 0 /\ 1..0 = {}
        BY SMT, <2>1
      <3> QED
        BY <2>1, <2>2, <3>1 DEF TokInv, OutboxFair
    <2>7. ValidKnown(world') /\ RowFair(world', db')
      BY <2>1, <2>2 DEF TokInv
    <2> QED
      BY <2>3, <2>5, <2>6, <2>7 DEF TokInv
  <1>RefreshTok.
      ASSUME TokInv, Inv', NEW p \in Proc, Refresh(p)
      PROVE  TokInv' /\ Forward
    <2> USE <1>RefreshTok
    <2>1. CASE Persist(p)
      <3>1. Fair(world, procs[p]) /\ procs[p].pc = "persist"
        BY <2>1 DEF TokInv, Persist, At
      <3>2. procs[p].tok \in Token /\ procs[p].new = [f |-> procs[p].tok.f, i |-> procs[p].tok.i + 1]
        BY <3>1 DEF Fair, Unrecorded, Spent, Known
      <3>3. Before(procs[p].tok, procs[p].new)
        BY SMT, <3>2, RotationAssumption DEF Before, Token
      <3> QED
        BY <2>1, <3>3, PersistTok DEF Forward
    <2>2. CASE FlushWrite(p)
      BY <2>2, FlushWriteTok DEF Forward
    <2>3. CASE Flag(p)
      BY <2>3, QuarantineTok DEF Forward
    <2>4. CASE Exchange(p) \/ Minted(p) \/ Persisted(p) \/ LostCas(p) \/ PersistThrew(p)
               \/ Final(p) \/ Failed(p) \/ Rejected(p) \/ FlushDone(p)
      <3>1. db' = db
        BY <2>4 DEF Exchange, Minted, Persisted, LostCas, PersistThrew, Final, Failed,
           Rejected, FlushDone
      <3>2. TokInv'
        BY <2>4, <1>ExchangeTok, <1>MintedTok, <1>PersistedTok, <1>LostCasTok, <1>PersistThrewTok,
           <1>FinalTok, <1>FlushDoneTok
      <3> QED
        BY <3>1, <3>2 DEF Forward
    <2> QED
      BY <2>1, <2>2, <2>3, <2>4 DEF Refresh
  <1>RequestTok.
      ASSUME TokInv, Inv', NEW p \in Request, RequestStep(p)
      PROVE  TokInv' /\ Forward
    <2> USE <1>RequestTok
    <2>1. p \in Proc
      BY DEF Proc
    <2>2. CASE Start(p)
      <3>1. "begin" \in {"begin", "selected"}
        OBVIOUS
      <3> QED
        BY <2>1, <2>2, <3>1, <1>BeginTok DEF Start, Forward
    <2>3. CASE Join(p) \/ InBackoff(p) \/ CheckRow(p) \/ AdoptPending(p) \/ Reread(p)
      <3>1. db' = db
        BY <2>3 DEF Join, InBackoff, CheckRow, AdoptPending, Reread
      <3> QED
        BY <2>1, <2>3, <3>1, <1>JoinTok, <1>CheckRowTok, <1>AdoptPendingTok, <1>FinalTok DEF Forward
    <2>4. CASE Pause(p)
      BY <2>1, <2>4, QuarantineTok DEF Forward
    <2> QED
      BY <2>2, <2>3, <2>4 DEF RequestStep
  <1>SchedulerTok.
      ASSUME TokInv, Inv', NEW p \in Scheduler, SelectRow(p) \/ RefreshRow(p)
      PROVE  TokInv' /\ Forward
    <2> USE <1>SchedulerTok
    <2>1. p \in Proc
      BY DEF Proc
    <2>2. CASE SelectRow(p)
      <3>1. "selected" \in {"begin", "selected"}
        OBVIOUS
      <3> QED
        BY <2>1, <2>2, <3>1, <1>BeginTok DEF SelectRow, Forward
    <2>3. CASE RefreshRow(p)
      <3>1. db' = db
        BY <2>3 DEF RefreshRow
      <3> QED
        BY <2>1, <2>3, <3>1, <1>RefreshRowTok DEF Forward
    <2> QED
      BY <2>2, <2>3
  <1>HandlersTok.
      ASSUME TokInv, Inv', Handlers \/ BackoffEnds
      PROVE  TokInv' /\ Forward
    <2> USE <1>HandlersTok
    <2>1. CASE Reauthenticate \/ RecreateAccount
      BY <2>1, NewRowTok DEF Forward
    <2>2. CASE ReauthResume
      BY <2>2, ReauthResumeTok DEF Forward
    <2>3. CASE CleanUp
      BY <2>3, <1>CleanUpTok DEF CleanUp, Forward
    <2>4. CASE ReauthClear \/ OperatorClear \/ BackoffEnds \/ DeleteAccount
      <3>1. db' = db \/ db' = NoRow
        BY <2>4 DEF ReauthClear, OperatorClear, BackoffEnds, DeleteAccount
      <3>2. Forward
        BY SMT, <3>1 DEF NoRow, Forward
      <3> QED
        BY <2>4, <3>2, <1>ClearTok
    <2> QED
      BY <2>1, <2>2, <2>3, <2>4 DEF Handlers
  <1> SUFFICES ASSUME TokInv, [Next]_vars PROVE TokInv' /\ Forward
    OBVIOUS
  <1>1. Inv'
    BY InvNext DEF TokInv
  <1>2. CASE UNCHANGED vars
    <2>1. UNCHANGED provider /\ procs' = procs /\ UNCHANGED outbox /\ db' = db
      BY <1>2 DEF vars, provider, outbox
    <2>2. RowFair(world, db') /\ Forward
      BY <2>1 DEF TokInv, Forward
    <2> QED
      BY <1>1, <2>1, <2>2, OutboxSame, QuietTok
  <1>3. CASE Restart \/ (\E ok \in BOOLEAN : WalWrite(ok))
             \/ (\E t \in Token : Expire(t)) \/ (\E f \in Login : Revoke(f))
    <2>1. db' = db
      BY <1>3 DEF Restart, WalWrite, Expire, Revoke
    <2>2. TokInv'
      BY <1>1, <1>3, <1>RestartTok, <1>WalWriteTok, <1>TimeTok
    <2> QED
      BY <2>1, <2>2 DEF Forward
  <1> QED
    BY <1>1, <1>2, <1>3, <1>RefreshTok, <1>RequestTok, <1>SchedulerTok, <1>HandlersTok DEF Next

\* "a refresh that lost a race to a manual re-auth cannot overwrite newer
\* credentials" (token-manager.ts 832), for any number of requests, sweeps, logins and
\* account generations and with every fault.  The writes are guarded by the expected
\* token only, so what has to be invariant is what the tokens in hand and in the outbox
\* are to each other: a refresh holds a spent token and its successor, an entry leads
\* from a spent token to a later one, and a process that outlived a login saw its token.
THEOREM TheRowNeverRegresses == Spec => RowNeverRegresses
  <1>1. ASSUME TokInv, TokInv', Forward
        PROVE  db.gen # 0 /\ db'.gen # 0
                 => \/ db'.tok.f > db.tok.f
                    \/ db'.tok.f = db.tok.f /\ db'.tok.i >= db.tok.i
    <2>1. (db.gen # 0 => db.tok \in Token) /\ (db'.gen # 0 => db'.tok \in Token)
      BY <1>1 DEF TokInv, RowFair, Known
    <2>2. \A t \in Token : t.f \in Int /\ t.i \in Int
      BY SMT DEF Token, Login
    <2>3. ASSUME db.gen # 0, db'.gen # 0
          PROVE  \/ db'.tok.f > db.tok.f
                 \/ db'.tok.f = db.tok.f /\ db'.tok.i >= db.tok.i
      BY SMT, <1>1, <2>1, <2>2, <2>3 DEF Forward, Before
    <2> QED
      BY <2>3
  <1>2. TokInv /\ TokInv' /\ [Next]_vars => [db.gen # 0 /\ db'.gen # 0
         => \/ db'.tok.f > db.tok.f
            \/ db'.tok.f = db.tok.f /\ db'.tok.i >= db.tok.i]_vars
    BY <1>1, TokNext
  <1> QED
    BY <1>2, TokInit, TokNext, PTL DEF Spec, RowNeverRegresses

-----------------------------------------------------------------------------
(***************************************************************************)
(* One refresh at a time.  What follows holds as long as the operator only *)
(* re-authenticates: clearing the refresh cache by hand, and removing an   *)
(* account, forget a refresh that is still running.                        *)
(***************************************************************************)
Holding == Unrecorded \cup {"saving"}
Refreshing == {"exchange"} \cup Holding
Handling == {"rejected", "reread", "flag", "pause"}

\* Where the process is whose promise is registered.
Registered(p) ==
    Refreshing \cup {"final"} \cup IF p \in Request THEN {"failed"} \cup Handling ELSE {}

\* The provider has replaced the row's token and nobody has the successor.
Doomed(p) ==
    /\ live[db.tok.f] # db.tok.i
    /\ \A q \in Proc : procs[q].pc \in Holding => procs[q].tok # db.tok
    /\ procs[p].pc # "rejected" => ~(pending.gen = db.gen /\ pending.tok = Newest)

Lone(p) ==
    /\ procs[p].pc # "idle" => procs[p].gen = db.gen /\ ~Before(db.tok, procs[p].tok)
    /\ procs[p].tok = db.tok /\ procs[p].pc \in Refreshing => inFlight = p
    /\ procs[p].tok = db.tok /\ procs[p].pc \in Handling => Doomed(p)

SoloInv ==
    /\ TokInv
    /\ db.gen # 0 /\ ~removing
    /\ reauth # "idle" => db.tok \in valid
    /\ inFlight # NoProc => procs[inFlight].pc \in Registered(inFlight)
    /\ \A p \in Proc : Lone(p)

LEMMA SoloTypes ==
    ASSUME SoloInv
    PROVE  /\ procs \in [Proc -> Local] /\ inFlight \in Proc \cup {NoProc}
           /\ NoProc \notin Proc /\ db.tok \in Token
           /\ Known(world, db.tok) /\ pending \in Rotation \cup {NoRotation}
  BY RotationAssumption DEF SoloInv, TokInv, Inv, TypeOK, RowSound, RowFair, Proc

LEMMA IdleNowhere ==
    /\ Idle.pc = "idle" /\ "idle" \notin Refreshing \cup Handling \cup Holding
    /\ \A p : "idle" \notin Registered(p)
    /\ Holding \subseteq Refreshing /\ Refreshing \cap Handling = {}
    /\ \A p : Refreshing \subseteq Registered(p)
  BY DEF Idle, Refreshing, Holding, Handling, Registered, Unrecorded

\* What process p becomes in a step of its own, and what it makes of the promise.
Behaves(p) ==
    /\ procs' = [procs EXCEPT ![p] = procs'[p]]
    /\ inFlight' = inFlight \/ (inFlight \in {NoProc, p} /\ inFlight' \in {NoProc, p})
    /\ inFlight' = p => procs'[p].pc \in Registered(p)
    /\ procs'[p].pc # "idle" => procs'[p].gen = db.gen /\ ~Before(db.tok, procs'[p].tok)
    /\ procs'[p].tok = db.tok /\ procs'[p].pc \in Refreshing => inFlight' = p
    /\ procs'[p].pc \in Holding => procs[p].pc \in Holding /\ procs'[p].tok = procs[p].tok

\* The row's token is not condemned on the way.
Condemns(p) ==
    procs'[p].pc \in Handling /\ procs'[p].tok = db.tok =>
        /\ live[db.tok.f] # db.tok.i
        /\ \A q \in Proc : q # p /\ procs[q].pc \in Holding => procs[q].tok # db.tok
        /\ procs'[p].pc # "rejected" => ~(pending.gen = db.gen /\ pending.tok = Newest)

\* A rotation other than the successor of the row's token is recorded.
OtherEntry ==
    pending'.tok = Newest =>
        live[db.tok.f] = db.tok.i
        \/ \E q \in Proc : procs[q].pc \in Holding /\ procs[q].tok = db.tok

-----------------------------------------------------------------------------
LEMMA PlacesApart ==
    /\ {"minted", "persist", "persisted", "saving"} = Holding
    /\ \A p : Holding \subseteq Registered(p) /\ "final" \in Registered(p)
    /\ "final" \notin Refreshing \cup Handling /\ "idle" \notin Holding
    /\ \A p : {"flush", "flushed", "flushing", "adopt"} \cap
              (Refreshing \cup Handling \cup Registered(p)) = {}
    /\ \A p \in Request : Handling \subseteq Registered(p)
    /\ \A p : p \notin Request => Handling \cap Registered(p) = {}
  BY DEF Refreshing, Holding, Handling, Registered, Unrecorded

\* A process that exchanged an older token than the row's has not been given the newest.
LEMMA StaleHand ==
    ASSUME SoloInv, live[db.tok.f] # db.tok.i, NEW p \in Proc, procs[p].pc \in Holding,
           procs[p].tok # db.tok
    PROVE  procs[p].new # Newest
  <1>1. TokInv /\ procs[p].pc # "idle" /\ procs[p].pc \in Unrecorded \cup {"saving"}
    BY IdleNowhere DEF SoloInv, Holding
  <1>2. /\ procs[p].tok \in Token /\ procs[p].new.f = procs[p].tok.f
        /\ procs[p].new.i = procs[p].tok.i + 1
    BY <1>1, HandHolds
  <1>3. ~Before(db.tok, procs[p].tok)
    BY <1>1 DEF SoloInv, Lone
  <1>4. Known(world, db.tok) /\ world.live = live /\ db.tok \in Token
    BY <1>1, SoloTypes, WorldType
  <1>5. /\ db.tok.i \in Nat /\ db.tok.f \in Nat /\ procs[p].tok.i \in Nat \ {0}
        /\ procs[p].tok.f \in Nat /\ live[db.tok.f] \in Nat
    <2>1. live \in [Login -> 0..MaxRotation] /\ MaxRotation \in Nat
      BY <1>1, RotationAssumption DEF TokInv, Inv, TypeOK
    <2> QED
      BY SMTT(30), <1>2, <1>4, <2>1, RotationAssumption DEF Token, Login
  <1>6. db.tok = [f |-> db.tok.f, i |-> db.tok.i]
        /\ procs[p].tok = [f |-> procs[p].tok.f, i |-> procs[p].tok.i]
    BY <1>2, <1>4 DEF Token
  <1>7. procs[p].tok.f = db.tok.f => procs[p].tok.i # db.tok.i
    BY <1>6
  <1>8. Newest.f = db.tok.f /\ Newest.i = live[db.tok.f]
    BY DEF Newest
  <1>9. live[db.tok.f] # 0 => db.tok.i <= live[db.tok.f]
    BY <1>4 DEF Known
  <1>10. SUFFICES ASSUME procs[p].tok.f = db.tok.f, procs[p].tok.i + 1 = live[db.tok.f]
                  PROVE  FALSE
    BY <1>2, <1>8
  <1>11. ~(db.tok.i < procs[p].tok.i)
    BY <1>3, <1>10 DEF Before
  <1> QED
    BY SMT, <1>5, <1>7, <1>9, <1>10, <1>11

-----------------------------------------------------------------------------
LEMMA SoloInit == Init => SoloInv
  <1> SUFFICES ASSUME Init PROVE SoloInv
    OBVIOUS
  <1>1. TokInv
    BY TokInit
  <1>2. \A p \in Proc : procs[p].pc = "idle"
    BY IdleNowhere DEF Init
  <1>3. \A p \in Proc : Lone(p)
    BY <1>2, IdleNowhere DEF Lone
  <1>4. db.gen = 1 /\ 1 # 0
    BY SMT DEF Init
  <1> QED
    BY <1>1, <1>3, <1>4 DEF Init, SoloInv

LEMMA SoloNext ==
    ASSUME Operator \subseteq {"reauth"}, SoloInv, [Next]_vars
    PROVE  SoloInv'
  <1>SoloStep.
      ASSUME SoloInv, TokInv', NEW p \in Proc, Behaves(p), Condemns(p),
             SameEntry \/ (OtherEntry /\ procs'[p].pc \notin Handling),
             live' = live, valid' = valid, reauth' = reauth, removing' = removing,
             db'.tok = db.tok, db'.gen = db.gen
      PROVE  SoloInv'
    <2> USE <1>SoloStep
    <2>1. \A q \in Proc : q # p => procs'[q] = procs[q]
      BY SoloTypes DEF Behaves
    <2>2. inFlight' # NoProc => procs'[inFlight'].pc \in Registered(inFlight')
      BY <2>1, SoloTypes DEF Behaves, SoloInv
    <2>3. Newest' = Newest
      BY DEF Newest
    <2>4. ASSUME SameEntry, pending'.gen = db.gen, pending'.tok = Newest
          PROVE  pending.gen = db.gen /\ pending.tok = Newest
      <3>1. NoRotation.gen = 0 /\ db.gen # 0
        BY DEF NoRotation, SoloInv
      <3> QED
        BY <2>4, <3>1 DEF SameEntry
    <2>5. ASSUME NEW q \in Proc
          PROVE  Lone(q)'
      <3>1. procs'[q].pc # "idle" => procs'[q].gen = db'.gen /\ ~Before(db'.tok, procs'[q].tok)
        BY <2>1 DEF Behaves, SoloInv, Lone
      <3>2. procs'[q].tok = db'.tok /\ procs'[q].pc \in Refreshing => inFlight' = q
        <4>1. CASE q = p
          BY <4>1 DEF Behaves
        <4>2. CASE q # p
          <5>1. procs'[q].tok = db.tok /\ procs'[q].pc \in Refreshing => inFlight = q
            BY <2>1, <4>2 DEF SoloInv, Lone
          <5> QED
            BY <4>2, <5>1, SoloTypes DEF Behaves
        <4> QED
          BY <4>1, <4>2
      <3>3. ASSUME procs'[q].tok = db'.tok, procs'[q].pc \in Handling
            PROVE  Doomed(q)'
        <4>1. CASE q = p
          <5>1. procs'[p].pc \notin Holding
            BY <3>3, <4>1, IdleNowhere
          <5>2. \A x \in Proc : procs'[x].pc \in Holding => procs'[x].tok # db.tok
            BY <2>1, <3>3, <4>1, <5>1 DEF Condemns
          <5>3. /\ live'[db'.tok.f] # db'.tok.i
                /\ procs'[p].pc # "rejected" => ~(pending'.gen = db'.gen /\ pending'.tok = Newest')
            BY <2>3, <2>4, <3>3, <4>1 DEF Condemns
          <5>4. \A x \in Proc : procs'[x].pc \in Holding => procs'[x].tok # db'.tok
            BY <5>2
          <5> QED
            BY SMT, <4>1, <5>3, <5>4 DEF Doomed
        <4>2. CASE q # p
          <5>1. Doomed(q) /\ procs'[q] = procs[q]
            BY <2>1, <3>3, <4>2 DEF SoloInv, Lone
          <5>2. ASSUME NEW x \in Proc, procs'[x].pc \in Holding
                PROVE  procs'[x].tok # db.tok
            <6>1. procs[x].pc \in Holding /\ procs'[x].tok = procs[x].tok
              <7>1. CASE x = p
                BY <5>2, <7>1 DEF Behaves
              <7>2. CASE x # p
                BY <2>1, <5>2, <7>2
              <7> QED
                BY <7>1, <7>2
            <6> QED
              BY <5>1, <6>1 DEF Doomed
          <5>3. procs[q].pc # "rejected" => ~(pending'.gen = db.gen /\ pending'.tok = Newest)
            BY <2>4, <5>1 DEF Doomed, OtherEntry
          <5> QED
            BY <2>3, <5>1, <5>2, <5>3 DEF Doomed
        <4> QED
          BY <4>1, <4>2
      <3> QED
        BY <3>1, <3>2, <3>3 DEF Lone
    <2>6. (reauth' # "idle" => db'.tok \in valid') /\ db'.gen # 0 /\ ~removing'
      BY DEF SoloInv
    <2> QED
      BY <2>2, <2>5, <2>6 DEF SoloInv
  \* A process leaves, taking its promise with it.
  <1>LeaveBehaves.
      ASSUME SoloInv, NEW p \in Proc, Leave(p),
             inFlight' = (IF inFlight = p THEN NoProc ELSE inFlight)
      PROVE  Behaves(p) /\ Condemns(p)
    <2> USE <1>LeaveBehaves
    <2>1. procs' = [procs EXCEPT ![p] = procs'[p]] /\ procs'[p] = Idle
      BY SoloTypes DEF Leave
    <2>2. inFlight' # p
      BY SoloTypes
    <2>3. inFlight' = inFlight \/ (inFlight \in {NoProc, p} /\ inFlight' \in {NoProc, p})
      OBVIOUS
    <2> QED
      BY <2>1, <2>2, <2>3, IdleNowhere DEF Behaves, Condemns
  <1>SettleBehaves.
      ASSUME SoloInv, NEW p \in Proc, Settle(p)
      PROVE  Behaves(p) /\ Condemns(p)
    BY <1>SettleBehaves, <1>LeaveBehaves DEF Settle
  \* A process that has registered nothing leaves.
  <1>QuitBehaves.
      ASSUME SoloInv, NEW p \in Proc, Leave(p), procs[p].pc \notin Registered(p),
             inFlight' = inFlight
      PROVE  Behaves(p) /\ Condemns(p)
    <2> USE <1>QuitBehaves
    <2>1. inFlight # p
      BY SoloTypes DEF SoloInv
    <2> QED
      BY <2>1, <1>LeaveBehaves
  \* A process moves on with the token it has.
  <1>MoveBehaves.
      ASSUME SoloInv, NEW p \in Proc, procs' = [procs EXCEPT ![p] = procs'[p]],
             procs'[p].tok = procs[p].tok, procs'[p].gen = procs[p].gen, procs[p].pc # "idle",
             procs'[p].pc \in Refreshing => procs[p].pc \in Refreshing,
             procs'[p].pc \in Holding => procs[p].pc \in Holding,
             procs[p].pc \in Registered(p) => procs'[p].pc \in Registered(p),
             inFlight' = inFlight
      PROVE  Behaves(p)
    <2> USE <1>MoveBehaves
    <2>1. Lone(p) /\ (inFlight = p => procs[p].pc \in Registered(p))
      BY SoloTypes DEF SoloInv
    <2> QED
      BY <2>1 DEF Behaves, Lone
  <1>GotoBehaves.
      ASSUME SoloInv, NEW p \in Proc, procs[p].pc # "idle", NEW pc, Goto(p, pc),
             pc \in Refreshing => procs[p].pc \in Refreshing,
             pc \in Holding => procs[p].pc \in Holding,
             procs[p].pc \in Registered(p) => pc \in Registered(p),
             inFlight' = inFlight
      PROVE  Behaves(p) /\ (pc \notin Handling => Condemns(p))
             /\ procs'[p].pc = pc /\ procs'[p].tok = procs[p].tok
    <2> USE <1>GotoBehaves
    <2>1. procs[p] \in Local /\ procs' = [procs EXCEPT ![p] = procs'[p]]
          /\ procs'[p] = [procs[p] EXCEPT !.pc = pc]
      BY SoloTypes DEF Goto
    <2>2. procs'[p].pc = pc /\ procs'[p].tok = procs[p].tok /\ procs'[p].gen = procs[p].gen
      BY <2>1 DEF Local
    <2>3. Behaves(p)
      BY <2>1, <2>2, <1>MoveBehaves
    <2> QED
      BY <2>2, <2>3 DEF Condemns
  <1>ThrowBehaves.
      ASSUME SoloInv, NEW p \in Proc, procs[p].pc # "idle", Throw(p)
      PROVE  Behaves(p) /\ Condemns(p)
    <2> USE <1>ThrowBehaves
    <2>1. CASE p \in Request
      <3>1. "failed" \notin Refreshing /\ "failed" \notin Holding /\ "failed" \notin Handling
            /\ "failed" \in Registered(p)
        BY <2>1 DEF Refreshing, Holding, Handling, Registered, Unrecorded
      <3>2. Goto(p, "failed") /\ inFlight' = inFlight
        BY <2>1 DEF Throw
      <3> QED
        BY <3>1, <3>2, <1>GotoBehaves
    <2>2. CASE p \notin Request
      BY <2>2, <1>SettleBehaves DEF Throw
    <2> QED
      BY <2>1, <2>2
  \* Only one promise is registered, and only for a token nobody else exchanges.
  <1>JoinOrExchangeBehaves.
      ASSUME SoloInv, NEW p \in Proc, procs[p].pc \in {"begin", "adopt", "selected"},
             NEW t, t = db.tok \/ t = procs[p].tok, JoinOrExchange(p, t)
      PROVE  Behaves(p) /\ Condemns(p)
    <2> USE <1>JoinOrExchangeBehaves
    <2>0. procs[p].pc \notin Registered(p) /\ procs[p].pc # "idle"
      BY DEF Registered, Refreshing, Holding, Handling, Unrecorded
    <2>1. CASE InFlightFor(procs[p].gen)
      BY <2>0, <2>1, <1>QuitBehaves DEF JoinOrExchange
    <2>2. CASE ~InFlightFor(procs[p].gen)
      <3>1. procs[p] \in Local /\ procs \in [Proc -> Local]
        BY SoloTypes
      <3>2. /\ procs' = [procs EXCEPT ![p].pc = "exchange", ![p].tok = t,
                                      ![p].entry = NoRotation, ![p].result = "none"]
            /\ inFlight' = p
        BY <2>2 DEF JoinOrExchange
      <3>3. /\ procs' = [procs EXCEPT ![p] = procs'[p]]
            /\ procs'[p] = [procs[p] EXCEPT !.pc = "exchange", !.tok = t,
                                            !.entry = NoRotation, !.result = "none"]
        BY <3>1, <3>2
      <3>4. procs'[p].pc = "exchange" /\ procs'[p].tok = t /\ procs'[p].gen = procs[p].gen
        BY <3>1, <3>3 DEF Local
      <3>5. inFlight = NoProc
        <4>1. SUFFICES ASSUME inFlight # NoProc PROVE FALSE
          OBVIOUS
        <4>2. inFlight \in Proc /\ procs[inFlight].pc # "idle"
          BY <4>1, SoloTypes, IdleNowhere DEF SoloInv
        <4>3. procs[inFlight].gen = db.gen /\ procs[p].gen = db.gen
          BY <2>0, <4>2 DEF SoloInv, Lone
        <4> QED
          BY <2>2, <4>1, <4>3 DEF InFlightFor
      <3>6. ~Before(db.tok, t) /\ procs[p].gen = db.gen
        <4>1. ~Before(db.tok, db.tok)
          BY SMT, SoloTypes DEF Before, Token, Login
        <4>2. procs[p].gen = db.gen /\ ~Before(db.tok, procs[p].tok)
          BY <2>0 DEF SoloInv, Lone
        <4> QED
          BY <4>1, <4>2
      <3>7. "exchange" \in Registered(p) /\ "exchange" \notin Holding /\ "exchange" \notin Handling
        BY DEF Registered, Refreshing, Holding, Handling, Unrecorded
      <3> QED
        BY <3>2, <3>3, <3>4, <3>5, <3>6, <3>7 DEF Behaves, Condemns
    <2> QED
      BY <2>1, <2>2
  <1>RowSame.
                   ASSUME UNCHANGED <<provider, db, handlers>>
                   PROVE  /\ live' = live /\ valid' = valid /\ reauth' = reauth
                          /\ removing' = removing /\ db'.tok = db.tok /\ db'.gen = db.gen
    BY <1>RowSame DEF provider, handlers
  <1>EntrySame.
                     ASSUME UNCHANGED outbox PROVE SameEntry
    BY <1>EntrySame DEF outbox, SameEntry
  \* A step of one process that leaves everything but itself and the promise alone.
  <1>OwnStep.
      ASSUME SoloInv, TokInv', NEW p \in Proc, Behaves(p) /\ Condemns(p),
             UNCHANGED <<provider, db, outbox, handlers>>
      PROVE  SoloInv'
    <2> USE <1>OwnStep
    <2>1. UNCHANGED <<provider, db, handlers>> /\ UNCHANGED outbox
      OBVIOUS
    <2> QED
      BY <2>1, <1>RowSame, <1>EntrySame, <1>SoloStep
  <1>BeginSolo.
      ASSUME SoloInv, TokInv', NEW p \in Proc, Start(p) \/ SelectRow(p)
      PROVE  SoloInv'
    <2> USE <1>BeginSolo
    <2>1. /\ procs[p].pc = "idle" /\ inFlight' = inFlight
          /\ UNCHANGED <<provider, db, outbox, handlers>>
      BY DEF Start, SelectRow, At
    <2>2. PICK pc \in {"begin", "selected"} :
             procs' = [procs EXCEPT ![p] = [Idle EXCEPT !.pc = pc, !.gen = db.gen, !.tok = db.tok]]
      BY DEF Start, SelectRow
    <2>3. procs' = [procs EXCEPT ![p] = procs'[p]]
          /\ procs'[p] = [Idle EXCEPT !.pc = pc, !.gen = db.gen, !.tok = db.tok]
      BY <2>2, SoloTypes
    <2>4. procs'[p].pc = pc /\ procs'[p].gen = db.gen /\ procs'[p].tok = db.tok
      BY <2>3 DEF Idle
    <2>5. ~Before(db.tok, db.tok)
      BY SMT, SoloTypes DEF Before, Token, Login
    <2>6. inFlight # p
      BY <2>1, SoloTypes, IdleNowhere DEF SoloInv
    <2>7. pc \notin Refreshing /\ pc \notin Handling /\ pc \notin Holding
      BY DEF Refreshing, Holding, Handling, Unrecorded
    <2> QED
      BY <2>1, <2>3, <2>4, <2>5, <2>6, <2>7, <1>OwnStep DEF Behaves, Condemns
  <1>JoinSolo.
      ASSUME SoloInv, TokInv', NEW p \in Proc, Join(p) \/ InBackoff(p)
      PROVE  SoloInv'
    <2> USE <1>JoinSolo
    <2>1. /\ procs[p].pc = "begin" /\ inFlight' = inFlight /\ Leave(p)
          /\ UNCHANGED <<provider, db, outbox, handlers>>
      BY DEF Join, InBackoff, At
    <2>2. procs[p].pc \notin Registered(p)
      BY <2>1 DEF Registered, Refreshing, Holding, Handling, Unrecorded
    <2> QED
      BY <2>1, <2>2, <1>QuitBehaves, <1>OwnStep
  <1>AdoptRowBehaves.
      ASSUME SoloInv, NEW p \in Proc, procs[p].pc \in {"begin", "adopt"}, NEW t, AdoptRow(p, t)
      PROVE  Behaves(p) /\ Condemns(p)
    <2> USE <1>AdoptRowBehaves
    <2>1. procs[p].pc \notin Registered(p) /\ procs[p].pc \in {"begin", "adopt", "selected"}
      BY DEF Registered, Refreshing, Holding, Handling, Unrecorded
    <2>2. (Leave(p) /\ inFlight' = inFlight) \/ JoinOrExchange(p, db.tok)
      BY DEF AdoptRow
    <2> QED
      BY <2>1, <2>2, <1>QuitBehaves, <1>JoinOrExchangeBehaves
  \* A process captures the entry of its account and goes to flush it.
  <1>CaptureBehaves.
      ASSUME SoloInv, NEW p \in Proc, procs[p].pc \in {"begin", "selected"}, NEW e,
             procs' = [procs EXCEPT ![p].pc = "flush", ![p].entry = e], inFlight' = inFlight
      PROVE  Behaves(p) /\ Condemns(p)
    <2> USE <1>CaptureBehaves
    <2>1. procs[p] \in Local /\ procs \in [Proc -> Local]
      BY SoloTypes
    <2>2. procs' = [procs EXCEPT ![p] = procs'[p]]
          /\ procs'[p] = [procs[p] EXCEPT !.pc = "flush", !.entry = e]
      BY <2>1
    <2>3. procs'[p].pc = "flush" /\ procs'[p].tok = procs[p].tok /\ procs'[p].gen = procs[p].gen
      BY <2>1, <2>2 DEF Local
    <2>4. /\ procs[p].pc \notin Registered(p) /\ procs[p].pc # "idle"
          /\ "flush" \notin Refreshing /\ "flush" \notin Holding /\ "flush" \notin Handling
      BY DEF Registered, Refreshing, Holding, Handling, Unrecorded
    <2> QED
      BY <2>2, <2>3, <2>4, <1>MoveBehaves DEF Condemns
  <1>ApproachSolo.
      ASSUME SoloInv, TokInv', NEW p \in Proc, CheckRow(p) \/ AdoptPending(p) \/ RefreshRow(p)
      PROVE  SoloInv'
    <2> USE <1>ApproachSolo
    <2>1. UNCHANGED <<provider, db, outbox, handlers>>
      BY DEF CheckRow, AdoptPending, RefreshRow
    <2>2. CASE CheckRow(p)
      <3>1. procs[p].pc = "begin"
        BY <2>2 DEF CheckRow, At
      <3>2. procs[p].pc \in {"begin", "selected"} /\ procs[p].pc \in {"begin", "adopt"}
            /\ procs[p].pc \notin Registered(p)
        BY <3>1 DEF Registered, Refreshing, Holding, Handling, Unrecorded
      <3>3. Behaves(p) /\ Condemns(p)
        BY <2>2, <3>2, <1>CaptureBehaves, <1>AdoptRowBehaves, <1>QuitBehaves DEF CheckRow
      <3> QED
        BY <2>1, <3>3, <1>OwnStep
    <2>3. CASE AdoptPending(p)
      <3>1. procs[p].pc = "adopt"
        BY <2>3 DEF AdoptPending, At
      <3>2. procs[p].pc \in {"begin", "adopt"} /\ procs[p].pc \notin Registered(p)
        BY <3>1 DEF Registered, Refreshing, Holding, Handling, Unrecorded
      <3>3. Behaves(p) /\ Condemns(p)
        BY <2>3, <3>2, <1>AdoptRowBehaves, <1>QuitBehaves DEF AdoptPending
      <3> QED
        BY <2>1, <3>3, <1>OwnStep
    <2>4. CASE RefreshRow(p)
      <3>1. procs[p].pc = "selected"
        BY <2>4 DEF RefreshRow, At
      <3>2. procs[p].pc \in {"begin", "selected"} /\ procs[p].pc \in {"begin", "adopt", "selected"}
        BY <3>1
      <3>3. Behaves(p) /\ Condemns(p)
        BY <2>4, <3>2, <1>CaptureBehaves, <1>JoinOrExchangeBehaves DEF RefreshRow
      <3> QED
        BY <2>1, <3>3, <1>OwnStep
    <2> QED
      BY <2>2, <2>3, <2>4
  \* A step of one process that records nothing.
  <1>DropStep.
      ASSUME SoloInv, TokInv', NEW p \in Proc, Behaves(p) /\ Condemns(p), SameEntry,
             UNCHANGED <<provider, handlers>>, db'.tok = db.tok, db'.gen = db.gen
      PROVE  SoloInv'
    <2> USE <1>DropStep
    <2>1. live' = live /\ valid' = valid /\ reauth' = reauth /\ removing' = removing
      BY DEF provider, handlers
    <2> QED
      BY <2>1, <1>SoloStep
  <1>MintedSolo.
      ASSUME SoloInv, TokInv', NEW p \in Proc, Minted(p)
      PROVE  SoloInv'
    <2> USE <1>MintedSolo
    <2>1. procs[p].pc = "minted" /\ UNCHANGED <<provider, db, outbox, handlers>>
      BY DEF Minted, At
    <2>2. /\ procs[p].pc # "idle" /\ procs[p].pc \in Holding
          /\ "persist" \in Holding /\ "persist" \notin Handling
      BY <2>1 DEF Holding, Unrecorded, Handling
    <2>3. Behaves(p) /\ Condemns(p)
      BY <2>2, PlacesApart, IdleNowhere, <1>GotoBehaves, <1>SettleBehaves, <1>ThrowBehaves DEF Minted
    <2> QED
      BY <2>1, <2>3, <1>OwnStep
  <1>ToFinalBehaves.
      ASSUME SoloInv, NEW p \in Proc, procs[p].pc \in Holding, Goto(p, "final"), inFlight' = inFlight
      PROVE  Behaves(p) /\ Condemns(p)
    BY <1>ToFinalBehaves, PlacesApart, IdleNowhere, <1>GotoBehaves
  <1>PersistedSolo.
      ASSUME SoloInv, TokInv', NEW p \in Proc, Persisted(p)
      PROVE  SoloInv'
    <2> USE <1>PersistedSolo
    <2>1. /\ procs[p].pc = "persisted" /\ UNCHANGED <<provider, handlers>> /\ UNCHANGED provider
          /\ db' = db /\ Goto(p, "final") /\ inFlight' = inFlight /\ TokInv
      BY DEF Persisted, At, SoloInv
    <2>2. procs[p].pc \in Holding
      BY <2>1, PlacesApart
    <2>3. SameEntry
      BY <2>1, ClearFair, OutboxSame DEF Persisted
    <2> QED
      BY <2>1, <2>2, <2>3, <1>ToFinalBehaves, <1>DropStep
  <1>LostCasSolo.
      ASSUME SoloInv, TokInv', NEW p \in Proc, LostCas(p)
      PROVE  SoloInv'
    <2> USE <1>LostCasSolo
    <2>1. procs[p].pc = "persisted" /\ UNCHANGED <<provider, db, outbox, handlers>>
      BY DEF LostCas, At
    <2>2. procs \in [Proc -> Local] /\ procs[p] \in Local
      BY SoloTypes
    <2>3. procs[p].pc # "idle" /\ procs[p].pc \in Holding /\ procs[p].pc \notin Handling
      BY <2>1 DEF Holding, Unrecorded, Handling
    <2> DEFINE l == procs[p]
               m == procs'[p]
    <2>4. CASE Settle(p)
      BY <2>1, <2>4, <1>SettleBehaves, <1>OwnStep
    <2>5. CASE procs' = [procs EXCEPT ![p].pc = "final", ![p].new = NoToken] /\ inFlight' = inFlight
      <3>1. /\ procs' = [procs EXCEPT ![p] = m]
            /\ m = [l EXCEPT !.pc = "final", !.new = NoToken]
        BY <2>2, <2>5
      <3>2. m.pc = "final" /\ m.tok = l.tok /\ m.gen = l.gen
        BY <2>2, <3>1 DEF Local
      <3>3. "final" \notin Refreshing /\ "final" \notin Handling /\ "final" \notin Holding
            /\ "final" \in Registered(p)
        BY PlacesApart, IdleNowhere
      <3>4. Behaves(p)
        BY <2>3, <2>5, <3>1, <3>2, <3>3, <1>MoveBehaves
      <3>5. Condemns(p)
        BY <3>2, <3>3 DEF Condemns
      <3> QED
        BY <2>1, <3>4, <3>5, <1>OwnStep
    <2>6. CASE procs' = [procs EXCEPT ![p].result = "threw"] /\ inFlight' = inFlight
      <3>1. /\ procs' = [procs EXCEPT ![p] = m]
            /\ m = [l EXCEPT !.result = "threw"]
        BY <2>2, <2>6
      <3>2. m.pc = l.pc /\ m.tok = l.tok /\ m.gen = l.gen
        BY <2>2, <3>1 DEF Local
      <3>3. Behaves(p)
        BY <2>3, <2>6, <3>1, <3>2, <1>MoveBehaves
      <3>4. Condemns(p)
        BY <2>3, <3>2 DEF Condemns
      <3> QED
        BY <2>1, <3>3, <3>4, <1>OwnStep
    <2> QED
      BY <2>4, <2>5, <2>6 DEF LostCas
  <1>PersistThrewSolo.
      ASSUME SoloInv, TokInv', NEW p \in Proc, PersistThrew(p)
      PROVE  SoloInv'
    <2> USE <1>PersistThrewSolo
    <2>1. /\ procs[p].pc = "persisted" /\ UNCHANGED <<provider, db, handlers>> /\ procs[p].pc # "idle"
          /\ TokInv
      BY DEF PersistThrew, At, SoloInv
    <2>2. CASE /\ RecordPendingRotation(p, procs[p].tok, procs[p].new)
               /\ Goto(p, "saving") /\ inFlight' = inFlight
      <3>1. /\ procs[p].pc \in Holding /\ procs[p].pc \in Unrecorded
            /\ "saving" \in Holding /\ "saving" \notin Handling
        BY <2>1 DEF Holding, Unrecorded, Handling
      <3>2. Behaves(p) /\ Condemns(p) /\ procs'[p].pc \notin Handling
        BY <2>1, <2>2, <3>1, PlacesApart, IdleNowhere, <1>GotoBehaves
      <3>3. pending'.tok = procs[p].new
        BY <2>1, <2>2, <3>1, RecordSound DEF RecordPendingRotation
      <3>4. OtherEntry
        BY <3>1, <3>3, StaleHand DEF OtherEntry
      <3> QED
        BY <2>1, <3>2, <3>4, <1>RowSame, <1>SoloStep
    <2>3. CASE (Settle(p) \/ Throw(p)) /\ UNCHANGED outbox
      <3>1. Behaves(p) /\ Condemns(p)
        BY <2>1, <2>3, <1>SettleBehaves, <1>ThrowBehaves
      <3> QED
        BY <2>1, <2>3, <3>1, <1>OwnStep
    <2> QED
      BY <2>2, <2>3 DEF PersistThrew
  \* The end of a refresh, and the handlers of a failed one.
  <1>EndSolo.
      ASSUME SoloInv, TokInv', NEW p \in Proc, Final(p) \/ Failed(p)
      PROVE  SoloInv'
    <2> USE <1>EndSolo
    <2>1. procs[p].pc # "idle" /\ UNCHANGED <<provider, db, outbox, handlers>>
      BY DEF Final, Failed, At
    <2>2. Settle(p) \/ Throw(p)
      BY DEF Final, Failed
    <2>3. Behaves(p) /\ Condemns(p)
      BY <2>1, <2>2, <1>SettleBehaves, <1>ThrowBehaves
    <2> QED
      BY <2>1, <2>3, <1>OwnStep
  <1>NothingAwaited.
      ASSUME SoloInv, NEW p \in Proc, Current(p), ~AwaitsPersist(p)
      PROVE  pending.gen # db.gen
    <2> USE <1>NothingAwaited
    <2>1. NoRotation.gen = 0 /\ db.gen # 0
      BY DEF NoRotation, SoloInv
    <2> QED
      BY <2>1 DEF Current, AwaitsPersist, Pending
  \* A process goes on condemning the account.
  <1>OnwardBehaves.
      ASSUME SoloInv, NEW p \in Proc, procs[p].pc \in Handling, NEW pc \in Handling, Goto(p, pc),
             inFlight' = inFlight, procs[p].pc = "rejected" => pending.gen # db.gen
      PROVE  Behaves(p) /\ Condemns(p)
    <2> USE <1>OnwardBehaves
    <2>1. pc \notin Refreshing /\ pc \notin Holding /\ procs[p].pc # "idle"
      BY IdleNowhere
    <2>2. procs[p].pc \in Registered(p) => pc \in Registered(p)
      BY PlacesApart
    <2>3. Behaves(p) /\ procs'[p].pc = pc /\ procs'[p].tok = procs[p].tok
      BY <2>1, <2>2, <1>GotoBehaves
    <2>4. procs[p].tok = db.tok => Doomed(p)
      BY DEF SoloInv, Lone
    <2> QED
      BY <2>3, <2>4 DEF Condemns, Doomed
  <1>RejectedSolo.
      ASSUME SoloInv, TokInv', NEW p \in Proc, Rejected(p)
      PROVE  SoloInv'
    <2> USE <1>RejectedSolo
    <2>1. procs[p].pc = "rejected" /\ UNCHANGED <<provider, db, outbox, handlers>>
      BY DEF Rejected, At
    <2>2. procs[p].pc \in Handling /\ "reread" \in Handling /\ "flag" \in Handling
      BY <2>1 DEF Handling
    <2>3. CASE /\ Current(p) /\ ~AwaitsPersist(p)
               /\ Goto(p, IF p \in Request THEN "reread" ELSE "flag") /\ inFlight' = inFlight
      BY <2>1, <2>2, <2>3, <1>NothingAwaited, <1>OnwardBehaves, <1>OwnStep
    <2>4. CASE Settle(p)
      BY <2>1, <2>4, <1>SettleBehaves, <1>OwnStep
    <2> QED
      BY <2>3, <2>4 DEF Rejected
  <1>RereadSolo.
      ASSUME SoloInv, TokInv', NEW p \in Proc, Reread(p)
      PROVE  SoloInv'
    <2> USE <1>RereadSolo
    <2>1. procs[p].pc = "reread" /\ UNCHANGED <<provider, db, outbox, handlers>>
      BY DEF Reread, At
    <2>2. procs[p].pc \in Handling /\ "flag" \in Handling /\ procs[p].pc # "rejected"
      BY <2>1 DEF Handling
    <2>3. CASE Goto(p, "flag") /\ inFlight' = inFlight
      BY <2>1, <2>2, <2>3, <1>OnwardBehaves, <1>OwnStep
    <2>4. CASE Settle(p)
      BY <2>1, <2>4, <1>SettleBehaves, <1>OwnStep
    <2> QED
      BY <2>3, <2>4 DEF Reread
  <1>QuarantineSolo.
      ASSUME SoloInv, TokInv', NEW p \in Proc, Flag(p) \/ Pause(p),
             db'.tok = db.tok, db'.gen = db.gen
      PROVE  SoloInv'
    <2> USE <1>QuarantineSolo
    <2>1. /\ procs[p].pc \in {"flag", "pause"} /\ UNCHANGED <<provider, handlers>>
          /\ UNCHANGED outbox
      BY DEF Flag, Pause, At
    <2>2. procs[p].pc \in Handling /\ "pause" \in Handling /\ procs[p].pc # "rejected"
      BY <2>1 DEF Handling
    <2>3. CASE p \in Request /\ Goto(p, "pause") /\ inFlight' = inFlight
      BY <2>1, <2>2, <2>3, <1>OnwardBehaves, <1>EntrySame, <1>DropStep
    <2>4. CASE p \notin Request /\ Leave(p) /\ inFlight' = inFlight
      <3>1. procs[p].pc \notin Registered(p)
        BY <2>2, <2>4, PlacesApart
      <3> QED
        BY <2>1, <2>4, <3>1, <1>QuitBehaves, <1>EntrySame, <1>DropStep
    <2>5. CASE Settle(p)
      BY <2>1, <2>5, <1>SettleBehaves, <1>EntrySame, <1>DropStep
    <2> QED
      BY <2>3, <2>4, <2>5 DEF Flag, Pause
  <1>FlushedBehaves.
      ASSUME SoloInv, NEW p \in Proc, procs[p].pc \in {"flushed", "flushing"}, NEW r,
             Flushed(p, r), inFlight' = inFlight
      PROVE  Behaves(p) /\ Condemns(p)
    <2> USE <1>FlushedBehaves
    <2>1. procs \in [Proc -> Local] /\ procs[p] \in Local
      BY SoloTypes
    <2> DEFINE l == procs[p]
               m == procs'[p]
               entry == IF pending.gen = procs[p].gen THEN pending ELSE procs[p].entry
    <2>2. /\ procs' = [procs EXCEPT ![p] = m]
          /\ m = [l EXCEPT !.pc = "adopt", !.result = r, !.entry = entry]
      BY <2>1 DEF Flushed
    <2> HIDE DEF entry
    <2>3. m.pc = "adopt" /\ m.tok = l.tok /\ m.gen = l.gen
      BY <2>1, <2>2 DEF Local
    <2>4. /\ "adopt" \notin Refreshing /\ "adopt" \notin Holding /\ "adopt" \notin Handling
          /\ procs[p].pc \notin Registered(p) /\ procs[p].pc # "idle"
      BY PlacesApart, IdleNowhere
    <2> QED
      BY <2>2, <2>3, <2>4, <1>MoveBehaves DEF Condemns
  <1>FlushDoneSolo.
      ASSUME SoloInv, TokInv', NEW p \in Proc, FlushDone(p)
      PROVE  SoloInv'
    <2> USE <1>FlushDoneSolo
    <2> DEFINE e == procs[p].entry
               r == procs[p].result
    <2>1. /\ procs[p].pc = "flushed" /\ UNCHANGED <<provider, handlers>> /\ TokInv
          /\ db' = db /\ inFlight' = inFlight
      BY DEF FlushDone, At, SoloInv
    <2>2. /\ procs[p].pc # "idle" /\ procs[p].pc \notin Registered(p)
          /\ procs[p].pc \in {"flushed", "flushing"}
          /\ "flushing" \notin Refreshing /\ "flushing" \notin Holding /\ "flushing" \notin Handling
      BY <2>1, PlacesApart, IdleNowhere
    <2>3. Behaves(p) /\ Condemns(p)
      BY <2>1, <2>2, <1>GotoBehaves, <1>QuitBehaves, <1>FlushedBehaves DEF FlushDone
    <2>4. SameEntry
      <3>1. CASE r = "ok" /\ Survivor(e) /\ pending' = Rebased(e)
        BY <2>1, <3>1, RebasedSound DEF SameEntry
      <3>2. CASE pending' = NoRotation \/ pending' = pending
        BY <3>2 DEF SameEntry
      <3> QED
        BY <3>1, <3>2 DEF FlushDone
    <2> QED
      BY <2>1, <2>3, <2>4, <1>DropStep
  \* The processes, the row's token and the outbox stay; the promise may be forgotten
  \* while the row's token is valid, and the provider may revoke a login.
  <1>StillSolo.
      ASSUME SoloInv, TokInv', procs' = procs, pending' = pending, removing' = removing,
             db'.tok = db.tok, db'.gen = db.gen, reauth' # "idle" => db.tok \in valid',
             inFlight' = inFlight \/ (inFlight' = NoProc /\ db.tok \in valid),
             live'[db.tok.f] \in {live[db.tok.f], 0}
      PROVE  SoloInv'
    <2> USE <1>StillSolo
    <2>1. TokInv /\ db.gen # 0 /\ db.tok \in Token /\ pending \in Rotation \cup {NoRotation}
      BY SoloTypes DEF SoloInv
    <2>2. pending.gen = db.gen => pending.tok \in Token
      BY SMT, <2>1 DEF Rotation, NoRotation
    <2>3. \A t \in Token : t.i # 0
      BY SMT, RotationAssumption DEF Token
    <2>4. db.tok.i # 0
      BY <2>1, <2>3
    <2>5. pending'.gen = db'.gen /\ pending'.tok = Newest' => pending.gen = db.gen /\ pending.tok = Newest
      <3>1. Newest'.i = live'[db.tok.f]
        BY DEF Newest
      <3>2. live'[db.tok.f] = live[db.tok.f] => Newest' = Newest
        BY DEF Newest
      <3> QED
        BY <2>2, <2>3, <3>1, <3>2
    <2>6. ASSUME NEW p \in Proc
          PROVE  Lone(p)'
      <3>1. Lone(p)
        BY DEF SoloInv
      <3>2. procs[p].pc \in Refreshing => procs[p].pc # "idle"
        BY IdleNowhere
      <3>3. procs[p].tok = db.tok /\ procs[p].pc \in Refreshing => inFlight' = p
        BY <2>1, <3>1, <3>2, HeldSpent, WorldType DEF Lone, Spent
      <3>4. Doomed(p) => Doomed(p)'
        BY <2>4, <2>5 DEF Doomed
      <3> QED
        BY <3>1, <3>3, <3>4 DEF Lone
    <2>7. inFlight' # NoProc => procs'[inFlight'].pc \in Registered(inFlight')
      BY DEF SoloInv
    <2> QED
      BY <2>6, <2>7 DEF SoloInv
  <1>WalWriteSolo.
      ASSUME SoloInv, TokInv', NEW ok \in BOOLEAN, WalWrite(ok)
      PROVE  SoloInv'
    <2> USE <1>WalWriteSolo
    <2> DEFINE o == Head(walQueue)
    <2>1. /\ UNCHANGED <<provider, handlers>> /\ db' = db /\ pending' = pending
          /\ walQueue # <<>> /\ TokInv
      BY DEF WalWrite, SoloInv
    <2>2. live' = live /\ valid' = valid /\ reauth' = reauth /\ removing' = removing
      BY <2>1 DEF provider, handlers
    <2>3. SameEntry
      BY <2>1 DEF SameEntry
    <2>4. CASE o.owner = NoProc
      <3>1. procs' = procs /\ inFlight' = inFlight
        BY <2>4 DEF WalWrite
      <3> QED
        BY <2>1, <2>2, <3>1, <1>StillSolo DEF SoloInv
    <2>5. CASE o.owner # NoProc
      <3>1. /\ o = walQueue[1] /\ 1 \in 1..Len(walQueue) /\ o \in FileOp
        <4>1. walQueue \in Seq(FileOp)
          BY <2>1 DEF TokInv, Inv, TypeOK, FileOp
        <4> QED
          BY SMT, <2>1, <4>1, HeadAndTail, SeqElement, SeqShape, EmptyOrNot
      <3>2. o.owner \in Proc /\ procs[o.owner].pc \in {"saving", "flushing"}
        BY <2>1, <2>5, <3>1 DEF OwnersWait, Awaiting, FileOp, TokInv, Inv
      <3>3. Behaves(o.owner) /\ Condemns(o.owner)
        <4>1. CASE At(o.owner, "flushing")
          <5>1. /\ Flushed(o.owner, IF ok THEN procs[o.owner].result ELSE "threw")
                /\ inFlight' = inFlight /\ procs[o.owner].pc \in {"flushed", "flushing"}
            BY <2>5, <4>1 DEF WalWrite, At
          <5> QED
            BY <3>2, <5>1, <1>FlushedBehaves
        <4>2. CASE ~At(o.owner, "flushing")
          <5>1. Saved(o.owner, ok)
            BY <2>5, <4>2 DEF WalWrite
          <5>2. procs[o.owner].pc \in Holding /\ procs[o.owner].pc # "idle"
            BY <3>2, <4>2, PlacesApart DEF At
          <5> QED
            BY <3>2, <5>1, <5>2, <1>ToFinalBehaves, <1>ThrowBehaves DEF Saved
        <4> QED
          BY <4>1, <4>2
      <3> QED
        BY <2>1, <2>3, <3>2, <3>3, <1>DropStep
    <2> QED
      BY <2>4, <2>5
  \* The re-authentication handler clears the cache while the new token is valid.
  <1>HandlerSolo.
      ASSUME SoloInv, TokInv', ReauthClear \/ ReauthResume \/ BackoffEnds,
             db'.tok = db.tok, db'.gen = db.gen
      PROVE  SoloInv'
    <2> USE <1>HandlerSolo
    <2>1. procs' = procs /\ pending' = pending /\ removing' = removing /\ live' = live /\ valid' = valid
      BY DEF ReauthClear, ReauthResume, BackoffEnds, provider, outbox, handlers
    <2>2. reauth' # "idle" => reauth # "idle"
      BY DEF ReauthClear, ReauthResume, BackoffEnds, handlers
    <2>3. inFlight' = inFlight \/ (inFlight' = NoProc /\ reauth # "idle")
      BY DEF ReauthClear, ReauthResume, BackoffEnds, ClearRefreshCache
    <2> QED
      BY <2>1, <2>2, <2>3, <1>StillSolo DEF SoloInv
  <1>TimeSolo.
      ASSUME SoloInv, TokInv', (\E t \in Token : Expire(t)) \/ (\E f \in Login : Revoke(f))
      PROVE  SoloInv'
    <2> USE <1>TimeSolo
    <2>1. /\ procs' = procs /\ pending' = pending /\ removing' = removing /\ db' = db
          /\ inFlight' = inFlight /\ reauth' = reauth
      BY DEF Expire, Revoke, outbox, handlers
    <2>2. reauth' # "idle" => db.tok \in valid'
      <3>1. CASE \E t \in Token : Expire(t)
        BY <2>1, <3>1 DEF Expire, SoloInv
      <3>2. CASE \E f \in Login : Revoke(f)
        BY <2>1, <3>2 DEF Revoke, SoloInv
      <3> QED
        BY <3>1, <3>2
    <2>3. live'[db.tok.f] \in {live[db.tok.f], 0}
      <3>1. live \in [Login -> 0..MaxRotation] /\ db.tok.f \in Login
        BY SoloTypes DEF SoloInv, TokInv, Inv, TypeOK, Token
      <3> QED
        BY <3>1 DEF Expire, Revoke
    <2> QED
      BY <2>1, <2>2, <2>3, <1>StillSolo
  <1>RestartSolo.
      ASSUME SoloInv, TokInv', Restart
      PROVE  SoloInv'
    <2> USE <1>RestartSolo
    <2>1. /\ procs' = [p \in Proc |-> Idle] /\ inFlight' = NoProc /\ reauth' = "idle"
          /\ removing' = FALSE /\ db' = db
      BY DEF Restart
    <2>2. \A p \in Proc : procs'[p].pc = "idle"
      BY <2>1, IdleNowhere
    <2>3. \A p \in Proc : Lone(p)'
      BY <2>2, IdleNowhere DEF Lone
    <2> QED
      BY <2>1, <2>3 DEF SoloInv
  <1>BeforeTransitive.
      ASSUME NEW a \in Token, NEW b \in Token, NEW c \in Token, Before(a, b), Before(b, c)
      PROVE  Before(a, c)
    <2> USE <1>BeforeTransitive
    <2>1. /\ a.f \in Nat /\ b.f \in Nat /\ c.f \in Nat
          /\ a.i \in Nat /\ b.i \in Nat /\ c.i \in Nat
      BY SMT, RotationAssumption DEF Token, Login
    <2> QED
      BY SMT, <2>1 DEF Before
  \* Nobody holds the token the row moves on to, nor a later one.
  <1>RowAdvances.
      ASSUME SoloInv, TokInv', Before(db.tok, db'.tok), db'.gen = db.gen, removing' = removing,
             \A q \in Proc : procs'[q].pc # "idle" =>
                procs[q].pc # "idle" /\ procs'[q].tok = procs[q].tok /\ procs'[q].gen = procs[q].gen,
             inFlight' = inFlight,
             \A q \in Proc : procs[q].pc \in Registered(q) => procs'[q].pc \in Registered(q),
             reauth' # "idle" => db'.tok \in valid'
      PROVE  SoloInv'
    <2> USE <1>RowAdvances
    <2>1. db.tok \in Token /\ db'.tok \in Token /\ inFlight \in Proc \cup {NoProc}
      <3>1. db'.gen # 0
        BY DEF SoloInv
      <3>2. RowFair(world', db')
        BY DEF TokInv
      <3> QED
        BY <3>1, <3>2, SoloTypes DEF RowFair, Known
    <2>2. ASSUME NEW q \in Proc, procs'[q].pc # "idle"
          PROVE  /\ procs'[q].gen = db'.gen /\ ~Before(db'.tok, procs'[q].tok)
                 /\ procs'[q].tok # db'.tok
      <3>1. procs[q].gen = db.gen /\ ~Before(db.tok, procs[q].tok)
        BY <2>2 DEF SoloInv, Lone
      <3>2. procs[q].tok \in Token
        BY <2>2, HeldSpent DEF SoloInv, Spent, Known
      <3> QED
        BY <2>1, <2>2, <3>1, <3>2, <1>BeforeTransitive
    <2>3. ASSUME NEW q \in Proc
          PROVE  Lone(q)'
      BY <2>2, IdleNowhere DEF Lone
    <2>4. inFlight' # NoProc => procs'[inFlight'].pc \in Registered(inFlight')
      BY <2>1 DEF SoloInv
    <2> QED
      BY <2>3, <2>4 DEF SoloInv
  \* A write of the row's token, by a refresh or by a flush.
  <1>WriteSolo.
      ASSUME SoloInv, TokInv', NEW p \in Proc, NEW pc, NEW r,
             \/ procs[p].pc = "persist" /\ pc = "persisted"
             \/ procs[p].pc = "flush" /\ pc = "flushed",
             procs' = [procs EXCEPT ![p].pc = pc, ![p].result = r],
             UNCHANGED <<provider, handlers>>, UNCHANGED outbox, inFlight' = inFlight,
             db'.gen = db.gen,
             db'.tok = db.tok \/ (Before(db.tok, db'.tok) /\ db.tok \notin valid)
      PROVE  SoloInv'
    <2> USE <1>WriteSolo
    <2>1. procs \in [Proc -> Local] /\ procs[p] \in Local
      BY SoloTypes
    <2> DEFINE l == procs[p]
               m == procs'[p]
    <2>2. /\ procs' = [procs EXCEPT ![p] = m]
          /\ m = [l EXCEPT !.pc = pc, !.result = r]
      BY <2>1
    <2>3. m.pc = pc /\ m.tok = l.tok /\ m.gen = l.gen
      BY <2>1, <2>2 DEF Local
    <2>4. /\ l.pc # "idle" /\ pc \notin Handling
          /\ pc \in Refreshing => l.pc \in Refreshing
          /\ pc \in Holding => l.pc \in Holding
          /\ l.pc \in Registered(p) => pc \in Registered(p)
      BY DEF Registered, Refreshing, Holding, Handling, Unrecorded
    <2>5. CASE db'.tok = db.tok
      <3>1. Behaves(p)
        BY <2>2, <2>3, <2>4, <1>MoveBehaves
      <3>2. Condemns(p)
        BY <2>3, <2>4 DEF Condemns
      <3> QED
        BY <2>5, <3>1, <3>2, <1>EntrySame, <1>DropStep
    <2>6. CASE Before(db.tok, db'.tok) /\ db.tok \notin valid
      <3>1. reauth' = "idle" /\ removing' = removing
        BY <2>6 DEF SoloInv, handlers
      <3>2. \A q \in Proc : q # p => procs'[q] = procs[q]
        BY <2>1, <2>2
      <3>3. \A q \in Proc : procs'[q].pc # "idle" =>
               procs[q].pc # "idle" /\ procs'[q].tok = procs[q].tok /\ procs'[q].gen = procs[q].gen
        BY <2>3, <2>4, <3>2
      <3>4. \A q \in Proc : procs[q].pc \in Registered(q) => procs'[q].pc \in Registered(q)
        BY <2>3, <2>4, <3>2
      <3> QED
        BY <2>6, <3>1, <3>3, <3>4, <1>RowAdvances
    <2> QED
      BY <2>5, <2>6
  <1>PersistSolo.
      ASSUME SoloInv, TokInv', NEW p \in Proc, Persist(p)
      PROVE  SoloInv'
    <2> USE <1>PersistSolo
    <2>1. /\ procs[p].pc = "persist" /\ UNCHANGED <<provider, handlers>> /\ UNCHANGED outbox
          /\ inFlight' = inFlight /\ TokInv /\ Inv'
      BY DEF Persist, At, SoloInv, TokInv
    <2>2. PICK u \in UpdateTokensIfRefreshTokenMatches(procs[p].gen, procs[p].tok, procs[p].new) :
             procs' = [procs EXCEPT ![p].pc = "persisted", ![p].result = u.result]
      BY DEF Persist
    <2>3. /\ db'.tok = db.tok \/ (db.tok = procs[p].tok /\ db'.tok = procs[p].new)
          /\ db'.gen = db.gen
      BY <2>1, PersistTok
    <2>4. Before(procs[p].tok, procs[p].new) /\ procs[p].tok \notin valid
      <3>1. procs[p].pc \in Unrecorded \cup {"saving"} /\ procs[p].pc # "idle"
        BY <2>1 DEF Unrecorded
      <3> QED
        BY <2>1, <3>1, HandHolds, HeldSpent, WorldType DEF Spent
    <2>5. db'.tok = db.tok \/ (Before(db.tok, db'.tok) /\ db.tok \notin valid)
      BY <2>3, <2>4
    <2> QED
      BY <2>1, <2>2, <2>3, <2>5, <1>WriteSolo
  <1>FlushWriteSolo.
      ASSUME SoloInv, TokInv', NEW p \in Proc, FlushWrite(p)
      PROVE  SoloInv'
    <2> USE <1>FlushWriteSolo
    <2>1. /\ procs[p].pc = "flush" /\ UNCHANGED <<provider, handlers>> /\ UNCHANGED outbox
          /\ inFlight' = inFlight /\ TokInv /\ Inv'
      BY DEF FlushWrite, At, SoloInv, TokInv
    <2>2. \E r : procs' = [procs EXCEPT ![p].pc = "flushed", ![p].result = r]
      BY DEF FlushWrite
    <2>3. /\ db'.tok = db.tok \/ (Before(db.tok, db'.tok) /\ db.tok \notin valid)
          /\ db'.gen = db.gen
      BY <2>1, FlushWriteTok
    <2> QED
      BY <2>1, <2>2, <2>3, <1>WriteSolo
  <1>ReauthenticateSolo.
      ASSUME SoloInv, TokInv', Reauthenticate
      PROVE  SoloInv'
    <2> USE <1>ReauthenticateSolo
    <2>1. /\ NewLogin /\ db' = [db EXCEPT !.tok = FirstToken, !.reauth = FALSE]
          /\ inFlight' = inFlight /\ removing' = removing /\ TokInv /\ Inv' /\ db.gen # 0
      BY DEF Reauthenticate, SoloInv, TokInv
    <2>2. db'.tok = FirstToken /\ db'.gen = db.gen
      BY <2>1 DEF TokInv, Inv, TypeOK
    <2>3. Before(db.tok, db'.tok)
      BY <2>1, NewRowTok
    <2>4. procs' = Witness(FirstToken) /\ db'.tok \in valid'
      BY SMT, <2>1, <2>2 DEF NewLogin
    <2>5. ASSUME NEW q \in Proc
          PROVE  /\ procs'[q].pc = procs[q].pc
                 /\ procs'[q].pc # "idle" => procs'[q].tok = procs[q].tok /\ procs'[q].gen = procs[q].gen
      <3>1. procs[q] \in Local
        BY SoloTypes
      <3>2. procs'[q] = IF procs[q].pc = "idle" THEN Idle
                        ELSE [procs[q] EXCEPT !.young = @ \cup {FirstToken}]
        BY <2>4 DEF Witness, At
      <3>3. CASE procs[q].pc = "idle"
        BY <3>2, <3>3, IdleNowhere
      <3>4. CASE procs[q].pc # "idle"
        BY <3>1, <3>2, <3>4 DEF Local
      <3> QED
        BY <3>3, <3>4
    <2> QED
      BY <2>1, <2>2, <2>3, <2>4, <2>5, <1>RowAdvances
  \* The provider replaces the token a process exchanges, answered or not.
  <1>ReplacedSolo.
      ASSUME SoloInv, TokInv', NEW p \in Proc, NEW t \in Token, procs[p].pc = "exchange",
             procs[p].tok = t, live[t.f] = t.i, Loses(p, t), valid \subseteq valid',
             db' = db, pending' = pending, reauth' = reauth, removing' = removing,
             \A q \in Proc : procs'[q].pc # "idle" =>
                procs[q].pc # "idle" /\ procs'[q].tok = procs[q].tok /\ procs'[q].gen = procs[q].gen,
             \A q \in Proc : q # p => procs'[q].pc = procs[q].pc,
             \/ procs'[p].pc = "minted" /\ inFlight' = inFlight
             \/ procs'[p].pc = "failed" /\ inFlight' = Refused(p)
      PROVE  SoloInv'
    <2> USE <1>ReplacedSolo
    <2>1. TokInv /\ db.tok \in Token /\ inFlight \in Proc \cup {NoProc} /\ NoProc \notin Proc
          /\ Known(world, db.tok) /\ world.live = live
      BY SoloTypes, WorldType DEF SoloInv
    <2>2. /\ "minted" \in Registered(p) /\ "minted" \notin Handling /\ "minted" # "idle"
          /\ "failed" \notin Refreshing /\ "failed" \notin Handling /\ "failed" # "idle"
          /\ p \in Request => "failed" \in Registered(p)
          /\ "exchange" \in Refreshing /\ "exchange" # "idle"
      BY DEF Registered, Refreshing, Holding, Handling, Unrecorded
    <2>3. inFlight' = inFlight \/ (inFlight = p /\ inFlight' = NoProc)
      BY DEF Refused
    <2>4. inFlight' = p => procs'[p].pc \in Registered(p)
      BY <2>1, <2>2 DEF Refused, Proc
    <2>5. inFlight' # NoProc => procs'[inFlight'].pc \in Registered(inFlight')
      <3>1. inFlight # NoProc => inFlight \in Proc /\ procs[inFlight].pc \in Registered(inFlight)
        BY <2>1 DEF SoloInv
      <3> QED
        BY <2>3, <2>4, <3>1
    <2>6. ASSUME live[db.tok.f] # db.tok.i
          PROVE  t.f # db.tok.f /\ live'[db.tok.f] = live[db.tok.f]
      <3>1. /\ t.i \in Nat \ {0} /\ db.tok.i \in Nat /\ t.f \in Login /\ db.tok.f \in Login
            /\ live \in [Login -> 0..MaxRotation] /\ live[db.tok.f] \in Nat
        <4>1. live \in [Login -> 0..MaxRotation]
          BY <2>1 DEF TokInv, Inv, TypeOK
        <4> QED
          BY SMT, <2>1, <4>1, RotationAssumption DEF Token
      <3>2. ~Before(db.tok, t)
        BY <2>2 DEF SoloInv, Lone
      <3>3. live[db.tok.f] # 0 => db.tok.i <= live[db.tok.f]
        BY <2>1 DEF Known
      <3>4. t.f # db.tok.f
        <4> SUFFICES ASSUME t.f = db.tok.f PROVE FALSE
          OBVIOUS
        <4>1. ~(db.tok.i < t.i)
          BY <3>2 DEF Before
        <4> QED
          BY SMT, <2>6, <3>1, <3>3, <4>1
      <3> QED
        BY <3>1, <3>4 DEF Loses
    <2>7. ASSUME NEW q \in Proc
          PROVE  Lone(q)'
      <3>1. procs'[q].pc # "idle" => procs'[q].gen = db'.gen /\ ~Before(db'.tok, procs'[q].tok)
        BY DEF SoloInv, Lone
      <3>2. procs'[q].tok = db'.tok /\ procs'[q].pc \in Refreshing => inFlight' = q
        <4>1. procs'[q].pc \in Refreshing => procs[q].pc \in Refreshing /\ procs'[q].pc # "idle"
          BY <2>2, IdleNowhere
        <4>2. procs'[q].tok = db.tok /\ procs'[q].pc \in Refreshing => inFlight = q
          BY <4>1 DEF SoloInv, Lone
        <4>3. procs'[q].pc \in Refreshing => (inFlight = q => inFlight' = q)
          BY ZenonT(30), <2>2, <2>3
        <4> QED
          BY <4>2, <4>3
      <3>3. ASSUME procs'[q].tok = db'.tok, procs'[q].pc \in Handling
            PROVE  Doomed(q)'
        <4>1. q # p /\ procs'[q].pc = procs[q].pc /\ procs'[q].pc # "idle"
          BY <2>2, <3>3, IdleNowhere
        <4>2. Doomed(q)
          BY <3>3, <4>1 DEF SoloInv, Lone
        <4>3. live[db.tok.f] # db.tok.i
          BY <4>2 DEF Doomed
        <4>4. t.f # db.tok.f /\ live'[db.tok.f] = live[db.tok.f]
          BY <2>6, <4>3
        <4>5. Newest' = Newest /\ t # db.tok
          BY <4>4 DEF Newest
        <4>6. ASSUME NEW x \in Proc, procs'[x].pc \in Holding
              PROVE  procs'[x].tok # db'.tok
          <5>1. procs'[x].pc # "idle" /\ procs'[x].tok = procs[x].tok
            BY <4>6, IdleNowhere
          <5>2. CASE x = p
            BY <4>5, <5>1, <5>2
          <5>3. CASE x # p
            BY <4>2, <4>6, <5>1, <5>3 DEF Doomed
          <5> QED
            BY <5>2, <5>3
        <4> QED
          BY <4>1, <4>2, <4>3, <4>4, <4>5, <4>6 DEF Doomed
      <3> QED
        BY <3>1, <3>2, <3>3 DEF Lone
    <2>8. reauth' # "idle" => db'.tok \in valid'
      BY DEF SoloInv
    <2> QED
      BY <2>5, <2>7, <2>8 DEF SoloInv
  \* The provider refuses the token, or nobody answers.
  <1>RefusedBehaves.
      ASSUME SoloInv, NEW p \in Proc, procs[p].pc = "exchange", inFlight' = Refused(p),
             NEW pc, Goto(p, pc),
             \/ pc = "failed"
             \/ pc = "rejected" /\ live[procs[p].tok.f] # procs[p].tok.i
      PROVE  Behaves(p) /\ Condemns(p)
    <2> USE <1>RefusedBehaves
    <2>1. procs[p] \in Local /\ procs' = [procs EXCEPT ![p] = procs'[p]]
          /\ procs'[p] = [procs[p] EXCEPT !.pc = pc]
      BY SoloTypes DEF Goto
    <2>2. procs'[p].pc = pc /\ procs'[p].tok = procs[p].tok /\ procs'[p].gen = procs[p].gen
      BY <2>1 DEF Local
    <2>3. /\ pc \notin Refreshing /\ pc \notin Holding /\ "failed" \notin Handling
          /\ p \in Request => pc \in Registered(p)
          /\ "exchange" \in Refreshing /\ "exchange" # "idle"
      BY DEF Registered, Refreshing, Holding, Handling, Unrecorded
    <2>4. /\ inFlight' = inFlight \/ (inFlight \in {NoProc, p} /\ inFlight' \in {NoProc, p})
          /\ inFlight' = p => pc \in Registered(p)
      BY <2>3, SoloTypes DEF Refused, Proc
    <2>5. Behaves(p)
      BY <2>1, <2>2, <2>3, <2>4 DEF Behaves, SoloInv, Lone
    <2>6. Condemns(p)
      <3> SUFFICES ASSUME procs'[p].pc \in Handling, procs[p].tok = db.tok
                   PROVE  /\ live[db.tok.f] # db.tok.i
                          /\ \A q \in Proc : q # p /\ procs[q].pc \in Holding => procs[q].tok # db.tok
                          /\ pc = "rejected"
        BY <2>2 DEF Condemns
      <3>1. pc = "rejected" /\ live[db.tok.f] # db.tok.i
        BY <2>2, <2>3
      <3>2. inFlight = p
        BY <2>3 DEF SoloInv, Lone
      <3>3. ASSUME NEW q \in Proc, q # p, procs[q].pc \in Holding
            PROVE  procs[q].tok # db.tok
        <4>1. procs[q].pc \in Refreshing
          BY <3>3, IdleNowhere
        <4> QED
          BY <3>2, <3>3, <4>1 DEF SoloInv, Lone
      <3> QED
        BY <3>1, <3>3
    <2> QED
      BY <2>5, <2>6
  <1>ExchangeSolo.
      ASSUME SoloInv, TokInv', NEW p \in Proc, Exchange(p)
      PROVE  SoloInv'
    <2> USE <1>ExchangeSolo
    <2> DEFINE t == procs[p].tok
               next == [f |-> t.f, i |-> t.i + 1]
    <2>1. /\ procs[p].pc = "exchange" /\ procs[p].pc # "idle" /\ logins' = logins /\ db' = db
          /\ UNCHANGED outbox /\ UNCHANGED handlers
      BY DEF Exchange, At
    <2>2. pending' = pending /\ reauth' = reauth /\ removing' = removing
      BY <2>1 DEF outbox, handlers
    <2>3. t \in Token /\ procs \in [Proc -> Local] /\ next.i = t.i + 1
      BY <2>1, HeldSpent, SoloTypes DEF SoloInv, Spent, Known
    <2>4. CASE /\ live[t.f] = t.i /\ live' = [live EXCEPT ![t.f] = next.i]
               /\ valid' = valid \cup {next} /\ inFlight' = inFlight
               /\ procs' = [Witness(next) EXCEPT ![p].pc = "minted", ![p].new = next]
      <3>1. ASSUME NEW q \in Proc
            PROVE  /\ q # p => procs'[q].pc = procs[q].pc
                   /\ q = p => procs'[q].pc = "minted"
                   /\ procs'[q].pc # "idle" =>
                        procs[q].pc # "idle" /\ procs'[q].tok = procs[q].tok
                        /\ procs'[q].gen = procs[q].gen
        <4> HIDE DEF next
        <4>1. procs[q] \in Local
          BY <2>3
        <4>2. procs'[q] = IF q = p THEN [Witness(next)[p] EXCEPT !.pc = "minted", !.new = next]
                          ELSE Witness(next)[q]
          BY <2>4 DEF Witness
        <4>3. Witness(next)[q] = IF procs[q].pc = "idle" THEN Idle
                                 ELSE [procs[q] EXCEPT !.young = @ \cup {next}]
          BY DEF Witness, At
        <4>4. CASE procs[q].pc = "idle"
          BY <2>1, <4>2, <4>3, <4>4, IdleNowhere
        <4>5. CASE procs[q].pc # "idle"
          <5>1. Witness(next)[q] = [procs[q] EXCEPT !.young = @ \cup {next}]
            BY <4>3, <4>5
          <5>2. CASE q = p
            BY SMT, <4>1, <4>2, <4>5, <5>1, <5>2 DEF Local
          <5>3. CASE q # p
            BY <4>1, <4>2, <4>5, <5>1, <5>3 DEF Local
          <5> QED
            BY <5>2, <5>3
        <4> QED
          BY <4>4, <4>5
      <3>2. Loses(p, t) /\ valid \subseteq valid'
        BY <2>3, <2>4 DEF Loses
      <3> QED
        BY <2>1, <2>2, <2>3, <2>4, <3>1, <3>2, <1>ReplacedSolo
    <2>5. CASE /\ live[t.f] = t.i /\ live' = [live EXCEPT ![t.f] = next.i]
               /\ Goto(p, "failed") /\ inFlight' = Refused(p) /\ valid' = valid
      <3>1. ASSUME NEW q \in Proc
            PROVE  /\ q # p => procs'[q] = procs[q]
                   /\ q = p => procs'[q].pc = "failed" /\ procs'[q].tok = procs[q].tok
                               /\ procs'[q].gen = procs[q].gen
        BY <2>3, <2>5 DEF Goto, Local
      <3>2. Loses(p, t) /\ valid \subseteq valid'
        BY <2>3, <2>5 DEF Loses
      <3>3. \A q \in Proc : procs'[q].pc # "idle" =>
               procs[q].pc # "idle" /\ procs'[q].tok = procs[q].tok /\ procs'[q].gen = procs[q].gen
        BY <2>1, <3>1
      <3>4. \A q \in Proc : q # p => procs'[q].pc = procs[q].pc
        BY <3>1
      <3> QED
        BY <2>1, <2>2, <2>3, <2>5, <3>1, <3>2, <3>3, <3>4, <1>ReplacedSolo
    <2>6. CASE /\ \/ live[t.f] # t.i /\ Goto(p, "rejected")
                  \/ Goto(p, "failed")
               /\ inFlight' = Refused(p) /\ UNCHANGED <<live, valid>>
      <3>1. UNCHANGED <<provider, db, outbox, handlers>>
        BY <2>1, <2>6 DEF provider
      <3>2. Behaves(p) /\ Condemns(p)
        BY <2>1, <2>6, <1>RefusedBehaves
      <3> QED
        BY <3>1, <3>2, <1>OwnStep
    <2> QED
      BY <2>4, <2>5, <2>6 DEF Exchange
  <1>1. TokInv' /\ Inv' /\ TokInv
    BY TokNext DEF SoloInv, TokInv
  <1>2. ASSUME NEW p \in Proc, Refresh(p) PROVE SoloInv'
    <2>1. CASE Flag(p)
      BY <1>1, <2>1, QuarantineTok, <1>QuarantineSolo
    <2> QED
      BY <1>1, <1>2, <2>1, <1>ExchangeSolo, <1>MintedSolo, <1>PersistSolo, <1>PersistedSolo,
         <1>LostCasSolo, <1>PersistThrewSolo, <1>EndSolo, <1>RejectedSolo, <1>FlushWriteSolo, <1>FlushDoneSolo
      DEF Refresh
  <1>3. ASSUME NEW p \in Request, RequestStep(p) PROVE SoloInv'
    <2>1. p \in Proc
      BY DEF Proc
    <2>2. CASE Pause(p)
      BY <1>1, <2>1, <2>2, QuarantineTok, <1>QuarantineSolo
    <2> QED
      BY <1>1, <1>3, <2>1, <2>2, <1>BeginSolo, <1>JoinSolo, <1>ApproachSolo, <1>RereadSolo
      DEF RequestStep
  <1>4. ASSUME NEW p \in Scheduler, SelectRow(p) \/ RefreshRow(p) PROVE SoloInv'
    <2>1. p \in Proc
      BY DEF Proc
    <2> QED
      BY <1>1, <1>4, <2>1, <1>BeginSolo, <1>ApproachSolo
  <1>5. CASE Handlers
    <2>1. "clear" \notin Operator /\ "remove" \notin Operator
      OBVIOUS
    <2>2. ~OperatorClear /\ ~DeleteAccount
      BY <2>1 DEF OperatorClear, DeleteAccount
    <2>3. ~CleanUp /\ ~RecreateAccount
      BY DEF CleanUp, RecreateAccount, SoloInv
    <2>4. CASE ReauthClear
      BY <1>1, <2>4, <1>HandlerSolo DEF ReauthClear
    <2>5. CASE ReauthResume
      BY <1>1, <2>5, ReauthResumeTok, <1>HandlerSolo
    <2> QED
      BY <1>1, <1>5, <2>2, <2>3, <2>4, <2>5, <1>ReauthenticateSolo DEF Handlers
  <1>6. CASE BackoffEnds
    BY <1>1, <1>6, <1>HandlerSolo DEF BackoffEnds
  <1>7. CASE UNCHANGED vars
    <2>1. /\ procs' = procs /\ pending' = pending /\ removing' = removing /\ db' = db
          /\ reauth' = reauth /\ inFlight' = inFlight /\ live' = live /\ valid' = valid
      BY <1>7 DEF vars
    <2> QED
      BY <1>1, <2>1, <1>StillSolo DEF SoloInv
  <1> QED
    BY <1>1, <1>2, <1>3, <1>4, <1>5, <1>6, <1>7, <1>WalWriteSolo, <1>RestartSolo, <1>TimeSolo
    DEF Next

\* "microtask atomicity is what deduplicates concurrent callers" (token-manager.ts
\* 811), for any number of requests, logins and rotations and with every fault, as
\* long as the operator only re-authenticates: whoever is on its way with the row's
\* token has its promise registered.  Forgetting the promise is harmless in the
\* re-authentication handler, because the row's token is valid until it ends, while
\* whatever a process holds has expired.
THEOREM OneExchangeAtATime ==
    ASSUME Operator \subseteq {"reauth"}
    PROVE  Spec => []NoDoubleExchange
  <1>1. SoloInv => NoDoubleExchange
    <2> SUFFICES ASSUME SoloInv, NEW p \in Proc, NEW q \in Proc,
                        procs[p].pc = "exchange", procs[q].pc = "exchange",
                        Owns(procs[p].gen, procs[p].tok), Owns(procs[q].gen, procs[q].tok)
                 PROVE  p = q
      BY DEF NoDoubleExchange
    <2>1. "exchange" \in Refreshing
      BY DEF Refreshing
    <2> QED
      BY <2>1 DEF SoloInv, Lone, Owns
  <1>2. SoloInv /\ [Next]_vars => SoloInv'
    BY SoloNext
  <1> QED
    BY <1>1, <1>2, SoloInit, PTL DEF Spec

-----------------------------------------------------------------------------
(* The quarantine *)

\* The account is flagged or paused by this step.
Quarantines ==
    db'.gen = db.gen /\ ((db'.reauth /\ ~db.reauth) \/ (db'.paused /\ ~db.paused))

\* "Recover ... instead of condemning a healthy account" (token-manager.ts 1032), for
\* any number of requests, logins and rotations and with every fault, as long as the
\* operator only re-authenticates: a process that is refused the row's own token has
\* seen that the provider no longer honours it, and since it was alone with that token
\* and nothing of its generation awaits a write, nobody has the successor either.
THEOREM OnlyLostAccountsAreQuarantined ==
    ASSUME Operator \subseteq {"reauth"}
    PROVE  Spec => QuarantineJustified
  \* Who is about to condemn the row's own token finds nothing left of its login.
  <1>NothingLeft.
      ASSUME SoloInv, NEW p \in Proc, procs[p].pc \in {"flag", "pause"},
             Owns(procs[p].gen, procs[p].tok)
      PROVE  ~Healthy
    <2> USE <1>NothingLeft
    <2>1. procs[p].pc \in Handling /\ procs[p].pc # "rejected"
      BY DEF Handling
    <2>2. Doomed(p)
      BY <2>1 DEF SoloInv, Lone, Owns
    <2>3. live[db.tok.f] # db.tok.i /\ ~(pending.gen = db.gen /\ pending.tok = Newest)
      BY <2>1, <2>2 DEF Doomed
    <2>4. db.tok # Newest
      <3>1. Newest.i = live[db.tok.f]
        BY DEF Newest
      <3> QED
        BY <2>3, <3>1
    <2>5. ~InHand(Newest)
      <3> SUFFICES ASSUME NEW q \in Proc, procs[q].new = Newest, procs[q].pc \in Holding
                   PROVE  FALSE
        BY PlacesApart DEF InHand
      <3> QED
        BY <2>2, <2>3, StaleHand DEF Doomed
    <2> QED
      BY <2>3, <2>4, <2>5 DEF Healthy, Kept
  <1>QuarantineOwns.
      ASSUME SoloInv, NEW p \in Proc, Flag(p) \/ Pause(p), Healthy
      PROVE  db' = db
    <2> USE <1>QuarantineOwns
    <2>1. procs[p].pc \in {"flag", "pause"}
      BY DEF Flag, Pause, At
    <2>2. ~Owns(procs[p].gen, procs[p].tok)
      BY <2>1, <1>NothingLeft
    <2>3. /\ Owns(procs[p].gen, procs[p].tok) \in BOOLEAN
          /\ (Owns(procs[p].gen, procs[p].tok) /\ ~db.paused) \in BOOLEAN
      BY DEF Owns
    <2>4. CASE Flag(p)
      <3>1. PICK u \in FlagRequiresReauthIfTokenMatches(procs[p].gen, procs[p].tok) : db' = u.row
        BY <2>4 DEF Flag
      <3> QED
        BY <2>2, <2>3, <3>1, UpdatesOutcome DEF FlagRequiresReauthIfTokenMatches
    <2>5. CASE Pause(p)
      <3>1. PICK u \in PauseIfActive(procs[p].gen, procs[p].tok) : db' = u.row
        BY <2>5 DEF Pause
      <3> QED
        BY <2>2, <2>3, <3>1, UpdatesOutcome DEF PauseIfActive
    <2> QED
      BY <2>4, <2>5
  \* The writes of tokens, and the handler's, only lift a quarantine.
  <1>OthersLift.
      ASSUME SoloInv, (\E p \in Proc : Persist(p) \/ FlushWrite(p)) \/ Reauthenticate \/ ReauthResume
      PROVE  ~Quarantines
    <2> USE <1>OthersLift
    <2>1. db \in Row
      BY DEF SoloInv, TokInv, Inv, TypeOK, Row
    <2>2. ASSUME NEW t PROVE LET new == [db EXCEPT !.tok = t, !.reauth = FALSE] IN
                               ~new.reauth /\ new.paused = db.paused
      BY <2>1 DEF Row
    <2>3. /\ ~[db EXCEPT !.paused = FALSE].paused
          /\ [db EXCEPT !.paused = FALSE].reauth = db.reauth
      BY <2>1 DEF Row
    <2>4. ASSUME NEW gen, NEW expected, NEW t,
                 NEW u \in UpdateTokensIfRefreshTokenMatches(gen, expected, t), db' = u.row
          PROVE  ~Quarantines
      <3>1. Owns(gen, expected) \in BOOLEAN
        BY DEF Owns
      <3>2. u \in Updates(Owns(gen, expected), [db EXCEPT !.tok = t, !.reauth = FALSE])
        BY <2>4 DEF UpdateTokensIfRefreshTokenMatches
      <3>3. u.row = db \/ u.row = [db EXCEPT !.tok = t, !.reauth = FALSE]
        BY <3>1, <3>2, UpdatesOutcome
      <3> QED
        BY <2>2, <2>4, <3>3 DEF Quarantines
    <2>5. CASE \E p \in Proc : Persist(p)
      BY <2>4, <2>5 DEF Persist
    <2>6. CASE \E p \in Proc : FlushWrite(p)
      BY <2>4, <2>6 DEF FlushWrite
    <2>7. CASE Reauthenticate
      <3>1. db' = [db EXCEPT !.tok = FirstToken, !.reauth = FALSE]
        BY <2>7 DEF Reauthenticate
      <3> QED
        BY <2>2, <3>1 DEF Quarantines
    <2>8. CASE ReauthResume
      <3>1. PICK u \in Updates(db.gen # 0 /\ db.paused, [db EXCEPT !.paused = FALSE]) : db' = u.row
        BY <2>8 DEF ReauthResume
      <3>2. (db.gen # 0 /\ db.paused) \in BOOLEAN
        OBVIOUS
      <3>3. db' = db \/ db' = [db EXCEPT !.paused = FALSE]
        BY <3>1, <3>2, UpdatesOutcome
      <3> QED
        BY <2>3, <3>3 DEF Quarantines
    <2> QED
      BY <2>5, <2>6, <2>7, <2>8
  <1>JustifiedNext.
      ASSUME Operator \subseteq {"reauth"}, SoloInv, [Next]_vars, Healthy
      PROVE  ~Quarantines
    <2> USE <1>JustifiedNext
    <2>1. CASE db' = db
      BY <2>1 DEF Quarantines
    <2>2. ASSUME NEW p \in Proc, Refresh(p) PROVE ~Quarantines
      <3>1. CASE Exchange(p) \/ Minted(p) \/ Persisted(p) \/ LostCas(p) \/ PersistThrew(p)
                 \/ Final(p) \/ Failed(p) \/ Rejected(p) \/ FlushDone(p)
        <4>1. db' = db
          BY <3>1 DEF Exchange, Minted, Persisted, LostCas, PersistThrew, Final, Failed,
             Rejected, FlushDone
        <4> QED
          BY <2>1, <4>1
      <3> QED
        BY <2>1, <2>2, <3>1, <1>QuarantineOwns, <1>OthersLift DEF Refresh
    <2>3. ASSUME NEW p \in Request, RequestStep(p) PROVE ~Quarantines
      <3>1. p \in Proc
        BY DEF Proc
      <3>2. CASE Start(p) \/ Join(p) \/ InBackoff(p) \/ CheckRow(p) \/ AdoptPending(p) \/ Reread(p)
        <4>1. db' = db
          BY <3>2 DEF Start, Join, InBackoff, CheckRow, AdoptPending, Reread
        <4> QED
          BY <2>1, <4>1
      <3> QED
        BY <2>1, <2>3, <3>1, <3>2, <1>QuarantineOwns DEF RequestStep
    <2>4. ASSUME NEW p \in Scheduler, SelectRow(p) \/ RefreshRow(p) PROVE ~Quarantines
      BY <2>1, <2>4 DEF SelectRow, RefreshRow
    <2>5. CASE Handlers
      <3>1. "clear" \notin Operator /\ "remove" \notin Operator
        OBVIOUS
      <3>2. ~OperatorClear /\ ~DeleteAccount
        BY <3>1 DEF OperatorClear, DeleteAccount
      <3>3. ~CleanUp /\ ~RecreateAccount
        BY DEF CleanUp, RecreateAccount, SoloInv
      <3>4. CASE ReauthClear
        BY <2>1, <3>4 DEF ReauthClear
      <3> QED
        BY <2>5, <3>2, <3>3, <3>4, <1>OthersLift DEF Handlers
    <2>6. CASE \/ UNCHANGED vars \/ Restart \/ BackoffEnds
               \/ (\E ok \in BOOLEAN : WalWrite(ok))
               \/ (\E t \in Token : Expire(t)) \/ (\E f \in Login : Revoke(f))
      <3>1. db' = db
        BY <2>6 DEF vars, Restart, BackoffEnds, WalWrite, Expire, Revoke
      <3> QED
        BY <2>1, <3>1
    <2> QED
      BY <2>2, <2>3, <2>4, <2>5, <2>6 DEF Next
  <1>1. SoloInv /\ [Next]_vars => SoloInv'
    BY SoloNext
  <1>2. SoloInv /\ [Next]_vars =>
          [~(/\ db'.gen = db.gen
             /\ (db'.reauth /\ ~db.reauth) \/ (db'.paused /\ ~db.paused)
             /\ Healthy
             /\ db.tok.f \notin cleared)]_vars
    BY <1>JustifiedNext DEF Quarantines
  <1> QED
    BY <1>1, <1>2, SoloInit, PTL DEF Spec, QuarantineJustified

=============================================================================
