--------------------------- MODULE CodexWebSocket ---------------------------
(***************************************************************************)
(* The Responses WebSocket transport of the Codex provider                  *)
(* (packages/proxy/src/codex-websocket-transport.ts): a pool of sockets     *)
(* shared by the turns of all conversations, one turn on a socket at a      *)
(* time, with HTTP as the fallback until a frame is written and never       *)
(* after.                                                                  *)
(*                                                                         *)
(* A step is what runs between two awaits.  A lane is an account and a      *)
(* conversation; with the model and the credentials (ident) it makes the    *)
(* key of a pool entry.  A socket is named after the turn that opened it,   *)
(* and a turn that holds no socket, or whose entry is closed, has conn None: *)
(* every later call on a closed entry returns at once.  Which idle entries  *)
(* the sweep finds too old or no longer allowed is a free choice.           *)
(***************************************************************************)
EXTENDS Naturals, Sequences, FiniteSets, SequencesExt

CONSTANTS
    Turn,          \* calls of tryRequest
    Lane,          \* laneKey: an account and a conversation
    Ident,         \* the model and the credentials of a request
    Identities,    \* those the requests of a lane come with
    Account,
    AccountOf,     \* the account of a lane
    Limits,        \* the settings of maxGlobal and maxPerAccount
    MaxFrames,     \* MAX_BUFFERED_FRAMES
    None

ASSUME TransportAssumption ==
    /\ IsFiniteSet(Turn)
    /\ AccountOf \in [Lane -> Account]
    /\ Identities \in [Lane -> SUBSET Ident]
    /\ Limits \subseteq [global : Nat \ {0}, perAccount : Nat \ {0}]
    /\ MaxFrames \in Nat \ {0}
    /\ None \notin Turn

VARIABLES
    limits,  \* maxGlobal and maxPerAccount
    conns,   \* the entry of every socket that has been opened and not closed
    pool,    \* the entries of the pool, in the order of lastUsedAt
    turns,
    opening, \* openingLanes, and the lanes of openingReservations
    sticky,  \* the lanes of stickyHttp
    shuttingDown,
    passedOver \* history: the lanes on which a busy entry was taken for a dead one

vars == <<limits, conns, pool, turns, opening, sticky, shuttingDown, passedOver>>

-----------------------------------------------------------------------------
Key == {k \in [lane : Lane, ident : Ident] : k.ident \in Identities[k.lane]}

Message == [of : Turn, id : Turn \cup {None},
            type : {"created", "delta", "completed", "failed", "malformed"}]

PoolEntry ==
    [key : Key, ready : {"open", "closing"}, busy : BOOLEAN,
     active : Turn \cup {None}, last : Turn \cup {None}, retire : BOOLEAN,
     stage : {"quiet", "asked", "created"}]

NoEntry == [key |-> None, ready |-> "none"]

NewEntry(k) ==
    [key |-> k, ready |-> "open", busy |-> FALSE, active |-> None,
     last |-> None, retire |-> FALSE, stage |-> "quiet"]

\* A turn: the request, its receipt and, while live, its ActiveRequest.
TurnState ==
    [pc : {"idle", "parsing", "opening", "opened", "waiting", "streaming", "done"},
     key : Key \cup {None}, conn : Turn \cup {None}, live : BOOLEAN,
     written : BOOLEAN, stuck : BOOLEAN, aborted : BOOLEAN,
     rid : Turn \cup {None}, ingress : Seq(Message), buf : Nat,
     foreign : BOOLEAN, replayable : BOOLEAN]

NewTurn ==
    [pc |-> "idle", key |-> None, conn |-> None, live |-> FALSE,
     written |-> FALSE, stuck |-> FALSE, aborted |-> FALSE, rid |-> None,
     ingress |-> <<>>, buf |-> 0, foreign |-> FALSE, replayable |-> FALSE]

\* Entries and turns have their shapes, and a turn never holds more frames,
\* decoded or not, than MAX_BUFFERED_FRAMES.
TypeOK ==
    /\ limits \in Limits
    /\ conns \in [Turn -> PoolEntry \cup {NoEntry}]
    /\ pool \in Seq(Turn)
    /\ turns \in [Turn -> TurnState]
    /\ \A t \in Turn : turns[t].buf + Len(turns[t].ingress) <= MaxFrames
    /\ opening \subseteq Lane
    /\ sticky \subseteq Lane
    /\ shuttingDown \in BOOLEAN
    /\ passedOver \subseteq Lane

Init ==
    /\ limits \in Limits
    /\ conns = [c \in Turn |-> NoEntry]
    /\ pool = <<>>
    /\ turns = [t \in Turn |-> NewTurn]
    /\ opening = {}
    /\ sticky = {}
    /\ shuttingDown = FALSE
    /\ passedOver = {}

-----------------------------------------------------------------------------
(***************************************************************************)
(* The helpers that several handlers call, as functions of the state they   *)
(* change.                                                                  *)
(***************************************************************************)
Current == [conns |-> conns, pool |-> pool, turns |-> turns, sticky |-> sticky]

Become(S) ==
    /\ conns' = S.conns
    /\ pool' = S.pool
    /\ turns' = S.turns
    /\ sticky' = S.sticky
    /\ UNCHANGED limits

Without(S, k) == SelectSeq(S.pool, LAMBDA c : S.conns[c].key # k)

InPool(S, k) == \E c \in Range(S.pool) : S.conns[c].key = k

\* The end of a call: HTTP takes over ("http"), the caller tries the next
\* candidate ("next"), the call throws ("error"), it answers with the response
\* that forbids a replay, or the stream has been read.  What remains of the
\* turn is whether it was given away after its frame was written.
End(S, t, out) ==
    [S EXCEPT !.turns[t] =
        [NewTurn EXCEPT !.pc = "done", !.foreign = S.turns[t].foreign,
                        !.replayable = /\ S.turns[t].written
                                       /\ out \in {"http", "next"}]]

\* active.closed = true: the frames not yet decoded are dropped, and those
\* not yet read too unless the stream is drained.
Close(turn, drain) ==
    [turn EXCEPT !.live = FALSE, !.ingress = <<>>, !.rid = None,
                 !.buf = IF drain THEN @ ELSE 0]

\* finishActive, with the touchEntry at its end: the entry is the last used,
\* and it takes the place of whichever entry the pool has under its key.
FinishActive(S, t, drain) ==
    LET c == S.turns[t].conn
        k == S.conns[c].key
        R == [S EXCEPT !.turns[t] = Close(@, drain)]
    IN  IF ~S.turns[t].live THEN S
        ELSE IF c = None THEN R
        ELSE [R EXCEPT !.conns[c].busy = FALSE,
                       !.conns[c].active = None,
                       !.pool = IF InPool(S, k) THEN Append(Without(S, k), c)
                                ELSE @]

\* evict: the pool loses whatever it has under the key of the entry.
Evict(S, c, force) ==
    LET e == S.conns[c]
    IN  IF c = None THEN S
        ELSE IF e.ready = "none" \/ (e.busy /\ ~force) THEN S
        ELSE [S EXCEPT !.conns[c] = NoEntry,
                       !.pool = Without(S, e.key),
                       !.turns = [t \in Turn |->
                           IF S.turns[t].conn # c THEN S.turns[t]
                           ELSE [(IF e.active = t THEN Close(S.turns[t], FALSE)
                                  ELSE S.turns[t]) EXCEPT !.conn = None]]]

\* evict of each of a set of idle entries.
EvictIdle(S, cs) ==
    LET keys == {S.conns[c].key : c \in cs}
    IN  [S EXCEPT !.conns = [c \in Turn |-> IF c \in cs THEN NoEntry ELSE S.conns[c]],
                  !.pool = SelectSeq(S.pool, LAMBDA c : S.conns[c].key \notin keys),
                  !.turns = [t \in Turn |->
                      IF S.turns[t].conn \in cs THEN [S.turns[t] EXCEPT !.conn = None]
                      ELSE S.turns[t]]]

\* markSticky for the conversation of a turn, noted on its receipt.
MarkSticky(S, t) ==
    [S EXCEPT !.sticky = @ \cup {S.turns[t].key.lane}, !.turns[t].stuck = TRUE]

\* failAfterWrite: a turn that waits for its first event gets the response
\* that forbids a replay, a stream that has begun is cut.
FailAfterWrite(S, t) ==
    LET c == S.turns[t].conn
        R == Evict(FinishActive(MarkSticky(S, t), t, FALSE), c, FALSE)
    IN  IF ~S.turns[t].live THEN S
        ELSE IF S.turns[t].pc = "waiting" THEN End(R, t, "noreplay")
        ELSE R

MarkPostWriteFailureOfSocket(S, t) == \* mutant: whoever is on the socket now
    Evict(FinishActive(MarkSticky(S, t), t, FALSE), S.turns[t].conn, TRUE)

\* markPostWriteFailure of a turn's receipt.
MarkPostWriteFailure(S, t) ==
    LET c == S.turns[t].conn
        R == IF S.turns[t].stuck THEN S ELSE MarkSticky(S, t)
    IN  IF c = None THEN FinishActive(R, t, FALSE)
        ELSE IF S.conns[c].active \notin {None, t}
        THEN [R EXCEPT !.conns[c].retire = TRUE]
        ELSE Evict(FinishActive(R, t, FALSE), c, TRUE)

-----------------------------------------------------------------------------
Idle(S) == {c \in Range(S.pool) : ~S.conns[c].busy}

\* tryRequest up to its first await.  The settings are read at every call: the
\* kill switch and observe-only retire the idle entries and leave the turn to
\* HTTP, otherwise the sweep evicts those that have expired.
Begin(t, k) ==
    /\ turns[t].pc = "idle"
    /\ \/ Become(End(EvictIdle(Current, Idle(Current)), t, "http"))
       \/ /\ ~shuttingDown
          /\ \E expired \in SUBSET Idle(Current) :
               Become([EvictIdle(Current, expired)
                       EXCEPT !.turns[t].pc = "parsing", !.turns[t].key = k])
    /\ UNCHANGED <<opening, shuttingDown, passedOver>>

\* The body does not qualify, or its cohort is a control.
NotEligible(t) ==
    /\ turns[t].pc = "parsing"
    /\ Become(End(Current, t, "http"))
    /\ UNCHANGED <<opening, shuttingDown, passedOver>>

PinnedToHttp(t) == turns[t].key.lane \in sticky \* mutant: a pending handshake is overlooked

\* The conversation is pinned to HTTP, or a handshake of it is pending.
LaneShut(t) == turns[t].key.lane \in sticky \cup opening

LaneClosed(t) ==
    /\ turns[t].pc = "parsing"
    /\ LaneShut(t)
    /\ Become(End(Current, t, "http"))
    /\ UNCHANGED <<opening, shuttingDown, passedOver>>

-----------------------------------------------------------------------------
(***************************************************************************)
(* tryRequest after the body is parsed.                                     *)
(***************************************************************************)
\* The entry the pool has under the key of the turn.
Found(t) ==
    IF \E c \in Range(pool) : conns[c].key = turns[t].key
    THEN CHOOSE c \in Range(pool) : conns[c].key = turns[t].key
    ELSE None

\* A socket that is no longer open is evicted, unless it is busy, and in both
\* cases passed over.
Usable(t) ==
    IF Found(t) # None /\ conns[Found(t)].ready = "open" THEN Found(t) ELSE None

Dropped(t) ==
    IF Found(t) # None /\ Usable(t) = None THEN Evict(Current, Found(t), FALSE)
    ELSE Current

\* The other entries of the lane: another model or other credentials.
OtherIdentities(t) ==
    {c \in Range(pool) : /\ conns[c].key.lane = turns[t].key.lane
                         /\ conns[c].key # turns[t].key}

MayProceed(t) ==
    /\ turns[t].pc = "parsing"
    /\ ~LaneShut(t)
    /\ Usable(t) # None => ~conns[Usable(t)].busy
    /\ \A c \in OtherIdentities(t) : ~conns[c].busy

\* lane_identity_changed: the other entries go, up to the first that is busy.
Replaced(t) ==
    {c \in OtherIdentities(t) :
        \A i, j \in DOMAIN pool :
            /\ pool[i] = c
            /\ pool[j] \in OtherIdentities(t)
            /\ conns[pool[j]].busy
            => i < j}

Prepared(t) == EvictIdle(Dropped(t), Replaced(t))

\* A second turn of a busy conversation goes to HTTP.
LaneBusy(t) ==
    /\ turns[t].pc = "parsing"
    /\ ~LaneShut(t)
    /\ ~MayProceed(t)
    /\ Become(End(IF Usable(t) # None /\ conns[Usable(t)].busy THEN Current
                  ELSE Prepared(t), t, "http"))
    /\ UNCHANGED <<opening, shuttingDown, passedOver>>

-----------------------------------------------------------------------------
(***************************************************************************)
(* reserveOpening: each cap evicts the idle entries used longest ago until  *)
(* there is room.                                                           *)
(***************************************************************************)
AccountOfConn(S, c) == AccountOf[S.conns[c].key.lane]

AccountOccupancy(S, a) ==
    Cardinality({c \in Range(S.pool) : AccountOfConn(S, c) = a})
      + Cardinality({l \in opening : AccountOf[l] = a})

GlobalOccupancyOpenOnly(S) == Len(S.pool) \* mutant: pending handshakes are not counted

GlobalOccupancy(S) == Len(S.pool) + Cardinality(opening)

\* How many entries must go before one more fits.
Excess(occupancy, max) == IF occupancy >= max THEN occupancy - max + 1 ELSE 0

FirstOf(q, n) == {q[i] : i \in {j \in DOMAIN q : j <= n}}

IdleOfAccount(S, a) ==
    SelectSeq(S.pool, LAMBDA c : ~S.conns[c].busy /\ AccountOfConn(S, c) = a)

IdleOldestFirst(S) == SelectSeq(S.pool, LAMBDA c : ~S.conns[c].busy)

RoomInAccount(S, a) ==
    EvictIdle(S, FirstOf(IdleOfAccount(S, a),
                         Excess(AccountOccupancy(S, a), limits.perAccount)))

RoomInProcess(S) ==
    EvictIdle(S, FirstOf(IdleOldestFirst(S), Excess(GlobalOccupancy(S), limits.global)))

\* No entry to reuse: a handshake starts if both caps leave room for it.
StartOpening(t) ==
    LET a == AccountOf[turns[t].key.lane]
        R == RoomInAccount(Prepared(t), a)
        Q == RoomInProcess(R)
    IN  /\ MayProceed(t)
        /\ Usable(t) = None
        /\ UNCHANGED shuttingDown
        /\ \/ /\ AccountOccupancy(R, a) >= limits.perAccount
              /\ Become(End(R, t, "http"))
              /\ UNCHANGED <<opening, passedOver>>
           \/ /\ AccountOccupancy(R, a) < limits.perAccount
              /\ GlobalOccupancy(Q) >= limits.global
              /\ Become(End(Q, t, "http"))
              /\ UNCHANGED <<opening, passedOver>>
           \/ /\ AccountOccupancy(R, a) < limits.perAccount
              /\ GlobalOccupancy(Q) < limits.global
              /\ Become([Q EXCEPT !.turns[t].pc = "opening"])
              /\ opening' = opening \cup {turns[t].key.lane}
              /\ passedOver' = IF Found(t) # None /\ conns[Found(t)].busy
                               THEN passedOver \cup {turns[t].key.lane} ELSE passedOver

\* waitForOpen rejects: the handshake is refused or times out, or the server
\* shuts down, and HTTP takes the turn; or the request is aborted.
HandshakeFails(t) ==
    /\ turns[t].pc = "opening"
    /\ \/ ~turns[t].aborted /\ Become(End(Current, t, "http"))
       \/ turns[t].aborted /\ \E out \in {"error", "next"} : Become(End(Current, t, out))
    /\ opening' = opening \ {turns[t].key.lane}
    /\ UNCHANGED <<shuttingDown, passedOver>>

\* A turn whose socket has just opened is resumed by a microtask.  Other
\* continuations may run before it; socket events and timers may not.
EventLoopFree == \A t \in Turn : turns[t].pc # "opened"

\* waitForOpen has not been rejected.
StillAwaited(t) == ~turns[t].aborted /\ ~shuttingDown

\* The open event: the entry is in the pool, and the turn will be resumed.
HandshakeOpens(t) ==
    /\ EventLoopFree
    /\ turns[t].pc = "opening"
    /\ StillAwaited(t)
    /\ LET k == turns[t].key
       IN  Become([Current EXCEPT !.conns[t] = NewEntry(k),
                                  !.pool = Append(Without(Current, k), t),
                                  !.turns[t].pc = "opened",
                                  !.turns[t].conn = t])
    /\ UNCHANGED <<opening, shuttingDown, passedOver>>

-----------------------------------------------------------------------------
(***************************************************************************)
(* sendRequest, from the claim of the entry to the wait for the first event. *)
(***************************************************************************)
Taken(S, t, c) ==
    LET R == [S EXCEPT !.turns[t].conn = c, !.turns[t].live = TRUE]
    IN  IF c = None THEN R
        ELSE [R EXCEPT !.conns[c].busy = TRUE, !.conns[c].active = t]

\* socket.send(frame) returns; a socket that is closing drops the frame.
Written(S, t, c) ==
    LET R == [Taken(S, t, c) EXCEPT !.turns[t].written = TRUE,
                                    !.turns[t].pc = "waiting"]
    IN  IF c = None THEN R ELSE [R EXCEPT !.conns[c].stage = "asked"]

TakenForUnwritten(S, t, c) == \* mutant: the callback's failure is taken for the send's
    End(Evict(FinishActive(Written(S, t, c), t, FALSE), c, FALSE), t, "http")

\* onFrameWritten throws.
CallbackThrows(S, t, c) == FailAfterWrite(Written(S, t, c), t)

SendRequest(S, t, c) ==
    \/ /\ S.turns[t].aborted
       /\ \E out \in {"error", "next"} : Become(End(S, t, out))
    \/ /\ ~S.turns[t].aborted
       /\ \* onBeforeFrameSend or onBeforeFrameWrite throws: the socket stays
          \/ Become(End(FinishActive(Taken(S, t, c), t, FALSE), t, "error"))
          \* send() throws, with nothing sent: the error goes up, HTTP is not tried
          \/ Become(End(Evict(FinishActive(Taken(S, t, c), t, FALSE), c, FALSE), t, "error"))
          \* the frame cannot be serialised
          \/ Become(End(Evict(FinishActive(Taken(S, t, c), t, FALSE), c, FALSE), t, "http"))
          \/ Become(CallbackThrows(S, t, c))
          \/ Become(Written(S, t, c))

\* An idle entry of the conversation is reused.
Reuse(t) ==
    /\ MayProceed(t)
    /\ Usable(t) # None
    /\ SendRequest(Prepared(t), t, Usable(t))
    /\ UNCHANGED <<opening, shuttingDown, passedOver>>

\* The turn whose handshake succeeded is resumed.
Resume(t) ==
    /\ turns[t].pc = "opened"
    /\ opening' = opening \ {turns[t].key.lane}
    /\ SendRequest(Current, t, turns[t].conn)
    /\ UNCHANGED <<shuttingDown, passedOver>>

-----------------------------------------------------------------------------
(***************************************************************************)
(* What arrives on a socket.  The service answers the turns of a socket in  *)
(* order: the events of one response, and then perhaps late ones that bear  *)
(* its id, come before the first event of the next.                         *)
(***************************************************************************)
Event(of, id, type) == [of |-> of, id |-> id, type |-> type]

Upstream(c) ==
    LET t == conns[c].active
        late == conns[c].last
    IN  CASE conns[c].stage = "asked" ->
               {<<Event(t, t, "created"), "created">>, <<Event(t, t, "failed"), "quiet">>,
                <<Event(t, None, "malformed"), "quiet">>}
                 \cup (IF late = None THEN {} ELSE {<<Event(late, late, "completed"), "asked">>})
          [] conns[c].stage = "created" ->
               {<<Event(t, None, "delta"), "created">>, <<Event(t, t, "completed"), "quiet">>,
                <<Event(t, t, "failed"), "quiet">>}
          [] OTHER -> {}

Full(t) == Len(turns[t].ingress) + turns[t].buf >= MaxFrames

\* onMessage for the turn that is active on the socket.
Arrives(c) ==
    /\ EventLoopFree
    /\ conns[c].ready = "open"
    /\ conns[c].active # None
    /\ \E u \in Upstream(c) :
         LET t == conns[c].active
             S == [Current EXCEPT !.conns[c].stage = u[2]]
         IN  Become(IF Full(t)
                    THEN FailAfterWrite(S, t)
                    ELSE [S EXCEPT !.turns[t].ingress = Append(@, u[1])])
    /\ UNCHANGED <<opening, shuttingDown, passedOver>>

\* An event of the previous response, or of any response but the turn's own.
Bleeds(t, m) ==
    /\ m.id # None
    /\ IF turns[t].rid = None THEN conns[turns[t].conn].last = m.id
       ELSE turns[t].rid # m.id

\* An event is passed on: the first one resolves the call.
Enqueued(S, t, m) ==
    [S EXCEPT !.turns[t].rid = IF m.type = "created" THEN m.id ELSE @,
              !.turns[t].buf = @ + 1,
              !.turns[t].foreign = @ \/ m.of # t,
              !.turns[t].pc = "streaming"]

\* The last event of a response frees the entry, and closes it after an
\* error, when the canary is off, or when an older turn asked for it.
Terminated(S, t, m, off) ==
    LET c == S.turns[t].conn
        id == IF S.turns[t].rid # None THEN S.turns[t].rid ELSE m.id
        L == [S EXCEPT !.conns[c].last = id]
        R == FinishActive(IF m.type = "failed" THEN MarkSticky(L, t) ELSE L, t, TRUE)
    IN  IF m.type = "failed" \/ off \/ S.conns[c].retire
        THEN Evict(R, c, FALSE)
        ELSE R

\* The decoding of the next frame, in the order of messageChain.
Decode(t) ==
    /\ turns[t].live
    /\ turns[t].ingress # <<>>
    /\ LET m == Head(turns[t].ingress)
           S == [Current EXCEPT !.turns[t].ingress = Tail(@)]
       IN  \/ /\ m.type = "malformed"
              /\ Become(FailAfterWrite(S, t))
           \/ /\ m.type # "malformed"
              /\ Bleeds(t, m)
              /\ Become(S)
           \/ /\ m.type # "malformed"
              /\ ~Bleeds(t, m)
              /\ \* the encoded event exceeds the byte bound
                 \/ Become(FailAfterWrite(S, t))
                 \/ /\ m.type \in {"completed", "failed"}
                    /\ \E off \in BOOLEAN : Become(Terminated(Enqueued(S, t, m), t, m, off))
                 \/ /\ m.type \in {"created", "delta"}
                    /\ Become(Enqueued(S, t, m))
    /\ UNCHANGED <<opening, shuttingDown, passedOver>>

-----------------------------------------------------------------------------
(***************************************************************************)
(* How a turn ends otherwise.                                               *)
(***************************************************************************)
\* The first-event timer.
FirstEventTimeout(t) ==
    /\ EventLoopFree
    /\ turns[t].pc = "waiting"
    /\ turns[t].live
    /\ Become(FailAfterWrite(Current, t))
    /\ UNCHANGED <<opening, shuttingDown, passedOver>>

\* The reader of the response takes a frame.
Pull(t) ==
    /\ turns[t].buf > 0
    /\ Become([Current EXCEPT !.turns[t].buf = @ - 1])
    /\ UNCHANGED <<opening, shuttingDown, passedOver>>

\* The reader reaches the end of the stream.
EndOfStream(t) ==
    /\ turns[t].pc = "streaming"
    /\ ~turns[t].live
    /\ turns[t].buf = 0
    /\ Become(End(Current, t, "stream"))
    /\ UNCHANGED <<opening, shuttingDown, passedOver>>

\* The reader cancels the body: a turn whose outcome is recorded is left
\* alone, otherwise its socket is closed under it.
DownstreamCancel(t) ==
    /\ turns[t].pc = "streaming"
    /\ Become(End(IF turns[t].live
                  THEN Evict(FinishActive(Current, t, FALSE), turns[t].conn, TRUE)
                  ELSE Current, t, "stream"))
    /\ UNCHANGED <<opening, shuttingDown, passedOver>>

\* The gate that reads ahead in the response finds a stall or an error, also
\* after the last event has arrived: the caller reports it on the receipt and
\* answers with the response that forbids a replay.
PreCommitFailure(t) ==
    /\ turns[t].pc = "streaming"
    /\ Become(End(MarkPostWriteFailure(Current, t), t, "noreplay"))
    /\ UNCHANGED <<opening, shuttingDown, passedOver>>

\* The signal of the request: the client is gone ("error") or the private
\* deadline of the attempt has passed.  The next candidate may be tried after
\* the latter only if no frame was written.
Abort(t) ==
    /\ UNCHANGED <<opening, shuttingDown, passedOver>>
    /\ \/ /\ turns[t].pc \in {"parsing", "opening", "opened"}
          /\ ~turns[t].aborted
          /\ Become([Current EXCEPT !.turns[t].aborted = TRUE])
       \/ /\ turns[t].pc \in {"waiting", "streaming"}
          /\ turns[t].live
          /\ LET R == Evict(FinishActive(MarkSticky(Current, t), t, FALSE),
                            turns[t].conn, FALSE)
             IN  \E out \in {"error", "noreplay"} : Become(End(R, t, out))

\* An error or close event of a socket.
SocketFailure(c) ==
    /\ EventLoopFree
    /\ conns[c].ready # "none"
    /\ Become(IF conns[c].active # None THEN FailAfterWrite(Current, conns[c].active)
              ELSE Evict(Current, c, FALSE))
    /\ UNCHANGED <<opening, shuttingDown, passedOver>>

\* The peer has closed the connection and the event is not dispatched yet; nothing
\* arrives any more.
PeerCloses(c) ==
    /\ EventLoopFree
    /\ conns[c].ready = "open"
    /\ Become([Current EXCEPT !.conns[c].ready = "closing", !.conns[c].stage = "quiet"])
    /\ UNCHANGED <<opening, shuttingDown, passedOver>>

\* STICKY_HTTP_COOLDOWN_MS passes, or the map of pinned conversations is full.
StickyExpires(l) ==
    /\ l \in sticky
    /\ sticky' = sticky \ {l}
    /\ UNCHANGED <<limits, conns, pool, turns, opening, shuttingDown, passedOver>>

\* shutdown: every entry of the pool, the written turns through failAfterWrite
\* and the others by force.  A pending handshake is refused from now on.
Shutdown ==
    LET Ended(S, c) == IF S.conns[c].ready = "none" THEN S
                       ELSE IF S.conns[c].active # None
                       THEN FailAfterWrite(S, S.conns[c].active)
                       ELSE Evict(S, c, TRUE)
    IN  /\ ~shuttingDown
        /\ shuttingDown' = TRUE
        /\ Become(FoldSeq(LAMBDA c, S : Ended(S, c), Current, pool))
        /\ UNCHANGED <<opening, passedOver>>

-----------------------------------------------------------------------------
Next ==
    \/ \E t \in Turn, k \in Key : Begin(t, k)
    \/ \E t \in Turn :
         \/ NotEligible(t) \/ LaneClosed(t) \/ LaneBusy(t)
         \/ StartOpening(t) \/ HandshakeFails(t) \/ HandshakeOpens(t)
         \/ Reuse(t) \/ Resume(t)
         \/ Decode(t) \/ FirstEventTimeout(t)
         \/ Pull(t) \/ EndOfStream(t) \/ DownstreamCancel(t)
         \/ PreCommitFailure(t) \/ Abort(t)
    \/ \E c \in Turn : Arrives(c) \/ SocketFailure(c) \/ PeerCloses(c)
    \/ \E l \in Lane : StickyExpires(l)
    \/ Shutdown

Spec == Init /\ [][Next]_vars

-----------------------------------------------------------------------------
\* The sockets that are open or being opened.
Sockets == {c \in Turn : conns[c].ready = "open" \/ turns[c].pc = "opening"}

SocketLane(c) == IF turns[c].pc = "opening" THEN turns[c].key.lane ELSE conns[c].key.lane

WithinCaps(cs) ==
    /\ Cardinality(cs) <= limits.global
    /\ \A a \in Account :
         Cardinality({c \in cs : AccountOf[SocketLane(c)] = a}) <= limits.perAccount

\* "Maximum open plus opening canary WebSocket connections process-wide"
\* (docs/configuration.md 264), and the same for one account (265).  It does not
\* hold when a socket is found half-closed under a running turn: see SocketsCounted.
SocketCapKept == WithinCaps(Sockets)

\* What holds of the two caps.  The code counts the entries of the pool, so every
\* open socket must be in it, whatever the interleaving of handshakes, reuse,
\* eviction and late events.  The exception is a lane on which tryRequest found
\* the entry of a running turn no longer OPEN: evict leaves it alone as it is busy,
\* and still tryRequest goes on without it (286-290).  The two entries then share a
\* key, and the end of the older turn takes the newer entry out of the pool, open
\* as it is.  All other sockets stay within the caps.  (With TypeOK.)
SocketsCounted ==
    LET counted == {c \in Sockets : SocketLane(c) \notin passedOver} IN
    /\ TypeOK
    /\ \A c \in counted : conns[c].ready = "open" => c \in Range(pool)
    /\ WithinCaps(counted)

\* Once response.create is written the service may have run the turn: the call
\* never answers null (HTTP takes over) and never lets the caller go on to the
\* next candidate.
NoReplayAfterWrite == \A t \in Turn : ~turns[t].replayable

\* The turn has a socket, or is opening one.
OnSocket(t) ==
    \/ turns[t].pc = "opening"
    \/ turns[t].conn # None /\ (turns[t].live \/ turns[t].pc = "opened")

\* Two turns of one conversation are never on WebSockets at the same time,
\* whether they race for the handshake, differ in model or credentials, or one
\* of them finds its entry evicted, unless the running one's socket was taken for
\* a dead one (286-290).  And no lane is lost: an entry is busy only with a turn
\* that is still on it, and a lane is held for a handshake only while a turn is in
\* it.  Otherwise the conversation would be sent to HTTP as busy for ever.
OneTurnPerLane ==
    /\ \A t, u \in Turn :
         /\ OnSocket(t) /\ OnSocket(u)
         /\ turns[t].key.lane = turns[u].key.lane
         => t = u \/ turns[t].key.lane \in passedOver
    /\ \A c \in Turn : conns[c].ready # "none" =>
         /\ conns[c].busy <=> conns[c].active # None
         /\ conns[c].active # None =>
              /\ turns[conns[c].active].live
              /\ turns[conns[c].active].conn = c
    /\ \A l \in opening : \E t \in Turn :
         turns[t].pc \in {"opening", "opened"} /\ turns[t].key.lane = l

\* Turns that share a socket one after the other do not disturb each other.  A
\* turn is never given an event of an earlier response of its socket, and
\* "An older body must never change the newer turn or its healthy socket":
\* however the body of a turn ends (read to its end, cancelled, aborted, or
\* rejected by the gate, also long after its last event), every turn that is
\* on a socket stays on it, and that socket is not closed.
TurnsIsolated ==
    [][\A t \in Turn :
         /\ ~turns'[t].foreign
         /\ turns[t].pc = "streaming" /\ turns'[t].pc = "done" =>
           \A u \in Turn \ {t} : turns[u].live =>
             /\ turns'[u] = turns[u]
             /\ turns[u].conn # None =>
                  /\ conns'[turns[u].conn].ready = conns[turns[u].conn].ready
                  /\ conns'[turns[u].conn].active = u]_vars

=============================================================================
