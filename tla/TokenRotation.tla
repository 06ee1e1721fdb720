---------------------------- MODULE TokenRotation ----------------------------
(***************************************************************************)
(* OAuth token rotation of one account id: the refresh funnel               *)
(* (packages/proxy/src/handlers/token-manager.ts), the proactive refresher  *)
(* (auto-refresh-scheduler.ts), the outbox of rotations that could not be   *)
(* persisted (pending-rotation-registry.ts), its write-ahead log            *)
(* (pending-rotation-wal.ts), the compare-and-set updates of the account    *)
(* row (account.repository.ts) and the handlers that re-authenticate,       *)
(* delete or re-create the account, or only clear its refresh cache.        *)
(*                                                                         *)
(* The process is one event loop, so a step is what runs between two         *)
(* awaits, together with the effect of the awaited database or provider     *)
(* call.  A refresh token is [f, i]: the i-th token of login f.  The        *)
(* provider honours one token of a login, and an exchange consumes it.      *)
(* The access token minted with a refresh token has the same name.          *)
(***************************************************************************)
EXTENDS Naturals, Sequences, FiniteSets

CONSTANTS
    Request,       \* calls of refreshAccessTokenSafe
    Scheduler,     \* the rows of checkAndRefreshCodexTokens in flight
    NoProc,        \* nobody
    MaxLogin,      \* bound: logins (the first one, re-authentications, re-creations)
    MaxRotation,   \* bound: tokens of one login
    MaxGeneration, \* bound: rows (created_at values) the account id has in its life
    Faults,        \* what may go wrong, a subset of FaultKinds
    Operator       \* what an operator does: "reauth", "remove", "clear"

FaultKinds ==
    {"write",     \* a database write throws and has not been applied
     "ambiguous", \* a database write is applied, and throws or is retried in vain
     "read",      \* a database read throws
     "wal",       \* a write of the write-ahead log throws
     "response",  \* the provider rotated, and its answer was lost
     "revoke",    \* the provider revokes a login
     "crash"}     \* the process dies and is started again

ASSUME RotationAssumption ==
    /\ Request \cap Scheduler = {}
    /\ NoProc \notin Request \cup Scheduler
    /\ MaxLogin \in Nat \ {0}
    /\ MaxRotation \in Nat \ {0}
    /\ MaxGeneration \in Nat \ {0}
    /\ Faults \subseteq FaultKinds
    /\ Operator \subseteq {"reauth", "remove", "clear"}

Proc == Request \cup Scheduler
Login == 1..MaxLogin
Token == [f: Login, i: 1..MaxRotation]
Generation == 1..MaxGeneration

NoToken == [f |-> 0, i |-> 0]

\* A PendingRotation: createdAt, attemptedRefreshToken and the rotated token.
Rotation == [gen: Generation, anchor: Token, tok: Token]
NoRotation == [gen |-> 0, anchor |-> NoToken, tok |-> NoToken]

VARIABLES
    live,       \* the provider: index of the token it honours, per login; 0 for none
    logins,     \* the number of logins made so far
    valid,      \* the tokens whose access token is outside the safety window
    db,         \* the account row; gen 0 when there is none
    created,    \* the number of rows created so far
    pending,    \* the registry's entry
    wal,        \* the file of the write-ahead log
    walQueue,   \* persistenceWrites: operations on that file, in order
    inFlight,   \* refreshInFlight: the process whose promise is registered
    backoff,    \* refreshFailures holds a failure younger than the backoff
    procs,      \* program counter and locals of each process
    reauth,     \* where the re-authentication handler is
    removing,   \* the removal handler has deleted the row and not yet cleaned up
    forgotten,  \* history: logins whose token the environment made unrecoverable
    cleared     \* history: logins whose refresh an operator made the process forget

vars == <<live, logins, valid, db, created, pending, wal, walQueue, inFlight,
          backoff, procs, reauth, removing, forgotten, cleared>>

provider == <<live, logins, valid>>
outbox == <<pending, wal, walQueue>>
handlers == <<reauth, removing>>
history == <<forgotten, cleared>>
-----------------------------------------------------------------------------
\* A process: its program counter, the generation and the refresh token of its
\* account object, the token it was given by the provider, the outbox entry it is
\* flushing, the result of its last database write, and the tokens minted since it
\* began.
Idle == [pc |-> "idle", gen |-> 0, tok |-> NoToken, new |-> NoToken,
         entry |-> NoRotation, result |-> "none", young |-> {}]

Init ==
    /\ live = [f \in Login |-> IF f = 1 THEN 1 ELSE 0]
    /\ logins = 1
    /\ valid = {}
    /\ db = [gen |-> 1, tok |-> [f |-> 1, i |-> 1], reauth |-> FALSE, paused |-> FALSE]
    /\ created = 1
    /\ pending = NoRotation
    /\ wal = NoRotation
    /\ walQueue = <<>>
    /\ inFlight = NoProc
    /\ backoff = FALSE
    /\ procs = [p \in Proc |-> Idle]
    /\ reauth = "idle"
    /\ removing = FALSE
    /\ forgotten = {}
    /\ cleared = {}

-----------------------------------------------------------------------------
(***************************************************************************)
(* The row and its guarded updates                                         *)
(***************************************************************************)

\* The rows a write of `new' under guard may leave behind and what the caller sees:
\* "ok" (one row changed), "lost" (none did) or "threw".
Updates(guard, new) ==
    (IF guard THEN {[row |-> new, result |-> "ok"]} ELSE {[row |-> db, result |-> "lost"]})
    \cup (IF "write" \in Faults THEN {[row |-> db, result |-> "threw"]} ELSE {})
    \cup (IF "ambiguous" \in Faults /\ guard
          THEN {[row |-> new, result |-> r] : r \in {"lost", "threw"}} ELSE {})

OwnsGeneration(gen, t) == db.gen = gen \* mutant: the token is not compared

Owns(gen, t) == db.gen = gen /\ db.tok = t

UpdateTokensIfRefreshTokenMatches(gen, expected, t) ==
    Updates(Owns(gen, expected), [db EXCEPT !.tok = t, !.reauth = FALSE])

SetRequiresReauth(gen, expected) == \* mutant: the token is not compared
    Updates(db.gen # 0, [db EXCEPT !.reauth = TRUE])

FlagRequiresReauthIfTokenMatches(gen, expected) ==
    Updates(Owns(gen, expected), [db EXCEPT !.reauth = TRUE])

PauseIfActive(gen, expected) ==
    Updates(Owns(gen, expected) /\ ~db.paused, [db EXCEPT !.paused = TRUE])

\* requireCurrentAccountGeneration and requireCurrentProactiveGeneration.
Current(p) == db.gen = procs[p].gen
ReadFails == "read" \in Faults

Pending(gen) == IF pending.gen = gen THEN pending ELSE NoRotation
InFlightFor(gen) == inFlight # NoProc /\ procs[inFlight].gen = gen

-----------------------------------------------------------------------------
(***************************************************************************)
(* Moving a process                                                        *)
(***************************************************************************)
At(p, pc) == procs[p].pc = pc
Goto(p, pc) == procs' = [procs EXCEPT ![p].pc = pc]
Leave(p) == procs' = [procs EXCEPT ![p] = Idle]
Witness(t) == [p \in Proc |-> IF At(p, "idle") THEN Idle
                              ELSE [procs[p] EXCEPT !.young = @ \cup {t}]]

\* The promise settles: `finally' removes it, unless another one took its place.
Settle(p) ==
    /\ Leave(p)
    /\ inFlight' = IF inFlight = p THEN NoProc ELSE inFlight

\* What a thrown error that carries no OAuth code does next: the request path has
\* a catch handler, the proactive one only logs it.
Throw(p) == IF p \in Request THEN Goto(p, "failed") /\ UNCHANGED inFlight ELSE Settle(p)

ExchangeUnchecked(p, t) == \* mutant: an await has crept in between check and registration
    /\ procs' = [procs EXCEPT ![p].pc = "exchange", ![p].tok = t,
                              ![p].entry = NoRotation, ![p].result = "none"]
    /\ inFlight' = p

\* The tail of refreshAccessTokenSafe after its last await before the exchange:
\* join the refresh in flight, or register one for token t.
JoinOrExchange(p, t) ==
    IF InFlightFor(procs[p].gen)
    THEN Leave(p) /\ UNCHANGED inFlight
    ELSE /\ procs' = [procs EXCEPT ![p].pc = "exchange", ![p].tok = t,
                                   ![p].entry = NoRotation, ![p].result = "none"]
         /\ inFlight' = p

-----------------------------------------------------------------------------
(***************************************************************************)
(* The outbox                                                              *)
(***************************************************************************)
WalOp(op, rotation, owner) == [op |-> op, rot |-> rotation, owner |-> owner]

\* recordPendingRotation up to its await: within a generation the entry keeps the
\* anchor of the one it replaces.
Recorded(gen, attempted, t) ==
    [gen |-> gen,
     anchor |-> IF pending.gen = gen THEN pending.anchor ELSE attempted,
     tok |-> t]

RecordPendingRotation(p, attempted, t) ==
    LET next == Recorded(procs[p].gen, attempted, t) IN
    /\ pending' = next
    /\ walQueue' = Append(walQueue, WalOp("save", next, p))
    /\ UNCHANGED wal

ClearInMemory(gen) == \* mutant: the file stays
    /\ pending' = IF pending.gen = gen THEN NoRotation ELSE pending
    /\ UNCHANGED <<wal, walQueue>>

\* clearPendingRotation does not wait for the file to go.
ClearPendingRotation(gen) ==
    IF Pending(gen) = NoRotation
    THEN UNCHANGED outbox
    ELSE /\ pending' = NoRotation
         /\ walQueue' = Append(walQueue, WalOp("remove", NoRotation, NoProc))
         /\ UNCHANGED wal

\* The compare-and-set of flushPendingRotation for the entry captured before it.
FlushWrite(p) ==
    /\ At(p, "flush")
    /\ LET e == procs[p].entry IN
       \E u \in UpdateTokensIfRefreshTokenMatches(e.gen, e.anchor, e.tok) :
          /\ db' = u.row
          /\ procs' = [procs EXCEPT ![p].pc = "flushed", ![p].result = u.result]
    /\ UNCHANGED <<provider, created, outbox, inFlight, backoff, handlers, history>>

\* No two rotations carry the same token, so the token stands for the identity of
\* the entry object, which a rebase leaves alone.
StillPending(e) == pending.tok = e.tok
Rebased(e) == [pending EXCEPT !.anchor = e.tok]
Survivor(e) == ~StillPending(e) /\ pending.gen = e.gen

\* flushPendingRotation returns to adoptDbTokensIfFresher, which looks once more for
\* an entry (effectivePending) before it awaits the row.
Flushed(p, r) ==
    procs' = [procs EXCEPT ![p].pc = "adopt", ![p].result = r,
                           ![p].entry = IF pending.gen = procs[p].gen THEN pending ELSE @]

\* The rest of flushPendingRotation.  A request waits for the file; the proactive
\* refresher skips its row whatever the outcome.  A save that is still queued
\* serialises the object when it runs, so a rebase reaches it too.
FlushDone(p) ==
    /\ At(p, "flushed")
    /\ LET e == procs[p].entry
           r == procs[p].result
           op(kind, rot) == WalOp(kind, rot, IF p \in Request THEN p ELSE NoProc)
       IN
       \/ /\ r \in {"ok", "lost"} /\ StillPending(e)
          /\ pending' = NoRotation
          /\ walQueue' = Append(walQueue, op("remove", NoRotation))
          /\ IF p \in Request THEN Goto(p, "flushing") ELSE Leave(p)
       \/ /\ r = "ok" /\ Survivor(e)
          /\ pending' = Rebased(e)
          /\ walQueue' = Append([n \in DOMAIN walQueue |->
                                    IF walQueue[n].rot = pending
                                    THEN [walQueue[n] EXCEPT !.rot = Rebased(e)]
                                    ELSE walQueue[n]],
                                op("save", Rebased(e)))
          /\ IF p \in Request THEN Goto(p, "flushing") ELSE Leave(p)
       \/ /\ \/ r = "threw"
             \/ r = "lost" /\ ~StillPending(e)
             \/ r = "ok" /\ ~StillPending(e) /\ ~Survivor(e)
          /\ IF p \in Request THEN Flushed(p, r) ELSE Leave(p)
          /\ UNCHANGED <<pending, walQueue>>
    /\ UNCHANGED <<provider, db, created, wal, inFlight, backoff, handlers, history>>

\* recordPendingRotation returns to the refresh, or throws into it.
Saved(p, ok) ==
    IF ok THEN Goto(p, "final") /\ UNCHANGED inFlight ELSE Throw(p)

\* enqueuePersistenceWrite runs the operations of the account one after the other;
\* save replaces the file atomically, and may throw before or after it did.  The
\* owner, if any, waits for the outcome: the refresh that recorded a rotation, or
\* the request that flushes one.
WalWrite(ok) ==
    LET o == Head(walQueue) IN
    /\ walQueue # <<>>
    /\ ok \/ "wal" \in Faults
    /\ walQueue' = Tail(walQueue)
    /\ wal' \in IF ok THEN {o.rot} ELSE {wal, o.rot}
    /\ IF o.owner = NoProc THEN UNCHANGED <<procs, inFlight>>
       ELSE IF At(o.owner, "flushing")
       THEN /\ Flushed(o.owner, IF ok THEN procs[o.owner].result ELSE "threw")
            /\ UNCHANGED inFlight
       ELSE Saved(o.owner, ok)
    /\ UNCHANGED <<provider, db, created, pending, backoff, handlers, history>>

-----------------------------------------------------------------------------
(***************************************************************************)
(* refreshAccessTokenSafe up to the exchange                               *)
(***************************************************************************)

\* A request read the row of an account it may use, and the access token it read is
\* inside the safety window (getValidAccessToken).
Start(p) ==
    /\ At(p, "idle")
    /\ db.gen # 0 /\ ~db.paused /\ db.tok \notin valid
    /\ procs' = [procs EXCEPT ![p] = [Idle EXCEPT !.pc = "begin", !.gen = db.gen, !.tok = db.tok]]
    /\ UNCHANGED <<provider, db, created, outbox, inFlight, backoff, handlers, history>>

\* It joins the refresh in flight for its generation, after reading the row again.
Join(p) ==
    /\ At(p, "begin")
    /\ InFlightFor(procs[p].gen)
    /\ Leave(p)
    /\ UNCHANGED <<provider, db, created, outbox, inFlight, backoff, handlers, history>>

\* Within the backoff it fails, except that after MAX_BACKOFF_RETRIES refusals it
\* takes a valid token the row may have got meanwhile.  The count of refusals is
\* left open.
InBackoff(p) ==
    /\ At(p, "begin")
    /\ ~InFlightFor(procs[p].gen) /\ backoff
    /\ \/ UNCHANGED backoff
       \/ /\ Current(p) /\ db.tok \in valid /\ db.tok # procs[p].tok
          /\ backoff' = FALSE
    /\ Leave(p)
    /\ UNCHANGED <<provider, db, created, outbox, inFlight, handlers, history>>

\* The end of adoptDbTokensIfFresher for an account object that holds t: serve a
\* valid newer token of the row, or refresh with the row's refresh token.  The
\* object was loaded from the row or has no issue date, so the row's refresh token
\* never counts as the older one (dbRefreshTokenNotOlder).
AdoptRow(p, t) ==
    IF db.tok \in valid /\ db.tok # t
    THEN /\ Leave(p)
         /\ backoff' = FALSE
         /\ UNCHANGED inFlight
    ELSE JoinOrExchange(p, db.tok) /\ UNCHANGED backoff

\* The start of adoptDbTokensIfFresher: read the row, look for a pending rotation.
CheckRow(p) ==
    /\ At(p, "begin")
    /\ ~InFlightFor(procs[p].gen) /\ ~backoff
    /\ LET e == Pending(procs[p].gen) IN
       \/ /\ Current(p) /\ e # NoRotation
          /\ procs' = [procs EXCEPT ![p].pc = "flush", ![p].entry = e]
          /\ UNCHANGED <<inFlight, backoff>>
       \/ Current(p) /\ e = NoRotation /\ AdoptRow(p, procs[p].tok)
       \/ /\ ~Current(p) \/ ReadFails
          /\ Leave(p)
          /\ UNCHANGED <<inFlight, backoff>>
    /\ UNCHANGED <<provider, db, created, outbox, handlers, history>>

\* Its part after the flush: unless the entry was superseded, take its credentials
\* and serve them while they are valid; then consider the row again.
AdoptPending(p) ==
    LET e == procs[p].entry
        superseded == procs[p].result = "lost"
    IN
    /\ At(p, "adopt")
    /\ \/ /\ Current(p) /\ ~superseded /\ e.tok \in valid
          /\ Leave(p)
          /\ UNCHANGED <<inFlight, backoff>>
       \/ Current(p) /\ ~superseded /\ e.tok \notin valid /\ AdoptRow(p, e.tok)
       \/ Current(p) /\ superseded /\ AdoptRow(p, procs[p].tok)
       \/ /\ ~Current(p) \/ ReadFails
          /\ Leave(p)
          /\ UNCHANGED <<inFlight, backoff>>
    /\ UNCHANGED <<provider, db, created, outbox, handlers, history>>

(***************************************************************************)
(* The proactive refresher up to the exchange                              *)
(***************************************************************************)

\* The SELECT of checkAndRefreshCodexTokens.
SelectRow(p) ==
    /\ At(p, "idle")
    /\ db.gen # 0 /\ ~db.paused /\ ~db.reauth /\ db.tok \notin valid
    /\ procs' = [procs EXCEPT ![p] = [Idle EXCEPT !.pc = "selected", !.gen = db.gen, !.tok = db.tok]]
    /\ UNCHANGED <<provider, db, created, outbox, inFlight, backoff, handlers, history>>

\* A row of its loop: a pending rotation is flushed and the row skipped, a refresh
\* in flight is left alone, otherwise the token of the SELECT is exchanged.
RefreshRow(p) ==
    /\ At(p, "selected")
    /\ LET e == Pending(procs[p].gen) IN
       IF e # NoRotation
       THEN /\ procs' = [procs EXCEPT ![p].pc = "flush", ![p].entry = e]
            /\ UNCHANGED inFlight
       ELSE JoinOrExchange(p, procs[p].tok)
    /\ UNCHANGED <<provider, db, created, outbox, backoff, handlers, history>>

-----------------------------------------------------------------------------
(***************************************************************************)
(* The exchange and what follows it                                        *)
(***************************************************************************)

\* The promise is rejected: the proactive path's one has no catch handler, so that
\* `finally' runs before the loop handles the error.
Refused(p) == IF p \in Scheduler /\ inFlight = p THEN NoProc ELSE inFlight

\* External: the provider rotates the token it honours and refuses any other one;
\* a call may also fail without an answer.
Exchange(p) ==
    LET t == procs[p].tok
        next == [f |-> t.f, i |-> t.i + 1]
    IN
    /\ At(p, "exchange")
    /\ \/ /\ live[t.f] = t.i /\ t.i < MaxRotation
          /\ live' = [live EXCEPT ![t.f] = next.i]
          /\ valid' = valid \cup {next}
          /\ procs' = [Witness(next) EXCEPT ![p].pc = "minted", ![p].new = next]
          /\ UNCHANGED <<forgotten, inFlight>>
       \/ /\ live[t.f] = t.i /\ t.i < MaxRotation /\ "response" \in Faults
          /\ live' = [live EXCEPT ![t.f] = next.i]
          /\ forgotten' = forgotten \cup {t.f}
          /\ Goto(p, "failed")
          /\ inFlight' = Refused(p)
          /\ UNCHANGED valid
       \/ /\ live[t.f] # t.i
          /\ Goto(p, "rejected")
          /\ inFlight' = Refused(p)
          /\ UNCHANGED <<live, valid, forgotten>>
       \/ /\ Goto(p, "failed")
          /\ inFlight' = Refused(p)
          /\ UNCHANGED <<live, valid, forgotten>>
    /\ UNCHANGED <<logins, db, created, outbox, backoff, handlers, cleared>>

\* The generation check in front of every use of a minted token.
Minted(p) ==
    /\ At(p, "minted")
    /\ \/ Current(p) /\ Goto(p, "persist") /\ UNCHANGED inFlight
       \/ ~Current(p) /\ Settle(p)
       \/ ReadFails /\ Throw(p)
    /\ UNCHANGED <<provider, db, created, outbox, backoff, handlers, history>>

Persist(p) ==
    /\ At(p, "persist")
    /\ \E u \in UpdateTokensIfRefreshTokenMatches(procs[p].gen, procs[p].tok, procs[p].new) :
          /\ db' = u.row
          /\ procs' = [procs EXCEPT ![p].pc = "persisted", ![p].result = u.result]
    /\ UNCHANGED <<provider, created, outbox, inFlight, backoff, handlers, history>>

\* The write landed: the request path drops the pending rotation of its generation.
Persisted(p) ==
    /\ At(p, "persisted") /\ procs[p].result = "ok"
    /\ IF p \in Request THEN ClearPendingRotation(procs[p].gen) ELSE UNCHANGED outbox
    /\ Goto(p, "final")
    /\ UNCHANGED <<provider, db, created, inFlight, backoff, handlers, history>>

\* The write matched no row: adopt what the row holds now.  The request path serves
\* the row's token if it is valid, else the one it was given; the proactive path
\* serves only the row's.
LostCas(p) ==
    /\ At(p, "persisted") /\ procs[p].result = "lost"
    /\ \/ /\ Current(p) /\ p \in Request
          /\ procs' = [procs EXCEPT ![p].pc = "final", ![p].new = NoToken]
          /\ UNCHANGED inFlight
       \/ (~Current(p) \/ p \in Scheduler) /\ Settle(p)
       \/ /\ ReadFails /\ p \in Request
          /\ procs' = [procs EXCEPT ![p].result = "threw"]
          /\ UNCHANGED inFlight
    /\ UNCHANGED <<provider, db, created, outbox, backoff, handlers, history>>

\* The write threw: the rotation goes to the outbox, and the promise stays open
\* until its file is written.
PersistThrew(p) ==
    /\ At(p, "persisted") /\ procs[p].result = "threw"
    /\ \/ /\ Current(p)
          /\ RecordPendingRotation(p, procs[p].tok, procs[p].new)
          /\ Goto(p, "saving")
          /\ UNCHANGED inFlight
       \/ ~Current(p) /\ Settle(p) /\ UNCHANGED outbox
       \/ ReadFails /\ Throw(p) /\ UNCHANGED outbox
    /\ UNCHANGED <<provider, db, created, backoff, handlers, history>>

\* The last generation check, and the token is given to the callers.
Final(p) ==
    /\ At(p, "final")
    /\ \/ /\ Current(p)
          /\ Settle(p)
          /\ backoff' = IF p \in Request THEN FALSE ELSE backoff
       \/ ~Current(p) /\ Settle(p) /\ UNCHANGED backoff
       \/ ReadFails /\ Throw(p) /\ UNCHANGED backoff
    /\ UNCHANGED <<provider, db, created, outbox, handlers, history>>

(***************************************************************************)
(* The catch handlers: backoff and quarantine                              *)
(***************************************************************************)

\* A failure without an OAuth code: the request path starts the backoff, provided
\* the row could be read and is still of its generation.
Failed(p) ==
    /\ At(p, "failed")
    /\ \/ Current(p) /\ p \in Request /\ backoff' = TRUE
       \/ (~Current(p) \/ ReadFails \/ p \in Scheduler) /\ UNCHANGED backoff
    /\ Settle(p)
    /\ UNCHANGED <<provider, db, created, outbox, handlers, history>>

\* A rotation of the process's own generation waits in the outbox.
AwaitsPersist(p) == Pending(procs[p].gen) # NoRotation

\* The provider refused the token.  A pending rotation means that the proxy itself
\* has replaced it.
Rejected(p) ==
    /\ At(p, "rejected")
    /\ \/ /\ Current(p) /\ ~AwaitsPersist(p)
          /\ Goto(p, IF p \in Request THEN "reread" ELSE "flag")
          /\ UNCHANGED inFlight
          /\ backoff' = IF p \in Request THEN TRUE ELSE backoff
       \/ /\ Current(p) /\ AwaitsPersist(p)
          /\ Settle(p)
          /\ backoff' = IF p \in Request THEN TRUE ELSE backoff
       \/ /\ ~Current(p) \/ ReadFails
          /\ Settle(p)
          /\ UNCHANGED backoff
    /\ UNCHANGED <<provider, db, created, outbox, handlers, history>>

\* The rotation-race guard: a row that has another token has been rotated by
\* somebody else, and the account is not to be condemned.
Reread(p) ==
    /\ At(p, "reread")
    /\ \/ /\ Owns(procs[p].gen, procs[p].tok)
          /\ Goto(p, "flag")
          /\ UNCHANGED <<inFlight, backoff>>
       \/ /\ Current(p) /\ db.tok # procs[p].tok
          /\ IF db.tok \in valid
             THEN backoff' = FALSE
             ELSE UNCHANGED backoff
          /\ Settle(p)
       \/ /\ ~Current(p) \/ ReadFails
          /\ Settle(p)
          /\ UNCHANGED backoff
    /\ UNCHANGED <<provider, db, created, outbox, handlers, history>>

\* The two guarded writes of the quarantine; a write that throws is only logged.
Flag(p) ==
    /\ At(p, "flag")
    /\ \E u \in FlagRequiresReauthIfTokenMatches(procs[p].gen, procs[p].tok) : db' = u.row
    /\ IF p \in Request THEN Goto(p, "pause") ELSE Leave(p)
    /\ UNCHANGED <<provider, created, outbox, inFlight, backoff, handlers, history>>

Pause(p) ==
    /\ At(p, "pause")
    /\ \E u \in PauseIfActive(procs[p].gen, procs[p].tok) : db' = u.row
    /\ Settle(p)
    /\ UNCHANGED <<provider, created, outbox, backoff, handlers, history>>

-----------------------------------------------------------------------------
(***************************************************************************)
(* Handlers of the HTTP API, restarts and time                             *)
(***************************************************************************)
ClearRefreshCache == inFlight' = NoProc /\ backoff' = FALSE

\* The refresh in the map runs on, and nobody will join it.
Forget ==
    cleared' = cleared \cup {f \in Login : inFlight # NoProc /\ procs[inFlight].tok.f = f}

\* A login mints the first token of a new family.
FirstToken == [f |-> logins + 1, i |-> 1]

NewLogin ==
    /\ logins < MaxLogin
    /\ logins' = logins + 1
    /\ live' = [live EXCEPT ![logins + 1] = 1]
    /\ valid' = valid \cup {FirstToken}
    /\ procs' = Witness(FirstToken)

\* Re-authentication writes the row without a guard, clears the refresh cache,
\* lifts a needs-reauth pause and clears the cache again.
Reauthenticate ==
    /\ "reauth" \in Operator
    /\ reauth = "idle" /\ db.gen # 0
    /\ NewLogin
    /\ db' = [db EXCEPT !.tok = FirstToken, !.reauth = FALSE]
    /\ reauth' = "clear"
    /\ UNCHANGED <<created, outbox, inFlight, backoff, removing, history>>

ReauthClear ==
    /\ reauth = "clear"
    /\ ClearRefreshCache
    /\ reauth' = "resume"
    /\ UNCHANGED <<provider, db, created, outbox, procs, removing, history>>

ReauthResume ==
    /\ reauth = "resume"
    /\ \E u \in Updates(db.gen # 0 /\ db.paused, [db EXCEPT !.paused = FALSE]) : db' = u.row
    /\ ClearRefreshCache
    /\ reauth' = "idle"
    /\ UNCHANGED <<provider, created, outbox, procs, removing, history>>

\* Force-reset of a rate limit, token reload, usage refresh.
OperatorClear ==
    /\ "clear" \in Operator /\ db.gen # 0
    /\ ClearRefreshCache
    /\ Forget
    /\ UNCHANGED <<provider, db, created, outbox, procs, handlers, forgotten>>

NoRow == [gen |-> 0, tok |-> NoToken, reauth |-> FALSE, paused |-> FALSE]

\* Removal deletes the row and, once that has returned, clears the refresh cache
\* and the outbox of the id, whatever generation the entry has.
DeleteAccount ==
    /\ "remove" \in Operator
    /\ ~removing /\ db.gen # 0 /\ created < MaxGeneration
    /\ db' = NoRow
    /\ removing' = TRUE
    /\ UNCHANGED <<provider, created, outbox, inFlight, backoff, procs, reauth, history>>

CleanUp ==
    /\ removing
    /\ ClearRefreshCache
    /\ Forget
    /\ ClearPendingRotation(pending.gen)
    /\ removing' = FALSE
    /\ UNCHANGED <<provider, db, created, procs, reauth, forgotten>>

RecreateAccount ==
    /\ db.gen = 0
    /\ NewLogin
    /\ created' = created + 1
    /\ db' = [gen |-> created + 1, tok |-> FirstToken, reauth |-> FALSE, paused |-> FALSE]
    /\ UNCHANGED <<outbox, inFlight, backoff, handlers, history>>

\* What a restart finds: the row and the file.
Durable == {db.tok, wal.tok}

\* The process dies; restorePendingRotations runs before anything can refresh.
Restart ==
    /\ "crash" \in Faults
    /\ procs' = [p \in Proc |-> Idle]
    /\ inFlight' = NoProc
    /\ backoff' = FALSE
    /\ walQueue' = <<>>
    /\ pending' = wal
    /\ reauth' = "idle"
    /\ removing' = FALSE
    /\ forgotten' = forgotten \cup
          {f \in Login : live[f] # 0 /\ [f |-> f, i |-> live[f]] \notin Durable}
    /\ UNCHANGED <<provider, db, created, wal, cleared>>

BackoffEnds ==
    /\ backoff
    /\ backoff' = FALSE
    /\ UNCHANGED <<provider, db, created, outbox, inFlight, procs, handlers, history>>

\* An access token lives for hours: one minted while a refresh or the
\* re-authentication handler runs does not expire before that ends.
Expire(t) ==
    /\ t \in valid
    /\ \A p \in Proc : t \notin procs[p].young
    /\ reauth = "idle" \/ t # db.tok
    /\ valid' = valid \ {t}
    /\ UNCHANGED <<live, logins, db, created, outbox, inFlight, backoff, procs, handlers, history>>

Revoke(f) ==
    /\ "revoke" \in Faults /\ live[f] # 0
    /\ live' = [live EXCEPT ![f] = 0]
    /\ UNCHANGED <<logins, valid, db, created, outbox, inFlight, backoff, procs, handlers, history>>

-----------------------------------------------------------------------------
Refresh(p) ==
    \/ Exchange(p) \/ Minted(p) \/ Persist(p) \/ Persisted(p) \/ LostCas(p)
    \/ PersistThrew(p) \/ Final(p) \/ Failed(p) \/ Rejected(p) \/ Flag(p)
    \/ FlushWrite(p) \/ FlushDone(p)

RequestStep(p) ==
    \/ Start(p) \/ Join(p) \/ InBackoff(p) \/ CheckRow(p) \/ AdoptPending(p)
    \/ Reread(p) \/ Pause(p)

Handlers ==
    \/ Reauthenticate \/ ReauthClear \/ ReauthResume \/ OperatorClear
    \/ DeleteAccount \/ CleanUp \/ RecreateAccount

Next ==
    \/ \E p \in Proc : Refresh(p)
    \/ \E p \in Request : RequestStep(p)
    \/ \E p \in Scheduler : SelectRow(p) \/ RefreshRow(p)
    \/ \E ok \in BOOLEAN : WalWrite(ok)
    \/ Handlers
    \/ Restart
    \/ BackoffEnds
    \/ \E t \in Token : Expire(t)
    \/ \E f \in Login : Revoke(f)

Spec == Init /\ [][Next]_vars
-----------------------------------------------------------------------------
(***************************************************************************)
(* Properties                                                              *)
(***************************************************************************)
Pc == {"idle", "begin", "flush", "flushed", "flushing", "adopt", "selected", "exchange",
       "minted", "persist", "persisted", "saving", "final", "failed", "rejected",
       "reread", "flag", "pause"}

Local ==
    [pc: Pc, gen: 0..MaxGeneration, tok: Token \cup {NoToken}, new: Token \cup {NoToken},
     entry: Rotation \cup {NoRotation}, result: {"none", "ok", "lost", "threw"},
     young: SUBSET Token]

\* The shape of the row, the outbox, its file and queue, and every process.
TypeOK ==
    /\ live \in [Login -> 0..MaxRotation]
    /\ logins \in Login
    /\ valid \in SUBSET Token
    /\ db \in [gen: 0..MaxGeneration, tok: Token \cup {NoToken},
               reauth: BOOLEAN, paused: BOOLEAN]
    /\ created \in Generation
    /\ pending \in Rotation \cup {NoRotation}
    /\ wal \in Rotation \cup {NoRotation}
    /\ walQueue \in Seq([op: {"save", "remove"}, rot: Rotation \cup {NoRotation},
                         owner: Proc \cup {NoProc}])
    /\ inFlight \in Proc \cup {NoProc}
    /\ backoff \in BOOLEAN
    /\ procs \in [Proc -> Local]
    /\ reauth \in {"idle", "clear", "resume"}
    /\ removing \in BOOLEAN
    /\ forgotten \in SUBSET Login
    /\ cleared \in SUBSET Login

\* The token the provider honours for the login the row belongs to.
Newest == [f |-> db.tok.f, i |-> live[db.tok.f]]

\* A refresh has been given the token and has not settled yet.
InHand(t) ==
    \E p \in Proc : procs[p].new = t
                    /\ procs[p].pc \in {"minted", "persist", "persisted", "saving"}

Kept(t) == \/ db.tok = t
           \/ pending.gen = db.gen /\ pending.tok = t
           \/ InHand(t)

\* An account with a credential the provider honours, in its row, in the outbox or
\* in the hands of a refresh.
Healthy == db.gen # 0 /\ live[db.tok.f] # 0 /\ Kept(Newest)

\* "Recover ... instead of condemning a healthy account" (token-manager.ts 1032):
\* no refresh flags or pauses an account that still has a usable credential,
\* whatever the interleaving of requests, the proactive refresher, failing writes,
\* re-authentication, removal and restarts.  The exception is a login one of whose
\* refreshes was running when an operator cleared the cache, or the clean-up of a
\* removed account ran late: a second refresh may then be refused the token that
\* the first has exchanged.
QuarantineJustified ==
    [][~(/\ db'.gen = db.gen
         /\ (db'.reauth /\ ~db.reauth) \/ (db'.paused /\ ~db.paused)
         /\ Healthy
         /\ db.tok.f \notin cleared)]_vars

\* "A rotation the provider has already committed must never be silently dropped"
\* (token-manager.ts 907): unless the provider's answer or the whole process was
\* lost, the token that continues the row's login is in the row, in the outbox or
\* in the hands of a refresh.  It does not hold: between the exchange and the outbox
\* the refresh reads the row (827, 917), and a read that throws ends it.
RotationKept ==
    db.gen # 0 /\ live[db.tok.f] # 0 /\ db.tok.f \notin forgotten => Kept(Newest)

\* "microtask atomicity is what deduplicates concurrent callers" (token-manager.ts
\* 811): the token the row holds is never in the hands of two refreshes at once,
\* with the same exception as above.
NoDoubleExchange ==
    \A p, q \in Proc :
        procs[p].pc = "exchange" /\ procs[q].pc = "exchange" /\ p # q
          => \/ ~(Owns(procs[p].gen, procs[p].tok) /\ Owns(procs[q].gen, procs[q].tok))
             \/ db.tok.f \in cleared

\* The write-ahead log is kept by operations nobody waits for, queued behind each
\* other (pending-rotation-registry.ts 72), and some of them fail.  Still no step
\* that changes the entry of the registry or the file leaves the two different with
\* no operation outstanding, so a restart resumes where the process stopped.  (What it
\* allows is a failed operation that changes neither.)
FileMatchesOutbox ==
    [][walQueue' = <<>> /\ <<pending', wal'>> # <<pending, wal>> => wal' = pending']_vars

\* "a refresh that lost a race to a manual re-auth cannot overwrite newer
\* credentials" (token-manager.ts 832): the row never goes back to an earlier
\* login, nor to an earlier token of its login.
RowNeverRegresses ==
    [][db.gen # 0 /\ db'.gen # 0
         => \/ db'.tok.f > db.tok.f
            \/ db'.tok.f = db.tok.f /\ db'.tok.i >= db.tok.i]_vars
=============================================================================
