---------------------------- MODULE QualityRoute ----------------------------
(***************************************************************************)
(* Quality routing of one session: the durable row that holds the intent   *)
(* of the root, the conversations with their homes, the leases with their  *)
(* dispatch fences and the ingress tickets                                 *)
(* (packages/database/src/repositories/quality-route.repository.ts), the   *)
(* requests that walk from ingress through lease, fence and physical send  *)
(* to a settlement (packages/proxy/src/quality-route-candidates.ts), and   *)
(* the in-process recovery that keeps writing an observed outcome until it *)
(* is durable (packages/proxy/src/quality-settlement-recovery.ts).         *)
(*                                                                         *)
(* Every repository call is a compare-and-swap of the whole row on its     *)
(* incarnation and version, retried on a conflict: one atomic step here,   *)
(* with what its caller does in memory on the answer.  The answer can be   *)
(* lost, and the call can fail without an effect.                          *)
(***************************************************************************)
EXTENDS Integers, Sequences, FiniteSets, SequencesExt

CONSTANTS
    Request,
    Kind,           \* the conversations each may belong to
    Preference,     \* what a request may ask of the root, Native among them
    Native,         \* an explicit model: the root leaves quality routing
    Role,           \* worker roles of a child
    Target,         \* physical targets
    Candidates,     \* how many candidates each tries
    Attempts,       \* immediate writes of a settlement (3 in the code)
    Capacity,       \* settlements the recovery holds
    MaxIncarnations, MaxFaults, MaxPauses

ASSUME QualityRouteAssumption ==
    /\ IsFiniteSet(Request) /\ Native \in Preference
    /\ Role # {} /\ Target # {}
    /\ Kind \in [Request -> SUBSET {"root", "child", "request-only"}]
    /\ Candidates \in [Request -> Nat \ {0}]
    /\ {Attempts, Capacity, MaxIncarnations} \subseteq Nat \ {0}
    /\ {MaxFaults, MaxPauses} \subseteq Nat

VARIABLES
    row,       \* the session's row, or NoRow
    req,       \* the requests, with their settlement entries
    line,      \* root requests in the order of arrival, until one is outdated
    tally      \* incarnations, faults and pauses so far

vars == <<row, req, line, tally>>

NoRow == [inc |-> 0]
NoHome == [version |-> 0, rev |-> 0, target |-> 0]
Root == "root"
Child == "child"
Only == "request-only"     \* an unidentified child: a dispatch slot, no home
Key == {Root, Child, Only}

\* A conversation that does not exist yet has revision 0.
NoConversation == [rev |-> 0, hv |-> 0, home |-> NoHome, last |-> <<>>, role |-> 0]
NewRow(inc) ==
    [inc |-> inc, pref |-> Native, enrolled |-> FALSE, ingress |-> {},
     next |-> 0, accepted |-> 0, conv |-> [k \in {Root, Child} |-> NoConversation],
     leases |-> {}, settled |-> {}, command |-> 0, idle |-> FALSE]

Idle == [pc |-> "new", key |-> Root, inc |-> 0, order |-> 0, rev |-> 0,
         seen |-> 0, attempt |-> 1, hv |-> 0, target |-> 0, auth |-> 0,
         send |-> "no", entry |-> "none", retired |-> FALSE, tries |-> 0]

Init ==
    /\ row = NoRow
    /\ req = [r \in Request |-> Idle]
    /\ line = <<>>
    /\ tally = [incs |-> 0, faults |-> 0, pauses |-> 0]

-----------------------------------------------------------------------------
(***************************************************************************)
(* The row.                                                                *)
(***************************************************************************)
Fences(w) == {l \in w.leases : l.fence # 0}
live(w) == ~w.idle \/ \E l \in w.leases : l.fence # 0 \/ l.fresh

\* The root's intent exists once a request was accepted.
current(w, inc) == w # NoRow /\ w.inc = inc /\ w.conv[Root].rev > 0 /\ live(w)

\* An unidentified child runs under the revision of the root.
Revision(w, k) == w.conv[IF k = Child THEN Child ELSE Root].rev
HomeVersion(w, k) == IF k = Only THEN 0 ELSE w.conv[k].hv

\* A new intent takes the leases of the one it replaces with it.
supersedeRoot(w, pref) ==
    [w EXCEPT !.pref = pref, !.conv[Root].rev = @ + 1, !.conv[Root].last = <<>>,
              !.settled = {},
              !.leases = {l \in @ : l.key = Child}]

\* The lease a request holds, as it was issued to it.
Id(r) == <<r, req[r].attempt>>
Lease(w, r) == {l \in w.leases : l.id = Id(r)}

findLease(w, r) ==
    {l \in Lease(w, r) :
        /\ Revision(w, l.key) = req[r].rev
        /\ l.key = Only => w.pref # Native
        /\ HomeVersion(w, l.key) = req[r].hv}

\* Any success of the current intent makes a home, whoever holds the old one.
mayInstallAnew(w, r, target, auth) == TRUE

\* A target becomes the home if there is none of this intent, if it is the
\* home, or if the very home in place was found to be gone.
mayInstall(w, r, target, auth) ==
    LET c == w.conv[req[r].key]
    IN  \/ c.home.rev # c.rev
        \/ c.home.target = target
        \/ auth # 0 /\ auth = c.hv

beginDispatch(w, r, target, auth) ==
    [w EXCEPT !.idle = FALSE,
              !.leases = {l \in @ : l.id # Id(r)} \cup
                {[l EXCEPT !.fence = target,
                           !.install = l.key # Only /\ mayInstall(w, r, target, auth)] :
                    l \in Lease(w, r)}]

\* What the writer of a settlement is told.
SettleResult(w, r) ==
    LET k == req[r].key
        superseded == Revision(w, k) # req[r].rev \/ (k = Only /\ w.pref = Native)
        repeated == Id(r) \in w.settled \/ (k # Only /\ w.conv[k].last = Id(r))
    IN  IF w # NoRow /\ w.inc # req[r].inc THEN "stale"
        ELSE IF ~current(w, req[r].inc) THEN "error"
        ELSE IF superseded THEN "stale"
        ELSE IF repeated THEN "done"
        ELSE IF findLease(w, r) \cap Fences(w) = {} THEN "stale" ELSE "ok"

settleDispatch(w, r) ==
    LET k == req[r].key
        l == CHOOSE x \in findLease(w, r) : TRUE
        freed == [w EXCEPT !.idle = FALSE, !.leases = @ \ {l}]
        homed == IF req[r].send = "success" /\ l.install
                 THEN [freed EXCEPT
                        !.conv[k].hv = @ + 1,
                        !.conv[k].home = [version |-> w.conv[k].hv + 1,
                                          rev |-> w.conv[k].rev, target |-> l.fence]]
                 ELSE freed
    IN  IF k = Only THEN [freed EXCEPT !.settled = @ \cup {Id(r)}]
        ELSE [homed EXCEPT !.conv[k].last = Id(r)]

Reclaimable(w) ==
    /\ ~w.enrolled /\ w.ingress = {} /\ w.pref = Native
    /\ w.conv[Child].rev = 0 /\ w.conv[Root].home = NoHome
    /\ w.leases = {} /\ w.command = 0 /\ w.settled = {}

\* Idle rows go, unless a lease, a ticket or a fence protects them.
cleanup(w) ==
    IF /\ w # NoRow /\ w.idle /\ w.ingress = {}
       /\ \A l \in w.leases : l.fence = 0 /\ ~l.fresh
    THEN NoRow ELSE w

-----------------------------------------------------------------------------
(***************************************************************************)
(* Settlement entries of the process.                                      *)
(***************************************************************************)
Entries == {r \in Request : req[r].entry # "none"}

\* A request with nothing left to do or to answer for is forgotten.
tidy(q) ==
    IF q.pc \in {"done", "gone"} /\ q.entry = "none" /\ q.send # "open"
    THEN [Idle EXCEPT !.pc = q.pc] ELSE q

\* Memory of a settlement goes at once, or with its write if one is running.
removed(q) ==
    tidy([q EXCEPT !.retired = TRUE, !.entry = IF @ = "writing" THEN @ ELSE "none"])

retireBefore(qs, inc, K, rev) ==
    [r \in Request |->
        IF /\ qs[r].entry \in {"bound", "writing", "waiting"}
           /\ qs[r].inc = inc /\ qs[r].key \in K /\ qs[r].rev < rev
        THEN removed(qs[r]) ELSE qs[r]]

\* An outcome is recorded once, and written unless its intent was superseded.
settle(q, outcome) ==
    [q EXCEPT !.send = outcome, !.tries = 0,
              !.entry = IF q.retired THEN @ ELSE "writing"]

\* A handler ends: it withdraws its ticket, and an attempt that was never sent
\* gives its entry back.  (A row that accepted a quality intent stays enrolled:
\* there is nothing left for such a request to withdraw.)
ended(q) ==
    [q EXCEPT !.pc = IF q.order # 0 THEN "withdraw" ELSE "done",
              !.entry = IF q.entry \in {"reserved", "bound"} /\ q.send = "no"
                        THEN "none" ELSE @]

\* The next candidate, if there is one.
another(q, r) ==
    IF q.attempt = Candidates[r] THEN ended(q)
    ELSE [ended(q) EXCEPT !.pc = "accepted", !.attempt = @ + 1, !.send = "no",
                          !.retired = FALSE]

Fine == UNCHANGED tally
Fault == tally.faults < MaxFaults /\ tally' = [tally EXCEPT !.faults = @ + 1]
At(r, pc) == req[r].pc = pc
Goes(r, q) == req' = [req EXCEPT ![r] = tidy(q)]

\* A call of the repository commits and answers, commits and its answer is
\* lost, or fails without an effect; a caller without answer goes on as q.
Commits(r, w, qs, q) ==
    \/ row' = w /\ req' = qs /\ Fine
    \/ row' \in {w, row} /\ Goes(r, q) /\ Fault

\* A call of the repository that its conditions refuse.
Refused(r, q) == Goes(r, q) /\ UNCHANGED row /\ Fine

\* What a request keeps of the conversation it was accepted into: its revision
\* and the version of the home of that intent.
Joined(q, c) ==
    [q EXCEPT !.pc = "accepted", !.rev = c.rev, !.order = 0,
              !.seen = IF c.home.rev = c.rev THEN c.home.version ELSE 0]

-----------------------------------------------------------------------------
(***************************************************************************)
(* Ingress and intent.                                                     *)
(***************************************************************************)
Arrive(r) ==
    /\ At(r, "new")
    /\ \E k \in Kind[r] :
        /\ Goes(r, [req[r] EXCEPT !.key = k,
                                  !.pc = IF k = Root THEN "chained" ELSE "status"])
        /\ line' = IF k = Root THEN Append(line, r) ELSE line
    /\ UNCHANGED <<row, tally>>

\* Reservations are made one after the other, in the order of arrival.
Reserving == SelectSeq(line, LAMBDA r : req[r].pc \in {"chained", "prepared"})

\* The first in line cleans up and makes sure that there is a row.
reserveOrdered(r) ==
    /\ At(r, "chained") /\ Head(Reserving) = r
    /\ LET w == cleanup(row)
           q == [req[r] EXCEPT !.pc = "prepared"]
       IN  \/ w # NoRow /\ row' = w /\ Goes(r, q) /\ Fine
           \/ /\ w = NoRow /\ tally.incs < MaxIncarnations
              /\ row' = NewRow(tally.incs + 1) /\ Goes(r, q)
              /\ tally' = [tally EXCEPT !.incs = @ + 1]
           \/ row' = w /\ Goes(r, [q EXCEPT !.pc = "body"]) /\ Fault
    /\ UNCHANGED line

\* Then it takes the next ticket; the row may be gone again.
reserveIngress(r) ==
    /\ At(r, "prepared")
    /\ LET q == [req[r] EXCEPT !.pc = "body"]
           order == row.next + 1
           w == [row EXCEPT !.next = order, !.ingress = @ \cup {order},
                            !.idle = IF row.enrolled THEN @ ELSE FALSE]
       IN  IF row = NoRow THEN Refused(r, q)
           ELSE Commits(r, w, [req EXCEPT ![r] =
                    [q EXCEPT !.inc = row.inc, !.order = order]], q)
    /\ UNCHANGED line

\* A ticket is accepted whatever was accepted after it.
acceptableUnordered(r) ==
    /\ row # NoRow /\ row.inc = req[r].inc /\ req[r].order \in row.ingress

acceptable(r) ==
    /\ row # NoRow /\ row.inc = req[r].inc
    /\ req[r].order \in row.ingress /\ req[r].order > row.accepted

\* The requests that arrived after r.
Behind(r) == SubSeq(line, 1 + CHOOSE i \in DOMAIN line : line[i] = r, Len(line))

acceptRoot(r) ==
    /\ At(r, "body") /\ acceptable(r)
    /\ \E pref \in Preference :
        LET changed == row.conv[Root].rev = 0 \/ row.pref # pref
            v == IF changed THEN supersedeRoot(row, pref) ELSE row
            enrolled == row.enrolled \/ pref # Native
            w == [v EXCEPT !.accepted = req[r].order,
                           !.ingress = @ \ {req[r].order},
                           !.enrolled = enrolled,
                           !.idle = IF enrolled THEN FALSE ELSE @]
            q == Joined(req[r], w.conv[Root])
            qs == [req EXCEPT ![r] = IF pref = Native THEN ended(@) ELSE q]
        IN  /\ row' = w
            /\ \/ req' = retireBefore(qs, w.inc, {Root, Only}, w.conv[Root].rev) /\ Fine
               \/ Goes(r, ended(req[r])) /\ Fault
    /\ line' = IF r \in ToSet(line) THEN Behind(r) ELSE line

\* The body is rejected, the ticket is stale or the call fails.
turnAway(r) ==
    /\ At(r, "body")
    /\ Refused(r, ended(req[r]))
    /\ line' = SelectSeq(line, LAMBDA x : x # r)

\* A child reads the session, and joins with the revision it saw.
readStatus(r) ==
    /\ At(r, "status")
    /\ LET k == req[r].key
       IN  IF /\ row # NoRow /\ current(row, row.inc)
              /\ row.pref # Native \/ (k = Child /\ row.conv[Child].rev > 0)
           THEN Refused(r, [req[r] EXCEPT !.inc = row.inc, !.rev = Revision(row, k),
                                          !.pc = IF k = Only THEN "accepted" ELSE "join"])
           ELSE Refused(r, ended(req[r]))
    /\ UNCHANGED line

acceptChild(r) ==
    /\ At(r, "join")
    /\ \E role \in Role :
        LET c == row.conv[Child]
            v == IF c.rev > 0 /\ c.role = role THEN row
                 ELSE [row EXCEPT !.conv[Child].role = role, !.conv[Child].rev = @ + 1,
                                  !.conv[Child].last = <<>>,
                                  !.leases = {l \in @ : l.key # Child}]
            w == [v EXCEPT !.idle = FALSE]
            q == Joined(req[r], w.conv[Child])
        IN  IF current(row, req[r].inc) /\ c.rev = req[r].rev
               /\ (c.rev > 0 \/ row.pref # Native)
            THEN Commits(r, w, retireBefore([req EXCEPT ![r] = q], w.inc, {Child},
                                            w.conv[Child].rev), ended(req[r]))
            ELSE Refused(r, ended(req[r]))
    /\ UNCHANGED line

-----------------------------------------------------------------------------
(***************************************************************************)
(* An attempt: lease, binding, fence, send.                                *)
(***************************************************************************)
\* A local check refuses the candidate; its lease is left to expire.
reject(r) ==
    /\ At(r, "leased")
    /\ Refused(r, another(req[r], r))
    /\ UNCHANGED line

\* Expired leases make room, dispatched or not.
prunedByAge(w) == {l \in w.leases : l.fresh}

\* Expired leases that were never dispatched make room.
pruned(w) == {l \in w.leases : l.fence # 0 \/ l.fresh}

mayLease(r) ==
    /\ current(row, req[r].inc)
    /\ Revision(row, req[r].key) = req[r].rev
    /\ req[r].key # Child => row.pref # Native
    /\ \A l \in Fences(row) : l.key # req[r].key

\* A place for the settlement comes first, then the lease; other sessions'
\* settlements take places too.
acquireLease(r) ==
    /\ At(r, "accepted")
    /\ LET k == req[r].key
           lease == [id |-> Id(r), key |-> k, fence |-> 0, install |-> FALSE,
                     fresh |-> TRUE]
           w == [row EXCEPT !.idle = FALSE, !.leases = pruned(row) \cup {lease}]
           q == [req[r] EXCEPT !.pc = "leased", !.entry = "reserved",
                               !.hv = HomeVersion(row, k)]
       IN  \E others \in 0 .. Capacity :
            IF Cardinality(Entries) + others >= Capacity
            THEN Refused(r, another(req[r], r))
            ELSE IF mayLease(r)
            THEN Commits(r, w, [req EXCEPT ![r] = q], ended(req[r]))
            ELSE Refused(r, ended(req[r]))
    /\ UNCHANGED line

\* From here on a new intent retires the entry.
bind(r) ==
    /\ At(r, "leased")
    /\ Refused(r, [req[r] EXCEPT !.pc = "binding", !.entry = "bound"])
    /\ UNCHANGED line

\* The row is read for an intent committed before the binding.
bindRead(r) ==
    /\ At(r, "binding")
    /\ \/ LET q == [req EXCEPT ![r].pc = "bound"]
              k == req[r].key
          IN  /\ req' = IF row # NoRow /\ current(row, req[r].inc)
                        THEN retireBefore(q, row.inc, {k}, Revision(row, k)) ELSE q
              /\ Fine
       \/ Goes(r, ended(req[r])) /\ Fault
    /\ UNCHANGED <<row, line>>

\* A fence beside the one another request holds.
mayDispatchBeside(r) ==
    /\ current(row, req[r].inc)
    /\ \E l \in findLease(row, r) : l.fresh

mayDispatch(r) ==
    /\ current(row, req[r].inc)
    /\ \E l \in findLease(row, r) : l.fresh
    /\ \A l \in Fences(row) : l.key # req[r].key

\* The fence of the next candidate, with the right to install a home decided
\* now.
fenceDispatch(r) ==
    /\ At(r, "bound")
    /\ \E target \in Target \ {req[r].target}, auth \in {0, req[r].seen} :
        LET q == [req[r] EXCEPT !.pc = "fenced", !.target = target, !.auth = auth]
        IN  IF mayDispatch(r)
            THEN Commits(r, beginDispatch(row, r, target, auth),
                         [req EXCEPT ![r] = q], ended(req[r]))
            ELSE Refused(r, ended(req[r]))
    /\ UNCHANGED line

\* The intent is read once more behind the fence.
recheck(r) ==
    /\ At(r, "fenced")
    /\ LET k == req[r].key
           same == /\ row # NoRow /\ current(row, req[r].inc)
                   /\ Revision(row, k) = req[r].rev /\ HomeVersion(row, k) = req[r].hv
                   /\ k # Child => row.pref # Native
       IN  \/ same /\ Refused(r, [req[r] EXCEPT !.pc = "checked"])
           \/ Refused(r, ended(settle(req[r], "failed")))
    /\ UNCHANGED line

send(r) ==
    /\ At(r, "checked")
    /\ \/ Refused(r, [req[r] EXCEPT !.pc = "sent", !.send = "open"])
       \/ Refused(r, ended(settle(req[r], "failed")))
    /\ UNCHANGED line

\* A refusal that proves no work was done is settled before the next candidate;
\* otherwise the handler ends, with or without a response.
answer(r) ==
    /\ At(r, "sent")
    /\ \/ /\ req[r].send = "open"
          /\ LET q == settle(req[r], "failed")
             IN  Refused(r, IF q.retired THEN ended(q) ELSE [q EXCEPT !.pc = "settling"])
       \/ Refused(r, ended(req[r]))
    /\ UNCHANGED line

\* The response ends, in time or late.
complete(r) ==
    /\ req[r].send = "open" /\ req[r].pc \in {"sent", "withdraw", "reclaim", "done"}
    /\ \E outcome \in {"success", "failed"} : Refused(r, settle(req[r], outcome))
    /\ UNCHANGED line

-----------------------------------------------------------------------------
(***************************************************************************)
(* The writes of a settlement.                                             *)
(***************************************************************************)
\* The writer has its answer, and with it the handler that waits for it.
answered(q, r, ok) ==
    LET p == [q EXCEPT !.entry = "none", !.retired = TRUE]
    IN  IF q.pc # "settling" THEN p
        ELSE IF ok THEN another(p, r) ELSE ended(p)

\* A write that fails gives up.
unansweredOnce(q, r) == answered(q, r, FALSE)

\* A write without an answer is repeated, at once or from a timer.
unanswered(q, r) ==
    IF q.retired THEN answered(q, r, FALSE)
    ELSE IF q.tries + 1 < Attempts THEN [q EXCEPT !.tries = @ + 1]
    ELSE [(IF q.pc = "settling" THEN ended(q) ELSE q) EXCEPT !.entry = "waiting"]

persist(r) ==
    /\ req[r].entry = "writing"
    /\ LET result == SettleResult(row, r)
           q == unanswered(req[r], r)
       IN  CASE result = "ok" ->
                    Commits(r, settleDispatch(row, r),
                            [req EXCEPT ![r] = tidy(answered(@, r, TRUE))], q)
             [] result = "done" -> Refused(r, answered(req[r], r, TRUE))
             [] result = "stale" -> Refused(r, answered(req[r], r, FALSE))
             [] result = "error" -> Refused(r, q)
    /\ UNCHANGED line

retryTimer(r) ==
    /\ req[r].entry = "waiting"
    /\ Refused(r, [req[r] EXCEPT !.entry = "writing", !.tries = Attempts - 1])
    /\ UNCHANGED line

-----------------------------------------------------------------------------
(***************************************************************************)
(* Withdrawal, control, time and faults.                                   *)
(***************************************************************************)
withdrawIngress(r) ==
    /\ At(r, "withdraw")
    /\ LET q == [req[r] EXCEPT !.pc = "done"]
       IN  IF row # NoRow /\ row.inc = req[r].inc
           THEN Commits(r, [row EXCEPT !.ingress = @ \ {req[r].order}],
                        [req EXCEPT ![r].pc = "reclaim"], q)
           ELSE Refused(r, q)
    /\ UNCHANGED line

\* A row that served native requests only goes with the last of them.
reclaim(r) ==
    /\ At(r, "reclaim")
    /\ Goes(r, [req[r] EXCEPT !.pc = "done"])
    /\ row' = IF row # NoRow /\ row.inc = req[r].inc /\ Reclaimable(row)
              THEN NoRow ELSE row
    /\ UNCHANGED <<line, tally>>

\* An operator asks for the preferred route of the current intent again; a
\* command for an older one is refused, and a repeated one answered as before.
retryPreferred ==
    /\ row # NoRow /\ current(row, row.inc)
    /\ LET w == [supersedeRoot(row, row.pref) EXCEPT
                    !.next = @ + 1, !.accepted = row.next + 1, !.idle = FALSE,
                    !.command = row.conv[Root].rev + 1]
           retired(rev) == retireBefore(req, row.inc, {Root, Only}, rev)
       IN  \/ /\ row.command # 0 /\ req' = retired(row.command)
              /\ UNCHANGED <<row, line, tally>>
           \/ /\ row.command = 0 /\ row.pref # Native /\ row' = w
              /\ \/ req' = retired(w.command) /\ Fine
                 \/ req' = req /\ Fault
              /\ line' = SelectSeq(line, LAMBDA r : req[r].inc # row.inc)

\* Time passes: tickets and leases expire, and after a long while the session.
Pause ==
    /\ row # NoRow /\ tally.pauses < MaxPauses
    /\ tally' = [tally EXCEPT !.pauses = @ + 1]
    /\ \E long \in BOOLEAN :
        row' = [row EXCEPT !.ingress = {}, !.idle = @ \/ long \/ ~row.enrolled,
                           !.leases = {[l EXCEPT !.fresh = FALSE] : l \in @}]
    /\ UNCHANGED <<req, line>>

\* The process dies; what it had sent may still run.
Crash ==
    /\ Fault
    /\ req' = [r \in Request |->
                IF req[r].pc = "new" THEN req[r]
                ELSE tidy([req[r] EXCEPT !.pc = "gone", !.entry = "none"])]
    /\ line' = <<>>
    /\ UNCHANGED row

Handle(r) ==
    \/ reserveOrdered(r) \/ reserveIngress(r) \/ acceptRoot(r) \/ turnAway(r)
    \/ readStatus(r) \/ acceptChild(r) \/ reject(r) \/ acquireLease(r)
    \/ bind(r) \/ bindRead(r) \/ fenceDispatch(r) \/ recheck(r) \/ send(r)
    \/ answer(r) \/ withdrawIngress(r) \/ reclaim(r)

Next ==
    \/ \E r \in Request :
        Arrive(r) \/ Handle(r) \/ complete(r) \/ persist(r) \/ retryTimer(r)
    \/ retryPreferred \/ Pause \/ Crash

\* The recovery keeps writing; nothing else has to happen, and no write has to
\* fail.
Fairness == \A r \in Request : WF_vars((persist(r) \/ retryTimer(r)) /\ Fine)

Spec == Init /\ [][Next]_vars /\ Fairness

-----------------------------------------------------------------------------
TypeOK ==
    /\ row # NoRow =>
        /\ row.inc \in 1 .. MaxIncarnations
        /\ row.ingress \subseteq 1 .. row.next /\ row.accepted \in 0 .. row.next
        /\ \A l \in row.leases : l.fence \in Target \cup {0} /\ l.key \in Key
    /\ Cardinality(Entries) <= Capacity
    /\ \A r \in Request :
        /\ req[r].entry \in {"none", "reserved", "bound", "writing", "waiting"}
        /\ req[r].send \in {"no", "open", "success", "failed"}
        /\ req[r].entry \in {"writing", "waiting"} => req[r].send \in {"success", "failed"}

\* Under one intent a conversation has at most one send outstanding: two
\* requests are never both out on the same revision, whatever expired, was
\* lost, was retried or crashed in between.  (With TypeOK.)
SingleFlight ==
    TypeOK /\ \A r, q \in Request :
        /\ r # q /\ req[r].send = "open" /\ req[q].send = "open"
        => <<req[r].inc, req[r].key, req[r].rev>> # <<req[q].inc, req[q].key, req[q].rev>>

Fenced(r) == row # NoRow /\ row.inc = req[r].inc /\ Lease(row, r) \cap Fences(row) # {}

\* A fence leaves the row only when the outcome of its own send was observed,
\* or when a newer intent superseded it ("unresolved output fences survive
\* forever until settlement or authorized superseding intent").
FenceKept ==
    [][\A l \in IF row = NoRow THEN {} ELSE Fences(row) :
        LET r == l.id[1]
        IN  \/ row' # NoRow /\ row'.inc = row.inc /\ l.id \in {m.id : m \in Fences(row')}
            \/ req[r].attempt = l.id[2] /\ req[r].send \in {"success", "failed"}
            \/ row' # NoRow /\ Revision(row', l.key) > Revision(row, l.key)]_vars

\* A home changes only by the success of a request of the very intent in force,
\* one version at a time; a home of that intent gives way to another target
\* only to a request that found this home, in this version, gone.
HomeJustified ==
    [][row # NoRow /\ row' # NoRow /\ row'.inc = row.inc =>
        \A k \in {Root, Child} :
            LET c == row.conv[k]
                home == row'.conv[k].home
            IN  home # c.home =>
                \E r \in Request :
                    /\ req[r].inc = row.inc /\ req[r].key = k /\ req[r].rev = c.rev
                    /\ req[r].send = "success" /\ home.target = req[r].target
                    /\ home.version = c.hv + 1 /\ home.rev = c.rev
                    /\ \/ c.home.rev # c.rev \/ c.home.target = home.target
                       \/ req[r].auth = c.home.version]_vars

\* Intents take effect in the order in which they arrived: once one was
\* accepted, none that arrived before it is, whichever reads its body first,
\* and even when the row was cleaned up and made again in between; a retry
\* command outdates every ticket taken before it.
LatestIntentWins ==
    [][\A r \in Request :
        At(r, "body") /\ ~(r \in ToSet(line)) /\ req'[r].pc # "body" => row' = row]_vars

\* While the process lives, an observed outcome is made durable: the fence of
\* its send goes, however many writes fail or lose their answers.
OutcomeSettles ==
    \A r \in Request :
        Fenced(r) /\ req[r].send \in {"success", "failed"} ~> ~Fenced(r) \/ At(r, "gone")

=============================================================================
