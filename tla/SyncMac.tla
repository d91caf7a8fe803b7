------------------------------- MODULE SyncMac -------------------------------
(***************************************************************************)
(* One Mac's data path through iCloud Sync: SyncCore (src/sync/core.rs) on  *)
(* its worker thread, the app thread that edits and applies, the native     *)
(* bridge that runs the core's commands one by one, and the iCloud zone     *)
(* that other Macs write too.                                               *)
(*                                                                          *)
(* The Mac is signed in to the account it is bound to and its first merge   *)
(* is done; SyncSession models how it gets there and what an account change *)
(* does.  Two FIFO channels join the parts: `cmds` from the core to the     *)
(* bridge and `chan` to the worker thread (the bridge's events and the app  *)
(* thread's acknowledgements).                                              *)
(***************************************************************************)
EXTENDS SyncStore, Sequences, FiniteSets

CONSTANTS
    Entity,        \* the synced entities
    Peer,          \* the other Macs, seen as one device
    Times,         \* the readings of a clock
    StaleLimit,    \* STALE_DELETE_LIMIT
    Deleters,      \* the devices whose users delete
    Reuse,         \* may users take entries out again?
    Faults,        \* what may go wrong: "away", "stuck", "fetch", "expired", "record", "send"
    Prompt,        \* are batches applied before the worker handles an upload's answer?
    MaxQueue,      \* how many commands, or events, may wait
    MaxEdits, MaxRemote, MaxCrashes, MaxFaults, MaxOld  \* bounds on what happens

(* A position in the zone's history; nil is that of an engine that has none. *)
Position == [nil : BOOLEAN, pos : [Entity -> Nat]]

ASSUME MacAssumption ==
    /\ IsFiniteSet(Entity)
    /\ None \notin Position /\ \A seen \in SUBSET Entity : seen # None
    /\ Combining \subseteq Entity
    /\ Peer \in Nat \ {Me}
    /\ Times \subseteq Nat /\ Times # {}
    /\ StaleLimit \in Nat
    /\ Deleters \subseteq {Me, Peer}
    /\ {Reuse, Prompt} \subseteq BOOLEAN
    /\ {MaxQueue, MaxEdits, MaxRemote, MaxCrashes, MaxFaults, MaxOld} \subseteq Nat

VARIABLES
    store,           \* what is on disk for each entity
    ckpt,            \* on disk: the engine's checkpoint
    up,              \* the program runs and the core is started
    inflight,        \* core: uploads handed to the bridge and not answered
    fetching,        \* core: fetch_in_flight
    fetchCompleted,  \* core: fetch_completed
    caughtUp,        \* core: initial_fetch_done
    unapplied,       \* core: how many batches the host has not acknowledged
    pendingState,    \* core: pending_state, a checkpoint not saved yet
    reconcileNeeded, \* core: reconcile_needed
    sendHold,        \* core: send_hold_until_ms is in the future
    staleSeen,       \* core: stale_seen, names listed while catching up
    toApply,         \* host: fetched batches to apply, oldest first
    cmds,            \* core to bridge, oldest first
    chan,            \* to the worker thread, oldest first
    engine,          \* bridge: the engine's position; None once iCloud expired it
    staged,          \* bridge: changes staged for the next send
    cloud,           \* the zone: the latest version of each record
    left             \* bounds: what users and the environment may still do

coreVars == <<up, inflight, fetching, fetchCompleted, caughtUp, unapplied,
              pendingState, reconcileNeeded, sendHold, staleSeen>>
pathVars == <<toApply, cmds, chan>>
vars == <<store, ckpt, coreVars, pathVars, engine, staged, cloud, left>>

-----------------------------------------------------------------------------
(* The values that travel.                                                  *)

NoPosition == [nil |-> TRUE, pos |-> [e \in Entity |-> 0]]
FirstPosition == [NoPosition EXCEPT !.nil = FALSE]

Inflight == [e : Entity, q : Nat, val : {None} \cup Payload]

Change == [e : Entity, q : Nat, val : {None} \cup Payload,
           rev : Nat, at : Nat, tag : Nat]

Fetched == [e : Entity, rec : {r \in CloudRecord : r.val # None}]

FiniteSubset(S) == {T \in SUBSET S : IsFiniteSet(T)}

Batch == [recs : SUBSET Fetched, dels : SUBSET Entity]

(* A conflict comes with the version that the cloud holds instead.          *)
Result ==
    {r \in [e : Entity, q : Nat, rec : CloudRecord,
            kind : {"saved", "deleted", "retry", "unknown", "conflict"}] :
        r.kind = "conflict" => r.rec.val # None}

Command ==
    [cmd : {"start"}, at : Position] \cup [cmd : {"fetch"}]
        \cup [cmd : {"send"}, changes : FiniteSubset(Change)]

Event ==
    [ev : {"fetched"}, recs : SUBSET Fetched, dels : SUBSET Entity]
        \cup [ev : {"state"}, at : Position]
        \cup [ev : {"sent"}, results : FiniteSubset(Result)]
        \cup [ev : {"complete", "error", "expired", "sendfailed", "applied"}]

Bounds == [edits : Nat, remote : Nat, crashes : Nat, faults : Nat, old : Nat]

TypeOK ==
    /\ store \in [Entity -> Stored]
    /\ ckpt \in Position
    /\ {up, fetching, fetchCompleted, caughtUp, reconcileNeeded, sendHold} \subseteq BOOLEAN
    /\ inflight \subseteq Inflight
    /\ unapplied \in Nat
    /\ pendingState \in {None} \cup Position
    /\ staleSeen \in {None} \cup SUBSET Entity
    /\ toApply \in Seq(Batch)
    /\ cmds \in Seq(Command)
    /\ chan \in Seq(Event)
    /\ engine \in {None} \cup Position
    /\ staged \in FiniteSubset(Change)
    /\ cloud \in [Entity -> CloudRecord]
    /\ left \in Bounds

Init ==
    /\ store = [e \in Entity |-> Untracked]
    /\ ckpt = FirstPosition
    /\ up = FALSE
    /\ inflight = {}
    /\ fetching = FALSE /\ fetchCompleted = FALSE /\ caughtUp = FALSE
    /\ unapplied = 0
    /\ pendingState = None
    /\ reconcileNeeded = FALSE
    /\ sendHold = FALSE
    /\ staleSeen = None
    /\ toApply = <<>> /\ cmds = <<>> /\ chan = <<>>
    /\ engine = NoPosition
    /\ staged = {}
    /\ cloud = [e \in Entity |-> [val |-> None, ver |-> 0, rev |-> 0, at |-> 0, dev |-> Peer]]
    /\ left = [edits |-> MaxEdits, remote |-> MaxRemote, crashes |-> MaxCrashes,
               faults |-> MaxFaults, old |-> MaxOld]

-----------------------------------------------------------------------------
(* The core's pieces.                                                       *)

EntriesOf(S) == {x.e : x \in S}

(* Mistakes to tell apart from Due: no look at what is under way, and no    *)
(* wait of a delete for the catch-up.                                       *)
DueTwice(e, s, flying, caught) ==
    s.op # "none" /\ s.wait = "now" /\ (s.op = "delete" => caught)
DueAtOnce(e, s, flying, caught) ==
    s.op # "none" /\ s.wait = "now" /\ e \notin EntriesOf(flying)

(* `pump` passes over a due row while the entity has an upload under way,   *)
(* and over a delete until this session has caught up.                      *)
Due(e, s, flying, caught) ==
    /\ s.op # "none"
    /\ s.wait = "now"
    /\ e \notin EntriesOf(flying)
    /\ s.op = "delete" => caught

(* `build` of an upsert whose row vanished drops the row instead.           *)
Vanished(s) == s.op = "upsert" /\ s.row = None

Build(e, s) ==
    [e |-> e, q |-> s.seq, val |-> IF s.op = "delete" THEN None ELSE s.row,
     rev |-> Larger(s.rev, 1), at |-> s.at, tag |-> IF s.op = "delete" THEN 0 ELSE s.tag]

(* Every handler ends in `pump`.  st, flying, again, caught and out are     *)
(* what the handler made of the store, of the uploads under way, of         *)
(* reconcile_needed, of initial_fetch_done and of the commands.             *)
Pump(st, flying, again, caught, out) ==
    LET due == IF sendHold THEN {} ELSE {e \in Entity : Due(e, st[e], flying, caught)}
        lost == {e \in due : Vanished(st[e])}
        changes == {Build(e, st[e]) : e \in due \ lost}
    IN  /\ store' = [e \in Entity |-> IF e \in lost THEN Cancel(st[e]) ELSE st[e]]
        /\ reconcileNeeded' = (again \/ lost # {})
        /\ inflight' = flying \cup {[e |-> c.e, q |-> c.q, val |-> c.val] : c \in changes}
        /\ cmds' = IF changes = {} THEN out
                   ELSE Append(out, [cmd |-> "send", changes |-> changes])

(* `flush_state` saves the checkpoint, but only when every batch has been   *)
(* applied; waiting, pending and completed are what the handler made of     *)
(* unapplied, pending_state and fetch_completed.                            *)
CaughtUp(waiting, pending, completed) ==
    caughtUp \/ (waiting = 0 /\ (completed \/ pending # None))

(* The mistake: save it whatever still waits.                               *)
FlushStateEarly(waiting, pending, completed) ==
    /\ caughtUp' = CaughtUp(waiting, pending, completed)
    /\ pendingState' = None
    /\ ckpt' = IF pending = None THEN ckpt ELSE pending

FlushState(waiting, pending, completed) ==
    /\ caughtUp' = CaughtUp(waiting, pending, completed)
    /\ IF waiting > 0 THEN pendingState' = pending /\ UNCHANGED ckpt
       ELSE /\ pendingState' = None
            /\ ckpt' = IF pending = None THEN ckpt ELSE pending

(* A fetch is asked for unless one runs that is not overdue (FETCH_STUCK_MS). *)
AsksFetch(overdue) == ~fetching \/ overdue

WithFetch(out, overdue) ==
    IF AsksFetch(overdue) THEN Append(out, [cmd |-> "fetch"]) ELSE out

Batches(recs, dels) ==
    IF recs = {} /\ dels = {} THEN <<>> ELSE << [recs |-> recs, dels |-> dels] >>

-----------------------------------------------------------------------------
(* The worker thread: lifecycle and timers.                                 *)

Fault(kind) == /\ kind \in Faults /\ left.faults > 0
               /\ left' = [left EXCEPT !.faults = @ - 1]

(* `start`, and the account check that finds the bound account signed in.   *)
(* away: nothing was saved for STALE_AFTER_MS, whatever the checkpoint is.  *)
Launch(away) ==
    LET at == IF away THEN NoPosition ELSE ckpt
    IN  /\ ~up
        /\ IF away THEN Fault("away") ELSE UNCHANGED left
        /\ up' = TRUE
        /\ staleSeen' = IF away THEN {} ELSE None
        /\ fetching' = TRUE
        /\ UNCHANGED <<fetchCompleted, caughtUp, unapplied, pendingState, sendHold>>
        /\ Pump(store, {}, TRUE, FALSE, << [cmd |-> "start", at |-> at], [cmd |-> "fetch"] >>)
        /\ UNCHANGED <<ckpt, toApply, chan, engine, staged, cloud>>

(* Only what is on disk outlives the process.                               *)
Crash ==
    /\ up /\ left.crashes > 0
    /\ left' = [left EXCEPT !.crashes = @ - 1]
    /\ up' = FALSE
    /\ inflight' = {} /\ staged' = {}
    /\ fetching' = FALSE /\ fetchCompleted' = FALSE /\ caughtUp' = FALSE
    /\ unapplied' = 0 /\ pendingState' = None
    /\ reconcileNeeded' = FALSE /\ sendHold' = FALSE /\ staleSeen' = None
    /\ toApply' = <<>> /\ cmds' = <<>> /\ chan' = <<>>
    /\ engine' = NoPosition
    /\ UNCHANGED <<store, ckpt, cloud>>

Tick(now) ==
    /\ up
    /\ UNCHANGED <<ckpt, up, fetching, fetchCompleted, caughtUp, unapplied, pendingState,
                   sendHold, staleSeen, toApply, chan, engine, staged, cloud, left>>
    /\ Pump([e \in Entity |-> IF reconcileNeeded THEN Reconcile(store[e], now) ELSE store[e]],
            inflight, FALSE, caughtUp, cmds)

Stuck(overdue) == IF overdue THEN fetching /\ Fault("stuck") ELSE UNCHANGED left

(* "Sync Now", and the worker's own pass every RECONCILE_INTERVAL.  overdue:  *)
(* the fetch under way has taken longer than FETCH_STUCK_MS.                *)
RequestSync(overdue) ==
    /\ up /\ (AsksFetch(overdue) => Len(cmds) < MaxQueue)
    /\ Stuck(overdue)
    /\ fetching' = TRUE
    /\ UNCHANGED <<ckpt, up, fetchCompleted, caughtUp, unapplied, pendingState,
                   sendHold, staleSeen, toApply, chan, engine, staged, cloud>>
    /\ Pump(store, inflight, TRUE, caughtUp, WithFetch(cmds, overdue))

(* The quiet look for other Macs' changes every POLL_INTERVAL.              *)
Poll(overdue) ==
    /\ up /\ Len(cmds) < MaxQueue /\ AsksFetch(overdue)
    /\ Stuck(overdue)
    /\ fetching' = TRUE
    /\ cmds' = WithFetch(cmds, overdue)
    /\ UNCHANGED <<store, ckpt, up, inflight, fetchCompleted, caughtUp, unapplied, pendingState,
                   reconcileNeeded, sendHold, staleSeen, toApply, chan, engine, staged,
                   cloud>>

(* A retry time comes.                                                      *)
RetryDue(e) ==
    /\ up /\ store[e].wait # "now"
    /\ store' = [store EXCEPT ![e].wait = "now"]
    /\ UNCHANGED <<ckpt, coreVars, pathVars, engine, staged, cloud, left>>

HoldOver ==
    /\ up /\ sendHold
    /\ sendHold' = FALSE
    /\ UNCHANGED <<store, ckpt, up, inflight, fetching, fetchCompleted, caughtUp, unapplied,
                   pendingState, reconcileNeeded, staleSeen, pathVars, engine, staged,
                   cloud, left>>

-----------------------------------------------------------------------------
(* The worker thread: events of a fetch.                                    *)

Handles(kind) == /\ up /\ chan # <<>> /\ Head(chan).ev = kind
                 /\ Prompt /\ kind = "sent" => toApply = <<>>
                 /\ chan' = Tail(chan)

(* Our own upload coming back, or a duplicate delivery: already what we hold. *)
Admitted(recs) == {x \in recs : ~Matches(store[x.e], x.rec.val)}

OnFetched ==
    LET news == Batches(Admitted(Head(chan).recs), Head(chan).dels)
    IN  /\ Handles("fetched")
        /\ fetching' = FALSE
        /\ staleSeen' = IF staleSeen = None THEN None
                        ELSE staleSeen \cup EntriesOf(Head(chan).recs)
        /\ toApply' = toApply \o news
        /\ unapplied' = unapplied + Len(news)
        /\ UNCHANGED <<ckpt, up, fetchCompleted, caughtUp, pendingState, sendHold,
                       engine, staged, cloud, left>>
        /\ Pump(store, inflight, reconcileNeeded, caughtUp, cmds)

OnState ==
    /\ Handles("state")
    /\ fetching' = FALSE
    /\ FlushState(unapplied, Head(chan).at, fetchCompleted)
    /\ UNCHANGED <<up, fetchCompleted, unapplied, sendHold, staleSeen, toApply,
                   engine, staged, cloud, left>>
    /\ Pump(store, inflight, reconcileNeeded,
         CaughtUp(unapplied, Head(chan).at, fetchCompleted), cmds)

(* What the cloud is known to hold and a full listing did not name; nothing *)
(* when so much is missing that something is probably wrong.                *)
SyncedEntities == {e \in Entity : ~store[e].gone /\ store[e].synced # None}

(* The mistake: either sign alone is taken for a problem.                   *)
DeletedElsewhereCautious(seen) ==
    LET missing == SyncedEntities \ seen
    IN  IF Cardinality(missing) > StaleLimit
           \/ Cardinality(missing) * 4 > Cardinality(SyncedEntities)
        THEN {} ELSE missing

DeletedElsewhere(seen) ==
    LET missing == SyncedEntities \ seen
    IN  IF Cardinality(missing) > StaleLimit
           /\ Cardinality(missing) * 4 > Cardinality(SyncedEntities)
        THEN {} ELSE missing

OnFetchComplete ==
    LET news == IF staleSeen = None THEN <<>> ELSE Batches({}, DeletedElsewhere(staleSeen))
    IN  /\ Handles("complete")
        /\ fetching' = FALSE
        /\ fetchCompleted' = TRUE
        /\ FlushState(unapplied, pendingState, TRUE)
        /\ staleSeen' = None
        /\ toApply' = toApply \o news
        /\ unapplied' = unapplied + Len(news)
        /\ UNCHANGED <<up, sendHold, engine, staged, cloud, left>>
        /\ Pump(store, inflight, reconcileNeeded,
             CaughtUp(unapplied, pendingState, TRUE), cmds)

OnError ==
    /\ Handles("error")
    /\ fetching' = FALSE
    /\ UNCHANGED <<ckpt, up, fetchCompleted, caughtUp, unapplied, pendingState, sendHold,
                   staleSeen, toApply, engine, staged, cloud, left>>
    /\ Pump(store, inflight, reconcileNeeded, caughtUp, cmds)

(* The checkpoint expired: `restart_from_scratch`.  `on_error` marks no     *)
(* fetch as running although one was just asked for.                        *)
OnExpired ==
    /\ Handles("expired")
    /\ ckpt' = NoPosition
    /\ pendingState' = None
    /\ caughtUp' = FALSE /\ fetchCompleted' = FALSE /\ fetching' = FALSE
    /\ staleSeen' = {}
    /\ UNCHANGED <<up, unapplied, sendHold, toApply, engine, staged, cloud, left>>
    /\ Pump(store, inflight, reconcileNeeded, FALSE,
            cmds \o << [cmd |-> "start", at |-> NoPosition], [cmd |-> "fetch"] >>)

(* `remote_applied`: the host saved a batch.                                *)
OnApplied ==
    /\ Handles("applied")
    /\ unapplied' = unapplied - 1
    /\ FlushState(unapplied - 1, pendingState, fetchCompleted)
    /\ UNCHANGED <<up, fetching, fetchCompleted, sendHold, staleSeen, toApply,
                   engine, staged, cloud, left>>
    /\ Pump([e \in Entity |-> Release(store[e])], inflight, reconcileNeeded,
         CaughtUp(unapplied - 1, pendingState, fetchCompleted), cmds)

-----------------------------------------------------------------------------
(* The worker thread: what became of uploads.                               *)

Sent(r) == {i \in inflight : i.e = r.e /\ i.q = r.q}

OnSaved(s, r) ==
    IF Sent(r) = {} THEN [s EXCEPT !.tag = r.rec.ver]
    ELSE LET i == CHOOSE i \in Sent(r) : TRUE
             acked == AckSaved(s, r.q, i.val, r.rec.ver)
         IN  IF r.e \in Combining THEN [acked EXCEPT !.base = i.val] ELSE acked

(* The refused upload had in fact been accepted before.                     *)
Landed(r) == \E i \in Sent(r) : i.val # None /\ i.val = r.rec.val

(* The mistake: only the first attempt is merged.                           *)
MergeFirstOnce(e, s) == s.op = "upsert" /\ e \in Combining /\ s.tries = 0

MergeFirst(e, s) == s.op = "upsert" /\ e \in Combining /\ s.tries < MaxMergeAttempts

LocalWins(s, r) ==
    /\ s.op = "upsert" /\ ~MergeFirst(r.e, s)
    /\ s.known
    /\ Beats(Stamp(Larger(s.rev, 1), s.at, Me), CloudStamp(r.rec))

(* The edit goes out again over the cloud's version: it was merged already, *)
(* or it is the newer one and cannot be merged.                             *)
(* The mistake: not to look whether that version was merged.                *)
SavesOverUnmerged(s, r) == MergeFirst(r.e, s) \/ LocalWins(s, r)

SavesOver(s, r) == (MergeFirst(r.e, s) /\ s.synced = r.rec.val) \/ LocalWins(s, r)

NeedsApply(s, r) ==
    r.kind = "conflict" /\ IsQueued(s, r.q) /\ ~Landed(r) /\ ~SavesOver(s, r)

OnConflict(s, r) ==
    IF Landed(r) THEN AckSaved(s, r.q, r.rec.val, r.rec.ver)
    ELSE IF SavesOver(s, r) THEN [s EXCEPT !.tag = r.rec.ver, !.wait = "now"]
    ELSE IF MergeFirst(r.e, s) THEN Fail(s, "merging")
    ELSE Unqueue(s, r.q)

(* A failure of an entry that was superseded meanwhile says nothing.        *)
OnFailure(s, r) ==
    CASE ~IsQueued(s, r.q) -> s
      [] IsQueued(s, r.q) /\ r.kind = "retry"    -> Fail(s, "later")
      [] IsQueued(s, r.q) /\ r.kind = "unknown"  -> [s EXCEPT !.tag = 0, !.wait = "now"]
      [] IsQueued(s, r.q) /\ r.kind = "conflict" -> OnConflict(s, r)

Answered(s, r) ==
    CASE r.kind = "saved"   -> OnSaved(s, r)
      [] r.kind = "deleted" -> AckDeleted(s, r.q)
      [] r.kind \in {"retry", "unknown", "conflict"} -> OnFailure(s, r)

(* One batch for each conflict that the apply layer has to settle.          *)
InSomeOrder(S) ==
    CHOOSE q \in [1 .. Cardinality(S) -> S] : \A x \in S : \E i \in DOMAIN q : q[i] = x

OnSent ==
    LET results == Head(chan).results
        Result1(e) == CHOOSE r \in results : r.e = e
        clashes == {r \in results : NeedsApply(store[r.e], r)}
        news == InSomeOrder({[recs |-> {[e |-> r.e, rec |-> r.rec]}, dels |-> {}] : r \in clashes})
    IN  /\ Handles("sent")
        /\ toApply' = toApply \o news
        /\ unapplied' = unapplied + Len(news)
        /\ UNCHANGED <<ckpt, up, fetching, fetchCompleted, caughtUp, pendingState, sendHold,
                       staleSeen, engine, staged, cloud, left>>
        /\ Pump([e \in Entity |-> IF e \in EntriesOf(results)
                                  THEN Answered(store[e], Result1(e)) ELSE store[e]],
                {i \in inflight : \A r \in results : i \notin Sent(r)},
                reconcileNeeded, caughtUp, cmds)

(* The mistake: the uploads still count as under way.                       *)
OnSendFailedKept ==
    /\ Handles("sendfailed")
    /\ fetching' = FALSE
    /\ sendHold' = TRUE
    /\ UNCHANGED <<store, ckpt, up, inflight, fetchCompleted, caughtUp, unapplied, pendingState,
                   reconcileNeeded, staleSeen, toApply, cmds, engine, staged, cloud, left>>

(* The engine gave up on a whole send.                                      *)
OnSendFailed ==
    /\ Handles("sendfailed")
    /\ inflight' = {}
    /\ fetching' = FALSE
    /\ sendHold' = TRUE
    /\ UNCHANGED <<store, ckpt, up, fetchCompleted, caughtUp, unapplied, pendingState,
                   reconcileNeeded, staleSeen, toApply, cmds, engine, staged, cloud, left>>

-----------------------------------------------------------------------------
(* The app thread.                                                          *)

(* Applies the oldest batch in one transaction and acknowledges it.  One    *)
(* that cannot be saved stays first and is tried again.                     *)
Applied(b, e, now) ==
    LET recs == {x \in b.recs : x.e = e}
    IN  IF recs # {} THEN ApplyRecord(e, store[e], (CHOOSE x \in recs : TRUE).rec, now)
        ELSE IF e \in b.dels THEN ApplyDeletion(store[e], now) ELSE store[e]

(* The mistake: what could not be saved is acknowledged all the same.       *)
ApplyUnsaved(now) ==
    /\ up /\ toApply # <<>>
    /\ chan' = Append(chan, [ev |-> "applied"])
    /\ UNCHANGED <<store, ckpt, coreVars, toApply, cmds, engine, staged, cloud, left>>

Apply(now) ==
    /\ up /\ toApply # <<>>
    /\ store' = [e \in Entity |-> Applied(Head(toApply), e, now)]
    /\ toApply' = Tail(toApply)
    /\ chan' = Append(chan, [ev |-> "applied"])
    /\ UNCHANGED <<ckpt, coreVars, cmds, engine, staged, cloud, left>>

MayBecome(who, old, new) ==
    /\ new # old
    /\ new = None => who \in Deleters
    /\ ~Reuse /\ new # None /\ old # None => old \subseteq new

Edit(e, v, now) ==
    /\ up /\ left.edits > 0
    /\ MayBecome(Me, store[e].row, v)
    /\ left' = [left EXCEPT !.edits = @ - 1]
    /\ store' = [store EXCEPT ![e] = Write(@, v, now)]
    /\ UNCHANGED <<ckpt, coreVars, pathVars, engine, staged, cloud>>

(* An older build of the program writes a row without queuing it.           *)
OldBuildWrites(e, v) ==
    /\ ~up /\ left.old > 0
    /\ MayBecome(Me, store[e].row, v)
    /\ left' = [left EXCEPT !.old = @ - 1]
    /\ store' = [store EXCEPT ![e].row = v]
    /\ UNCHANGED <<ckpt, coreVars, pathVars, engine, staged, cloud>>

-----------------------------------------------------------------------------
(* The bridge and the zone (external).  The bridge runs one command at a    *)
(* time and emits the events of a command before it takes the next.         *)

Runs(kind) == /\ up /\ cmds # <<>> /\ Head(cmds).cmd = kind
              /\ Len(chan) < MaxQueue
              /\ cmds' = Tail(cmds)

Emits(events) == chan' = chan \o events

EngineStart ==
    /\ Runs("start")
    /\ engine' = Head(cmds).at
    /\ staged' = {}
    /\ UNCHANGED <<store, ckpt, coreVars, toApply, chan, cloud, left>>

(* The zone's changes since the engine's position.  A position that is nil  *)
(* lists what exists and no deletions.                                      *)
Changed ==
    {e \in Entity : /\ cloud[e].ver > engine.pos[e]
                    /\ engine.nil => cloud[e].val # None}

Advance(page) ==
    LET passed == IF engine.nil THEN {e \in Entity : cloud[e].val = None} ELSE {}
    IN  [nil |-> FALSE, pos |-> [e \in Entity |-> IF e \in page \cup passed THEN cloud[e].ver
                                                   ELSE engine.pos[e]]]

FetchedPage(page) ==
    [ev |-> "fetched",
     recs |-> {[e |-> e, rec |-> cloud[e]] : e \in {p \in page : cloud[p].val # None}},
     dels |-> {e \in page : cloud[e].val = None}]

StateAt(page) == [ev |-> "state", at |-> Advance(page)]

(* A fetch that finds nothing new reports no position.                      *)
EngineFetch ==
    /\ Runs("fetch") /\ engine # None
    /\ engine' = Advance(Entity)
    /\ Emits((IF Changed = {} THEN <<>> ELSE << FetchedPage(Changed), StateAt(Entity) >>)
             \o << [ev |-> "complete"] >>)
    /\ UNCHANGED <<store, ckpt, coreVars, toApply, staged, cloud, left>>

(* The connection is lost, perhaps after some of the changes arrived.       *)
EngineFetchFails(page) ==
    /\ Runs("fetch") /\ engine # None
    /\ page \subseteq Changed
    /\ Fault("fetch")
    /\ engine' = IF page = {} THEN engine ELSE Advance(page)
    /\ Emits((IF page = {} THEN <<>> ELSE << FetchedPage(page), StateAt(page) >>)
             \o << [ev |-> "error"] >>)
    /\ UNCHANGED <<store, ckpt, coreVars, toApply, staged, cloud>>

(* An expired position stays expired: the engine has to start again.        *)
EngineExpires ==
    /\ Runs("fetch")
    /\ engine # None => ~engine.nil
    /\ IF engine = None THEN UNCHANGED left ELSE Fault("expired")
    /\ engine' = None
    /\ Emits(<< [ev |-> "expired"] >>)
    /\ UNCHANGED <<store, ckpt, coreVars, toApply, staged, cloud>>

(* Staging again replaces what was staged before for the same record.       *)
Restaged == {c \in staged : c.e \notin EntriesOf(Head(cmds).changes)} \cup Head(cmds).changes

(* How the zone answers one change: deletes are unconditional, a save needs *)
(* the change tag of the version it replaces.                               *)
Answer(c) ==
    LET r == cloud[c.e]
        kind == IF c.val = None THEN "deleted"
                ELSE IF r.val # None /\ c.tag # r.ver THEN "conflict"
                ELSE IF r.val = None /\ c.tag # 0 THEN "unknown"
                ELSE "saved"
        next == IF kind = "saved"
                THEN [val |-> c.val, ver |-> r.ver + 1, rev |-> c.rev, at |-> c.at, dev |-> Me]
                ELSE IF kind = "deleted" /\ r.val # None
                THEN [val |-> None, ver |-> r.ver + 1, rev |-> r.rev, at |-> 0, dev |-> Me]
                ELSE r
    IN  [e |-> c.e, q |-> c.q, kind |-> kind, rec |-> next]

NoAnswer(c) == [e |-> c.e, q |-> c.q, kind |-> "retry", rec |-> cloud[c.e]]

(* The zone once it has answered so.                                         *)
CloudAfter(results) ==
    [e \in Entity |-> IF e \in EntriesOf(results)
                      THEN (CHOOSE r \in results : r.e = e).rec ELSE cloud[e]]

(* flaky: the records that fail for a passing reason; told: those that a    *)
(* fetch of this engine lists although it sent them itself.                 *)
EngineSend(flaky, told) ==
    LET results == {IF c.e \in flaky THEN NoAnswer(c) ELSE Answer(c) : c \in Restaged}
        mine == {r.e : r \in {r \in results : r.kind \in {"saved", "deleted"}}} \ told
    IN  /\ Runs("send")
        /\ flaky \subseteq EntriesOf(Restaged) /\ told \subseteq EntriesOf(Restaged)
        /\ IF flaky = {} THEN UNCHANGED left ELSE Fault("record")
        /\ cloud' = CloudAfter(results)
        /\ staged' = {}
        /\ engine' = IF engine = None THEN None ELSE IF engine.nil \/ mine = {} THEN engine
                     ELSE [engine EXCEPT !.pos = [e \in Entity |->
                               IF e \in mine THEN CloudAfter(results)[e].ver ELSE @[e]]]
        /\ Emits(<< [ev |-> "sent", results |-> results] >>)
        /\ UNCHANGED <<store, ckpt, coreVars, toApply>>

(* The send fails as a whole; landed: the changes that the zone took all    *)
(* the same, only the answer was lost.                                      *)
EngineSendThrows(landed) ==
    /\ Runs("send")
    /\ landed \subseteq EntriesOf(Restaged)
    /\ Fault("send")
    /\ cloud' = CloudAfter({Answer(c) : c \in {c \in Restaged : c.e \in landed}})
    /\ staged' = Restaged
    /\ Emits(<< [ev |-> "sendfailed"] >>)
    /\ UNCHANGED <<store, ckpt, coreVars, toApply, engine>>

(* Another Mac saves: over the version it saw or merged, with a higher      *)
(* revision, or over one that its own edit beats.                           *)
PeerSaves(e, v, rev, at) ==
    LET next == [val |-> v, ver |-> cloud[e].ver + 1, rev |-> rev, at |-> at, dev |-> Peer]
    IN  /\ left.remote > 0
        /\ v # None /\ MayBecome(Peer, cloud[e].val, v)
        /\ IF cloud[e].val = None \/ e \in Combining THEN rev > cloud[e].rev
           ELSE Beats(CloudStamp(next), CloudStamp(cloud[e]))
        /\ left' = [left EXCEPT !.remote = @ - 1]
        /\ cloud' = [cloud EXCEPT ![e] = next]
        /\ UNCHANGED <<store, ckpt, coreVars, pathVars, engine, staged>>

PeerDeletes(e) ==
    /\ Peer \in Deleters /\ left.remote > 0
    /\ cloud[e].val # None
    /\ left' = [left EXCEPT !.remote = @ - 1]
    /\ cloud' = [cloud EXCEPT ![e] = [val |-> None, ver |-> @.ver + 1, rev |-> @.rev,
                                      at |-> 0, dev |-> Peer]]
    /\ UNCHANGED <<store, ckpt, coreVars, pathVars, engine, staged>>

-----------------------------------------------------------------------------
Users ==
    \/ \E e \in Entity, v \in {None} \cup Payload, now \in Times : Edit(e, v, now)
    \/ \E e \in Entity, v \in {None} \cup Payload : OldBuildWrites(e, v)
    \/ \E e \in Entity, v \in Payload, at \in Times :
           \E rev \in cloud[e].rev .. cloud[e].rev + 1 : PeerSaves(e, v, rev, at)
    \/ \E e \in Entity : PeerDeletes(e)

Timers ==
    \/ \E now \in Times : Tick(now)
    \/ \E overdue \in BOOLEAN : RequestSync(overdue) \/ Poll(overdue)
    \/ \E e \in Entity : RetryDue(e)
    \/ HoldOver

Handlers ==
    \/ OnFetched \/ OnState \/ OnFetchComplete \/ OnError \/ OnExpired
    \/ OnApplied \/ OnSent \/ OnSendFailed

Bridge ==
    \/ EngineStart
    \/ EngineFetch
    \/ \E page \in SUBSET Entity : EngineFetchFails(page)
    \/ EngineExpires
    \/ \E flaky, told \in SUBSET Entity : EngineSend(flaky, told)
    \/ \E landed \in SUBSET Entity : EngineSendThrows(landed)

Next ==
    \/ Users
    \/ Timers
    \/ Handlers
    \/ Bridge
    \/ \E away \in BOOLEAN : Launch(away)
    \/ Crash
    \/ \E now \in Times : Apply(now)

Spec == Init /\ [][Next]_vars

(* The program is started again, its threads run and the bridge answers;    *)
(* users, faults and clocks are free to do nothing.                         *)
FairSpec ==
    /\ Spec
    /\ WF_vars(Launch(FALSE))
    /\ WF_vars(\E now \in Times : Tick(now))
    /\ SF_vars(RequestSync(FALSE))
    /\ \A e \in Entity : WF_vars(RetryDue(e))
    /\ WF_vars(HoldOver)
    /\ WF_vars(Handlers)
    /\ WF_vars(Bridge)
    /\ WF_vars(\E now \in Times : Apply(now))

-----------------------------------------------------------------------------
(* Properties.                                                              *)

(* An entity never has two uploads on their way at once, whatever is edited *)
(* while one is (`busy` in `pump`): two answers about one record could be   *)
(* taken for each other.                                                    *)
OneUpload == \A i, j \in inflight : i.e = j.e => i = j

(* The store itself shows that the entity still has to be uploaded.         *)
Pending(e) ==
    store[e].op # "none" \/ NeedsUpsert(store[e]) \/ NeedsDelete(store[e])

(* Nothing is under way between the bridge, the core and the app.           *)
Quiet == up /\ cmds = <<>> /\ chan = <<>> /\ toApply = <<>> /\ engine # None

(* No fetch will bring the cloud's latest version again: the checkpoint on  *)
(* disk covers it, or the running engine is past it.                        *)
Covered(e) ==
    \/ cloud[e].ver <= ckpt.pos[e]
    \/ Quiet /\ cloud[e].ver <= engine.pos[e]

(* A version that no fetch will bring again is what this Mac holds, unless  *)
(* the store shows an upload still to be made ("A fetched change is applied *)
(* locally before the engine checkpoint that covers it is saved",           *)
(* core.rs): crashes, refused uploads and edits in between lose nothing.    *)
NothingMissed == \A e \in Entity : Covered(e) /\ ~Pending(e) => store[e].row = cloud[e].val

(* Where users only add entries, none of them ever disappears again,        *)
(* neither from this Mac nor from the cloud: two edits of one combining     *)
(* entity are merged, never saved over each other (`on_conflict`, "Merges   *)
(* tried for one edit before the newer side is simply kept").               *)
Keeps(old, new) == old = None \/ (new # None => old \subseteq new)

NoEntryLost ==
    [][\A e \in Combining : /\ Keeps(store[e].row, store'[e].row)
                            /\ Keeps(cloud[e].val, cloud'[e].val)]_vars

(* The version this Mac holds is never replaced by an older one ("an older  *)
(* batch is never applied after a newer one", docs/icloud-sync.md).  It     *)
(* breaks without Prompt, and no run checks it (README, section 7).         *)
NoStaleApply ==
    [][\A e \in Entity : store'[e].tag # 0 => store'[e].tag >= store[e].tag]_vars

(* The checkpoint on disk moves on only when no fetched batch is left to    *)
(* apply (`flush_state`): after a crash iCloud sends again what was not     *)
(* applied.                                                                 *)
CheckpointAfterApply == [][ckpt' # ckpt /\ ~ckpt'.nil => toApply = <<>>]_vars

(* The batches the core counts as not applied are exactly those that wait   *)
(* at the host and those whose acknowledgement is still on its way: one     *)
(* that could not be saved is never acknowledged (`apply_in_order`).        *)
Acks(c) == {k \in DOMAIN c : c[k].ev = "applied"}

Counted == unapplied = Len(toApply) + Cardinality(Acks(chan))

(* A delete is handed to the bridge only after a fetch of this session has  *)
(* run to its end ("A delete is never sent before the session has completed *)
(* a fetch", docs/icloud-sync.md).                                          *)
Deleting(flying) == {i \in flying : i.val = None}

DeletesWaitForFetch ==
    [][Deleting(inflight') \subseteq Deleting(inflight)
       \/ fetchCompleted' \/ \E k \in DOMAIN chan : chan[k].ev = "complete"]_vars

(* A delete waits for upload only while the row is gone here: a row that an *)
(* edit made elsewhere brought back is not deleted after all ("Edit beats   *)
(* delete ... the item comes back everywhere", docs/icloud-sync.md).        *)
DeletedIsGone == \A e \in Entity : store[e].op = "delete" => store[e].row = None

(* A deletion that no fetch will bring again has been applied: once a       *)
(* catch-up completes, "anything it holds that iCloud no longer lists is    *)
(* treated as deleted elsewhere" (docs/icloud-sync.md).                     *)
DeletionsNoticed ==
    \A e \in Entity :
        cloud[e].val = None /\ cloud[e].ver > 0 /\ Quiet /\ Covered(e) /\ ~Pending(e) =>
            store[e].row = None

(* A merge starts from what both Macs agree on ("What this Mac sent is now  *)
(* what both sides agree on", `on_sent`).  It does not hold: no run checks  *)
(* it (README, section 7).                                                  *)
BaseIsSynced ==
    \A e \in Combining :
        ~store[e].gone /\ store[e].synced # None => store[e].base = store[e].synced

(* When edits, faults and crashes end, this Mac and the cloud come to hold  *)
(* the same, with nothing left to upload, and stay so.                      *)
Agrees == \A e \in Entity : store[e].row = cloud[e].val /\ store[e].op = "none"

Converges == <>[]Agrees
=============================================================================
