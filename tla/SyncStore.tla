------------------------------ MODULE SyncStore ------------------------------
(***************************************************************************)
(* What one Mac stores about one synced entity, and the operations of       *)
(* `Store` (src/store/sync.rs) and of the apply layer (src/sync/apply.rs)    *)
(* on it, each as a function from the stored record to the stored record.   *)
(*                                                                          *)
(* A stored record s joins three tables that are always keyed by the same   *)
(* entity: the data table (row), `sync_entity` (known .. gone) and          *)
(* `sync_outbox` (op .. at, at most one row for an entity).                 *)
(*                                                                          *)
(* A payload is the set of entries it holds, and stands for its own hash:   *)
(* equal payloads have equal hashes.                                        *)
(***************************************************************************)
EXTENDS Integers

CONSTANTS
    Item,       \* the entries a payload may hold
    None,       \* no row, no payload, no hash
    Combining,  \* the entities merged three ways (watchlists, object settings)
    Me,         \* this Mac's device id; ids are numbers, which order like strings
    MaxMergeAttempts  \* refused uploads of one edit before the newer side is kept

Payload == SUBSET Item

ASSUME StoreAssumption ==
    /\ \A v \in Payload : v # None
    /\ Me \in Nat
    /\ MaxMergeAttempts \in Nat

(* wait: may the row be sent now, later (next_attempt_ms), or once the     *)
(* apply layer has merged the cloud's version (OUTBOX_MERGING)?            *)
Stored ==
    [ row : {None} \cup Payload,
      known : BOOLEAN, rev : Nat, synced : {None} \cup Payload,
      base : {None} \cup Payload, tag : Nat, gone : BOOLEAN,
      op : {"none", "upsert", "delete"}, seq : Nat, tries : Nat,
      wait : {"now", "later", "merging"}, at : Nat ]

Untracked ==
    [ row |-> None, known |-> FALSE, rev |-> 0, synced |-> None, base |-> None,
      tag |-> 0, gone |-> FALSE, op |-> "none", seq |-> 0, tries |-> 0,
      wait |-> "now", at |-> 0 ]

(* A version the cloud holds: its payload (None once deleted), its change   *)
(* tag, and the stamp of the edit it carries.                               *)
CloudRecord ==
    [ val : {None} \cup Payload, ver : Nat, rev : Nat, at : Nat, dev : Nat ]

Larger(a, b) == IF a > b THEN a ELSE b

-----------------------------------------------------------------------------
(* The outbox.                                                              *)

Queue(s, o, t) ==
    [s EXCEPT !.op = o, !.seq = @ + 1, !.tries = 0, !.wait = "now", !.at = t]

QueueUpsert(s, t) ==
    Queue([s EXCEPT !.known = TRUE, !.rev = @ + 1, !.gone = FALSE], "upsert", t)

QueueDelete(s, t) ==
    Queue([s EXCEPT !.known = TRUE, !.rev = @ + 1, !.gone = TRUE], "delete", t)

(* The mistake: the row is kept, marked as sent.                            *)
CancelMarked(s) == [s EXCEPT !.op = "sent", !.tries = 0, !.wait = "now", !.at = 0]

Cancel(s) == [s EXCEPT !.op = "none", !.tries = 0, !.wait = "now", !.at = 0]

IsQueued(s, q) == s.op # "none" /\ s.seq = q

Unqueue(s, q) == IF IsQueued(s, q) THEN Cancel(s) ELSE s

Fail(s, w) == [s EXCEPT !.tries = @ + 1, !.wait = w]

(* The cloud is known to hold exactly v for this entity.                    *)
Matches(s, v) == ~s.gone /\ s.synced = v

(* A tracked write of the data table: v is the entity's new row.            *)
Write(s, v, t) ==
    LET w == [s EXCEPT !.row = v]
    IN  CASE v = s.row               -> s
          [] v # s.row /\ v # None   -> IF Matches(s, v) THEN w ELSE QueueUpsert(w, t)
          [] v # s.row /\ v = None   -> IF s.gone THEN w ELSE QueueDelete(w, t)

(* What differs from the cloud without being queued.                        *)
NeedsUpsert(s) == s.row # None /\ ~Matches(s, s.row) /\ ~(s.op = "upsert" /\ ~s.gone)
NeedsDelete(s) == s.row = None /\ s.known /\ ~s.gone

(* The mistake: rows that differ are left to the next edit.                 *)
ReconcileDeletes(s, t) == IF NeedsDelete(s) THEN QueueDelete(s, t) ELSE s

Reconcile(s, t) ==
    IF NeedsUpsert(s) THEN QueueUpsert(s, t)
    ELSE IF NeedsDelete(s) THEN QueueDelete(s, t) ELSE s

-----------------------------------------------------------------------------
(* What the cloud answered.                                                 *)

AckSaved(s, q, v, ver) == Unqueue([s EXCEPT !.synced = v, !.tag = ver], q)

AckDeleted(s, q) ==
    Unqueue(IF s.gone THEN [s EXCEPT !.synced = None, !.tag = 0] ELSE s, q)

Release(s) == IF s.wait = "merging" THEN [s EXCEPT !.wait = "now"] ELSE s

-----------------------------------------------------------------------------
(* The apply layer.                                                         *)

Stamp(rev, at, dev) == <<rev, at, dev>>

Beats(a, b) ==
    \/ a[1] > b[1]
    \/ a[1] = b[1] /\ a[2] > b[2]
    \/ a[1] = b[1] /\ a[2] = b[2] /\ a[3] > b[3]

CloudStamp(r) == Stamp(r.rev, r.at, r.dev)

(* The three-way merge of entries: one that only one side has survives      *)
(* unless the other side removed it, that is, unless the base had it.       *)
Merge3(base, mine, theirs) ==
    LET old == IF base = None THEN {} ELSE base
    IN  (mine \cap theirs) \cup (((mine \cup theirs) \ (mine \cap theirs)) \ old)

(* The last upload queued for the entity dates its content; with none       *)
(* queued, the content is as old as the clock.                              *)
LocalStamp(s, now) ==
    Stamp(Larger(s.rev, 1), IF s.op = "none" THEN now ELSE s.at, Me)

Unedited(s) == Matches(s, s.row)

(* The mistake: an equal revision counts as newer.                          *)
OutdatedOrEqual(s, r) ==
    s.row # None /\ s.row # r.val /\ Unedited(s) /\ s.rev >= r.rev

(* This Mac holds something newer than the record: it is ignored.           *)
Outdated(s, r) ==
    s.row # None /\ s.row # r.val /\ Unedited(s) /\ s.rev > r.rev

MergedValue(e, s, r, now) ==
    IF s.row = None \/ s.row = r.val \/ Unedited(s) THEN r.val
    ELSE IF e \in Combining THEN Merge3(s.base, s.row, r.val)
    ELSE IF Beats(LocalStamp(s, now), CloudStamp(r)) THEN s.row
    ELSE r.val

Link(e, s, r) ==
    [s EXCEPT !.known = TRUE, !.rev = Larger(@, r.rev), !.synced = r.val,
              !.base = IF e \in Combining THEN r.val ELSE None,
              !.tag = r.ver, !.gone = FALSE]

ApplyRecord(e, s, r, now) ==
    IF Outdated(s, r) THEN s
    ELSE Write(Link(e, s, r), MergedValue(e, s, r, now), now)

Tombstone(s) ==
    [s EXCEPT !.known = TRUE, !.rev = IF s.known THEN @ ELSE 1, !.synced = None,
              !.base = None, !.tag = 0, !.gone = TRUE]

ForgetSynced(s) ==
    [s EXCEPT !.synced = None, !.base = None, !.tag = 0, !.gone = FALSE]

EditedSince(s) == s.synced # s.row \/ s.op = "upsert"

(* An edit made here beats a delete made elsewhere: the row is kept and     *)
(* uploaded again as new.                                                   *)
ApplyDeletion(s, now) ==
    IF s.row = None THEN Tombstone(s)
    ELSE IF EditedSince(s) THEN QueueUpsert(ForgetSynced(s), now)
    ELSE [Cancel(Tombstone(s)) EXCEPT !.row = None]
=============================================================================
