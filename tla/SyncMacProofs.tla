---------------------------- MODULE SyncMacProofs ----------------------------
(***************************************************************************)
(* Proofs about SyncStore and SyncMac, for any entities, clocks and bounds: *)
(* what the merge and the stamps guarantee; the data path's variables keep  *)
(* their types, an entity never has two uploads under way, the core counts  *)
(* exactly the batches that wait, the checkpoint on disk moves on only when *)
(* none does, deletes wait for a fetch, and deletions made elsewhere are    *)
(* noticed.                                                                 *)
(***************************************************************************)
EXTENDS SyncMac, SequenceTheorems, FunctionTheorems, FiniteSetTheorems, TLAPS

-----------------------------------------------------------------------------
(* The store's operators: which of them return what is stored about an      *)
(* entity, and what the merge and the stamps guarantee.                     *)

(* Queuing, cancelling, failing or releasing an upload yields a stored      *)
(* record again.                                                            *)
LEMMA OutboxStored ==
    ASSUME NEW s \in Stored, NEW t \in Nat, NEW q \in Nat
    PROVE  /\ QueueUpsert(s, t) \in Stored
           /\ QueueDelete(s, t) \in Stored
           /\ Cancel(s) \in Stored
           /\ Unqueue(s, q) \in Stored
           /\ Fail(s, "later") \in Stored
           /\ Fail(s, "merging") \in Stored
           /\ Release(s) \in Stored
<1>1. Cancel(s) \in Stored /\ Release(s) \in Stored
  BY DEF Cancel, Release, Stored
<1>2. ASSUME NEW w \in Stored, NEW o \in {"upsert", "delete"}
      PROVE  Queue(w, o, t) \in Stored
  <2>1. w.seq + 1 \in Nat
    BY DEF Stored
  <2> QED
    BY <2>1 DEF Queue, Stored
<1>3. s.rev + 1 \in Nat /\ s.tries + 1 \in Nat
  BY DEF Stored
<1>4. ASSUME NEW b \in BOOLEAN
      PROVE  [s EXCEPT !.known = TRUE, !.rev = @ + 1, !.gone = b] \in Stored
  BY <1>3 DEF Stored
<1>5. QueueUpsert(s, t) \in Stored /\ QueueDelete(s, t) \in Stored
  BY <1>2, <1>4 DEF QueueUpsert, QueueDelete
<1>6. Fail(s, "later") \in Stored /\ Fail(s, "merging") \in Stored
  BY <1>3 DEF Fail, Stored
<1> QED
  BY <1>1, <1>5, <1>6 DEF Unqueue

(* So does a tracked write of a row or of a missing row.                    *)
LEMMA WriteStored ==
    ASSUME NEW s \in Stored, NEW v \in {None} \cup Payload, NEW t \in Nat
    PROVE  Write(s, v, t) \in Stored
<1> DEFINE w == [s EXCEPT !.row = v]
<1>1. w \in Stored
  BY DEF Stored
<1>2. QueueUpsert(w, t) \in Stored /\ QueueDelete(w, t) \in Stored
  BY <1>1, OutboxStored
<1>3. CASE v = s.row
  BY <1>3 DEF Write
<1>4. CASE v # s.row /\ v # None
  <2>1. Write(s, v, t) = IF Matches(s, v) THEN w ELSE QueueUpsert(w, t)
    BY <1>4 DEF Write
  <2> QED
    BY <2>1, <1>1, <1>2
<1>5. CASE v # s.row /\ v = None
  <2>1. Write(s, v, t) = IF s.gone THEN w ELSE QueueDelete(w, t)
    BY <1>5 DEF Write
  <2> QED
    BY <2>1, <1>1, <1>2
<1> QED
  BY <1>3, <1>4, <1>5

(* And the pass that queues what differs from the cloud.                    *)
LEMMA ReconcileStored ==
    ASSUME NEW s \in Stored, NEW t \in Nat
    PROVE  Reconcile(s, t) \in Stored
  BY OutboxStored DEF Reconcile

(* And what an accepted upload leaves.                                      *)
LEMMA AckStored ==
    ASSUME NEW s \in Stored, NEW q \in Nat, NEW v \in {None} \cup Payload, NEW ver \in Nat
    PROVE  AckSaved(s, q, v, ver) \in Stored /\ AckDeleted(s, q) \in Stored
<1>1. [s EXCEPT !.synced = v, !.tag = ver] \in Stored
  BY DEF Stored
<1>2. (IF s.gone THEN [s EXCEPT !.synced = None, !.tag = 0] ELSE s) \in Stored
  BY DEF Stored
<1> QED
  BY <1>1, <1>2, OutboxStored DEF AckSaved, AckDeleted

-----------------------------------------------------------------------------
(* The merge.                                                               *)

(* Both Macs compute the same entries, whichever side is theirs: the order  *)
(* of the sides does not matter.                                            *)
LEMMA MergeSymmetric ==
    ASSUME NEW base, NEW mine, NEW theirs
    PROVE  Merge3(base, mine, theirs) = Merge3(base, theirs, mine)
  BY DEF Merge3

(* An entry that both sides hold stays, one that only one side added stays, *)
(* and one that a side removed since the base goes.                         *)
LEMMA MergeKeepsAdded ==
    ASSUME NEW base \in {None} \cup Payload, NEW mine \in Payload, NEW theirs \in Payload
    PROVE  LET old == IF base = None THEN {} ELSE base
               merged == Merge3(base, mine, theirs)
           IN  /\ merged \in Payload
               /\ mine \cap theirs \subseteq merged
               /\ (mine \cup theirs) \ old \subseteq merged
               /\ merged \subseteq mine \cup theirs
               /\ \A i \in old : i \notin mine \/ i \notin theirs => i \notin merged
<1> DEFINE old == IF base = None THEN {} ELSE base
<1>1. old \in SUBSET Item
  BY DEF Payload
<1>2. mine \subseteq Item /\ theirs \subseteq Item
  BY DEF Payload
<1> QED
  BY <1>1, <1>2 DEF Merge3, Payload

(* Two different edits are never equally new: exactly one of them beats the *)
(* other, on both Macs.                                                     *)
LEMMA BeatsTotal ==
    ASSUME NEW a \in Nat \X Nat \X Nat, NEW b \in Nat \X Nat \X Nat
    PROVE  /\ ~(Beats(a, b) /\ Beats(b, a))
           /\ a # b => Beats(a, b) \/ Beats(b, a)
  BY DEF Beats

(* What a record leaves in the row is again a payload or nothing.           *)
LEMMA MergedTyped ==
    ASSUME NEW e, NEW s \in Stored, NEW r \in CloudRecord, NEW now \in Nat, r.val # None
    PROVE  MergedValue(e, s, r, now) \in {None} \cup Payload
<1>1. r.val \in Payload /\ s.row \in {None} \cup Payload /\ s.base \in {None} \cup Payload
  BY DEF CloudRecord, Stored
<1>2. s.row # None => Merge3(s.base, s.row, r.val) \in Payload
  BY <1>1, MergeKeepsAdded
<1> QED
  BY <1>1, <1>2 DEF MergedValue

(* Applying a fetched record yields a stored record.                        *)
LEMMA ApplyRecordStored ==
    ASSUME NEW e, NEW s \in Stored, NEW r \in CloudRecord, NEW now \in Nat, r.val # None
    PROVE  ApplyRecord(e, s, r, now) \in Stored
<1>1. Link(e, s, r) \in Stored
  BY DEF Link, Stored, CloudRecord, Larger
<1>2. MergedValue(e, s, r, now) \in {None} \cup Payload
  BY MergedTyped
<1>3. Write(Link(e, s, r), MergedValue(e, s, r, now), now) \in Stored
  BY <1>1, <1>2, WriteStored
<1> QED
  BY <1>3 DEF ApplyRecord

(* So does applying a deletion.                                             *)
LEMMA ApplyDeletionStored ==
    ASSUME NEW s \in Stored, NEW now \in Nat
    PROVE  ApplyDeletion(s, now) \in Stored
<1>1. Tombstone(s) \in Stored /\ ForgetSynced(s) \in Stored
  BY DEF Tombstone, ForgetSynced, Stored
<1>2. Cancel(Tombstone(s)) \in Stored /\ QueueUpsert(ForgetSynced(s), now) \in Stored
  BY <1>1, OutboxStored
<1>3. [Cancel(Tombstone(s)) EXCEPT !.row = None] \in Stored
  BY <1>2 DEF Stored
<1> QED
  BY <1>1, <1>2, <1>3 DEF ApplyDeletion

-----------------------------------------------------------------------------
(* Counting acknowledgements.                                               *)

(* A channel holds finitely many acknowledgements.                          *)
LEMMA AcksFinite ==
    ASSUME NEW c \in Seq(Event)
    PROVE  IsFiniteSet(Acks(c)) /\ Cardinality(Acks(c)) \in Nat
<1>1. IsFiniteSet(1 .. Len(c))
  BY FS_Interval, LenProperties
<1>2. Acks(c) \subseteq 1 .. Len(c)
  BY LenProperties DEF Acks
<1> QED
  BY <1>1, <1>2, FS_Subset, FS_CardinalityType

(* Taking the first event off a channel takes one acknowledgement with it   *)
(* if the event was one, and none otherwise.                                *)
LEMMA AcksTail ==
    ASSUME NEW c \in Seq(Event), c # <<>>
    PROVE  Cardinality(Acks(Tail(c))) =
             IF Head(c).ev = "applied" THEN Cardinality(Acks(c)) - 1
             ELSE Cardinality(Acks(c))
<1> DEFINE later == Acks(c) \ {1}
           f == [k \in Acks(Tail(c)) |-> k + 1]
<1>1. Tail(c) \in Seq(Event) /\ Len(Tail(c)) = Len(c) - 1 /\ Len(c) \in Nat \ {0}
      /\ DOMAIN c = 1 .. Len(c) /\ DOMAIN Tail(c) = 1 .. Len(c) - 1
      /\ \A k \in 1 .. Len(c) - 1 : Tail(c)[k] = c[k + 1]
  BY HeadTailProperties, LenProperties, EmptySeq
<1>2. \A k \in Acks(Tail(c)) : k + 1 \in later
  BY <1>1 DEF Acks
<1>3. \A k \in later : k - 1 \in Acks(Tail(c)) /\ (k - 1) + 1 = k
  BY <1>1 DEF Acks
<1>4. f \in Bijection(Acks(Tail(c)), later)
  <2>1. Acks(Tail(c)) \subseteq Nat
    BY <1>1 DEF Acks
  <2>2. f \in [Acks(Tail(c)) -> later]
    BY <1>2
  <2>3. \A k, l \in Acks(Tail(c)) : f[k] = f[l] => k = l
    BY <2>1
  <2>4. \A k \in later : \E l \in Acks(Tail(c)) : f[l] = k
    BY <1>3
  <2> QED
    BY <2>2, <2>3, <2>4, Fun_IsBij
<1>5. Cardinality(Acks(Tail(c))) = Cardinality(later)
  <2>1. ExistsBijection(Acks(Tail(c)), later)
    BY <1>4, Fun_ExistsBij
  <2> QED
    BY <2>1, <1>1, AcksFinite, FS_Bijection
<1>6. 1 \in Acks(c) <=> Head(c).ev = "applied"
  BY <1>1 DEF Acks
<1> QED
  BY <1>5, <1>6, AcksFinite, FS_RemoveElement

(* An acknowledgement sent counts one more.                                 *)
LEMMA AcksAppend ==
    ASSUME NEW c \in Seq(Event)
    PROVE  LET d == Append(c, [ev |-> "applied"])
           IN  d \in Seq(Event) /\ Cardinality(Acks(d)) = Cardinality(Acks(c)) + 1
<1> DEFINE a == [ev |-> "applied"]
           d == Append(c, a)
<1>1. a \in Event /\ a.ev = "applied"
  BY DEF Event
<1>2. d \in Seq(Event) /\ Len(d) = Len(c) + 1 /\ d[Len(c) + 1] = a
      /\ \A k \in 1 .. Len(c) : d[k] = c[k]
  BY <1>1, AppendProperties
<1>3. DOMAIN c = 1 .. Len(c) /\ DOMAIN d = 1 .. Len(c) + 1 /\ Len(c) \in Nat
  BY <1>2, LenProperties
<1>4. Acks(d) = Acks(c) \cup {Len(c) + 1}
  <2> HIDE DEF d, a
  <2> QED
    BY <1>1, <1>2, <1>3 DEF Acks
<1>5. Len(c) + 1 \notin Acks(c)
  BY <1>3 DEF Acks
<1> QED
  BY <1>2, <1>4, <1>5, AcksFinite, FS_AddElement

(* Other events do not change the count.                                    *)
LEMMA AcksOthers ==
    ASSUME NEW c \in Seq(Event), NEW d \in Seq(Event),
           \A k \in 1 .. Len(d) : d[k].ev # "applied"
    PROVE  c \o d \in Seq(Event) /\ Acks(c \o d) = Acks(c)
<1>1. c \o d \in Seq(Event) /\ Len(c \o d) = Len(c) + Len(d)
      /\ \A k \in 1 .. Len(c) + Len(d) :
            (c \o d)[k] = IF k <= Len(c) THEN c[k] ELSE d[k - Len(c)]
  BY ConcatProperties
<1>2. DOMAIN c = 1 .. Len(c) /\ DOMAIN (c \o d) = 1 .. Len(c) + Len(d)
      /\ Len(c) \in Nat /\ Len(d) \in Nat
  BY <1>1, LenProperties
<1>3. \A k \in 1 .. Len(c) + Len(d) : k > Len(c) => k - Len(c) \in 1 .. Len(d)
  BY <1>2
<1> QED
  BY <1>1, <1>2, <1>3 DEF Acks
-----------------------------------------------------------------------------
(* The core's pieces.                                                       *)

(* A finite set of batches can be put in some order.                        *)
LEMMA OrderTyped ==
    ASSUME NEW T, NEW S \in SUBSET T, IsFiniteSet(S)
    PROVE  InSomeOrder(S) \in Seq(T)
<1> DEFINE n == Cardinality(S)
           All(q) == \A x \in S : \E i \in DOMAIN q : q[i] = x
<1>1. n \in Nat /\ ExistsBijection(1 .. n, S)
  BY FS_CardinalityType
<1>2. PICK q \in Bijection(1 .. n, S) : TRUE
  BY <1>1, Fun_ExistsBij
<1>3. q \in [1 .. n -> S] /\ All(q)
  BY <1>2 DEF Bijection, Injection, Surjection
<1>4. InSomeOrder(S) \in [1 .. n -> S]
  BY <1>3 DEF InSomeOrder
<1> QED
  BY <1>1, <1>4

(* What `build` makes of a queued row can travel.                           *)
LEMMA BuildTyped ==
    ASSUME NEW e \in Entity, NEW s \in Stored
    PROVE  Build(e, s) \in Change
  BY DEF Build, Change, Stored, Larger

(* Pump keeps the types of what it writes.                                  *)
LEMMA PumpTyped ==
    ASSUME NEW st \in [Entity -> Stored], NEW flying \in SUBSET Inflight,
           NEW again \in BOOLEAN, NEW caught \in BOOLEAN, NEW out \in Seq(Command),
           Pump(st, flying, again, caught, out)
    PROVE  /\ store' \in [Entity -> Stored]
           /\ reconcileNeeded' \in BOOLEAN
           /\ inflight' \in SUBSET Inflight
           /\ cmds' \in Seq(Command)
<1> DEFINE due == IF sendHold THEN {} ELSE {e \in Entity : Due(e, st[e], flying, caught)}
           lost == {e \in due : Vanished(st[e])}
           changes == {Build(e, st[e]) : e \in due \ lost}
           send == [cmd |-> "send", changes |-> changes]
<1>1. /\ store' = [e \in Entity |-> IF e \in lost THEN Cancel(st[e]) ELSE st[e]]
      /\ reconcileNeeded' = (again \/ lost # {})
      /\ inflight' = flying \cup {[e |-> c.e, q |-> c.q, val |-> c.val] : c \in changes}
      /\ cmds' = IF changes = {} THEN out ELSE Append(out, send)
  BY DEF Pump
<1>2. due \subseteq Entity
  OBVIOUS
<1>3. changes \in SUBSET Change
  BY <1>2, BuildTyped
<1>4. IsFiniteSet(changes)
  <2> DEFINE f == [e \in due \ lost |-> Build(e, st[e])]
  <2>1. IsFiniteSet(due \ lost)
    BY <1>2, FS_Subset, MacAssumption
  <2>2. f \in Surjection(due \ lost, changes)
    BY DEF Surjection
  <2> QED
    BY <2>1, <2>2, FS_Surjection
<1>5. send \in Command
  <2> HIDE DEF changes
  <2> QED
    BY <1>3, <1>4 DEF Command, FiniteSubset
<1>6. \A e \in Entity : Cancel(st[e]) \in Stored
  BY OutboxStored
<1>7. {[e |-> c.e, q |-> c.q, val |-> c.val] : c \in changes} \in SUBSET Inflight
  BY <1>3 DEF Change, Inflight
<1>8. cmds' \in Seq(Command)
  <2> HIDE DEF send, changes
  <2> QED
    BY <1>1, <1>5, AppendProperties
<1> HIDE DEF due, lost, changes
<1> QED
  BY <1>1, <1>6, <1>7, <1>8

(* Pump hands over no second upload of an entity.                           *)
LEMMA PumpOneUpload ==
    ASSUME NEW st, NEW flying, NEW again, NEW caught, NEW out,
           \A i, j \in flying : i.e = j.e => i = j,
           Pump(st, flying, again, caught, out)
    PROVE  OneUpload'
<1> DEFINE due == IF sendHold THEN {} ELSE {e \in Entity : Due(e, st[e], flying, caught)}
           lost == {e \in due : Vanished(st[e])}
           changes == {Build(e, st[e]) : e \in due \ lost}
           new == {[e |-> c.e, q |-> c.q, val |-> c.val] : c \in changes}
<1>1. inflight' = flying \cup new
  BY DEF Pump
<1>2. \A i \in new : \E e \in due :
         i = [e |-> e, q |-> Build(e, st[e]).q, val |-> Build(e, st[e]).val]
  BY DEF Build
<1>3. \A i, j \in new : i.e = j.e => i = j
  BY <1>2
<1>4. \A i \in new, j \in flying : i.e # j.e
  BY <1>2 DEF Due, EntriesOf
<1> HIDE DEF new
<1> QED
  BY <1>1, <1>3, <1>4 DEF OneUpload
-----------------------------------------------------------------------------
(* The inductive invariant.  Counted is what makes OnApplied leave a        *)
(* natural number, and what flush_state relies on.                          *)
Inv == TypeOK /\ Counted /\ OneUpload

(* One more edit, fault or crash leaves a bound that is a number.           *)
LEMMA BoundsTyped ==
    ASSUME NEW l \in Bounds
    PROVE  /\ l.edits > 0 => [l EXCEPT !.edits = @ - 1] \in Bounds
           /\ l.remote > 0 => [l EXCEPT !.remote = @ - 1] \in Bounds
           /\ l.crashes > 0 => [l EXCEPT !.crashes = @ - 1] \in Bounds
           /\ l.faults > 0 => [l EXCEPT !.faults = @ - 1] \in Bounds
           /\ l.old > 0 => [l EXCEPT !.old = @ - 1] \in Bounds
<1>1. /\ l.edits > 0 => l.edits - 1 \in Nat
      /\ l.remote > 0 => l.remote - 1 \in Nat
      /\ l.crashes > 0 => l.crashes - 1 \in Nat
      /\ l.faults > 0 => l.faults - 1 \in Nat
      /\ l.old > 0 => l.old - 1 \in Nat
  BY DEF Bounds
<1>2. l.edits > 0 => [l EXCEPT !.edits = @ - 1] \in Bounds
  BY <1>1 DEF Bounds
<1>3. l.remote > 0 => [l EXCEPT !.remote = @ - 1] \in Bounds
  BY <1>1 DEF Bounds
<1>4. l.crashes > 0 => [l EXCEPT !.crashes = @ - 1] \in Bounds
  BY <1>1 DEF Bounds
<1>5. l.faults > 0 => [l EXCEPT !.faults = @ - 1] \in Bounds
  BY <1>1 DEF Bounds
<1>6. l.old > 0 => [l EXCEPT !.old = @ - 1] \in Bounds
  BY <1>1 DEF Bounds
<1> QED
  BY <1>2, <1>3, <1>4, <1>5, <1>6

(* So does a fault, whatever its kind.                                      *)
LEMMA FaultTyped ==
    ASSUME left \in Bounds, NEW kind, Fault(kind)
    PROVE  left' \in Bounds
<1>1. left.faults > 0 /\ left' = [left EXCEPT !.faults = @ - 1]
  BY DEF Fault
<1> QED
  BY <1>1, BoundsTyped

(* The program starts so.                                                   *)
LEMMA InitInv == Init => Inv
<1> SUFFICES ASSUME Init PROVE Inv
  OBVIOUS
<1>1. NoPosition \in Position
  BY DEF NoPosition, Position
<1>2. FirstPosition \in Position
  BY <1>1 DEF FirstPosition, Position
<1>3. store \in [Entity -> Stored]
  <2>1. Untracked \in Stored
    BY DEF Untracked, Stored
  <2> QED
    BY <2>1 DEF Init
<1>4. cloud \in [Entity -> CloudRecord]
  <2>1. [val |-> None, ver |-> 0, rev |-> 0, at |-> 0, dev |-> Peer] \in CloudRecord
    BY MacAssumption DEF CloudRecord
  <2> QED
    BY <2>1 DEF Init
<1>5. left \in Bounds
  BY MacAssumption DEF Init, Bounds
<1>6. staged \in FiniteSubset(Change)
  BY FS_EmptySet DEF Init, FiniteSubset
<1>7. toApply \in Seq(Batch) /\ cmds \in Seq(Command) /\ chan \in Seq(Event)
      /\ Len(toApply) = 0
  BY DEF Init
<1>8. TypeOK
  BY <1>1, <1>2, <1>3, <1>4, <1>5, <1>6, <1>7 DEF Init, TypeOK
<1>9. Acks(chan) = {}
  BY DEF Init, Acks
<1>10. Counted
  <2>1. unapplied = 0
    BY DEF Init
  <2>2. Cardinality(Acks(chan)) = 0
    BY <1>9, FS_EmptySet
  <2> QED
    BY <1>7, <2>1, <2>2 DEF Counted
<1> QED
  BY <1>8, <1>10 DEF Inv, Init, OneUpload

(* What the users of this Mac and of the others do.                         *)
LEMMA UsersInv == Inv /\ Users => Inv'
<1> SUFFICES ASSUME Inv, Users PROVE Inv'
  OBVIOUS
<1> USE DEF Inv
<1>1. ASSUME NEW e \in Entity, NEW v \in {None} \cup Payload, NEW now \in Times,
             Edit(e, v, now)
      PROVE  Inv'
  <2>1. /\ left.edits > 0 /\ left' = [left EXCEPT !.edits = @ - 1]
        /\ store' = [store EXCEPT ![e] = Write(store[e], v, now)]
        /\ UNCHANGED <<ckpt, coreVars, pathVars, engine, staged, cloud>>
    BY <1>1 DEF Edit
  <2>2. store[e] \in Stored /\ now \in Nat
    BY MacAssumption DEF TypeOK
  <2>3. Write(store[e], v, now) \in Stored
    BY <2>2, WriteStored
  <2>4. store' \in [Entity -> Stored]
    BY <2>1, <2>3 DEF TypeOK
  <2>5. left' \in Bounds
    BY <2>1, BoundsTyped DEF TypeOK
  <2>6. UNCHANGED <<ckpt, coreVars, pathVars, engine, staged, cloud>>
    BY <2>1
  <2> QED
    BY <2>4, <2>5, <2>6 DEF TypeOK, Counted, OneUpload, coreVars, pathVars
<1>2. ASSUME NEW e \in Entity, NEW v \in {None} \cup Payload, OldBuildWrites(e, v)
      PROVE  Inv'
  <2>1. /\ left.old > 0 /\ left' = [left EXCEPT !.old = @ - 1]
        /\ store' = [store EXCEPT ![e].row = v]
        /\ UNCHANGED <<ckpt, coreVars, pathVars, engine, staged, cloud>>
    BY <1>2 DEF OldBuildWrites
  <2>2. [store[e] EXCEPT !.row = v] \in Stored
    <3>1. store[e] \in Stored
      BY DEF TypeOK
    <3> QED
      BY <3>1 DEF Stored
  <2>3. store' \in [Entity -> Stored]
    BY <2>1, <2>2 DEF TypeOK
  <2>4. left' \in Bounds
    BY <2>1, BoundsTyped DEF TypeOK
  <2>5. UNCHANGED <<ckpt, coreVars, pathVars, engine, staged, cloud>>
    BY <2>1
  <2> QED
    BY <2>3, <2>4, <2>5 DEF TypeOK, Counted, OneUpload, coreVars, pathVars
<1>3. ASSUME NEW e \in Entity, NEW v \in Payload, NEW at \in Times,
             NEW rev \in cloud[e].rev .. cloud[e].rev + 1, PeerSaves(e, v, rev, at)
      PROVE  Inv'
  <2> DEFINE next == [val |-> v, ver |-> cloud[e].ver + 1, rev |-> rev, at |-> at,
                      dev |-> Peer]
  <2>1. /\ left.remote > 0 /\ left' = [left EXCEPT !.remote = @ - 1]
        /\ cloud' = [cloud EXCEPT ![e] = next]
        /\ UNCHANGED <<store, ckpt, coreVars, pathVars, engine, staged>>
    BY <1>3 DEF PeerSaves
  <2>2. at \in Nat /\ Peer \in Nat
    BY MacAssumption
  <2>3. cloud[e].ver + 1 \in Nat /\ rev \in Nat
    <3>1. cloud[e] \in CloudRecord
      BY DEF TypeOK
    <3>2. cloud[e].ver \in Nat /\ cloud[e].rev \in Nat
      BY <3>1 DEF CloudRecord
    <3> QED
      BY <3>2
  <2>4. next \in CloudRecord
    BY <2>2, <2>3 DEF CloudRecord
  <2> HIDE DEF next
  <2>5. cloud' \in [Entity -> CloudRecord]
    BY <2>1, <2>4 DEF TypeOK
  <2>6. left' \in Bounds
    BY <2>1, BoundsTyped DEF TypeOK
  <2>7. UNCHANGED <<store, ckpt, coreVars, pathVars, engine, staged>>
    BY <2>1
  <2> QED
    BY <2>5, <2>6, <2>7 DEF TypeOK, Counted, OneUpload, coreVars, pathVars
<1>4. ASSUME NEW e \in Entity, PeerDeletes(e)
      PROVE  Inv'
  <2> DEFINE next == [val |-> None, ver |-> cloud[e].ver + 1, rev |-> cloud[e].rev,
                      at |-> 0, dev |-> Peer]
  <2>1. /\ left.remote > 0 /\ left' = [left EXCEPT !.remote = @ - 1]
        /\ cloud' = [cloud EXCEPT ![e] = next]
        /\ UNCHANGED <<store, ckpt, coreVars, pathVars, engine, staged>>
    BY <1>4 DEF PeerDeletes
  <2>2. cloud[e].rev \in Nat /\ cloud[e].ver + 1 \in Nat /\ Peer \in Nat
    BY MacAssumption, SMTT(30) DEF TypeOK, CloudRecord
  <2>3. next \in CloudRecord
    BY <2>2 DEF CloudRecord
  <2> HIDE DEF next
  <2>4. cloud' \in [Entity -> CloudRecord]
    BY <2>1, <2>3 DEF TypeOK
  <2>5. left' \in Bounds
    BY <2>1, BoundsTyped DEF TypeOK
  <2>6. UNCHANGED <<store, ckpt, coreVars, pathVars, engine, staged>>
    BY <2>1
  <2> QED
    BY <2>4, <2>5, <2>6 DEF TypeOK, Counted, OneUpload, coreVars, pathVars
<1> QED
  BY <1>1, <1>2, <1>3, <1>4 DEF Users

(* The worker's timers.                                                     *)
LEMMA TimersInv == Inv /\ Timers => Inv'
<1> SUFFICES ASSUME Inv, Timers PROVE Inv'
  OBVIOUS
<1> USE DEF Inv
<1>1. ASSUME NEW now \in Times, Tick(now)
      PROVE  Inv'
  <2> DEFINE st == [e \in Entity |-> IF reconcileNeeded THEN Reconcile(store[e], now)
                                     ELSE store[e]]
  <2>1. st \in [Entity -> Stored]
    BY ReconcileStored, MacAssumption DEF TypeOK
  <2>2. Pump(st, inflight, FALSE, caughtUp, cmds)
    BY <1>1 DEF Tick
  <2> HIDE DEF st
  <2>3. /\ store' \in [Entity -> Stored] /\ reconcileNeeded' \in BOOLEAN
        /\ inflight' \in SUBSET Inflight /\ cmds' \in Seq(Command)
    BY <2>1, <2>2, PumpTyped DEF TypeOK
  <2>4. OneUpload'
    BY <2>2, PumpOneUpload DEF OneUpload
  <2> QED
    BY <1>1, <2>3, <2>4 DEF Tick, TypeOK, Counted
<1>2. ASSUME NEW overdue \in BOOLEAN, RequestSync(overdue) \/ Poll(overdue)
      PROVE  left' \in Bounds /\ WithFetch(cmds, overdue) \in Seq(Command)
  <2>1. left' = left \/ Fault("stuck")
    BY <1>2 DEF RequestSync, Poll, Stuck
  <2>2. left' \in Bounds
    BY <2>1, FaultTyped DEF TypeOK
  <2>3. [cmd |-> "fetch"] \in Command
    BY DEF Command
  <2> QED
    BY <2>2, <2>3, AppendProperties DEF WithFetch, TypeOK
<1>3. ASSUME NEW overdue \in BOOLEAN, RequestSync(overdue)
      PROVE  Inv'
  <2>1. Pump(store, inflight, TRUE, caughtUp, WithFetch(cmds, overdue))
    BY <1>3 DEF RequestSync
  <2>2. /\ store' \in [Entity -> Stored] /\ reconcileNeeded' \in BOOLEAN
        /\ inflight' \in SUBSET Inflight /\ cmds' \in Seq(Command)
    BY <1>2, <1>3, <2>1, PumpTyped DEF TypeOK
  <2>3. OneUpload'
    BY <2>1, PumpOneUpload DEF OneUpload
  <2>4. /\ fetching' = TRUE
        /\ UNCHANGED <<ckpt, up, fetchCompleted, caughtUp, unapplied, pendingState,
                       sendHold, staleSeen, toApply, chan, engine, staged, cloud>>
    BY <1>3 DEF RequestSync
  <2> QED
    BY <1>2, <1>3, <2>2, <2>3, <2>4 DEF TypeOK, Counted
<1>4. ASSUME NEW overdue \in BOOLEAN, Poll(overdue)
      PROVE  Inv'
  <2>1. /\ fetching' = TRUE
        /\ cmds' = WithFetch(cmds, overdue)
        /\ UNCHANGED <<store, ckpt, up, inflight, fetchCompleted, caughtUp, unapplied,
                       pendingState, reconcileNeeded, sendHold, staleSeen, toApply, chan,
                       engine, staged, cloud>>
    BY <1>4 DEF Poll
  <2> QED
    BY <1>2, <1>4, <2>1 DEF TypeOK, Counted, OneUpload
<1>5. ASSUME NEW e \in Entity, RetryDue(e)
      PROVE  Inv'
  <2>1. /\ store' = [store EXCEPT ![e].wait = "now"]
        /\ UNCHANGED <<ckpt, coreVars, pathVars, engine, staged, cloud, left>>
    BY <1>5 DEF RetryDue
  <2>2. [store[e] EXCEPT !.wait = "now"] \in Stored
    <3>1. store[e] \in Stored
      BY DEF TypeOK
    <3> QED
      BY <3>1 DEF Stored
  <2>3. store' \in [Entity -> Stored]
    BY <2>1, <2>2 DEF TypeOK
  <2>4. UNCHANGED <<ckpt, coreVars, pathVars, engine, staged, cloud, left>>
    BY <2>1
  <2> QED
    BY <2>3, <2>4 DEF TypeOK, Counted, OneUpload, coreVars, pathVars
<1>6. HoldOver => Inv'
  BY DEF HoldOver, TypeOK, Counted, OneUpload, pathVars
<1> QED
  BY <1>1, <1>3, <1>4, <1>5, <1>6 DEF Timers

-----------------------------------------------------------------------------
(* The worker's handlers.                                                   *)

(* Taking an event off the channel keeps the channel's type, and counts one *)
(* acknowledgement less just when it was one.                               *)
LEMMA HandlesTyped ==
    ASSUME TypeOK, NEW kind, Handles(kind)
    PROVE  /\ Head(chan) \in Event /\ Head(chan).ev = kind
           /\ chan' \in Seq(Event)
           /\ Cardinality(Acks(chan)) \in Nat /\ Cardinality(Acks(chan')) \in Nat
           /\ Cardinality(Acks(chan')) =
                IF kind = "applied" THEN Cardinality(Acks(chan)) - 1
                ELSE Cardinality(Acks(chan))
<1>1. chan \in Seq(Event) /\ chan # <<>> /\ Head(chan).ev = kind /\ chan' = Tail(chan)
  BY DEF TypeOK, Handles
<1>2. Head(chan) \in Event /\ chan' \in Seq(Event)
  BY <1>1, HeadTailProperties
<1> QED
  BY <1>1, <1>2, AcksTail, AcksFinite

(* What a handler finds in the event it handles.                            *)
LEMMA EventTyped ==
    ASSUME NEW m \in Event
    PROVE  /\ m.ev = "fetched" => m.recs \in SUBSET Fetched /\ m.dels \in SUBSET Entity
           /\ m.ev = "state" => m.at \in Position
           /\ m.ev = "sent" => m.results \in FiniteSubset(Result)
  BY DEF Event

(* flush_state writes a checkpoint or leaves it.                            *)
LEMMA FlushTyped ==
    ASSUME TypeOK, NEW waiting, NEW pending \in {None} \cup Position,
           NEW completed \in BOOLEAN, FlushState(waiting, pending, completed)
    PROVE  /\ ckpt' \in Position
           /\ pendingState' \in {None} \cup Position
           /\ caughtUp' \in BOOLEAN
           /\ CaughtUp(waiting, pending, completed) \in BOOLEAN
  BY DEF TypeOK, FlushState, CaughtUp

(* At most one batch goes to the host for a page of changes.                *)
LEMMA BatchesTyped ==
    ASSUME NEW recs \in SUBSET Fetched, NEW dels \in SUBSET Entity
    PROVE  Batches(recs, dels) \in Seq(Batch)
<1>1. [recs |-> recs, dels |-> dels] \in Batch
  BY DEF Batch
<1> QED
  BY <1>1 DEF Batches

(* Batches handed to the host are counted.                                  *)
LEMMA HandOver ==
    ASSUME Inv, NEW kind, kind # "applied", Handles(kind), NEW news \in Seq(Batch),
           toApply' = toApply \o news, unapplied' = unapplied + Len(news)
    PROVE  /\ toApply' \in Seq(Batch) /\ unapplied' \in Nat
           /\ Counted'
<1>1. toApply \in Seq(Batch) /\ unapplied \in Nat
      /\ unapplied = Len(toApply) + Cardinality(Acks(chan))
  BY DEF Inv, TypeOK, Counted
<1>2. toApply' \in Seq(Batch) /\ Len(toApply') = Len(toApply) + Len(news)
      /\ Len(news) \in Nat /\ Len(toApply) \in Nat
  BY <1>1, ConcatProperties, LenProperties
<1>3. Cardinality(Acks(chan')) = Cardinality(Acks(chan)) /\ Cardinality(Acks(chan)) \in Nat
  BY HandlesTyped DEF Inv
<1> QED
  BY <1>1, <1>2, <1>3 DEF Counted

(* What becomes of a stored record when the cloud has answered.             *)
LEMMA AnsweredTyped ==
    ASSUME TypeOK, NEW s \in Stored, NEW r \in Result
    PROVE  Answered(s, r) \in Stored
<1>1. /\ r.q \in Nat /\ r.rec.ver \in Nat /\ r.rec.val \in {None} \cup Payload
      /\ r.kind \in {"saved", "deleted", "retry", "unknown", "conflict"}
  BY DEF Result, CloudRecord
<1>2. OnSaved(s, r) \in Stored
  <2>1. [s EXCEPT !.tag = r.rec.ver] \in Stored
    BY <1>1 DEF Stored
  <2>2. CASE Sent(r) # {}
    <3> DEFINE i == CHOOSE i \in Sent(r) : TRUE
               acked == AckSaved(s, r.q, i.val, r.rec.ver)
    <3>1. i.val \in {None} \cup Payload
      BY <2>2 DEF Sent, TypeOK, Inflight
    <3> HIDE DEF i
    <3>2. acked \in Stored
      BY <1>1, <3>1, AckStored
    <3>3. [acked EXCEPT !.base = i.val] \in Stored
      <4> HIDE DEF acked
      <4> QED
        BY <3>1, <3>2 DEF Stored
    <3>4. OnSaved(s, r) = IF r.e \in Combining THEN [acked EXCEPT !.base = i.val] ELSE acked
      BY <2>2 DEF OnSaved, i
    <3> QED
      BY <3>2, <3>3, <3>4
  <2> QED
    BY <2>1, <2>2 DEF OnSaved
<1>3. AckDeleted(s, r.q) \in Stored
  BY <1>1, AckStored
<1>4. OnConflict(s, r) \in Stored
  <2>1. [s EXCEPT !.tag = r.rec.ver, !.wait = "now"] \in Stored
    BY <1>1 DEF Stored
  <2> QED
    BY <1>1, <2>1, AckStored, OutboxStored DEF OnConflict
<1>5. r.kind \in {"retry", "unknown", "conflict"} => OnFailure(s, r) \in Stored
  <2>1. [s EXCEPT !.tag = 0, !.wait = "now"] \in Stored
    BY DEF Stored
  <2>2. Fail(s, "later") \in Stored
    BY OutboxStored
  <2> QED
    BY <1>4, <2>1, <2>2 DEF OnFailure
<1> QED
  BY <1>1, <1>2, <1>3, <1>5 DEF Answered

(* The handlers' steps.                                                     *)
LEMMA HandlersInv == Inv /\ Handlers => Inv'
<1> SUFFICES ASSUME Inv, Handlers PROVE Inv'
  OBVIOUS
<1> USE DEF Inv
<1>1. ASSUME OnFetched
      PROVE  Inv'
  <2> DEFINE news == Batches(Admitted(Head(chan).recs), Head(chan).dels)
             seen == IF staleSeen = None THEN None
                     ELSE staleSeen \cup EntriesOf(Head(chan).recs)
  <2>1. /\ Handles("fetched")
        /\ fetching' = FALSE
        /\ staleSeen' = seen
        /\ toApply' = toApply \o news
        /\ unapplied' = unapplied + Len(news)
        /\ UNCHANGED <<ckpt, up, fetchCompleted, caughtUp, pendingState, sendHold,
                       engine, staged, cloud, left>>
        /\ Pump(store, inflight, reconcileNeeded, caughtUp, cmds)
    BY <1>1 DEF OnFetched
  <2>2. Head(chan).recs \in SUBSET Fetched /\ Head(chan).dels \in SUBSET Entity
    BY <2>1, HandlesTyped, EventTyped
  <2>3. news \in Seq(Batch)
    BY <2>2, BatchesTyped DEF Admitted
  <2>4. seen \in {None} \cup SUBSET Entity
    BY <2>2 DEF TypeOK, EntriesOf, Fetched
  <2> HIDE DEF news, seen
  <2>5. toApply' \in Seq(Batch) /\ unapplied' \in Nat /\ Counted'
    BY <2>1, <2>3, HandOver
  <2>6. chan' \in Seq(Event)
    BY <2>1, HandlesTyped
  <2>7. /\ store' \in [Entity -> Stored] /\ reconcileNeeded' \in BOOLEAN
        /\ inflight' \in SUBSET Inflight /\ cmds' \in Seq(Command)
    BY <2>1, PumpTyped DEF TypeOK
  <2>8. OneUpload'
    BY <2>1, PumpOneUpload DEF OneUpload
  <2> QED
    BY <2>1, <2>4, <2>5, <2>6, <2>7, <2>8 DEF TypeOK
<1>2. ASSUME OnState
      PROVE  Inv'
  <2> DEFINE caught == CaughtUp(unapplied, Head(chan).at, fetchCompleted)
  <2>1. /\ Handles("state")
        /\ fetching' = FALSE
        /\ FlushState(unapplied, Head(chan).at, fetchCompleted)
        /\ UNCHANGED <<up, fetchCompleted, unapplied, sendHold, staleSeen, toApply,
                       engine, staged, cloud, left>>
        /\ Pump(store, inflight, reconcileNeeded, caught, cmds)
    BY <1>2 DEF OnState
  <2>2. Head(chan).at \in Position
    BY <2>1, HandlesTyped, EventTyped
  <2>3. /\ ckpt' \in Position /\ pendingState' \in {None} \cup Position
        /\ caughtUp' \in BOOLEAN /\ caught \in BOOLEAN
    BY <2>1, <2>2, FlushTyped DEF TypeOK
  <2> HIDE DEF caught
  <2>4. chan' \in Seq(Event) /\ Cardinality(Acks(chan')) = Cardinality(Acks(chan))
    BY <2>1, HandlesTyped
  <2>5. /\ store' \in [Entity -> Stored] /\ reconcileNeeded' \in BOOLEAN
        /\ inflight' \in SUBSET Inflight /\ cmds' \in Seq(Command)
    BY <2>1, <2>3, PumpTyped DEF TypeOK
  <2>6. OneUpload'
    BY <2>1, PumpOneUpload DEF OneUpload
  <2>7. TypeOK'
    BY <2>1, <2>3, <2>4, <2>5 DEF TypeOK
  <2>8. Counted'
    BY <2>1, <2>4 DEF Counted
  <2> QED
    BY <2>6, <2>7, <2>8
<1>3. ASSUME OnFetchComplete
      PROVE  Inv'
  <2> DEFINE news == IF staleSeen = None THEN <<>>
                     ELSE Batches({}, DeletedElsewhere(staleSeen))
             caught == CaughtUp(unapplied, pendingState, TRUE)
  <2>1. /\ Handles("complete")
        /\ fetching' = FALSE
        /\ fetchCompleted' = TRUE
        /\ FlushState(unapplied, pendingState, TRUE)
        /\ staleSeen' = None
        /\ toApply' = toApply \o news
        /\ unapplied' = unapplied + Len(news)
        /\ UNCHANGED <<up, sendHold, engine, staged, cloud, left>>
        /\ Pump(store, inflight, reconcileNeeded, caught, cmds)
    BY <1>3 DEF OnFetchComplete
  <2>2. news \in Seq(Batch)
    <3>1. DeletedElsewhere(staleSeen) \in SUBSET Entity
      BY DEF DeletedElsewhere, SyncedEntities
    <3> QED
      BY <3>1, BatchesTyped
  <2>3. /\ ckpt' \in Position /\ pendingState' \in {None} \cup Position
        /\ caughtUp' \in BOOLEAN /\ caught \in BOOLEAN
    BY <2>1, FlushTyped DEF TypeOK
  <2> HIDE DEF caught, news
  <2>4. toApply' \in Seq(Batch) /\ unapplied' \in Nat /\ Counted'
    BY <2>1, <2>2, HandOver
  <2>5. chan' \in Seq(Event)
    BY <2>1, HandlesTyped
  <2>6. /\ store' \in [Entity -> Stored] /\ reconcileNeeded' \in BOOLEAN
        /\ inflight' \in SUBSET Inflight /\ cmds' \in Seq(Command)
    BY <2>1, <2>3, PumpTyped DEF TypeOK
  <2>7. OneUpload'
    BY <2>1, PumpOneUpload DEF OneUpload
  <2> QED
    BY <2>1, <2>3, <2>4, <2>5, <2>6, <2>7 DEF TypeOK
<1>4. ASSUME OnError
      PROVE  Inv'
  <2>1. /\ Handles("error")
        /\ fetching' = FALSE
        /\ UNCHANGED <<ckpt, up, fetchCompleted, caughtUp, unapplied, pendingState, sendHold,
                       staleSeen, toApply, engine, staged, cloud, left>>
        /\ Pump(store, inflight, reconcileNeeded, caughtUp, cmds)
    BY <1>4 DEF OnError
  <2>2. chan' \in Seq(Event) /\ Cardinality(Acks(chan')) = Cardinality(Acks(chan))
    BY <2>1, HandlesTyped
  <2>3. /\ store' \in [Entity -> Stored] /\ reconcileNeeded' \in BOOLEAN
        /\ inflight' \in SUBSET Inflight /\ cmds' \in Seq(Command)
    BY <2>1, PumpTyped DEF TypeOK
  <2>4. OneUpload'
    BY <2>1, PumpOneUpload DEF OneUpload
  <2>5. TypeOK'
    BY <2>1, <2>2, <2>3 DEF TypeOK
  <2>6. Counted'
    BY <2>1, <2>2 DEF Counted
  <2> QED
    BY <2>4, <2>5, <2>6
<1>5. ASSUME OnExpired
      PROVE  Inv'
  <2> DEFINE again == << [cmd |-> "start", at |-> NoPosition], [cmd |-> "fetch"] >>
             out == cmds \o again
  <2>1. /\ Handles("expired")
        /\ ckpt' = NoPosition
        /\ pendingState' = None
        /\ caughtUp' = FALSE /\ fetchCompleted' = FALSE /\ fetching' = FALSE
        /\ staleSeen' = {}
        /\ UNCHANGED <<up, unapplied, sendHold, toApply, engine, staged, cloud, left>>
        /\ Pump(store, inflight, reconcileNeeded, FALSE, out)
    BY <1>5 DEF OnExpired
  <2>2. NoPosition \in Position
    BY DEF NoPosition, Position
  <2>3. again \in Seq(Command)
    <3>1. [cmd |-> "start", at |-> NoPosition] \in Command /\ [cmd |-> "fetch"] \in Command
      BY <2>2 DEF Command
    <3> QED
      BY <3>1
  <2> HIDE DEF again
  <2>4. out \in Seq(Command)
    BY <2>3, ConcatProperties DEF TypeOK
  <2> HIDE DEF out
  <2>5. chan' \in Seq(Event) /\ Cardinality(Acks(chan')) = Cardinality(Acks(chan))
    BY <2>1, HandlesTyped
  <2>6. /\ store' \in [Entity -> Stored] /\ reconcileNeeded' \in BOOLEAN
        /\ inflight' \in SUBSET Inflight /\ cmds' \in Seq(Command)
    BY <2>1, <2>4, PumpTyped DEF TypeOK
  <2>7. OneUpload'
    BY <2>1, PumpOneUpload DEF OneUpload
  <2>8. TypeOK'
    BY <2>1, <2>2, <2>5, <2>6 DEF TypeOK
  <2>9. Counted'
    BY <2>1, <2>5 DEF Counted
  <2> QED
    BY <2>7, <2>8, <2>9
<1>6. ASSUME OnApplied
      PROVE  Inv'
  <2> DEFINE caught == CaughtUp(unapplied - 1, pendingState, fetchCompleted)
             st == [e \in Entity |-> Release(store[e])]
  <2>1. /\ Handles("applied")
        /\ unapplied' = unapplied - 1
        /\ FlushState(unapplied - 1, pendingState, fetchCompleted)
        /\ UNCHANGED <<up, fetching, fetchCompleted, sendHold, staleSeen, toApply,
                       engine, staged, cloud, left>>
        /\ Pump(st, inflight, reconcileNeeded, caught, cmds)
    BY <1>6 DEF OnApplied
  <2>2. /\ chan' \in Seq(Event) /\ Cardinality(Acks(chan')) \in Nat
        /\ Cardinality(Acks(chan')) = Cardinality(Acks(chan)) - 1
        /\ Cardinality(Acks(chan)) \in Nat
    BY <2>1, HandlesTyped
  <2>3. Len(toApply) \in Nat
    BY LenProperties DEF TypeOK
  <2>4. unapplied' \in Nat /\ Counted'
    BY <2>1, <2>2, <2>3 DEF Counted
  <2>5. /\ ckpt' \in Position /\ pendingState' \in {None} \cup Position
        /\ caughtUp' \in BOOLEAN /\ caught \in BOOLEAN
    BY <2>1, FlushTyped DEF TypeOK
  <2>6. st \in [Entity -> Stored]
    BY OutboxStored DEF TypeOK
  <2> HIDE DEF caught, st
  <2>7. /\ store' \in [Entity -> Stored] /\ reconcileNeeded' \in BOOLEAN
        /\ inflight' \in SUBSET Inflight /\ cmds' \in Seq(Command)
    BY <2>1, <2>5, <2>6, PumpTyped DEF TypeOK
  <2>8. OneUpload'
    BY <2>1, PumpOneUpload DEF OneUpload
  <2> QED
    BY <2>1, <2>2, <2>4, <2>5, <2>7, <2>8 DEF TypeOK
<1>7. ASSUME OnSendFailed
      PROVE  Inv'
  <2>1. /\ Handles("sendfailed")
        /\ inflight' = {}
        /\ fetching' = FALSE
        /\ sendHold' = TRUE
        /\ UNCHANGED <<store, ckpt, up, fetchCompleted, caughtUp, unapplied, pendingState,
                       reconcileNeeded, staleSeen, toApply, cmds, engine, staged, cloud,
                       left>>
    BY <1>7 DEF OnSendFailed
  <2>2. chan' \in Seq(Event) /\ Cardinality(Acks(chan')) = Cardinality(Acks(chan))
    BY <2>1, HandlesTyped
  <2>3. TypeOK'
    BY <2>1, <2>2 DEF TypeOK
  <2>4. Counted' /\ OneUpload'
    BY <2>1, <2>2 DEF Counted, OneUpload
  <2> QED
    BY <2>3, <2>4
<1>8. ASSUME OnSent
      PROVE  Inv'
  <2> DEFINE results == Head(chan).results
             batch(r) == [recs |-> {[e |-> r.e, rec |-> r.rec]}, dels |-> {}]
             clashes == {r \in results : NeedsApply(store[r.e], r)}
             settle == {batch(r) : r \in clashes}
             news == InSomeOrder(settle)
             st == [e \in Entity |-> IF e \in EntriesOf(results)
                                     THEN Answered(store[e], CHOOSE r \in results : r.e = e)
                                     ELSE store[e]]
             flying == {i \in inflight : \A r \in results : i \notin Sent(r)}
  <2>1. /\ Handles("sent")
        /\ toApply' = toApply \o news
        /\ unapplied' = unapplied + Len(news)
        /\ UNCHANGED <<ckpt, up, fetching, fetchCompleted, caughtUp, pendingState, sendHold,
                       staleSeen, engine, staged, cloud, left>>
        /\ Pump(st, flying, reconcileNeeded, caughtUp, cmds)
    BY <1>8 DEF OnSent
  <2>2. results \in SUBSET Result /\ IsFiniteSet(results)
    BY <2>1, HandlesTyped, EventTyped DEF FiniteSubset
  <2>3. st \in [Entity -> Stored]
    <3>1. ASSUME NEW e \in Entity
          PROVE  st[e] \in Stored
      <4>1. store[e] \in Stored
        BY DEF TypeOK
      <4>2. CASE e \in EntriesOf(results)
        <5> DEFINE r == CHOOSE r \in results : r.e = e
        <5>1. r \in Result
          BY <2>2, <4>2 DEF EntriesOf
        <5> HIDE DEF r, results
        <5>2. Answered(store[e], r) \in Stored
          BY <4>1, <5>1, AnsweredTyped
        <5> QED
          BY <4>2, <5>2 DEF r
      <4> QED
        BY <4>1, <4>2
    <3> QED
      BY <3>1
  <2>4. news \in Seq(Batch)
    <3>1. ASSUME NEW r \in clashes
          PROVE  batch(r) \in Batch
      <4>1. r.e \in Entity /\ r.rec \in CloudRecord /\ r.rec.val # None
        BY <2>2 DEF Result, NeedsApply
      <4>2. [e |-> r.e, rec |-> r.rec] \in Fetched
        BY <4>1 DEF Fetched
      <4> QED
        BY <4>2 DEF Batch
    <3>2. settle \in SUBSET Batch
      BY <3>1
    <3>3. IsFiniteSet(settle)
      <4> DEFINE f == [r \in clashes |-> batch(r)]
      <4>1. IsFiniteSet(clashes)
        BY <2>2, FS_Subset
      <4>2. f \in Surjection(clashes, settle)
        BY DEF Surjection
      <4> QED
        BY <4>1, <4>2, FS_Surjection
    <3> HIDE DEF settle
    <3> QED
      BY <3>2, <3>3, OrderTyped
  <2> HIDE DEF results, news, st
  <2>5. toApply' \in Seq(Batch) /\ unapplied' \in Nat /\ Counted'
    BY <2>1, <2>4, HandOver
  <2>6. chan' \in Seq(Event)
    BY <2>1, HandlesTyped
  <2>7. /\ store' \in [Entity -> Stored] /\ reconcileNeeded' \in BOOLEAN
        /\ inflight' \in SUBSET Inflight /\ cmds' \in Seq(Command)
    BY <2>1, <2>3, PumpTyped DEF TypeOK
  <2>8. OneUpload'
    BY <2>1, PumpOneUpload DEF OneUpload
  <2> QED
    BY <2>1, <2>5, <2>6, <2>7, <2>8 DEF TypeOK
<1> QED
  BY <1>1, <1>2, <1>3, <1>4, <1>5, <1>6, <1>7, <1>8 DEF Handlers

-----------------------------------------------------------------------------
(* The bridge and the zone.                                                 *)

(* Taking a command keeps the commands' type.                               *)
LEMMA RunsTyped ==
    ASSUME TypeOK, NEW kind, Runs(kind)
    PROVE  /\ Head(cmds) \in Command /\ Head(cmds).cmd = kind
           /\ cmds' \in Seq(Command)
  BY HeadTailProperties DEF TypeOK, Runs

(* What the bridge finds in a command.                                      *)
LEMMA CommandTyped ==
    ASSUME NEW c \in Command
    PROVE  /\ c.cmd = "start" => c.at \in Position
           /\ c.cmd = "send" => c.changes \in FiniteSubset(Change)
  BY DEF Command

(* A bridge step that emits events other than acknowledgements and leaves   *)
(* the core alone keeps what the core counts.                               *)
LEMMA EmitsInv ==
    ASSUME Inv, NEW events \in Seq(Event),
           \A k \in 1 .. Len(events) : events[k].ev # "applied",
           chan' = chan \o events,
           UNCHANGED <<coreVars, toApply>>
    PROVE  chan' \in Seq(Event) /\ Counted' /\ OneUpload'
<1>1. chan' \in Seq(Event) /\ Acks(chan') = Acks(chan)
  BY AcksOthers DEF Inv, TypeOK
<1> QED
  BY <1>1 DEF Inv, Counted, OneUpload, coreVars

(* Where a fetch leaves the engine is a position, and the pages it reports  *)
(* are events.                                                              *)
LEMMA PageTyped ==
    ASSUME TypeOK, engine # None, NEW page \in SUBSET Entity
    PROVE  /\ Advance(page) \in Position
           /\ FetchedPage(page) \in Event /\ FetchedPage(page).ev = "fetched"
           /\ StateAt(page) \in Event /\ StateAt(page).ev = "state"
<1>1. engine \in Position /\ cloud \in [Entity -> CloudRecord]
  BY DEF TypeOK
<1>2. Advance(page) \in Position
  <2>1. \A e \in Entity : cloud[e].ver \in Nat /\ engine.pos[e] \in Nat
    BY <1>1 DEF Position, CloudRecord
  <2> DEFINE passed == IF engine.nil THEN {e \in Entity : cloud[e].val = None} ELSE {}
             pos == [e \in Entity |-> IF e \in page \cup passed THEN cloud[e].ver
                                      ELSE engine.pos[e]]
  <2>2. pos \in [Entity -> Nat]
    BY <2>1
  <2>3. Advance(page) = [nil |-> FALSE, pos |-> pos]
    BY DEF Advance
  <2> HIDE DEF pos
  <2> QED
    BY <2>2, <2>3 DEF Position
<1>3. FetchedPage(page) \in Event
  <2> DEFINE recs == {[e |-> e, rec |-> cloud[e]] : e \in {p \in page : cloud[p].val # None}}
             dels == {e \in page : cloud[e].val = None}
  <2>1. recs \in SUBSET Fetched
    BY <1>1 DEF Fetched
  <2>2. dels \in SUBSET Entity
    OBVIOUS
  <2>3. FetchedPage(page) = [ev |-> "fetched", recs |-> recs, dels |-> dels]
    BY DEF FetchedPage
  <2> HIDE DEF recs, dels
  <2> QED
    BY <2>1, <2>2, <2>3 DEF Event
<1>4. StateAt(page) \in Event
  BY <1>2 DEF StateAt, Event
<1> QED
  BY <1>2, <1>3, <1>4 DEF FetchedPage, StateAt

(* The changes of a send are finitely many.                                 *)
LEMMA RestagedTyped ==
    ASSUME TypeOK, Runs("send")
    PROVE  Restaged \in SUBSET Change /\ IsFiniteSet(Restaged)
<1>1. Head(cmds).changes \in SUBSET Change /\ IsFiniteSet(Head(cmds).changes)
  BY RunsTyped, CommandTyped DEF FiniteSubset
<1>2. staged \in SUBSET Change /\ IsFiniteSet(staged)
  BY DEF TypeOK, FiniteSubset
<1>3. IsFiniteSet({c \in staged : c.e \notin EntriesOf(Head(cmds).changes)})
  BY <1>2, FS_Subset
<1> QED
  BY <1>1, <1>2, <1>3, FS_Union DEF Restaged

(* The zone's answer to a change, given or lost, can travel.                *)
LEMMA AnswerTyped ==
    ASSUME TypeOK, NEW c \in Change
    PROVE  Answer(c) \in Result /\ NoAnswer(c) \in Result
<1> DEFINE r == cloud[c.e]
           kind == IF c.val = None THEN "deleted"
                   ELSE IF r.val # None /\ c.tag # r.ver THEN "conflict"
                   ELSE IF r.val = None /\ c.tag # 0 THEN "unknown"
                   ELSE "saved"
           saved == [val |-> c.val, ver |-> r.ver + 1, rev |-> c.rev, at |-> c.at, dev |-> Me]
           deleted == [val |-> None, ver |-> r.ver + 1, rev |-> r.rev, at |-> 0, dev |-> Me]
           next == IF kind = "saved" THEN saved
                   ELSE IF kind = "deleted" /\ r.val # None THEN deleted ELSE r
<1>1. /\ c.e \in Entity /\ c.q \in Nat /\ c.val \in {None} \cup Payload
      /\ c.rev \in Nat /\ c.at \in Nat
  BY DEF Change
<1>2. r \in CloudRecord
  BY <1>1 DEF TypeOK
<1>3. r.ver \in Nat /\ r.rev \in Nat
  BY <1>2 DEF CloudRecord
<1>4. r.ver + 1 \in Nat /\ Me \in Nat
  BY <1>3, StoreAssumption
<1> HIDE DEF r
<1>5. saved \in CloudRecord /\ deleted \in CloudRecord
  BY <1>1, <1>3, <1>4 DEF CloudRecord
<1>6. kind \in {"saved", "deleted", "unknown", "conflict"}
      /\ (kind = "conflict" => r.val # None)
  OBVIOUS
<1> HIDE DEF saved, deleted
<1>7. next \in CloudRecord /\ (kind = "conflict" => next = r)
  BY <1>2, <1>5
<1>8. Answer(c) = [e |-> c.e, q |-> c.q, kind |-> kind, rec |-> next]
  BY DEF Answer, r, saved, deleted
<1>9. NoAnswer(c) = [e |-> c.e, q |-> c.q, kind |-> "retry", rec |-> r]
  BY DEF NoAnswer, r
<1> HIDE DEF kind, next
<1>10. Answer(c) \in Result
  BY <1>1, <1>6, <1>7, <1>8 DEF Result
<1> QED
  BY <1>1, <1>2, <1>9, <1>10 DEF Result

(* The zone keeps its type when it has answered.                            *)
LEMMA CloudAfterTyped ==
    ASSUME TypeOK, NEW results \in SUBSET Result
    PROVE  CloudAfter(results) \in [Entity -> CloudRecord]
<1>1. ASSUME NEW e \in Entity
      PROVE  CloudAfter(results)[e] \in CloudRecord
  <2>1. CASE e \in EntriesOf(results)
    <3> DEFINE r == CHOOSE r \in results : r.e = e
    <3>1. r \in Result
      BY <2>1 DEF EntriesOf
    <3> HIDE DEF r
    <3>2. r.rec \in CloudRecord
      BY <3>1 DEF Result
    <3> QED
      BY <2>1, <3>2 DEF CloudAfter, r
  <2>2. CASE e \notin EntriesOf(results)
    BY <2>2 DEF CloudAfter, TypeOK
  <2> QED
    BY <2>1, <2>2
<1> QED
  BY <1>1 DEF CloudAfter

(* The bridge's steps.                                                      *)
LEMMA BridgeInv == Inv /\ Bridge => Inv'
<1> SUFFICES ASSUME Inv, Bridge PROVE Inv'
  OBVIOUS
<1> USE DEF Inv
<1>1. ASSUME EngineStart
      PROVE  Inv'
  <2>1. /\ Runs("start") /\ engine' = Head(cmds).at /\ staged' = {}
        /\ UNCHANGED <<store, ckpt, coreVars, toApply, chan, cloud, left>>
    BY <1>1 DEF EngineStart
  <2>2. cmds' \in Seq(Command) /\ engine' \in Position
    BY <2>1, RunsTyped, CommandTyped
  <2>3. staged' \in FiniteSubset(Change)
    BY <2>1, FS_EmptySet DEF FiniteSubset
  <2> QED
    BY <2>1, <2>2, <2>3 DEF TypeOK, Counted, OneUpload, coreVars
<1>2. ASSUME EngineFetch
      PROVE  Inv'
  <2> DEFINE pages == IF Changed = {} THEN <<>> ELSE << FetchedPage(Changed), StateAt(Entity) >>
             done == [ev |-> "complete"]
             events == pages \o << done >>
  <2>1. /\ Runs("fetch") /\ engine # None /\ engine' = Advance(Entity)
        /\ chan' = chan \o events
        /\ UNCHANGED <<store, ckpt, coreVars, toApply, staged, cloud, left>>
    BY <1>2 DEF EngineFetch, Emits
  <2>2. Changed \in SUBSET Entity
    BY DEF Changed
  <2>3. done \in Event /\ done.ev = "complete"
    BY DEF Event
  <2> HIDE DEF done
  <2>4. events \in Seq(Event) /\ \A k \in 1 .. Len(events) : events[k].ev # "applied"
    BY <2>1, <2>2, <2>3, PageTyped
  <2> HIDE DEF events
  <2>5. chan' \in Seq(Event) /\ Counted' /\ OneUpload'
    BY <2>1, <2>4, EmitsInv
  <2>6. cmds' \in Seq(Command) /\ engine' \in Position
    BY <2>1, RunsTyped, PageTyped
  <2> QED
    BY <2>1, <2>5, <2>6 DEF TypeOK, coreVars
<1>3. ASSUME NEW page \in SUBSET Entity, EngineFetchFails(page)
      PROVE  Inv'
  <2> DEFINE pages == IF page = {} THEN <<>> ELSE << FetchedPage(page), StateAt(page) >>
             done == [ev |-> "error"]
             events == pages \o << done >>
  <2>1. /\ Runs("fetch") /\ engine # None /\ Fault("fetch")
        /\ engine' = IF page = {} THEN engine ELSE Advance(page)
        /\ chan' = chan \o events
        /\ UNCHANGED <<store, ckpt, coreVars, toApply, staged, cloud>>
    BY <1>3 DEF EngineFetchFails, Emits
  <2>2. done \in Event /\ done.ev = "error"
    BY DEF Event
  <2> HIDE DEF done
  <2>3. events \in Seq(Event) /\ \A k \in 1 .. Len(events) : events[k].ev # "applied"
    BY <2>1, <2>2, PageTyped
  <2> HIDE DEF events
  <2>4. chan' \in Seq(Event) /\ Counted' /\ OneUpload'
    BY <2>1, <2>3, EmitsInv
  <2>5. cmds' \in Seq(Command) /\ engine' \in {None} \cup Position
    BY <2>1, RunsTyped, PageTyped DEF TypeOK
  <2>6. left' \in Bounds
    BY <2>1, FaultTyped DEF TypeOK
  <2> QED
    BY <2>1, <2>4, <2>5, <2>6 DEF TypeOK, coreVars
<1>4. ASSUME EngineExpires
      PROVE  Inv'
  <2> DEFINE done == [ev |-> "expired"]
             events == << done >>
  <2>1. /\ Runs("fetch") /\ engine' = None
        /\ left' = left \/ Fault("expired")
        /\ chan' = chan \o events
        /\ UNCHANGED <<store, ckpt, coreVars, toApply, staged, cloud>>
    BY <1>4 DEF EngineExpires, Emits
  <2>2. done \in Event /\ done.ev = "expired"
    BY DEF Event
  <2> HIDE DEF done
  <2>3. events \in Seq(Event) /\ \A k \in 1 .. Len(events) : events[k].ev # "applied"
    BY <2>2
  <2> HIDE DEF events
  <2>4. chan' \in Seq(Event) /\ Counted' /\ OneUpload'
    BY <2>1, <2>3, EmitsInv
  <2>5. cmds' \in Seq(Command)
    BY <2>1, RunsTyped
  <2>6. left' \in Bounds
    BY <2>1, FaultTyped DEF TypeOK
  <2> QED
    BY <2>1, <2>4, <2>5, <2>6 DEF TypeOK, coreVars
<1>5. ASSUME NEW flaky \in SUBSET Entity, NEW told \in SUBSET Entity, EngineSend(flaky, told)
      PROVE  Inv'
  <2> DEFINE answer(c) == IF c.e \in flaky THEN NoAnswer(c) ELSE Answer(c)
             results == {answer(c) : c \in Restaged}
             mine == {r.e : r \in {r \in results : r.kind \in {"saved", "deleted"}}} \ told
             pos == [e \in Entity |-> IF e \in mine THEN CloudAfter(results)[e].ver
                                      ELSE engine.pos[e]]
             sent == [ev |-> "sent", results |-> results]
             events == << sent >>
  <2>1. /\ Runs("send") /\ staged' = {}
        /\ left' = left \/ Fault("record")
        /\ cloud' = CloudAfter(results)
        /\ engine' = engine \/ (engine # None /\ engine' = [engine EXCEPT !.pos = pos])
        /\ chan' = chan \o events
        /\ UNCHANGED <<store, ckpt, coreVars, toApply>>
    BY <1>5 DEF EngineSend, Emits
  <2>2. Restaged \in SUBSET Change /\ IsFiniteSet(Restaged)
    BY <2>1, RestagedTyped
  <2>3. results \in SUBSET Result
    BY <2>2, AnswerTyped
  <2>4. IsFiniteSet(results)
    <3> DEFINE f == [c \in Restaged |-> answer(c)]
    <3>1. f \in Surjection(Restaged, results)
      BY DEF Surjection
    <3> QED
      BY <2>2, <3>1, FS_Surjection
  <2>5. CloudAfter(results) \in [Entity -> CloudRecord]
    BY <2>3, CloudAfterTyped
  <2>6. engine # None => pos \in [Entity -> Nat]
    <3>1. \A e \in Entity : CloudAfter(results)[e].ver \in Nat
      <4> HIDE DEF results
      <4> QED
        BY <2>5 DEF CloudRecord
    <3> HIDE DEF mine, results
    <3> QED
      BY <3>1 DEF TypeOK, Position
  <2> HIDE DEF results, pos
  <2>7. sent \in Event /\ sent.ev = "sent"
    BY <2>3, <2>4 DEF Event, FiniteSubset
  <2> HIDE DEF sent
  <2>8. events \in Seq(Event) /\ \A k \in 1 .. Len(events) : events[k].ev # "applied"
    BY <2>7
  <2> HIDE DEF events
  <2>9. chan' \in Seq(Event) /\ Counted' /\ OneUpload'
    BY <2>1, <2>8, EmitsInv
  <2>10. engine' \in {None} \cup Position
    BY <2>1, <2>6 DEF TypeOK, Position
  <2>11. cmds' \in Seq(Command)
    BY <2>1, RunsTyped
  <2>12. left' \in Bounds
    BY <2>1, FaultTyped DEF TypeOK
  <2>13. staged' \in FiniteSubset(Change)
    BY <2>1, FS_EmptySet DEF FiniteSubset
  <2> QED
    BY <2>1, <2>5, <2>9, <2>10, <2>11, <2>12, <2>13 DEF TypeOK, coreVars
<1>6. ASSUME NEW landed \in SUBSET Entity, EngineSendThrows(landed)
      PROVE  Inv'
  <2> DEFINE answers == {Answer(c) : c \in {c \in Restaged : c.e \in landed}}
             failed == [ev |-> "sendfailed"]
             events == << failed >>
  <2>1. /\ Runs("send") /\ Fault("send")
        /\ cloud' = CloudAfter(answers)
        /\ staged' = Restaged
        /\ chan' = chan \o events
        /\ UNCHANGED <<store, ckpt, coreVars, toApply, engine>>
    BY <1>6 DEF EngineSendThrows, Emits
  <2>2. Restaged \in SUBSET Change /\ IsFiniteSet(Restaged)
    BY <2>1, RestagedTyped
  <2>3. answers \in SUBSET Result
    BY <2>2, AnswerTyped
  <2> HIDE DEF answers
  <2>4. cloud' \in [Entity -> CloudRecord]
    BY <2>1, <2>3, CloudAfterTyped
  <2>5. failed \in Event /\ failed.ev = "sendfailed"
    BY DEF Event
  <2> HIDE DEF failed
  <2>6. events \in Seq(Event) /\ \A k \in 1 .. Len(events) : events[k].ev # "applied"
    BY <2>5
  <2> HIDE DEF events
  <2>7. chan' \in Seq(Event) /\ Counted' /\ OneUpload'
    BY <2>1, <2>6, EmitsInv
  <2>8. cmds' \in Seq(Command) /\ staged' \in FiniteSubset(Change)
    BY <2>1, <2>2, RunsTyped DEF FiniteSubset
  <2>9. left' \in Bounds
    BY <2>1, FaultTyped DEF TypeOK
  <2> QED
    BY <2>1, <2>4, <2>7, <2>8, <2>9 DEF TypeOK, coreVars
<1> QED
  BY <1>1, <1>2, <1>3, <1>4, <1>5, <1>6 DEF Bridge

-----------------------------------------------------------------------------
(* Starting, crashing, and the app thread.                                  *)

(* A session starts with no upload under way and with what is on disk.      *)
LEMMA LaunchInv == Inv /\ (\E away \in BOOLEAN : Launch(away)) => Inv'
<1> SUFFICES ASSUME Inv, NEW away \in BOOLEAN, Launch(away) PROVE Inv'
  OBVIOUS
<1> USE DEF Inv
<1> DEFINE at == IF away THEN NoPosition ELSE ckpt
           out == << [cmd |-> "start", at |-> at], [cmd |-> "fetch"] >>
           seen == IF away THEN {} ELSE None
<1>1. /\ left' = left \/ Fault("away")
      /\ up' = TRUE /\ staleSeen' = seen /\ fetching' = TRUE
      /\ UNCHANGED <<fetchCompleted, caughtUp, unapplied, pendingState, sendHold>>
      /\ Pump(store, {}, TRUE, FALSE, out)
      /\ UNCHANGED <<ckpt, toApply, chan, engine, staged, cloud>>
  BY DEF Launch
<1>2. at \in Position
  BY DEF TypeOK, NoPosition, Position
<1>3. out \in Seq(Command)
  <2>1. [cmd |-> "start", at |-> at] \in Command /\ [cmd |-> "fetch"] \in Command
    BY <1>2 DEF Command
  <2> QED
    BY <2>1
<1>4. seen \in {None} \cup SUBSET Entity
  OBVIOUS
<1> HIDE DEF out, seen
<1>5. left' \in Bounds
  BY <1>1, FaultTyped DEF TypeOK
<1>6. /\ store' \in [Entity -> Stored] /\ reconcileNeeded' \in BOOLEAN
      /\ inflight' \in SUBSET Inflight /\ cmds' \in Seq(Command)
  BY <1>1, <1>3, PumpTyped DEF TypeOK
<1>7. OneUpload'
  <2>1. PICK flying : flying = {} /\ Pump(store, flying, TRUE, FALSE, out)
    BY <1>1
  <2>2. \A i, j \in flying : i.e = j.e => i = j
    BY <2>1
  <2> QED
    BY <2>1, <2>2, PumpOneUpload
<1>8. TypeOK'
  BY <1>1, <1>4, <1>5, <1>6 DEF TypeOK
<1>9. Counted'
  BY <1>1 DEF Counted
<1> QED
  BY <1>7, <1>8, <1>9

(* A crash empties everything that is not on disk.                          *)
LEMMA CrashInv == Inv /\ Crash => Inv'
<1> SUFFICES ASSUME Inv, Crash PROVE Inv'
  OBVIOUS
<1> USE DEF Inv
<1>1. /\ left.crashes > 0 /\ left' = [left EXCEPT !.crashes = @ - 1]
      /\ up' = FALSE
      /\ inflight' = {} /\ staged' = {}
      /\ fetching' = FALSE /\ fetchCompleted' = FALSE /\ caughtUp' = FALSE
      /\ unapplied' = 0 /\ pendingState' = None
      /\ reconcileNeeded' = FALSE /\ sendHold' = FALSE /\ staleSeen' = None
      /\ toApply' = <<>> /\ cmds' = <<>> /\ chan' = <<>>
      /\ engine' = NoPosition
      /\ UNCHANGED <<store, ckpt, cloud>>
  BY DEF Crash
<1>2. left' \in Bounds
  BY <1>1, BoundsTyped DEF TypeOK
<1>3. NoPosition \in Position
  BY DEF NoPosition, Position
<1>4. staged' \in FiniteSubset(Change)
  BY <1>1, FS_EmptySet DEF FiniteSubset
<1>5. toApply' \in Seq(Batch) /\ cmds' \in Seq(Command) /\ chan' \in Seq(Event)
      /\ Len(toApply') = 0
  BY <1>1
<1>6. TypeOK'
  BY <1>1, <1>2, <1>3, <1>4, <1>5 DEF TypeOK
<1>7. Cardinality(Acks(chan')) = 0
  <2>1. Acks(chan') = {}
    BY <1>1 DEF Acks
  <2> QED
    BY <2>1, FS_EmptySet
<1>8. Counted' /\ OneUpload'
  <2>1. unapplied' = 0 /\ inflight' = {}
    BY <1>1
  <2> QED
    BY <1>5, <1>7, <2>1 DEF Counted, OneUpload
<1> QED
  BY <1>6, <1>8

(* Applying a batch moves it from those that wait to those acknowledged.    *)
LEMMA ApplyInv == Inv /\ (\E now \in Times : Apply(now)) => Inv'
<1> SUFFICES ASSUME Inv, NEW now \in Times, Apply(now) PROVE Inv'
  OBVIOUS
<1> USE DEF Inv
<1> DEFINE ack == [ev |-> "applied"]
           b == Head(toApply)
<1>1. /\ toApply # <<>>
      /\ store' = [e \in Entity |-> Applied(b, e, now)]
      /\ toApply' = Tail(toApply)
      /\ chan' = Append(chan, ack)
      /\ UNCHANGED <<ckpt, coreVars, cmds, engine, staged, cloud, left>>
  BY DEF Apply
<1>2. /\ b \in Batch /\ toApply' \in Seq(Batch)
      /\ Len(toApply') = Len(toApply) - 1 /\ Len(toApply) \in Nat
  BY <1>1, HeadTailProperties, LenProperties DEF TypeOK
<1>3. chan' \in Seq(Event) /\ Cardinality(Acks(chan')) = Cardinality(Acks(chan)) + 1
  BY <1>1, AcksAppend DEF TypeOK
<1>4. Cardinality(Acks(chan)) \in Nat
  BY AcksFinite DEF TypeOK
<1> HIDE DEF b, ack
<1>5. ASSUME NEW e \in Entity
      PROVE  Applied(b, e, now) \in Stored
  <2> DEFINE recs == {x \in b.recs : x.e = e}
             r == (CHOOSE x \in recs : TRUE).rec
  <2>1. store[e] \in Stored /\ now \in Nat
    BY MacAssumption DEF TypeOK
  <2>2. CASE recs # {}
    <3>1. (CHOOSE x \in recs : TRUE) \in Fetched
      BY <1>2, <2>2 DEF Batch
    <3>2. r \in CloudRecord /\ r.val # None
      BY <3>1 DEF Fetched
    <3>3. Applied(b, e, now) = ApplyRecord(e, store[e], r, now)
      BY <2>2 DEF Applied
    <3> HIDE DEF r
    <3> QED
      BY <2>1, <3>2, <3>3, ApplyRecordStored
  <2>3. CASE recs = {}
    BY <2>1, <2>3, ApplyDeletionStored DEF Applied
  <2> QED
    BY <2>2, <2>3
<1>6. store' \in [Entity -> Stored]
  BY <1>1, <1>5
<1>7. TypeOK'
  BY <1>1, <1>2, <1>3, <1>6 DEF TypeOK, coreVars
<1>8. Counted'
  <2>1. unapplied' = unapplied
    BY <1>1 DEF coreVars
  <2> QED
    BY <1>2, <1>3, <1>4, <2>1 DEF Counted
<1>9. OneUpload'
  <2>1. inflight' = inflight
    BY <1>1 DEF coreVars
  <2> QED
    BY <2>1 DEF OneUpload
<1> QED
  BY <1>7, <1>8, <1>9

-----------------------------------------------------------------------------
(* The theorems.                                                            *)

(* Every step keeps the invariant.                                          *)
LEMMA NextInv == Inv /\ [Next]_vars => Inv'
<1>1. Inv /\ UNCHANGED vars => Inv'
  BY DEF Inv, TypeOK, Counted, OneUpload, vars, coreVars, pathVars
<1> QED
  BY <1>1, UsersInv, TimersInv, HandlersInv, BridgeInv, LaunchInv, CrashInv, ApplyInv
     DEF Next

(* So it always holds.                                                      *)
THEOREM Invariance == Spec => []Inv
  BY InitInv, NextInv, PTL DEF Spec

(* Every variable always has its type, whatever the entities, the clocks    *)
(* and the bounds.                                                          *)
THEOREM Typed == Spec => []TypeOK
<1>1. Inv => TypeOK
  BY DEF Inv
<1> QED
  BY <1>1, Invariance, PTL

(* No entity ever has two uploads under way (`busy` in `pump`).             *)
THEOREM NeverTwoUploads == Spec => []OneUpload
<1>1. Inv => OneUpload
  BY DEF Inv
<1> QED
  BY <1>1, Invariance, PTL

(* The core's count of batches not applied (`unapplied`) is exact: batches  *)
(* that wait at the host and acknowledgements on their way, no more and no  *)
(* fewer, so that `flush_state` is not misled.                              *)
THEOREM AllCounted == Spec => []Counted
<1>1. Inv => Counted
  BY DEF Inv
<1> QED
  BY <1>1, Invariance, PTL

(* Only three handlers move the checkpoint on disk: one clears it, and the  *)
(* others are those that flush.                                             *)
LEMMA CheckpointMoves ==
    ASSUME Next, ckpt' # ckpt
    PROVE  OnState \/ OnFetchComplete \/ OnApplied \/ ckpt' = NoPosition
<1>1. Users => ckpt' = ckpt
  BY DEF Users, Edit, OldBuildWrites, PeerSaves, PeerDeletes
<1>2. Timers => ckpt' = ckpt
  BY DEF Timers, Tick, RequestSync, Poll, RetryDue, HoldOver
<1>3. Handlers => ckpt' = ckpt \/ OnState \/ OnFetchComplete \/ OnApplied \/ ckpt' = NoPosition
  BY DEF Handlers, OnFetched, OnError, OnExpired, OnSent, OnSendFailed
<1>4. Bridge => ckpt' = ckpt
  BY DEF Bridge, EngineStart, EngineFetch, EngineFetchFails, EngineExpires, EngineSend,
         EngineSendThrows
<1>5. (\E away \in BOOLEAN : Launch(away)) \/ Crash \/ (\E now \in Times : Apply(now))
        => ckpt' = ckpt
  BY DEF Launch, Crash, Apply
<1> QED
  BY <1>1, <1>2, <1>3, <1>4, <1>5 DEF Next

(* Flushing moves the checkpoint only when the core counts no batch.        *)
LEMMA FlushWaits ==
    ASSUME NEW waiting, NEW pending, NEW completed,
           FlushState(waiting, pending, completed), ckpt' # ckpt
    PROVE  ~(waiting > 0)
  BY DEF FlushState

(* A checkpoint is saved only when every batch fetched before it has been   *)
(* applied (`flush_state`), whatever is fetched, refused, edited or applied *)
(* in between: the count that flush_state looks at is exact.                *)
THEOREM CheckpointSafe == Spec => CheckpointAfterApply
<1> DEFINE Moves == ckpt' # ckpt /\ ~ckpt'.nil
<1>1. ASSUME Inv, Next, Moves
      PROVE  toApply = <<>>
  <2>1. OnState \/ OnFetchComplete \/ OnApplied
    <3>1. ckpt' # NoPosition
      BY <1>1 DEF NoPosition
    <3> QED
      BY <1>1, <3>1, CheckpointMoves
  <2>2. /\ toApply \in Seq(Batch) /\ Len(toApply) \in Nat
        /\ Cardinality(Acks(chan)) \in Nat
        /\ unapplied = Len(toApply) + Cardinality(Acks(chan))
    BY <1>1, LenProperties, AcksFinite DEF Inv, TypeOK, Counted
  <2>3. CASE OnState \/ OnFetchComplete
    <3>1. ~(unapplied > 0)
      BY <1>1, <2>3, FlushWaits DEF OnState, OnFetchComplete
    <3>2. Len(toApply) = 0
      BY <2>2, <3>1
    <3> QED
      BY <2>2, <3>2, EmptySeq
  <2>4. CASE OnApplied
    <3>1. Handles("applied") /\ FlushState(unapplied - 1, pendingState, fetchCompleted)
      BY <2>4 DEF OnApplied
    <3>2. ~(unapplied - 1 > 0)
      BY <1>1, <3>1, FlushWaits
    <3>3. Cardinality(Acks(chan)) - 1 \in Nat
      <4>1. TypeOK
        BY <1>1 DEF Inv
      <4> QED
        BY <3>1, <4>1, HandlesTyped
    <3>4. Len(toApply) = 0
      BY <2>2, <3>2, <3>3
    <3> QED
      BY <2>2, <3>4, EmptySeq
  <2> QED
    BY <2>1, <2>3, <2>4
<1>2. Inv /\ [Next]_vars => [Moves => toApply = <<>>]_vars
  BY <1>1
<1> QED
  BY <1>2, Invariance, PTL DEF Spec, CheckpointAfterApply
-----------------------------------------------------------------------------
(* The gate for deletes.                                                    *)

(* A fetch that ran to its end is reported in c; every position in c is     *)
(* followed by such a report.                                               *)
Ends(c) == \E k \in DOMAIN c : c[k].ev = "complete"
Paged(c) ==
    \A k \in DOMAIN c : c[k].ev = "state" => \E l \in DOMAIN c : k < l /\ c[l].ev = "complete"

(* Without interrupted fetches whatever opens the gate came with such a     *)
(* report, which the core has seen or will see.                             *)
Gate ==
    /\ caughtUp \/ pendingState # None => fetchCompleted \/ Ends(chan)
    /\ Paged(chan)

LEMMA PairConcat ==
    ASSUME NEW S, NEW a \in S, NEW b \in S, NEW z \in S
    PROVE  <<>> \o <<z>> = <<z>> /\ <<a, b>> \o <<z>> = <<a, b, z>>
<1>1. <<a, b>> \in Seq(S) /\ <<z>> \in Seq(S)
  OBVIOUS
<1>2. <<a, b, z>> = Append(<<a, b>>, z)
  OBVIOUS
<1> QED
  BY <1>1, <1>2, ConcatEmptySeq, AppendIsConcat

LEMMA EndsTail ==
    ASSUME NEW c \in Seq(Event), c # <<>>
    PROVE  /\ Ends(c) => Head(c).ev = "complete" \/ Ends(Tail(c))
           /\ Paged(c) => Paged(Tail(c))
           /\ Paged(c) /\ Head(c).ev = "state" => Ends(Tail(c))
           /\ Head(c).ev = "complete" => Ends(c)
           /\ Ends(Tail(c)) => Ends(c)
<1>1. /\ Len(c) \in Nat \ {0} /\ DOMAIN c = 1 .. Len(c) /\ DOMAIN Tail(c) = 1 .. Len(c) - 1
      /\ \A k \in DOMAIN Tail(c) : Tail(c)[k] = c[k + 1]
      /\ Head(c) = c[1]
  BY HeadTailProperties, LenProperties, EmptySeq
<1>2. \A k \in DOMAIN c : k # 1 => k - 1 \in DOMAIN Tail(c) /\ Tail(c)[k - 1] = c[k]
  BY <1>1
<1>3. \A k \in DOMAIN Tail(c) : k + 1 \in DOMAIN c /\ Tail(c)[k] = c[k + 1]
  BY <1>1
<1>4. Ends(c) => Head(c).ev = "complete" \/ Ends(Tail(c))
  BY <1>1, <1>2 DEF Ends
<1>5. ASSUME Paged(c), NEW k \in DOMAIN Tail(c), Tail(c)[k].ev = "state"
      PROVE  \E l \in DOMAIN Tail(c) : k < l /\ Tail(c)[l].ev = "complete"
  <2>1. PICK l \in DOMAIN c : k + 1 < l /\ c[l].ev = "complete"
    BY <1>3, <1>5 DEF Paged
  <2>2. l - 1 \in DOMAIN Tail(c) /\ Tail(c)[l - 1].ev = "complete" /\ k < l - 1
    BY <1>1, <1>2, <2>1
  <2> QED
    BY <2>2
<1>6. ASSUME Paged(c), Head(c).ev = "state" PROVE Ends(Tail(c))
  <2>1. PICK l \in DOMAIN c : 1 < l /\ c[l].ev = "complete"
    BY <1>1, <1>6 DEF Paged
  <2>2. l - 1 \in DOMAIN Tail(c) /\ Tail(c)[l - 1].ev = "complete"
    BY <1>1, <1>2, <2>1
  <2> QED
    BY <2>2 DEF Ends
<1>7. (Head(c).ev = "complete" => Ends(c)) /\ (Ends(Tail(c)) => Ends(c))
  BY <1>1, <1>3 DEF Ends
<1> QED
  BY <1>4, <1>5, <1>6, <1>7 DEF Paged

LEMMA EndsConcat ==
    ASSUME NEW c \in Seq(Event), NEW d \in Seq(Event)
    PROVE  /\ Ends(c) => Ends(c \o d)
           /\ Paged(c) /\ Paged(d) => Paged(c \o d)
<1> DEFINE s == c \o d
<1>1. /\ Len(c) \in Nat /\ Len(d) \in Nat
      /\ DOMAIN c = 1 .. Len(c) /\ DOMAIN d = 1 .. Len(d) /\ DOMAIN s = 1 .. Len(c) + Len(d)
      /\ \A k \in DOMAIN s : s[k] = IF k <= Len(c) THEN c[k] ELSE d[k - Len(c)]
  BY ConcatProperties, LenProperties
<1> HIDE DEF s
<1>2. \A k \in DOMAIN c : k \in DOMAIN s /\ s[k] = c[k]
  BY <1>1
<1>3. \A k \in DOMAIN d : k + Len(c) \in DOMAIN s /\ s[k + Len(c)] = d[k]
  BY <1>1
<1>4. Ends(c) => Ends(s)
  BY <1>2 DEF Ends
<1>5. ASSUME Paged(c), Paged(d), NEW k \in DOMAIN s, s[k].ev = "state"
      PROVE  \E l \in DOMAIN s : k < l /\ s[l].ev = "complete"
  <2>1. CASE k <= Len(c)
    BY <1>1, <1>2, <1>5, <2>1 DEF Paged
  <2>2. CASE ~(k <= Len(c))
    <3>1. k - Len(c) \in DOMAIN d /\ d[k - Len(c)].ev = "state"
      BY <1>1, <1>5, <2>2
    <3>2. PICK l \in DOMAIN d : k - Len(c) < l /\ d[l].ev = "complete"
      BY <1>5, <3>1 DEF Paged
    <3>3. l + Len(c) \in DOMAIN s /\ s[l + Len(c)].ev = "complete" /\ k < l + Len(c)
      BY <1>1, <1>3, <3>2
    <3> QED
      BY <3>3
  <2> QED
    BY <2>1, <2>2
<1> QED
  BY <1>4, <1>5 DEF Paged, s

(* The bridge's events keep the gate.                                       *)
LEMMA GateEmits ==
    ASSUME TypeOK, Gate, NEW d \in Seq(Event), Paged(d), chan' = chan \o d,
           UNCHANGED <<caughtUp, pendingState, fetchCompleted>>
    PROVE  Gate'
<1>1. chan \in Seq(Event)
  BY DEF TypeOK
<1> QED
  BY <1>1, EndsConcat DEF Gate

(* A handler keeps it if what it opens was reported.                        *)
LEMMA GateHandles ==
    ASSUME TypeOK, Gate, NEW kind, Handles(kind),
           kind = "complete" => fetchCompleted',
           kind # "complete" => fetchCompleted' = fetchCompleted,
           caughtUp' \/ pendingState' # None =>
             caughtUp \/ pendingState # None \/ fetchCompleted \/ kind \in {"state", "complete"}
    PROVE  Gate'
<1>1. chan \in Seq(Event) /\ chan # <<>> /\ Head(chan).ev = kind /\ chan' = Tail(chan)
  BY DEF TypeOK, Handles
<1> QED
  BY <1>1, EndsTail DEF Gate

(* `pump` hands over a delete only through the gate.                        *)
LEMMA PumpDeletes ==
    ASSUME NEW st, NEW flying \in SUBSET inflight, NEW again, NEW caught, NEW out,
           Pump(st, flying, again, caught, out), StoreAssumption,
           \A e \in Entity : st[e] \in Stored
    PROVE  Deleting(inflight') \subseteq Deleting(inflight) \/ caught
<1> DEFINE due == IF sendHold THEN {} ELSE {e \in Entity : Due(e, st[e], flying, caught)}
           lost == {e \in due : Vanished(st[e])}
           changes == {Build(e, st[e]) : e \in due \ lost}
           new == {[e |-> c.e, q |-> c.q, val |-> c.val] : c \in changes}
<1>1. inflight' = flying \cup new
  BY DEF Pump
<1>2. \A i \in new : \E e \in due \ lost :
         i = [e |-> e, q |-> Build(e, st[e]).q, val |-> Build(e, st[e]).val]
  BY DEF Build
<1>3. ASSUME NEW i \in new, i.val = None PROVE caught
  <2>1. PICK e \in due \ lost : i.val = Build(e, st[e]).val
    BY <1>2
  <2>2. st[e].op = "delete"
    <3>1. st[e].op \in {"upsert", "delete"}
      BY DEF Due, Stored
    <3> QED
      BY <1>3, <2>1, <3>1 DEF Build, Vanished
  <2> QED
    BY <2>2 DEF Due
<1> HIDE DEF new
<1> QED
  BY <1>1, <1>3 DEF Deleting

(* What was due to be deleted, and that it may be, when a handler ends.     *)
Waited ==
    Deleting(inflight') \subseteq Deleting(inflight) \/ fetchCompleted' \/ Ends(chan)

LEMMA UsersGate == TypeOK /\ Gate /\ Users => Gate' /\ Waited
<1>1. Users => UNCHANGED <<coreVars, pathVars>>
  BY Zenon DEF Users, Edit, OldBuildWrites, PeerSaves, PeerDeletes
<1> QED
  BY <1>1 DEF Gate, Waited, coreVars, pathVars

LEMMA TimersGate == TypeOK /\ Gate /\ Timers => Gate' /\ Waited
<1> SUFFICES ASSUME TypeOK, Gate, Timers PROVE Gate' /\ Waited
  OBVIOUS
<1>0. \A e \in Entity : store[e] \in Stored
  BY DEF TypeOK
<1>1. ASSUME NEW now \in Times, Tick(now) PROVE Gate' /\ Waited
  <2> DEFINE st == [e \in Entity |-> IF reconcileNeeded THEN Reconcile(store[e], now) ELSE store[e]]
  <2>1. /\ Pump(st, inflight, FALSE, caughtUp, cmds)
        /\ UNCHANGED <<caughtUp, pendingState, fetchCompleted, chan>>
    BY <1>1 DEF Tick
  <2>2. \A e \in Entity : st[e] \in Stored
    BY <1>0, ReconcileStored, MacAssumption
  <2> HIDE DEF st
  <2>3. Deleting(inflight') \subseteq Deleting(inflight) \/ caughtUp
    <3> DEFINE again == FALSE
    <3>1. Pump(st, inflight, again, caughtUp, cmds)
      BY <2>1
    <3> HIDE DEF again
    <3> QED
      BY <2>2, <3>1, PumpDeletes, StoreAssumption
  <2> QED
    BY <2>1, <2>3 DEF Gate, Waited
<1>2. ASSUME NEW overdue \in BOOLEAN, RequestSync(overdue) PROVE Gate' /\ Waited
  <2>1. /\ Pump(store, inflight, TRUE, caughtUp, WithFetch(cmds, overdue))
        /\ UNCHANGED <<caughtUp, pendingState, fetchCompleted, chan>>
    BY <1>2 DEF RequestSync
  <2>2. Deleting(inflight') \subseteq Deleting(inflight) \/ caughtUp
    <3> DEFINE again == TRUE
               out == WithFetch(cmds, overdue)
    <3>1. Pump(store, inflight, again, caughtUp, out)
      BY <2>1
    <3> HIDE DEF again, out
    <3> QED
      BY <1>0, <3>1, PumpDeletes, StoreAssumption
  <2> QED
    BY <2>1, <2>2 DEF Gate, Waited
<1>3. ASSUME \/ \E overdue \in BOOLEAN : Poll(overdue)
             \/ \E e \in Entity : RetryDue(e)
             \/ HoldOver
      PROVE  Gate' /\ Waited
  <2>1. UNCHANGED <<inflight, caughtUp, pendingState, fetchCompleted, chan>>
    BY <1>3, Zenon DEF Poll, RetryDue, HoldOver, coreVars, pathVars
  <2> QED
    BY <2>1 DEF Gate, Waited
<1> QED
  BY <1>1, <1>2, <1>3 DEF Timers

LEMMA HandlersGate == TypeOK /\ Gate /\ Handlers => Gate' /\ (OnSendFailed \/ Waited)
<1> SUFFICES ASSUME TypeOK, Gate, Handlers PROVE Gate' /\ (OnSendFailed \/ Waited)
  OBVIOUS
<1>0. \A e \in Entity : store[e] \in Stored
  BY DEF TypeOK
<1>1. \A kind : Handles(kind) =>
        /\ chan \in Seq(Event) /\ chan # <<>>
        /\ kind \in {"state", "complete"} => Ends(chan)
  <2> SUFFICES ASSUME NEW kind, Handles(kind)
               PROVE  /\ chan \in Seq(Event) /\ chan # <<>>
                      /\ kind \in {"state", "complete"} => Ends(chan)
    OBVIOUS
  <2>1. chan \in Seq(Event) /\ chan # <<>> /\ Head(chan).ev = kind
    BY DEF Handles, TypeOK
  <2> QED
    BY <2>1, EndsTail DEF Gate
<1>2. ASSUME NEW kind, kind \notin {"state", "complete"}, Handles(kind),
             NEW st, \A e \in Entity : st[e] \in Stored, NEW flying \in SUBSET inflight,
             UNCHANGED <<fetchCompleted, caughtUp, pendingState>>,
             Pump(st, flying, reconcileNeeded, caughtUp, cmds)
      PROVE  Gate' /\ Waited
  <2>1. Gate'
    BY <1>2, GateHandles
  <2>2. Deleting(inflight') \subseteq Deleting(inflight) \/ caughtUp
    BY <1>2, PumpDeletes, StoreAssumption
  <2> QED
    BY <1>2, <2>1, <2>2 DEF Gate, Waited
<1>3. ASSUME OnFetched \/ OnError PROVE Gate' /\ Waited
  <2>1. /\ Handles("fetched") \/ Handles("error")
        /\ UNCHANGED <<fetchCompleted, caughtUp, pendingState>>
        /\ Pump(store, inflight, reconcileNeeded, caughtUp, cmds)
    BY <1>3 DEF OnFetched, OnError
  <2> QED
    BY <1>0, <1>2, <2>1
<1>4. ASSUME OnSent PROVE Gate' /\ Waited
  <2> DEFINE results == Head(chan).results
             Result1(e) == CHOOSE r \in results : r.e = e
             st == [e \in Entity |-> IF e \in EntriesOf(results)
                                     THEN Answered(store[e], Result1(e)) ELSE store[e]]
             flying == {i \in inflight : \A r \in results : i \notin Sent(r)}
  <2>1. /\ Handles("sent")
        /\ UNCHANGED <<fetchCompleted, caughtUp, pendingState>>
        /\ Pump(st, flying, reconcileNeeded, caughtUp, cmds)
    BY <1>4 DEF OnSent
  <2>2. results \subseteq Result
    <3>1. Head(chan) \in Event /\ Head(chan).ev = "sent"
      BY <2>1, HandlesTyped
    <3> QED
      BY <3>1, EventTyped DEF FiniteSubset
  <2>3. \A e \in Entity : st[e] \in Stored
    <3> SUFFICES ASSUME NEW e \in Entity PROVE st[e] \in Stored
      OBVIOUS
    <3>1. CASE e \in EntriesOf(results)
      <4>1. Result1(e) \in Result
        BY <2>2, <3>1 DEF EntriesOf
      <4> HIDE DEF Result1
      <4> QED
        BY <1>0, <3>1, <4>1, AnsweredTyped
    <3> QED
      BY <1>0, <3>1
  <2> HIDE DEF st
  <2> QED
    BY <1>2, <2>1, <2>3
<1>5. ASSUME OnState PROVE Gate' /\ Waited
  <2> DEFINE caught == CaughtUp(unapplied, Head(chan).at, fetchCompleted)
  <2>1. /\ Handles("state") /\ fetchCompleted' = fetchCompleted
        /\ Pump(store, inflight, reconcileNeeded, caught, cmds)
    BY <1>5 DEF OnState
  <2> QED
    BY <1>1, <2>1, GateHandles DEF Waited
<1>6. ASSUME OnFetchComplete PROVE Gate' /\ Waited
  <2>1. Handles("complete") /\ fetchCompleted' = TRUE
    BY <1>6 DEF OnFetchComplete
  <2> QED
    BY <2>1, GateHandles DEF Waited
<1>7. ASSUME OnExpired PROVE Gate' /\ Waited
  <2>1. /\ Handles("expired") /\ pendingState' = None /\ caughtUp' = FALSE
        /\ Pump(store, inflight, reconcileNeeded, FALSE,
                cmds \o << [cmd |-> "start", at |-> NoPosition], [cmd |-> "fetch"] >>)
    BY <1>7 DEF OnExpired
  <2>2. Paged(chan')
    BY <1>1, <2>1, EndsTail DEF Handles, Gate
  <2>3. Deleting(inflight') \subseteq Deleting(inflight) \/ FALSE
    BY <1>0, <2>1, PumpDeletes, StoreAssumption
  <2> QED
    BY <2>1, <2>2, <2>3 DEF Gate, Waited
<1>8. ASSUME OnApplied PROVE Gate' /\ Waited
  <2> DEFINE st == [e \in Entity |-> Release(store[e])]
             caught == CaughtUp(unapplied - 1, pendingState, fetchCompleted)
  <2>1. /\ Handles("applied") /\ fetchCompleted' = fetchCompleted
        /\ FlushState(unapplied - 1, pendingState, fetchCompleted)
        /\ Pump(st, inflight, reconcileNeeded, caught, cmds)
    BY <1>8 DEF OnApplied
  <2>2. \A e \in Entity : st[e] \in Stored
    BY <1>0 DEF Release, Stored
  <2>3. caught => caughtUp \/ fetchCompleted \/ pendingState # None
    BY DEF CaughtUp
  <2>4. caughtUp' = caught /\ (pendingState' # None => pendingState # None)
    BY <2>1 DEF FlushState
  <2> HIDE DEF st, caught
  <2>5. Deleting(inflight') \subseteq Deleting(inflight) \/ caught
    BY <2>1, <2>2, PumpDeletes, StoreAssumption
  <2>6. Gate'
    BY <2>1, <2>3, <2>4, GateHandles
  <2> QED
    BY <2>1, <2>3, <2>5, <2>6 DEF Gate, Waited
<1>9. ASSUME OnSendFailed PROVE Gate'
  <2>1. Handles("sendfailed") /\ UNCHANGED <<fetchCompleted, caughtUp, pendingState>>
    BY <1>9 DEF OnSendFailed
  <2> QED
    BY <2>1, GateHandles
<1> QED
  BY <1>3, <1>4, <1>5, <1>6, <1>7, <1>8, <1>9 DEF Handlers

LEMMA BridgeGate ==
    ASSUME "fetch" \notin Faults, TypeOK, Gate, Bridge
    PROVE  Gate' /\ Waited
<1>1. Waited
  BY DEF Bridge, EngineStart, EngineFetch, EngineFetchFails, EngineExpires, EngineSend,
         EngineSendThrows, Waited, coreVars
<1>2. UNCHANGED <<caughtUp, pendingState, fetchCompleted>>
  BY DEF Bridge, EngineStart, EngineFetch, EngineFetchFails, EngineExpires, EngineSend,
         EngineSendThrows, coreVars
<1>3. ASSUME EngineStart PROVE Gate'
  BY <1>2, <1>3 DEF EngineStart, Gate
<1>4. ASSUME EngineFetch PROVE Gate'
  <2>1. /\ engine # None
        /\ \/ chan' = chan \o (<<>> \o << [ev |-> "complete"] >>)
           \/ chan' = chan \o (<< FetchedPage(Changed), StateAt(Entity) >> \o << [ev |-> "complete"] >>)
    BY <1>4 DEF EngineFetch, Emits
  <2>2. /\ FetchedPage(Changed) \in Event /\ StateAt(Entity) \in Event
        /\ FetchedPage(Changed).ev = "fetched" /\ [ev |-> "complete"] \in Event
    BY <2>1, PageTyped DEF Changed, Event
  <2> DEFINE a == FetchedPage(Changed)
             b == StateAt(Entity)
             z == [ev |-> "complete"]
  <2>3. z.ev = "complete"
    OBVIOUS
  <2> HIDE DEF a, b, z
  <2>4. a \in Event /\ b \in Event /\ z \in Event
    BY <2>2 DEF a, b, z
  <2>5. PICK d \in {<<z>>, <<a, b, z>>} : chan' = chan \o d
    <3>1. <<>> \o <<z>> = <<z>> /\ <<a, b>> \o <<z>> = <<a, b, z>>
      BY <2>4, PairConcat
    <3> QED
      BY <2>1, <3>1 DEF a, b, z
  <2>6. a.ev # "state"
    BY <2>2 DEF a
  <2>7. Paged(<<z>>) /\ Paged(<<a, b, z>>)
    <3>1. \A k \in DOMAIN <<a, b, z>> : k < 3 \/ k = 3
      OBVIOUS
    <3>2. 3 \in DOMAIN <<a, b, z>> /\ <<a, b, z>>[3] = z
      OBVIOUS
    <3>3. \A k \in DOMAIN <<z>> : <<z>>[k] = z
      OBVIOUS
    <3> QED
      BY <2>3, <3>1, <3>2, <3>3 DEF Paged
  <2>8. d \in Seq(Event) /\ Paged(d)
    <3>1. <<z>> \in Seq(Event)
      BY <2>4
    <3>2. <<a, b, z>> \in Seq(Event)
      BY <2>4
    <3> QED
      BY <2>5, <2>7, <3>1, <3>2
  <2> QED
    BY <1>2, <2>5, <2>8, GateEmits
<1>5. ~\E page \in SUBSET Entity : EngineFetchFails(page)
  BY DEF EngineFetchFails, Fault
<1>6. ASSUME EngineExpires PROVE Gate'
  <2>1. chan' = chan \o << [ev |-> "expired"] >> /\ << [ev |-> "expired"] >> \in Seq(Event)
    BY <1>6 DEF EngineExpires, Emits, Event
  <2>2. Paged(<< [ev |-> "expired"] >>)
    BY DEF Paged
  <2> QED
    BY <1>2, <2>1, <2>2, GateEmits
<1>7. ASSUME NEW flaky \in SUBSET Entity, NEW told \in SUBSET Entity, EngineSend(flaky, told)
      PROVE  Gate'
  <2> DEFINE answer(c) == IF c.e \in flaky THEN NoAnswer(c) ELSE Answer(c)
             results == {answer(c) : c \in Restaged}
  <2>1. chan' = chan \o << [ev |-> "sent", results |-> results] >> /\ Runs("send")
    BY <1>7 DEF EngineSend, Emits
  <2>2. results \in SUBSET Result /\ IsFiniteSet(results)
    <3>1. Restaged \in SUBSET Change /\ IsFiniteSet(Restaged)
      BY <2>1, RestagedTyped
    <3>2. \A c \in Restaged : Answer(c) \in Result /\ NoAnswer(c) \in Result
      BY <3>1, AnswerTyped
    <3>3. IsFiniteSet(results)
      <4> DEFINE f == [c \in Restaged |-> answer(c)]
      <4>1. f \in Surjection(Restaged, results)
        BY DEF Surjection
      <4> QED
        BY <3>1, <4>1, FS_Surjection
    <3> QED
      BY <3>2, <3>3
  <2> HIDE DEF results
  <2>3. << [ev |-> "sent", results |-> results] >> \in Seq(Event)
    BY <2>2 DEF Event, FiniteSubset
  <2>4. Paged(<< [ev |-> "sent", results |-> results] >>)
    BY DEF Paged
  <2> QED
    BY <1>2, <2>1, <2>3, <2>4, GateEmits
<1>8. ASSUME NEW landed \in SUBSET Entity, EngineSendThrows(landed) PROVE Gate'
  <2>1. chan' = chan \o << [ev |-> "sendfailed"] >> /\ << [ev |-> "sendfailed"] >> \in Seq(Event)
    BY <1>8 DEF EngineSendThrows, Emits, Event
  <2>2. Paged(<< [ev |-> "sendfailed"] >>)
    BY DEF Paged
  <2> QED
    BY <1>2, <2>1, <2>2, GateEmits
<1> QED
  BY <1>1, <1>3, <1>4, <1>5, <1>6, <1>7, <1>8 DEF Bridge

LEMMA OthersGate ==
    ASSUME TypeOK, Gate, \/ \E away \in BOOLEAN : Launch(away)
                         \/ Crash \/ \E now \in Times : Apply(now)
    PROVE  Gate' /\ Waited
<1>1. ASSUME NEW away \in BOOLEAN, Launch(away) PROVE Gate' /\ Waited
  <2> DEFINE at == IF away THEN NoPosition ELSE ckpt
             out == << [cmd |-> "start", at |-> at], [cmd |-> "fetch"] >>
  <2>1. /\ UNCHANGED <<fetchCompleted, caughtUp, pendingState, chan>>
        /\ Pump(store, {}, TRUE, FALSE, out)
    BY <1>1 DEF Launch
  <2>2. \A e \in Entity : store[e] \in Stored
    BY DEF TypeOK
  <2>3. Deleting(inflight') \subseteq Deleting(inflight) \/ FALSE
    BY <2>1, <2>2, PumpDeletes, StoreAssumption
  <2> QED
    BY <2>1, <2>3 DEF Gate, Waited
<1>2. ASSUME Crash PROVE Gate' /\ Waited
  BY <1>2 DEF Crash, Gate, Waited, Deleting, Paged
<1>3. ASSUME NEW now \in Times, Apply(now) PROVE Gate' /\ Waited
  <2>1. /\ chan' = Append(chan, [ev |-> "applied"]) /\ chan \in Seq(Event)
        /\ UNCHANGED <<inflight, fetchCompleted, caughtUp, pendingState>>
    BY <1>3 DEF Apply, coreVars, TypeOK
  <2>2. << [ev |-> "applied"] >> \in Seq(Event) /\ Paged(<< [ev |-> "applied"] >>)
    BY DEF Paged, Event
  <2>3. chan' = chan \o << [ev |-> "applied"] >>
    BY <2>1, AppendIsConcat, <2>2
  <2> QED
    BY <2>1, <2>2, <2>3, GateEmits DEF Waited
<1> QED
  BY <1>1, <1>2, <1>3

(* If no fetch is interrupted, a delete is handed to the bridge only after  *)
(* a fetch of this session has run to its end ("A delete is never sent      *)
(* before the session has completed a fetch"): through crashes, expired     *)
(* checkpoints, stuck fetches and failed sends.  With an interrupted fetch  *)
(* it is not so (README, section 7).                                        *)
THEOREM DeletesGated ==
    ASSUME "fetch" \notin Faults
    PROVE  Spec => DeletesWaitForFetch
<1>1. Init => Gate
  BY DEF Init, Gate, Paged
<1>2. TypeOK /\ Gate /\ [Next]_vars => Gate'
  <2>1. Gate /\ UNCHANGED vars => Gate'
    BY DEF Gate, vars, coreVars, pathVars
  <2> QED
    BY <2>1, UsersGate, TimersGate, HandlersGate, BridgeGate, OthersGate DEF Next
<1>3. TypeOK /\ Gate /\ [Next]_vars =>
        [Deleting(inflight') \subseteq Deleting(inflight)
         \/ fetchCompleted' \/ \E k \in DOMAIN chan : chan[k].ev = "complete"]_vars
  <2>1. OnSendFailed => Waited
    BY DEF OnSendFailed, Waited, Deleting
  <2> QED
    BY <2>1, UsersGate, TimersGate, HandlersGate, BridgeGate, OthersGate
       DEF Next, Waited, Ends
<1> QED
  BY <1>1, <1>2, <1>3, Typed, PTL DEF Spec, DeletesWaitForFetch

-----------------------------------------------------------------------------
(* The uploads on their way, where no send fails as a whole.                *)

Offers(m) == IF m.cmd = "send" THEN m.changes ELSE {}
Answers(m) == IF m.ev = "sent" THEN m.results ELSE {}

(* The core knows of each upload that is on its way and of each answer,     *)
(* of which there is one for an entity.                                     *)
Matched(flying, out, c) ==
    /\ \A k \in DOMAIN out : \A x \in Offers(out[k]) :
           [e |-> x.e, q |-> x.q, val |-> x.val] \in flying
    /\ \A k \in DOMAIN c : \A r \in Answers(c[k]) :
           \E i \in flying : i.e = r.e /\ i.q = r.q /\ (r.kind = "saved" => r.rec.val = i.val)

Single(out, c) ==
    /\ \A k, l \in DOMAIN out : \A x \in Offers(out[k]), y \in Offers(out[l]) :
           x.e = y.e => k = l /\ x = y
    /\ \A k, l \in DOMAIN c : \A x \in Answers(c[k]), y \in Answers(c[l]) :
           x.e = y.e => k = l /\ x = y
    /\ \A k \in DOMAIN out, l \in DOMAIN c : \A x \in Offers(out[k]), y \in Answers(c[l]) :
           x.e # y.e

Paired(flying, out, c) == Matched(flying, out, c) /\ Single(out, c)

(* `pump` offers what is not under way.                                     *)
LEMMA PumpPaired ==
    ASSUME NEW st, NEW flying, NEW again, NEW caught, NEW out \in Seq(Command), NEW c,
           Paired(flying, out, c), Pump(st, flying, again, caught, out)
    PROVE  Paired(inflight', cmds', c)
<1> DEFINE due == IF sendHold THEN {} ELSE {e \in Entity : Due(e, st[e], flying, caught)}
           lost == {e \in due : Vanished(st[e])}
           changes == {Build(e, st[e]) : e \in due \ lost}
           new == {[e |-> x.e, q |-> x.q, val |-> x.val] : x \in changes}
           send == [cmd |-> "send", changes |-> changes]
<1>1. /\ inflight' = flying \cup new
      /\ cmds' = IF changes = {} THEN out ELSE Append(out, send)
  BY DEF Pump
<1>2. \A e \in due : e \notin EntriesOf(flying)
  BY DEF Due
<1>3. \A x \in changes : \E e \in due \ lost : x = Build(e, st[e]) /\ x.e = e
  BY DEF Build
<1>4. \A x \in changes : x.e \notin EntriesOf(flying) /\ x = Build(x.e, st[x.e])
  BY <1>2, <1>3
<1> HIDE DEF due, lost, changes
<1>5. Offers(send) = changes
  BY DEF Offers
<1>6. \A x \in changes : [e |-> x.e, q |-> x.q, val |-> x.val] \in inflight'
  BY <1>1
<1> HIDE DEF new, send
<1>7. /\ Len(out) \in Nat /\ DOMAIN out = 1 .. Len(out)
      /\ \A k \in DOMAIN cmds' :
            \/ k \in DOMAIN out /\ cmds'[k] = out[k]
            \/ k = Len(out) + 1 /\ cmds'[k] = send
  BY <1>1, AppendProperties, LenProperties
<1>8. ASSUME NEW k \in DOMAIN out, NEW x \in Offers(out[k]) PROVE x.e \in EntriesOf(flying)
  <2>1. PICK i \in flying : i = [e |-> x.e, q |-> x.q, val |-> x.val]
    BY DEF Paired, Matched
  <2>2. i.e = x.e
    BY <2>1
  <2> QED
    BY <2>2 DEF EntriesOf
<1>9. \A k \in DOMAIN c : \A r \in Answers(c[k]) : r.e \in EntriesOf(flying)
  BY DEF Paired, Matched, EntriesOf
<1>10. Matched(inflight', cmds', c)
  <2>1. \A k \in DOMAIN cmds' : \A x \in Offers(cmds'[k]) :
           [e |-> x.e, q |-> x.q, val |-> x.val] \in inflight'
    BY <1>1, <1>5, <1>6, <1>7 DEF Paired, Matched
  <2>2. flying \subseteq inflight'
    BY <1>1
  <2> QED
    BY <2>1, <2>2 DEF Paired, Matched
<1>11. ASSUME NEW k \in DOMAIN cmds', NEW l \in DOMAIN cmds',
              NEW x \in Offers(cmds'[k]), NEW y \in Offers(cmds'[l]), x.e = y.e
       PROVE  k = l /\ x = y
  <2>1. CASE k \in DOMAIN out /\ cmds'[k] = out[k] /\ l \in DOMAIN out /\ cmds'[l] = out[l]
    BY <1>11, <2>1 DEF Paired, Single
  <2>2. CASE k = Len(out) + 1 /\ cmds'[k] = send /\ l = Len(out) + 1 /\ cmds'[l] = send
    <3>1. x \in changes /\ y \in changes
      BY <1>5, <2>2
    <3> QED
      BY <1>4, <1>11, <2>2, <3>1
  <2>3. CASE k \in DOMAIN out /\ cmds'[k] = out[k] /\ l = Len(out) + 1 /\ cmds'[l] = send
    <3>1. x.e \in EntriesOf(flying) /\ y \in changes
      BY <1>5, <1>8, <2>3
    <3> QED
      BY <1>4, <1>11, <3>1
  <2>4. CASE l \in DOMAIN out /\ cmds'[l] = out[l] /\ k = Len(out) + 1 /\ cmds'[k] = send
    <3>1. y.e \in EntriesOf(flying) /\ x \in changes
      BY <1>5, <1>8, <2>4
    <3> QED
      BY <1>4, <1>11, <3>1
  <2> QED
    BY <1>7, <2>1, <2>2, <2>3, <2>4
<1>12. ASSUME NEW k \in DOMAIN cmds', NEW l \in DOMAIN c,
              NEW x \in Offers(cmds'[k]), NEW y \in Answers(c[l])
       PROVE  x.e # y.e
  <2>1. CASE k \in DOMAIN out /\ cmds'[k] = out[k]
    BY <2>1 DEF Paired, Single
  <2>2. CASE cmds'[k] = send
    BY <1>4, <1>5, <1>9, <2>2
  <2> QED
    BY <1>7, <2>1, <2>2
<1>13. Single(cmds', c)
  BY <1>11, <1>12 DEF Paired, Single
<1> QED
  BY <1>10, <1>13 DEF Paired

(* An event other than an answer is taken off or added.                     *)
LEMMA PairedMail ==
    ASSUME NEW flying, NEW out, NEW c \in Seq(Event), Paired(flying, out, c)
    PROVE  /\ c # <<>> => Paired(flying, out, Tail(c))
           /\ \A n \in Seq(Event) : (\A k \in DOMAIN n : Answers(n[k]) = {}) =>
                 Paired(flying, out, c \o n)
<1>1. ASSUME NEW d, NEW f, \A k \in DOMAIN d : \/ Answers(d[k]) = {}
                                               \/ f[k] \in DOMAIN c /\ d[k] = c[f[k]],
             \A k, l \in DOMAIN d : f[k] = f[l] => k = l
      PROVE  Paired(flying, out, d)
  <2>1. Matched(flying, out, d)
    BY <1>1 DEF Paired, Matched
  <2>2. Single(out, d)
    BY <1>1 DEF Paired, Single
  <2> QED
    BY <2>1, <2>2 DEF Paired
<1>2. ASSUME c # <<>> PROVE Paired(flying, out, Tail(c))
  <2> DEFINE d == Tail(c)
             f == [k \in DOMAIN d |-> k + 1]
  <2>1. /\ Len(c) \in Nat \ {0} /\ DOMAIN c = 1 .. Len(c) /\ DOMAIN d = 1 .. Len(c) - 1
        /\ \A k \in DOMAIN d : d[k] = c[k + 1]
    BY <1>2, HeadTailProperties, LenProperties, EmptySeq
  <2>2. \A k \in DOMAIN d : f[k] \in DOMAIN c /\ d[k] = c[f[k]]
    BY <2>1
  <2>3. \A k, l \in DOMAIN d : f[k] = f[l] => k = l
    BY <2>1
  <2> HIDE DEF d, f
  <2>4. Paired(flying, out, d)
    BY <1>1, <2>2, <2>3
  <2> QED
    BY <2>4 DEF d
<1>3. ASSUME NEW n \in Seq(Event), \A k \in DOMAIN n : Answers(n[k]) = {}
      PROVE  Paired(flying, out, c \o n)
  <2> DEFINE d == c \o n
             f == [k \in DOMAIN d |-> k]
  <2>1. /\ Len(c) \in Nat /\ Len(n) \in Nat
        /\ DOMAIN c = 1 .. Len(c) /\ DOMAIN n = 1 .. Len(n) /\ DOMAIN d = 1 .. Len(c) + Len(n)
        /\ \A k \in DOMAIN d : d[k] = IF k <= Len(c) THEN c[k] ELSE n[k - Len(c)]
    BY ConcatProperties, LenProperties
  <2>2. ASSUME NEW k \in DOMAIN d
        PROVE  Answers(d[k]) = {} \/ (f[k] \in DOMAIN c /\ d[k] = c[f[k]])
    <3>1. CASE k <= Len(c)
      BY <2>1, <3>1
    <3>2. CASE ~(k <= Len(c))
      <4>1. k - Len(c) \in DOMAIN n /\ d[k] = n[k - Len(c)]
        BY <2>1, <3>2
      <4> QED
        BY <1>3, <4>1
    <3> QED
      BY <3>1, <3>2
  <2>3. \A k, l \in DOMAIN d : f[k] = f[l] => k = l
    OBVIOUS
  <2> HIDE DEF d, f
  <2>4. Paired(flying, out, d)
    BY <1>1, <2>2, <2>3
  <2> QED
    BY <2>4 DEF d
<1> QED
  BY <1>2, <1>3

(* The bridge takes a command.                                              *)
LEMMA PairedTaken ==
    ASSUME NEW flying, NEW out \in Seq(Command), out # <<>>, NEW c, Paired(flying, out, c)
    PROVE  /\ Paired(flying, Tail(out), c)
           /\ \A k \in DOMAIN Tail(out) : \A x \in Offers(Tail(out)[k]) :
                 \A y \in Offers(Head(out)) : x.e # y.e
<1> DEFINE d == Tail(out)
<1>1. /\ Len(out) \in Nat \ {0} /\ DOMAIN out = 1 .. Len(out) /\ DOMAIN d = 1 .. Len(out) - 1
      /\ \A k \in DOMAIN d : d[k] = out[k + 1]
      /\ Head(out) = out[1] /\ 1 \in DOMAIN out
  BY HeadTailProperties, LenProperties, EmptySeq
<1> HIDE DEF d
<1>2. \A k \in DOMAIN d : k + 1 \in DOMAIN out /\ d[k] = out[k + 1] /\ k + 1 # 1
  BY <1>1
<1>3. Matched(flying, d, c)
  BY <1>2 DEF Paired, Matched
<1>4. Single(d, c)
  <2>1. ASSUME NEW k \in DOMAIN d, NEW l \in DOMAIN d,
               NEW x \in Offers(d[k]), NEW y \in Offers(d[l]), x.e = y.e
        PROVE  k = l /\ x = y
    <3>1. /\ k + 1 \in DOMAIN out /\ l + 1 \in DOMAIN out
          /\ x \in Offers(out[k + 1]) /\ y \in Offers(out[l + 1])
      BY <1>2
    <3>2. k + 1 = l + 1 /\ x = y
      BY <2>1, <3>1 DEF Paired, Single
    <3> QED
      BY <1>1, <3>2
  <2> QED
    BY <1>2, <2>1 DEF Paired, Single
<1>5. ASSUME NEW k \in DOMAIN d, NEW x \in Offers(d[k]), NEW y \in Offers(Head(out))
      PROVE  x.e # y.e
  <2>1. k + 1 \in DOMAIN out /\ x \in Offers(out[k + 1]) /\ y \in Offers(out[1]) /\ k + 1 # 1
    BY <1>1, <1>2
  <2> QED
    BY <1>1, <2>1 DEF Paired, Single
<1> QED
  BY <1>3, <1>4, <1>5 DEF Paired, d

(* A command that offers nothing is added.                                  *)
LEMMA PairedAsked ==
    ASSUME NEW flying, NEW out \in Seq(Command), NEW c, NEW m,
           Paired(flying, out, c), Offers(m) = {}
    PROVE  Paired(flying, Append(out, m), c)
<1> DEFINE d == Append(out, m)
<1>1. \A k \in DOMAIN d : (k \in DOMAIN out /\ d[k] = out[k]) \/ Offers(d[k]) = {}
  BY AppendProperties, LenProperties
<1> HIDE DEF d
<1>2. Matched(flying, d, c)
  BY <1>1 DEF Paired, Matched
<1>3. Single(d, c)
  BY <1>1 DEF Paired, Single
<1> QED
  BY <1>2, <1>3 DEF Paired, d

(* The answers of one send are taken off the channel, and the uploads they  *)
(* answer are under way no more.                                            *)
LEMMA PairedAnswered ==
    ASSUME NEW flying, NEW out, NEW c \in Seq(Event), c # <<>>, Paired(flying, out, c),
           NEW f \in SUBSET flying,
           \A i \in flying : (\A r \in Answers(Head(c)) : r.e # i.e) => i \in f
    PROVE  Paired(f, out, Tail(c))
<1> DEFINE d == Tail(c)
<1>1. /\ Len(c) \in Nat \ {0} /\ DOMAIN c = 1 .. Len(c) /\ DOMAIN d = 1 .. Len(c) - 1
      /\ \A k \in DOMAIN d : d[k] = c[k + 1]
      /\ Head(c) = c[1] /\ 1 \in DOMAIN c
  BY HeadTailProperties, LenProperties, EmptySeq
<1>2. \A k \in DOMAIN d : k + 1 \in DOMAIN c /\ d[k] = c[k + 1] /\ k + 1 # 1
  BY <1>1
<1>3. Paired(flying, out, d)
  BY PairedMail
<1> HIDE DEF d
<1>4. ASSUME NEW k \in DOMAIN out, NEW x \in Offers(out[k])
      PROVE  [e |-> x.e, q |-> x.q, val |-> x.val] \in f
  <2> DEFINE i == [e |-> x.e, q |-> x.q, val |-> x.val]
  <2>1. i \in flying /\ i.e = x.e
    BY DEF Paired, Matched
  <2>2. \A r \in Answers(Head(c)) : r.e # x.e
    BY <1>1 DEF Paired, Single
  <2> HIDE DEF i
  <2>3. i \in f
    BY <2>1, <2>2
  <2> QED
    BY <2>3 DEF i
<1>5. ASSUME NEW k \in DOMAIN d, NEW y \in Answers(d[k])
      PROVE  \E i \in f : i.e = y.e /\ i.q = y.q /\ (y.kind = "saved" => y.rec.val = i.val)
  <2>1. PICK i \in flying : i.e = y.e /\ i.q = y.q /\ (y.kind = "saved" => y.rec.val = i.val)
    BY <1>3 DEF Paired, Matched
  <2>2. \A r \in Answers(Head(c)) : r.e # y.e
    <3>1. k + 1 \in DOMAIN c /\ y \in Answers(c[k + 1]) /\ k + 1 # 1
      BY <1>2
    <3> QED
      BY <1>1, <3>1 DEF Paired, Single
  <2> QED
    BY <2>1, <2>2
<1>6. Matched(f, out, d)
  BY <1>4, <1>5 DEF Matched
<1> QED
  BY <1>3, <1>6 DEF Paired, d

(* The bridge answers one send.                                             *)
LEMMA PairedSent ==
    ASSUME NEW flying, NEW out, NEW c \in Seq(Event), NEW m \in Event,
           Paired(flying, out, c),
           \A r \in Answers(m) :
               \E i \in flying : i.e = r.e /\ i.q = r.q /\ (r.kind = "saved" => r.rec.val = i.val),
           \A r, y \in Answers(m) : r.e = y.e => r = y,
           \A k \in DOMAIN out : \A x \in Offers(out[k]), r \in Answers(m) : x.e # r.e,
           \A k \in DOMAIN c : \A y \in Answers(c[k]), r \in Answers(m) : y.e # r.e
    PROVE  Paired(flying, out, Append(c, m))
<1> DEFINE d == Append(c, m)
<1>1. /\ Len(c) \in Nat /\ DOMAIN c = 1 .. Len(c)
      /\ \A k \in DOMAIN d : \/ k \in DOMAIN c /\ d[k] = c[k]
                             \/ k = Len(c) + 1 /\ d[k] = m
  BY AppendProperties, LenProperties
<1> HIDE DEF d
<1>2. Matched(flying, out, d)
  BY <1>1 DEF Paired, Matched
<1>3. ASSUME NEW k \in DOMAIN d, NEW l \in DOMAIN d,
             NEW x \in Answers(d[k]), NEW y \in Answers(d[l]), x.e = y.e
      PROVE  k = l /\ x = y
  <2>1. CASE k \in DOMAIN c /\ d[k] = c[k] /\ l \in DOMAIN c /\ d[l] = c[l]
    BY <1>3, <2>1 DEF Paired, Single
  <2>2. CASE k = Len(c) + 1 /\ d[k] = m /\ l = Len(c) + 1 /\ d[l] = m
    BY <1>3, <2>2
  <2>3. CASE \/ k \in DOMAIN c /\ d[k] = c[k] /\ d[l] = m
             \/ l \in DOMAIN c /\ d[l] = c[l] /\ d[k] = m
    BY <1>3, <2>3
  <2> QED
    BY <1>1, <2>1, <2>2, <2>3
<1>4. ASSUME NEW k \in DOMAIN out, NEW l \in DOMAIN d,
             NEW x \in Offers(out[k]), NEW y \in Answers(d[l])
      PROVE  x.e # y.e
  BY <1>1 DEF Paired, Single
<1>5. Single(out, d)
  BY <1>3, <1>4 DEF Paired, Single
<1> QED
  BY <1>2, <1>5 DEF Paired, d

-----------------------------------------------------------------------------
(* Deletions made elsewhere: what is stored about an entity, where users    *)
(* of this Mac delete nothing.                                              *)

(* What was deleted is not synced and not queued; nothing is queued for a   *)
(* row that is missing, and one that is missing was deleted or never known. *)
Steady(s) ==
    /\ s.op # "delete"
    /\ s.gone => s.synced = None /\ s.op = "none"
    /\ s.row = None => s.op = "none" /\ (s.known => s.gone)

(* A queued upload stays queued, and what is not synced stays so.           *)
Queued(s, t) == Steady(t) /\ (s.op = "upsert" => t.op = "upsert")
Still(s, t) == Queued(s, t) /\ t.synced = s.synced

(* Queuing an upload of a row that is there.                                *)
LEMMA SteadyQueue ==
    ASSUME NEW s \in Stored, NEW t \in Nat, s.row # None, s.gone => s.synced = None
    PROVE  Still(s, QueueUpsert(s, t)) /\ QueueUpsert(s, t).op = "upsert"
<1> DEFINE w == [s EXCEPT !.known = TRUE, !.rev = @ + 1, !.gone = FALSE]
           u == Queue(w, "upsert", t)
<1>1. /\ w.row = s.row /\ w.synced = s.synced /\ w.gone = FALSE
      /\ DOMAIN w = DOMAIN s
  BY DEF Stored
<1>2. /\ u.row = w.row /\ u.synced = w.synced /\ u.gone = w.gone /\ u.op = "upsert"
  <2> HIDE DEF w
  <2> QED
    BY <1>1 DEF Queue, Stored
<1>3. QueueUpsert(s, t) = u
  BY DEF QueueUpsert
<1> HIDE DEF u, w
<1> QED
  BY <1>1, <1>2, <1>3 DEF Steady, Still, Queued

(* The user's edit.                                                         *)
LEMMA SteadyEdit ==
    ASSUME NEW s \in Stored, NEW v \in Payload, NEW t \in Nat, Steady(s)
    PROVE  /\ Still(s, Write(s, v, t))
           /\ Still(s, [s EXCEPT !.row = v])
<1> DEFINE u == [s EXCEPT !.row = v]
<1>1. v # None
  BY StoreAssumption
<1>2. /\ u \in Stored /\ u.row = v /\ u.synced = s.synced /\ u.gone = s.gone /\ u.op = s.op
  BY DEF Stored
<1>3. Write(s, v, t) = IF v = s.row THEN s ELSE IF Matches(s, v) THEN u ELSE QueueUpsert(u, t)
  BY <1>1 DEF Write
<1> HIDE DEF u
<1>4. Still(u, QueueUpsert(u, t)) /\ QueueUpsert(u, t).op = "upsert"
  BY <1>1, <1>2, SteadyQueue DEF Steady
<1>5. Still(s, u) /\ Still(s, s)
  BY <1>1, <1>2 DEF Still, Queued, Steady
<1>6. Still(s, QueueUpsert(u, t))
  BY <1>2, <1>4 DEF Still, Queued
<1> QED
  BY <1>3, <1>5, <1>6 DEF u

(* The pass that queues what differs.                                       *)
LEMMA SteadyReconcile ==
    ASSUME NEW s \in Stored, NEW t \in Nat, Steady(s)
    PROVE  Still(s, Reconcile(s, t))
<1>1. ~NeedsDelete(s)
  BY DEF NeedsDelete, Steady
<1>2. CASE NeedsUpsert(s)
  BY <1>2, SteadyQueue DEF Reconcile, NeedsUpsert, Steady
<1>3. CASE ~NeedsUpsert(s)
  BY <1>1, <1>3 DEF Reconcile, Still, Queued
<1> QED
  BY <1>2, <1>3

(* An upload may be tried again.                                            *)
LEMMA SteadyWait ==
    ASSUME NEW s \in Stored, Steady(s)
    PROVE  Still(s, [s EXCEPT !.wait = "now"]) /\ Still(s, Release(s)) /\ Still(s, s)
<1> DEFINE u == [s EXCEPT !.wait = "now"]
<1>1. /\ u.row = s.row /\ u.synced = s.synced /\ u.gone = s.gone /\ u.op = s.op
      /\ u.known = s.known
  BY DEF Stored
<1>2. Release(s) = s \/ Release(s) = u
  BY DEF Release
<1> HIDE DEF u
<1>3. Still(s, u) /\ Still(s, s)
  BY <1>1 DEF Still, Queued, Steady
<1> QED
  BY <1>2, <1>3 DEF u

(* The apply layer takes a version over.                                    *)
LEMMA SteadyRecord ==
    ASSUME NEW e, NEW s \in Stored, NEW r \in CloudRecord, NEW now \in Nat, r.val # None,
           Steady(s)
    PROVE  Queued(s, ApplyRecord(e, s, r, now))
<1> DEFINE w == Link(e, s, r)
           v == MergedValue(e, s, r, now)
<1>1. w \in Stored /\ w.op = s.op /\ w.gone = FALSE /\ w.row = s.row
  BY DEF Link, Stored, CloudRecord, Larger
<1>2. v \in Payload
  <2>1. r.val \in Payload
    BY DEF CloudRecord
  <2>2. s.row # None => s.row \in Payload
    BY DEF Stored
  <2>3. s.row # None => Merge3(s.base, s.row, r.val) \in Payload
    BY <2>1, <2>2, MergedTyped DEF Merge3, Payload
  <2> QED
    BY <2>1, <2>2, <2>3 DEF MergedValue
<1>3. ApplyRecord(e, s, r, now) = IF Outdated(s, r) THEN s ELSE Write(w, v, now)
  BY DEF ApplyRecord
<1> HIDE DEF w, v
<1> DEFINE u == [w EXCEPT !.row = v]
<1>4. v # None
  BY <1>2, StoreAssumption
<1>5. u \in Stored /\ u.row = v /\ u.gone = FALSE /\ u.op = s.op
  BY <1>1, <1>2 DEF Stored
<1>6. Write(w, v, now) = IF v = w.row THEN w ELSE IF Matches(w, v) THEN u ELSE QueueUpsert(u, now)
  BY <1>4 DEF Write
<1> HIDE DEF u
<1>7. Still(u, QueueUpsert(u, now)) /\ QueueUpsert(u, now).op = "upsert"
  BY <1>4, <1>5, SteadyQueue
<1>8. Queued(s, QueueUpsert(u, now)) /\ Queued(s, u) /\ Queued(s, s)
  BY <1>4, <1>5, <1>7 DEF Still, Queued, Steady
<1>9. v = w.row => Queued(s, w)
  BY <1>1, <1>4 DEF Queued, Steady
<1> QED
  BY <1>3, <1>6, <1>8, <1>9

(* It takes a deletion over.                                                *)
LEMMA SteadyDeletion ==
    ASSUME NEW s \in Stored, NEW now \in Nat, Steady(s)
    PROVE  /\ Queued(s, ApplyDeletion(s, now))
           /\ ApplyDeletion(s, now).synced = None
<1> DEFINE w == Tombstone(s)
           f == ForgetSynced(s)
           c == Cancel(w)
           d == [c EXCEPT !.row = None]
<1>1. /\ w \in Stored /\ w.row = s.row /\ w.op = s.op /\ w.synced = None /\ w.gone = TRUE
  BY DEF Tombstone, Stored
<1>2. /\ f \in Stored /\ f.row = s.row /\ f.synced = None
  BY DEF ForgetSynced, Stored
<1> HIDE DEF w, f
<1>3. /\ c \in Stored /\ c.op = "none" /\ c.synced = None /\ c.gone = TRUE
  BY <1>1 DEF Cancel, Stored
<1> HIDE DEF c
<1>4. /\ d.row = None /\ d.op = "none" /\ d.synced = None /\ d.gone = TRUE
  BY <1>3 DEF Stored
<1> HIDE DEF d
<1>5. ApplyDeletion(s, now) = IF s.row = None THEN w
                              ELSE IF EditedSince(s) THEN QueueUpsert(f, now) ELSE d
  BY DEF ApplyDeletion, w, f, c, d
<1>6. CASE s.row = None
  BY <1>1, <1>5, <1>6 DEF Queued, Steady
<1>7. CASE s.row # None /\ EditedSince(s)
  <2>1. Still(f, QueueUpsert(f, now)) /\ QueueUpsert(f, now).op = "upsert"
    BY <1>2, <1>7, SteadyQueue
  <2> QED
    BY <1>2, <1>5, <1>7, <2>1 DEF Queued, Still
<1>8. CASE s.row # None /\ ~EditedSince(s)
  BY <1>4, <1>5, <1>8 DEF Queued, Steady, EditedSince
<1> QED
  BY <1>6, <1>7, <1>8

(* The answer to an upload that is under way.                               *)
LEMMA SteadyAnswered ==
    ASSUME TypeOK, NEW s \in Stored, NEW r \in Result, Steady(s), s.op = "upsert"
    PROVE  /\ Steady(Answered(s, r))
           /\ r.kind \notin {"saved", "conflict"} => Answered(s, r).synced = s.synced
<1> DEFINE Alive(t) == t.gone = FALSE /\ t.row # None /\ t.op \in {"none", "upsert"}
<1>1. Alive(s) /\ s \in Stored
  BY DEF Steady, Stored
<1>2. \A t : Alive(t) => Steady(t)
  BY DEF Steady
<1>3. ASSUME NEW t \in Stored, Alive(t), NEW q
      PROVE  Alive(Unqueue(t, q)) /\ Unqueue(t, q).synced = t.synced
  BY <1>3 DEF Unqueue, Cancel, Stored
<1>4. ASSUME NEW t \in Stored, Alive(t), NEW w \in {"later", "merging"}
      PROVE  Alive(Fail(t, w)) /\ Fail(t, w).synced = t.synced
  BY <1>4 DEF Fail, Stored
<1>5. ASSUME NEW v \in {None} \cup Payload, NEW ver \in Nat, NEW q
      PROVE  Alive(AckSaved(s, q, v, ver))
  <2> DEFINE t == [s EXCEPT !.synced = v, !.tag = ver]
  <2>1. t \in Stored /\ Alive(t)
    BY <1>1, <1>5 DEF Stored
  <2>2. AckSaved(s, q, v, ver) = Unqueue(t, q)
    BY DEF AckSaved
  <2> HIDE DEF t, Alive
  <2> QED
    BY <1>3, <2>1, <2>2
<1>6. /\ r.rec.ver \in Nat /\ r.rec.val \in {None} \cup Payload /\ r.q \in Nat
      /\ r.kind \in {"saved", "deleted", "retry", "unknown", "conflict"}
  BY DEF Result, CloudRecord
<1>7. ASSUME r.kind = "saved" PROVE Alive(OnSaved(s, r))
  <2>1. CASE Sent(r) = {}
    <3>1. Alive([s EXCEPT !.tag = r.rec.ver])
      BY <1>1 DEF Stored
    <3> QED
      BY <2>1, <3>1 DEF OnSaved
  <2>2. CASE Sent(r) # {}
    <3> DEFINE i == CHOOSE i \in Sent(r) : TRUE
               acked == AckSaved(s, r.q, i.val, r.rec.ver)
    <3>1. i.val \in {None} \cup Payload
      BY <2>2 DEF Sent, TypeOK, Inflight
    <3>2. OnSaved(s, r) = IF r.e \in Combining THEN [acked EXCEPT !.base = i.val] ELSE acked
      BY <2>2 DEF OnSaved
    <3> HIDE DEF i
    <3>3. acked \in Stored /\ Alive(acked)
      BY <1>5, <1>6, <3>1, AckStored
    <3> HIDE DEF acked
    <3>4. Alive([acked EXCEPT !.base = i.val])
      BY <3>3 DEF Stored
    <3> QED
      BY <3>2, <3>3, <3>4
  <2> QED
    BY <2>1, <2>2
<1>8. ASSUME r.kind = "conflict" PROVE Alive(OnConflict(s, r))
  <2>1. Alive([s EXCEPT !.tag = r.rec.ver, !.wait = "now"])
    BY <1>1 DEF Stored
  <2>2. Alive(AckSaved(s, r.q, r.rec.val, r.rec.ver))
    BY <1>5, <1>6
  <2>3. Alive(Fail(s, "merging")) /\ Alive(Unqueue(s, r.q))
    BY <1>1, <1>3, <1>4
  <2> HIDE DEF Alive
  <2> QED
    BY <2>1, <2>2, <2>3 DEF OnConflict
<1>9. ASSUME r.kind \in {"retry", "unknown"}
      PROVE  Alive(OnFailure(s, r)) /\ OnFailure(s, r).synced = s.synced
  <2> DEFINE u == [s EXCEPT !.tag = 0, !.wait = "now"]
  <2>1. Alive(u) /\ u.synced = s.synced
    BY <1>1 DEF Stored
  <2>2. Alive(Fail(s, "later")) /\ Fail(s, "later").synced = s.synced
    BY <1>1, <1>4
  <2>3. OnFailure(s, r) \in {s, u, Fail(s, "later")}
    BY <1>9 DEF OnFailure
  <2> HIDE DEF Alive, u
  <2> QED
    BY <1>1, <2>1, <2>2, <2>3
<1>10. r.kind = "conflict" => Alive(OnFailure(s, r))
  BY <1>1, <1>8 DEF OnFailure
<1>11. Alive(AckDeleted(s, r.q)) /\ AckDeleted(s, r.q).synced = s.synced
  BY <1>1, <1>3 DEF AckDeleted
<1>12. Answered(s, r) = IF r.kind = "saved" THEN OnSaved(s, r)
                        ELSE IF r.kind = "deleted" THEN AckDeleted(s, r.q) ELSE OnFailure(s, r)
  BY <1>6 DEF Answered
<1> HIDE DEF Alive
<1> QED
  BY <1>2, <1>6, <1>7, <1>9, <1>10, <1>11, <1>12

-----------------------------------------------------------------------------
(* Deletions made elsewhere: what a position owes that has passed one.      *)

(* An event after which the entity may be synced again: it is listed, or    *)
(* an upload was accepted or refused.                                       *)
Syncs(e, m) ==
    \/ m.ev = "fetched" /\ e \in EntriesOf(m.recs)
    \/ m.ev = "sent" /\ \E r \in m.results : r.e = e /\ r.kind \in {"saved", "conflict"}

Marks(e, m) == m.ev = "fetched" /\ e \in m.dels

(* From the k-th batch and the j-th event on nothing syncs the entity.      *)
Silent(e, b, k, c, j) ==
    /\ \A l \in DOMAIN b : l >= k => e \notin EntriesOf(b[l].recs)
    /\ \A l \in DOMAIN c : l >= j => ~Syncs(e, c[l])

(* The entity is not synced, or a catch-up that has not listed it is about  *)
(* to end.                                                                  *)
Noted(e, s, seen, b, c) ==
    /\ Silent(e, b, 1, c, 1)
    /\ \/ s.synced = None
       \/ seen # None /\ e \notin seen /\ Ends(c)

(* A batch of what a catch-up found missing has no records.                 *)
CatchUpBatch(x) == x.recs = {} /\ "away" \in Faults

(* A deletion mark waits at the host; for a position on disk it counts only *)
(* in the batch of a catch-up, any other is applied before it is saved.     *)
MarkWaits(e, b, c, where) ==
    \E k \in DOMAIN b : /\ e \in b[k].dels /\ Silent(e, b, k, c, 1)
                        /\ where = "disk" => CatchUpBatch(b[k])

(* It comes among the first n events.                                       *)
MarkComes(e, b, c, n) ==
    \E j \in DOMAIN c : j <= n /\ Marks(e, c[j]) /\ Silent(e, b, Len(b) + 1, c, j)

(* What a position owes that has reached the deletion: n is how many events *)
(* come before it, where is "disk" for the checkpoint, "memory" otherwise.  *)
Owed(e, s, seen, b, c, n, where) ==
    \/ Noted(e, s, seen, b, c)
    \/ MarkWaits(e, b, c, where)
    \/ MarkComes(e, b, c, n)

(* Without anything on the way nothing is owed any more.                    *)
LEMMA OwedAtRest ==
    ASSUME NEW e, NEW s, NEW seen, NEW n, NEW where, Owed(e, s, seen, <<>>, <<>>, n, where)
    PROVE  s.synced = None
<1>1. DOMAIN <<>> = {}
  OBVIOUS
<1> QED
  BY <1>1 DEF Owed, Noted, MarkWaits, MarkComes, Ends

(* An operation of the store that syncs nothing; more events may come       *)
(* before the position; with no batch waiting it may be saved.             *)
LEMMA OwedStill ==
    ASSUME NEW e, NEW s, NEW t, NEW seen, NEW b \in Seq(Batch), NEW c, NEW n \in Nat,
           NEW m \in Nat, NEW where,
           s.synced = None => t.synced = None, n <= m, c \in Seq(Event),
           Owed(e, s, seen, b, c, n, where)
    PROVE  /\ Owed(e, t, seen, b, c, m, where)
           /\ Owed(e, t, seen, b, c, m, "memory")
           /\ b = <<>> => Owed(e, t, seen, b, c, m, "disk")
<1>1. Noted(e, s, seen, b, c) => Noted(e, t, seen, b, c)
  BY DEF Noted
<1>2. MarkComes(e, b, c, n) => MarkComes(e, b, c, m)
  <2>1. \A j \in DOMAIN c : j \in Nat
    BY LenProperties
  <2> QED
    BY <2>1 DEF MarkComes
<1>3. MarkWaits(e, b, c, where) => MarkWaits(e, b, c, "memory")
  BY DEF MarkWaits
<1>4. b = <<>> => ~MarkWaits(e, b, c, where)
  BY DEF MarkWaits
<1> QED
  BY <1>1, <1>2, <1>3, <1>4 DEF Owed

(* Events are added that sync nothing of the entity.                        *)
LEMMA OwedEmitted ==
    ASSUME NEW e, NEW s, NEW seen, NEW b \in Seq(Batch), NEW c \in Seq(Event),
           NEW d \in Seq(Event), NEW n \in Nat, NEW where,
           \A k \in DOMAIN d : ~Syncs(e, d[k]),
           Owed(e, s, seen, b, c, n, where)
    PROVE  Owed(e, s, seen, b, c \o d, n, where)
<1> DEFINE a == c \o d
<1>1. /\ Len(c) \in Nat /\ Len(d) \in Nat
      /\ DOMAIN c = 1 .. Len(c) /\ DOMAIN d = 1 .. Len(d) /\ DOMAIN a = 1 .. Len(c) + Len(d)
      /\ \A k \in DOMAIN a : a[k] = IF k <= Len(c) THEN c[k] ELSE d[k - Len(c)]
  BY ConcatProperties, LenProperties
<1>2. Ends(c) => Ends(a)
  BY EndsConcat
<1> HIDE DEF a
<1>3. \A k \in DOMAIN c : k \in DOMAIN a /\ a[k] = c[k]
  BY <1>1
<1>4. ASSUME NEW l \in DOMAIN a PROVE (l \in DOMAIN c /\ a[l] = c[l]) \/ ~Syncs(e, a[l])
  <2>1. CASE l <= Len(c)
    BY <1>1, <2>1
  <2>2. CASE ~(l <= Len(c))
    <3>1. l - Len(c) \in DOMAIN d /\ a[l] = d[l - Len(c)]
      BY <1>1, <2>2
    <3> QED
      BY <3>1
  <2> QED
    BY <2>1, <2>2
<1>5. ASSUME NEW k, NEW j, Silent(e, b, k, c, j) PROVE Silent(e, b, k, a, j)
  BY <1>4, <1>5 DEF Silent
<1>6. Noted(e, s, seen, b, c) => Noted(e, s, seen, b, a)
  BY <1>2, <1>5 DEF Noted, a
<1>7. MarkWaits(e, b, c, where) => MarkWaits(e, b, a, where)
  BY <1>5 DEF MarkWaits
<1>8. MarkComes(e, b, c, n) => MarkComes(e, b, a, n)
  BY <1>3, <1>5 DEF MarkComes
<1> QED
  BY <1>6, <1>7, <1>8 DEF Owed, a

(* A handler takes an event off the channel and hands batches over: a mark  *)
(* in it waits at the host then, and a catch-up that ends marks what it has *)
(* not listed.                                                              *)
LEMMA OwedTaken ==
    ASSUME NEW e, NEW s, NEW t, NEW seen, NEW after, NEW b \in Seq(Batch),
           NEW c \in Seq(Event), c # <<>>, NEW news \in Seq(Batch), NEW n \in Nat,
           NEW where, where = "disk" => n = 0,
           \A k \in DOMAIN news : e \in EntriesOf(news[k].recs) => Syncs(e, Head(c)),
           ~Syncs(e, Head(c)) /\ s.synced = None => t.synced = None,
           Marks(e, Head(c)) => \E k \in DOMAIN news : e \in news[k].dels,
           Head(c).ev = "complete" /\ seen # None /\ e \notin seen =>
               \/ t.synced = None
               \/ \E k \in DOMAIN news : CatchUpBatch(news[k]) /\ e \in news[k].dels,
           Head(c).ev # "complete" /\ seen # None /\ e \notin seen /\ ~Syncs(e, Head(c)) =>
               after # None /\ e \notin after,
           Owed(e, s, seen, b, c, n, where)
    PROVE  Owed(e, t, after, b \o news, Tail(c), IF n = 0 THEN 0 ELSE n - 1, where)
<1> DEFINE a == b \o news
           d == Tail(c)
           m == IF n = 0 THEN 0 ELSE n - 1
<1>1. /\ Len(b) \in Nat /\ Len(news) \in Nat /\ Len(a) = Len(b) + Len(news)
      /\ DOMAIN b = 1 .. Len(b) /\ DOMAIN news = 1 .. Len(news)
      /\ DOMAIN a = 1 .. Len(b) + Len(news)
      /\ \A k \in DOMAIN a : a[k] = IF k <= Len(b) THEN b[k] ELSE news[k - Len(b)]
  BY ConcatProperties, LenProperties
<1>2. /\ Len(c) \in Nat \ {0} /\ DOMAIN c = 1 .. Len(c) /\ DOMAIN d = 1 .. Len(c) - 1
      /\ \A k \in DOMAIN d : d[k] = c[k + 1]
      /\ Head(c) = c[1] /\ 1 \in DOMAIN c
  BY HeadTailProperties, LenProperties, EmptySeq
<1>3. Ends(c) => Head(c).ev = "complete" \/ Ends(d)
  BY EndsTail
<1> HIDE DEF a, d
<1>4. /\ \A k \in DOMAIN b : k \in DOMAIN a /\ a[k] = b[k]
      /\ \A k \in DOMAIN news : k + Len(b) \in DOMAIN a /\ a[k + Len(b)] = news[k]
  <2>1. \A k \in DOMAIN b : k \in DOMAIN a /\ a[k] = b[k]
    BY <1>1
  <2>2. ASSUME NEW k \in DOMAIN news
        PROVE  k + Len(b) \in DOMAIN a /\ a[k + Len(b)] = news[k]
    <3>1. /\ k + Len(b) \in DOMAIN a /\ ~(k + Len(b) <= Len(b))
          /\ (k + Len(b)) - Len(b) = k
      BY <1>1
    <3> QED
      BY <1>1, <3>1
  <2> QED
    BY <2>1, <2>2
<1>5. ASSUME NEW l \in DOMAIN a
      PROVE  \/ l \in DOMAIN b /\ a[l] = b[l]
             \/ l - Len(b) \in DOMAIN news /\ a[l] = news[l - Len(b)]
  <2>1. CASE l <= Len(b)
    BY <1>1, <2>1
  <2>2. CASE ~(l <= Len(b))
    BY <1>1, <2>2
  <2> QED
    BY <2>1, <2>2
<1>6. \A l \in DOMAIN d : l + 1 \in DOMAIN c /\ d[l] = c[l + 1]
  BY <1>2
<1>7. ASSUME NEW k \in Nat, Silent(e, b, k, c, 1)
      PROVE  Silent(e, a, k, d, 1) /\ ~Syncs(e, Head(c))
  <2>1. ~Syncs(e, Head(c))
    BY <1>2, <1>7 DEF Silent
  <2>2. \A l \in DOMAIN a : l >= k => e \notin EntriesOf(a[l].recs)
    BY <1>5, <1>7, <2>1 DEF Silent
  <2>3. \A l \in DOMAIN d : ~Syncs(e, d[l])
    BY <1>2, <1>6, <1>7 DEF Silent
  <2> QED
    BY <2>1, <2>2, <2>3 DEF Silent
<1>8. ASSUME NEW k \in DOMAIN news, e \in news[k].dels, NEW p \in Nat, p <= Len(b) + 1,
             Silent(e, a, p, d, 1), where = "disk" => CatchUpBatch(news[k])
      PROVE  MarkWaits(e, a, d, where)
  <2>1. k + Len(b) \in DOMAIN a /\ a[k + Len(b)] = news[k] /\ k + Len(b) >= p
    BY <1>1, <1>4, <1>8
  <2>2. Silent(e, a, k + Len(b), d, 1)
    <3>1. \A l \in DOMAIN a : l >= k + Len(b) => l >= p
      BY <1>1, <1>8, <2>1
    <3> QED
      BY <1>8, <3>1 DEF Silent
  <2> QED
    BY <1>8, <2>1, <2>2 DEF MarkWaits
<1>9. ASSUME Noted(e, s, seen, b, c) PROVE Owed(e, t, after, a, d, m, where)
  <2>1. Silent(e, a, 1, d, 1) /\ ~Syncs(e, Head(c))
    BY <1>7, <1>9 DEF Noted
  <2>2. CASE s.synced = None
    BY <2>1, <2>2 DEF Owed, Noted
  <2>3. CASE seen # None /\ e \notin seen /\ Ends(c) /\ Head(c).ev = "complete"
    <3>1. CASE t.synced = None
      BY <2>1, <3>1 DEF Owed, Noted
    <3>2. CASE \E k \in DOMAIN news : CatchUpBatch(news[k]) /\ e \in news[k].dels
      <4>1. PICK k \in DOMAIN news : CatchUpBatch(news[k]) /\ e \in news[k].dels
        BY <3>2
      <4>2. 1 \in Nat /\ 1 <= Len(b) + 1
        BY <1>1
      <4>3. MarkWaits(e, a, d, where)
        BY <1>8, <2>1, <4>1, <4>2
      <4> QED
        BY <4>3 DEF Owed
    <3> QED
      BY <2>3, <3>1, <3>2
  <2>4. CASE seen # None /\ e \notin seen /\ Ends(c) /\ Head(c).ev # "complete"
    BY <1>3, <2>1, <2>4 DEF Owed, Noted
  <2> QED
    BY <1>9, <2>2, <2>3, <2>4 DEF Noted
<1>10. ASSUME MarkWaits(e, b, c, where) PROVE MarkWaits(e, a, d, where)
  <2>1. PICK k \in DOMAIN b : /\ e \in b[k].dels /\ Silent(e, b, k, c, 1)
                              /\ where = "disk" => CatchUpBatch(b[k])
    BY <1>10 DEF MarkWaits
  <2>2. k \in Nat
    BY <1>1
  <2> QED
    BY <1>4, <1>7, <2>1, <2>2 DEF MarkWaits
<1>11. ASSUME MarkComes(e, b, c, n) PROVE Owed(e, t, after, a, d, m, where)
  <2>1. PICK j \in DOMAIN c : j <= n /\ Marks(e, c[j]) /\ Silent(e, b, Len(b) + 1, c, j)
    BY <1>11 DEF MarkComes
  <2>2. where # "disk" /\ n # 0 /\ m = n - 1
    BY <1>2, <2>1
  <2>3. CASE j = 1
    <3>1. Len(b) + 1 \in Nat /\ Silent(e, b, Len(b) + 1, c, 1)
      BY <1>1, <2>1, <2>3
    <3>2. Silent(e, a, Len(b) + 1, d, 1)
      BY <1>7, <3>1
    <3>3. PICK k \in DOMAIN news : e \in news[k].dels
      BY <1>2, <2>1, <2>3
    <3>4. MarkWaits(e, a, d, where)
      BY <1>1, <1>8, <2>2, <3>1, <3>2, <3>3
    <3> QED
      BY <3>4 DEF Owed
  <2>4. CASE j # 1
    <3>1. j - 1 \in DOMAIN d /\ d[j - 1] = c[j] /\ j - 1 <= m
      BY <1>2, <2>1, <2>2, <2>4
    <3>2. \A l \in DOMAIN a : ~(l >= Len(a) + 1)
      BY <1>1
    <3>3. \A l \in DOMAIN d : l >= j - 1 => l + 1 >= j
      BY <1>2
    <3>4. Silent(e, a, Len(a) + 1, d, j - 1)
      BY <1>6, <2>1, <3>2, <3>3 DEF Silent
    <3> QED
      BY <2>1, <3>1, <3>4 DEF Owed, MarkComes
  <2> QED
    BY <2>3, <2>4
<1> QED
  BY <1>9, <1>10, <1>11 DEF Owed, a, d

(* The app thread applies the oldest batch: a mark in it leaves the entity  *)
(* not synced.                                                              *)
LEMMA OwedApplied ==
    ASSUME NEW e, NEW s, NEW t, NEW seen, NEW b \in Seq(Batch), b # <<>>, NEW c \in Seq(Event),
           NEW n \in Nat, NEW where,
           e \notin EntriesOf(Head(b).recs) /\ (s.synced = None \/ e \in Head(b).dels) =>
               t.synced = None,
           Owed(e, s, seen, b, c, n, where)
    PROVE  Owed(e, t, seen, Tail(b), c, n, where)
<1> DEFINE a == Tail(b)
<1>1. /\ Len(b) \in Nat \ {0} /\ DOMAIN b = 1 .. Len(b) /\ DOMAIN a = 1 .. Len(b) - 1
      /\ \A k \in DOMAIN a : a[k] = b[k + 1]
      /\ Head(b) = b[1] /\ 1 \in DOMAIN b /\ Len(a) = Len(b) - 1
  BY HeadTailProperties, LenProperties, EmptySeq
<1> HIDE DEF a
<1>2. \A k \in DOMAIN a : k + 1 \in DOMAIN b /\ a[k] = b[k + 1] /\ k \in Nat
  BY <1>1
<1>3. ASSUME NEW k \in Nat, NEW j, Silent(e, b, k, c, j)
      PROVE  \A i \in Nat : i + 1 >= k => Silent(e, a, i, c, j)
  <2> SUFFICES ASSUME NEW i \in Nat, i + 1 >= k PROVE Silent(e, a, i, c, j)
    OBVIOUS
  <2>1. \A l \in DOMAIN a : l >= i => l + 1 >= k
    BY <1>2
  <2> QED
    BY <1>2, <1>3, <2>1 DEF Silent
<1>4. ASSUME Noted(e, s, seen, b, c) PROVE Noted(e, t, seen, a, c)
  <2>1. Silent(e, a, 1, c, 1)
    BY <1>3, <1>4 DEF Noted
  <2>2. e \notin EntriesOf(Head(b).recs)
    BY <1>1, <1>4 DEF Noted, Silent
  <2> QED
    BY <1>4, <2>1, <2>2 DEF Noted
<1>5. ASSUME MarkWaits(e, b, c, where) PROVE Owed(e, t, seen, a, c, n, where)
  <2>1. PICK k \in DOMAIN b : /\ e \in b[k].dels /\ Silent(e, b, k, c, 1)
                              /\ where = "disk" => CatchUpBatch(b[k])
    BY <1>5 DEF MarkWaits
  <2>2. CASE k = 1
    <3>1. e \notin EntriesOf(Head(b).recs) /\ e \in Head(b).dels
      BY <1>1, <2>1, <2>2 DEF Silent
    <3>2. Silent(e, a, 1, c, 1)
      BY <1>3, <2>1, <2>2
    <3> QED
      BY <3>1, <3>2 DEF Owed, Noted
  <2>3. CASE k # 1
    <3>1. k - 1 \in DOMAIN a /\ a[k - 1] = b[k] /\ k - 1 \in Nat /\ k \in Nat
      BY <1>1, <2>3
    <3>2. Silent(e, a, k - 1, c, 1)
      BY <1>3, <2>1, <3>1
    <3> QED
      BY <2>1, <3>1, <3>2 DEF Owed, MarkWaits
  <2> QED
    BY <2>2, <2>3
<1>6. ASSUME MarkComes(e, b, c, n) PROVE MarkComes(e, a, c, n)
  <2>1. PICK j \in DOMAIN c : j <= n /\ Marks(e, c[j]) /\ Silent(e, b, Len(b) + 1, c, j)
    BY <1>6 DEF MarkComes
  <2>2. Len(b) + 1 \in Nat /\ Len(a) + 1 \in Nat /\ (Len(a) + 1) + 1 >= Len(b) + 1
    BY <1>1
  <2>3. Silent(e, a, Len(a) + 1, c, j)
    BY <1>3, <2>1, <2>2
  <2> QED
    BY <2>1, <2>3 DEF MarkComes
<1> QED
  BY <1>4, <1>5, <1>6 DEF Owed, a

-----------------------------------------------------------------------------
(* Deletions made elsewhere: what this Mac stores and sends meanwhile.      *)

(* Only other Macs delete, no checkpoint expires and no send fails as a     *)
(* whole; an account too small to be spared by the guard of a catch-up.     *)
OthersDelete ==
    /\ Me \notin Deleters
    /\ Faults \subseteq {"away", "stuck", "record", "fetch"}
    /\ Cardinality(Entity) <= StaleLimit

SteadyRows(st) == \A e \in Entity : Steady(st[e])

(* Only upserts are under way, each still queued.                           *)
Going(flying, st) == \A i \in flying : i.val # None /\ st[i.e].op = "upsert"

Uploading == SteadyRows(store) /\ Going(inflight, store) /\ Paired(inflight, cmds, chan)

(* What the faults that are left out would bring about does not happen.     *)
Regular ==
    /\ staged = {} /\ engine # None /\ ~ckpt.nil
    /\ pendingState # None => ~pendingState.nil
    /\ \A k \in DOMAIN chan : /\ chan[k].ev \notin {"sendfailed", "expired"}
                              /\ chan[k].ev = "state" => ~chan[k].at.nil
    /\ staleSeen # None => "away" \in Faults

AtRest ==
    ~up => /\ cmds = <<>> /\ chan = <<>> /\ toApply = <<>> /\ inflight = {}
           /\ staleSeen = None /\ pendingState = None /\ engine.nil

(* The bridge starts the engine and lists everything before anything else.  *)
Beginning(out, seen) ==
    /\ out # <<>>
    /\ \/ /\ out[1].cmd = "start" /\ (out[1].at.nil => seen = {})
          /\ Len(out) > 1 /\ out[2].cmd = "fetch"
       \/ out[1].cmd = "fetch" /\ seen = {}

StartsFirst(out, nil) == \A k \in DOMAIN out : out[k].cmd = "start" => k = 1 /\ nil

Fresh ==
    /\ up /\ engine.nil => chan = <<>> /\ toApply = <<>> /\ Beginning(cmds, staleSeen)
    /\ StartsFirst(cmds, engine.nil)

Orderly == Uploading /\ Regular /\ AtRest /\ Fresh

(* A step that adds at most one command, which starts no engine.            *)
Adds(out, more) == \/ more = out
                   \/ \E m \in Command : m.cmd # "start" /\ more = Append(out, m)

(* Such a step keeps what is first among the commands first.                *)
LEMMA BeginningAdds ==
    ASSUME NEW out \in Seq(Command), NEW more, Adds(out, more), NEW seen, NEW nil
    PROVE  /\ Beginning(out, seen) => Beginning(more, seen)
           /\ StartsFirst(out, nil) => StartsFirst(more, nil)
<1>1. CASE more = out
  BY <1>1
<1>2. ASSUME NEW m \in Command, m.cmd # "start", more = Append(out, m)
      PROVE  /\ Beginning(out, seen) => Beginning(more, seen)
             /\ StartsFirst(out, nil) => StartsFirst(more, nil)
  <2>1. /\ Len(out) \in Nat /\ Len(more) = Len(out) + 1
        /\ DOMAIN out = 1 .. Len(out) /\ DOMAIN more = 1 .. Len(out) + 1
        /\ \A k \in DOMAIN out : more[k] = out[k]
        /\ more[Len(out) + 1] = m
        /\ out # <<>> => Len(out) > 0
    BY <1>2, AppendProperties, LenProperties, EmptySeq
  <2>2. ASSUME Beginning(out, seen) PROVE Beginning(more, seen)
    <3>1. 1 \in DOMAIN out /\ more[1] = out[1] /\ more # <<>>
      BY <1>2, <2>1, <2>2, AppendProperties DEF Beginning
    <3>2. Len(out) > 1 => Len(more) > 1 /\ more[2] = out[2]
      BY <2>1
    <3> QED
      BY <2>2, <3>1, <3>2 DEF Beginning
  <2>3. ASSUME StartsFirst(out, nil) PROVE StartsFirst(more, nil)
    <3>1. \A k \in DOMAIN more : k \in DOMAIN out \/ k = Len(out) + 1
      BY <2>1
    <3> QED
      BY <1>2, <2>1, <2>3, <3>1 DEF StartsFirst
  <2> QED
    BY <2>2, <2>3
<1> QED
  BY <1>1, <1>2 DEF Adds

(* The bridge takes a command.                                              *)
LEMMA BeginningTaken ==
    ASSUME NEW out \in Seq(Command), out # <<>>, NEW nil, StartsFirst(out, nil)
    PROVE  /\ \A k \in DOMAIN Tail(out) : Tail(out)[k].cmd # "start"
           /\ Head(out).cmd = "start" => nil
           /\ \A seen : Beginning(out, seen) =>
                 \/ /\ Head(out).cmd = "start" /\ (Head(out).at.nil => seen = {})
                    /\ Head(out).at.nil => Beginning(Tail(out), seen)
                 \/ Head(out).cmd = "fetch" /\ seen = {}
<1> DEFINE d == Tail(out)
<1>1. /\ Len(out) \in Nat \ {0} /\ DOMAIN out = 1 .. Len(out) /\ DOMAIN d = 1 .. Len(out) - 1
      /\ \A k \in DOMAIN d : d[k] = out[k + 1]
      /\ Head(out) = out[1] /\ 1 \in DOMAIN out
  BY HeadTailProperties, LenProperties, EmptySeq
<1> HIDE DEF d
<1>2. \A k \in DOMAIN d : d[k].cmd # "start"
  <2> SUFFICES ASSUME NEW k \in DOMAIN d PROVE d[k].cmd # "start"
    OBVIOUS
  <2>1. k + 1 \in DOMAIN out /\ k + 1 # 1 /\ d[k] = out[k + 1]
    BY <1>1
  <2> QED
    BY <2>1 DEF StartsFirst
<1>3. Head(out).cmd = "start" => nil
  BY <1>1 DEF StartsFirst
<1>4. ASSUME NEW seen, Beginning(out, seen), Head(out).cmd = "start", Head(out).at.nil
      PROVE  Beginning(d, seen)
  <2>1. Len(out) > 1 /\ out[2].cmd = "fetch" /\ seen = {}
    BY <1>1, <1>4 DEF Beginning
  <2>2. 1 \in DOMAIN d /\ d[1] = out[2]
    BY <1>1, <2>1
  <2>3. d # <<>>
    BY <2>2
  <2> QED
    BY <2>1, <2>2, <2>3 DEF Beginning
<1> QED
  BY <1>1, <1>2, <1>3, <1>4 DEF Beginning, d

(* `pump` changes no stored record and offers upserts only.                 *)
LEMMA PumpUploading ==
    ASSUME NEW st \in [Entity -> Stored], NEW flying \in SUBSET Inflight, NEW again,
           NEW caught, NEW out \in Seq(Command), NEW c, Pump(st, flying, again, caught, out),
           SteadyRows(st), Going(flying, st), Paired(flying, out, c)
    PROVE  /\ store' = st
           /\ SteadyRows(store') /\ Going(inflight', store') /\ Paired(inflight', cmds', c)
           /\ Adds(out, cmds')
<1> DEFINE due == IF sendHold THEN {} ELSE {e \in Entity : Due(e, st[e], flying, caught)}
           lost == {e \in due : Vanished(st[e])}
           changes == {Build(e, st[e]) : e \in due \ lost}
           send == [cmd |-> "send", changes |-> changes]
           new == {[e |-> x.e, q |-> x.q, val |-> x.val] : x \in changes}
<1>1. /\ store' = [e \in Entity |-> IF e \in lost THEN Cancel(st[e]) ELSE st[e]]
      /\ inflight' = flying \cup new
      /\ cmds' = IF changes = {} THEN out ELSE Append(out, send)
  BY DEF Pump
<1>2. lost = {}
  BY DEF Vanished, SteadyRows, Steady
<1>3. store' = st
  BY <1>1, <1>2
<1>4. \A e \in due : e \in Entity /\ st[e].op = "upsert" /\ st[e].row # None
  BY DEF Due, SteadyRows, Steady, Stored
<1>5. ASSUME NEW i \in new PROVE i.val # None /\ st[i.e].op = "upsert"
  <2>1. PICK e \in due : i = [e |-> e, q |-> Build(e, st[e]).q, val |-> Build(e, st[e]).val]
    BY <1>2 DEF Build
  <2>2. Build(e, st[e]).val = st[e].row
    BY <1>4 DEF Build
  <2> QED
    BY <1>4, <2>1, <2>2
<1> HIDE DEF new
<1>6. Going(inflight', st)
  BY <1>1, <1>5 DEF Going
<1>7. send \in Command /\ send.cmd # "start"
  <2>1. changes \in SUBSET Change
    BY BuildTyped
  <2>2. IsFiniteSet(changes)
    <3> DEFINE f == [e \in due \ lost |-> Build(e, st[e])]
    <3>1. IsFiniteSet(due \ lost)
      BY FS_Subset, MacAssumption
    <3>2. f \in Surjection(due \ lost, changes)
      BY DEF Surjection
    <3> QED
      BY <3>1, <3>2, FS_Surjection
  <2> HIDE DEF changes
  <2> QED
    BY <2>1, <2>2 DEF Command, FiniteSubset
<1> HIDE DEF send, changes
<1>8. Adds(out, cmds')
  BY <1>1, <1>7 DEF Adds
<1>9. Paired(inflight', cmds', c)
  BY PumpPaired
<1> QED
  BY <1>3, <1>6, <1>8, <1>9

(* What the steps leave alone, or do alike, that hand nothing on.           *)
Unsynced == \A e \in Entity : store[e].synced = None => store'[e].synced = None

Moves(z, w) == \A e \in Entity : w[e] = z[e] \/ w[e].ver > z[e].ver

OldStarts(out, more) ==
    \A k \in DOMAIN more : more[k].cmd = "start" => \E j \in DOMAIN out : more[k] = out[j]

Calm ==
    /\ UNCHANGED <<ckpt, pendingState, staleSeen, toApply, chan, engine>>
    /\ OldStarts(cmds, cmds') /\ Unsynced /\ Moves(cloud, cloud')

(* Nor does it add a start.                                                 *)
LEMMA AddsNoStart ==
    ASSUME NEW out \in Seq(Command), NEW more, Adds(out, more)
    PROVE  OldStarts(out, more) /\ more \in Seq(Command)
<1>1. CASE more = out
  BY <1>1 DEF OldStarts
<1>2. ASSUME NEW m \in Command, m.cmd # "start", more = Append(out, m)
      PROVE  OldStarts(out, more) /\ more \in Seq(Command)
  <2>1. /\ more \in Seq(Command)
        /\ \A k \in DOMAIN more : (k \in DOMAIN out /\ more[k] = out[k]) \/ more[k] = m
    BY <1>2, AppendProperties, LenProperties
  <2> QED
    BY <1>2, <2>1 DEF OldStarts
<1> QED
  BY <1>1, <1>2 DEF Adds

(* A step of the running core that leaves the channels to and from the host *)
(* and the bridge's engine alone.                                           *)
LEMMA CoreOrderly ==
    ASSUME Inv, Orderly, up, up' = up, NEW st \in [Entity -> Stored], NEW out,
           UNCHANGED <<ckpt, pendingState, staleSeen, toApply, chan, engine, staged, cloud>>,
           \A e \in Entity : Still(store[e], st[e]),
           Adds(cmds, out), out = cmds \/ out = Append(cmds, [cmd |-> "fetch"]),
           \/ store' = st /\ inflight' = inflight /\ cmds' = out
           \/ \E again, caught : Pump(st, inflight, again, caught, out)
    PROVE  Orderly' /\ Calm
<1>1. cmds \in Seq(Command) /\ inflight \in SUBSET Inflight
  BY DEF Inv, TypeOK
<1>2. out \in Seq(Command) /\ OldStarts(cmds, out)
  BY <1>1, AddsNoStart
<1>3. Paired(inflight, out, chan)
  <2>1. Offers([cmd |-> "fetch"]) = {}
    BY DEF Offers
  <2> QED
    BY <1>1, <2>1, PairedAsked DEF Orderly, Uploading
<1>4. SteadyRows(st) /\ Going(inflight, st)
  <2>1. \A i \in inflight : i.e \in Entity
    BY <1>1 DEF Inflight
  <2> QED
    BY <2>1 DEF Orderly, Uploading, SteadyRows, Going, Still, Queued
<1>5. /\ store' = st
      /\ SteadyRows(store') /\ Going(inflight', store') /\ Paired(inflight', cmds', chan)
      /\ Adds(out, cmds')
  <2>1. CASE store' = st /\ inflight' = inflight /\ cmds' = out
    BY <1>3, <1>4, <2>1 DEF Adds
  <2>2. ASSUME NEW again, NEW caught, Pump(st, inflight, again, caught, out)
        PROVE  /\ store' = st
               /\ SteadyRows(store') /\ Going(inflight', store') /\ Paired(inflight', cmds', chan)
               /\ Adds(out, cmds')
    BY <1>1, <1>2, <1>3, <1>4, <2>2, PumpUploading
  <2> QED
    BY <2>1, <2>2
<1>6. Uploading'
  BY <1>5 DEF Uploading, SteadyRows
<1>7. Regular' /\ AtRest'
  BY DEF Orderly, Regular, AtRest
<1>8. Fresh'
  <2>1. /\ Beginning(cmds, staleSeen) => Beginning(cmds', staleSeen)
        /\ StartsFirst(cmds, engine.nil) => StartsFirst(cmds', engine.nil)
    BY <1>1, <1>2, <1>5, BeginningAdds
  <2> QED
    BY <2>1 DEF Orderly, Fresh
<1>9. OldStarts(cmds, cmds')
  <2>1. OldStarts(out, cmds')
    BY <1>2, <1>5, AddsNoStart
  <2> QED
    BY <1>2, <2>1 DEF OldStarts
<1>10. Unsynced /\ Moves(cloud, cloud')
  BY <1>5 DEF Unsynced, Moves, Still
<1> QED
  BY <1>6, <1>7, <1>8, <1>9, <1>10 DEF Orderly, Calm

(* Users edit here and, elsewhere, delete too.                              *)
LEMMA UsersOrderly ==
    ASSUME Inv, Orderly, OthersDelete, Users
    PROVE  Orderly' /\ Calm
<1>1. /\ store \in [Entity -> Stored] /\ cloud \in [Entity -> CloudRecord]
      /\ cmds \in Seq(Command) /\ inflight \in SUBSET Inflight
  BY DEF Inv, TypeOK
<1>2. \A e \in Entity : Steady(store[e]) /\ store[e] \in Stored
  BY <1>1 DEF Orderly, Uploading, SteadyRows
<1>3. ASSUME NEW e \in Entity, NEW v \in {None} \cup Payload, MayBecome(Me, store[e].row, v)
      PROVE  v \in Payload
  BY <1>3 DEF MayBecome, OthersDelete
<1>4. ASSUME NEW f, NEW x \in Entity, Still(store[x], f), store' = [store EXCEPT ![x] = f],
             UNCHANGED <<ckpt, coreVars, pathVars, engine, staged, cloud>>
      PROVE  Orderly' /\ Calm
  <2>1. \A e \in Entity : Still(store[e], store'[e])
    BY <1>1, <1>2, <1>4, SteadyWait
  <2>2. \A i \in inflight : i.e \in Entity
    BY <1>1 DEF Inflight
  <2>3. Uploading'
    <3>1. UNCHANGED <<inflight, cmds, chan>>
      BY <1>4 DEF coreVars, pathVars
    <3> QED
      BY <2>1, <2>2, <3>1 DEF Orderly, Uploading, SteadyRows, Going, Still, Queued
  <2>4. Regular' /\ AtRest' /\ Fresh'
    BY <1>4 DEF Orderly, Regular, AtRest, Fresh, coreVars, pathVars
  <2>5. Unsynced
    BY <2>1 DEF Unsynced, Still
  <2> QED
    BY <1>4, <2>3, <2>4, <2>5 DEF Orderly, Calm, OldStarts, Moves, coreVars, pathVars
<1>5. ASSUME NEW e \in Entity, NEW v \in {None} \cup Payload, NEW now \in Times,
             Edit(e, v, now)
      PROVE  Orderly' /\ Calm
  <2>1. v \in Payload
    BY <1>3, <1>5 DEF Edit
  <2>2. now \in Nat
    BY MacAssumption
  <2>3. Still(store[e], Write(store[e], v, now))
    BY <1>2, <2>1, <2>2, SteadyEdit
  <2>4. store' = [store EXCEPT ![e] = Write(store[e], v, now)]
    BY <1>5 DEF Edit
  <2> QED
    BY <1>4, <1>5, <2>3, <2>4 DEF Edit
<1>6. ASSUME NEW e \in Entity, NEW v \in {None} \cup Payload, OldBuildWrites(e, v)
      PROVE  Orderly' /\ Calm
  <2>1. v \in Payload
    BY <1>3, <1>6 DEF OldBuildWrites
  <2>2. 0 \in Nat
    OBVIOUS
  <2>3. Still(store[e], [store[e] EXCEPT !.row = v])
    BY <1>2, <2>1, <2>2, SteadyEdit
  <2>4. store' = [store EXCEPT ![e] = [store[e] EXCEPT !.row = v]]
    BY <1>6 DEF OldBuildWrites
  <2> QED
    BY <1>4, <1>6, <2>3, <2>4 DEF OldBuildWrites
<1>7. ASSUME UNCHANGED <<store, ckpt, coreVars, pathVars, engine, staged>>,
             Moves(cloud, cloud')
      PROVE  Orderly' /\ Calm
  BY <1>7 DEF Orderly, Uploading, SteadyRows, Regular, AtRest, Fresh, Calm, OldStarts, Unsynced,
              coreVars, pathVars
<1>8. ASSUME NEW e \in Entity, NEW v, NEW rev, NEW at, PeerSaves(e, v, rev, at)
      PROVE  Orderly' /\ Calm
  <2>1. cloud'[e].ver = cloud[e].ver + 1 /\ \A x \in Entity : x # e => cloud'[x] = cloud[x]
    BY <1>1, <1>8 DEF PeerSaves
  <2>2. Moves(cloud, cloud')
    BY <1>1, <2>1 DEF Moves, CloudRecord
  <2> QED
    BY <1>7, <1>8, <2>2 DEF PeerSaves
<1>9. ASSUME NEW e \in Entity, PeerDeletes(e) PROVE Orderly' /\ Calm
  <2>1. cloud'[e].ver = cloud[e].ver + 1 /\ \A x \in Entity : x # e => cloud'[x] = cloud[x]
    BY <1>1, <1>9 DEF PeerDeletes
  <2>2. Moves(cloud, cloud')
    BY <1>1, <2>1 DEF Moves, CloudRecord
  <2> QED
    BY <1>7, <1>9, <2>2 DEF PeerDeletes
<1> QED
  BY <1>5, <1>6, <1>8, <1>9 DEF Users

(* The worker's timers.                                                     *)
LEMMA TimersOrderly ==
    ASSUME Inv, Orderly, Timers
    PROVE  Orderly' /\ Calm
<1>1. /\ store \in [Entity -> Stored] /\ inflight \in SUBSET Inflight
      /\ cmds \in Seq(Command)
  BY DEF Inv, TypeOK
<1>2. \A e \in Entity : Steady(store[e]) /\ store[e] \in Stored
  BY <1>1 DEF Orderly, Uploading, SteadyRows
<1>3. \A e \in Entity : Still(store[e], store[e])
  BY <1>2, SteadyWait
<1>4. /\ Adds(cmds, cmds) /\ [cmd |-> "fetch"] \in Command
      /\ Adds(cmds, Append(cmds, [cmd |-> "fetch"]))
  BY DEF Adds, Command
<1>5. \A overdue : \/ WithFetch(cmds, overdue) = cmds
                   \/ WithFetch(cmds, overdue) = Append(cmds, [cmd |-> "fetch"])
  BY DEF WithFetch
<1>6. ASSUME NEW now \in Times, Tick(now) PROVE Orderly' /\ Calm
  <2> DEFINE st == [e \in Entity |-> IF reconcileNeeded THEN Reconcile(store[e], now)
                                     ELSE store[e]]
  <2>1. now \in Nat
    BY MacAssumption
  <2>2. \A e \in Entity : /\ Still(store[e], Reconcile(store[e], now))
                          /\ Reconcile(store[e], now) \in Stored
    BY <1>2, <2>1, SteadyReconcile, ReconcileStored
  <2>3. st \in [Entity -> Stored] /\ \A e \in Entity : Still(store[e], st[e])
    BY <1>2, <1>3, <2>2
  <2>4. /\ up /\ up' = up /\ Pump(st, inflight, FALSE, caughtUp, cmds)
        /\ UNCHANGED <<ckpt, pendingState, staleSeen, toApply, chan, engine, staged, cloud>>
    BY <1>6 DEF Tick
  <2> HIDE DEF st
  <2> QED
    BY <1>4, <2>3, <2>4, CoreOrderly
<1>7. ASSUME NEW overdue \in BOOLEAN, RequestSync(overdue) PROVE Orderly' /\ Calm
  <2>1. /\ up /\ up' = up /\ Pump(store, inflight, TRUE, caughtUp, WithFetch(cmds, overdue))
        /\ UNCHANGED <<ckpt, pendingState, staleSeen, toApply, chan, engine, staged, cloud>>
    BY <1>7 DEF RequestSync
  <2> QED
    BY <1>1, <1>3, <1>4, <1>5, <2>1, CoreOrderly
<1>8. ASSUME NEW overdue \in BOOLEAN, Poll(overdue) PROVE Orderly' /\ Calm
  <2>1. /\ up /\ up' = up /\ store' = store /\ inflight' = inflight
        /\ cmds' = WithFetch(cmds, overdue)
        /\ UNCHANGED <<ckpt, pendingState, staleSeen, toApply, chan, engine, staged, cloud>>
    BY <1>8 DEF Poll
  <2> QED
    BY <1>1, <1>3, <1>4, <1>5, <2>1, CoreOrderly
<1>9. ASSUME NEW e \in Entity, RetryDue(e) PROVE Orderly' /\ Calm
  <2> DEFINE st == [store EXCEPT ![e].wait = "now"]
  <2>1. st[e] = [store[e] EXCEPT !.wait = "now"] /\ \A x \in Entity : x # e => st[x] = store[x]
    BY <1>1
  <2>2. [store[e] EXCEPT !.wait = "now"] \in Stored
    BY <1>2 DEF Stored
  <2>3. st \in [Entity -> Stored]
    BY <1>1, <2>2
  <2>4. \A x \in Entity : Still(store[x], st[x])
    BY <1>2, <1>3, <2>1, SteadyWait
  <2>5. /\ up /\ up' = up /\ store' = st /\ inflight' = inflight /\ cmds' = cmds
        /\ UNCHANGED <<ckpt, pendingState, staleSeen, toApply, chan, engine, staged, cloud>>
    BY <1>9 DEF RetryDue, coreVars, pathVars
  <2> HIDE DEF st
  <2> QED
    BY <1>4, <2>3, <2>4, <2>5, CoreOrderly
<1>10. ASSUME HoldOver PROVE Orderly' /\ Calm
  <2>1. /\ up /\ up' = up /\ store' = store /\ inflight' = inflight /\ cmds' = cmds
        /\ UNCHANGED <<ckpt, pendingState, staleSeen, toApply, chan, engine, staged, cloud>>
    BY <1>10 DEF HoldOver, pathVars
  <2> QED
    BY <1>1, <1>3, <1>4, <2>1, CoreOrderly
<1> QED
  BY <1>6, <1>7, <1>8, <1>9, <1>10 DEF Timers

-----------------------------------------------------------------------------
(* The worker's handlers.                                                   *)

(* What a handler does with an event that it takes off the channel: news    *)
(* are the batches that it hands to the host.                               *)
Handed(e, news) ==
    /\ \A k \in DOMAIN news : e \in EntriesOf(news[k].recs) => Syncs(e, Head(chan))
    /\ ~Syncs(e, Head(chan)) /\ store[e].synced = None => store'[e].synced = None
    /\ Marks(e, Head(chan)) => \E k \in DOMAIN news : e \in news[k].dels
    /\ Head(chan).ev = "complete" /\ staleSeen # None /\ e \notin staleSeen =>
           \/ store'[e].synced = None
           \/ \E k \in DOMAIN news : CatchUpBatch(news[k]) /\ e \in news[k].dels
    /\ Head(chan).ev # "complete" /\ staleSeen # None /\ e \notin staleSeen
         /\ ~Syncs(e, Head(chan)) => staleSeen' # None /\ e \notin staleSeen'

(* The checkpoint that is saved is the one that waited or the one just      *)
(* reported, and nothing waits to be applied.                               *)
Flushes ==
    \/ UNCHANGED <<ckpt, pendingState>>
    \/ \E w \in Nat, p \in {None} \cup Position, completed \in BOOLEAN :
          /\ FlushState(w, p, completed)
          /\ w = 0 => toApply = <<>>
          /\ p = pendingState \/ (Head(chan).ev = "state" /\ p = Head(chan).at)

Takes ==
    /\ up /\ chan # <<>> /\ chan' = Tail(chan)
    /\ UNCHANGED <<engine, cloud>>
    /\ OldStarts(cmds, cmds') /\ Flushes
    /\ \E news \in Seq(Batch) :
           toApply' = toApply \o news /\ \A e \in Entity : Handed(e, news)

(* A checkpoint that is saved is one of those that were regular.            *)
LEMMA FlushesRegular ==
    ASSUME Inv, Regular, chan # <<>>, Flushes
    PROVE  ~ckpt'.nil /\ (pendingState' # None => ~pendingState'.nil)
<1>1. CASE UNCHANGED <<ckpt, pendingState>>
  BY <1>1 DEF Regular
<1>2. ASSUME NEW w \in Nat, NEW p \in {None} \cup Position, NEW completed \in BOOLEAN,
             FlushState(w, p, completed),
             p = pendingState \/ (Head(chan).ev = "state" /\ p = Head(chan).at)
      PROVE  ~ckpt'.nil /\ (pendingState' # None => ~pendingState'.nil)
  <2>1. chan \in Seq(Event) /\ 1 \in DOMAIN chan /\ Head(chan) = chan[1]
    BY HeadTailProperties, LenProperties, EmptySeq DEF Inv, TypeOK
  <2>2. p # None => ~p.nil
    BY <1>2, <2>1 DEF Regular
  <2> QED
    BY <1>2, <2>2 DEF Regular, FlushState
<1> QED
  BY <1>1, <1>2 DEF Flushes

(* A handler keeps the order if it answers or keeps what is under way.      *)
LEMMA TakenOrderly ==
    ASSUME Inv, Orderly, up, up' = up, chan # <<>>, chan' = Tail(chan),
           UNCHANGED <<engine, staged>>, Flushes, staleSeen = None => staleSeen' = None,
           NEW st \in [Entity -> Stored], NEW flying \in SUBSET inflight,
           NEW again, NEW caught, Pump(st, flying, again, caught, cmds),
           SteadyRows(st), Going(flying, st), Paired(flying, cmds, Tail(chan))
    PROVE  Orderly' /\ OldStarts(cmds, cmds') /\ store' = st
<1>1. /\ chan \in Seq(Event) /\ cmds \in Seq(Command) /\ inflight \in SUBSET Inflight
      /\ flying \in SUBSET Inflight
  BY DEF Inv, TypeOK
<1>2. /\ store' = st
      /\ SteadyRows(store') /\ Going(inflight', store')
      /\ Paired(inflight', cmds', Tail(chan))
      /\ Adds(cmds, cmds')
  BY <1>1, PumpUploading
<1>3. Uploading'
  BY <1>2 DEF Uploading, SteadyRows
<1>4. Regular'
  <2>1. ~ckpt'.nil /\ (pendingState' # None => ~pendingState'.nil)
    BY FlushesRegular DEF Orderly
  <2>2. \A k \in DOMAIN chan' : \E l \in DOMAIN chan : chan'[k] = chan[l]
    <3>1. /\ Len(chan) \in Nat \ {0} /\ DOMAIN chan = 1 .. Len(chan)
          /\ DOMAIN chan' = 1 .. Len(chan) - 1
          /\ \A k \in DOMAIN chan' : chan'[k] = chan[k + 1]
      BY <1>1, HeadTailProperties, LenProperties, EmptySeq
    <3>2. \A k \in DOMAIN chan' : k + 1 \in DOMAIN chan
      BY <3>1
    <3> QED
      BY <3>1, <3>2
  <2>3. \A k \in DOMAIN chan' : /\ chan'[k].ev \notin {"sendfailed", "expired"}
                                /\ chan'[k].ev = "state" => ~chan'[k].at.nil
    BY <2>2 DEF Orderly, Regular
  <2> QED
    BY <2>1, <2>3 DEF Orderly, Regular
<1>5. AtRest'
  BY DEF AtRest
<1>6. Fresh'
  <2>1. ~engine.nil
    BY DEF Orderly, Fresh
  <2>2. StartsFirst(cmds', engine.nil)
    BY <1>1, <1>2, BeginningAdds DEF Orderly, Fresh
  <2> QED
    BY <2>1, <2>2 DEF Fresh
<1>7. OldStarts(cmds, cmds')
  BY <1>1, <1>2, AddsNoStart
<1> QED
  BY <1>2, <1>3, <1>4, <1>5, <1>6, <1>7 DEF Orderly

(* One that handles no answers.                                             *)
LEMMA MailOrderly ==
    ASSUME Inv, Orderly, NEW kind, kind # "sent", Handles(kind), up' = up,
           UNCHANGED <<engine, staged, cloud>>, Flushes, staleSeen = None => staleSeen' = None,
           NEW st \in [Entity -> Stored], \A e \in Entity : Still(store[e], st[e]),
           NEW again, NEW caught, Pump(st, inflight, again, caught, cmds),
           NEW news \in Seq(Batch), toApply' = toApply \o news,
           \A e \in Entity : store'[e].synced = store[e].synced => Handed(e, news)
    PROVE  Orderly' /\ Takes
<1>1. /\ up /\ chan # <<>> /\ chan \in Seq(Event) /\ chan' = Tail(chan)
      /\ inflight \in SUBSET Inflight /\ cmds \in Seq(Command)
  BY DEF Handles, Inv, TypeOK
<1>2. Paired(inflight, cmds, Tail(chan))
  BY <1>1, PairedMail DEF Orderly, Uploading
<1>3. SteadyRows(st) /\ Going(inflight, st)
  <2>1. \A i \in inflight : i.e \in Entity
    BY <1>1 DEF Inflight
  <2> QED
    BY <2>1 DEF Orderly, Uploading, SteadyRows, Going, Still, Queued
<1>4. inflight \in SUBSET inflight
  OBVIOUS
<1>5. Orderly' /\ OldStarts(cmds, cmds') /\ store' = st
  BY <1>1, <1>2, <1>3, <1>4, TakenOrderly
<1>6. \A e \in Entity : Handed(e, news)
  BY <1>5 DEF Still
<1> QED
  BY <1>1, <1>5, <1>6 DEF Takes

(* Nothing is handed over.                                                  *)
LEMMA NoNews ==
    ASSUME Inv, UNCHANGED <<toApply, staleSeen>>,
           Head(chan).ev \notin {"fetched", "sent", "complete"}
    PROVE  /\ <<>> \in Seq(Batch) /\ toApply' = toApply \o <<>>
           /\ \A e \in Entity : store'[e].synced = store[e].synced => Handed(e, <<>>)
<1>1. toApply \in Seq(Batch) /\ <<>> \in Seq(Batch)
  BY DEF Inv, TypeOK
<1>2. toApply \o <<>> = toApply
  BY <1>1, ConcatEmptySeq
<1>3. DOMAIN <<>> = {}
  OBVIOUS
<1> QED
  BY <1>1, <1>2, <1>3 DEF Handed, Syncs, Marks

(* A page of a fetch.                                                       *)
LEMMA FetchedOrderly ==
    ASSUME Inv, Orderly, OnFetched
    PROVE  Orderly' /\ Takes
<1> DEFINE m == Head(chan)
           news == Batches(Admitted(m.recs), m.dels)
<1>1. /\ Handles("fetched") /\ up' = up
      /\ staleSeen' = IF staleSeen = None THEN None ELSE staleSeen \cup EntriesOf(m.recs)
      /\ toApply' = toApply \o news
      /\ UNCHANGED <<ckpt, pendingState, engine, staged, cloud>>
      /\ Pump(store, inflight, reconcileNeeded, caughtUp, cmds)
  BY DEF OnFetched
<1>2. m \in Event /\ m.ev = "fetched"
  BY <1>1, HandlesTyped DEF Inv
<1>3. m.recs \in SUBSET Fetched /\ m.dels \in SUBSET Entity
  BY <1>2, EventTyped
<1>4. Admitted(m.recs) \subseteq m.recs
  BY DEF Admitted
<1>5. news \in Seq(Batch)
  BY <1>3, <1>4, BatchesTyped
<1>6. \A k \in DOMAIN news : news[k].recs \subseteq m.recs
  BY <1>4 DEF Batches
<1>7. ASSUME NEW e \in m.dels PROVE \E k \in DOMAIN news : e \in news[k].dels
  <2>1. news = << [recs |-> Admitted(m.recs), dels |-> m.dels] >>
    BY DEF Batches
  <2> QED
    BY <2>1
<1> HIDE DEF news
<1>8. ASSUME NEW e \in Entity, store'[e].synced = store[e].synced PROVE Handed(e, news)
  <2>1. staleSeen \in {None} \cup SUBSET Entity
    BY DEF Inv, TypeOK
  <2>2. EntriesOf(m.recs) \subseteq Entity
    BY <1>3 DEF EntriesOf, Fetched
  <2>3. staleSeen # None /\ e \notin staleSeen /\ ~Syncs(e, m) =>
           staleSeen' # None /\ e \notin staleSeen'
    <3> SUFFICES ASSUME staleSeen # None, e \notin staleSeen, ~Syncs(e, m)
                 PROVE  staleSeen' # None /\ e \notin staleSeen'
      OBVIOUS
    <3>1. e \notin EntriesOf(m.recs)
      BY <1>2 DEF Syncs
    <3>2. staleSeen' = staleSeen \cup EntriesOf(m.recs)
      BY <1>1
    <3>3. staleSeen' # None
      BY <2>1, <2>2, <3>1, <3>2, MacAssumption
    <3> QED
      BY <3>1, <3>2, <3>3
  <2> QED
    BY <1>2, <1>6, <1>7, <1>8, <2>3 DEF Handed, Syncs, Marks, EntriesOf
<1>9. Flushes
  BY <1>1 DEF Flushes
<1>10. \A e \in Entity : Still(store[e], store[e])
  BY SteadyWait DEF Inv, TypeOK, Orderly, Uploading, SteadyRows
<1> QED
  BY <1>1, <1>5, <1>8, <1>9, <1>10, MailOrderly DEF Inv, TypeOK

(* Nothing waits to be applied when the core counts none.                   *)
LEMMA NoneLeft ==
    ASSUME Inv, chan # <<>>
    PROVE  /\ unapplied = 0 => toApply = <<>>
           /\ Head(chan).ev = "applied" => unapplied - 1 \in Nat
           /\ Head(chan).ev = "applied" /\ unapplied - 1 = 0 => toApply = <<>>
<1>1. /\ toApply \in Seq(Batch) /\ chan \in Seq(Event) /\ unapplied \in Nat
      /\ unapplied = Len(toApply) + Cardinality(Acks(chan))
  BY DEF Inv, TypeOK, Counted
<1>2. /\ Cardinality(Acks(chan)) \in Nat /\ Len(toApply) \in Nat
      /\ Len(toApply) = 0 => toApply = <<>>
  BY <1>1, AcksFinite, LenProperties, EmptySeq
<1>3. ASSUME Head(chan).ev = "applied" PROVE Cardinality(Acks(chan)) > 0
  <2>1. Tail(chan) \in Seq(Event)
    BY <1>1, HeadTailProperties
  <2>2. Cardinality(Acks(Tail(chan))) = Cardinality(Acks(chan)) - 1
    BY <1>1, <1>3, AcksTail
  <2>3. Cardinality(Acks(Tail(chan))) \in Nat
    BY <2>1, AcksFinite
  <2> QED
    BY <1>2, <2>2, <2>3
<1> QED
  BY <1>1, <1>2, <1>3

(* A new position of the engine.                                            *)
LEMMA StateOrderly ==
    ASSUME Inv, Orderly, OnState
    PROVE  Orderly' /\ Takes
<1>1. /\ Handles("state") /\ up' = up
      /\ FlushState(unapplied, Head(chan).at, fetchCompleted)
      /\ UNCHANGED <<staleSeen, toApply, engine, staged, cloud>>
      /\ Pump(store, inflight, reconcileNeeded,
              CaughtUp(unapplied, Head(chan).at, fetchCompleted), cmds)
  BY DEF OnState
<1>2. /\ Head(chan) \in Event /\ Head(chan).ev = "state" /\ chan # <<>>
      /\ Head(chan).at \in Position
  BY <1>1, HandlesTyped, EventTyped DEF Inv, Handles
<1>3. Flushes
  BY <1>1, <1>2, NoneLeft DEF Flushes, Inv, TypeOK
<1>4. \A e \in Entity : Still(store[e], store[e])
  BY SteadyWait DEF Inv, TypeOK, Orderly, Uploading, SteadyRows
<1>5. /\ <<>> \in Seq(Batch) /\ toApply' = toApply \o <<>>
      /\ \A e \in Entity : store'[e].synced = store[e].synced => Handed(e, <<>>)
  BY <1>1, <1>2, NoNews
<1> QED
  BY <1>1, <1>3, <1>4, <1>5, MailOrderly DEF Inv, TypeOK

(* What is synced and was not listed is taken for deleted.                  *)
LEMMA CompleteOrderly ==
    ASSUME Inv, Orderly, OthersDelete, OnFetchComplete
    PROVE  Orderly' /\ Takes
<1> DEFINE missing == SyncedEntities \ staleSeen
           news == IF staleSeen = None THEN <<>> ELSE Batches({}, DeletedElsewhere(staleSeen))
<1>1. /\ Handles("complete") /\ up' = up
      /\ FlushState(unapplied, pendingState, TRUE)
      /\ staleSeen' = None
      /\ toApply' = toApply \o news
      /\ UNCHANGED <<engine, staged, cloud>>
      /\ Pump(store, inflight, reconcileNeeded, CaughtUp(unapplied, pendingState, TRUE), cmds)
  BY DEF OnFetchComplete
<1>2. Head(chan).ev = "complete" /\ chan # <<>>
  BY <1>1, HandlesTyped DEF Inv, Handles
<1>3. Flushes
  BY <1>1, <1>2, NoneLeft DEF Flushes, Inv, TypeOK
<1>4. \A e \in Entity : Still(store[e], store[e])
  BY SteadyWait DEF Inv, TypeOK, Orderly, Uploading, SteadyRows
<1>5. DeletedElsewhere(staleSeen) = missing
  <2>1. missing \subseteq Entity /\ IsFiniteSet(Entity)
    BY MacAssumption DEF SyncedEntities
  <2>2. Cardinality(missing) <= Cardinality(Entity)
    BY <2>1, FS_Subset
  <2>3. Cardinality(missing) \in Nat /\ Cardinality(Entity) \in Nat /\ StaleLimit \in Nat
    BY <2>1, FS_Subset, FS_CardinalityType, MacAssumption
  <2>4. ~(Cardinality(missing) > StaleLimit)
    BY <2>2, <2>3 DEF OthersDelete
  <2> HIDE DEF missing
  <2> QED
    BY <2>4 DEF DeletedElsewhere, missing
<1>6. missing \in SUBSET Entity /\ {} \in SUBSET Fetched
  BY DEF SyncedEntities
<1>7. news \in Seq(Batch)
  BY <1>5, <1>6, BatchesTyped
<1>8. \A k \in DOMAIN news : news[k].recs = {}
  BY DEF Batches
<1>9. ASSUME NEW e \in missing, staleSeen # None PROVE \E k \in DOMAIN news : e \in news[k].dels
  <2>1. news = << [recs |-> {}, dels |-> missing] >>
    BY <1>5, <1>9 DEF Batches
  <2> QED
    BY <2>1
<1> HIDE DEF news
<1>10. ASSUME NEW e \in Entity, store'[e].synced = store[e].synced PROVE Handed(e, news)
  <2>1. ~Marks(e, Head(chan))
    BY <1>2 DEF Marks
  <2>2. \A k \in DOMAIN news : e \notin EntriesOf(news[k].recs)
    BY <1>8 DEF EntriesOf
  <2>3. ASSUME staleSeen # None, e \notin staleSeen, store[e].synced # None
        PROVE  \E k \in DOMAIN news : CatchUpBatch(news[k]) /\ e \in news[k].dels
    <3>1. "away" \in Faults
      BY <2>3 DEF Orderly, Regular
    <3>2. ~store[e].gone
      BY <2>3 DEF Orderly, Uploading, SteadyRows, Steady
    <3>3. e \in missing
      BY <2>3, <3>2 DEF SyncedEntities
    <3> QED
      BY <1>8, <1>9, <2>3, <3>1, <3>3 DEF CatchUpBatch
  <2> QED
    BY <1>2, <1>10, <2>1, <2>2, <2>3 DEF Handed
<1> QED
  BY <1>1, <1>3, <1>4, <1>7, <1>10, MailOrderly DEF Inv, TypeOK

(* A fetch that failed.                                                     *)
LEMMA ErrorOrderly ==
    ASSUME Inv, Orderly, OnError
    PROVE  Orderly' /\ Takes
<1>1. /\ Handles("error") /\ up' = up
      /\ UNCHANGED <<ckpt, pendingState, staleSeen, toApply, engine, staged, cloud>>
      /\ Pump(store, inflight, reconcileNeeded, caughtUp, cmds)
  BY DEF OnError
<1>2. Head(chan).ev = "error"
  BY <1>1, HandlesTyped DEF Inv
<1>3. Flushes
  BY <1>1 DEF Flushes
<1>4. \A e \in Entity : Still(store[e], store[e])
  BY SteadyWait DEF Inv, TypeOK, Orderly, Uploading, SteadyRows
<1>5. /\ <<>> \in Seq(Batch) /\ toApply' = toApply \o <<>>
      /\ \A e \in Entity : store'[e].synced = store[e].synced => Handed(e, <<>>)
  BY <1>1, <1>2, NoNews
<1> QED
  BY <1>1, <1>3, <1>4, <1>5, MailOrderly DEF Inv, TypeOK

(* The acknowledgement of a batch.                                          *)
LEMMA AppliedOrderly ==
    ASSUME Inv, Orderly, OnApplied
    PROVE  Orderly' /\ Takes
<1> DEFINE st == [e \in Entity |-> Release(store[e])]
<1>1. /\ Handles("applied") /\ up' = up
      /\ FlushState(unapplied - 1, pendingState, fetchCompleted)
      /\ UNCHANGED <<staleSeen, toApply, engine, staged, cloud>>
      /\ Pump(st, inflight, reconcileNeeded,
              CaughtUp(unapplied - 1, pendingState, fetchCompleted), cmds)
  BY DEF OnApplied
<1>2. Head(chan).ev = "applied" /\ chan # <<>>
  BY <1>1, HandlesTyped DEF Inv, Handles
<1>3. Flushes
  BY <1>1, <1>2, NoneLeft DEF Flushes, Inv, TypeOK
<1>4. \A e \in Entity : store[e] \in Stored /\ Steady(store[e])
  BY DEF Inv, TypeOK, Orderly, Uploading, SteadyRows
<1>5. st \in [Entity -> Stored] /\ \A e \in Entity : Still(store[e], st[e])
  BY <1>4, OutboxStored, SteadyWait
<1>6. /\ <<>> \in Seq(Batch) /\ toApply' = toApply \o <<>>
      /\ \A e \in Entity : store'[e].synced = store[e].synced => Handed(e, <<>>)
  BY <1>1, <1>2, NoNews
<1> HIDE DEF st
<1> QED
  BY <1>1, <1>3, <1>5, <1>6, MailOrderly DEF Inv, TypeOK

(* What `on_sent` does, answer by answer: there is one for an entity, and   *)
(* what a batch settles was refused.                                        *)
LEMMA AnsweredPieces ==
    ASSUME Inv, Paired(inflight, cmds, chan), OnSent
    PROVE  /\ up /\ chan # <<>> /\ chan' = Tail(chan) /\ Head(chan).ev = "sent"
           /\ Answers(Head(chan)) \in SUBSET Result
           /\ \E n \in Seq(Batch), st \in [Entity -> Stored], flying \in SUBSET inflight :
                 /\ toApply' = toApply \o n
                 /\ Pump(st, flying, reconcileNeeded, caughtUp, cmds)
                 /\ \A k \in DOMAIN n :
                       /\ n[k].dels = {}
                       /\ \A x \in n[k].recs : \E r \in Answers(Head(chan)) :
                             r.e = x.e /\ r.rec = x.rec /\ r.kind = "conflict"
                 /\ \A r \in Answers(Head(chan)) :
                       r.e \in Entity /\ st[r.e] = Answered(store[r.e], r)
                 /\ \A e \in Entity :
                       (\A r \in Answers(Head(chan)) : r.e # e) => st[e] = store[e]
                 /\ \A i \in inflight : (\A r \in Answers(Head(chan)) : r.e # i.e) => i \in flying
                 /\ \A i \in flying : \A r \in Answers(Head(chan)) : i \notin Sent(r)
<1> DEFINE results == Head(chan).results
           batch(r) == [recs |-> {[e |-> r.e, rec |-> r.rec]}, dels |-> {}]
           clashes == {r \in results : NeedsApply(store[r.e], r)}
           settle == {batch(r) : r \in clashes}
           news == InSomeOrder(settle)
           pick(e) == CHOOSE r \in results : r.e = e
           st == [e \in Entity |-> IF e \in EntriesOf(results)
                                   THEN Answered(store[e], pick(e)) ELSE store[e]]
           flying == {i \in inflight : \A r \in results : i \notin Sent(r)}
<1>1. /\ Handles("sent")
      /\ toApply' = toApply \o news
      /\ Pump(st, flying, reconcileNeeded, caughtUp, cmds)
  BY DEF OnSent
<1>2. /\ up /\ chan # <<>> /\ chan \in Seq(Event) /\ chan' = Tail(chan)
      /\ Head(chan) \in Event /\ Head(chan).ev = "sent"
      /\ \A e \in Entity : store[e] \in Stored
  BY <1>1, HandlesTyped DEF Handles, Inv, TypeOK
<1>3. /\ results \in SUBSET Result /\ IsFiniteSet(results) /\ Answers(Head(chan)) = results
  BY <1>2, EventTyped DEF FiniteSubset, Answers
<1>4. 1 \in DOMAIN chan /\ Head(chan) = chan[1]
  BY <1>2, HeadTailProperties, LenProperties, EmptySeq
<1>5. \A r \in clashes : batch(r) \in Batch
  <2> SUFFICES ASSUME NEW r \in clashes PROVE batch(r) \in Batch
    OBVIOUS
  <2>1. r.e \in Entity /\ r.rec \in CloudRecord /\ r.rec.val # None
    BY <1>3 DEF Result, NeedsApply
  <2>2. [e |-> r.e, rec |-> r.rec] \in Fetched
    BY <2>1 DEF Fetched
  <2> QED
    BY <2>2 DEF Batch
<1>6. /\ news \in Seq(Batch)
      /\ \A k \in DOMAIN news : \E r \in clashes : news[k] = batch(r)
  <2>1. settle \in SUBSET Batch /\ settle \in SUBSET settle
    BY <1>5
  <2>2. IsFiniteSet(settle)
    <3> DEFINE f == [r \in clashes |-> batch(r)]
    <3>1. IsFiniteSet(clashes)
      BY <1>3, FS_Subset
    <3>2. f \in Surjection(clashes, settle)
      BY DEF Surjection
    <3> QED
      BY <3>1, <3>2, FS_Surjection
  <2>3. \A x \in settle : \E r \in clashes : x = batch(r)
    OBVIOUS
  <2> HIDE DEF settle
  <2>4. news \in Seq(Batch) /\ news \in Seq(settle)
    BY <2>1, <2>2, OrderTyped
  <2>5. \A k \in DOMAIN news : news[k] \in settle
    BY <2>4, ElementOfSeq
  <2> QED
    BY <2>3, <2>4, <2>5
<1>7. \A k \in DOMAIN news :
         /\ news[k].dels = {}
         /\ \A x \in news[k].recs : \E r \in results :
               r.e = x.e /\ r.rec = x.rec /\ r.kind = "conflict"
  <2>1. ASSUME NEW r \in clashes
        PROVE  /\ batch(r).dels = {} /\ r \in results /\ r.kind = "conflict"
               /\ \A x \in batch(r).recs : r.e = x.e /\ r.rec = x.rec
    BY DEF NeedsApply
  <2> HIDE DEF news, batch
  <2> QED
    BY <1>6, <2>1
<1>8. \A r, y \in results : r.e = y.e => r = y
  BY <1>3, <1>4 DEF Paired, Single
<1>9. ASSUME NEW r \in results
      PROVE  r.e \in Entity /\ st[r.e] = Answered(store[r.e], r)
  <2>1. r.e \in Entity
    BY <1>3 DEF Result
  <2>2. pick(r.e) = r
    BY <1>8
  <2> HIDE DEF pick
  <2> QED
    BY <2>1, <2>2 DEF EntriesOf
<1>10. \A e \in Entity : (\A r \in results : r.e # e) => st[e] = store[e]
  BY DEF EntriesOf
<1>11. st \in [Entity -> Stored]
  <2>1. ASSUME NEW e \in Entity PROVE st[e] \in Stored
    <3>1. ASSUME NEW r \in results, r.e = e PROVE st[e] \in Stored
      BY <1>2, <1>3, <1>9, <3>1, AnsweredTyped DEF Inv
    <3>2. CASE \A r \in results : r.e # e
      BY <1>2, <1>10, <3>2
    <3> QED
      BY <3>1, <3>2
  <2>2. DOMAIN st = Entity /\ st = [e \in Entity |-> st[e]]
    OBVIOUS
  <2> HIDE DEF st
  <2> QED
    BY <2>1, <2>2
<1>12. /\ flying \in SUBSET inflight
       /\ \A i \in inflight : (\A r \in results : r.e # i.e) => i \in flying
       /\ \A i \in flying : \A r \in results : i \notin Sent(r)
  BY DEF Sent
<1> HIDE DEF results, news, st, flying
<1> USE <1>3
<1>13. \E n \in Seq(Batch), s \in [Entity -> Stored], f \in SUBSET inflight :
          /\ toApply' = toApply \o n
          /\ Pump(s, f, reconcileNeeded, caughtUp, cmds)
          /\ \A k \in DOMAIN n :
                /\ n[k].dels = {}
                /\ \A x \in n[k].recs : \E r \in Answers(Head(chan)) :
                      r.e = x.e /\ r.rec = x.rec /\ r.kind = "conflict"
          /\ \A r \in Answers(Head(chan)) : r.e \in Entity /\ s[r.e] = Answered(store[r.e], r)
          /\ \A e \in Entity : (\A r \in Answers(Head(chan)) : r.e # e) => s[e] = store[e]
          /\ \A i \in inflight : (\A r \in Answers(Head(chan)) : r.e # i.e) => i \in f
          /\ \A i \in f : \A r \in Answers(Head(chan)) : i \notin Sent(r)
  <2> news \in Seq(Batch) /\ st \in [Entity -> Stored] /\ flying \in SUBSET inflight
    BY <1>6, <1>11, <1>12
  <2> WITNESS news \in Seq(Batch), st \in [Entity -> Stored], flying \in SUBSET inflight
  <2> QED
    BY <1>1, <1>7, <1>9, <1>10, <1>12
<1> QED
  BY <1>2, <1>3, <1>13

(* The answers of a send.                                                   *)
LEMMA SentOrderly ==
    ASSUME Inv, Orderly, OnSent
    PROVE  Orderly' /\ Takes
<1> DEFINE results == Answers(Head(chan))
<1>1. Paired(inflight, cmds, chan) /\ SteadyRows(store) /\ Going(inflight, store)
  BY DEF Orderly, Uploading
<1>2. /\ up /\ chan # <<>> /\ chan' = Tail(chan) /\ Head(chan).ev = "sent"
      /\ results \in SUBSET Result
  BY <1>1, AnsweredPieces
<1>3. PICK news \in Seq(Batch), st \in [Entity -> Stored], flying \in SUBSET inflight :
              /\ toApply' = toApply \o news
              /\ Pump(st, flying, reconcileNeeded, caughtUp, cmds)
              /\ \A k \in DOMAIN news :
                    /\ news[k].dels = {}
                    /\ \A x \in news[k].recs : \E r \in results :
                          r.e = x.e /\ r.rec = x.rec /\ r.kind = "conflict"
              /\ \A r \in results : r.e \in Entity /\ st[r.e] = Answered(store[r.e], r)
              /\ \A e \in Entity : (\A r \in results : r.e # e) => st[e] = store[e]
              /\ \A i \in inflight : (\A r \in results : r.e # i.e) => i \in flying
              /\ \A i \in flying : \A r \in results : i \notin Sent(r)
  BY <1>1, AnsweredPieces
<1>4. /\ chan \in Seq(Event) /\ inflight \in SUBSET Inflight /\ store \in [Entity -> Stored]
      /\ 1 \in DOMAIN chan /\ Head(chan) = chan[1]
  BY <1>2, HeadTailProperties, LenProperties, EmptySeq DEF Inv, TypeOK
<1>5. results = Head(chan).results
  BY <1>2 DEF Answers
<1> HIDE DEF results
<1>6. \A r \in results : \E i \in inflight : i.e = r.e /\ i.q = r.q
  BY <1>1, <1>4 DEF Paired, Matched, results
<1>7. ASSUME NEW r \in results
      PROVE  /\ Steady(st[r.e])
             /\ r.kind \notin {"saved", "conflict"} => st[r.e].synced = store[r.e].synced
  <2>1. PICK i \in inflight : i.e = r.e /\ i.q = r.q
    BY <1>6
  <2>2. r.e \in Entity /\ st[r.e] = Answered(store[r.e], r) /\ r \in Result
    BY <1>2, <1>3
  <2>3. store[r.e] \in Stored /\ Steady(store[r.e]) /\ store[r.e].op = "upsert"
    BY <1>1, <1>4, <2>1, <2>2 DEF Going, SteadyRows
  <2> QED
    BY <2>2, <2>3, SteadyAnswered DEF Inv
<1>8. SteadyRows(st)
  <2> SUFFICES ASSUME NEW e \in Entity PROVE Steady(st[e])
    BY DEF SteadyRows
  <2>1. CASE \E r \in results : r.e = e
    BY <1>7, <2>1
  <2>2. CASE \A r \in results : r.e # e
    BY <1>1, <1>3, <2>2 DEF SteadyRows
  <2> QED
    BY <2>1, <2>2
<1>9. Going(flying, st)
  <2> SUFFICES ASSUME NEW i \in flying PROVE i.val # None /\ st[i.e].op = "upsert"
    BY DEF Going
  <2>1. i \in inflight /\ i.e \in Entity
    BY <1>4 DEF Inflight
  <2>2. \A r \in results : r.e # i.e
    <3> SUFFICES ASSUME NEW r \in results, r.e = i.e PROVE FALSE
      OBVIOUS
    <3>1. PICK j \in inflight : j.e = r.e /\ j.q = r.q
      BY <1>6
    <3>2. j = i
      BY <2>1, <3>1 DEF Inv, OneUpload
    <3>3. i \in Sent(r)
      BY <3>1, <3>2 DEF Sent
    <3> QED
      BY <1>3, <3>3
  <2>3. st[i.e] = store[i.e]
    BY <1>3, <2>1, <2>2
  <2> QED
    BY <1>1, <2>1, <2>3 DEF Going
<1>10. Paired(flying, cmds, Tail(chan))
  BY <1>1, <1>2, <1>3, <1>4, PairedAnswered DEF results
<1>11. /\ up' = up /\ UNCHANGED <<ckpt, pendingState, staleSeen, engine, staged, cloud>>
  BY DEF OnSent
<1>12. Orderly' /\ OldStarts(cmds, cmds') /\ store' = st
  <2>1. Flushes
    BY <1>11 DEF Flushes
  <2> QED
    BY <1>2, <1>3, <1>8, <1>9, <1>10, <1>11, <2>1, TakenOrderly
<1>13. ASSUME NEW e \in Entity PROVE Handed(e, news)
  <2>1. ASSUME NEW k \in DOMAIN news, e \in EntriesOf(news[k].recs) PROVE Syncs(e, Head(chan))
    <3>1. PICK x \in news[k].recs : x.e = e
      BY <2>1 DEF EntriesOf
    <3>2. PICK r \in results : r.e = e /\ r.kind = "conflict"
      BY <1>3, <3>1
    <3> QED
      BY <1>2, <1>5, <3>2 DEF Syncs
  <2>2. ASSUME ~Syncs(e, Head(chan)) PROVE st[e].synced = store[e].synced
    <3>1. ASSUME NEW r \in results, r.e = e PROVE st[e].synced = store[e].synced
      <4>1. r.kind \notin {"saved", "conflict"}
        BY <1>2, <1>5, <2>2, <3>1 DEF Syncs
      <4> QED
        BY <1>7, <3>1, <4>1
    <3>2. CASE \A r \in results : r.e # e
      BY <1>3, <3>2
    <3> QED
      BY <3>1, <3>2
  <2>3. ~Marks(e, Head(chan)) /\ Head(chan).ev # "complete"
    BY <1>2 DEF Marks
  <2> QED
    BY <1>11, <1>12, <2>1, <2>2, <2>3 DEF Handed
<1>14. Flushes
  BY <1>11 DEF Flushes
<1> QED
  BY <1>2, <1>3, <1>11, <1>12, <1>13, <1>14 DEF Takes

(* Every handler of the worker.                                             *)
LEMMA HandlersOrderly ==
    ASSUME Inv, Orderly, OthersDelete, Handlers
    PROVE  Orderly' /\ Takes
<1>1. ~OnExpired /\ ~OnSendFailed
  <2>1. chan # <<>> => 1 \in DOMAIN chan /\ Head(chan) = chan[1]
    BY HeadTailProperties, LenProperties, EmptySeq DEF Inv, TypeOK
  <2> QED
    BY <2>1 DEF OnExpired, OnSendFailed, Handles, Orderly, Regular
<1> QED
  BY <1>1, FetchedOrderly, StateOrderly, CompleteOrderly, ErrorOrderly, AppliedOrderly,
     SentOrderly DEF Handlers

-----------------------------------------------------------------------------
(* The bridge.                                                              *)

(* With a checkpoint too old, nothing cuts short the listing that follows:  *)
(* neither a lost connection nor, until what it found missing is applied, a *)
(* crash.                                                                   *)
CatchesUp ==
    "away" \in Faults =>
        /\ Crash => /\ staleSeen = None
                    /\ \A k \in DOMAIN toApply : toApply[k].recs = {} =>
                          \A e \in toApply[k].dels : ckpt.pos[e] < cloud[e].ver
        /\ engine # None /\ engine.nil => \A page \in SUBSET Entity : ~EngineFetchFails(page)

(* What a step of the bridge does with the command that it takes.           *)
LEMMA RunsOrderly ==
    ASSUME Inv, Orderly, NEW kind, Runs(kind)
    PROVE  /\ cmds \in Seq(Command) /\ cmds # <<>> /\ cmds' = Tail(cmds) /\ up
           /\ OldStarts(cmds, cmds')
           /\ Paired(inflight, cmds', chan)
           /\ \A nil : StartsFirst(cmds', nil)
           /\ kind = "start" => engine.nil
           /\ engine.nil => \/ /\ kind = "start" /\ (Head(cmds).at.nil => staleSeen = {})
                               /\ Head(cmds).at.nil => Beginning(cmds', staleSeen)
                            \/ kind = "fetch" /\ staleSeen = {}
           /\ engine.nil => chan = <<>> /\ toApply = <<>>
<1>1. /\ cmds \in Seq(Command) /\ cmds # <<>> /\ cmds' = Tail(cmds) /\ up
      /\ Head(cmds).cmd = kind
  BY DEF Runs, Inv, TypeOK
<1>2. /\ \A k \in DOMAIN cmds' : cmds'[k].cmd # "start"
      /\ kind = "start" => engine.nil
      /\ Beginning(cmds, staleSeen) =>
            \/ /\ kind = "start" /\ (Head(cmds).at.nil => staleSeen = {})
               /\ Head(cmds).at.nil => Beginning(cmds', staleSeen)
            \/ kind = "fetch" /\ staleSeen = {}
  BY <1>1, BeginningTaken DEF Orderly, Fresh
<1>3. Paired(inflight, cmds', chan)
  BY <1>1, PairedTaken DEF Orderly, Uploading
<1>4. OldStarts(cmds, cmds') /\ \A nil : StartsFirst(cmds', nil)
  BY <1>2 DEF OldStarts, StartsFirst
<1> QED
  BY <1>1, <1>2, <1>3, <1>4 DEF Orderly, Fresh

Gone(z) == z.val = None /\ z.ver > 0

(* The events of a fetch that brought the engine where it is now: what it   *)
(* has passed for the first time is marked, or was looked for by a listing  *)
(* of everything that has ended.                                            *)
Reports(d) ==
    /\ chan' = chan \o d
    /\ \A k \in DOMAIN d : /\ d[k].ev \in {"fetched", "state", "complete", "error"}
                           /\ d[k].ev = "state" => k > 1 /\ d[k].at = engine'
    /\ \A e \in Entity :
          /\ engine'.pos[e] \in {engine.pos[e], cloud[e].ver}
          /\ Gone(cloud[e]) =>
                /\ \A k \in DOMAIN d : ~Syncs(e, d[k])
                /\ engine.pos[e] < cloud[e].ver /\ engine'.pos[e] = cloud[e].ver =>
                      \/ 1 \in DOMAIN d /\ Marks(e, d[1])
                      \/ engine.nil /\ Ends(d)

(* The events of a page, of a whole fetch or of one cut short are such.     *)
LEMMA PageReports ==
    ASSUME Inv, engine # None, NEW page \in SUBSET Changed, NEW whole \in SUBSET Entity,
           NEW last \in Event, last.ev \in {"complete", "error"},
           engine.nil => last.ev = "complete",
           chan' = chan \o ((IF page = {} THEN <<>>
                             ELSE << FetchedPage(page), StateAt(whole) >>) \o << last >>),
           engine' = Advance(whole) \/ (page = {} /\ engine' = engine),
           \A e \in whole : e \in page \/ e \notin Changed
    PROVE  \E d \in Seq(Event) : Reports(d)
<1> DEFINE f == FetchedPage(page)
           s == StateAt(whole)
           d == (IF page = {} THEN <<>> ELSE << f, s >>) \o << last >>
<1>1. /\ cloud \in [Entity -> CloudRecord] /\ engine \in Position
      /\ page \in SUBSET Entity
  BY DEF Inv, TypeOK, Changed
<1>2. /\ f \in Event /\ s \in Event
      /\ f.ev = "fetched" /\ s.ev = "state" /\ s.at = Advance(whole)
      /\ EntriesOf(f.recs) = {e \in page : cloud[e].val # None}
      /\ f.dels = {e \in page : cloud[e].val = None}
  <2>1. f \in Event /\ s \in Event
    BY <1>1, PageTyped DEF Inv
  <2>2. f.recs = {[e |-> e, rec |-> cloud[e]] : e \in {p \in page : cloud[p].val # None}}
    BY DEF FetchedPage
  <2>3. EntriesOf(f.recs) = {e \in page : cloud[e].val # None}
    <3>1. ASSUME NEW e \in page, cloud[e].val # None PROVE e \in EntriesOf(f.recs)
      <4>1. [e |-> e, rec |-> cloud[e]] \in f.recs
        BY <2>2, <3>1
      <4> QED
        BY <4>1 DEF EntriesOf
    <3>2. ASSUME NEW x \in f.recs PROVE x.e \in page /\ cloud[x.e].val # None
      BY <2>2, <3>2
    <3> HIDE DEF f
    <3> QED
      BY <3>1, <3>2 DEF EntriesOf
  <2> QED
    BY <2>1, <2>3 DEF FetchedPage, StateAt
<1> HIDE DEF f, s
<1>3. d = IF page = {} THEN << last >> ELSE << f, s, last >>
  <2>1. <<>> \o << last >> = << last >> /\ << f, s >> \o << last >> = << f, s, last >>
    BY <1>2, PairConcat
  <2> QED
    BY <2>1
<1>4. d \in Seq(Event)
  BY <1>2, <1>3
<1>5. /\ page = {} => DOMAIN d = {1} /\ d[1] = last
      /\ page # {} => DOMAIN d = {1, 2, 3} /\ d[1] = f /\ d[2] = s /\ d[3] = last
  BY <1>3
<1>6. chan' = chan \o d
  BY DEF f, s
<1> HIDE DEF d
<1>7. ASSUME NEW e \in Entity
      PROVE  Advance(whole).pos[e] =
                IF e \in whole \/ (engine.nil /\ cloud[e].val = None) THEN cloud[e].ver
                ELSE engine.pos[e]
  BY DEF Advance
<1>8. ASSUME NEW k \in DOMAIN d
      PROVE  /\ d[k].ev \in {"fetched", "state", "complete", "error"}
             /\ d[k].ev = "state" => k > 1 /\ d[k].at = engine'
  BY <1>2, <1>5
<1>9. ASSUME NEW e \in Entity PROVE engine'.pos[e] \in {engine.pos[e], cloud[e].ver}
  BY <1>7
<1>10. ASSUME NEW e \in Entity, Gone(cloud[e]), NEW k \in DOMAIN d PROVE ~Syncs(e, d[k])
  <2>1. e \notin EntriesOf(f.recs)
    BY <1>2, <1>10 DEF Gone
  <2> QED
    BY <1>2, <1>5, <2>1 DEF Syncs
<1>11. ASSUME NEW e \in Entity, Gone(cloud[e]), engine.pos[e] < cloud[e].ver,
              engine'.pos[e] = cloud[e].ver
       PROVE  (1 \in DOMAIN d /\ Marks(e, d[1])) \/ (engine.nil /\ Ends(d))
  <2>1. cloud[e].ver \in Nat /\ engine.pos[e] \in Nat
    BY <1>1 DEF CloudRecord, Position
  <2>2. CASE engine.nil
    <3>1. \E k \in DOMAIN d : d[k] = last
      BY <1>5
    <3> QED
      BY <2>2, <3>1 DEF Ends
  <2>3. CASE ~engine.nil
    <3>1. engine'.pos[e] # engine.pos[e]
      BY <1>11, <2>1
    <3>2. engine' = Advance(whole)
      BY <3>1
    <3>3. e \in whole
      BY <1>7, <2>3, <3>1, <3>2
    <3>4. e \in Changed
      BY <1>11, <2>1, <2>3 DEF Changed
    <3>5. e \in page
      BY <3>3, <3>4
    <3>6. e \in f.dels /\ 1 \in DOMAIN d /\ d[1] = f
      BY <1>2, <1>5, <1>11, <3>5 DEF Gone
    <3> QED
      BY <1>2, <3>6 DEF Marks
  <2> QED
    BY <2>2, <2>3
<1>12. Reports(d)
  BY <1>6, <1>8, <1>9, <1>10, <1>11 DEF Reports
<1> QED
  BY <1>4, <1>12

(* A step of the bridge that emits events.                                  *)
LEMMA EmitsOrderly ==
    ASSUME Inv, Orderly, NEW kind, Runs(kind), kind # "start",
           UNCHANGED <<store, ckpt, coreVars, toApply>>, staged' = {},
           NEW d \in Seq(Event), chan' = chan \o d,
           \A k \in DOMAIN d : /\ d[k].ev \notin {"sendfailed", "expired"}
                               /\ d[k].ev = "state" => ~d[k].at.nil,
           Paired(inflight, cmds', chan'),
           engine' # None, ~engine'.nil
    PROVE  Orderly' /\ OldStarts(cmds, cmds')
<1>1. /\ UNCHANGED <<store, ckpt, pendingState, staleSeen, toApply, inflight>>
      /\ up' = up /\ chan \in Seq(Event)
  BY DEF coreVars, Inv, TypeOK
<1>2. up /\ OldStarts(cmds, cmds') /\ \A nil : StartsFirst(cmds', nil)
  BY RunsOrderly
<1>3. Uploading'
  BY <1>1 DEF Orderly, Uploading, SteadyRows, Going
<1>4. ASSUME NEW k \in DOMAIN chan'
      PROVE  /\ chan'[k].ev \notin {"sendfailed", "expired"}
             /\ chan'[k].ev = "state" => ~chan'[k].at.nil
  <2>1. /\ Len(chan) \in Nat /\ Len(d) \in Nat
        /\ DOMAIN chan = 1 .. Len(chan) /\ DOMAIN d = 1 .. Len(d)
        /\ DOMAIN chan' = 1 .. Len(chan) + Len(d)
        /\ chan'[k] = IF k <= Len(chan) THEN chan[k] ELSE d[k - Len(chan)]
    BY <1>1, ConcatProperties, LenProperties
  <2>2. CASE k <= Len(chan)
    BY <2>1, <2>2 DEF Orderly, Regular
  <2>3. CASE ~(k <= Len(chan))
    <3>1. k - Len(chan) \in DOMAIN d /\ chan'[k] = d[k - Len(chan)]
      BY <2>1, <2>3
    <3> QED
      BY <3>1
  <2> QED
    BY <2>2, <2>3
<1>5. Regular' /\ AtRest'
  BY <1>1, <1>2, <1>4 DEF Orderly, Regular, AtRest
<1>6. Fresh'
  BY <1>2 DEF Fresh
<1> QED
  BY <1>2, <1>3, <1>5, <1>6 DEF Orderly

(* A fetch.                                                                 *)
LEMMA ReportsOrderly ==
    ASSUME Inv, Orderly, Runs("fetch"), engine # None, NEW d \in Seq(Event), Reports(d),
           UNCHANGED <<store, ckpt, coreVars, toApply, staged>>,
           engine' # None, ~engine'.nil
    PROVE  Orderly' /\ OldStarts(cmds, cmds')
<1>1. /\ chan' = chan \o d
      /\ \A k \in DOMAIN d : /\ d[k].ev \notin {"sendfailed", "expired"}
                             /\ d[k].ev = "state" => ~d[k].at.nil
      /\ \A k \in DOMAIN d : Answers(d[k]) = {}
  BY DEF Reports, Answers
<1>2. cmds \in Seq(Command) /\ chan \in Seq(Event)
  BY DEF Inv, TypeOK
<1>3. Paired(inflight, cmds', chan)
  BY RunsOrderly
<1>4. Paired(inflight, cmds', chan')
  BY <1>1, <1>2, <1>3, PairedMail
<1>5. staged' = {}
  BY DEF Orderly, Regular
<1> QED
  BY <1>1, <1>4, <1>5, EmitsOrderly

(* A whole fetch.                                                           *)
LEMMA FetchOrderly ==
    ASSUME Inv, Orderly, EngineFetch
    PROVE  Orderly' /\ OldStarts(cmds, cmds') /\ \E d \in Seq(Event) : Reports(d)
<1> DEFINE last == [ev |-> "complete"]
<1>1. /\ Runs("fetch") /\ engine # None /\ engine' = Advance(Entity)
      /\ chan' = chan \o ((IF Changed = {} THEN <<>>
                           ELSE << FetchedPage(Changed), StateAt(Entity) >>) \o << last >>)
      /\ UNCHANGED <<store, ckpt, coreVars, toApply, staged>>
  BY DEF EngineFetch, Emits
<1>2. last \in Event /\ last.ev \in {"complete", "error"} /\ last.ev = "complete"
  BY DEF Event
<1> HIDE DEF last
<1>3. \E d \in Seq(Event) : Reports(d)
  <2>1. Changed \in SUBSET Changed /\ Entity \in SUBSET Entity
    OBVIOUS
  <2> QED
    BY <1>1, <1>2, <2>1, PageReports
<1>4. engine' \in Position /\ ~engine'.nil /\ engine' # None
  <2>1. engine' \in Position
    BY <1>1, PageTyped DEF Inv
  <2> QED
    BY <1>1, <2>1, MacAssumption DEF Advance
<1>5. Orderly' /\ OldStarts(cmds, cmds')
  BY <1>1, <1>3, <1>4, ReportsOrderly
<1> QED
  BY <1>3, <1>5

(* A fetch cut short, by an engine that has a position.                     *)
LEMMA FetchFailsOrderly ==
    ASSUME Inv, Orderly, CatchesUp, NEW page \in SUBSET Entity, EngineFetchFails(page)
    PROVE  Orderly' /\ OldStarts(cmds, cmds') /\ \E d \in Seq(Event) : Reports(d)
<1> DEFINE last == [ev |-> "error"]
<1>1. /\ Runs("fetch") /\ engine # None /\ page \subseteq Changed
      /\ engine' = IF page = {} THEN engine ELSE Advance(page)
      /\ chan' = chan \o ((IF page = {} THEN <<>>
                           ELSE << FetchedPage(page), StateAt(page) >>) \o << last >>)
      /\ UNCHANGED <<store, ckpt, coreVars, toApply, staged>>
  BY DEF EngineFetchFails, Emits
<1>2. last \in Event /\ last.ev \in {"complete", "error"}
  BY DEF Event
<1> HIDE DEF last
<1>3. ~engine.nil
  <2>1. CASE "away" \in Faults
    BY <1>1, <2>1 DEF CatchesUp
  <2>2. CASE "away" \notin Faults
    <3>1. staleSeen = None
      BY <2>2 DEF Orderly, Regular
    <3>2. engine.nil => staleSeen = {}
      BY <1>1, RunsOrderly
    <3>3. {} \in SUBSET Entity
      OBVIOUS
    <3> QED
      BY <3>1, <3>2, <3>3, MacAssumption
  <2> QED
    BY <2>1, <2>2
<1>4. \E d \in Seq(Event) : Reports(d)
  BY <1>1, <1>2, <1>3, PageReports
<1>5. engine' # None /\ ~engine'.nil
  <2>1. Advance(page) \in Position
    BY <1>1, PageTyped DEF Inv
  <2> QED
    BY <1>1, <1>3, <2>1, MacAssumption DEF Advance
<1>6. Orderly' /\ OldStarts(cmds, cmds')
  BY <1>1, <1>4, <1>5, ReportsOrderly
<1> QED
  BY <1>4, <1>6

(* The bridge starts the engine.                                            *)
LEMMA StartOrderly ==
    ASSUME Inv, Orderly, EngineStart
    PROVE  Orderly' /\ OldStarts(cmds, cmds')
<1>1. /\ Runs("start") /\ engine' = Head(cmds).at /\ staged' = {}
      /\ UNCHANGED <<store, ckpt, coreVars, toApply, chan, cloud, left>>
  BY DEF EngineStart
<1>2. /\ up /\ OldStarts(cmds, cmds') /\ \A nil : StartsFirst(cmds', nil)
      /\ Paired(inflight, cmds', chan)
      /\ chan = <<>> /\ toApply = <<>>
      /\ Head(cmds).at.nil => Beginning(cmds', staleSeen)
  BY <1>1, RunsOrderly
<1>3. engine' \in Position /\ engine' # None
  <2>1. Head(cmds) \in Command /\ Head(cmds).cmd = "start"
    BY <1>1, RunsTyped DEF Inv
  <2> QED
    BY <1>1, <2>1, CommandTyped, MacAssumption
<1>4. /\ UNCHANGED <<pendingState, staleSeen, inflight>> /\ up' = up
  BY <1>1 DEF coreVars
<1> QED
  BY <1>1, <1>2, <1>3, <1>4
     DEF Orderly, Uploading, SteadyRows, Going, Regular, AtRest, Fresh

(* How the zone answers an upload that deletes nothing.                     *)
LEMMA UploadAnswered ==
    ASSUME NEW c \in Change, c.val # None, NEW flaky,
           NEW a, a = IF c.e \in flaky THEN NoAnswer(c) ELSE Answer(c)
    PROVE  /\ a.e = c.e /\ a.q = c.q /\ a.kind # "deleted"
           /\ a.kind = "saved" => a.rec.val = c.val
           /\ a.kind = "conflict" => cloud[c.e].val # None
           /\ a.rec = cloud[c.e] \/ (a.rec.val = c.val /\ a.rec.ver = cloud[c.e].ver + 1)
<1> DEFINE r == cloud[c.e]
           kind == IF r.val # None /\ c.tag # r.ver THEN "conflict"
                   ELSE IF r.val = None /\ c.tag # 0 THEN "unknown"
                   ELSE "saved"
           saved == [val |-> c.val, ver |-> r.ver + 1, rev |-> c.rev, at |-> c.at, dev |-> Me]
<1>1. Answer(c) = [e |-> c.e, q |-> c.q, kind |-> kind,
                   rec |-> IF kind = "saved" THEN saved ELSE r]
  BY DEF Answer
<1>2. NoAnswer(c) = [e |-> c.e, q |-> c.q, kind |-> "retry", rec |-> r]
  BY DEF NoAnswer
<1>3. /\ kind \in {"conflict", "unknown", "saved"} /\ (kind = "conflict" => r.val # None)
      /\ saved.val = c.val /\ saved.ver = r.ver + 1
  OBVIOUS
<1> HIDE DEF kind, saved, r
<1>4. CASE a = Answer(c)
  BY <1>1, <1>3, <1>4 DEF r
<1>5. CASE a = NoAnswer(c)
  BY <1>2, <1>5 DEF r
<1> QED
  BY <1>4, <1>5

(* The answer to a send: about what is deleted it says nothing new.         *)
Replies(m) ==
    /\ m.ev = "sent" /\ chan' = chan \o << m >>
    /\ \A e \in Entity :
          /\ engine'.pos[e] \in {engine.pos[e], cloud'[e].ver}
          /\ Gone(cloud'[e]) =>
                cloud'[e] = cloud[e] /\ ~Syncs(e, m) /\ engine'.pos[e] = engine.pos[e]

(* A send in which single records may fail.                                 *)
LEMMA SendOrderly ==
    ASSUME Inv, Orderly, NEW flaky \in SUBSET Entity, NEW told \in SUBSET Entity,
           EngineSend(flaky, told)
    PROVE  /\ Orderly' /\ OldStarts(cmds, cmds') /\ Moves(cloud, cloud')
           /\ \E m \in Event : Replies(m)
<1> DEFINE answer(c) == IF c.e \in flaky THEN NoAnswer(c) ELSE Answer(c)
           results == {answer(c) : c \in Restaged}
           mine == {r.e : r \in {r \in results : r.kind \in {"saved", "deleted"}}} \ told
           pos == [e \in Entity |-> IF e \in mine THEN CloudAfter(results)[e].ver
                                    ELSE engine.pos[e]]
           m == [ev |-> "sent", results |-> results]
<1>1. /\ Runs("send")
      /\ cloud' = CloudAfter(results)
      /\ staged' = {}
      /\ engine' = IF engine = None THEN None ELSE IF engine.nil \/ mine = {} THEN engine
                   ELSE [engine EXCEPT !.pos = pos]
      /\ chan' = chan \o << m >>
      /\ UNCHANGED <<store, ckpt, coreVars, toApply>>
  BY DEF EngineSend, Emits
<1>2. /\ cmds \in Seq(Command) /\ chan \in Seq(Event) /\ cloud \in [Entity -> CloudRecord]
      /\ staged = {} /\ engine \in Position /\ engine # None
      /\ Paired(inflight, cmds, chan) /\ Going(inflight, store)
      /\ cmds # <<>> /\ Head(cmds).cmd = "send" /\ cmds' = Tail(cmds)
  BY <1>1 DEF Inv, TypeOK, Orderly, Regular, Uploading, Runs
<1>3. ~engine.nil
  BY <1>1, RunsOrderly
<1>4. Restaged = Offers(Head(cmds)) /\ Restaged \in SUBSET Change /\ IsFiniteSet(Restaged)
  <2>1. Restaged \in SUBSET Change /\ IsFiniteSet(Restaged)
    BY <1>1, RestagedTyped DEF Inv
  <2> QED
    BY <1>2, <2>1 DEF Restaged, Offers
<1>5. 1 \in DOMAIN cmds /\ Head(cmds) = cmds[1]
  BY <1>2, HeadTailProperties, LenProperties, EmptySeq
<1>6. /\ \A x, y \in Restaged : x.e = y.e => x = y
      /\ \A x \in Restaged : [e |-> x.e, q |-> x.q, val |-> x.val] \in inflight
      /\ \A k \in DOMAIN chan : \A x \in Restaged, y \in Answers(chan[k]) : x.e # y.e
  BY <1>2, <1>4, <1>5 DEF Paired, Matched, Single
<1>7. ASSUME NEW c \in Restaged PROVE c.val # None
  <2> DEFINE i == [e |-> c.e, q |-> c.q, val |-> c.val]
  <2>1. i \in inflight /\ i.val = c.val
    BY <1>6
  <2> HIDE DEF i
  <2> QED
    BY <1>2, <2>1 DEF Going
<1>8. ASSUME NEW c \in Restaged
      PROVE  /\ answer(c).e = c.e /\ answer(c).q = c.q /\ answer(c).kind # "deleted"
             /\ answer(c).kind = "saved" => answer(c).rec.val = c.val
             /\ answer(c).kind = "conflict" => cloud[c.e].val # None
             /\ \/ answer(c).rec = cloud[c.e]
                \/ answer(c).rec.val = c.val /\ answer(c).rec.ver = cloud[c.e].ver + 1
  BY <1>4, <1>7, UploadAnswered
<1>9. \A r \in results : \E c \in Restaged : r = answer(c)
  OBVIOUS
<1>10. results \in SUBSET Result /\ IsFiniteSet(results)
  <2>1. \A c \in Restaged : answer(c) \in Result
    BY <1>4, AnswerTyped DEF Inv
  <2> DEFINE f == [c \in Restaged |-> answer(c)]
  <2>2. f \in Surjection(Restaged, results)
    BY DEF Surjection
  <2>3. IsFiniteSet(results)
    BY <1>4, <2>2, FS_Surjection
  <2> HIDE DEF answer
  <2> QED
    BY <2>1, <2>3
<1> HIDE DEF answer
<1>11. \A e \in mine : \E r \in results : r.e = e /\ r.kind \in {"saved", "deleted"}
  OBVIOUS
<1> HIDE DEF results, mine
<1>12. m \in Event /\ m.ev = "sent" /\ m.results = results /\ Answers(m) = results
  BY <1>10 DEF Event, FiniteSubset, Answers
<1> HIDE DEF m
<1>13. ASSUME NEW r \in results, NEW y \in results, r.e = y.e PROVE r = y
  <2>1. PICK c \in Restaged : r = answer(c)
    BY <1>9
  <2>2. PICK d \in Restaged : y = answer(d)
    BY <1>9
  <2>3. c = d
    BY <1>6, <1>8, <1>13, <2>1, <2>2
  <2> QED
    BY <2>1, <2>2, <2>3
<1>14. ASSUME NEW r \in results
       PROVE  /\ r.e \in Entity /\ cloud'[r.e] = r.rec /\ r.kind # "deleted"
              /\ r.kind = "saved" => r.rec.val # None
              /\ r.kind = "conflict" => cloud[r.e].val # None
              /\ \/ r.rec = cloud[r.e]
                 \/ r.rec.val # None /\ r.rec.ver = cloud[r.e].ver + 1
              /\ \E i \in inflight : i.e = r.e /\ i.q = r.q
                                     /\ (r.kind = "saved" => r.rec.val = i.val)
  <2>1. PICK c \in Restaged : r = answer(c)
    BY <1>9
  <2>2. c.val # None /\ r.e = c.e /\ r.q = c.q
    BY <1>7, <1>8, <2>1
  <2>3. r.e \in Entity
    BY <1>10 DEF Result
  <2>4. cloud'[r.e] = r.rec
    <3>1. r.e \in EntriesOf(results)
      BY DEF EntriesOf
    <3>2. (CHOOSE y \in results : y.e = r.e) = r
      BY <1>13
    <3> QED
      BY <1>1, <2>3, <3>1, <3>2 DEF CloudAfter
  <2>5. \E i \in inflight : i.e = r.e /\ i.q = r.q /\ (r.kind = "saved" => r.rec.val = i.val)
    <3> DEFINE i == [e |-> c.e, q |-> c.q, val |-> c.val]
    <3>1. i \in inflight /\ i.e = c.e /\ i.q = c.q /\ i.val = c.val
      BY <1>6
    <3> HIDE DEF i
    <3> QED
      BY <1>8, <2>1, <2>2, <3>1
  <2> QED
    BY <1>8, <2>1, <2>2, <2>3, <2>4, <2>5
<1>15. \A e \in Entity : (\A r \in results : r.e # e) => cloud'[e] = cloud[e]
  BY <1>1, <1>2 DEF CloudAfter, EntriesOf
<1>16. Moves(cloud, cloud')
  <2> SUFFICES ASSUME NEW e \in Entity PROVE cloud'[e] = cloud[e] \/ cloud'[e].ver > cloud[e].ver
    BY DEF Moves
  <2>1. cloud[e].ver \in Nat
    BY <1>2 DEF CloudRecord
  <2> QED
    BY <1>14, <1>15, <2>1
<1>17. engine' # None /\ engine'.nil = engine.nil
       /\ \A e \in Entity : \/ engine'.pos[e] = engine.pos[e]
                            \/ e \in mine /\ engine'.pos[e] = cloud'[e].ver
  <2>1. CASE engine' = engine
    BY <1>2, <2>1
  <2>2. CASE engine' = [engine EXCEPT !.pos = pos]
    <3>1. \A e \in Entity : cloud'[e].ver \in Nat /\ engine.pos[e] \in Nat
      <4>1. CloudAfter(results) \in [Entity -> CloudRecord]
        BY <1>10, CloudAfterTyped DEF Inv
      <4> QED
        BY <1>1, <1>2, <4>1 DEF CloudRecord, Position
    <3>2. pos \in [Entity -> Nat]
      BY <1>1, <3>1
    <3>3. \A e \in Entity : pos[e] = IF e \in mine THEN cloud'[e].ver ELSE engine.pos[e]
      BY <1>1
    <3> HIDE DEF pos
    <3>4. engine' \in Position /\ engine'.nil = engine.nil /\ engine'.pos = pos
      BY <1>2, <2>2, <3>2 DEF Position
    <3> QED
      BY <3>3, <3>4, MacAssumption
  <2> QED
    BY <1>1, <1>2, <2>1, <2>2
<1>18. Replies(m)
  <2> SUFFICES ASSUME NEW e \in Entity
               PROVE  /\ engine'.pos[e] \in {engine.pos[e], cloud'[e].ver}
                      /\ Gone(cloud'[e]) => /\ cloud'[e] = cloud[e] /\ ~Syncs(e, m)
                                            /\ engine'.pos[e] = engine.pos[e]
    BY <1>1, <1>12 DEF Replies
  <2>1. ASSUME Gone(cloud'[e]) PROVE cloud'[e] = cloud[e]
    BY <1>14, <1>15, <2>1 DEF Gone
  <2>2. ASSUME Gone(cloud'[e]), NEW r \in results, r.e = e
        PROVE  r.kind \notin {"saved", "conflict", "deleted"}
    BY <1>14, <2>1, <2>2 DEF Gone
  <2>3. Gone(cloud'[e]) => ~Syncs(e, m)
    BY <1>12, <2>2 DEF Syncs
  <2>4. Gone(cloud'[e]) => e \notin mine
    BY <1>11, <2>2
  <2> QED
    BY <1>17, <2>1, <2>3, <2>4
<1>19. Paired(inflight, cmds', chan')
  <2>1. /\ Paired(inflight, cmds', chan)
        /\ \A k \in DOMAIN cmds' : \A x \in Offers(cmds'[k]) :
              \A y \in Offers(Head(cmds)) : x.e # y.e
    BY <1>2, PairedTaken
  <2>2. \A k \in DOMAIN cmds' : \A x \in Offers(cmds'[k]), r \in Answers(m) : x.e # r.e
    BY <1>4, <1>8, <1>9, <1>12, <2>1
  <2>3. \A k \in DOMAIN chan : \A y \in Answers(chan[k]), r \in Answers(m) : y.e # r.e
    BY <1>6, <1>8, <1>9, <1>12
  <2> HIDE DEF answer
  <2>6. \A r \in Answers(m) :
           \E i \in inflight : i.e = r.e /\ i.q = r.q /\ (r.kind = "saved" => r.rec.val = i.val)
    BY <1>12, <1>14
  <2>7. \A r, y \in Answers(m) : r.e = y.e => r = y
    BY <1>12, <1>13
  <2>4. Paired(inflight, cmds', Append(chan, m))
    <3>1. chan \in Seq(Event) /\ m \in Event /\ Paired(inflight, cmds', chan)
      BY <1>2, <1>12, <2>1
    <3> QED
      BY <2>2, <2>3, <2>6, <2>7, <3>1, PairedSent
  <2>5. chan' = Append(chan, m)
    BY <1>1, <1>2, <1>12, AppendIsConcat
  <2> QED
    BY <2>4, <2>5
<1>20. Orderly' /\ OldStarts(cmds, cmds')
  <2>1. << m >> \in Seq(Event) /\ \A k \in DOMAIN << m >> : << m >>[k].ev = "sent"
    BY <1>12
  <2> QED
    BY <1>1, <1>3, <1>17, <1>19, <2>1, EmitsOrderly
<1> QED
  BY <1>12, <1>16, <1>18, <1>20

-----------------------------------------------------------------------------
(* The rest: a start of the program, a crash, a batch that is applied.      *)

(* The program starts: at the checkpoint, or from nothing.                  *)
LEMMA LaunchOrderly ==
    ASSUME Inv, Orderly, NEW away \in BOOLEAN, Launch(away)
    PROVE  /\ Orderly' /\ store' = store
           /\ \A k \in DOMAIN cmds' : cmds'[k].cmd = "start" => cmds'[k].at \in {NoPosition, ckpt}
<1> DEFINE at == IF away THEN NoPosition ELSE ckpt
           out == << [cmd |-> "start", at |-> at], [cmd |-> "fetch"] >>
<1>1. /\ ~up /\ up' = TRUE
      /\ away => "away" \in Faults
      /\ staleSeen' = IF away THEN {} ELSE None
      /\ Pump(store, {}, TRUE, FALSE, out)
      /\ UNCHANGED <<pendingState, ckpt, toApply, chan, engine, staged, cloud>>
  BY DEF Launch, Fault
<1>2. /\ cmds = <<>> /\ chan = <<>> /\ toApply = <<>> /\ pendingState = None /\ engine.nil
      /\ ~ckpt.nil
  BY <1>1 DEF Orderly, AtRest, Regular
<1>3. /\ at \in Position /\ (at.nil => away) /\ at \in {NoPosition, ckpt}
  BY <1>2 DEF NoPosition, Position, Inv, TypeOK
<1> HIDE DEF at
<1>4. out \in Seq(Command)
  BY <1>3 DEF Command
<1>5. /\ DOMAIN out = 1 .. 2 /\ Len(out) > 1 /\ out # <<>>
      /\ out[1] = [cmd |-> "start", at |-> at] /\ out[2] = [cmd |-> "fetch"]
  OBVIOUS
<1> HIDE DEF out
<1>6. Paired({}, out, chan)
  <2>1. \A k \in DOMAIN out : Offers(out[k]) = {}
    BY <1>5 DEF Offers
  <2>2. DOMAIN chan = {}
    BY <1>2
  <2> QED
    BY <2>1, <2>2 DEF Paired, Matched, Single
<1>7. /\ store' = store
      /\ SteadyRows(store') /\ Going(inflight', store') /\ Paired(inflight', cmds', chan)
      /\ Adds(out, cmds')
  <2>1. {} \in SUBSET Inflight /\ store \in [Entity -> Stored]
    BY DEF Inv, TypeOK
  <2>2. SteadyRows(store) /\ Going({}, store)
    BY DEF Orderly, Uploading, Going
  <2> QED
    BY <1>1, <1>4, <1>6, <2>1, <2>2, PumpUploading
<1>8. Beginning(out, staleSeen') /\ StartsFirst(out, engine.nil)
  BY <1>1, <1>2, <1>3, <1>5 DEF Beginning, StartsFirst
<1>9. Beginning(cmds', staleSeen') /\ StartsFirst(cmds', engine.nil)
  BY <1>4, <1>7, <1>8, BeginningAdds
<1>10. Orderly'
  BY <1>1, <1>2, <1>7, <1>9
     DEF Orderly, Uploading, SteadyRows, Regular, AtRest, Fresh
<1>11. OldStarts(out, cmds')
  BY <1>4, <1>7, AddsNoStart
<1> QED
  BY <1>3, <1>5, <1>7, <1>10, <1>11 DEF OldStarts

(* The program ends.                                                        *)
LEMMA CrashOrderly ==
    ASSUME Inv, Orderly, Crash
    PROVE  Orderly'
<1>1. /\ up' = FALSE /\ inflight' = {} /\ staged' = {} /\ pendingState' = None
      /\ staleSeen' = None /\ toApply' = <<>> /\ cmds' = <<>> /\ chan' = <<>>
      /\ engine' = NoPosition
      /\ UNCHANGED <<store, ckpt, cloud>>
  BY DEF Crash
<1>2. NoPosition \in Position /\ NoPosition.nil /\ DOMAIN <<>> = {}
  BY DEF NoPosition, Position
<1>3. Uploading'
  BY <1>1, <1>2 DEF Orderly, Uploading, SteadyRows, Going, Paired, Matched, Single
<1>4. Regular'
  BY <1>1, <1>2, MacAssumption DEF Orderly, Regular
<1>5. AtRest' /\ Fresh'
  BY <1>1, <1>2 DEF AtRest, Fresh, StartsFirst
<1> QED
  BY <1>3, <1>4, <1>5 DEF Orderly

(* The app thread applies a batch.                                          *)
LEMMA ApplyOrderly ==
    ASSUME Inv, Orderly, NEW now \in Times, Apply(now)
    PROVE  /\ Orderly' /\ toApply # <<>>
           /\ \A e \in Entity :
                 e \notin EntriesOf(Head(toApply).recs)
                   /\ (store[e].synced = None \/ e \in Head(toApply).dels) =>
                 store'[e].synced = None
<1> DEFINE b == Head(toApply)
           m == [ev |-> "applied"]
<1>1. /\ up /\ toApply # <<>>
      /\ store' = [e \in Entity |-> Applied(b, e, now)]
      /\ toApply' = Tail(toApply) /\ chan' = Append(chan, m)
      /\ UNCHANGED <<ckpt, cmds, engine, staged, cloud, up, inflight, pendingState, staleSeen>>
  BY DEF Apply, coreVars
<1>2. /\ toApply \in Seq(Batch) /\ chan \in Seq(Event) /\ inflight \in SUBSET Inflight
      /\ now \in Nat /\ m \in Event
  BY MacAssumption DEF Inv, TypeOK, Event
<1>3. b \in Batch
  BY <1>1, <1>2, HeadTailProperties
<1>4. ASSUME NEW e \in Entity
      PROVE  /\ Queued(store[e], store'[e])
             /\ e \notin EntriesOf(b.recs) /\ (store[e].synced = None \/ e \in b.dels) =>
                   store'[e].synced = None
  <2> DEFINE recs == {x \in b.recs : x.e = e}
  <2>1. store[e] \in Stored /\ Steady(store[e])
    BY DEF Inv, TypeOK, Orderly, Uploading, SteadyRows
  <2>2. store'[e] = Applied(b, e, now)
    BY <1>1
  <2>3. CASE recs # {}
    <3> DEFINE r == (CHOOSE x \in recs : TRUE).rec
    <3>1. r \in CloudRecord /\ r.val # None
      <4>1. (CHOOSE x \in recs : TRUE) \in recs
        BY <2>3
      <4> QED
        BY <1>3, <4>1 DEF Batch, Fetched
    <3>2. store'[e] = ApplyRecord(e, store[e], r, now)
      BY <2>2, <2>3 DEF Applied
    <3> HIDE DEF r
    <3>3. Queued(store[e], store'[e])
      BY <1>2, <2>1, <3>1, <3>2, SteadyRecord
    <3>4. e \in EntriesOf(b.recs)
      BY <2>3 DEF EntriesOf
    <3> QED
      BY <3>3, <3>4
  <2>4. CASE recs = {} /\ e \in b.dels
    <3>1. store'[e] = ApplyDeletion(store[e], now)
      BY <2>2, <2>4 DEF Applied
    <3> QED
      BY <1>2, <2>1, <3>1, SteadyDeletion
  <2>5. CASE recs = {} /\ e \notin b.dels
    <3>1. store'[e] = store[e]
      BY <2>2, <2>5 DEF Applied
    <3> QED
      BY <2>1, <2>5, <3>1, SteadyWait DEF Still
  <2> QED
    BY <2>3, <2>4, <2>5
<1>5. Paired(inflight, cmds, chan')
  <2>1. << m >> \in Seq(Event) /\ \A k \in DOMAIN << m >> : Answers(<< m >>[k]) = {}
    BY <1>2 DEF Answers
  <2>2. chan' = chan \o << m >>
    BY <1>1, <1>2, AppendIsConcat
  <2>3. Paired(inflight, cmds, chan)
    BY DEF Orderly, Uploading
  <2> QED
    BY <1>2, <2>1, <2>2, <2>3, PairedMail
<1>6. Uploading'
  <2>1. \A i \in inflight : i.e \in Entity
    BY <1>2 DEF Inflight
  <2> QED
    BY <1>1, <1>4, <1>5, <2>1 DEF Orderly, Uploading, SteadyRows, Going, Queued
<1>7. Regular'
  <2>1. \A k \in DOMAIN chan' : (k \in DOMAIN chan /\ chan'[k] = chan[k]) \/ chan'[k] = m
    BY <1>1, <1>2, AppendProperties, LenProperties
  <2>2. \A k \in DOMAIN chan' : /\ chan'[k].ev \notin {"sendfailed", "expired"}
                                /\ chan'[k].ev = "state" => ~chan'[k].at.nil
    BY <2>1 DEF Orderly, Regular
  <2> QED
    BY <1>1, <2>2 DEF Orderly, Regular
<1>8. AtRest' /\ Fresh'
  BY <1>1 DEF Orderly, AtRest, Fresh
<1> QED
  BY <1>1, <1>4, <1>6, <1>7, <1>8 DEF Orderly

-----------------------------------------------------------------------------
(* Deletions made elsewhere: what each position owes that the engine has    *)
(* reached or may start from.                                               *)

(* p has not overtaken the cloud z; a deletion that it has reached is owed. *)
Heeds(z, st, seen, b, c, p, n, where) ==
    \A e \in Entity :
        /\ p.pos[e] <= z[e].ver
        /\ Gone(z[e]) /\ p.pos[e] = z[e].ver => Owed(e, st[e], seen, b, c, n, where)

Heeding(z, st, ck, pending, out, seen, b, c, at) ==
    /\ Heeds(z, st, seen, b, c, ck, 0, "disk")
    /\ \A k \in DOMAIN out :
           out[k].cmd = "start" => Heeds(z, st, seen, b, c, out[k].at, 0, "memory")
    /\ pending # None => Heeds(z, st, seen, b, c, pending, 0, "memory")
    /\ \A k \in DOMAIN c :
           c[k].ev = "state" => Heeds(z, st, seen, b, c, c[k].at, k - 1, "memory")
    /\ Heeds(z, st, seen, b, c, at, Len(c), "memory")

Heedful ==
    Heeding(cloud, store, ckpt, pendingState, cmds, staleSeen, toApply, chan, engine)

(* The cloud moves on, and the store syncs nothing more.                    *)
LEMMA HeedsStill ==
    ASSUME NEW z \in [Entity -> CloudRecord], NEW w \in [Entity -> CloudRecord], Moves(z, w),
           NEW st, NEW t, \A e \in Entity : st[e].synced = None => t[e].synced = None,
           NEW seen, NEW b \in Seq(Batch), NEW c \in Seq(Event), NEW p \in Position,
           NEW n \in Nat, NEW m \in Nat, n <= m, NEW where,
           Heeds(z, st, seen, b, c, p, n, where)
    PROVE  /\ Heeds(w, t, seen, b, c, p, m, where)
           /\ Heeds(w, t, seen, b, c, p, m, "memory")
           /\ b = <<>> => Heeds(w, t, seen, b, c, p, m, "disk")
<1>1. ASSUME NEW e \in Entity
      PROVE  /\ p.pos[e] <= w[e].ver
             /\ Gone(w[e]) /\ p.pos[e] = w[e].ver =>
                   /\ Owed(e, t[e], seen, b, c, m, where)
                   /\ Owed(e, t[e], seen, b, c, m, "memory")
                   /\ b = <<>> => Owed(e, t[e], seen, b, c, m, "disk")
  <2>1. z[e].ver \in Nat /\ w[e].ver \in Nat /\ p.pos[e] \in Nat /\ p.pos[e] <= z[e].ver
    BY DEF CloudRecord, Position, Heeds
  <2>2. CASE w[e] = z[e]
    <3>1. ASSUME Gone(z[e]), p.pos[e] = z[e].ver
          PROVE  /\ Owed(e, t[e], seen, b, c, m, where)
                 /\ Owed(e, t[e], seen, b, c, m, "memory")
                 /\ b = <<>> => Owed(e, t[e], seen, b, c, m, "disk")
      <4>1. Owed(e, st[e], seen, b, c, n, where)
        BY <3>1 DEF Heeds
      <4>2. st[e].synced = None => t[e].synced = None
        OBVIOUS
      <4>3. /\ Owed(e, t[e], seen, b, c, m, where)
            /\ Owed(e, t[e], seen, b, c, m, "memory")
            /\ b = <<>> => Owed(e, t[e], seen, b, c, m, "disk")
        BY <4>1, <4>2, OwedStill
      <4> QED
        BY <4>3
    <3> QED
      BY <2>1, <2>2, <3>1
  <2>3. CASE w[e].ver > z[e].ver
    <3>1. p.pos[e] <= w[e].ver /\ p.pos[e] # w[e].ver
      BY <2>1, <2>3
    <3> QED
      BY <3>1
  <2> QED
    BY <2>2, <2>3 DEF Moves
<1> QED
  BY <1>1 DEF Heeds

(* Events are added that list nothing which is gone.                        *)
LEMMA HeedsEmitted ==
    ASSUME NEW z, NEW st, NEW seen, NEW b \in Seq(Batch), NEW c \in Seq(Event),
           NEW d \in Seq(Event), NEW p, NEW n \in Nat, NEW where,
           \A e \in Entity : Gone(z[e]) => \A k \in DOMAIN d : ~Syncs(e, d[k]),
           Heeds(z, st, seen, b, c, p, n, where)
    PROVE  Heeds(z, st, seen, b, c \o d, p, n, where)
<1>1. ASSUME NEW e \in Entity, Gone(z[e]), p.pos[e] = z[e].ver
      PROVE  Owed(e, st[e], seen, b, c \o d, n, where)
  <2>1. Owed(e, st[e], seen, b, c, n, where)
    BY <1>1 DEF Heeds
  <2> QED
    BY <1>1, <2>1, OwedEmitted
<1> QED
  BY <1>1 DEF Heeds

(* Of a machine at rest.                                                    *)
LEMMA HeedsAtRest ==
    ASSUME NEW z, NEW st, NEW seen, NEW after, NEW p, NEW n \in Nat, NEW m \in Nat,
           NEW where, NEW there,
           Heeds(z, st, seen, <<>>, <<>>, p, n, where)
    PROVE  Heeds(z, st, after, <<>>, <<>>, p, m, there)
<1>1. ASSUME NEW e \in Entity, Gone(z[e]), p.pos[e] = z[e].ver
      PROVE  Owed(e, st[e], after, <<>>, <<>>, m, there)
  <2>1. Owed(e, st[e], seen, <<>>, <<>>, n, where)
    BY <1>1 DEF Heeds
  <2>2. st[e].synced = None
    BY <2>1, OwedAtRest
  <2>3. DOMAIN <<>> = {}
    OBVIOUS
  <2> QED
    BY <2>2, <2>3 DEF Owed, Noted, Silent
<1> QED
  BY <1>1 DEF Heeds

(* Positions that the parts hold are positions.                             *)
LEMMA PositionsTyped ==
    ASSUME TypeOK
    PROVE  /\ ckpt \in Position
           /\ \A k \in DOMAIN cmds : cmds[k].cmd = "start" => cmds[k].at \in Position
           /\ pendingState # None => pendingState \in Position
           /\ \A k \in DOMAIN chan : chan[k].ev = "state" => chan[k].at \in Position /\ k - 1 \in Nat
           /\ engine # None => engine \in Position
           /\ Len(chan) \in Nat
<1>1. \A k \in DOMAIN cmds : cmds[k] \in Command
  BY ElementOfSeq, LenProperties DEF TypeOK
<1>2. \A k \in DOMAIN chan : chan[k] \in Event /\ k - 1 \in Nat
  BY ElementOfSeq, LenProperties DEF TypeOK
<1>3. Len(chan) \in Nat
  BY LenProperties DEF TypeOK
<1> QED
  BY <1>1, <1>2, <1>3, CommandTyped, EventTyped DEF TypeOK

(* Users and timers.                                                        *)
LEMMA CalmHeeds ==
    ASSUME Inv, Inv', Orderly, Heedful, Calm
    PROVE  Heedful'
<1>1. /\ cloud \in [Entity -> CloudRecord] /\ cloud' \in [Entity -> CloudRecord]
      /\ toApply \in Seq(Batch) /\ chan \in Seq(Event)
      /\ Moves(cloud, cloud') /\ \A e \in Entity : store[e].synced = None => store'[e].synced = None
      /\ OldStarts(cmds, cmds')
      /\ UNCHANGED <<ckpt, pendingState, staleSeen, toApply, chan, engine>>
  BY DEF Inv, TypeOK, Calm, Unsynced
<1>2. ASSUME NEW p \in Position, NEW n \in Nat, NEW where,
             Heeds(cloud, store, staleSeen, toApply, chan, p, n, where)
      PROVE  Heeds(cloud', store', staleSeen, toApply, chan, p, n, where)
  <2>1. n <= n
    OBVIOUS
  <2> QED
    BY <1>1, <1>2, <2>1, HeedsStill
<1>3. /\ ckpt \in Position
      /\ \A k \in DOMAIN cmds : cmds[k].cmd = "start" => cmds[k].at \in Position
      /\ pendingState # None => pendingState \in Position
      /\ \A k \in DOMAIN chan : chan[k].ev = "state" => chan[k].at \in Position /\ k - 1 \in Nat
      /\ engine \in Position
      /\ Len(chan) \in Nat
  BY PositionsTyped DEF Inv, Orderly, Regular
<1>4. \A k \in DOMAIN cmds' : cmds'[k].cmd = "start" =>
         Heeds(cloud', store', staleSeen, toApply, chan, cmds'[k].at, 0, "memory")
  BY <1>1, <1>2, <1>3 DEF Heedful, Heeding, OldStarts
<1>5. Heeding(cloud', store', ckpt, pendingState, cmds', staleSeen, toApply, chan, engine)
  BY <1>2, <1>3, <1>4 DEF Heedful, Heeding
<1> QED
  BY <1>1, <1>5 DEF Heedful

(* The checkpoint that is saved is one whose batches have been applied.     *)
LEMMA FlushHeeds ==
    ASSUME Inv, Orderly, Heedful, chan # <<>>, Flushes
    PROVE  Heeding(cloud, store, ckpt', pendingState', cmds, staleSeen, toApply, chan, engine)
<1> DEFINE H(p, where) == Heeds(cloud, store, staleSeen, toApply, chan, p, 0, where)
<1>1. CASE UNCHANGED <<ckpt, pendingState>>
  BY <1>1 DEF Heedful
<1>2. ASSUME NEW w \in Nat, NEW p \in {None} \cup Position, NEW completed \in BOOLEAN,
             FlushState(w, p, completed), w = 0 => toApply = <<>>,
             p = pendingState \/ (Head(chan).ev = "state" /\ p = Head(chan).at)
      PROVE  H(ckpt', "disk") /\ (pendingState' # None => H(pendingState', "memory"))
  <2>1. /\ chan \in Seq(Event) /\ 1 \in DOMAIN chan /\ Head(chan) = chan[1] /\ 1 - 1 = 0
        /\ toApply \in Seq(Batch) /\ cloud \in [Entity -> CloudRecord]
    BY HeadTailProperties, LenProperties, EmptySeq DEF Inv, TypeOK
  <2>2. p # None => H(p, "memory")
    BY <1>2, <2>1 DEF Heedful, Heeding
  <2>3. H(ckpt, "disk")
    BY DEF Heedful, Heeding
  <2>4. CASE w > 0
    BY <1>2, <2>2, <2>3, <2>4 DEF FlushState
  <2>5. CASE ~(w > 0)
    <3>1. pendingState' = None /\ ckpt' = (IF p = None THEN ckpt ELSE p) /\ toApply = <<>>
      BY <1>2, <2>5 DEF FlushState
    <3>2. p # None => H(p, "disk")
      <4>1. Moves(cloud, cloud)
        BY DEF Moves
      <4>2. /\ \A e \in Entity : store[e].synced = None => store[e].synced = None
            /\ 0 \in Nat /\ 0 <= 0
        OBVIOUS
      <4>3. ASSUME p # None PROVE H(p, "disk")
        <5>1. p \in Position /\ H(p, "memory")
          BY <2>2, <4>3
        <5> QED
          BY <2>1, <3>1, <4>1, <4>2, <5>1, HeedsStill
      <4> QED
        BY <4>3
    <3> QED
      BY <2>3, <3>1, <3>2
  <2> QED
    BY <2>4, <2>5
<1>3. H(ckpt', "disk") /\ (pendingState' # None => H(pendingState', "memory"))
  <2>1. CASE UNCHANGED <<ckpt, pendingState>>
    BY <2>1 DEF Heedful, Heeding
  <2> QED
    BY <1>2, <2>1 DEF Flushes
<1> QED
  BY <1>3 DEF Heedful, Heeding

(* The worker's handlers.                                                   *)
LEMMA TakesHeeds ==
    ASSUME Inv, Orderly, Heedful, Takes
    PROVE  Heedful'
<1>1. /\ chan # <<>> /\ chan' = Tail(chan) /\ OldStarts(cmds, cmds')
      /\ UNCHANGED <<engine, cloud>> /\ Flushes
      /\ toApply \in Seq(Batch) /\ chan \in Seq(Event)
  BY DEF Takes, Inv, TypeOK
<1>2. PICK news \in Seq(Batch) :
              toApply' = toApply \o news /\ \A e \in Entity : Handed(e, news)
  BY DEF Takes
<1> DEFINE less(n) == IF n = 0 THEN 0 ELSE n - 1
<1>3. ASSUME NEW p, NEW n \in Nat, NEW where, where = "disk" => n = 0,
             Heeds(cloud, store, staleSeen, toApply, chan, p, n, where)
      PROVE  Heeds(cloud', store', staleSeen', toApply', chan', p, less(n), where)
  <2>1. ASSUME NEW e \in Entity, Gone(cloud[e]), p.pos[e] = cloud[e].ver
        PROVE  Owed(e, store'[e], staleSeen', toApply \o news, Tail(chan), less(n), where)
    <3>1. Owed(e, store[e], staleSeen, toApply, chan, n, where)
      BY <1>3, <2>1 DEF Heeds
    <3>2. /\ \A k \in DOMAIN news : e \in EntriesOf(news[k].recs) => Syncs(e, Head(chan))
          /\ ~Syncs(e, Head(chan)) /\ store[e].synced = None => store'[e].synced = None
          /\ Marks(e, Head(chan)) => \E k \in DOMAIN news : e \in news[k].dels
          /\ Head(chan).ev = "complete" /\ staleSeen # None /\ e \notin staleSeen =>
                 \/ store'[e].synced = None
                 \/ \E k \in DOMAIN news : CatchUpBatch(news[k]) /\ e \in news[k].dels
          /\ Head(chan).ev # "complete" /\ staleSeen # None /\ e \notin staleSeen
               /\ ~Syncs(e, Head(chan)) => staleSeen' # None /\ e \notin staleSeen'
      BY <1>2 DEF Handed
    <3>3. Owed(e, store'[e], staleSeen', toApply \o news, Tail(chan),
               IF n = 0 THEN 0 ELSE n - 1, where)
      BY <1>1, <1>3, <3>1, <3>2, OwedTaken
    <3> QED
      BY <3>3
  <2> QED
    BY <1>1, <1>2, <1>3, <2>1 DEF Heeds
<1>4. Heeding(cloud, store, ckpt', pendingState', cmds, staleSeen, toApply, chan, engine)
  BY <1>1, FlushHeeds
<1>5. /\ Len(chan) \in Nat \ {0} /\ DOMAIN chan = 1 .. Len(chan)
      /\ DOMAIN chan' = 1 .. Len(chan) - 1 /\ Len(chan') = Len(chan) - 1
      /\ \A k \in DOMAIN chan' : chan'[k] = chan[k + 1]
  BY <1>1, HeadTailProperties, LenProperties, EmptySeq
<1>6. less(0) = 0 /\ less(Len(chan)) = Len(chan')
  BY <1>5
<1>7. ASSUME NEW k \in DOMAIN chan', chan'[k].ev = "state"
      PROVE  Heeds(cloud', store', staleSeen', toApply', chan', chan'[k].at, k - 1, "memory")
  <2>1. k + 1 \in DOMAIN chan /\ chan'[k] = chan[k + 1] /\ k \in Nat /\ less(k) = k - 1
        /\ (k + 1) - 1 = k
    BY <1>5
  <2>2. Heeds(cloud, store, staleSeen, toApply, chan, chan'[k].at, k, "memory")
    BY <1>4, <1>7, <2>1 DEF Heeding
  <2> HIDE DEF less
  <2> QED
    BY <1>3, <2>1, <2>2
<1> HIDE DEF less
<1>8. Heeds(cloud', store', staleSeen', toApply', chan', ckpt', 0, "disk")
  BY <1>3, <1>4, <1>6 DEF Heeding
<1>9. \A k \in DOMAIN cmds' : cmds'[k].cmd = "start" =>
         Heeds(cloud', store', staleSeen', toApply', chan', cmds'[k].at, 0, "memory")
  BY <1>1, <1>3, <1>4, <1>6 DEF Heeding, OldStarts
<1>10. pendingState' # None =>
         Heeds(cloud', store', staleSeen', toApply', chan', pendingState', 0, "memory")
  BY <1>3, <1>4, <1>6 DEF Heeding
<1>11. Heeds(cloud', store', staleSeen', toApply', chan', engine', Len(chan'), "memory")
  <2>1. Len(chan) \in Nat
    BY <1>5
  <2> QED
    BY <1>1, <1>3, <1>4, <1>6, <2>1 DEF Heeding
<1> QED
  BY <1>7, <1>8, <1>9, <1>10, <1>11 DEF Heedful, Heeding

(* A fetch: the positions that were known before owe what they owed.        *)
LEMMA EmittedHeeds ==
    ASSUME Inv, Inv', Orderly, Heedful, OldStarts(cmds, cmds'), Moves(cloud, cloud'),
           NEW d \in Seq(Event), chan' = chan \o d,
           UNCHANGED <<ckpt, pendingState, staleSeen, toApply>>, Unsynced,
           \A e \in Entity : Gone(cloud'[e]) => \A k \in DOMAIN d : ~Syncs(e, d[k]),
           \A k \in DOMAIN d : d[k].ev = "state" =>
               Heeds(cloud', store', staleSeen, toApply, chan', d[k].at, Len(chan) + k - 1, "memory"),
           Heeds(cloud', store', staleSeen, toApply, chan', engine', Len(chan'), "memory")
    PROVE  Heedful'
<1>1. /\ cloud \in [Entity -> CloudRecord] /\ cloud' \in [Entity -> CloudRecord]
      /\ toApply \in Seq(Batch) /\ chan \in Seq(Event)
      /\ \A e \in Entity : store[e].synced = None => store'[e].synced = None
  BY DEF Inv, TypeOK, Unsynced
<1>2. ASSUME NEW p \in Position, NEW n \in Nat, NEW where,
             Heeds(cloud, store, staleSeen, toApply, chan, p, n, where)
      PROVE  Heeds(cloud', store', staleSeen, toApply, chan', p, n, where)
  <2>1. n <= n
    OBVIOUS
  <2>2. Heeds(cloud', store', staleSeen, toApply, chan, p, n, where)
    BY <1>1, <1>2, <2>1, HeedsStill
  <2>3. Heeds(cloud', store', staleSeen, toApply, chan \o d, p, n, where)
    BY <1>1, <2>2, HeedsEmitted
  <2> QED
    BY <2>3
<1>3. /\ ckpt \in Position
      /\ \A k \in DOMAIN cmds : cmds[k].cmd = "start" => cmds[k].at \in Position
      /\ pendingState # None => pendingState \in Position
      /\ \A k \in DOMAIN chan : chan[k].ev = "state" => chan[k].at \in Position /\ k - 1 \in Nat
  BY PositionsTyped DEF Inv
<1>4. ASSUME NEW k \in DOMAIN chan', chan'[k].ev = "state"
      PROVE  Heeds(cloud', store', staleSeen, toApply, chan', chan'[k].at, k - 1, "memory")
  <2>1. /\ Len(chan) \in Nat /\ Len(d) \in Nat
        /\ DOMAIN chan = 1 .. Len(chan) /\ DOMAIN d = 1 .. Len(d)
        /\ DOMAIN chan' = 1 .. Len(chan) + Len(d)
        /\ chan'[k] = IF k <= Len(chan) THEN chan[k] ELSE d[k - Len(chan)]
    BY <1>1, ConcatProperties, LenProperties
  <2>2. CASE k <= Len(chan)
    <3>1. k \in DOMAIN chan /\ chan'[k] = chan[k]
      BY <2>1, <2>2
    <3>2. Heeds(cloud, store, staleSeen, toApply, chan, chan[k].at, k - 1, "memory")
      BY <1>4, <3>1 DEF Heedful, Heeding
    <3> QED
      BY <1>2, <1>3, <1>4, <3>1, <3>2
  <2>3. CASE ~(k <= Len(chan))
    <3>1. /\ k - Len(chan) \in DOMAIN d /\ chan'[k] = d[k - Len(chan)]
          /\ Len(chan) + (k - Len(chan)) - 1 = k - 1
      BY <2>1, <2>3
    <3> QED
      BY <1>4, <3>1
  <2> QED
    BY <2>2, <2>3
<1>5. \A k \in DOMAIN cmds' : cmds'[k].cmd = "start" =>
         Heeds(cloud', store', staleSeen, toApply, chan', cmds'[k].at, 0, "memory")
  BY <1>2, <1>3 DEF Heedful, Heeding, OldStarts
<1>6. /\ Heeds(cloud', store', staleSeen, toApply, chan', ckpt, 0, "disk")
      /\ pendingState # None =>
            Heeds(cloud', store', staleSeen, toApply, chan', pendingState, 0, "memory")
  BY <1>2, <1>3 DEF Heedful, Heeding
<1> QED
  BY <1>4, <1>5, <1>6 DEF Heedful, Heeding

(* A fetch: its position owes what it has reported as deleted, and a        *)
(* listing of everything what it has not named.                             *)
LEMMA FetchHeeds ==
    ASSUME Inv, Inv', Orderly, Heedful, OldStarts(cmds, cmds'), Runs("fetch"),
           NEW d \in Seq(Event), Reports(d),
           UNCHANGED <<store, ckpt, coreVars, toApply, staged, cloud>>
    PROVE  Heedful'
<1>1. /\ chan' = chan \o d /\ UNCHANGED <<ckpt, pendingState, staleSeen, toApply, cloud, store>>
      /\ \A k \in DOMAIN d : d[k].ev = "state" => k > 1 /\ d[k].at = engine'
  BY DEF Reports, coreVars
<1>2. /\ cloud \in [Entity -> CloudRecord] /\ toApply \in Seq(Batch) /\ chan \in Seq(Event)
      /\ engine \in Position
  BY DEF Inv, TypeOK, Orderly, Regular
<1>3. Moves(cloud, cloud') /\ Unsynced
  BY <1>1 DEF Moves, Unsynced
<1>4. \A e \in Entity : Gone(cloud'[e]) => \A k \in DOMAIN d : ~Syncs(e, d[k])
  BY <1>1 DEF Reports
<1>5. /\ Len(chan) \in Nat /\ Len(d) \in Nat /\ Len(chan') = Len(chan) + Len(d)
      /\ DOMAIN chan = 1 .. Len(chan) /\ DOMAIN d = 1 .. Len(d)
      /\ DOMAIN chan' = 1 .. Len(chan) + Len(d)
      /\ \A k \in DOMAIN chan' : chan'[k] = IF k <= Len(chan) THEN chan[k] ELSE d[k - Len(chan)]
  BY <1>1, <1>2, ConcatProperties, LenProperties
<1>6. ASSUME NEW m \in Nat, m >= Len(chan), Len(d) > 0 => m > Len(chan)
      PROVE  Heeds(cloud', store', staleSeen, toApply, chan', engine', m, "memory")
  <2> SUFFICES ASSUME NEW e \in Entity
               PROVE  /\ engine'.pos[e] <= cloud[e].ver
                      /\ Gone(cloud[e]) /\ engine'.pos[e] = cloud[e].ver =>
                            Owed(e, store[e], staleSeen, toApply, chan', m, "memory")
    BY <1>1 DEF Heeds
  <2>1. cloud[e].ver \in Nat /\ engine.pos[e] \in Nat /\ engine.pos[e] <= cloud[e].ver
    BY <1>2 DEF CloudRecord, Position, Heedful, Heeding, Heeds
  <2>2. engine'.pos[e] <= cloud[e].ver
    BY <2>1 DEF Reports
  <2>3. ASSUME Gone(cloud[e]), engine'.pos[e] = cloud[e].ver, engine.pos[e] = cloud[e].ver
        PROVE  Owed(e, store[e], staleSeen, toApply, chan', m, "memory")
    <3>1. Owed(e, store[e], staleSeen, toApply, chan, Len(chan), "memory")
      BY <2>3 DEF Heedful, Heeding, Heeds
    <3>2. \A k \in DOMAIN d : ~Syncs(e, d[k])
      BY <1>1, <1>4, <2>3
    <3>3. Owed(e, store[e], staleSeen, toApply, chan \o d, Len(chan), "memory")
      BY <1>2, <1>5, <3>1, <3>2, OwedEmitted
    <3>4. chan \o d \in Seq(Event) /\ Len(chan) <= m
      BY <1>2, <1>6, ConcatProperties
    <3> QED
      BY <1>1, <1>2, <1>5, <3>3, <3>4, OwedStill
  <2>4. ASSUME Gone(cloud[e]), engine'.pos[e] = cloud[e].ver, engine.pos[e] < cloud[e].ver
        PROVE  Owed(e, store[e], staleSeen, toApply, chan', m, "memory")
    <3>1. \A k \in DOMAIN d : ~Syncs(e, d[k])
      BY <1>1, <1>4, <2>4
    <3>2. (1 \in DOMAIN d /\ Marks(e, d[1])) \/ (engine.nil /\ Ends(d))
      BY <2>4 DEF Reports
    <3>3. CASE 1 \in DOMAIN d /\ Marks(e, d[1])
      <4>1. /\ Len(chan) + 1 \in DOMAIN chan' /\ chan'[Len(chan) + 1] = d[1]
            /\ Len(chan) + 1 <= m
        BY <1>5, <1>6, <3>3
      <4>2. ASSUME NEW l \in DOMAIN chan', l >= Len(chan) + 1 PROVE ~Syncs(e, chan'[l])
        <5>1. l - Len(chan) \in DOMAIN d /\ chan'[l] = d[l - Len(chan)]
          BY <1>5, <4>2
        <5> QED
          BY <3>1, <5>1
      <4>3. \A l \in DOMAIN toApply : ~(l >= Len(toApply) + 1)
        BY <1>2, LenProperties
      <4>4. MarkComes(e, toApply, chan', m)
        BY <3>3, <4>1, <4>2, <4>3 DEF MarkComes, Silent
      <4> QED
        BY <4>4 DEF Owed
    <3>4. CASE engine.nil /\ Ends(d)
      <4>1. chan = <<>> /\ toApply = <<>> /\ staleSeen = {}
        BY <3>4, RunsOrderly
      <4>2. chan' = d
        BY <1>1, <4>1, ConcatEmptySeq
      <4>3. Silent(e, toApply, 1, chan', 1)
        BY <3>1, <4>1, <4>2 DEF Silent
      <4>4. staleSeen # None /\ e \notin staleSeen
        BY <4>1, MacAssumption
      <4> QED
        BY <3>4, <4>2, <4>3, <4>4 DEF Owed, Noted
    <3> QED
      BY <3>2, <3>3, <3>4
  <2> QED
    BY <2>1, <2>2, <2>3, <2>4
<1>7. \A k \in DOMAIN d : d[k].ev = "state" =>
         Heeds(cloud', store', staleSeen, toApply, chan', d[k].at, Len(chan) + k - 1, "memory")
  <2> SUFFICES ASSUME NEW k \in DOMAIN d, d[k].ev = "state"
               PROVE  Heeds(cloud', store', staleSeen, toApply, chan', d[k].at,
                            Len(chan) + k - 1, "memory")
    OBVIOUS
  <2>1. k > 1 /\ d[k].at = engine'
    BY <1>1
  <2>2. Len(chan) + k - 1 \in Nat /\ Len(chan) + k - 1 > Len(chan)
        /\ Len(chan) + k - 1 >= Len(chan)
    BY <1>5, <2>1
  <2> QED
    BY <1>6, <2>1, <2>2
<1>8. Heeds(cloud', store', staleSeen, toApply, chan', engine', Len(chan'), "memory")
  <2>1. Len(chan') \in Nat /\ Len(chan') >= Len(chan) /\ (Len(d) > 0 => Len(chan') > Len(chan))
    BY <1>5
  <2> QED
    BY <1>6, <2>1
<1> QED
  BY <1>1, <1>3, <1>4, <1>7, <1>8, EmittedHeeds

(* A send.                                                                  *)
LEMMA SendHeeds ==
    ASSUME Inv, Inv', Orderly, Heedful, OldStarts(cmds, cmds'), Moves(cloud, cloud'),
           NEW m \in Event, Replies(m),
           UNCHANGED <<store, ckpt, coreVars, toApply>>
    PROVE  Heedful'
<1>1. /\ chan' = chan \o << m >> /\ UNCHANGED <<ckpt, pendingState, staleSeen, toApply, store>>
      /\ << m >> \in Seq(Event) /\ DOMAIN << m >> = {1} /\ << m >>[1] = m /\ m.ev = "sent"
  BY DEF Replies, coreVars
<1>2. /\ cloud \in [Entity -> CloudRecord] /\ cloud' \in [Entity -> CloudRecord]
      /\ toApply \in Seq(Batch) /\ chan \in Seq(Event) /\ chan' \in Seq(Event)
      /\ engine \in Position /\ Unsynced
  BY <1>1 DEF Inv, TypeOK, Orderly, Regular, Unsynced
<1>3. Len(chan) \in Nat /\ Len(chan') \in Nat /\ Len(chan) <= Len(chan')
  BY <1>1, <1>2, ConcatProperties, LenProperties
<1>4. \A e \in Entity : Gone(cloud'[e]) => \A k \in DOMAIN << m >> : ~Syncs(e, << m >>[k])
  BY <1>1 DEF Replies
<1>5. ASSUME NEW e \in Entity
      PROVE  /\ engine'.pos[e] <= cloud'[e].ver
             /\ Gone(cloud'[e]) /\ engine'.pos[e] = cloud'[e].ver =>
                   Owed(e, store[e], staleSeen, toApply, chan', Len(chan'), "memory")
  <2>1. /\ cloud[e].ver \in Nat /\ cloud'[e].ver \in Nat /\ engine.pos[e] \in Nat
        /\ engine.pos[e] <= cloud[e].ver
    BY <1>2 DEF CloudRecord, Position, Heedful, Heeding, Heeds
  <2>2. engine'.pos[e] <= cloud'[e].ver
    <3>1. cloud[e].ver <= cloud'[e].ver
      BY <2>1 DEF Moves
    <3> QED
      BY <2>1, <3>1 DEF Replies
  <2>3. ASSUME Gone(cloud'[e]), engine'.pos[e] = cloud'[e].ver
        PROVE  Owed(e, store[e], staleSeen, toApply, chan', Len(chan'), "memory")
    <3>1. Gone(cloud[e]) /\ engine.pos[e] = cloud[e].ver
      BY <2>3 DEF Replies
    <3>2. Owed(e, store[e], staleSeen, toApply, chan, Len(chan), "memory")
      BY <3>1 DEF Heedful, Heeding, Heeds
    <3>3. \A k \in DOMAIN << m >> : ~Syncs(e, << m >>[k])
      BY <1>4, <2>3
    <3>4. Owed(e, store[e], staleSeen, toApply, chan \o << m >>, Len(chan), "memory")
      BY <1>1, <1>2, <1>3, <3>2, <3>3, OwedEmitted
    <3> QED
      BY <1>1, <1>2, <1>3, <3>4, OwedStill
  <2> QED
    BY <2>2, <2>3
<1>6. Heeds(cloud', store', staleSeen, toApply, chan', engine', Len(chan'), "memory")
  BY <1>1, <1>5 DEF Heeds
<1>7. \A k \in DOMAIN << m >> : << m >>[k].ev # "state"
  BY <1>1
<1> QED
  BY <1>1, <1>2, <1>4, <1>6, <1>7, EmittedHeeds

(* The engine starts where the core told it.                                *)
LEMMA StartHeeds ==
    ASSUME Inv, Inv', Orderly, Heedful, EngineStart, OldStarts(cmds, cmds')
    PROVE  Heedful'
<1>1. /\ Runs("start") /\ engine' = Head(cmds).at
      /\ UNCHANGED <<store, ckpt, coreVars, toApply, chan, cloud>>
  BY DEF EngineStart
<1>2. UNCHANGED <<store, ckpt, pendingState, staleSeen, toApply, chan, cloud>>
  BY <1>1 DEF coreVars
<1>3. chan = <<>> /\ toApply = <<>>
  BY <1>1, RunsOrderly
<1>4. 1 \in DOMAIN cmds /\ Head(cmds) = cmds[1] /\ Head(cmds).cmd = "start"
  BY <1>1, HeadTailProperties, LenProperties, EmptySeq DEF Inv, TypeOK, Runs
<1>5. Heeds(cloud, store, staleSeen, <<>>, <<>>, engine', 0, "memory")
  BY <1>1, <1>3, <1>4 DEF Heedful, Heeding
<1>6. Heeds(cloud, store, staleSeen, toApply, chan, engine', Len(chan), "memory")
  BY <1>3, <1>5
<1>7. \A k \in DOMAIN cmds' : cmds'[k].cmd = "start" =>
         Heeds(cloud, store, staleSeen, toApply, chan, cmds'[k].at, 0, "memory")
  BY DEF Heedful, Heeding, OldStarts
<1>8. Heeding(cloud, store, ckpt, pendingState, cmds', staleSeen, toApply, chan, engine')
  BY <1>6, <1>7 DEF Heedful, Heeding
<1> QED
  BY <1>2, <1>8 DEF Heedful

(* The bridge.                                                              *)
LEMMA BridgeHeeds ==
    ASSUME Inv, Inv', OthersDelete, CatchesUp, Orderly, Heedful, Bridge
    PROVE  Orderly' /\ Heedful'
<1>1. ASSUME EngineStart PROVE Orderly' /\ Heedful'
  BY <1>1, StartOrderly, StartHeeds
<1>2. ASSUME EngineFetch PROVE Orderly' /\ Heedful'
  <2>1. Runs("fetch") /\ UNCHANGED <<store, ckpt, coreVars, toApply, staged, cloud>>
    BY <1>2 DEF EngineFetch
  <2> QED
    BY <1>2, <2>1, FetchOrderly, FetchHeeds
<1>3. ASSUME NEW page \in SUBSET Entity, EngineFetchFails(page) PROVE Orderly' /\ Heedful'
  <2>1. Runs("fetch") /\ UNCHANGED <<store, ckpt, coreVars, toApply, staged, cloud>>
    BY <1>3 DEF EngineFetchFails
  <2> QED
    BY <1>3, <2>1, FetchFailsOrderly, FetchHeeds
<1>4. ~EngineExpires
  BY DEF EngineExpires, Fault, OthersDelete, Orderly, Regular
<1>5. ASSUME NEW flaky \in SUBSET Entity, NEW told \in SUBSET Entity, EngineSend(flaky, told)
      PROVE  Orderly' /\ Heedful'
  <2>1. UNCHANGED <<store, ckpt, coreVars, toApply>>
    BY <1>5 DEF EngineSend
  <2> QED
    BY <1>5, <2>1, SendOrderly, SendHeeds
<1>6. \A landed \in SUBSET Entity : ~EngineSendThrows(landed)
  BY DEF EngineSendThrows, Fault, OthersDelete
<1> QED
  BY <1>1, <1>2, <1>3, <1>4, <1>5, <1>6 DEF Bridge

(* A start of the program: at the checkpoint, or from nothing.              *)
LEMMA LaunchHeeds ==
    ASSUME Inv, Inv', Orderly, Heedful, NEW away \in BOOLEAN, Launch(away)
    PROVE  Orderly' /\ Heedful'
<1>1. /\ ~up /\ UNCHANGED <<pendingState, ckpt, toApply, chan, engine, cloud>>
  BY DEF Launch
<1>2. chan = <<>> /\ toApply = <<>> /\ pendingState = None
  BY <1>1 DEF Orderly, AtRest
<1>3. /\ Orderly' /\ store' = store
      /\ \A k \in DOMAIN cmds' : cmds'[k].cmd = "start" => cmds'[k].at \in {NoPosition, ckpt}
  BY LaunchOrderly
<1>4. Len(<<>>) = 0 /\ 0 \in Nat /\ DOMAIN <<>> = {}
  OBVIOUS
<1>5. /\ Heeds(cloud, store, staleSeen, <<>>, <<>>, ckpt, 0, "disk")
      /\ Heeds(cloud, store, staleSeen, <<>>, <<>>, engine, 0, "memory")
  BY <1>2, <1>4 DEF Heedful, Heeding
<1>6. /\ Heeds(cloud, store, staleSeen', <<>>, <<>>, ckpt, 0, "disk")
      /\ Heeds(cloud, store, staleSeen', <<>>, <<>>, ckpt, 0, "memory")
      /\ Heeds(cloud, store, staleSeen', <<>>, <<>>, engine, 0, "memory")
  BY <1>4, <1>5, HeedsAtRest
<1>7. Heeds(cloud, store, staleSeen', <<>>, <<>>, NoPosition, 0, "memory")
  <2>1. \A e \in Entity : NoPosition.pos[e] = 0
    BY DEF NoPosition
  <2>2. \A e \in Entity : cloud[e].ver \in Nat
    BY DEF Inv, TypeOK, CloudRecord
  <2> QED
    BY <2>1, <2>2 DEF Heeds, Gone
<1>8. \A k \in DOMAIN cmds' : cmds'[k].cmd = "start" =>
         Heeds(cloud, store, staleSeen', <<>>, <<>>, cmds'[k].at, 0, "memory")
  BY <1>3, <1>6, <1>7
<1>9. Heeding(cloud, store, ckpt, None, cmds', staleSeen', <<>>, <<>>, engine)
  BY <1>4, <1>6, <1>8 DEF Heeding
<1> QED
  BY <1>1, <1>2, <1>3, <1>9 DEF Heedful

(* A crash: what the checkpoint on disk owes is not in memory only.         *)
LEMMA CrashHeeds ==
    ASSUME Inv, Inv', CatchesUp, Orderly, Heedful, Crash
    PROVE  Orderly' /\ Heedful'
<1>1. /\ pendingState' = None /\ staleSeen' = None
      /\ toApply' = <<>> /\ cmds' = <<>> /\ chan' = <<>>
      /\ engine' = NoPosition
      /\ UNCHANGED <<store, ckpt, cloud>>
  BY DEF Crash
<1>2. Len(<<>>) = 0 /\ 0 \in Nat /\ DOMAIN <<>> = {}
  OBVIOUS
<1>3. \A e \in Entity : cloud[e].ver \in Nat /\ ckpt.pos[e] \in Nat /\ NoPosition.pos[e] = 0
  BY DEF Inv, TypeOK, CloudRecord, Position, NoPosition
<1>4. staleSeen = None
  BY DEF CatchesUp, Orderly, Regular
<1>5. ASSUME NEW e \in Entity, Gone(cloud[e]), ckpt.pos[e] = cloud[e].ver
      PROVE  store[e].synced = None
  <2>1. Owed(e, store[e], staleSeen, toApply, chan, 0, "disk")
    BY <1>5 DEF Heedful, Heeding, Heeds
  <2>2. ~MarkWaits(e, toApply, chan, "disk")
    <3> SUFFICES ASSUME NEW k \in DOMAIN toApply, e \in toApply[k].dels,
                        CatchUpBatch(toApply[k])
                 PROVE  FALSE
      BY DEF MarkWaits
    <3>1. ckpt.pos[e] < cloud[e].ver
      BY DEF CatchesUp, CatchUpBatch
    <3> QED
      BY <1>3, <1>5, <3>1
  <2>3. ~MarkComes(e, toApply, chan, 0)
    <3>1. \A j \in DOMAIN chan : ~(j <= 0)
      BY LenProperties DEF Inv, TypeOK
    <3> QED
      BY <3>1 DEF MarkComes
  <2> QED
    BY <1>4, <2>1, <2>2, <2>3 DEF Owed, Noted
<1>6. \A e \in Entity : ckpt.pos[e] <= cloud[e].ver
  BY DEF Heedful, Heeding, Heeds
<1>7. Heeds(cloud, store, None, <<>>, <<>>, ckpt, 0, "disk")
  BY <1>2, <1>5, <1>6 DEF Heeds, Owed, Noted, Silent
<1>8. Heeds(cloud, store, None, <<>>, <<>>, NoPosition, 0, "memory")
  BY <1>3 DEF Heeds, Gone
<1>9. Heeding(cloud, store, ckpt, None, <<>>, None, <<>>, <<>>, NoPosition)
  BY <1>2, <1>7, <1>8 DEF Heeding
<1> QED
  BY <1>1, <1>9, CrashOrderly DEF Heedful

(* The app thread applies a batch and acknowledges it.                      *)
LEMMA ApplyHeeds ==
    ASSUME Inv, Inv', Orderly, Heedful, NEW now \in Times, Apply(now)
    PROVE  Orderly' /\ Heedful'
<1> DEFINE m == [ev |-> "applied"]
<1>1. /\ toApply' = Tail(toApply) /\ chan' = Append(chan, m)
      /\ UNCHANGED <<ckpt, cmds, engine, cloud, pendingState, staleSeen>>
  BY DEF Apply, coreVars
<1>2. /\ toApply \in Seq(Batch) /\ chan \in Seq(Event) /\ m \in Event
  BY DEF Inv, TypeOK, Event
<1>3. /\ Orderly' /\ toApply # <<>>
      /\ \A e \in Entity :
            e \notin EntriesOf(Head(toApply).recs)
              /\ (store[e].synced = None \/ e \in Head(toApply).dels) =>
            store'[e].synced = None
  BY ApplyOrderly
<1>4. /\ << m >> \in Seq(Event) /\ chan' = chan \o << m >>
      /\ \A e \in Entity : \A k \in DOMAIN << m >> : ~Syncs(e, << m >>[k])
  <2>1. chan' = chan \o << m >>
    BY <1>1, <1>2, AppendIsConcat
  <2> QED
    BY <1>2, <2>1 DEF Syncs
<1>5. /\ Tail(toApply) \in Seq(Batch) /\ chan' \in Seq(Event)
      /\ Len(chan) \in Nat /\ Len(chan') = Len(chan) + 1
      /\ DOMAIN chan' = 1 .. Len(chan) + 1 /\ DOMAIN chan = 1 .. Len(chan)
      /\ \A k \in DOMAIN chan : chan'[k] = chan[k]
      /\ chan'[Len(chan) + 1] = m
  BY <1>1, <1>2, <1>3, HeadTailProperties, AppendProperties, LenProperties
<1> HIDE DEF m
<1>6. ASSUME NEW e \in Entity, NEW n \in Nat, NEW i \in Nat, n <= i, NEW where,
             Owed(e, store[e], staleSeen, toApply, chan, n, where)
      PROVE  Owed(e, store'[e], staleSeen, toApply', chan', i, where)
  <2>1. Owed(e, store'[e], staleSeen, Tail(toApply), chan, n, where)
    BY <1>2, <1>3, <1>6, OwedApplied
  <2>2. Owed(e, store'[e], staleSeen, Tail(toApply), chan \o << m >>, n, where)
    BY <1>2, <1>4, <1>5, <2>1, OwedEmitted
  <2>3. chan \o << m >> \in Seq(Event)
    BY <1>4, <1>5
  <2>4. store'[e].synced = None => store'[e].synced = None
    OBVIOUS
  <2>5. Owed(e, store'[e], staleSeen, Tail(toApply), chan \o << m >>, i, where)
    BY <1>5, <1>6, <2>2, <2>3, <2>4, OwedStill
  <2> QED
    BY <1>1, <1>4, <2>5
<1>7. ASSUME NEW p, NEW n \in Nat, NEW i \in Nat, n <= i, NEW where,
             Heeds(cloud, store, staleSeen, toApply, chan, p, n, where)
      PROVE  Heeds(cloud, store', staleSeen, toApply', chan', p, i, where)
  BY <1>6, <1>7 DEF Heeds
<1>8. 0 \in Nat /\ 0 <= 0 /\ Len(chan) <= Len(chan') /\ Len(chan') \in Nat
  BY <1>5
<1>9. ASSUME NEW k \in DOMAIN chan', chan'[k].ev = "state"
      PROVE  Heeds(cloud, store', staleSeen, toApply', chan', chan'[k].at, k - 1, "memory")
  <2>1. k \in DOMAIN chan /\ chan'[k] = chan[k] /\ k - 1 \in Nat /\ k - 1 <= k - 1
    <3>1. chan'[k] # m
      BY <1>9 DEF m
    <3> QED
      BY <1>5, <3>1
  <2>2. Heeds(cloud, store, staleSeen, toApply, chan, chan[k].at, k - 1, "memory")
    BY <1>9, <2>1 DEF Heedful, Heeding
  <2> QED
    BY <1>7, <2>1, <2>2
<1>10. /\ Heeds(cloud, store', staleSeen, toApply', chan', ckpt, 0, "disk")
       /\ \A k \in DOMAIN cmds : cmds[k].cmd = "start" =>
             Heeds(cloud, store', staleSeen, toApply', chan', cmds[k].at, 0, "memory")
       /\ pendingState # None =>
             Heeds(cloud, store', staleSeen, toApply', chan', pendingState, 0, "memory")
  BY <1>7, <1>8 DEF Heedful, Heeding
<1>11. Heeds(cloud, store', staleSeen, toApply', chan', engine, Len(chan'), "memory")
  BY <1>5, <1>7, <1>8 DEF Heedful, Heeding
<1>12. Heeding(cloud, store', ckpt, pendingState, cmds, staleSeen, toApply', chan', engine)
  BY <1>9, <1>10, <1>11 DEF Heeding
<1> QED
  BY <1>1, <1>3, <1>12 DEF Heedful

(* Every step.                                                              *)
LEMMA NextHeeds ==
    ASSUME Inv, Inv', OthersDelete, CatchesUp, Orderly, Heedful, [Next]_vars
    PROVE  Orderly' /\ Heedful'
<1>1. CASE Users
  BY <1>1, UsersOrderly, CalmHeeds
<1>2. CASE Timers
  BY <1>2, TimersOrderly, CalmHeeds
<1>3. CASE Handlers
  BY <1>3, HandlersOrderly, TakesHeeds
<1>4. CASE Bridge
  BY <1>4, BridgeHeeds
<1>5. ASSUME NEW away \in BOOLEAN, Launch(away) PROVE Orderly' /\ Heedful'
  BY <1>5, LaunchHeeds
<1>6. CASE Crash
  BY <1>6, CrashHeeds
<1>7. ASSUME NEW now \in Times, Apply(now) PROVE Orderly' /\ Heedful'
  BY <1>7, ApplyHeeds
<1>8. CASE UNCHANGED vars
  BY <1>8 DEF vars, coreVars, pathVars, Orderly, Uploading, SteadyRows, Going, Regular,
              AtRest, Fresh, Heedful
<1> QED
  BY <1>1, <1>2, <1>3, <1>4, <1>5, <1>6, <1>7, <1>8 DEF Next

(* At first no entity has a version in the cloud.                           *)
LEMMA InitHeeds ==
    ASSUME Init
    PROVE  Orderly /\ Heedful
<1>1. DOMAIN <<>> = {} /\ Len(<<>>) = 0
  OBVIOUS
<1>2. /\ cmds = <<>> /\ chan = <<>> /\ toApply = <<>> /\ inflight = {}
      /\ staleSeen = None /\ pendingState = None /\ engine = NoPosition
      /\ staged = {} /\ ckpt = FirstPosition /\ ~up
      /\ store = [e \in Entity |-> Untracked]
      /\ \A e \in Entity : cloud[e].ver = 0
  BY DEF Init
<1>3. /\ NoPosition \in Position /\ NoPosition.nil /\ ~FirstPosition.nil
      /\ \A e \in Entity : NoPosition.pos[e] = 0 /\ FirstPosition.pos[e] = 0
  BY DEF NoPosition, FirstPosition, Position
<1>4. Uploading
  <2>1. SteadyRows(store)
    BY <1>2 DEF SteadyRows, Steady, Untracked
  <2> QED
    BY <1>1, <1>2, <2>1 DEF Uploading, Going, Paired, Matched, Single
<1>5. Regular
  BY <1>1, <1>2, <1>3, MacAssumption DEF Regular
<1>6. AtRest /\ Fresh
  BY <1>1, <1>2, <1>3 DEF AtRest, Fresh, StartsFirst
<1>7. Heedful
  BY <1>1, <1>2, <1>3 DEF Heedful, Heeding, Heeds, Gone
<1> QED
  BY <1>4, <1>5, <1>6, <1>7 DEF Orderly

(* With nothing on its way, what is owed is that the row is not synced: a   *)
(* row that is still there is then to be uploaded.                          *)
LEMMA HeedsNotices ==
    ASSUME Inv, Heedful
    PROVE  DeletionsNoticed
<1> SUFFICES ASSUME NEW e \in Entity, Gone(cloud[e]), Quiet, Covered(e), ~Pending(e)
             PROVE  store[e].row = None
  BY DEF DeletionsNoticed, Gone
<1>1. chan = <<>> /\ toApply = <<>> /\ engine \in Position /\ ckpt \in Position
  BY DEF Quiet, Inv, TypeOK
<1>2. cloud[e].ver \in Nat /\ engine.pos[e] \in Nat /\ ckpt.pos[e] \in Nat
  BY <1>1 DEF Inv, TypeOK, CloudRecord, Position
<1>3. CASE cloud[e].ver <= ckpt.pos[e]
  <2>1. ckpt.pos[e] <= cloud[e].ver
    BY DEF Heedful, Heeding, Heeds
  <2>2. ckpt.pos[e] = cloud[e].ver
    BY <1>2, <1>3, <2>1
  <2>3. Owed(e, store[e], staleSeen, <<>>, <<>>, 0, "disk")
    BY <1>1, <2>2 DEF Heedful, Heeding, Heeds
  <2>4. store[e].synced = None
    BY <2>3, OwedAtRest
  <2> QED
    BY <2>4 DEF Pending, NeedsUpsert, Matches
<1>4. CASE cloud[e].ver <= engine.pos[e]
  <2>1. engine.pos[e] <= cloud[e].ver
    BY DEF Heedful, Heeding, Heeds
  <2>2. engine.pos[e] = cloud[e].ver
    BY <1>2, <1>4, <2>1
  <2>3. Owed(e, store[e], staleSeen, <<>>, <<>>, Len(<<>>), "memory")
    BY <1>1, <2>2 DEF Heedful, Heeding, Heeds
  <2>4. store[e].synced = None
    BY <2>3, OwedAtRest
  <2> QED
    BY <2>4 DEF Pending, NeedsUpsert, Matches
<1> QED
  BY <1>3, <1>4 DEF Covered

(* Where only other Macs delete, no checkpoint expires, no send fails as a  *)
(* whole and the account is too small for the guard against mass deletions, *)
(* a deletion that no fetch will bring again has been applied, through      *)
(* crashes, edits, conflicts, long absences and interrupted fetches: as     *)
(* long as no crash and no lost connection cuts a catch-up from scratch     *)
(* short.  There `flush_state` saves a position that is past the deletions  *)
(* which the listing does not name, and only `stale_seen`, in memory, still *)
(* looks for them (`on_fetch_complete`; README, section 7).                 *)
THEOREM DeletionsCaughtUp ==
    ASSUME OthersDelete
    PROVE  Spec /\ [][CatchesUp]_vars => []DeletionsNoticed
<1>1. Init => Orderly /\ Heedful
  BY InitHeeds
<1>2. Inv /\ Inv' /\ Orderly /\ Heedful /\ [Next]_vars /\ [CatchesUp]_vars =>
          Orderly' /\ Heedful'
  <2>1. CASE UNCHANGED vars
    BY <2>1 DEF vars, coreVars, pathVars, Orderly, Uploading, SteadyRows, Going, Regular,
                AtRest, Fresh, Heedful
  <2> QED
    BY <2>1, NextHeeds
<1>3. Inv /\ Heedful => DeletionsNoticed
  BY HeedsNotices
<1>4. Spec => []Inv
  BY Invariance
<1> QED
  BY <1>1, <1>2, <1>3, <1>4, PTL DEF Spec

(* Of a Mac that is never away for longer than STALE_AFTER_MS nothing has   *)
(* to be assumed about crashes and lost connections: each deletion comes as *)
(* a mark in a page, and no position that has passed it is saved before     *)
(* the mark is applied (`flush_state`).                                     *)
THEOREM DeletionsSeen ==
    ASSUME OthersDelete, "away" \notin Faults
    PROVE  Spec => []DeletionsNoticed
<1>1. [Next]_vars => [CatchesUp]_vars
  BY DEF CatchesUp
<1>2. Spec /\ [][CatchesUp]_vars => []DeletionsNoticed
  BY DeletionsCaughtUp
<1> QED
  BY <1>1, <1>2, PTL DEF Spec
=============================================================================
