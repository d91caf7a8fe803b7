--------------------------- MODULE SyncMergeProofs ---------------------------
(***************************************************************************)
(* Proofs about SyncMac, where users only add entries: none of them ever    *)
(* disappears again, neither from this Mac nor from the cloud (NoEntryLost, *)
(* by the invariant Merging), and what no fetch will bring again is what    *)
(* this Mac holds (NothingMissed, by the invariant Accounted on top).       *)
(***************************************************************************)
EXTENDS SyncMacProofs

-----------------------------------------------------------------------------
(* No entry is lost: what every version on its way owes to the others.      *)

Entries(v) == IF v = None THEN {} ELSE v

(* z, the cloud's record, is newer than version ver, or v has all it holds. *)
Attained(z, ver, v) ==
    ver <= z.ver /\ (ver = z.ver => Entries(z.val) \subseteq Entries(v))

(* What both sides are known to have is in the row and in the cloud.        *)
Agreed(s) == Entries(s.synced) \cup Entries(s.base)

Tracked(s) == /\ ~s.gone /\ s.op # "delete"
              /\ s.row = None => ~s.known /\ s.op = "none"

Sound(z, s) ==
    /\ Tracked(s)
    /\ Agreed(s) \subseteq Entries(s.row) \cap Entries(z.val)
    /\ Attained(z, s.tag, s.row)

(* A version r on its way to the host: not older than what is known to be   *)
(* shared, not newer than the cloud.                                        *)
Fits(z, s, r) ==
    /\ Agreed(s) \subseteq Entries(r.val)
    /\ Entries(r.val) \subseteq Entries(z.val)
    /\ Attained(z, r.ver, r.val)

(* A record that is not there never was: nobody deletes.                    *)
Undeleted(z) == z.val = None <=> z.ver = 0

Added(old, new) == old = None \/ (new # None /\ old \subseteq new)

LEMMA EntriesAdded ==
    ASSUME NEW v \in {None} \cup Payload, NEW w \in {None} \cup Payload
    PROVE  /\ Entries(v) \subseteq Item
           /\ Added(v, w) => Entries(v) \subseteq Entries(w)
           /\ v # None /\ w # None => (Added(v, w) <=> Entries(v) \subseteq Entries(w))
  BY DEF Entries, Added, Payload

(* The operations of the store that leave row, version and base alone.      *)
Same(s, t) ==
    /\ t.row = s.row /\ t.synced = s.synced /\ t.base = s.base /\ t.tag = s.tag

LEMMA QueuedFields ==
    ASSUME NEW s \in Stored, NEW t \in Nat
    PROVE  /\ Same(s, QueueUpsert(s, t))
           /\ ~QueueUpsert(s, t).gone /\ QueueUpsert(s, t).op = "upsert"
  BY DEF Stored, QueueUpsert, Queue, Same

LEMMA CancelFields ==
    ASSUME NEW s \in Stored, NEW q
    PROVE  /\ Same(s, Cancel(s)) /\ Same(s, Unqueue(s, q))
           /\ Tracked(s) => Tracked(Cancel(s)) /\ Tracked(Unqueue(s, q))
<1>1. Same(s, Cancel(s)) /\ (Tracked(s) => Tracked(Cancel(s)))
  BY DEF Stored, Cancel, Same, Tracked
<1> QED
  BY <1>1 DEF Unqueue, Same

LEMMA WaitFields ==
    ASSUME NEW s \in Stored
    PROVE  /\ Same(s, Release(s)) /\ Same(s, [s EXCEPT !.wait = "now"])
           /\ Tracked(s) => Tracked(Release(s)) /\ Tracked([s EXCEPT !.wait = "now"])
<1>1. Same(s, [s EXCEPT !.wait = "now"]) /\ (Tracked(s) => Tracked([s EXCEPT !.wait = "now"]))
  BY DEF Stored, Same, Tracked
<1> QED
  BY <1>1 DEF Release, Same

LEMMA FailFields ==
    ASSUME NEW s \in Stored, NEW w \in {"later", "merging"}
    PROVE  Same(s, Fail(s, w)) /\ (Tracked(s) => Tracked(Fail(s, w)))
  BY DEF Stored, Fail, Same, Tracked

LEMMA SoundSame ==
    ASSUME NEW z \in CloudRecord, NEW s \in Stored, NEW t \in Stored, Sound(z, s),
           Same(s, t), Tracked(t)
    PROVE  Sound(z, t) /\ Agreed(t) = Agreed(s)
  BY DEF Sound, Same, Agreed

LEMMA ReconcileSound ==
    ASSUME NEW z \in CloudRecord, NEW s \in Stored, NEW t \in Nat, Sound(z, s)
    PROVE  Sound(z, Reconcile(s, t)) /\ Same(s, Reconcile(s, t))
<1>1. Reconcile(s, t) \in Stored
  BY ReconcileStored
<1>2. ~NeedsDelete(s)
  BY DEF NeedsDelete, Sound, Tracked
<1>3. CASE NeedsUpsert(s)
  <2>1. Reconcile(s, t) = QueueUpsert(s, t)
    BY <1>3 DEF Reconcile
  <2>2. s.row # None
    BY <1>3 DEF NeedsUpsert
  <2>3. Same(s, Reconcile(s, t)) /\ Tracked(Reconcile(s, t))
    BY <2>1, <2>2, QueuedFields DEF Tracked, Same
  <2> QED
    BY <1>1, <2>3, SoundSame
<1>4. CASE ~NeedsUpsert(s)
  BY <1>2, <1>4 DEF Reconcile, Same
<1> QED
  BY <1>3, <1>4

(* A row that is written with what it held and more.                        *)
LEMMA WriteFields ==
    ASSUME NEW s \in Stored, NEW v \in Payload, NEW t \in Nat, ~s.gone, s.op # "delete"
    PROVE  LET w == Write(s, v, t)
           IN  /\ w.row = v /\ w.synced = s.synced /\ w.base = s.base /\ w.tag = s.tag
               /\ Tracked(w)
<1> DEFINE u == [s EXCEPT !.row = v]
<1>1. v # None
  BY StoreAssumption
<1>2. /\ u \in Stored /\ u.row = v /\ u.synced = s.synced /\ u.base = s.base /\ u.tag = s.tag
      /\ ~u.gone /\ u.op # "delete"
  BY DEF Stored
<1>3. /\ Same(u, QueueUpsert(u, t)) /\ ~QueueUpsert(u, t).gone
      /\ QueueUpsert(u, t).op = "upsert"
  <2> HIDE DEF u
  <2> QED
    BY <1>2, QueuedFields
<1>4. Write(s, v, t) = IF v = s.row THEN s ELSE IF Matches(s, v) THEN u ELSE QueueUpsert(u, t)
  BY <1>1 DEF Write
<1> HIDE DEF u
<1> QED
  BY <1>1, <1>2, <1>3, <1>4 DEF Same, Tracked

(* A fetched version is merged with an edit made here, never put over it.   *)
LEMMA MergeAdds ==
    ASSUME NEW e \in Combining, NEW s \in Stored, NEW r \in CloudRecord, NEW now \in Nat,
           r.val # None, ~s.gone, Agreed(s) \subseteq Entries(s.row) \cap Entries(r.val)
    PROVE  LET v == MergedValue(e, s, r, now)
           IN  v \in Payload /\ Added(s.row, v) /\ r.val \subseteq v
<1>1. /\ r.val \in Payload /\ s.row \in {None} \cup Payload
      /\ s.base \in {None} \cup Payload /\ s.synced \in {None} \cup Payload
  BY DEF Stored, CloudRecord
<1>2. \A v \in Payload : v # None
  BY StoreAssumption
<1>3. CASE s.row = None \/ s.row = r.val
  BY <1>1, <1>2, <1>3 DEF MergedValue, Added
<1>4. CASE s.row # None /\ s.row # r.val /\ Unedited(s)
  <2>1. s.synced = s.row
    BY <1>4 DEF Unedited, Matches
  <2>2. s.row \subseteq r.val
    BY <1>1, <1>4, <2>1 DEF Agreed, Entries
  <2> QED
    BY <1>1, <1>2, <1>4, <2>2 DEF MergedValue, Added
<1>5. CASE s.row # None /\ s.row # r.val /\ ~Unedited(s)
  <2>1. MergedValue(e, s, r, now) = Merge3(s.base, s.row, r.val)
    BY <1>5 DEF MergedValue
  <2>2. Entries(s.base) \subseteq s.row /\ Entries(s.base) \subseteq r.val
    BY <1>1, <1>5 DEF Agreed, Entries
  <2>3. Merge3(s.base, s.row, r.val) = s.row \cup r.val
    BY <2>2 DEF Merge3, Entries
  <2>4. s.row \cup r.val \in Payload
    BY <1>1, <1>5 DEF Payload
  <2> QED
    BY <1>2, <2>1, <2>3, <2>4 DEF Added
<1> QED
  BY <1>3, <1>4, <1>5

(* What the two sides are then known to share is what they shared before or *)
(* that version.                                                            *)
Learns(s, t, v) == t.synced \in {s.synced, v} /\ t.base \in {s.base, v}

LEMMA ApplySound ==
    ASSUME NEW e \in Combining, NEW z \in CloudRecord, NEW s \in Stored,
           NEW r \in CloudRecord, NEW now \in Nat, r.val # None,
           Sound(z, s), Fits(z, s, r)
    PROVE  LET t == ApplyRecord(e, s, r, now)
           IN  Sound(z, t) /\ Added(s.row, t.row) /\ Learns(s, t, r.val)
<1> DEFINE v == MergedValue(e, s, r, now)
           w == Link(e, s, r)
           t == ApplyRecord(e, s, r, now)
<1>1. /\ r.val \in Payload /\ s.row \in {None} \cup Payload
      /\ s.base \in {None} \cup Payload /\ s.synced \in {None} \cup Payload
  BY DEF Stored, CloudRecord
<1>2. CASE Outdated(s, r)
  BY <1>1, <1>2 DEF ApplyRecord, Added, Learns
<1>3. CASE ~Outdated(s, r)
  <2>1. v \in Payload /\ Added(s.row, v) /\ r.val \subseteq v
    BY MergeAdds DEF Sound, Fits, Tracked
  <2>2. w \in Stored
    BY DEF Link, Stored, CloudRecord, Larger
  <2>3. /\ w.row = s.row /\ w.synced = r.val /\ w.base = r.val /\ w.tag = r.ver
        /\ ~w.gone /\ w.op # "delete"
    BY DEF Link, Stored, Sound, Tracked
  <2>4. t = Write(w, v, now)
    BY <1>3 DEF ApplyRecord
  <2> HIDE DEF v, w, t
  <2>5. /\ t.row = v /\ t.synced = r.val /\ t.base = r.val /\ t.tag = r.ver
        /\ Tracked(t)
    BY <2>1, <2>2, <2>3, <2>4, WriteFields
  <2>6. Entries(r.val) \subseteq Entries(t.row)
    BY <1>1, <2>1, <2>5, StoreAssumption DEF Entries
  <2>7. Attained(z, t.tag, t.row)
    BY <2>5, <2>6 DEF Fits, Attained
  <2>8. Agreed(t) \subseteq Entries(t.row) \cap Entries(z.val)
    BY <2>5, <2>6 DEF Agreed, Fits
  <2> QED
    BY <2>1, <2>5, <2>7, <2>8 DEF Sound, Learns, t
<1> QED
  BY <1>2, <1>3

(* So it is when the cloud has answered an upload.                          *)
LEMMA AnsweredSound ==
    ASSUME TypeOK, OneUpload, NEW z \in CloudRecord, NEW s \in Stored, NEW r \in Result,
           r.e \in Combining, s.tries < MaxMergeAttempts,
           Undeleted(z), Sound(z, s), Fits(z, s, r.rec), s.row # None,
           NEW i \in inflight, i.e = r.e, i.q = r.q, i.val # None, i.val \subseteq s.row,
           r.kind = "saved" => r.rec.val = i.val
    PROVE  LET t == Answered(s, r)
           IN  Sound(z, t) /\ t.row = s.row /\ Learns(s, t, r.rec.val)
<1> DEFINE t == Answered(s, r)
           v == r.rec.val
           ver == r.rec.ver
<1>1. /\ r.q \in Nat /\ v \in {None} \cup Payload /\ ver \in Nat
      /\ r.kind \in {"saved", "deleted", "retry", "unknown", "conflict"}
      /\ s.row \in Payload
  BY DEF Result, CloudRecord, Stored
<1>2. Sent(r) = {i}
  BY DEF Sent, OneUpload
<1>3. t \in Stored
  BY AnsweredTyped
(* The edit that was sent is shared now. *)
<1>4. ASSUME v = i.val, NEW b \in {s.base, v},
             NEW u \in Stored, u.row = s.row, u.synced = v, u.base = b, u.tag = ver, Tracked(u)
      PROVE  Sound(z, u) /\ Learns(s, u, v)
  <2>1. Entries(v) \subseteq Entries(s.row)
    BY <1>4 DEF Entries
  <2>2. Attained(z, u.tag, u.row)
    BY <1>4, <2>1 DEF Fits, Attained
  <2>3. Agreed(u) \subseteq Entries(u.row) \cap Entries(z.val)
    BY <1>4, <2>1 DEF Agreed, Fits, Sound
  <2> QED
    BY <1>4, <2>2, <2>3 DEF Sound, Learns
<1>5. LET a == [s EXCEPT !.synced = v, !.tag = ver]
          u == AckSaved(s, r.q, v, ver)
          c == [u EXCEPT !.base = v]
      IN  /\ u \in Stored /\ u.row = s.row /\ u.synced = v /\ u.base = s.base /\ u.tag = ver
          /\ Tracked(u)
          /\ c \in Stored /\ c.row = s.row /\ c.synced = v /\ c.base = v /\ c.tag = ver
          /\ Tracked(c)
  <2> DEFINE a == [s EXCEPT !.synced = v, !.tag = ver]
             u == AckSaved(s, r.q, v, ver)
             c == [u EXCEPT !.base = v]
  <2>1. /\ a \in Stored /\ a.row = s.row /\ a.synced = v /\ a.base = s.base /\ a.tag = ver
        /\ Tracked(a)
    BY <1>1 DEF Stored, Sound, Tracked
  <2>2. u = Unqueue(a, r.q)
    BY DEF AckSaved
  <2> HIDE DEF a
  <2>3. /\ u \in Stored /\ u.row = s.row /\ u.synced = v /\ u.base = s.base /\ u.tag = ver
        /\ Tracked(u)
    BY <1>1, <2>1, <2>2, CancelFields, OutboxStored DEF Same
  <2> HIDE DEF u
  <2>4. /\ c \in Stored /\ c.row = s.row /\ c.synced = v /\ c.base = v /\ c.tag = ver
        /\ Tracked(c)
    BY <1>1, <2>3 DEF Stored, Tracked
  <2> QED
    BY <2>3, <2>4 DEF u
<1>6. CASE r.kind = "saved"
  <2>1. t = [AckSaved(s, r.q, v, ver) EXCEPT !.base = v]
    <3>1. (CHOOSE j \in Sent(r) : TRUE) = i
      BY <1>2
    <3> QED
      BY <1>2, <1>6, <3>1 DEF Answered, OnSaved
  <2> QED
    BY <1>4, <1>5, <1>6, <2>1
<1>7. CASE r.kind = "deleted"
  <2>1. t = Unqueue(s, r.q)
    BY <1>7 DEF Answered, AckDeleted, Sound, Tracked
  <2>2. Same(s, t) /\ Tracked(t)
    BY <2>1, CancelFields DEF Sound
  <2> QED
    BY <1>3, <2>2, SoundSame DEF Same, Learns
<1>8. ASSUME Same(s, t), Tracked(t)
      PROVE  Sound(z, t) /\ t.row = s.row /\ Learns(s, t, v)
  BY <1>3, <1>8, SoundSame DEF Same, Learns
<1>9. CASE r.kind \in {"retry", "unknown", "conflict"} /\ ~IsQueued(s, r.q)
  <2>1. t = s
    BY <1>9 DEF Answered, OnFailure
  <2> QED
    BY <1>8, <2>1 DEF Same, Sound
<1>10. CASE r.kind = "retry" /\ IsQueued(s, r.q)
  <2>1. t = Fail(s, "later")
    BY <1>10 DEF Answered, OnFailure
  <2> QED
    BY <1>8, <2>1, FailFields DEF Sound
(* The change tag is another one, the row has all that came with it. *)
<1>11. ASSUME NEW g \in {0, ver}, t = [s EXCEPT !.tag = g, !.wait = "now"],
              Attained(z, g, s.row)
       PROVE  Sound(z, t) /\ t.row = s.row /\ Learns(s, t, v)
  <2>1. /\ t.row = s.row /\ t.synced = s.synced /\ t.base = s.base /\ t.tag = g
        /\ Tracked(t)
    BY <1>11 DEF Stored, Sound, Tracked
  <2> QED
    BY <1>11, <2>1 DEF Sound, Learns, Agreed
<1>12. CASE r.kind = "unknown" /\ IsQueued(s, r.q)
  <2>1. t = [s EXCEPT !.tag = 0, !.wait = "now"]
    BY <1>12 DEF Answered, OnFailure
  <2>2. Attained(z, 0, s.row)
    BY DEF Attained, CloudRecord, Undeleted, Entries
  <2> QED
    BY <1>11, <2>1, <2>2
<1>13. CASE r.kind = "conflict" /\ IsQueued(s, r.q)
  <2>1. t = OnConflict(s, r)
    BY <1>13 DEF Answered, OnFailure
  <2>2. MergeFirst(r.e, s)
    BY <1>13 DEF MergeFirst, IsQueued, Sound, Tracked, Stored
  <2>3. CASE Landed(r)
    <3>1. v = i.val
      BY <1>2, <2>3 DEF Landed
    <3>2. t = AckSaved(s, r.q, v, ver)
      BY <2>1, <2>3 DEF OnConflict
    <3> QED
      BY <1>4, <1>5, <3>1, <3>2
  <2>4. CASE ~Landed(r) /\ SavesOver(s, r)
    <3>1. s.synced = v
      BY <2>2, <2>4 DEF SavesOver, LocalWins
    <3>2. Attained(z, ver, s.row)
      BY <3>1 DEF Fits, Sound, Agreed, Attained
    <3> QED
      BY <1>11, <2>1, <2>4, <3>2 DEF OnConflict
  <2>5. CASE ~Landed(r) /\ ~SavesOver(s, r)
    <3>1. t = Fail(s, "merging")
      BY <2>1, <2>2, <2>5 DEF OnConflict
    <3> QED
      BY <1>8, <3>1, FailFields DEF Sound
  <2> QED
    BY <2>3, <2>4, <2>5
<1> QED
  BY <1>1, <1>6, <1>7, <1>9, <1>10, <1>12, <1>13

-----------------------------------------------------------------------------
(* The versions on their way, in the order in which they will be applied.   *)

(* What an event brings; what batches and events bring is ordered.          *)
Brought(m) == IF m.ev = "fetched" THEN m.recs ELSE IF m.ev = "sent" THEN m.results ELSE {}

Under(X, Y) ==
    \A x \in X, y \in Y :
        x.e = y.e /\ x.e \in Combining => Entries(x.rec.val) \subseteq Entries(y.rec.val)

Sorted(b, c) ==
    /\ \A k, l \in DOMAIN b : k <= l => Under(b[k].recs, b[l].recs)
    /\ \A k \in DOMAIN b, l \in DOMAIN c : Under(b[k].recs, Brought(c[l]))
    /\ \A k, l \in DOMAIN c : k <= l => Under(Brought(c[k]), Brought(c[l]))

AllFit(z, st, X) == \A x \in X : x.e \in Combining => Fits(z[x.e], st[x.e], x.rec)

Fitting(z, st, b, c) ==
    /\ \A k \in DOMAIN b : AllFit(z, st, b[k].recs)
    /\ \A k \in DOMAIN c : AllFit(z, st, Brought(c[k]))

Ways(z, st, b, c) == Sorted(b, c) /\ Fitting(z, st, b, c)

(* Part of what Y holds.                                                    *)
From(X, Y) == \A x \in X : \E y \in Y : x.e = y.e /\ x.rec = y.rec

LEMMA UnderFrom ==
    ASSUME NEW X, NEW Y, NEW Z, From(X, Y)
    PROVE  /\ Under(Z, Y) => Under(Z, X)
           /\ Under(Y, Z) => Under(X, Z)
           /\ \A z, st : AllFit(z, st, Y) => AllFit(z, st, X)
<1>1. ASSUME Under(Z, Y), NEW z \in Z, NEW x \in X, z.e = x.e, z.e \in Combining
      PROVE  Entries(z.rec.val) \subseteq Entries(x.rec.val)
  <2>1. PICK y \in Y : x.e = y.e /\ x.rec = y.rec
    BY DEF From
  <2>2. Entries(z.rec.val) \subseteq Entries(y.rec.val)
    BY <1>1, <2>1 DEF Under
  <2> QED
    BY <2>1, <2>2
<1>2. ASSUME Under(Y, Z), NEW z \in Z, NEW x \in X, x.e = z.e, x.e \in Combining
      PROVE  Entries(x.rec.val) \subseteq Entries(z.rec.val)
  <2>1. PICK y \in Y : x.e = y.e /\ x.rec = y.rec
    BY DEF From
  <2>2. Entries(y.rec.val) \subseteq Entries(z.rec.val)
    BY <1>2, <2>1 DEF Under
  <2> QED
    BY <2>1, <2>2
<1>3. \A z, st : AllFit(z, st, Y) => AllFit(z, st, X)
  BY Zenon DEF AllFit, From
<1> QED
  BY <1>1, <1>2, <1>3 DEF Under

(* An event is taken off the channel, and part of what it brought waits at  *)
(* the host.                                                                *)
LEMMA Moved ==
    ASSUME NEW z, NEW st, NEW b \in Seq(Batch), NEW c \in Seq(Event), c # <<>>,
           NEW n \in Seq(Batch), Ways(z, st, b, c),
           \A k \in DOMAIN n : From(n[k].recs, Brought(Head(c)))
    PROVE  Ways(z, st, b \o n, Tail(c))
<1> DEFINE a == b \o n
           d == Tail(c)
<1>1. /\ Len(b) \in Nat /\ Len(n) \in Nat /\ Len(c) \in Nat \ {0}
      /\ DOMAIN b = 1 .. Len(b) /\ DOMAIN n = 1 .. Len(n) /\ DOMAIN c = 1 .. Len(c)
      /\ DOMAIN a = 1 .. Len(b) + Len(n)
      /\ \A k \in DOMAIN a : a[k] = IF k <= Len(b) THEN b[k] ELSE n[k - Len(b)]
  BY ConcatProperties, LenProperties, EmptySeq
<1>2. /\ DOMAIN d = 1 .. Len(c) - 1
      /\ \A k \in DOMAIN d : d[k] = c[k + 1]
      /\ Head(c) = c[1] /\ 1 \in DOMAIN c
  BY <1>1, HeadTailProperties
<1> HIDE DEF a, d
<1>3. \A k \in DOMAIN d : k + 1 \in DOMAIN c /\ d[k] = c[k + 1]
  BY <1>1, <1>2
<1>4. \A k \in DOMAIN a :
         \/ k \in DOMAIN b /\ a[k] = b[k]
         \/ /\ k > Len(b)
            /\ From(a[k].recs, Brought(c[1]))
  BY <1>1, <1>2
<1>5. ASSUME NEW k \in DOMAIN a, NEW l \in DOMAIN a, k <= l
      PROVE  Under(a[k].recs, a[l].recs)
  <2>1. CASE k \in DOMAIN b /\ a[k] = b[k] /\ l \in DOMAIN b /\ a[l] = b[l]
    BY <1>5, <2>1 DEF Ways, Sorted
  <2>2. CASE /\ k \in DOMAIN b /\ a[k] = b[k]
             /\ From(a[l].recs, Brought(c[1]))
    <3>1. Under(b[k].recs, Brought(c[1]))
      BY <1>2, <2>2 DEF Ways, Sorted
    <3> QED
      BY <2>2, <3>1, UnderFrom
  <2>3. CASE /\ From(a[k].recs, Brought(c[1]))
             /\ From(a[l].recs, Brought(c[1]))
    <3>1. Under(Brought(c[1]), Brought(c[1]))
      BY <1>1, <1>2 DEF Ways, Sorted
    <3> QED
      BY <2>3, <3>1, UnderFrom
  <2> QED
    BY <1>1, <1>4, <1>5, <2>1, <2>2, <2>3
<1>6. ASSUME NEW k \in DOMAIN a, NEW l \in DOMAIN d
      PROVE  Under(a[k].recs, Brought(d[l]))
  <2>1. CASE k \in DOMAIN b /\ a[k] = b[k]
    BY <1>3, <2>1 DEF Ways, Sorted
  <2>2. CASE From(a[k].recs, Brought(c[1]))
    <3>1. 1 \in DOMAIN c /\ l + 1 \in DOMAIN c /\ 1 <= l + 1
      BY <1>2, <1>3
    <3>2. Under(Brought(c[1]), Brought(c[l + 1]))
      BY <3>1 DEF Ways, Sorted
    <3>3. Under(Brought(c[1]), Brought(d[l]))
      BY <1>3, <3>2
    <3> QED
      BY <2>2, <3>3, UnderFrom
  <2> QED
    BY <1>4, <2>1, <2>2
<1>7. ASSUME NEW k \in DOMAIN d, NEW l \in DOMAIN d, k <= l
      PROVE  Under(Brought(d[k]), Brought(d[l]))
  <2>1. k + 1 \in DOMAIN c /\ l + 1 \in DOMAIN c /\ k + 1 <= l + 1
    BY <1>2, <1>3, <1>7
  <2> QED
    BY <1>3, <2>1 DEF Ways, Sorted
<1>8. ASSUME NEW k \in DOMAIN a PROVE AllFit(z, st, a[k].recs)
  <2>1. CASE k \in DOMAIN b /\ a[k] = b[k]
    BY <2>1 DEF Ways, Fitting
  <2>2. CASE From(a[k].recs, Brought(c[1]))
    <3>1. AllFit(z, st, Brought(c[1]))
      BY <1>2 DEF Ways, Fitting
    <3> QED
      BY <2>2, <3>1, UnderFrom
  <2> QED
    BY <1>4, <2>1, <2>2
<1>9. ASSUME NEW k \in DOMAIN d PROVE AllFit(z, st, Brought(d[k]))
  BY <1>3 DEF Ways, Fitting
<1> QED
  BY <1>5, <1>6, <1>7, <1>8, <1>9 DEF Ways, Sorted, Fitting, a, d

(* Events are added that bring the cloud's latest versions, or nothing.     *)
LEMMA Emitted ==
    ASSUME NEW z, NEW st, NEW b \in Seq(Batch), NEW c \in Seq(Event), NEW n \in Seq(Event),
           Ways(z, st, b, c),
           \A k \in DOMAIN n : \A x \in Brought(n[k]) :
               x.e \in Combining => x.rec = z[x.e],
           \A e \in Combining : Fits(z[e], st[e], z[e])
    PROVE  Ways(z, st, b, c \o n)
<1> DEFINE d == c \o n
<1>1. /\ Len(c) \in Nat /\ Len(n) \in Nat
      /\ DOMAIN c = 1 .. Len(c) /\ DOMAIN n = 1 .. Len(n) /\ DOMAIN d = 1 .. Len(c) + Len(n)
      /\ \A k \in DOMAIN d : d[k] = IF k <= Len(c) THEN c[k] ELSE n[k - Len(c)]
  BY ConcatProperties, LenProperties
<1> HIDE DEF d
<1>2. \A k \in DOMAIN d :
         \/ k \in DOMAIN c /\ d[k] = c[k]
         \/ /\ k > Len(c)
            /\ \A x \in Brought(d[k]) : x.e \in Combining => x.rec = z[x.e]
  BY <1>1
<1>3. ASSUME NEW k \in DOMAIN d PROVE AllFit(z, st, Brought(d[k]))
  <2>1. CASE k \in DOMAIN c /\ d[k] = c[k]
    BY <2>1 DEF Ways, Fitting
  <2>2. CASE \A x \in Brought(d[k]) : x.e \in Combining => x.rec = z[x.e]
    BY <2>2 DEF AllFit
  <2> QED
    BY <1>2, <2>1, <2>2
<1>4. ASSUME NEW X, NEW Y, AllFit(z, st, X),
             \A x \in Y : x.e \in Combining => x.rec = z[x.e]
      PROVE  Under(X, Y)
  BY <1>4 DEF Under, AllFit, Fits
<1>5. ASSUME NEW k \in DOMAIN b, NEW l \in DOMAIN d
      PROVE  Under(b[k].recs, Brought(d[l]))
  <2>1. CASE l \in DOMAIN c /\ d[l] = c[l]
    BY <2>1 DEF Ways, Sorted
  <2>2. CASE \A x \in Brought(d[l]) : x.e \in Combining => x.rec = z[x.e]
    BY <1>4, <2>2 DEF Ways, Fitting
  <2> QED
    BY <1>2, <2>1, <2>2
<1>6. ASSUME NEW k \in DOMAIN d, NEW l \in DOMAIN d, k <= l
      PROVE  Under(Brought(d[k]), Brought(d[l]))
  <2>1. CASE l \in DOMAIN c /\ d[l] = c[l]
    <3>1. k \in DOMAIN c /\ d[k] = c[k]
      BY <1>1, <1>6, <2>1
    <3> QED
      BY <1>6, <2>1, <3>1 DEF Ways, Sorted
  <2>2. CASE \A x \in Brought(d[l]) : x.e \in Combining => x.rec = z[x.e]
    BY <1>3, <1>4, <2>2
  <2> QED
    BY <1>2, <2>1, <2>2
<1> QED
  BY <1>3, <1>5, <1>6 DEF Ways, Sorted, Fitting, d

(* The host applies the batch that waited longest: what is known to be      *)
(* shared by then is in all that follow.                                    *)
LEMMA Dropped ==
    ASSUME NEW z, NEW st, NEW b \in Seq(Batch), b # <<>>, NEW c \in Seq(Event),
           Ways(z, st, b, c)
    PROVE  Ways(z, st, Tail(b), c)
<1> DEFINE a == Tail(b)
<1>1. /\ Len(b) \in Nat \ {0} /\ DOMAIN b = 1 .. Len(b) /\ DOMAIN a = 1 .. Len(b) - 1
      /\ \A k \in DOMAIN a : a[k] = b[k + 1]
  BY HeadTailProperties, LenProperties, EmptySeq
<1> HIDE DEF a
<1>2. \A k \in DOMAIN a : k + 1 \in DOMAIN b /\ a[k] = b[k + 1]
  BY <1>1
<1>3. \A k, l \in DOMAIN a : k <= l => k + 1 <= l + 1
  BY <1>1
<1> QED
  BY <1>2, <1>3 DEF Ways, Sorted, Fitting, a

(* A store that has learned no more than what is in all that follows.       *)
LEMMA WaysLearned ==
    ASSUME NEW z, NEW st, NEW s, NEW b, NEW c, NEW X, Ways(z, st, b, c),
           \A k \in DOMAIN b : Under(X, b[k].recs),
           \A k \in DOMAIN c : Under(X, Brought(c[k])),
           \A e \in Combining :
               \/ Agreed(s[e]) \subseteq Agreed(st[e])
               \/ \E x \in X : /\ x.e = e
                               /\ Agreed(s[e]) \subseteq Agreed(st[e]) \cup Entries(x.rec.val)
    PROVE  Ways(z, s, b, c)
<1>1. ASSUME NEW Y, AllFit(z, st, Y), Under(X, Y) PROVE AllFit(z, s, Y)
  <2> SUFFICES ASSUME NEW y \in Y, y.e \in Combining PROVE Fits(z[y.e], s[y.e], y.rec)
    BY DEF AllFit
  <2>1. Fits(z[y.e], st[y.e], y.rec)
    BY <1>1 DEF AllFit
  <2>2. Agreed(s[y.e]) \subseteq Entries(y.rec.val)
    <3>1. CASE Agreed(s[y.e]) \subseteq Agreed(st[y.e])
      BY <2>1, <3>1 DEF Fits
    <3>2. ASSUME NEW x \in X, x.e = y.e,
                 Agreed(s[y.e]) \subseteq Agreed(st[y.e]) \cup Entries(x.rec.val)
          PROVE  Agreed(s[y.e]) \subseteq Entries(y.rec.val)
      <4>1. Entries(x.rec.val) \subseteq Entries(y.rec.val)
        BY <1>1, <3>2 DEF Under
      <4> QED
        BY <2>1, <3>2, <4>1 DEF Fits
    <3> QED
      BY <3>1, <3>2
  <2> QED
    BY <2>1, <2>2 DEF Fits
<1>2. \A k \in DOMAIN b : AllFit(z, s, b[k].recs)
  BY <1>1 DEF Ways, Fitting
<1>3. \A k \in DOMAIN c : AllFit(z, s, Brought(c[k]))
  BY <1>1 DEF Ways, Fitting
<1> QED
  BY <1>2, <1>3 DEF Ways, Fitting

(* The cloud moved on.                                                      *)
Later(z, y) ==
    \/ y = z
    \/ y.ver > z.ver /\ y.val # None /\ Added(z.val, y.val)

LEMMA LaterKeeps ==
    ASSUME NEW z \in CloudRecord, NEW y \in CloudRecord, Later(z, y)
    PROVE  /\ \A ver \in Nat : \A v : Attained(z, ver, v) => Attained(y, ver, v)
           /\ \A s \in Stored : Sound(z, s) => Sound(y, s)
           /\ \A s, r : r.ver \in Nat /\ Fits(z, s, r) => Fits(y, s, r)
           /\ Undeleted(z) => Undeleted(y)
           /\ Added(z.val, y.val)
<1>1. Entries(z.val) \subseteq Entries(y.val) /\ Added(z.val, y.val)
  BY DEF Later, Added, Entries, CloudRecord
<1>2. \A ver \in Nat : \A v : Attained(z, ver, v) => Attained(y, ver, v)
  BY DEF Later, Attained, CloudRecord
<1>3. \A s \in Stored : Sound(z, s) => Sound(y, s)
  <2>1. \A s \in Stored : s.tag \in Nat
    BY DEF Stored
  <2> QED
    BY <1>1, <1>2, <2>1 DEF Sound
<1>4. \A s, r : r.ver \in Nat /\ Fits(z, s, r) => Fits(y, s, r)
  BY <1>1, <1>2 DEF Fits
<1>5. Undeleted(z) => Undeleted(y)
  BY DEF Later, Undeleted, CloudRecord
<1> QED
  BY <1>1, <1>2, <1>3, <1>4, <1>5

LEMMA WaysLater ==
    ASSUME NEW z \in [Entity -> CloudRecord], NEW y \in [Entity -> CloudRecord], NEW st,
           NEW b \in Seq(Batch), NEW c \in Seq(Event), Ways(z, st, b, c),
           \A e \in Combining : Later(z[e], y[e])
    PROVE  Ways(y, st, b, c)
<1>0. \A e \in Combining : e \in Entity
  BY MacAssumption
<1>1. ASSUME NEW Y, AllFit(z, st, Y), \A x \in Y : x.rec.ver \in Nat PROVE AllFit(y, st, Y)
  BY <1>0, <1>1, LaterKeeps DEF AllFit
<1>2. ASSUME NEW k \in DOMAIN b PROVE AllFit(y, st, b[k].recs)
  <2>1. b[k] \in Batch
    BY ElementOfSeq
  <2>2. \A x \in b[k].recs : x.rec.ver \in Nat
    BY <2>1 DEF Batch, Fetched, CloudRecord
  <2> QED
    BY <1>1, <2>2 DEF Ways, Fitting
<1>3. ASSUME NEW k \in DOMAIN c PROVE AllFit(y, st, Brought(c[k]))
  <2>1. c[k] \in Event
    BY ElementOfSeq
  <2>2. \A x \in Brought(c[k]) : x.rec \in CloudRecord
    BY <2>1, EventTyped DEF Brought, Fetched, Result, FiniteSubset
  <2>3. \A x \in Brought(c[k]) : x.rec.ver \in Nat
    BY <2>2 DEF CloudRecord
  <2> QED
    BY <1>1, <2>3 DEF Ways, Fitting
<1> QED
  BY <1>2, <1>3 DEF Ways, Fitting

-----------------------------------------------------------------------------
(* The uploads on their way.                                                *)

(* An upload holds what the row held, and the row has lost nothing since.   *)
Asked(st, flying) ==
    \A i \in flying : i.e \in Combining =>
        i.val # None /\ st[i.e].row # None /\ i.val \subseteq st[i.e].row

(* One that would be accepted has all that the cloud holds.                 *)
Ready(z, out) ==
    \A k \in DOMAIN out : \A x \in Offers(out[k]) : x.e \in Combining =>
        x.val # None /\ Attained(z[x.e], x.tag, x.val)

Uploads(z, st, flying, out, c) ==
    Asked(st, flying) /\ Ready(z, out) /\ Paired(flying, out, c)

LEMMA PumpUploads ==
    ASSUME NEW z \in [Entity -> CloudRecord], NEW st \in [Entity -> Stored],
           NEW flying \in SUBSET Inflight, NEW again, NEW caught,
           NEW out \in Seq(Command), NEW c,
           \A e \in Combining : Sound(z[e], st[e]),
           Uploads(z, st, flying, out, c),
           Pump(st, flying, again, caught, out)
    PROVE  /\ \A e \in Combining : store'[e] = st[e]
           /\ Uploads(z, store', inflight', cmds', c)
<1> DEFINE due == IF sendHold THEN {} ELSE {e \in Entity : Due(e, st[e], flying, caught)}
           lost == {e \in due : Vanished(st[e])}
           changes == {Build(e, st[e]) : e \in due \ lost}
           new == {[e |-> x.e, q |-> x.q, val |-> x.val] : x \in changes}
           send == [cmd |-> "send", changes |-> changes]
<1>1. /\ store' = [e \in Entity |-> IF e \in lost THEN Cancel(st[e]) ELSE st[e]]
      /\ inflight' = flying \cup new
      /\ cmds' = IF changes = {} THEN out ELSE Append(out, send)
  BY DEF Pump
<1>2. \A e \in due : e \in Entity /\ e \notin EntriesOf(flying) /\ st[e].op # "none"
  BY DEF Due
<1>3. ASSUME NEW e \in due, e \in Combining
      PROVE  /\ e \notin lost
             /\ Build(e, st[e]).val = st[e].row /\ Build(e, st[e]).tag = st[e].tag
             /\ st[e].row # None
  <2>1. st[e].op # "none" /\ Tracked(st[e])
    BY <1>2, <1>3 DEF Sound
  <2> QED
    BY <2>1 DEF Vanished, Build, Tracked
<1>4. \A e \in Combining : store'[e] = st[e]
  <2>1. \A e \in Combining : e \notin lost
    BY <1>3
  <2> HIDE DEF lost
  <2> QED
    BY <1>1, <2>1, MacAssumption
<1>5. \A x \in changes : \E e \in due \ lost : x = Build(e, st[e]) /\ x.e = e
  BY DEF Build
<1>6. \A x \in changes : /\ x.e \in due /\ x.e \notin EntriesOf(flying)
                         /\ x = Build(x.e, st[x.e])
  BY <1>2, <1>5
<1> HIDE DEF due, lost, changes
<1>7. Offers(send) = changes
  BY DEF Offers
<1>8. \A i \in new : \E x \in changes : i.e = x.e /\ i.q = x.q /\ i.val = x.val
  OBVIOUS
<1>9. \A x \in changes : [e |-> x.e, q |-> x.q, val |-> x.val] \in inflight'
  BY <1>1
<1> HIDE DEF new, send
<1>10. Asked(store', inflight')
  <2>1. ASSUME NEW i \in new, i.e \in Combining
        PROVE  i.val # None /\ st[i.e].row # None /\ i.val \subseteq st[i.e].row
    <3>1. PICK x \in changes : i.e = x.e /\ i.val = x.val
      BY <1>8
    <3>2. x.e \in due /\ x = Build(x.e, st[x.e]) /\ x.e \in Combining
      BY <1>6, <2>1, <3>1
    <3>3. x.val = st[x.e].row /\ st[x.e].row # None
      BY <1>3, <3>2
    <3> QED
      BY <3>1, <3>3
  <2> QED
    BY <1>1, <1>4, <2>1 DEF Asked, Uploads
<1>11. ASSUME NEW x \in changes, x.e \in Combining
       PROVE  x.val # None /\ Attained(z[x.e], x.tag, x.val)
  <2>1. x.e \in due /\ x = Build(x.e, st[x.e])
    BY <1>6
  <2>2. x.val = st[x.e].row /\ x.tag = st[x.e].tag /\ st[x.e].row # None
    BY <1>3, <1>11, <2>1
  <2> QED
    BY <1>11, <2>2 DEF Sound
<1>12. /\ Len(out) \in Nat /\ DOMAIN out = 1 .. Len(out)
       /\ \A k \in DOMAIN cmds' :
             \/ k \in DOMAIN out /\ cmds'[k] = out[k]
             \/ k = Len(out) + 1 /\ cmds'[k] = send
  BY <1>1, AppendProperties, LenProperties
<1>13. Ready(z, cmds')
  BY <1>7, <1>11, <1>12 DEF Ready, Uploads
<1>14. Paired(inflight', cmds', c)
  BY PumpPaired DEF Uploads
<1> QED
  BY <1>4, <1>10, <1>13, <1>14 DEF Uploads

(* An event other than an answer is taken off or added.                     *)
LEMMA UploadsMail ==
    ASSUME NEW z, NEW st, NEW flying, NEW out, NEW c \in Seq(Event),
           Uploads(z, st, flying, out, c)
    PROVE  /\ c # <<>> => Uploads(z, st, flying, out, Tail(c))
           /\ \A n \in Seq(Event) : (\A k \in DOMAIN n : Answers(n[k]) = {}) =>
                 Uploads(z, st, flying, out, c \o n)
<1>1. /\ c # <<>> => Paired(flying, out, Tail(c))
      /\ \A n \in Seq(Event) : (\A k \in DOMAIN n : Answers(n[k]) = {}) =>
            Paired(flying, out, c \o n)
  BY PairedMail DEF Uploads
<1> QED
  BY <1>1 DEF Uploads

(* The bridge takes a command.                                              *)
LEMMA UploadsTaken ==
    ASSUME NEW z, NEW st, NEW flying, NEW out \in Seq(Command), out # <<>>, NEW c,
           Uploads(z, st, flying, out, c)
    PROVE  /\ Uploads(z, st, flying, Tail(out), c)
           /\ \A k \in DOMAIN Tail(out) : \A x \in Offers(Tail(out)[k]) :
                 \A y \in Offers(Head(out)) : x.e # y.e
<1>1. /\ Paired(flying, Tail(out), c)
      /\ \A k \in DOMAIN Tail(out) : \A x \in Offers(Tail(out)[k]) :
            \A y \in Offers(Head(out)) : x.e # y.e
  BY PairedTaken DEF Uploads
<1>2. \A k \in DOMAIN Tail(out) : k + 1 \in DOMAIN out /\ Tail(out)[k] = out[k + 1]
  BY HeadTailProperties, LenProperties, EmptySeq
<1>3. Ready(z, Tail(out))
  BY <1>2 DEF Uploads, Ready
<1> QED
  BY <1>1, <1>3 DEF Uploads

(* The cloud moved on, or rows got more entries.                            *)
LEMMA UploadsStill ==
    ASSUME NEW z, NEW st, NEW y, NEW s, NEW flying, NEW out \in Seq(Command), NEW c,
           Uploads(z, st, flying, out, c),
           \A e \in Combining : Added(st[e].row, s[e].row),
           \A e \in Combining, ver \in Nat : \A v :
               Attained(z[e], ver, v) => Attained(y[e], ver, v)
    PROVE  Uploads(y, s, flying, out, c)
<1>1. Asked(s, flying)
  BY DEF Uploads, Asked, Added
<1>2. Ready(y, out)
  <2>1. ASSUME NEW k \in DOMAIN out, NEW x \in Offers(out[k]) PROVE x.tag \in Nat
    <3>1. out[k] \in Command
      BY ElementOfSeq
    <3>2. x \in Change
      BY <3>1, CommandTyped DEF Offers, FiniteSubset
    <3> QED
      BY <3>2 DEF Change
  <2> QED
    BY <2>1 DEF Uploads, Ready
<1> QED
  BY <1>1, <1>2 DEF Uploads

-----------------------------------------------------------------------------
(* The invariant.                                                           *)

(* Users who only add, and only the faults after which that is enough.      *)
OnlyAdds ==
    Deleters = {} /\ Reuse = FALSE /\ Prompt = TRUE /\ Faults \subseteq {"stuck", "fetch", "record"}

(* No edit is refused so often that it is not merged any more.              *)
FewRefusals == \A e \in Combining : store[e].tries < MaxMergeAttempts

(* What `merged_value` takes for granted when it ignores a fetched record   *)
(* as older: a version of a lower revision than the row's, with no edit of  *)
(* the row queued, has nothing the row lacks.                               *)
OlderHasNoMore ==
    \A e \in Combining : store[e].op = "none" /\ cloud[e].rev < store[e].rev =>
                             Added(cloud[e].val, store[e].row)

(* Nothing is deleted, expires or fails as a whole.                         *)
Plain ==
    /\ staged = {} /\ engine # None /\ staleSeen = None
    /\ \A k \in DOMAIN chan :
           /\ chan[k].ev \notin {"sendfailed", "expired"}
           /\ chan[k].ev = "fetched" => chan[k].dels \cap Combining = {}
    /\ \A k \in DOMAIN toApply : toApply[k].dels \cap Combining = {}
    /\ ~up => chan = <<>>

Rows == \A e \in Combining : Sound(cloud[e], store[e]) /\ Undeleted(cloud[e])

Merging ==
    /\ Rows
    /\ Ways(cloud, store, toApply, chan)
    /\ Uploads(cloud, store, inflight, cmds, chan)
    /\ Plain

(* What a step must do.                                                     *)
Kept ==
    \A e \in Combining : /\ Added(store[e].row, store'[e].row)
                         /\ Added(cloud[e].val, cloud'[e].val)

LEMMA AddedSame == \A v : Added(v, v)
  BY DEF Added

LEMMA CombiningTyped ==
    ASSUME Inv
    PROVE  /\ \A e \in Combining : /\ e \in Entity
                                   /\ store[e] \in Stored /\ cloud[e] \in CloudRecord
           /\ store \in [Entity -> Stored] /\ cloud \in [Entity -> CloudRecord]
           /\ toApply \in Seq(Batch) /\ cmds \in Seq(Command) /\ chan \in Seq(Event)
           /\ inflight \in SUBSET Inflight
  BY MacAssumption DEF Inv, TypeOK

LEMMA InitMerging == Init => Merging
<1> SUFFICES ASSUME Init PROVE Merging
  OBVIOUS
<1>1. \A e \in Combining : /\ store[e] = Untracked
                           /\ cloud[e] = [val |-> None, ver |-> 0, rev |-> 0, at |-> 0, dev |-> Peer]
  BY MacAssumption DEF Init
<1>2. Rows
  BY <1>1 DEF Rows, Sound, Undeleted, Untracked, Tracked, Agreed, Entries, Attained
<1>3. toApply = <<>> /\ chan = <<>> /\ cmds = <<>> /\ inflight = {}
  BY DEF Init
<1>4. Ways(cloud, store, toApply, chan)
  BY <1>3 DEF Ways, Sorted, Fitting
<1>5. Uploads(cloud, store, inflight, cmds, chan)
  BY <1>3 DEF Uploads, Asked, Ready, Paired, Matched, Single
<1>6. NoPosition # None
  <2>1. NoPosition \in Position
    BY DEF NoPosition, Position
  <2> QED
    BY <2>1, MacAssumption
<1>7. Plain
  BY <1>3, <1>6 DEF Init, Plain
<1> QED
  BY <1>2, <1>4, <1>5, <1>7 DEF Merging

(* A step of the store alone that only adds to rows.                        *)
LEMMA RowsGrow ==
    ASSUME Inv, Inv', Merging, UNCHANGED <<cloud, toApply, chan, cmds, inflight>>, Plain',
           \A e \in Combining :
               /\ Added(store[e].row, store'[e].row) /\ Tracked(store'[e])
               /\ store'[e].synced = store[e].synced /\ store'[e].base = store[e].base
               /\ store'[e].tag = store[e].tag
    PROVE  Merging' /\ Kept
<1>1. \A e \in Combining : Agreed(store'[e]) = Agreed(store[e])
  BY DEF Agreed
<1>2. \A e \in Combining : Entries(store[e].row) \subseteq Entries(store'[e].row)
  BY DEF Added, Entries
<1>3. ASSUME NEW e \in Combining PROVE Sound(cloud[e], store'[e])
  <2>1. Sound(cloud[e], store[e])
    BY DEF Merging, Rows
  <2>2. Attained(cloud[e], store'[e].tag, store'[e].row)
    BY <1>2, <2>1 DEF Sound, Attained
  <2> QED
    BY <1>1, <1>2, <2>1, <2>2 DEF Sound
<1>4. Ways(cloud, store', toApply, chan)
  <2> DEFINE X == {}
  <2>1. \A Y : Under(X, Y)
    BY DEF Under
  <2>2. Ways(cloud, store, toApply, chan)
    BY DEF Merging
  <2> HIDE DEF X
  <2> QED
    BY <1>1, <2>1, <2>2, WaysLearned
<1>5. Uploads(cloud, store', inflight, cmds, chan)
  BY UploadsStill, CombiningTyped DEF Merging
<1> QED
  BY <1>3, <1>4, <1>5, AddedSame DEF Merging, Rows, Kept

(* A step of the zone alone.                                                *)
LEMMA ZoneGrows ==
    ASSUME Inv, Inv', Merging, UNCHANGED <<store, toApply, chan, cmds, inflight>>, Plain',
           \A e \in Combining : Later(cloud[e], cloud'[e])
    PROVE  Merging' /\ Kept
<1>0. /\ \A e \in Combining : /\ e \in Entity /\ store[e] \in Stored
                              /\ cloud[e] \in CloudRecord /\ cloud'[e] \in CloudRecord
      /\ cloud \in [Entity -> CloudRecord] /\ cloud' \in [Entity -> CloudRecord]
      /\ toApply \in Seq(Batch) /\ chan \in Seq(Event) /\ cmds \in Seq(Command)
  BY MacAssumption DEF Inv, TypeOK
<1>1. \A e \in Combining : /\ Sound(cloud'[e], store[e]) /\ Undeleted(cloud'[e])
                           /\ Added(cloud[e].val, cloud'[e].val)
  BY <1>0, LaterKeeps DEF Merging, Rows
<1>2. Ways(cloud', store, toApply, chan)
  BY <1>0, WaysLater DEF Merging
<1>3. Uploads(cloud', store, inflight, cmds, chan)
  <2>1. \A e \in Combining, ver \in Nat : \A v :
           Attained(cloud[e], ver, v) => Attained(cloud'[e], ver, v)
    BY <1>0, LaterKeeps
  <2>2. \A e \in Combining : Added(store[e].row, store[e].row)
    BY AddedSame
  <2> QED
    BY <1>0, <2>1, <2>2, UploadsStill DEF Merging
<1> QED
  BY <1>1, <1>2, <1>3, AddedSame DEF Merging, Rows, Kept

-----------------------------------------------------------------------------
(* The steps.                                                               *)

LEMMA UsersMerging ==
    ASSUME Inv, Inv', Merging, OnlyAdds, Users
    PROVE  Merging' /\ Kept
<1>0. \A e \in Combining : e \in Entity /\ store[e] \in Stored /\ cloud[e] \in CloudRecord
  BY CombiningTyped
<1>1. ASSUME NEW e \in Entity, NEW v \in {None} \cup Payload, NEW now \in Times, Edit(e, v, now)
      PROVE  Merging' /\ Kept
  <2>1. /\ MayBecome(Me, store[e].row, v)
        /\ store' = [store EXCEPT ![e] = Write(store[e], v, now)]
        /\ UNCHANGED <<coreVars, pathVars, engine, staged, cloud>>
    BY <1>1 DEF Edit
  <2>2. v \in Payload /\ Added(store[e].row, v)
    BY <2>1 DEF MayBecome, OnlyAdds, Added
  <2>3. ASSUME NEW x \in Combining
        PROVE  /\ Added(store[x].row, store'[x].row) /\ Tracked(store'[x])
               /\ store'[x].synced = store[x].synced /\ store'[x].base = store[x].base
               /\ store'[x].tag = store[x].tag
    <3>1. store[x] \in Stored /\ x \in Entity /\ Tracked(store[x])
      BY <1>0 DEF Merging, Rows, Sound
    <3>2. CASE x # e
      <4>1. store'[x] = store[x]
        BY <2>1, <3>1, <3>2 DEF Inv, TypeOK
      <4> QED
        BY <3>1, <4>1, AddedSame
    <3>3. CASE x = e
      <4>1. store'[x] = Write(store[x], v, now)
        BY <2>1, <3>3 DEF Inv, TypeOK
      <4>2. now \in Nat
        BY MacAssumption
      <4> QED
        BY <2>2, <3>1, <3>3, <4>1, <4>2, WriteFields DEF Tracked
    <3> QED
      BY <3>2, <3>3
  <2>4. UNCHANGED <<cloud, toApply, chan, cmds, inflight, staged, engine, staleSeen, up>>
    BY <2>1 DEF coreVars, pathVars
  <2>5. Plain'
    BY <2>4 DEF Merging, Plain
  <2> QED
    BY <2>3, <2>4, <2>5, RowsGrow
<1>2. ASSUME NEW e \in Entity, NEW v \in {None} \cup Payload, OldBuildWrites(e, v)
      PROVE  Merging' /\ Kept
  <2>1. /\ MayBecome(Me, store[e].row, v)
        /\ store' = [store EXCEPT ![e].row = v]
        /\ UNCHANGED <<coreVars, pathVars, engine, staged, cloud>>
    BY <1>2 DEF OldBuildWrites
  <2>2. v \in Payload /\ v # None /\ Added(store[e].row, v)
    BY <2>1 DEF MayBecome, OnlyAdds, Added
  <2>3. ASSUME NEW x \in Combining
        PROVE  /\ Added(store[x].row, store'[x].row) /\ Tracked(store'[x])
               /\ store'[x].synced = store[x].synced /\ store'[x].base = store[x].base
               /\ store'[x].tag = store[x].tag
    <3>1. store[x] \in Stored /\ x \in Entity /\ Tracked(store[x])
      BY <1>0 DEF Merging, Rows, Sound
    <3>2. CASE x # e
      <4>1. store'[x] = store[x]
        BY <2>1, <3>1, <3>2 DEF Inv, TypeOK
      <4> QED
        BY <3>1, <4>1, AddedSame
    <3>3. CASE x = e
      <4>1. store'[x] = [store[x] EXCEPT !.row = v]
        BY <2>1, <3>3 DEF Inv, TypeOK
      <4>2. /\ store'[x].row = v /\ store'[x].gone = store[x].gone /\ store'[x].op = store[x].op
            /\ store'[x].synced = store[x].synced /\ store'[x].base = store[x].base
            /\ store'[x].tag = store[x].tag
        BY <3>1, <4>1 DEF Stored
      <4> QED
        BY <2>2, <3>1, <3>3, <4>2 DEF Tracked
    <3> QED
      BY <3>2, <3>3
  <2>4. UNCHANGED <<cloud, toApply, chan, cmds, inflight, staged, engine, staleSeen, up>>
    BY <2>1 DEF coreVars, pathVars
  <2>5. Plain'
    BY <2>4 DEF Merging, Plain
  <2> QED
    BY <2>3, <2>4, <2>5, RowsGrow
<1>3. ASSUME NEW e \in Entity, NEW v \in Payload, NEW at \in Times,
             NEW rev \in cloud[e].rev .. cloud[e].rev + 1, PeerSaves(e, v, rev, at)
      PROVE  Merging' /\ Kept
  <2> DEFINE next == [val |-> v, ver |-> cloud[e].ver + 1, rev |-> rev, at |-> at, dev |-> Peer]
  <2>1. /\ v # None /\ MayBecome(Peer, cloud[e].val, v)
        /\ cloud' = [cloud EXCEPT ![e] = next]
        /\ UNCHANGED <<store, coreVars, pathVars, engine, staged>>
    BY <1>3 DEF PeerSaves
  <2>2. next.val = v /\ next.ver = cloud[e].ver + 1
    OBVIOUS
  <2> HIDE DEF next
  <2>3. ASSUME NEW x \in Combining PROVE Later(cloud[x], cloud'[x])
    <3>1. x \in Entity /\ cloud[x] \in CloudRecord
      BY <1>0
    <3>2. CASE x # e
      BY <2>1, <3>1, <3>2 DEF Later, Inv, TypeOK
    <3>3. CASE x = e
      <4>1. cloud'[x] = next
        BY <2>1, <3>1, <3>3 DEF Inv, TypeOK
      <4>2. Added(cloud[x].val, v)
        BY <2>1, <3>3 DEF MayBecome, OnlyAdds, Added
      <4>3. cloud[x].ver + 1 > cloud[x].ver
        BY <3>1 DEF CloudRecord
      <4> QED
        BY <2>1, <2>2, <3>3, <4>1, <4>2, <4>3 DEF Later
    <3> QED
      BY <3>2, <3>3
  <2>4. UNCHANGED <<store, toApply, chan, cmds, inflight, staged, engine, staleSeen, up>>
    BY <2>1 DEF coreVars, pathVars
  <2>5. Plain'
    BY <2>4 DEF Merging, Plain
  <2> QED
    BY <2>3, <2>4, <2>5, ZoneGrows
<1>4. ~\E e \in Entity : PeerDeletes(e)
  BY DEF PeerDeletes, OnlyAdds
<1> QED
  BY <1>1, <1>2, <1>3, <1>4 DEF Users

(* The store's rows, and what they share with the cloud, are as before.     *)
LEMMA StoreSame ==
    ASSUME NEW z, NEW st, NEW s, NEW b, NEW c, NEW flying, NEW out,
           \A e \in Combining : Same(st[e], s[e])
    PROVE  /\ Ways(z, st, b, c) => Ways(z, s, b, c)
           /\ Uploads(z, st, flying, out, c) => Uploads(z, s, flying, out, c)
<1>1. ASSUME Ways(z, st, b, c) PROVE Ways(z, s, b, c)
  <2>1. \A e \in Combining : Agreed(s[e]) \subseteq Agreed(st[e])
    BY DEF Same, Agreed
  <2> DEFINE X == {}
  <2>2. \A Y : Under(X, Y)
    BY DEF Under
  <2> HIDE DEF X
  <2> QED
    BY <1>1, <2>1, <2>2, WaysLearned
<1>2. Asked(st, flying) => Asked(s, flying)
  BY DEF Asked, Same
<1> QED
  BY <1>1, <1>2 DEF Uploads

(* A command that offers nothing is added.                                  *)
LEMMA UploadsAsked ==
    ASSUME NEW z, NEW st, NEW flying, NEW out \in Seq(Command), NEW c, NEW m,
           Uploads(z, st, flying, out, c), Offers(m) = {}
    PROVE  Uploads(z, st, flying, Append(out, m), c)
<1> DEFINE d == Append(out, m)
<1>1. \A k \in DOMAIN d : (k \in DOMAIN out /\ d[k] = out[k]) \/ Offers(d[k]) = {}
  BY AppendProperties, LenProperties
<1> HIDE DEF d
<1>2. Ready(z, d)
  BY <1>1 DEF Uploads, Ready
<1>3. Paired(flying, Append(out, m), c)
  BY PairedAsked DEF Uploads
<1> QED
  BY <1>2, <1>3 DEF Uploads, d

(* Every handler and timer ends in `pump`.                                  *)
LEMMA PumpMerged ==
    ASSUME Inv, Inv', UNCHANGED cloud, Merging,
           NEW st \in [Entity -> Stored], NEW flying \in SUBSET Inflight,
           NEW again, NEW caught, NEW out \in Seq(Command),
           \A e \in Combining : Sound(cloud[e], st[e]) /\ Added(store[e].row, st[e].row),
           Ways(cloud, st, toApply', chan'), Uploads(cloud, st, flying, out, chan'),
           Pump(st, flying, again, caught, out), Plain'
    PROVE  Merging' /\ Kept
<1>1. cloud \in [Entity -> CloudRecord]
  BY CombiningTyped
<1>2. /\ \A e \in Combining : store'[e] = st[e]
      /\ Uploads(cloud, store', inflight', cmds', chan')
  BY <1>1, PumpUploads
<1>3. Ways(cloud, store', toApply', chan')
  <2>1. \A e \in Combining : Same(st[e], store'[e])
    BY <1>2 DEF Same
  <2> QED
    BY <2>1, StoreSame
<1>4. \A e \in Combining : /\ Sound(cloud[e], store'[e]) /\ Undeleted(cloud[e])
                           /\ Added(store[e].row, store'[e].row)
  BY <1>2 DEF Merging, Rows
<1>5. Rows'
  BY <1>4 DEF Rows
<1> QED
  BY <1>2, <1>3, <1>4, <1>5, AddedSame DEF Merging, Kept

(* A handler takes an event off the channel.                                *)
LEMMA PlainTaken ==
    ASSUME Inv, Plain, chan # <<>>, chan' = Tail(chan), up, UNCHANGED <<up, staged, engine>>,
           staleSeen' = None, NEW n \in Seq(Batch), toApply' = toApply \o n,
           \A k \in DOMAIN n : n[k].dels \cap Combining = {}
    PROVE  Plain'
<1>1. chan \in Seq(Event) /\ toApply \in Seq(Batch)
  BY DEF Inv, TypeOK
<1>2. \A k \in DOMAIN chan' : k + 1 \in DOMAIN chan /\ chan'[k] = chan[k + 1]
  <2>1. /\ Len(chan) \in Nat \ {0} /\ DOMAIN chan = 1 .. Len(chan)
        /\ DOMAIN Tail(chan) = 1 .. Len(chan) - 1
        /\ \A k \in DOMAIN Tail(chan) : Tail(chan)[k] = chan[k + 1]
    BY <1>1, HeadTailProperties, LenProperties, EmptySeq
  <2> QED
    BY <2>1
<1>3. \A k \in DOMAIN toApply' : \/ k \in DOMAIN toApply /\ toApply'[k] = toApply[k]
                                 \/ k - Len(toApply) \in DOMAIN n /\ toApply'[k] = n[k - Len(toApply)]
  <2>1. /\ Len(toApply) \in Nat /\ Len(n) \in Nat
        /\ DOMAIN toApply = 1 .. Len(toApply) /\ DOMAIN n = 1 .. Len(n)
        /\ DOMAIN (toApply \o n) = 1 .. Len(toApply) + Len(n)
        /\ \A k \in DOMAIN (toApply \o n) :
              (toApply \o n)[k] = IF k <= Len(toApply) THEN toApply[k] ELSE n[k - Len(toApply)]
    BY <1>1, ConcatProperties, LenProperties
  <2>2. ASSUME NEW k \in DOMAIN toApply'
        PROVE  \/ k \in DOMAIN toApply /\ toApply'[k] = toApply[k]
               \/ k - Len(toApply) \in DOMAIN n /\ toApply'[k] = n[k - Len(toApply)]
    <3>1. CASE k <= Len(toApply)
      BY <2>1, <3>1
    <3>2. CASE ~(k <= Len(toApply))
      BY <2>1, <3>2
    <3> QED
      BY <3>1, <3>2
  <2> QED
    BY <2>2
<1>4. \A k \in DOMAIN toApply' : toApply'[k].dels \cap Combining = {}
  BY <1>3 DEF Plain
<1>5. \A k \in DOMAIN chan' : /\ chan'[k].ev \notin {"sendfailed", "expired"}
                              /\ chan'[k].ev = "fetched" => chan'[k].dels \cap Combining = {}
  BY <1>2 DEF Plain
<1> QED
  BY <1>4, <1>5 DEF Plain

LEMMA TakenMerged ==
    ASSUME Inv, Inv', Merging, UNCHANGED <<cloud, up, staged, engine>>, up,
           chan # <<>>, chan' = Tail(chan), staleSeen' = None,
           NEW n \in Seq(Batch), toApply' = toApply \o n,
           \A k \in DOMAIN n : /\ n[k].dels \cap Combining = {}
                               /\ From(n[k].recs, Brought(Head(chan))),
           NEW st \in [Entity -> Stored],
           \A e \in Combining : Sound(cloud[e], st[e]) /\ Same(store[e], st[e]),
           NEW again, NEW caught, Pump(st, inflight, again, caught, cmds)
    PROVE  Merging' /\ Kept
<1>1. /\ toApply \in Seq(Batch) /\ cmds \in Seq(Command) /\ chan \in Seq(Event)
      /\ inflight \in SUBSET Inflight
  BY CombiningTyped
<1>2. Plain'
  BY PlainTaken DEF Merging
<1>3. Ways(cloud, store, toApply \o n, Tail(chan))
  BY <1>1, Moved DEF Merging
<1>4. Uploads(cloud, store, inflight, cmds, Tail(chan))
  BY <1>1, UploadsMail DEF Merging
<1>5. Ways(cloud, st, toApply', chan') /\ Uploads(cloud, st, inflight, cmds, chan')
  BY <1>3, <1>4, StoreSame
<1>6. \A e \in Combining : Added(store[e].row, st[e].row)
  BY AddedSame DEF Same
<1> QED
  BY <1>1, <1>2, <1>5, <1>6, PumpMerged

-----------------------------------------------------------------------------
LEMMA TimersMerging ==
    ASSUME Inv, Inv', Merging, Timers
    PROVE  Merging' /\ Kept
<1>0. /\ \A e \in Combining : /\ e \in Entity /\ store[e] \in Stored /\ cloud[e] \in CloudRecord
                              /\ Sound(cloud[e], store[e])
      /\ store \in [Entity -> Stored] /\ cmds \in Seq(Command) /\ inflight \in SUBSET Inflight
  BY CombiningTyped DEF Merging, Rows
<1>1. ASSUME NEW st \in [Entity -> Stored], NEW again, NEW caught, NEW out \in Seq(Command),
             \A e \in Combining : Sound(cloud[e], st[e]) /\ Same(store[e], st[e]),
             Uploads(cloud, store, inflight, out, chan),
             UNCHANGED <<toApply, chan, cloud, up, staged, engine, staleSeen>>,
             Pump(st, inflight, again, caught, out)
      PROVE  Merging' /\ Kept
  <2>1. Ways(cloud, st, toApply', chan') /\ Uploads(cloud, st, inflight, out, chan')
    BY <1>1, StoreSame DEF Merging
  <2>2. \A e \in Combining : Added(store[e].row, st[e].row)
    BY <1>1, AddedSame DEF Same
  <2>3. Plain'
    BY <1>1 DEF Merging, Plain
  <2> QED
    BY <1>0, <1>1, <2>1, <2>2, <2>3, PumpMerged
<1>2. ASSUME NEW now \in Times, Tick(now) PROVE Merging' /\ Kept
  <2> DEFINE st == [e \in Entity |-> IF reconcileNeeded THEN Reconcile(store[e], now) ELSE store[e]]
             again == FALSE
  <2>1. /\ Pump(st, inflight, again, caughtUp, cmds)
        /\ UNCHANGED <<toApply, chan, cloud, up, staged, engine, staleSeen>>
    BY <1>2 DEF Tick
  <2>2. now \in Nat
    BY MacAssumption
  <2>3. st \in [Entity -> Stored]
    BY <1>0, <2>2, ReconcileStored
  <2>4. \A e \in Combining : Sound(cloud[e], st[e]) /\ Same(store[e], st[e])
    <3>1. ASSUME NEW e \in Combining PROVE Sound(cloud[e], st[e]) /\ Same(store[e], st[e])
      <4>1. st[e] = IF reconcileNeeded THEN Reconcile(store[e], now) ELSE store[e]
        BY <1>0
      <4>2. /\ Sound(cloud[e], Reconcile(store[e], now))
            /\ Same(store[e], Reconcile(store[e], now))
        BY <1>0, <2>2, ReconcileSound
      <4> HIDE DEF st
      <4> QED
        BY <1>0, <4>1, <4>2 DEF Same
    <3> QED
      BY <3>1
  <2> HIDE DEF st, again
  <2> QED
    BY <1>0, <1>1, <2>1, <2>3, <2>4 DEF Merging
<1>3. ASSUME NEW overdue \in BOOLEAN
      PROVE  /\ WithFetch(cmds, overdue) \in Seq(Command)
             /\ Uploads(cloud, store, inflight, WithFetch(cmds, overdue), chan)
  <2> DEFINE m == [cmd |-> "fetch"]
  <2>1. m \in Command /\ Offers(m) = {}
    BY DEF Command, Offers
  <2>2. WithFetch(cmds, overdue) \in {cmds, Append(cmds, m)}
    BY DEF WithFetch
  <2> HIDE DEF m
  <2>3. Append(cmds, m) \in Seq(Command)
    BY <1>0, <2>1, AppendProperties
  <2>4. Uploads(cloud, store, inflight, Append(cmds, m), chan)
    BY <1>0, <2>1, UploadsAsked DEF Merging
  <2> QED
    BY <1>0, <2>2, <2>3, <2>4 DEF Merging
<1>4. ASSUME NEW overdue \in BOOLEAN, RequestSync(overdue) PROVE Merging' /\ Kept
  <2> DEFINE again == TRUE
             out == WithFetch(cmds, overdue)
  <2>1. /\ Pump(store, inflight, again, caughtUp, out)
        /\ UNCHANGED <<toApply, chan, cloud, up, staged, engine, staleSeen>>
    BY <1>4 DEF RequestSync
  <2>2. out \in Seq(Command) /\ Uploads(cloud, store, inflight, out, chan)
    BY <1>3
  <2>3. \A e \in Combining : Same(store[e], store[e])
    BY DEF Same
  <2> HIDE DEF again, out
  <2> QED
    BY <1>0, <1>1, <2>1, <2>2, <2>3
<1>5. ASSUME NEW overdue \in BOOLEAN, Poll(overdue) PROVE Merging' /\ Kept
  <2>1. /\ cmds' = WithFetch(cmds, overdue)
        /\ UNCHANGED <<store, inflight, toApply, chan, cloud, up, staged, engine, staleSeen>>
    BY <1>5 DEF Poll
  <2>2. Uploads(cloud, store, inflight, cmds', chan)
    BY <1>3, <2>1
  <2> QED
    BY <2>1, <2>2, AddedSame DEF Merging, Rows, Plain, Kept
<1>6. ASSUME NEW x \in Entity, RetryDue(x) PROVE Merging' /\ Kept
  <2>1. /\ store' = [store EXCEPT ![x] = [store[x] EXCEPT !.wait = "now"]]
        /\ UNCHANGED <<coreVars, pathVars, engine, staged, cloud>>
    BY <1>6 DEF RetryDue
  <2>2. ASSUME NEW e \in Combining
        PROVE  Same(store[e], store'[e]) /\ Tracked(store'[e])
    <3>1. store'[e] \in {store[e], [store[e] EXCEPT !.wait = "now"]}
      BY <1>0, <2>1
    <3>2. Tracked(store[e])
      BY <1>0 DEF Sound
    <3> QED
      BY <1>0, <3>1, <3>2, WaitFields DEF Same
  <2>3. UNCHANGED <<cloud, toApply, chan, cmds, inflight, staged, engine, staleSeen, up>>
    BY <2>1 DEF coreVars, pathVars
  <2>4. Plain'
    BY <2>3 DEF Merging, Plain
  <2> QED
    BY <2>2, <2>3, <2>4, RowsGrow, AddedSame DEF Same
<1>7. ASSUME HoldOver PROVE Merging' /\ Kept
  <2>1. UNCHANGED <<store, cloud, toApply, chan, cmds, inflight, staged, engine, staleSeen, up>>
    BY <1>7 DEF HoldOver, pathVars
  <2> QED
    BY <2>1, AddedSame DEF Merging, Rows, Plain, Kept
<1> QED
  BY <1>2, <1>4, <1>5, <1>6, <1>7 DEF Timers

(* The answers of one send are taken off the channel, and the uploads they  *)
(* answer are under way no more.                                            *)
LEMMA UploadsAnswered ==
    ASSUME NEW z, NEW st, NEW s, NEW flying, NEW out, NEW c \in Seq(Event), c # <<>>,
           Uploads(z, st, flying, out, c),
           \A e \in Combining : s[e].row = st[e].row,
           NEW f \in SUBSET flying,
           \A i \in flying : (\A r \in Answers(Head(c)) : r.e # i.e) => i \in f
    PROVE  Uploads(z, s, f, out, Tail(c))
<1>1. Asked(s, f)
  BY DEF Uploads, Asked
<1>2. Paired(f, out, Tail(c))
  BY PairedAnswered DEF Uploads
<1> QED
  BY <1>1, <1>2 DEF Uploads

(* What `on_sent` does, answer by answer: there is one for an entity.       *)
LEMMA SentPieces ==
    ASSUME Inv, Merging, OnSent
    PROVE  /\ up /\ chan # <<>> /\ chan' = Tail(chan) /\ Head(chan).ev = "sent"
           /\ Answers(Head(chan)) \in SUBSET Result
           /\ Brought(Head(chan)) = Answers(Head(chan))
           /\ \E n \in Seq(Batch), st \in [Entity -> Stored], flying \in SUBSET inflight :
                 /\ toApply' = toApply \o n
                 /\ Pump(st, flying, reconcileNeeded, caughtUp, cmds)
                 /\ \A k \in DOMAIN n : /\ n[k].dels \cap Combining = {}
                                        /\ From(n[k].recs, Brought(Head(chan)))
                 /\ \A r \in Answers(Head(chan)) :
                       r.e \in Entity /\ st[r.e] = Answered(store[r.e], r)
                 /\ \A e \in Entity :
                       (\A r \in Answers(Head(chan)) : r.e # e) => st[e] = store[e]
                 /\ \A i \in inflight : (\A r \in Answers(Head(chan)) : r.e # i.e) => i \in flying
<1> DEFINE results == Answers(Head(chan))
<1>1. Paired(inflight, cmds, chan)
  BY DEF Merging, Uploads
<1>2. /\ up /\ chan # <<>> /\ chan' = Tail(chan) /\ Head(chan).ev = "sent"
      /\ results \in SUBSET Result /\ Brought(Head(chan)) = results
  BY <1>1, AnsweredPieces DEF Brought, Answers
<1>3. PICK n \in Seq(Batch), st \in [Entity -> Stored], flying \in SUBSET inflight :
          /\ toApply' = toApply \o n
          /\ Pump(st, flying, reconcileNeeded, caughtUp, cmds)
          /\ \A k \in DOMAIN n :
                /\ n[k].dels = {}
                /\ \A x \in n[k].recs : \E r \in results :
                      r.e = x.e /\ r.rec = x.rec /\ r.kind = "conflict"
          /\ \A r \in results : r.e \in Entity /\ st[r.e] = Answered(store[r.e], r)
          /\ \A e \in Entity : (\A r \in results : r.e # e) => st[e] = store[e]
          /\ \A i \in inflight : (\A r \in results : r.e # i.e) => i \in flying
  BY <1>1, AnsweredPieces
<1>4. \A k \in DOMAIN n : n[k].dels \cap Combining = {} /\ From(n[k].recs, results)
  BY <1>3 DEF From
<1> QED
  BY <1>2, <1>3, <1>4

LEMMA SentMerging ==
    ASSUME Inv, Inv', Merging, OnlyAdds, FewRefusals, OnSent
    PROVE  Merging' /\ Kept
<1> DEFINE results == Answers(Head(chan))
<1>1. PICK news \in Seq(Batch), st \in [Entity -> Stored], flying \in SUBSET inflight :
              /\ toApply' = toApply \o news
              /\ Pump(st, flying, reconcileNeeded, caughtUp, cmds)
              /\ \A k \in DOMAIN news : /\ news[k].dels \cap Combining = {}
                                        /\ From(news[k].recs, Brought(Head(chan)))
              /\ \A r \in results : r.e \in Entity /\ st[r.e] = Answered(store[r.e], r)
              /\ \A e \in Entity : (\A r \in results : r.e # e) => st[e] = store[e]
              /\ \A i \in inflight : (\A r \in results : r.e # i.e) => i \in flying
  BY SentPieces
<1>2. /\ up /\ chan # <<>> /\ chan \in Seq(Event) /\ chan' = Tail(chan) /\ Head(chan).ev = "sent"
      /\ results \in SUBSET Result /\ Brought(Head(chan)) = results
  BY SentPieces, CombiningTyped
<1>3. toApply = <<>> /\ UNCHANGED <<up, staleSeen, engine, staged, cloud>>
  BY DEF OnSent, Handles, OnlyAdds
<1>4. /\ Len(chan) \in Nat \ {0} /\ DOMAIN chan = 1 .. Len(chan) /\ 1 \in DOMAIN chan
      /\ Head(chan) = chan[1] /\ DOMAIN Tail(chan) = 1 .. Len(chan) - 1
      /\ \A k \in DOMAIN Tail(chan) : Tail(chan)[k] = chan[k + 1]
  BY <1>2, HeadTailProperties, LenProperties, EmptySeq
<1> HIDE DEF results
<1>5. ASSUME NEW r \in results, r.e \in Combining
      PROVE  /\ Sound(cloud[r.e], st[r.e]) /\ st[r.e].row = store[r.e].row
             /\ Learns(store[r.e], st[r.e], r.rec.val)
  <2>1. r \in Result /\ store[r.e] \in Stored /\ cloud[r.e] \in CloudRecord
    BY <1>2, <1>5, CombiningTyped
  <2>2. Sound(cloud[r.e], store[r.e]) /\ Undeleted(cloud[r.e])
    BY <1>5 DEF Merging, Rows
  <2>3. Fits(cloud[r.e], store[r.e], r.rec)
    BY <1>2, <1>4, <1>5 DEF Merging, Ways, Fitting, AllFit
  <2>4. PICK i \in inflight : i.e = r.e /\ i.q = r.q /\ (r.kind = "saved" => r.rec.val = i.val)
    BY <1>4 DEF Merging, Uploads, Paired, Matched, results
  <2>5. i.val # None /\ store[r.e].row # None /\ i.val \subseteq store[r.e].row
    BY <1>5, <2>4 DEF Merging, Uploads, Asked
  <2>6. store[r.e].tries < MaxMergeAttempts
    BY <1>5 DEF FewRefusals
  <2>7. st[r.e] = Answered(store[r.e], r)
    BY <1>1
  <2> QED
    BY <1>5, <2>1, <2>2, <2>3, <2>4, <2>5, <2>6, <2>7, AnsweredSound DEF Inv
<1>6. ASSUME NEW e \in Combining
      PROVE  /\ Sound(cloud[e], st[e]) /\ st[e].row = store[e].row
             /\ \/ Agreed(st[e]) \subseteq Agreed(store[e])
                \/ \E x \in results : /\ x.e = e
                       /\ Agreed(st[e]) \subseteq Agreed(store[e]) \cup Entries(x.rec.val)
  <2>1. ASSUME NEW r \in results, r.e = e
        PROVE  Agreed(st[e]) \subseteq Agreed(store[e]) \cup Entries(r.rec.val)
    BY <1>5, <2>1 DEF Learns, Agreed
  <2>2. CASE \A r \in results : r.e # e
    <3>1. st[e] = store[e]
      BY <1>1, <2>2, CombiningTyped
    <3> QED
      BY <3>1 DEF Merging, Rows
  <2> QED
    BY <1>5, <2>1, <2>2
<1>7. Ways(cloud, st, toApply', chan')
  <2>1. Ways(cloud, store, toApply', chan')
    <3>1. Ways(cloud, store, toApply \o news, Tail(chan))
      BY <1>1, <1>2, Moved, CombiningTyped DEF Merging
    <3> QED
      BY <1>1, <1>2, <3>1
  <2>2. toApply' = news
    BY <1>1, <1>3, ConcatEmptySeq
  <2>3. Under(results, results)
    BY <1>2, <1>4 DEF Merging, Ways, Sorted
  <2>4. \A k \in DOMAIN toApply' : Under(results, toApply'[k].recs)
    BY <1>1, <1>2, <2>2, <2>3, UnderFrom
  <2>5. \A k \in DOMAIN chan' : Under(results, Brought(chan'[k]))
    <3>1. \A k \in DOMAIN chan' : k + 1 \in DOMAIN chan /\ 1 <= k + 1 /\ chan'[k] = chan[k + 1]
      BY <1>2, <1>4
    <3> QED
      BY <1>2, <1>4, <3>1 DEF Merging, Ways, Sorted
  <2> QED
    BY <1>6, <2>1, <2>4, <2>5, WaysLearned
<1>8. Uploads(cloud, st, flying, cmds, chan')
  <2>1. flying \in SUBSET inflight
    BY <1>1
  <2>2. \A i \in inflight : (\A r \in Answers(Head(chan)) : r.e # i.e) => i \in flying
    BY <1>1 DEF results
  <2>3. \A e \in Combining : st[e].row = store[e].row
    BY <1>6
  <2>4. Uploads(cloud, store, inflight, cmds, chan)
    BY DEF Merging
  <2> QED
    BY <1>2, <2>1, <2>2, <2>3, <2>4, UploadsAnswered
<1>9. Plain'
  <2>1. Plain
    BY DEF Merging
  <2>2. staleSeen' = None
    BY <1>3, <2>1 DEF Plain
  <2> QED
    BY <1>1, <1>2, <1>3, <2>1, <2>2, PlainTaken
<1>10. flying \in SUBSET Inflight
  BY <1>1, CombiningTyped
<1>11. \A e \in Combining : Added(store[e].row, st[e].row)
  BY <1>6, AddedSame
<1> QED
  BY <1>1, <1>3, <1>6, <1>7, <1>8, <1>9, <1>10, <1>11, PumpMerged, CombiningTyped

LEMMA HandlersMerging ==
    ASSUME Inv, Inv', Merging, OnlyAdds, FewRefusals, Handlers
    PROVE  Merging' /\ Kept
<1>0. /\ \A e \in Combining : /\ e \in Entity /\ store[e] \in Stored /\ cloud[e] \in CloudRecord
                              /\ Sound(cloud[e], store[e])
      /\ store \in [Entity -> Stored] /\ toApply \in Seq(Batch) /\ chan \in Seq(Event)
      /\ staleSeen = None
  BY CombiningTyped DEF Merging, Rows, Plain
<1>1. ASSUME NEW kind, Handles(kind)
      PROVE  /\ up /\ chan # <<>> /\ chan' = Tail(chan) /\ Head(chan).ev = kind
             /\ Head(chan) \in Event
             /\ kind \notin {"sendfailed", "expired"}
             /\ kind = "fetched" => Head(chan).dels \cap Combining = {}
  <2>1. /\ up /\ chan # <<>> /\ chan' = Tail(chan) /\ Head(chan).ev = kind
        /\ Head(chan) \in Event
    BY <1>1, HandlesTyped DEF Handles, Inv
  <2>2. Head(chan) = chan[1] /\ 1 \in DOMAIN chan
    BY <1>0, <2>1, HeadTailProperties, LenProperties, EmptySeq
  <2> QED
    BY <2>1, <2>2 DEF Merging, Plain
<1>2. ASSUME NEW kind, Handles(kind), UNCHANGED <<cloud, up, staged, engine>>, staleSeen' = None,
             toApply' \in {toApply, toApply \o <<>>},
             NEW st \in [Entity -> Stored],
             \A e \in Combining : Sound(cloud[e], st[e]) /\ Same(store[e], st[e]),
             NEW again, NEW caught, Pump(st, inflight, again, caught, cmds)
      PROVE  Merging' /\ Kept
  <2> DEFINE n == <<>>
  <2>1. n \in Seq(Batch) /\ toApply' = toApply \o n
    BY <1>0, <1>2, ConcatEmptySeq
  <2>2. \A k \in DOMAIN n : /\ n[k].dels \cap Combining = {}
                            /\ From(n[k].recs, Brought(Head(chan)))
    OBVIOUS
  <2> HIDE DEF n
  <2> QED
    BY <1>1, <1>2, <2>1, <2>2, TakenMerged
<1>3. \A e \in Combining : Same(store[e], store[e])
  BY DEF Same
<1>4. ASSUME OnFetched PROVE Merging' /\ Kept
  <2> DEFINE recs == Head(chan).recs
             dels == Head(chan).dels
             n == Batches(Admitted(recs), dels)
  <2>1. /\ Handles("fetched") /\ toApply' = toApply \o n
        /\ UNCHANGED <<up, engine, staged, cloud>> /\ staleSeen' = None
        /\ Pump(store, inflight, reconcileNeeded, caughtUp, cmds)
    BY <1>0, <1>4 DEF OnFetched
  <2>2. /\ up /\ chan # <<>> /\ chan' = Tail(chan) /\ dels \cap Combining = {}
        /\ recs \in SUBSET Fetched /\ dels \in SUBSET Entity /\ Brought(Head(chan)) = recs
    BY <1>1, <2>1, EventTyped DEF Brought
  <2>3. Admitted(recs) \in SUBSET recs
    BY DEF Admitted
  <2> DEFINE some == Admitted(recs)
  <2> HIDE DEF some, recs, dels
  <2>4. n = <<>> \/ (n = << [recs |-> some, dels |-> dels] >>)
    BY DEF Batches, some
  <2>5. n \in Seq(Batch)
    BY <2>2, <2>3, BatchesTyped
  <2>6. From(some, recs)
    BY <2>3 DEF From, some
  <2>7. \A k \in DOMAIN n : n[k].dels = dels /\ n[k].recs = some
    <3>1. CASE n = <<>>
      BY <3>1
    <3>2. CASE n = << [recs |-> some, dels |-> dels] >>
      <4> DEFINE b == [recs |-> some, dels |-> dels]
      <4>1. b.recs = some /\ b.dels = dels
        OBVIOUS
      <4> HIDE DEF b
      <4>2. n = <<b>>
        BY <3>2 DEF b
      <4> HIDE DEF n
      <4> QED
        BY <4>1, <4>2
    <3> QED
      BY <2>4, <3>1, <3>2
  <2> HIDE DEF n
  <2>8. \A k \in DOMAIN n : n[k].dels \cap Combining = {} /\ From(n[k].recs, Brought(Head(chan)))
    BY <2>2, <2>6, <2>7
  <2> QED
    BY <1>0, <1>3, <2>1, <2>2, <2>5, <2>8, TakenMerged
<1>5. ASSUME OnState PROVE Merging' /\ Kept
  <2> DEFINE caught == CaughtUp(unapplied, Head(chan).at, fetchCompleted)
  <2>1. /\ Handles("state") /\ UNCHANGED <<up, staleSeen, toApply, engine, staged, cloud>>
        /\ Pump(store, inflight, reconcileNeeded, caught, cmds)
    BY <1>5 DEF OnState
  <2> HIDE DEF caught
  <2> QED
    BY <1>0, <1>2, <1>3, <2>1
<1>6. ASSUME OnFetchComplete PROVE Merging' /\ Kept
  <2> DEFINE caught == CaughtUp(unapplied, pendingState, TRUE)
  <2>1. /\ Handles("complete") /\ UNCHANGED <<up, engine, staged, cloud>>
        /\ staleSeen' = None /\ toApply' = toApply \o <<>>
        /\ Pump(store, inflight, reconcileNeeded, caught, cmds)
    BY <1>0, <1>6 DEF OnFetchComplete
  <2> HIDE DEF caught
  <2> QED
    BY <1>0, <1>2, <1>3, <2>1
<1>7. ASSUME OnError PROVE Merging' /\ Kept
  <2>1. /\ Handles("error") /\ UNCHANGED <<up, staleSeen, toApply, engine, staged, cloud>>
        /\ Pump(store, inflight, reconcileNeeded, caughtUp, cmds)
    BY <1>7 DEF OnError
  <2> QED
    BY <1>0, <1>2, <1>3, <2>1
<1>8. ASSUME OnApplied PROVE Merging' /\ Kept
  <2> DEFINE st == [e \in Entity |-> Release(store[e])]
             caught == CaughtUp(unapplied - 1, pendingState, fetchCompleted)
  <2>1. /\ Handles("applied") /\ UNCHANGED <<up, staleSeen, toApply, engine, staged, cloud>>
        /\ Pump(st, inflight, reconcileNeeded, caught, cmds)
    BY <1>8 DEF OnApplied
  <2>2. st \in [Entity -> Stored]
    BY <1>0, OutboxStored
  <2>3. \A e \in Combining : st[e] = Release(store[e])
    BY <1>0
  <2> HIDE DEF st, caught
  <2>4. \A e \in Combining : Sound(cloud[e], st[e]) /\ Same(store[e], st[e])
    <3>1. \A e \in Combining : st[e] \in Stored
      BY <1>0, <2>2
    <3> QED
      BY <1>0, <2>3, <3>1, WaitFields, SoundSame DEF Sound
  <2> QED
    BY <1>0, <1>2, <2>1, <2>2, <2>4
<1>9. ~OnExpired /\ ~OnSendFailed
  BY <1>1 DEF OnExpired, OnSendFailed
<1> QED
  BY <1>4, <1>5, <1>6, <1>7, <1>8, <1>9, SentMerging DEF Handlers

(* The bridge takes a command and emits events.                             *)
LEMMA PlainEmits ==
    ASSUME Inv, Plain, up, UNCHANGED <<up, staleSeen, toApply>>, staged' = {}, engine' # None,
           NEW n \in Seq(Event), chan' = chan \o n,
           \A k \in DOMAIN n : /\ n[k].ev \notin {"sendfailed", "expired"}
                               /\ n[k].ev = "fetched" => n[k].dels \cap Combining = {}
    PROVE  Plain'
<1>1. chan \in Seq(Event)
  BY DEF Inv, TypeOK
<1>2. /\ Len(chan) \in Nat /\ Len(n) \in Nat
      /\ DOMAIN chan = 1 .. Len(chan) /\ DOMAIN n = 1 .. Len(n)
      /\ DOMAIN (chan \o n) = 1 .. Len(chan) + Len(n)
      /\ \A k \in DOMAIN (chan \o n) :
            (chan \o n)[k] = IF k <= Len(chan) THEN chan[k] ELSE n[k - Len(chan)]
  BY <1>1, ConcatProperties, LenProperties
<1>3. \A k \in DOMAIN chan' : \/ k \in DOMAIN chan /\ chan'[k] = chan[k]
                              \/ k - Len(chan) \in DOMAIN n /\ chan'[k] = n[k - Len(chan)]
  <2>1. ASSUME NEW k \in DOMAIN chan'
        PROVE  \/ k \in DOMAIN chan /\ chan'[k] = chan[k]
               \/ k - Len(chan) \in DOMAIN n /\ chan'[k] = n[k - Len(chan)]
    <3>1. CASE k <= Len(chan)
      BY <1>2, <3>1
    <3>2. CASE ~(k <= Len(chan))
      BY <1>2, <3>2
    <3> QED
      BY <3>1, <3>2
  <2> QED
    BY <2>1
<1>4. \A k \in DOMAIN chan' : /\ chan'[k].ev \notin {"sendfailed", "expired"}
                              /\ chan'[k].ev = "fetched" => chan'[k].dels \cap Combining = {}
  BY <1>3 DEF Plain
<1> QED
  BY <1>4 DEF Plain

(* The cloud's version of what is known here always fits.                   *)
LEMMA CloudFits ==
    ASSUME NEW z \in CloudRecord, NEW s, Sound(z, s)
    PROVE  Fits(z, s, z)
  BY DEF Sound, Fits, Attained, CloudRecord

LEMMA FetchMerged ==
    ASSUME Inv, Inv', Merging, UNCHANGED <<store, cloud, inflight, up, staleSeen, toApply, staged>>,
           up, cmds # <<>>, cmds' = Tail(cmds), engine' # None,
           NEW n \in Seq(Event), chan' = chan \o n,
           \A k \in DOMAIN n :
               /\ n[k].ev \in {"fetched", "state", "complete", "error"}
               /\ n[k].ev = "fetched" => /\ n[k].dels \cap Combining = {}
                                         /\ \A x \in n[k].recs : x.rec = cloud[x.e]
    PROVE  Merging' /\ Kept
<1>1. /\ toApply \in Seq(Batch) /\ cmds \in Seq(Command) /\ chan \in Seq(Event)
  BY CombiningTyped
<1>2. Plain'
  <2>1. Plain /\ staged' = {}
    BY DEF Merging, Plain
  <2> QED
    BY <2>1, PlainEmits
<1>3. Ways(cloud, store, toApply, chan \o n)
  <2>1. \A e \in Combining : Fits(cloud[e], store[e], cloud[e])
    BY CloudFits, CombiningTyped DEF Merging, Rows
  <2>2. \A k \in DOMAIN n : \A x \in Brought(n[k]) : x.e \in Combining => x.rec = cloud[x.e]
    BY DEF Brought
  <2> QED
    BY <1>1, <2>1, <2>2, Emitted DEF Merging
<1>4. Uploads(cloud, store, inflight, Tail(cmds), chan \o n)
  <2>1. Uploads(cloud, store, inflight, Tail(cmds), chan)
    BY <1>1, UploadsTaken DEF Merging
  <2>2. \A k \in DOMAIN n : Answers(n[k]) = {}
    BY DEF Answers
  <2> QED
    BY <1>1, <2>1, <2>2, UploadsMail
<1> QED
  BY <1>2, <1>3, <1>4, AddedSame DEF Merging, Rows, Kept

(* A page of changes names no deletion of a combining entity, since there   *)
(* is none.                                                                 *)
LEMMA PageKeeps ==
    ASSUME Inv, Merging, NEW page \in SUBSET Changed
    PROVE  LET m == FetchedPage(page)
           IN  /\ m.dels \cap Combining = {}
               /\ \A x \in m.recs : x.rec = cloud[x.e]
<1> DEFINE dels == {e \in page : cloud[e].val = None}
           recs == {[e |-> e, rec |-> cloud[e]] : e \in {p \in page : cloud[p].val # None}}
<1>1. FetchedPage(page).dels = dels /\ FetchedPage(page).recs = recs
  BY DEF FetchedPage
<1>2. \A x \in recs : x.rec = cloud[x.e]
  OBVIOUS
<1>3. ASSUME NEW e \in dels, e \in Combining PROVE FALSE
  <2>1. cloud[e].ver = 0 /\ e \in Entity
    BY <1>3, CombiningTyped DEF Merging, Rows, Undeleted
  <2>2. engine \in Position /\ cloud[e].ver > engine.pos[e]
    BY DEF Changed, Inv, TypeOK, Merging, Plain
  <2>3. engine.pos[e] \in Nat
    BY <2>1, <2>2 DEF Position
  <2> QED
    BY <2>1, <2>2, <2>3
<1> QED
  BY <1>1, <1>2, <1>3

LEMMA FetchesMerging ==
    ASSUME Inv, Inv', Merging, NEW page \in SUBSET Changed, NEW kind \in {"complete", "error"},
           Runs("fetch"), engine' \in {engine, Advance(Entity), Advance(page)},
           NEW at \in SUBSET Entity,
           chan' = chan \o ((IF page = {} THEN <<>> ELSE << FetchedPage(page), StateAt(at) >>)
                            \o << [ev |-> kind] >>),
           UNCHANGED <<store, coreVars, toApply, staged, cloud>>
    PROVE  Merging' /\ Kept
<1> DEFINE a == FetchedPage(page)
           b == StateAt(at)
           z == [ev |-> kind]
<1>1. /\ up /\ cmds # <<>> /\ cmds' = Tail(cmds)
      /\ UNCHANGED <<store, cloud, inflight, up, staleSeen, toApply, staged>>
  BY DEF Runs, coreVars
<1>2. engine # None /\ page \in SUBSET Entity
  BY DEF Merging, Plain, Changed
<1>3. engine' # None
  <2>1. Advance(Entity) \in Position /\ Advance(page) \in Position
    BY <1>2, PageTyped DEF Inv
  <2> QED
    BY <1>2, <2>1, MacAssumption
<1>4. /\ a \in Event /\ a.ev = "fetched" /\ b \in Event /\ b.ev = "state"
      /\ z \in Event /\ z.ev = kind
  BY <1>2, PageTyped DEF Event, Inv
<1>5. a.dels \cap Combining = {} /\ \A x \in a.recs : x.rec = cloud[x.e]
  BY PageKeeps
<1> HIDE DEF a, b, z
<1>6. PICK n \in {<<z>>, <<a, b, z>>} : chan' = chan \o n
  <2>1. <<>> \o <<z>> = <<z>> /\ <<a, b>> \o <<z>> = <<a, b, z>>
    BY <1>4, PairConcat
  <2>2. chan' = chan \o (<<>> \o <<z>>) \/ chan' = chan \o (<<a, b>> \o <<z>>)
    BY DEF a, b, z
  <2> QED
    BY <2>1, <2>2
<1>7. /\ n \in Seq(Event)
      /\ \A k \in DOMAIN n : n[k] \in {a, b, z}
  <2>1. <<z>> \in Seq(Event) /\ \A k \in DOMAIN <<z>> : <<z>>[k] \in {a, b, z}
    BY <1>4
  <2>2. <<a, b, z>> \in Seq(Event)
    BY <1>4
  <2>3. \A k \in DOMAIN <<a, b, z>> : <<a, b, z>>[k] \in {a, b, z}
    OBVIOUS
  <2> QED
    BY <1>6, <2>1, <2>2, <2>3
<1>8. \A k \in DOMAIN n :
         /\ n[k].ev \in {"fetched", "state", "complete", "error"}
         /\ n[k].ev = "fetched" => /\ n[k].dels \cap Combining = {}
                                   /\ \A x \in n[k].recs : x.rec = cloud[x.e]
  <2> SUFFICES ASSUME NEW k \in DOMAIN n
               PROVE  /\ n[k].ev \in {"fetched", "state", "complete", "error"}
                      /\ n[k].ev = "fetched" => /\ n[k].dels \cap Combining = {}
                                                /\ \A x \in n[k].recs : x.rec = cloud[x.e]
    OBVIOUS
  <2>1. n[k] = a \/ n[k] = b \/ n[k] = z
    BY <1>7
  <2> QED
    BY <1>4, <1>5, <2>1
<1> QED
  BY <1>1, <1>3, <1>6, <1>7, <1>8, FetchMerged

(* The answers to a send are added.                                         *)
LEMMA UploadsSent ==
    ASSUME NEW z, NEW st, NEW flying, NEW out, NEW c \in Seq(Event), NEW m \in Event,
           Uploads(z, st, flying, out, c),
           \A r \in Answers(m) :
               \E i \in flying : i.e = r.e /\ i.q = r.q /\ (r.kind = "saved" => r.rec.val = i.val),
           \A r, y \in Answers(m) : r.e = y.e => r = y,
           \A k \in DOMAIN out : \A x \in Offers(out[k]), r \in Answers(m) : x.e # r.e,
           \A k \in DOMAIN c : \A y \in Answers(c[k]), r \in Answers(m) : y.e # r.e
    PROVE  Uploads(z, st, flying, out, Append(c, m))
<1>1. Paired(flying, out, Append(c, m))
  BY PairedSent DEF Uploads
<1> QED
  BY <1>1 DEF Uploads

(* An upload that the zone accepts has all that it replaces.                *)
LEMMA AnswerFields ==
    ASSUME TypeOK, NEW c \in Change, NEW a \in {Answer(c), NoAnswer(c)}
    PROVE  /\ a.e = c.e /\ a.q = c.q
           /\ a.kind = "saved" => a.rec.val = c.val
           /\ a.kind = "deleted" => c.val = None
           /\ c.val # None /\ Attained(cloud[c.e], c.tag, c.val) => Later(cloud[c.e], a.rec)
<1> DEFINE r == cloud[c.e]
           kind == IF c.val = None THEN "deleted"
                   ELSE IF r.val # None /\ c.tag # r.ver THEN "conflict"
                   ELSE IF r.val = None /\ c.tag # 0 THEN "unknown"
                   ELSE "saved"
           saved == [val |-> c.val, ver |-> r.ver + 1, rev |-> c.rev, at |-> c.at, dev |-> Me]
           deleted == [val |-> None, ver |-> r.ver + 1, rev |-> r.rev, at |-> 0, dev |-> Me]
           next == IF kind = "saved" THEN saved
                   ELSE IF kind = "deleted" /\ r.val # None THEN deleted ELSE r
<1>1. r \in CloudRecord /\ r.ver \in Nat /\ r.val \in {None} \cup Payload
      /\ c.val \in {None} \cup Payload
  BY DEF Change, TypeOK, CloudRecord
<1>2. saved.val = c.val /\ saved.ver = r.ver + 1
  OBVIOUS
<1>3. Answer(c) = [e |-> c.e, q |-> c.q, kind |-> kind, rec |-> next]
  BY DEF Answer
<1>4. NoAnswer(c) = [e |-> c.e, q |-> c.q, kind |-> "retry", rec |-> r]
  BY DEF NoAnswer
<1> HIDE DEF r, saved, deleted
<1>5. kind = "saved" => next = saved
  OBVIOUS
<1>6. c.val # None /\ kind # "saved" => next = r
  OBVIOUS
<1>7. ASSUME c.val # None, Attained(r, c.tag, c.val), kind = "saved"
      PROVE  Added(r.val, c.val)
  <2>1. r.val # None => c.tag = r.ver
    BY <1>7
  <2> QED
    BY <1>1, <1>7, <2>1, EntriesAdded DEF Attained, Added
<1>8. ASSUME c.val # None, Attained(r, c.tag, c.val) PROVE Later(r, next)
  BY <1>1, <1>2, <1>5, <1>6, <1>7, <1>8 DEF Later
<1>9. /\ kind = "saved" => next.val = c.val
      /\ kind = "deleted" => c.val = None
  BY <1>2, <1>5
<1> HIDE DEF kind, next
<1>10. a = [e |-> c.e, q |-> c.q, kind |-> kind, rec |-> next]
       \/ a = [e |-> c.e, q |-> c.q, kind |-> "retry", rec |-> r]
  BY <1>3, <1>4
<1>11. Later(r, r)
  BY DEF Later
<1> QED
  BY <1>8, <1>9, <1>10, <1>11 DEF r

(* What the bridge makes of a send, answer by answer.                       *)
LEMMA SendPieces ==
    ASSUME Inv, Merging, NEW flaky \in SUBSET Entity, NEW told \in SUBSET Entity,
           EngineSend(flaky, told), cloud' \in [Entity -> CloudRecord]
    PROVE  \E results \in SUBSET Result :
              /\ IsFiniteSet(results)
              /\ chan' = chan \o << [ev |-> "sent", results |-> results] >>
              /\ \A r \in results : \E c \in Offers(Head(cmds)) :
                    /\ c.e = r.e /\ c.q = r.q
                    /\ r.kind = "saved" => r.rec.val = c.val
                    /\ r.kind = "deleted" => c.val = None
              /\ \A r, y \in results : r.e = y.e => r = y
              /\ \A e \in Combining : Later(cloud[e], cloud'[e])
              /\ \A r \in results : r.e \in Combining => r.rec = cloud'[r.e]
              /\ engine' \in Position
              /\ \A e \in Entity :
                    \/ engine'.pos[e] = engine.pos[e]
                    \/ /\ engine'.pos[e] = cloud'[e].ver
                       /\ \E r \in results : r.e = e /\ r.kind \in {"saved", "deleted"}
<1> DEFINE answer(c) == IF c.e \in flaky THEN NoAnswer(c) ELSE Answer(c)
           results == {answer(c) : c \in Restaged}
           mine == {r.e : r \in {r \in results : r.kind \in {"saved", "deleted"}}} \ told
           pos == [e \in Entity |-> IF e \in mine THEN CloudAfter(results)[e].ver
                                    ELSE engine.pos[e]]
<1>1. /\ Runs("send")
      /\ cloud' = CloudAfter(results)
      /\ engine' = engine \/ (engine # None /\ engine' = [engine EXCEPT !.pos = pos])
      /\ chan' = chan \o << [ev |-> "sent", results |-> results] >>
  BY DEF EngineSend, Emits
<1>2. cmds # <<>> /\ Head(cmds).cmd = "send"
  BY <1>1 DEF Runs
<1>3. /\ cmds \in Seq(Command) /\ cloud \in [Entity -> CloudRecord]
      /\ staged = {} /\ engine \in Position /\ TypeOK
      /\ \A e \in Combining : e \in Entity
  BY MacAssumption DEF Inv, TypeOK, Merging, Plain
<1>4. Restaged = Offers(Head(cmds)) /\ Restaged \in SUBSET Change
  <2>1. Restaged \in SUBSET Change
    BY <1>1, <1>3, RestagedTyped
  <2> QED
    BY <1>2, <1>3, <2>1 DEF Restaged, Offers
<1>5. 1 \in DOMAIN cmds /\ Head(cmds) = cmds[1]
  BY <1>2, <1>3, HeadTailProperties, LenProperties, EmptySeq
<1>6. /\ \A x, y \in Restaged : x.e = y.e => x = y
      /\ \A x \in Restaged : x.e \in Combining =>
            x.val # None /\ Attained(cloud[x.e], x.tag, x.val)
  BY <1>4, <1>5 DEF Merging, Uploads, Paired, Single, Ready
<1>7. ASSUME NEW c \in Restaged
      PROVE  /\ answer(c).e = c.e /\ answer(c).q = c.q
             /\ answer(c).kind = "saved" => answer(c).rec.val = c.val
             /\ answer(c).kind = "deleted" => c.val = None
             /\ c.e \in Combining => Later(cloud[c.e], answer(c).rec)
  BY <1>3, <1>4, <1>6, AnswerFields
<1>8. \A r \in results : \E c \in Restaged : r = answer(c)
  OBVIOUS
<1> HIDE DEF answer
<1>9. results \in SUBSET Result
  <2>1. \A c \in Restaged : answer(c) \in Result
    BY <1>3, <1>4, AnswerTyped DEF answer
  <2> QED
    BY <2>1
<1>10. IsFiniteSet(results)
  <2> DEFINE f == [c \in Restaged |-> answer(c)]
  <2>1. f \in Surjection(Restaged, results)
    BY DEF Surjection
  <2> QED
    BY <1>1, <1>3, <2>1, FS_Surjection, RestagedTyped
<1>11. engine' \in Position
  <2>1. CASE engine # None /\ engine' = [engine EXCEPT !.pos = pos]
    <3>1. \A e \in Entity : CloudAfter(results)[e].ver \in Nat
      <4> HIDE DEF results
      <4> QED
        BY <1>1, <1>3 DEF CloudRecord
    <3>2. pos \in [Entity -> Nat]
      <4> HIDE DEF mine, results
      <4> QED
        BY <1>3, <3>1 DEF Position
    <3> HIDE DEF pos
    <3> QED
      BY <1>3, <2>1, <3>2 DEF Position
  <2> QED
    BY <1>1, <1>3, <2>1
<1>12. \A e \in mine : \E r \in results : r.e = e /\ r.kind \in {"saved", "deleted"}
  OBVIOUS
<1> HIDE DEF results, mine
<1>13. ASSUME NEW e \in Entity
       PROVE  \/ engine'.pos[e] = engine.pos[e]
              \/ /\ engine'.pos[e] = cloud'[e].ver
                 /\ \E r \in results : r.e = e /\ r.kind \in {"saved", "deleted"}
  <2>1. CASE engine' = [engine EXCEPT !.pos = pos]
    <3>1. engine'.pos = pos
      BY <1>3, <2>1 DEF Position
    <3>2. engine'.pos[e] = IF e \in mine THEN cloud'[e].ver ELSE engine.pos[e]
      BY <1>1, <3>1
    <3> QED
      BY <1>12, <3>2
  <2> QED
    BY <1>1, <2>1
<1> HIDE DEF pos
<1>14. \A r, y \in results : r.e = y.e => r = y
  <2> SUFFICES ASSUME NEW r \in results, NEW y \in results, r.e = y.e PROVE r = y
    OBVIOUS
  <2>1. PICK c \in Restaged : r = answer(c)
    BY <1>8
  <2>2. PICK d \in Restaged : y = answer(d)
    BY <1>8
  <2>3. c = d
    BY <1>6, <1>7, <2>1, <2>2
  <2> QED
    BY <2>1, <2>2, <2>3
<1>15. ASSUME NEW r \in results, r.e \in Combining PROVE r.rec = cloud'[r.e]
  <2>1. r.e \in EntriesOf(results)
    BY DEF EntriesOf
  <2>2. (CHOOSE y \in results : y.e = r.e) = r
    BY <1>14
  <2> QED
    BY <1>1, <1>3, <1>15, <2>1, <2>2 DEF CloudAfter
<1>16. ASSUME NEW e \in Combining PROVE Later(cloud[e], cloud'[e])
  <2>1. ASSUME NEW r \in results, r.e = e PROVE Later(cloud[e], cloud'[e])
    <3>1. PICK c \in Restaged : r = answer(c)
      BY <1>8
    <3> QED
      BY <1>7, <1>15, <2>1, <3>1
  <2>2. CASE \A r \in results : r.e # e
    BY <1>1, <1>3, <2>2 DEF CloudAfter, EntriesOf, Later
  <2> QED
    BY <2>1, <2>2
<1>17. ASSUME NEW r \in results
       PROVE  \E c \in Offers(Head(cmds)) :
                 /\ c.e = r.e /\ c.q = r.q
                 /\ r.kind = "saved" => r.rec.val = c.val
                 /\ r.kind = "deleted" => c.val = None
  <2>1. PICK c \in Restaged : r = answer(c)
    BY <1>8
  <2> QED
    BY <1>4, <1>7, <2>1
<1> results \in SUBSET Result
  BY <1>9
<1> WITNESS results \in SUBSET Result
<1> QED
  BY <1>1, <1>10, <1>11, <1>13, <1>14, <1>15, <1>16, <1>17

LEMMA SendMerging ==
    ASSUME Inv, Inv', Merging, NEW flaky \in SUBSET Entity, NEW told \in SUBSET Entity,
           EngineSend(flaky, told)
    PROVE  Merging' /\ Kept
<1>1. /\ cmds \in Seq(Command) /\ chan \in Seq(Event) /\ toApply \in Seq(Batch)
      /\ cloud \in [Entity -> CloudRecord] /\ cloud' \in [Entity -> CloudRecord]
      /\ Plain
      /\ \A e \in Combining : /\ e \in Entity /\ store[e] \in Stored
                              /\ cloud[e] \in CloudRecord /\ cloud'[e] \in CloudRecord
                              /\ Sound(cloud[e], store[e]) /\ Undeleted(cloud[e])
  BY CombiningTyped DEF Inv, TypeOK, Merging, Rows
<1>2. PICK results \in SUBSET Result :
              /\ IsFiniteSet(results)
              /\ chan' = chan \o << [ev |-> "sent", results |-> results] >>
              /\ \A r \in results : \E c \in Offers(Head(cmds)) :
                    /\ c.e = r.e /\ c.q = r.q
                    /\ r.kind = "saved" => r.rec.val = c.val
                    /\ r.kind = "deleted" => c.val = None
              /\ \A r, y \in results : r.e = y.e => r = y
              /\ \A e \in Combining : Later(cloud[e], cloud'[e])
              /\ \A r \in results : r.e \in Combining => r.rec = cloud'[r.e]
              /\ engine' \in Position
  BY <1>1, SendPieces
<1>3. /\ up /\ cmds # <<>> /\ cmds' = Tail(cmds) /\ staged' = {}
      /\ UNCHANGED <<store, inflight, toApply, up, staleSeen>>
  BY DEF EngineSend, Runs, coreVars
<1>4. 1 \in DOMAIN cmds /\ Head(cmds) = cmds[1]
  BY <1>1, <1>3, HeadTailProperties, LenProperties, EmptySeq
<1> DEFINE sent == [ev |-> "sent", results |-> results]
           events == << sent >>
<1>5. /\ sent \in Event /\ sent.ev = "sent" /\ Brought(sent) = results /\ Answers(sent) = results
  BY <1>2 DEF Event, FiniteSubset, Brought, Answers
<1>6. chan' = chan \o events
  BY <1>2
<1> HIDE DEF sent
<1>7. /\ events \in Seq(Event) /\ chan \o events = Append(chan, sent)
      /\ \A k \in DOMAIN events : events[k] = sent
  BY <1>1, <1>5, AppendIsConcat
<1> HIDE DEF events
<1>8. \A e \in Combining :
         /\ Sound(cloud'[e], store[e]) /\ Undeleted(cloud'[e])
         /\ Added(cloud[e].val, cloud'[e].val)
  BY <1>1, <1>2, LaterKeeps
<1>9. Ways(cloud', store, toApply, chan')
  <2>1. Ways(cloud', store, toApply, chan)
    BY <1>1, <1>2, WaysLater DEF Merging
  <2>2. \A e \in Combining : Fits(cloud'[e], store[e], cloud'[e])
    BY <1>1, <1>8, CloudFits
  <2>3. \A k \in DOMAIN events : \A x \in Brought(events[k]) :
           x.e \in Combining => x.rec = cloud'[x.e]
    BY <1>2, <1>5, <1>7
  <2> QED
    BY <1>1, <1>6, <1>7, <2>1, <2>2, <2>3, Emitted
<1>10. Uploads(cloud', store, inflight, cmds', chan')
  <2>1. /\ Uploads(cloud, store, inflight, Tail(cmds), chan)
        /\ \A k \in DOMAIN Tail(cmds) : \A x \in Offers(Tail(cmds)[k]) :
              \A y \in Offers(Head(cmds)) : x.e # y.e
    BY <1>1, <1>3, UploadsTaken DEF Merging
  <2>2. Tail(cmds) \in Seq(Command)
    BY <1>1, <1>3, HeadTailProperties
  <2>3. Uploads(cloud', store, inflight, Tail(cmds), chan)
    <3>1. \A e \in Combining, ver \in Nat : \A v :
             Attained(cloud[e], ver, v) => Attained(cloud'[e], ver, v)
      BY <1>1, <1>2, LaterKeeps
    <3>2. \A e \in Combining : Added(store[e].row, store[e].row)
      BY AddedSame
    <3> QED
      BY <2>1, <2>2, <3>1, <3>2, UploadsStill
  <2>4. ASSUME NEW r \in results
        PROVE  /\ \E i \in inflight :
                      i.e = r.e /\ i.q = r.q /\ (r.kind = "saved" => r.rec.val = i.val)
               /\ \E c \in Offers(Head(cmds)) : c.e = r.e
    <3>1. PICK c \in Offers(cmds[1]) : /\ c.e = r.e
                                        /\ c.q = r.q
                                        /\ (r.kind = "saved" => r.rec.val = c.val)
      BY <1>2, <1>4
    <3> DEFINE i == [e |-> c.e, q |-> c.q, val |-> c.val]
    <3>2. i \in inflight /\ i.e = c.e /\ i.q = c.q /\ i.val = c.val
      BY <1>4, <3>1 DEF Merging, Uploads, Paired, Matched
    <3> HIDE DEF i
    <3> QED
      BY <1>4, <3>1, <3>2
  <2>5. \A k \in DOMAIN Tail(cmds) : \A x \in Offers(Tail(cmds)[k]), r \in Answers(sent) :
           x.e # r.e
    BY <1>5, <2>1, <2>4
  <2>6. \A k \in DOMAIN chan : \A y \in Answers(chan[k]), r \in Answers(sent) : y.e # r.e
    <3>1. \A c \in Offers(cmds[1]), k \in DOMAIN chan : \A y \in Answers(chan[k]) : c.e # y.e
      BY <1>4 DEF Merging, Uploads, Paired, Single
    <3> QED
      BY <1>4, <1>5, <2>4, <3>1
  <2>7. /\ \A r \in Answers(sent) : \E i \in inflight :
               i.e = r.e /\ i.q = r.q /\ (r.kind = "saved" => r.rec.val = i.val)
        /\ \A r, y \in Answers(sent) : r.e = y.e => r = y
        /\ sent \in Event
    BY <1>2, <1>5, <2>4
  <2>8. Uploads(cloud', store, inflight, Tail(cmds), Append(chan, sent))
    BY <1>1, <2>3, <2>5, <2>6, <2>7, UploadsSent
  <2> QED
    BY <1>3, <1>6, <1>7, <2>8
<1>11. Plain'
  <2>1. engine' # None
    BY <1>2, MacAssumption
  <2> QED
    BY <1>1, <1>3, <1>5, <1>6, <1>7, <2>1, PlainEmits
<1> QED
  BY <1>3, <1>8, <1>9, <1>10, <1>11, AddedSame DEF Merging, Rows, Kept

LEMMA BridgeMerging ==
    ASSUME Inv, Inv', Merging, OnlyAdds, Bridge
    PROVE  Merging' /\ Kept
<1>1. ASSUME EngineStart PROVE Merging' /\ Kept
  <2>1. /\ Runs("start") /\ engine' = Head(cmds).at /\ staged' = {}
        /\ UNCHANGED <<store, coreVars, toApply, chan, cloud>>
    BY <1>1 DEF EngineStart
  <2>2. engine' # None
    <3>1. engine' \in Position
      BY <2>1, RunsTyped, CommandTyped DEF Inv
    <3> QED
      BY <3>1, MacAssumption
  <2>3. /\ up /\ cmds # <<>> /\ cmds' = Tail(cmds)
        /\ UNCHANGED <<inflight, up, staleSeen>>
    BY <2>1 DEF Runs, coreVars
  <2> DEFINE n == <<>>
  <2>4. n \in Seq(Event) /\ chan' = chan \o n
    BY <2>1, CombiningTyped, ConcatEmptySeq
  <2>5. \A k \in DOMAIN n :
           /\ n[k].ev \in {"fetched", "state", "complete", "error"}
           /\ n[k].ev = "fetched" => /\ n[k].dels \cap Combining = {}
                                     /\ \A x \in n[k].recs : x.rec = cloud[x.e]
    OBVIOUS
  <2>6. staged' = staged
    BY <2>1 DEF Merging, Plain
  <2> HIDE DEF n
  <2> QED
    BY <2>1, <2>2, <2>3, <2>4, <2>5, <2>6, FetchMerged
<1>2. ASSUME EngineFetch PROVE Merging' /\ Kept
  <2>1. /\ Runs("fetch") /\ engine' = Advance(Entity)
        /\ chan' = chan \o ((IF Changed = {} THEN <<>>
                             ELSE << FetchedPage(Changed), StateAt(Entity) >>)
                            \o << [ev |-> "complete"] >>)
        /\ UNCHANGED <<store, coreVars, toApply, staged, cloud>>
    BY <1>2 DEF EngineFetch, Emits
  <2> QED
    BY <2>1, FetchesMerging
<1>3. ASSUME NEW page \in SUBSET Entity, EngineFetchFails(page) PROVE Merging' /\ Kept
  <2>1. /\ Runs("fetch") /\ engine' \in {engine, Advance(page)} /\ page \in SUBSET Changed
        /\ chan' = chan \o ((IF page = {} THEN <<>> ELSE << FetchedPage(page), StateAt(page) >>)
                            \o << [ev |-> "error"] >>)
        /\ UNCHANGED <<store, coreVars, toApply, staged, cloud>>
    BY <1>3 DEF EngineFetchFails, Emits
  <2> QED
    BY <2>1, FetchesMerging
<1>4. ~EngineExpires
  BY DEF EngineExpires, Fault, OnlyAdds, Merging, Plain
<1>5. ~\E landed \in SUBSET Entity : EngineSendThrows(landed)
  BY DEF EngineSendThrows, Fault, OnlyAdds
<1> QED
  BY <1>1, <1>2, <1>3, <1>4, <1>5, SendMerging DEF Bridge

LEMMA LaunchMerging ==
    ASSUME Inv, Inv', Merging, OnlyAdds, NEW away \in BOOLEAN, Launch(away)
    PROVE  Merging' /\ Kept
<1> DEFINE a == [cmd |-> "start", at |-> IF away THEN NoPosition ELSE ckpt]
           b == [cmd |-> "fetch"]
           out == <<a, b>>
           flying == {}
           again == TRUE
           caught == FALSE
<1>1. /\ ~away /\ ~up /\ staleSeen' = None
      /\ Pump(store, flying, again, caught, out)
      /\ UNCHANGED <<toApply, chan, engine, staged, cloud>>
  BY DEF Launch, Fault, OnlyAdds
<1>2. chan = <<>> /\ chan \in Seq(Event)
  BY <1>1, CombiningTyped DEF Merging, Plain
<1>3. a \in Command /\ Offers(a) = {} /\ b \in Command /\ Offers(b) = {}
  BY <1>1 DEF Command, Offers, Inv, TypeOK
<1> HIDE DEF a, b
<1>4. out \in Seq(Command) /\ \A k \in DOMAIN out : Offers(out[k]) = {}
  BY <1>3
<1> HIDE DEF out
<1>5. Uploads(cloud, store, flying, out, chan')
  BY <1>1, <1>2, <1>4 DEF Uploads, Asked, Ready, Paired, Matched, Single
<1>6. Ways(cloud, store, toApply', chan')
  BY <1>1 DEF Merging
<1>7. Plain'
  BY <1>1, <1>2 DEF Merging, Plain
<1>8. flying \in SUBSET Inflight /\ store \in [Entity -> Stored]
  BY CombiningTyped
<1>9. \A e \in Combining : Sound(cloud[e], store[e]) /\ Added(store[e].row, store[e].row)
  BY AddedSame DEF Merging, Rows
<1> HIDE DEF flying, again, caught
<1> QED
  BY <1>1, <1>4, <1>5, <1>6, <1>7, <1>8, <1>9, PumpMerged

LEMMA CrashMerging ==
    ASSUME Inv, Merging, Crash
    PROVE  Merging' /\ Kept
<1>1. /\ up' = FALSE /\ inflight' = {} /\ staged' = {} /\ staleSeen' = None
      /\ toApply' = <<>> /\ cmds' = <<>> /\ chan' = <<>>
      /\ engine' = NoPosition /\ UNCHANGED <<store, cloud>>
  BY DEF Crash
<1>2. engine' # None
  <2>1. NoPosition \in Position
    BY DEF NoPosition, Position
  <2> QED
    BY <1>1, <2>1, MacAssumption
<1>3. Ways(cloud', store', toApply', chan')
  BY <1>1 DEF Ways, Sorted, Fitting
<1>4. Uploads(cloud', store', inflight', cmds', chan')
  BY <1>1 DEF Uploads, Asked, Ready, Paired, Matched, Single
<1>5. Plain'
  BY <1>1, <1>2 DEF Plain
<1> QED
  BY <1>1, <1>3, <1>4, <1>5, AddedSame DEF Merging, Rows, Kept

LEMMA ApplyMerging ==
    ASSUME Inv, Inv', Merging, NEW now \in Times, Apply(now)
    PROVE  Merging' /\ Kept
<1> DEFINE ack == [ev |-> "applied"]
           b == Head(toApply)
           n == <<ack>>
<1>1. /\ up /\ toApply # <<>>
      /\ store' = [e \in Entity |-> Applied(b, e, now)]
      /\ toApply' = Tail(toApply)
      /\ chan' = Append(chan, ack)
      /\ UNCHANGED <<up, inflight, staleSeen, cmds, engine, staged, cloud>>
  BY DEF Apply, coreVars
<1>2. /\ toApply \in Seq(Batch) /\ chan \in Seq(Event) /\ cmds \in Seq(Command) /\ now \in Nat
      /\ \A e \in Combining : /\ e \in Entity /\ store[e] \in Stored /\ cloud[e] \in CloudRecord
                              /\ store'[e] = Applied(b, e, now)
  BY <1>1, CombiningTyped, MacAssumption
<1>3. /\ b \in Batch /\ 1 \in DOMAIN toApply /\ b = toApply[1]
      /\ \A k \in DOMAIN Tail(toApply) : /\ k + 1 \in DOMAIN toApply /\ 1 <= k + 1
                                         /\ Tail(toApply)[k] = toApply[k + 1]
  <2>1. /\ Len(toApply) \in Nat \ {0} /\ DOMAIN toApply = 1 .. Len(toApply)
        /\ DOMAIN Tail(toApply) = 1 .. Len(toApply) - 1
        /\ \A k \in DOMAIN Tail(toApply) : Tail(toApply)[k] = toApply[k + 1]
        /\ b = toApply[1] /\ b \in Batch
    BY <1>1, <1>2, HeadTailProperties, LenProperties, EmptySeq
  <2> HIDE DEF b
  <2> QED
    BY <2>1
<1>4. /\ ack \in Event /\ ack.ev = "applied" /\ Brought(ack) = {} /\ Answers(ack) = {}
  BY DEF Event, Brought, Answers
<1> HIDE DEF ack, b
<1>5. /\ n \in Seq(Event) /\ chan' = chan \o n /\ \A k \in DOMAIN n : n[k] = ack
  BY <1>1, <1>2, <1>4, AppendIsConcat
<1> HIDE DEF n
<1>6. ASSUME NEW e \in Combining
      PROVE  /\ Sound(cloud[e], store'[e]) /\ Undeleted(cloud[e])
             /\ Added(store[e].row, store'[e].row)
             /\ \/ Agreed(store'[e]) \subseteq Agreed(store[e])
                \/ \E x \in b.recs : /\ x.e = e
                       /\ Agreed(store'[e]) \subseteq Agreed(store[e]) \cup Entries(x.rec.val)
  <2> DEFINE recs == {x \in b.recs : x.e = e}
             x == CHOOSE x \in recs : TRUE
  <2>1. Sound(cloud[e], store[e]) /\ Undeleted(cloud[e])
    BY DEF Merging, Rows
  <2>2. CASE recs # {}
    <3>1. x \in b.recs /\ x.e = e
      BY <2>2
    <3>2. store'[e] = ApplyRecord(e, store[e], x.rec, now)
      BY <1>2, <2>2 DEF Applied
    <3> HIDE DEF x
    <3>3. x.rec \in CloudRecord /\ x.rec.val # None
      BY <1>3, <3>1 DEF Batch, Fetched
    <3>4. Fits(cloud[e], store[e], x.rec)
      BY <1>3, <3>1 DEF Merging, Ways, Fitting, AllFit
    <3>5. /\ Sound(cloud[e], store'[e]) /\ Added(store[e].row, store'[e].row)
          /\ Learns(store[e], store'[e], x.rec.val)
      BY <1>2, <2>1, <3>2, <3>3, <3>4, ApplySound
    <3>6. Agreed(store'[e]) \subseteq Agreed(store[e]) \cup Entries(x.rec.val)
      BY <3>5 DEF Learns, Agreed
    <3> QED
      BY <2>1, <3>1, <3>5, <3>6
  <2>3. CASE recs = {}
    <3>1. e \notin b.dels
      BY <1>3 DEF Merging, Plain
    <3>2. store'[e] = store[e]
      BY <1>2, <2>3, <3>1 DEF Applied
    <3> QED
      BY <2>1, <3>2, AddedSame
  <2> QED
    BY <2>2, <2>3
<1>7. Ways(cloud, store', toApply', chan')
  <2>1. Ways(cloud, store, Tail(toApply), chan)
    BY <1>1, <1>2, Dropped DEF Merging
  <2>2. \A k \in DOMAIN Tail(toApply) : Under(b.recs, Tail(toApply)[k].recs)
    BY <1>3 DEF Merging, Ways, Sorted
  <2>3. \A k \in DOMAIN chan : Under(b.recs, Brought(chan[k]))
    BY <1>3 DEF Merging, Ways, Sorted
  <2>4. Ways(cloud, store', Tail(toApply), chan)
    BY <1>6, <2>1, <2>2, <2>3, WaysLearned
  <2>5. \A e \in Combining : Fits(cloud[e], store'[e], cloud[e])
    BY <1>2, <1>6, CloudFits
  <2>6. \A k \in DOMAIN n : \A x \in Brought(n[k]) : x.e \in Combining => x.rec = cloud[x.e]
    BY <1>4, <1>5
  <2>7. Tail(toApply) \in Seq(Batch)
    BY <1>1, <1>2, HeadTailProperties
  <2> QED
    BY <1>1, <1>2, <1>5, <2>4, <2>5, <2>6, <2>7, Emitted
<1>8. Uploads(cloud, store', inflight, cmds, chan')
  <2>1. Uploads(cloud, store', inflight, cmds, chan)
    BY <1>2, <1>6, UploadsStill DEF Merging
  <2> QED
    BY <1>2, <1>4, <1>5, <2>1, UploadsMail
<1>9. Plain'
  <2>1. \A k \in DOMAIN toApply' : toApply'[k].dels \cap Combining = {}
    BY <1>1, <1>3 DEF Merging, Plain
  <2>2. \A k \in DOMAIN chan' : chan'[k] = ack \/ (k \in DOMAIN chan /\ chan'[k] = chan[k])
    <3>1. \A k \in DOMAIN Append(chan, ack) :
             Append(chan, ack)[k] = ack
             \/ (k \in DOMAIN chan /\ Append(chan, ack)[k] = chan[k])
      BY <1>2, AppendProperties, LenProperties
    <3> QED
      BY <1>1, <3>1
  <2>3. \A k \in DOMAIN chan' :
           /\ chan'[k].ev \notin {"sendfailed", "expired"}
           /\ chan'[k].ev = "fetched" => chan'[k].dels \cap Combining = {}
    BY <1>4, <2>2 DEF Merging, Plain
  <2> QED
    BY <1>1, <2>1, <2>3 DEF Merging, Plain
<1> QED
  BY <1>1, <1>6, <1>7, <1>8, <1>9, AddedSame DEF Merging, Rows, Kept

LEMMA NextMerging ==
    ASSUME Inv, Merging, OnlyAdds, FewRefusals, [Next]_vars
    PROVE  Merging' /\ Kept
<1>1. Inv'
  BY NextInv
<1>2. CASE UNCHANGED vars
  <2>1. UNCHANGED <<store, cloud, toApply, chan, cmds, inflight, staged, engine, staleSeen, up>>
    BY <1>2 DEF vars, coreVars, pathVars
  <2> QED
    BY <2>1, AddedSame DEF Merging, Rows, Plain, Kept
<1>3. CASE Next
  BY <1>1, <1>3, UsersMerging, TimersMerging, HandlersMerging, BridgeMerging,
     LaunchMerging, CrashMerging, ApplyMerging DEF Next
<1> QED
  BY <1>2, <1>3

(* Where users only add entries, no entry of a combining entity ever        *)
(* disappears again, neither from this Mac nor from the cloud               *)
(* (`on_conflict`, `merge3`), whatever crashes, interrupted or stuck        *)
(* fetches, refused records, old builds and edits of other Macs come in     *)
(* between, as long as batches are applied before the next answer is        *)
(* handled and no edit is refused as often as there are attempts to merge   *)
(* it (MAX_MERGE_ATTEMPTS).  Sends that fail as a whole, checkpoints that   *)
(* expire and long absences are outside of it.                              *)
THEOREM EntriesKept ==
    ASSUME OnlyAdds
    PROVE  Spec /\ []FewRefusals => NoEntryLost
<1>1. Inv /\ Merging /\ FewRefusals /\ [Next]_vars => Merging'
  BY NextMerging
<1>2. Inv /\ Merging /\ FewRefusals /\ [Next]_vars =>
        [\A e \in Combining : /\ Keeps(store[e].row, store'[e].row)
                              /\ Keeps(cloud[e].val, cloud'[e].val)]_vars
  BY NextMerging DEF Kept, Added, Keeps
<1> QED
  BY <1>1, <1>2, InitMerging, Invariance, PTL DEF Spec, NoEntryLost

-----------------------------------------------------------------------------
(* Nothing is missed: what a position that has passed a version owes.       *)

(* An upload is queued, and no answer on its way is about an older version. *)
Insists(e, z, s, c) ==
    /\ s.op # "none"
    /\ \A k \in DOMAIN c : \A r \in Answers(c[k]) :
           r.e = e => Entries(z.val) \subseteq Entries(r.rec.val)

(* Records X bring entity e, in version z.                                  *)
Bring(X, e, z) == (\E x \in X : x.e = e) /\ \A x \in X : x.e = e => x.rec = z

(* The row has what the cloud's version z holds, or waits to replace it, or *)
(* z is in a batch of b or in one of the first n events of c.               *)
Safe(e, z, s, b, c, n) ==
    \/ Added(z.val, s.row)
    \/ Insists(e, z, s, c)
    \/ \E k \in DOMAIN b : Bring(b[k].recs, e, z)
    \/ \E k \in DOMAIN c : k <= n /\ c[k].ev = "fetched" /\ Bring(c[k].recs, e, z)

(* A position p whose batches are b and the first n events of c.            *)
Passed(z, st, b, c, p, n) ==
    \A e \in Combining :
        /\ p.pos[e] <= z[e].ver
        /\ p.pos[e] = z[e].ver => Safe(e, z[e], st[e], b, c, n)

(* What a step may do to a row.                                             *)
Goes(e, z, s, t, c) ==
    /\ Added(s.row, t.row)
    /\ Insists(e, z, s, c) => t.op # "none" \/ Added(z.val, t.row)

(* What is added twice is added.                                            *)
LEMMA AddedOn ==
    ASSUME NEW u, NEW v, NEW w, Added(u, v), Added(v, w)
    PROVE  Added(u, w)
  BY DEF Added

(* A step that keeps what rows have and what is queued owes no more.        *)
LEMMA PassedGoes ==
    ASSUME NEW z, NEW st, NEW s, NEW b, NEW c, NEW p, NEW n,
           Passed(z, st, b, c, p, n),
           \A e \in Combining : Goes(e, z[e], st[e], s[e], c)
    PROVE  Passed(z, s, b, c, p, n)
<1> SUFFICES ASSUME NEW e \in Combining, p.pos[e] = z[e].ver
             PROVE  Safe(e, z[e], s[e], b, c, n)
  BY DEF Passed
<1>1. Safe(e, z[e], st[e], b, c, n) /\ Goes(e, z[e], st[e], s[e], c)
  BY DEF Passed
<1>2. CASE Added(z[e].val, st[e].row)
  BY <1>1, <1>2, AddedOn DEF Goes, Safe
<1>3. CASE Insists(e, z[e], st[e], c)
  BY <1>1, <1>3 DEF Goes, Safe, Insists
<1> QED
  BY <1>1, <1>2, <1>3 DEF Safe

(* It is no harder with more batches and events.                            *)
LEMMA PassedMore ==
    ASSUME NEW z, NEW st, NEW b, NEW c \in Seq(Event), NEW p, NEW n \in Nat
    PROVE  /\ Passed(z, st, <<>>, c, p, 0) => Passed(z, st, b, c, p, n)
           /\ Passed(z, st, b, c, p, 0) => Passed(z, st, b, c, p, n)
           /\ b = <<>> /\ Passed(z, st, b, c, p, 0) => Passed(z, st, <<>>, c, p, 0)
<1>1. ASSUME NEW e, NEW a, a = <<>> \/ a = b, Safe(e, z[e], st[e], a, c, 0)
      PROVE  Safe(e, z[e], st[e], b, c, n)
  <2>1. CASE \E k \in DOMAIN c : k <= 0 /\ c[k].ev = "fetched" /\ Bring(c[k].recs, e, z[e])
    <3>1. \A k \in DOMAIN c : ~(k <= 0)
      BY LenProperties
    <3> QED
      BY <2>1, <3>1
  <2>2. CASE \E k \in DOMAIN a : Bring(a[k].recs, e, z[e])
    <3>1. a # <<>>
      BY <2>2
    <3> QED
      BY <1>1, <2>2, <3>1 DEF Safe
  <2> QED
    BY <1>1, <2>1, <2>2 DEF Safe
<1> QED
  BY <1>1 DEF Passed

(* Events are added; the answers among them are about the latest versions.  *)
LEMMA PassedEmitted ==
    ASSUME NEW z, NEW st, NEW b, NEW c \in Seq(Event), NEW m \in Seq(Event), NEW p,
           NEW n \in Nat, n <= Len(c), Passed(z, st, b, c, p, n),
           \A k \in DOMAIN m : \A r \in Answers(m[k]) :
               r.e \in Combining => Entries(z[r.e].val) \subseteq Entries(r.rec.val)
    PROVE  Passed(z, st, b, c \o m, p, n)
<1> DEFINE d == c \o m
<1>1. /\ DOMAIN c \subseteq DOMAIN d
      /\ \A k \in DOMAIN c : d[k] = c[k]
      /\ \A k \in DOMAIN d : \/ k \in DOMAIN c /\ d[k] = c[k]
                             \/ \E l \in DOMAIN m : d[k] = m[l]
  <2>1. /\ Len(c) \in Nat /\ Len(m) \in Nat
        /\ DOMAIN c = 1 .. Len(c) /\ DOMAIN m = 1 .. Len(m) /\ DOMAIN d = 1 .. Len(c) + Len(m)
        /\ \A k \in DOMAIN d : d[k] = IF k <= Len(c) THEN c[k] ELSE m[k - Len(c)]
    BY ConcatProperties, LenProperties
  <2> HIDE DEF d
  <2>2. ASSUME NEW k \in DOMAIN d, ~(k <= Len(c)) PROVE \E l \in DOMAIN m : d[k] = m[l]
    <3>1. k - Len(c) \in DOMAIN m
      BY <2>1, <2>2
    <3> QED
      BY <2>1, <2>2, <3>1
  <2> QED
    BY <2>1, <2>2
<1> HIDE DEF d
<1>2. ASSUME NEW e \in Combining, Insists(e, z[e], st[e], c) PROVE Insists(e, z[e], st[e], d)
  <2> SUFFICES ASSUME NEW k \in DOMAIN d, NEW r \in Answers(d[k]), r.e = e
               PROVE  Entries(z[e].val) \subseteq Entries(r.rec.val)
    BY <1>2 DEF Insists
  <2> QED
    BY <1>1, <1>2 DEF Insists
<1>3. ASSUME NEW e \in Combining, Safe(e, z[e], st[e], b, c, n)
      PROVE  Safe(e, z[e], st[e], b, d, n)
  BY <1>1, <1>2, <1>3 DEF Safe
<1> QED
  BY <1>3 DEF Passed, d

(* An event is taken off, and what it brought waits at the host, unless the *)
(* row has it already.                                                      *)
LEMMA PassedTaken ==
    ASSUME NEW z, NEW st, NEW b \in Seq(Batch), NEW c \in Seq(Event), c # <<>>,
           NEW a \in Seq(Batch), NEW p, NEW n \in Nat, NEW m \in Nat, n <= m + 1,
           Passed(z, st, b, c, p, n),
           \A e \in Combining :
               Head(c).ev = "fetched" /\ Bring(Head(c).recs, e, z[e]) =>
                   \/ Added(z[e].val, st[e].row)
                   \/ \E k \in DOMAIN a : Bring(a[k].recs, e, z[e])
    PROVE  Passed(z, st, b \o a, Tail(c), p, m)
<1> DEFINE d == Tail(c)
           w == b \o a
<1>1. /\ Len(c) \in Nat /\ DOMAIN c = 1 .. Len(c) /\ DOMAIN d = 1 .. Len(c) - 1
      /\ \A k \in DOMAIN d : d[k] = c[k + 1]
      /\ Head(c) = c[1]
  BY HeadTailProperties, LenProperties, EmptySeq
<1>2. /\ \A k \in DOMAIN d : k + 1 \in DOMAIN c /\ d[k] = c[k + 1]
      /\ \A k \in DOMAIN c : k = 1 \/ (k - 1 \in DOMAIN d /\ d[k - 1] = c[k] /\ (k <= n => k - 1 <= m))
  <2> HIDE DEF d
  <2> QED
    BY <1>1
<1>3. /\ \A k \in DOMAIN b : k \in DOMAIN w /\ w[k] = b[k]
      /\ \A k \in DOMAIN a : Len(b) + k \in DOMAIN w /\ w[Len(b) + k] = a[k]
  <2>1. /\ Len(b) \in Nat /\ Len(a) \in Nat
        /\ DOMAIN b = 1 .. Len(b) /\ DOMAIN a = 1 .. Len(a) /\ DOMAIN w = 1 .. Len(b) + Len(a)
        /\ \A k \in DOMAIN w : w[k] = IF k <= Len(b) THEN b[k] ELSE a[k - Len(b)]
    BY ConcatProperties, LenProperties
  <2> HIDE DEF w
  <2>2. ASSUME NEW k \in DOMAIN a PROVE Len(b) + k \in DOMAIN w /\ w[Len(b) + k] = a[k]
    <3>1. Len(b) + k \in DOMAIN w /\ ~(Len(b) + k <= Len(b)) /\ (Len(b) + k) - Len(b) = k
      BY <2>1
    <3> QED
      BY <2>1, <3>1
  <2> QED
    BY <2>1, <2>2
<1> HIDE DEF d, w
<1>4. ASSUME NEW e \in Combining, Safe(e, z[e], st[e], b, c, n)
      PROVE  Safe(e, z[e], st[e], w, d, m)
  <2>1. CASE Insists(e, z[e], st[e], c)
    BY <1>2, <2>1 DEF Insists, Safe
  <2>2. CASE \E k \in DOMAIN b : Bring(b[k].recs, e, z[e])
    BY <1>3, <2>2 DEF Safe
  <2>3. ASSUME NEW k \in DOMAIN c, k <= n, c[k].ev = "fetched", Bring(c[k].recs, e, z[e])
        PROVE  Safe(e, z[e], st[e], w, d, m)
    <3>1. CASE k = 1
      BY <1>1, <1>3, <2>3, <3>1 DEF Safe
    <3>2. CASE k - 1 \in DOMAIN d /\ d[k - 1] = c[k] /\ k - 1 <= m
      BY <2>3, <3>2 DEF Safe
    <3> QED
      BY <1>2, <2>3, <3>1, <3>2
  <2> QED
    BY <1>4, <2>1, <2>2, <2>3 DEF Safe
<1> QED
  BY <1>4 DEF Passed, d, w

(* The cloud moves on: no position has passed the new version.              *)
LEMMA PassedZone ==
    ASSUME NEW z \in [Entity -> CloudRecord], NEW y \in [Entity -> CloudRecord],
           NEW st, NEW b, NEW c, NEW p \in Position, NEW n, Passed(z, st, b, c, p, n),
           \A e \in Combining : Later(z[e], y[e])
    PROVE  Passed(y, st, b, c, p, n)
<1> SUFFICES ASSUME NEW e \in Combining
             PROVE  /\ p.pos[e] <= y[e].ver
                    /\ p.pos[e] = y[e].ver => Safe(e, y[e], st[e], b, c, n)
  BY DEF Passed
<1>1. e \in Entity /\ p.pos[e] \in Nat /\ z[e].ver \in Nat /\ y[e].ver \in Nat
  BY MacAssumption DEF Position, CloudRecord
<1>2. /\ p.pos[e] <= z[e].ver
      /\ p.pos[e] = z[e].ver => Safe(e, z[e], st[e], b, c, n)
  BY DEF Passed
<1>3. y[e] = z[e] \/ y[e].ver > z[e].ver
  BY DEF Later
<1> QED
  BY <1>1, <1>2, <1>3

(* Every position there is: on disk (k), in a command to start (out),       *)
(* waiting to be saved (pend), reported in c, and the engine's.             *)
Covers(z, st, k, out, pend, b, c, at) ==
    /\ Passed(z, st, <<>>, c, k, 0)
    /\ \A i \in DOMAIN out : out[i].cmd = "start" => Passed(z, st, <<>>, c, out[i].at, 0)
    /\ pend # None => Passed(z, st, b, c, pend, 0)
    /\ \A i \in DOMAIN c : c[i].ev = "state" => Passed(z, st, b, c, c[i].at, i - 1)
    /\ Passed(z, st, b, c, at, Len(c))

(* The same of all positions.                                               *)
LEMMA CoversGoes ==
    ASSUME NEW z, NEW st, NEW s, NEW k, NEW out, NEW pend, NEW b, NEW c, NEW at,
           Covers(z, st, k, out, pend, b, c, at),
           \A e \in Combining : Goes(e, z[e], st[e], s[e], c)
    PROVE  Covers(z, s, k, out, pend, b, c, at)
<1>1. \A a, p, n : Passed(z, st, a, c, p, n) => Passed(z, s, a, c, p, n)
  BY PassedGoes
<1> QED
  BY <1>1 DEF Covers

(* The same of all positions, when the cloud moves on.                      *)
LEMMA CoversZone ==
    ASSUME NEW z \in [Entity -> CloudRecord], NEW y \in [Entity -> CloudRecord], NEW st,
           NEW k \in Position, NEW out \in Seq(Command), NEW pend \in {None} \cup Position,
           NEW b, NEW c \in Seq(Event), NEW at \in Position,
           Covers(z, st, k, out, pend, b, c, at),
           \A e \in Combining : Later(z[e], y[e])
    PROVE  Covers(y, st, k, out, pend, b, c, at)
<1>1. \A p \in Position : \A a, n : Passed(z, st, a, c, p, n) => Passed(y, st, a, c, p, n)
  BY PassedZone
<1>2. \A i \in DOMAIN out : out[i].cmd = "start" => out[i].at \in Position
  BY ElementOfSeq, CommandTyped
<1>3. \A i \in DOMAIN c : c[i].ev = "state" => c[i].at \in Position
  BY ElementOfSeq, EventTyped
<1> QED
  BY <1>1, <1>2, <1>3 DEF Covers

(* Commands taken or added without a position.                              *)
LEMMA CoversAsked ==
    ASSUME NEW z, NEW st, NEW k, NEW out, NEW o, NEW pend, NEW b, NEW c, NEW at,
           Covers(z, st, k, out, pend, b, c, at),
           \A i \in DOMAIN o : o[i].cmd = "start" => \E j \in DOMAIN out : o[i] = out[j]
    PROVE  Covers(z, st, k, o, pend, b, c, at)
  BY DEF Covers

(* Events are added: the positions among them and the engine's own owe what *)
(* they owe.                                                                *)
LEMMA CoversEmitted ==
    ASSUME NEW z, NEW st, NEW k, NEW out, NEW pend, NEW b, NEW at, NEW to,
           NEW c \in Seq(Event), NEW m \in Seq(Event),
           Covers(z, st, k, out, pend, b, c, at),
           \A i \in DOMAIN m : \A r \in Answers(m[i]) :
               r.e \in Combining => Entries(z[r.e].val) \subseteq Entries(r.rec.val),
           \A i \in DOMAIN m : m[i].ev = "state" =>
               Passed(z, st, b, c \o m, m[i].at, Len(c) + i - 1),
           Passed(z, st, b, c \o m, to, Len(c) + Len(m))
    PROVE  Covers(z, st, k, out, pend, b, c \o m, to)
<1> DEFINE d == c \o m
<1>1. /\ Len(c) \in Nat /\ Len(m) \in Nat /\ Len(d) = Len(c) + Len(m)
      /\ DOMAIN c = 1 .. Len(c) /\ DOMAIN m = 1 .. Len(m) /\ DOMAIN d = 1 .. Len(c) + Len(m)
      /\ \A i \in DOMAIN d : d[i] = IF i <= Len(c) THEN c[i] ELSE m[i - Len(c)]
  BY ConcatProperties, LenProperties
<1> HIDE DEF d
<1>2. \A a, p : \A n \in Nat : n <= Len(c) /\ Passed(z, st, a, c, p, n) => Passed(z, st, a, d, p, n)
  BY PassedEmitted DEF d
<1>3. ASSUME NEW i \in DOMAIN d, d[i].ev = "state"
      PROVE  Passed(z, st, b, d, d[i].at, i - 1)
  <2>1. CASE i <= Len(c)
    <3>1. i \in DOMAIN c /\ d[i] = c[i] /\ i - 1 \in Nat /\ i - 1 <= Len(c)
      BY <1>1, <2>1
    <3> QED
      BY <1>2, <1>3, <3>1 DEF Covers
  <2>2. CASE ~(i <= Len(c))
    <3> DEFINE j == i - Len(c)
    <3>1. j \in DOMAIN m /\ d[i] = m[j] /\ Len(c) + j - 1 = i - 1
      BY <1>1, <2>2
    <3> HIDE DEF j
    <3> QED
      BY <1>3, <3>1 DEF d
  <2> QED
    BY <2>1, <2>2
<1>4. 0 \in Nat /\ 0 <= Len(c)
  BY <1>1
<1>5. Passed(z, st, b, d, to, Len(d))
  BY <1>1 DEF d
<1> QED
  BY <1>2, <1>3, <1>4, <1>5 DEF Covers, d

(* The first event is taken: what it brought is in batches now, or the row  *)
(* has it. A position it reported is one to be saved.                       *)
LEMMA CoversTaken ==
    ASSUME NEW z, NEW st, NEW k, NEW out, NEW pend, NEW b \in Seq(Batch), NEW at,
           NEW c \in Seq(Event), c # <<>>, NEW a \in Seq(Batch),
           Covers(z, st, k, out, pend, b, c, at),
           \A e \in Combining :
               Head(c).ev = "fetched" /\ Bring(Head(c).recs, e, z[e]) =>
                   \/ Added(z[e].val, st[e].row)
                   \/ \E i \in DOMAIN a : Bring(a[i].recs, e, z[e])
    PROVE  /\ Covers(z, st, k, out, pend, b \o a, Tail(c), at)
           /\ Head(c).ev = "state" => Passed(z, st, b \o a, Tail(c), Head(c).at, 0)
<1> DEFINE d == Tail(c)
           w == b \o a
<1>1. /\ Len(c) \in Nat \ {0} /\ DOMAIN c = 1 .. Len(c)
      /\ Len(d) = Len(c) - 1 /\ DOMAIN d = 1 .. Len(c) - 1
      /\ \A i \in DOMAIN d : d[i] = c[i + 1]
      /\ Head(c) = c[1]
  BY HeadTailProperties, LenProperties, EmptySeq
<1>2. \A p : \A n, m \in Nat : n <= m + 1 /\ Passed(z, st, b, c, p, n) => Passed(z, st, w, d, p, m)
  BY PassedTaken
<1>3. ASSUME NEW p, Passed(z, st, <<>>, c, p, 0) PROVE Passed(z, st, <<>>, d, p, 0)
  <2> SUFFICES ASSUME NEW e \in Combining, Safe(e, z[e], st[e], <<>>, c, 0)
               PROVE  Safe(e, z[e], st[e], <<>>, d, 0)
    BY <1>3 DEF Passed
  <2>1. \A i \in DOMAIN c : ~(i <= 0)
    BY <1>1
  <2>2. \A i \in DOMAIN d : \E j \in DOMAIN c : d[i] = c[j]
    <3>1. \A i \in DOMAIN d : i + 1 \in DOMAIN c
      BY <1>1
    <3> QED
      BY <1>1, <3>1
  <2> HIDE DEF d
  <2> QED
    BY <2>1, <2>2 DEF Safe, Insists
<1> HIDE DEF d, w
<1>4. ASSUME NEW i \in DOMAIN d, d[i].ev = "state" PROVE Passed(z, st, w, d, d[i].at, i - 1)
  <2>1. i + 1 \in DOMAIN c /\ d[i] = c[i + 1] /\ i \in Nat /\ i - 1 \in Nat /\ i <= (i - 1) + 1
        /\ (i + 1) - 1 = i
    BY <1>1
  <2>2. Passed(z, st, b, c, c[i + 1].at, (i + 1) - 1)
    BY <1>4, <2>1 DEF Covers
  <2> QED
    BY <1>2, <2>1, <2>2
<1>5. Passed(z, st, w, d, at, Len(d))
  <2>1. Len(c) \in Nat /\ Len(d) \in Nat /\ Len(c) <= Len(d) + 1
    BY <1>1
  <2> QED
    BY <1>2, <2>1 DEF Covers
<1>6. pend # None => Passed(z, st, w, d, pend, 0)
  BY <1>2 DEF Covers
<1>7. ASSUME Head(c).ev = "state" PROVE Passed(z, st, w, d, Head(c).at, 0)
  <2>1. 1 \in DOMAIN c /\ 1 - 1 = 0
    BY <1>1
  <2>2. Passed(z, st, b, c, c[1].at, 0)
    BY <1>1, <1>7, <2>1 DEF Covers
  <2> QED
    BY <1>1, <1>2, <2>2
<1> QED
  BY <1>3, <1>4, <1>5, <1>6, <1>7 DEF Covers, d, w

(* Every position owes what it has passed.                                  *)
Covering == Covers(cloud, store, ckpt, cmds, pendingState, toApply, chan, engine)

(* The cloud has a record of what is known to be there or is on its way, *)
(* and answers are not about deletes.                                        *)
Named(z, X) == \A x \in X : x.e \in Combining /\ x.rec.val # None => z[x.e].val # None

Known(z, st, b, c) ==
    /\ \A e \in Combining : st[e].synced # None => z[e].val # None /\ st[e].row # None
    /\ \A k \in DOMAIN b : Named(z, b[k].recs)
    /\ \A k \in DOMAIN c : /\ Named(z, Brought(c[k]))
                           /\ \A r \in Answers(c[k]) : r.e \in Combining => r.kind # "deleted"

(* Rows keep what was agreed, or learn it from the cloud.                   *)
LEMMA KnownKept ==
    ASSUME NEW z, NEW y, NEW st, NEW s, NEW b, NEW c, Known(z, st, b, c),
           \A e \in Combining :
               /\ Added(z[e].val, y[e].val) /\ Added(st[e].row, s[e].row)
               /\ \/ s[e].synced \in {st[e].synced, None}
                  \/ y[e].val # None /\ s[e].row # None
    PROVE  Known(y, s, b, c)
<1>1. \A e \in Combining : z[e].val # None => y[e].val # None
  BY DEF Added
<1>2. \A X : Named(z, X) => Named(y, X)
  BY <1>1 DEF Named
<1>3. ASSUME NEW e \in Combining, s[e].synced # None
      PROVE  y[e].val # None /\ s[e].row # None
  <2>1. st[e].row # None => s[e].row # None
    BY DEF Added
  <2> QED
    BY <1>1, <1>3, <2>1 DEF Known
<1> QED
  BY <1>2, <1>3 DEF Known

(* The first event is taken, and batches are made of what it brought.       *)
LEMMA KnownTaken ==
    ASSUME NEW z, NEW st, NEW b \in Seq(Batch), NEW c \in Seq(Event), c # <<>>,
           NEW a \in Seq(Batch), Known(z, st, b, c),
           \A k \in DOMAIN a : From(a[k].recs, Brought(Head(c)))
    PROVE  Known(z, st, b \o a, Tail(c))
<1> DEFINE d == Tail(c)
           w == b \o a
<1>1. /\ \A k \in DOMAIN d : \E l \in DOMAIN c : d[k] = c[l]
      /\ Head(c) = c[1] /\ 1 \in DOMAIN c
  <2>1. /\ Len(c) \in Nat \ {0} /\ DOMAIN c = 1 .. Len(c) /\ DOMAIN d = 1 .. Len(c) - 1
        /\ \A k \in DOMAIN d : d[k] = c[k + 1]
        /\ Head(c) = c[1]
    BY HeadTailProperties, LenProperties, EmptySeq
  <2> HIDE DEF d
  <2>2. \A k \in DOMAIN d : k + 1 \in DOMAIN c
    BY <2>1
  <2> QED
    BY <2>1, <2>2
<1>2. \A k \in DOMAIN w : \/ \E l \in DOMAIN b : w[k] = b[l]
                          \/ \E l \in DOMAIN a : w[k] = a[l]
  <2>1. /\ Len(b) \in Nat /\ Len(a) \in Nat
        /\ DOMAIN b = 1 .. Len(b) /\ DOMAIN a = 1 .. Len(a) /\ DOMAIN w = 1 .. Len(b) + Len(a)
        /\ \A k \in DOMAIN w : w[k] = IF k <= Len(b) THEN b[k] ELSE a[k - Len(b)]
    BY ConcatProperties, LenProperties
  <2> HIDE DEF w
  <2>2. ASSUME NEW k \in DOMAIN w, ~(k <= Len(b)) PROVE k - Len(b) \in DOMAIN a
    BY <2>1, <2>2
  <2>3. ASSUME NEW k \in DOMAIN w, k <= Len(b) PROVE k \in DOMAIN b
    BY <2>1, <2>3
  <2> QED
    BY <2>1, <2>2, <2>3
<1> HIDE DEF d, w
<1>3. ASSUME NEW k \in DOMAIN a PROVE Named(z, a[k].recs)
  <2>1. Named(z, Brought(Head(c))) /\ From(a[k].recs, Brought(Head(c)))
    BY <1>1 DEF Known
  <2> QED
    BY <2>1, Zenon DEF Named, From
<1>4. \A k \in DOMAIN w : Named(z, w[k].recs)
  BY <1>2, <1>3 DEF Known
<1> QED
  BY <1>1, <1>4 DEF Known, d, w

(* Events are added that bring what the cloud holds.                        *)
LEMMA KnownEmitted ==
    ASSUME NEW z, NEW st, NEW b, NEW c \in Seq(Event), NEW m \in Seq(Event), Known(z, st, b, c),
           \A k \in DOMAIN m :
               /\ \A x \in Brought(m[k]) : x.e \in Combining => x.rec = z[x.e]
               /\ \A r \in Answers(m[k]) : r.e \in Combining => r.kind # "deleted"
    PROVE  Known(z, st, b, c \o m)
<1> DEFINE d == c \o m
<1>1. \A k \in DOMAIN d : \/ \E l \in DOMAIN c : d[k] = c[l]
                          \/ \E l \in DOMAIN m : d[k] = m[l]
  <2>1. /\ Len(c) \in Nat /\ Len(m) \in Nat
        /\ DOMAIN c = 1 .. Len(c) /\ DOMAIN m = 1 .. Len(m) /\ DOMAIN d = 1 .. Len(c) + Len(m)
        /\ \A k \in DOMAIN d : d[k] = IF k <= Len(c) THEN c[k] ELSE m[k - Len(c)]
    BY ConcatProperties, LenProperties
  <2> HIDE DEF d
  <2>2. ASSUME NEW k \in DOMAIN d, ~(k <= Len(c)) PROVE k - Len(c) \in DOMAIN m
    BY <2>1, <2>2
  <2>3. ASSUME NEW k \in DOMAIN d, k <= Len(c) PROVE k \in DOMAIN c
    BY <2>1, <2>3
  <2> QED
    BY <2>1, <2>2, <2>3
<1> HIDE DEF d
<1>2. \A k \in DOMAIN m : Named(z, Brought(m[k]))
  BY DEF Named
<1>3. \A k \in DOMAIN d : /\ Named(z, Brought(d[k]))
                          /\ \A r \in Answers(d[k]) : r.e \in Combining => r.kind # "deleted"
  BY <1>1, <1>2 DEF Known
<1> QED
  BY <1>3 DEF Known, d

-----------------------------------------------------------------------------
(* A row that is queued and was not emptied is not dropped by `pump`.       *)
LEMMA PumpGoes ==
    ASSUME Merging, Kept, NEW st \in [Entity -> Stored], NEW flying, NEW again, NEW caught,
           NEW out, Pump(st, flying, again, caught, out), NEW e \in Combining,
           Insists(e, cloud[e], store[e], chan) =>
               st[e].op # "none" \/ Added(cloud[e].val, store[e].row)
    PROVE  /\ Goes(e, cloud[e], store[e], store'[e], chan)
           /\ store'[e].synced = st[e].synced
<1> DEFINE due == IF sendHold THEN {} ELSE {x \in Entity : Due(x, st[x], flying, caught)}
           lost == {x \in due : Vanished(st[x])}
<1>1. store' = [x \in Entity |-> IF x \in lost THEN Cancel(st[x]) ELSE st[x]]
  BY DEF Pump
<1>2. e \in Entity /\ st[e] \in Stored
  BY MacAssumption
<1>3. store'[e] = st[e] \/ (Vanished(st[e]) /\ store'[e] = Cancel(st[e]))
  <2>1. e \in lost => Vanished(st[e])
    OBVIOUS
  <2> HIDE DEF lost
  <2> QED
    BY <1>1, <1>2, <2>1
<1>4. store'[e].synced = st[e].synced /\ store'[e].row = st[e].row
  BY <1>2, <1>3, CancelFields DEF Same
<1>5. Added(store[e].row, store'[e].row)
  BY DEF Kept
<1>6. ASSUME Insists(e, cloud[e], store[e], chan), ~Added(cloud[e].val, store[e].row)
      PROVE  store'[e].op # "none"
  <2>1. store[e].row # None
    BY <1>6 DEF Insists, Merging, Rows, Sound, Tracked
  <2>2. ~Vanished(st[e])
    BY <1>4, <1>5, <2>1 DEF Vanished, Added
  <2> QED
    BY <1>3, <1>6, <2>2
<1>7. Added(cloud[e].val, store[e].row) => Added(cloud[e].val, store'[e].row)
  BY <1>5, AddedOn
<1> QED
  BY <1>4, <1>5, <1>6, <1>7 DEF Goes

(* What `pump` asks for is no engine to start.                              *)
LEMMA PumpAsks ==
    ASSUME NEW st, NEW flying, NEW again, NEW caught, NEW out \in Seq(Command),
           Pump(st, flying, again, caught, out)
    PROVE  \A i \in DOMAIN cmds' : cmds'[i].cmd = "start" => \E j \in DOMAIN out : cmds'[i] = out[j]
<1> DEFINE due == IF sendHold THEN {} ELSE {x \in Entity : Due(x, st[x], flying, caught)}
           lost == {x \in due : Vanished(st[x])}
           changes == {Build(x, st[x]) : x \in due \ lost}
           send == [cmd |-> "send", changes |-> changes]
<1>1. cmds' = out \/ cmds' = Append(out, send)
  BY DEF Pump
<1>2. send.cmd = "send"
  OBVIOUS
<1> HIDE DEF send
<1>3. \A i \in DOMAIN Append(out, send) :
         Append(out, send)[i] = send \/ (i \in DOMAIN out /\ Append(out, send)[i] = out[i])
  BY AppendProperties, LenProperties
<1> QED
  BY <1>1, <1>2, <1>3

(* The invariant.                                                           *)
Accounted == Covering /\ Known(cloud, store, toApply, chan)

(* The checkpoint that is saved is one whose batches have been applied.     *)
LEMMA Flushed ==
    ASSUME NEW z, NEW st, NEW out, NEW b, NEW c, NEW at, NEW p, NEW completed, NEW w \in Nat,
           Covers(z, st, ckpt, out, pendingState, b, c, at),
           p # None => Passed(z, st, b, c, p, 0),
           w = 0 => b = <<>>,
           \/ UNCHANGED <<ckpt, pendingState>>
           \/ FlushState(w, p, completed)
    PROVE  Covers(z, st, ckpt', out, pendingState', b, c, at)
<1>1. CASE UNCHANGED <<ckpt, pendingState>>
  BY <1>1
<1>2. CASE FlushState(w, p, completed)
  <2>1. CASE w > 0
    <3>1. pendingState' = p /\ ckpt' = ckpt
      BY <1>2, <2>1 DEF FlushState
    <3> QED
      BY <3>1 DEF Covers
  <2>2. CASE ~(w > 0)
    <3>1. pendingState' = None /\ ckpt' = IF p = None THEN ckpt ELSE p
      BY <1>2, <2>2 DEF FlushState
    <3>2. b = <<>>
      BY <2>2
    <3>3. p # None => Passed(z, st, <<>>, c, p, 0)
      BY <3>2
    <3>4. Passed(z, st, <<>>, c, ckpt', 0)
      BY <3>1, <3>3 DEF Covers
    <3> QED
      BY <3>1, <3>4 DEF Covers
  <2> QED
    BY <2>1, <2>2
<1> QED
  BY <1>1, <1>2

(* Where nothing waits to be applied, the queue of batches is empty.        *)
LEMMA NoneWait ==
    ASSUME NEW b \in Seq(Batch), NEW c \in Seq(Event), 0 = Len(b) + Cardinality(Acks(c))
    PROVE  b = <<>>
<1>1. Cardinality(Acks(c)) \in Nat /\ Len(b) \in Nat
  BY AcksFinite, LenProperties
<1>2. Len(b) = 0
  BY <1>1
<1> QED
  BY <1>2, EmptySeq

(* A handler takes an event off the channel.                                *)
LEMMA TakenAccounted ==
    ASSUME Inv, Inv', Merging, Kept, Accounted, UNCHANGED <<cloud, engine>>,
           chan # <<>>, chan' = Tail(chan),
           NEW n \in Seq(Batch), toApply' = toApply \o n,
           \A k \in DOMAIN n : From(n[k].recs, Brought(Head(chan))),
           NEW st \in [Entity -> Stored], NEW flying, NEW again, NEW caught,
           Pump(st, flying, again, caught, cmds),
           \A e \in Combining :
               /\ Insists(e, cloud[e], store[e], chan) =>
                      st[e].op # "none" \/ Added(cloud[e].val, store[e].row)
               /\ \/ st[e].synced \in {store[e].synced, None}
                  \/ cloud[e].val # None /\ store[e].row # None
               /\ Head(chan).ev = "fetched" /\ Bring(Head(chan).recs, e, cloud[e]) =>
                      \/ Added(cloud[e].val, store[e].row)
                      \/ \E i \in DOMAIN n : Bring(n[i].recs, e, cloud[e]),
           NEW p, NEW completed, NEW w, w = unapplied',
           \/ UNCHANGED <<ckpt, pendingState>>
           \/ /\ FlushState(w, p, completed)
              /\ p = pendingState \/ (Head(chan).ev = "state" /\ p = Head(chan).at)
    PROVE  Accounted'
<1>1. /\ toApply \in Seq(Batch) /\ cmds \in Seq(Command) /\ chan \in Seq(Event)
      /\ unapplied' \in Nat
  BY CombiningTyped DEF Inv, TypeOK
<1>2. \A e \in Combining : /\ Goes(e, cloud[e], store[e], store'[e], chan)
                           /\ store'[e].synced = st[e].synced
  BY PumpGoes
<1>3. Covers(cloud, store', ckpt, cmds, pendingState, toApply, chan, engine)
  BY <1>2, CoversGoes DEF Accounted, Covering
<1>4. \A e \in Combining :
         Head(chan).ev = "fetched" /\ Bring(Head(chan).recs, e, cloud[e]) =>
             \/ Added(cloud[e].val, store'[e].row)
             \/ \E i \in DOMAIN n : Bring(n[i].recs, e, cloud[e])
  BY AddedOn DEF Kept
<1>5. /\ Covers(cloud, store', ckpt, cmds, pendingState, toApply', chan', engine)
      /\ Head(chan).ev = "state" => Passed(cloud, store', toApply', chan', Head(chan).at, 0)
  BY <1>1, <1>3, <1>4, CoversTaken
<1>6. Covers(cloud, store', ckpt, cmds', pendingState, toApply', chan', engine)
  <2>1. \A i \in DOMAIN cmds' : cmds'[i].cmd = "start" => \E j \in DOMAIN cmds : cmds'[i] = cmds[j]
    BY <1>1, PumpAsks
  <2> QED
    BY <1>5, <2>1, CoversAsked
<1>7. Covers(cloud, store', ckpt', cmds', pendingState', toApply', chan', engine)
  <2>1. CASE UNCHANGED <<ckpt, pendingState>>
    BY <1>6, <2>1
  <2>2. CASE /\ FlushState(w, p, completed)
             /\ p = pendingState \/ (Head(chan).ev = "state" /\ p = Head(chan).at)
    <3>1. p # None => Passed(cloud, store', toApply', chan', p, 0)
      BY <1>5, <2>2 DEF Covers
    <3>2. w \in Nat /\ (w = 0 => toApply' = <<>>)
      <4>1. /\ toApply' \in Seq(Batch) /\ chan' \in Seq(Event)
            /\ unapplied' = Len(toApply') + Cardinality(Acks(chan'))
        BY DEF Inv, TypeOK, Counted
      <4> QED
        BY <1>1, <4>1, NoneWait
    <3> QED
      BY <1>6, <2>2, <3>1, <3>2, Flushed
  <2> QED
    BY <2>1, <2>2
<1>8. Known(cloud, store', toApply', chan')
  <2>1. Known(cloud, store, toApply', chan')
    BY <1>1, KnownTaken DEF Accounted
  <2>2. \A e \in Combining :
           /\ Added(cloud[e].val, cloud[e].val) /\ Added(store[e].row, store'[e].row)
           /\ \/ store'[e].synced \in {store[e].synced, None}
              \/ cloud[e].val # None /\ store'[e].row # None
    BY <1>2, AddedSame DEF Kept, Added
  <2> QED
    BY <2>1, <2>2, KnownKept
<1> QED
  BY <1>7, <1>8 DEF Accounted, Covering

(* A fetched page becomes a batch, or is left out because the row has it.   *)
LEMMA FetchedAccounted ==
    ASSUME Inv, Inv', Merging, Kept, Accounted, OnFetched
    PROVE  Accounted'
<1> DEFINE recs == Head(chan).recs
           dels == Head(chan).dels
           n == Batches(Admitted(recs), dels)
<1>0. /\ \A e \in Combining : /\ e \in Entity /\ store[e] \in Stored /\ cloud[e] \in CloudRecord
                              /\ Sound(cloud[e], store[e])
      /\ store \in [Entity -> Stored] /\ toApply \in Seq(Batch) /\ chan \in Seq(Event)
  BY CombiningTyped DEF Merging, Rows
<1>1. /\ Handles("fetched") /\ toApply' = toApply \o n
      /\ UNCHANGED <<engine, cloud, ckpt, pendingState>>
      /\ Pump(store, inflight, reconcileNeeded, caughtUp, cmds)
  BY DEF OnFetched
<1>2. /\ chan # <<>> /\ chan' = Tail(chan) /\ Head(chan).ev = "fetched"
      /\ recs \in SUBSET Fetched /\ dels \in SUBSET Entity /\ Brought(Head(chan)) = recs
  BY <1>1, HandlesTyped, EventTyped DEF Handles, Inv, Brought
<1>3. Admitted(recs) = {x \in recs : ~Matches(store[x.e], x.rec.val)}
  BY DEF Admitted
<1> DEFINE some == Admitted(recs)
<1> HIDE DEF some, recs, dels
<1>4. n = <<>> \/ n = << [recs |-> some, dels |-> dels] >>
  BY DEF Batches, some
<1>5. n \in Seq(Batch)
  <2>1. some \in SUBSET Fetched
    BY <1>2, <1>3 DEF some
  <2> QED
    BY <1>2, <2>1, BatchesTyped DEF some
<1>6. From(some, recs)
  BY <1>3 DEF From, some
<1>7. /\ \A k \in DOMAIN n : n[k].recs = some
      /\ some # {} => \E k \in DOMAIN n : n[k].recs = some
  <2> DEFINE b == [recs |-> some, dels |-> dels]
  <2>1. b.recs = some
    OBVIOUS
  <2>2. n = IF some = {} /\ dels = {} THEN <<>> ELSE <<b>>
    BY DEF Batches, some
  <2> HIDE DEF b, n
  <2>3. CASE n = <<>>
    <3>1. \A k \in DOMAIN n : FALSE
      BY <2>3
    <3>2. some = {}
      <4>1. <<b>> # <<>>
        OBVIOUS
      <4> QED
        BY <2>2, <2>3, <4>1
    <3> QED
      BY <3>1, <3>2
  <2>4. CASE n = <<b>>
    <3>1. DOMAIN n = {1} /\ n[1] = b
      BY <2>4
    <3> QED
      BY <2>1, <3>1
  <2> QED
    BY <2>2, <2>3, <2>4
<1> HIDE DEF n
<1>8. ASSUME NEW e \in Combining, Bring(recs, e, cloud[e])
      PROVE  \/ Added(cloud[e].val, store[e].row)
             \/ \E i \in DOMAIN n : Bring(n[i].recs, e, cloud[e])
  <2>1. PICK x \in recs : x.e = e /\ x.rec = cloud[e]
    BY <1>8 DEF Bring
  <2>2. CASE x \in some
    <3>1. \A y \in some : y \in recs
      BY <1>3 DEF some
    <3>2. Bring(some, e, cloud[e])
      BY <1>8, <2>1, <2>2, <3>1 DEF Bring
    <3> QED
      BY <1>7, <2>2, <3>2
  <2>3. CASE x \notin some
    <3>1. store[e].synced = cloud[e].val
      BY <1>3, <2>1, <2>3 DEF Matches, some
    <3>2. cloud[e].val # None
      BY <1>2, <2>1 DEF Fetched
    <3>3. store[e].row # None
      BY <3>1, <3>2 DEF Accounted, Known
    <3>4. Entries(cloud[e].val) \subseteq Entries(store[e].row)
      BY <1>0, <3>1 DEF Sound, Agreed
    <3> QED
      BY <3>2, <3>3, <3>4 DEF Entries, Added
  <2> QED
    BY <2>2, <2>3
<1>9. \A e \in Combining : Insists(e, cloud[e], store[e], chan) => store[e].op # "none"
  BY DEF Insists
<1>10. \A k \in DOMAIN n : From(n[k].recs, Brought(Head(chan)))
  BY <1>2, <1>6, <1>7
<1>11. \A e \in Combining :
          /\ Insists(e, cloud[e], store[e], chan) =>
                 store[e].op # "none" \/ Added(cloud[e].val, store[e].row)
          /\ \/ store[e].synced \in {store[e].synced, None}
             \/ cloud[e].val # None /\ store[e].row # None
          /\ Head(chan).ev = "fetched" /\ Bring(Head(chan).recs, e, cloud[e]) =>
                 \/ Added(cloud[e].val, store[e].row)
                 \/ \E i \in DOMAIN n : Bring(n[i].recs, e, cloud[e])
  BY <1>8, <1>9 DEF recs
<1> QED
  BY <1>0, <1>1, <1>2, <1>5, <1>10, <1>11, TakenAccounted

(* Every handler but that of answers.                                       *)
LEMMA HandlersAccounted ==
    ASSUME Inv, Inv', Merging, Kept, Accounted, OnlyAdds, Handlers, ~OnSent
    PROVE  Accounted'
<1>0. /\ \A e \in Combining : e \in Entity /\ store[e] \in Stored
      /\ store \in [Entity -> Stored] /\ toApply \in Seq(Batch) /\ chan \in Seq(Event)
      /\ staleSeen = None
  BY CombiningTyped DEF Merging, Plain
<1>1. ASSUME NEW kind, Handles(kind)
      PROVE  /\ chan # <<>> /\ chan' = Tail(chan) /\ Head(chan).ev = kind
             /\ kind \notin {"sendfailed", "expired"}
  <2>1. chan # <<>> /\ chan' = Tail(chan) /\ Head(chan).ev = kind
    BY <1>1 DEF Handles
  <2>2. Head(chan) = chan[1] /\ 1 \in DOMAIN chan
    BY <1>0, <2>1, HeadTailProperties, LenProperties, EmptySeq
  <2> QED
    BY <2>1, <2>2 DEF Merging, Plain
<1>2. ASSUME NEW kind, kind # "fetched", Handles(kind), UNCHANGED <<cloud, engine>>,
             toApply' \in {toApply, toApply \o <<>>},
             NEW st \in [Entity -> Stored],
             \A e \in Combining : /\ st[e].synced = store[e].synced
                                  /\ store[e].op # "none" => st[e].op # "none",
             NEW again, NEW caught, Pump(st, inflight, again, caught, cmds),
             NEW p, NEW completed, NEW w, w = unapplied',
             \/ UNCHANGED <<ckpt, pendingState>>
             \/ /\ FlushState(w, p, completed)
                /\ p = pendingState \/ (Head(chan).ev = "state" /\ p = Head(chan).at)
      PROVE  Accounted'
  <2> DEFINE n == <<>>
  <2>1. n \in Seq(Batch) /\ toApply' = toApply \o n
    BY <1>0, <1>2, ConcatEmptySeq
  <2>2. \A k \in DOMAIN n : From(n[k].recs, Brought(Head(chan)))
    OBVIOUS
  <2> HIDE DEF n
  <2>3. \A e \in Combining :
           /\ Insists(e, cloud[e], store[e], chan) =>
                  st[e].op # "none" \/ Added(cloud[e].val, store[e].row)
           /\ \/ st[e].synced \in {store[e].synced, None}
              \/ cloud[e].val # None /\ store[e].row # None
           /\ Head(chan).ev = "fetched" /\ Bring(Head(chan).recs, e, cloud[e]) =>
                  \/ Added(cloud[e].val, store[e].row)
                  \/ \E i \in DOMAIN n : Bring(n[i].recs, e, cloud[e])
    BY <1>1, <1>2 DEF Insists
  <2> QED
    BY <1>1, <1>2, <2>1, <2>2, <2>3, TakenAccounted
<1>3. ASSUME OnState PROVE Accounted'
  <2> DEFINE caught == CaughtUp(unapplied, Head(chan).at, fetchCompleted)
             p == Head(chan).at
  <2>1. /\ Handles("state") /\ UNCHANGED <<toApply, engine, cloud, unapplied>>
        /\ FlushState(unapplied, p, fetchCompleted)
        /\ Pump(store, inflight, reconcileNeeded, caught, cmds)
    BY <1>3 DEF OnState
  <2>2. Head(chan).ev = "state" /\ p = Head(chan).at
    BY <1>1, <2>1
  <2> HIDE DEF caught, p
  <2> QED
    BY <1>0, <1>2, <2>1, <2>2
<1>4. ASSUME OnFetchComplete PROVE Accounted'
  <2> DEFINE caught == CaughtUp(unapplied, pendingState, TRUE)
             done == TRUE
  <2>1. /\ Handles("complete") /\ UNCHANGED <<engine, cloud>>
        /\ toApply' = toApply \o <<>> /\ unapplied' = unapplied + Len(<<>>)
        /\ FlushState(unapplied, pendingState, done)
        /\ Pump(store, inflight, reconcileNeeded, caught, cmds)
    BY <1>0, <1>4 DEF OnFetchComplete
  <2>2. unapplied' = unapplied
    <3>1. Len(<<>>) = 0 /\ unapplied \in Nat
      BY DEF Inv, TypeOK
    <3> QED
      BY <2>1, <3>1
  <2> HIDE DEF caught, done
  <2> QED
    BY <1>0, <1>2, <2>1, <2>2
<1>5. ASSUME OnError PROVE Accounted'
  <2>1. /\ Handles("error") /\ UNCHANGED <<toApply, engine, cloud, ckpt, pendingState>>
        /\ Pump(store, inflight, reconcileNeeded, caughtUp, cmds)
    BY <1>5 DEF OnError
  <2> QED
    BY <1>0, <1>2, <2>1
<1>6. ASSUME OnApplied PROVE Accounted'
  <2> DEFINE st == [e \in Entity |-> Release(store[e])]
             caught == CaughtUp(unapplied - 1, pendingState, fetchCompleted)
             w == unapplied - 1
  <2>1. /\ Handles("applied") /\ UNCHANGED <<toApply, engine, cloud>>
        /\ unapplied' = w
        /\ FlushState(w, pendingState, fetchCompleted)
        /\ Pump(st, inflight, reconcileNeeded, caught, cmds)
    BY <1>6 DEF OnApplied
  <2>2. st \in [Entity -> Stored]
    BY <1>0, OutboxStored
  <2>3. \A e \in Combining : st[e] = Release(store[e])
    BY <1>0
  <2> HIDE DEF st, caught, w
  <2>4. \A s \in Stored : Release(s).synced = s.synced /\ Release(s).op = s.op
    BY DEF Release, Stored
  <2> QED
    BY <1>0, <1>2, <2>1, <2>2, <2>3, <2>4
<1>7. ~OnExpired /\ ~OnSendFailed
  BY <1>1 DEF OnExpired, OnSendFailed
<1> QED
  BY <1>3, <1>4, <1>5, <1>6, <1>7, FetchedAccounted DEF Handlers

(* An edit is not dropped for an answer that is not about all the cloud     *)
(* has, or by which it has landed.                                          *)
LEMMA AnsweredInsists ==
    ASSUME TypeOK, OneUpload, NEW s \in Stored, NEW z \in CloudRecord, NEW r \in Result,
           r.e \in Combining, r.kind # "deleted", s.op # "none",
           s.tries < MaxMergeAttempts, Tracked(s),
           Entries(z.val) \subseteq Entries(r.rec.val),
           NEW i \in inflight, i.e = r.e, i.q = r.q, i.val # None, s.row # None,
           i.val \subseteq s.row, r.kind = "saved" => r.rec.val = i.val
    PROVE  Answered(s, r).op # "none" \/ Added(z.val, s.row)
<1> DEFINE t == Answered(s, r)
<1>1. Sent(r) = {i}
  BY DEF Sent, OneUpload
<1>2. r.rec.val = i.val => Added(z.val, s.row)
  BY DEF Added, Entries
<1>3. CASE r.kind = "saved"
  BY <1>2, <1>3
<1>4. CASE ~IsQueued(s, r.q) /\ r.kind # "saved"
  <2>1. t = s
    BY <1>4 DEF Answered, OnFailure, Result
  <2> QED
    BY <2>1
<1>5. \A w \in {"later", "merging"} : Fail(s, w).op = s.op
  BY DEF Fail, Stored
<1>6. \A g \in Nat : [s EXCEPT !.tag = g, !.wait = "now"].op = s.op
  BY DEF Stored
<1>7. CASE IsQueued(s, r.q) /\ r.kind = "retry"
  BY <1>5, <1>7 DEF Answered, OnFailure
<1>8. CASE IsQueued(s, r.q) /\ r.kind = "unknown"
  <2>1. t = [s EXCEPT !.tag = 0, !.wait = "now"]
    BY <1>8 DEF Answered, OnFailure
  <2> QED
    BY <1>6, <2>1
<1>9. CASE IsQueued(s, r.q) /\ r.kind = "conflict"
  <2>1. t = OnConflict(s, r)
    BY <1>9 DEF Answered, OnFailure
  <2>2. MergeFirst(r.e, s)
    BY DEF MergeFirst, Tracked, Stored
  <2>3. CASE Landed(r)
    BY <1>1, <1>2, <2>3 DEF Landed
  <2>4. CASE ~Landed(r) /\ SavesOver(s, r)
    <3>1. t = [s EXCEPT !.tag = r.rec.ver, !.wait = "now"] /\ r.rec.ver \in Nat
      BY <2>1, <2>4 DEF OnConflict, Result, CloudRecord
    <3> QED
      BY <1>6, <3>1
  <2>5. CASE ~Landed(r) /\ ~SavesOver(s, r)
    <3>1. t = Fail(s, "merging")
      BY <2>1, <2>2, <2>5 DEF OnConflict
    <3> QED
      BY <1>5, <3>1
  <2> QED
    BY <2>3, <2>4, <2>5
<1>10. r.kind \in {"saved", "deleted", "retry", "unknown", "conflict"}
  BY DEF Result
<1> QED
  BY <1>3, <1>4, <1>7, <1>8, <1>9, <1>10

(* The handler of answers (`on_sent`).                                      *)
LEMMA SentAccounted ==
    ASSUME Inv, Inv', Merging, Kept, Accounted, FewRefusals, OnSent
    PROVE  Accounted'
<1> DEFINE results == Answers(Head(chan))
<1>1. /\ chan # <<>> /\ chan' = Tail(chan) /\ Head(chan).ev = "sent"
      /\ results \in SUBSET Result /\ Brought(Head(chan)) = results
  BY SentPieces
<1>2. PICK n \in Seq(Batch), st \in [Entity -> Stored], flying \in SUBSET inflight :
          /\ toApply' = toApply \o n
          /\ Pump(st, flying, reconcileNeeded, caughtUp, cmds)
          /\ \A k \in DOMAIN n : /\ n[k].dels \cap Combining = {}
                                 /\ From(n[k].recs, Brought(Head(chan)))
          /\ \A r \in results : r.e \in Entity /\ st[r.e] = Answered(store[r.e], r)
          /\ \A e \in Entity : (\A r \in results : r.e # e) => st[e] = store[e]
          /\ \A i \in inflight : (\A r \in results : r.e # i.e) => i \in flying
  BY SentPieces
<1>3. UNCHANGED <<cloud, engine, ckpt, pendingState>>
  BY DEF OnSent
<1>4. 1 \in DOMAIN chan /\ Head(chan) = chan[1]
  BY <1>1, CombiningTyped, HeadTailProperties, LenProperties, EmptySeq
<1>5. ASSUME NEW r \in results, r.e \in Combining
      PROVE  /\ Insists(r.e, cloud[r.e], store[r.e], chan) =>
                    st[r.e].op # "none" \/ Added(cloud[r.e].val, store[r.e].row)
             /\ \/ st[r.e].synced \in {store[r.e].synced, None}
                \/ cloud[r.e].val # None /\ store[r.e].row # None
  <2>1. r \in Result /\ store[r.e] \in Stored /\ cloud[r.e] \in CloudRecord
    BY <1>1, <1>5, CombiningTyped
  <2>2. Sound(cloud[r.e], store[r.e]) /\ Undeleted(cloud[r.e])
    BY <1>5 DEF Merging, Rows
  <2>3. Fits(cloud[r.e], store[r.e], r.rec)
    BY <1>1, <1>4, <1>5 DEF Merging, Ways, Fitting, AllFit
  <2>4. PICK i \in inflight : i.e = r.e /\ i.q = r.q /\ (r.kind = "saved" => r.rec.val = i.val)
    BY <1>1, <1>4 DEF Merging, Uploads, Paired, Matched
  <2>5. i.val # None /\ store[r.e].row # None /\ i.val \subseteq store[r.e].row
    BY <1>5, <2>4 DEF Merging, Uploads, Asked
  <2>6. store[r.e].tries < MaxMergeAttempts
    BY <1>5 DEF FewRefusals
  <2>7. st[r.e] = Answered(store[r.e], r)
    BY <1>2
  <2>8. /\ r.kind # "deleted"
        /\ r.rec.val # None => cloud[r.e].val # None
    BY <1>1, <1>4, <1>5 DEF Accounted, Known, Named
  <2>9. ASSUME Insists(r.e, cloud[r.e], store[r.e], chan)
        PROVE  st[r.e].op # "none" \/ Added(cloud[r.e].val, store[r.e].row)
    <3>1. /\ store[r.e].op # "none"
          /\ Entries(cloud[r.e].val) \subseteq Entries(r.rec.val)
      BY <1>4, <2>9 DEF Insists
    <3> QED
      BY <1>5, <2>1, <2>2, <2>4, <2>5, <2>6, <2>7, <2>8, <3>1, AnsweredInsists DEF Inv, Sound
  <2>10. Learns(store[r.e], st[r.e], r.rec.val)
    BY <1>5, <2>1, <2>2, <2>3, <2>4, <2>5, <2>6, <2>7, AnsweredSound DEF Inv
  <2> QED
    BY <2>5, <2>8, <2>9, <2>10 DEF Learns
<1>6. ASSUME NEW e \in Combining
      PROVE  /\ Insists(e, cloud[e], store[e], chan) =>
                    st[e].op # "none" \/ Added(cloud[e].val, store[e].row)
             /\ \/ st[e].synced \in {store[e].synced, None}
                \/ cloud[e].val # None /\ store[e].row # None
  <2>1. CASE \A r \in results : r.e # e
    <3>1. st[e] = store[e]
      BY <1>2, <2>1, CombiningTyped
    <3> QED
      BY <3>1 DEF Insists
  <2>2. ASSUME NEW r \in results, r.e = e
        PROVE  /\ Insists(e, cloud[e], store[e], chan) =>
                      st[e].op # "none" \/ Added(cloud[e].val, store[e].row)
               /\ \/ st[e].synced \in {store[e].synced, None}
                  \/ cloud[e].val # None /\ store[e].row # None
    BY <1>5, <2>2
  <2> QED
    BY <2>1, <2>2
<1>7. \A e \in Combining :
         /\ Insists(e, cloud[e], store[e], chan) =>
                st[e].op # "none" \/ Added(cloud[e].val, store[e].row)
         /\ \/ st[e].synced \in {store[e].synced, None}
            \/ cloud[e].val # None /\ store[e].row # None
         /\ Head(chan).ev = "fetched" /\ Bring(Head(chan).recs, e, cloud[e]) =>
                \/ Added(cloud[e].val, store[e].row)
                \/ \E i \in DOMAIN n : Bring(n[i].recs, e, cloud[e])
  BY <1>1, <1>6
<1> QED
  BY <1>1, <1>2, <1>3, <1>7, TakenAccounted

(* A step of the store alone.                                               *)
LEMMA RowsAccounted ==
    ASSUME Kept, Accounted,
           UNCHANGED <<cloud, ckpt, cmds, pendingState, toApply, chan, engine>>,
           \A e \in Combining : /\ store'[e].synced = store[e].synced
                                /\ store[e].op # "none" => store'[e].op # "none"
    PROVE  Accounted'
<1>1. \A e \in Combining : Goes(e, cloud[e], store[e], store'[e], chan)
  BY DEF Goes, Insists, Kept
<1>2. Covers(cloud, store', ckpt, cmds, pendingState, toApply, chan, engine)
  BY <1>1, CoversGoes DEF Accounted, Covering
<1>3. Known(cloud, store', toApply, chan)
  BY AddedSame, KnownKept DEF Kept, Accounted
<1> QED
  BY <1>2, <1>3 DEF Accounted, Covering

(* A step of the zone alone.                                                *)
LEMMA ZoneAccounted ==
    ASSUME Inv, Inv', Merging, Plain', Accounted,
           UNCHANGED <<store, ckpt, cmds, pendingState, toApply, chan, engine>>,
           \A e \in Combining : Later(cloud[e], cloud'[e])
    PROVE  Accounted'
<1>1. /\ cloud \in [Entity -> CloudRecord] /\ cloud' \in [Entity -> CloudRecord]
      /\ ckpt \in Position /\ cmds \in Seq(Command) /\ chan \in Seq(Event)
      /\ pendingState \in {None} \cup Position /\ engine \in Position
      /\ \A e \in Combining : e \in Entity
  BY MacAssumption DEF Inv, TypeOK, Merging, Plain
<1>2. Covers(cloud', store, ckpt, cmds, pendingState, toApply, chan, engine)
  BY <1>1, CoversZone DEF Accounted, Covering
<1>3. \A e \in Combining : cloud[e] \in CloudRecord /\ cloud'[e] \in CloudRecord
  BY <1>1
<1>4. Known(cloud', store, toApply, chan)
  BY <1>3, AddedSame, LaterKeeps, KnownKept DEF Accounted
<1> QED
  BY <1>2, <1>4 DEF Accounted, Covering

(* Edits of this Mac and of the others.                                     *)
LEMMA UsersAccounted ==
    ASSUME Inv, Inv', Merging, Merging', Kept, Accounted, OnlyAdds, Users
    PROVE  Accounted'
<1>0. \A e \in Combining : e \in Entity /\ store[e] \in Stored /\ cloud[e] \in CloudRecord
  BY CombiningTyped
<1>1. ASSUME NEW e \in Entity, NEW v \in {None} \cup Payload, NEW now \in Times, Edit(e, v, now)
      PROVE  Accounted'
  <2>1. /\ MayBecome(Me, store[e].row, v)
        /\ store' = [store EXCEPT ![e] = Write(store[e], v, now)]
        /\ UNCHANGED <<ckpt, coreVars, pathVars, engine, cloud>>
    BY <1>1 DEF Edit
  <2>2. v \in Payload
    BY <2>1 DEF MayBecome, OnlyAdds
  <2>3. ASSUME NEW x \in Combining
        PROVE  /\ store'[x].synced = store[x].synced
               /\ store[x].op # "none" => store'[x].op # "none"
    <3>1. CASE x # e
      BY <1>0, <2>1, <3>1 DEF Inv, TypeOK
    <3>2. CASE x = e
      <4> DEFINE s == store[x]
                 u == [s EXCEPT !.row = v]
      <4>1. store'[x] = Write(s, v, now) /\ s \in Stored /\ now \in Nat /\ v # None
        BY <1>0, <2>1, <2>2, <3>2, MacAssumption, StoreAssumption DEF Inv, TypeOK
      <4>2. u \in Stored /\ u.synced = s.synced /\ u.op = s.op
        BY <2>2, <4>1 DEF Stored
      <4>3. Write(s, v, now) \in {s, u, QueueUpsert(u, now)}
        BY <4>1 DEF Write
      <4> HIDE DEF u, s
      <4>4. QueueUpsert(u, now).synced = s.synced /\ QueueUpsert(u, now).op = "upsert"
        BY <4>1, <4>2, QueuedFields DEF Same
      <4> QED
        BY <4>1, <4>2, <4>3, <4>4 DEF s
    <3> QED
      BY <3>1, <3>2
  <2> QED
    BY <2>1, <2>3, RowsAccounted DEF coreVars, pathVars
<1>2. ASSUME NEW e \in Entity, NEW v \in {None} \cup Payload, OldBuildWrites(e, v)
      PROVE  Accounted'
  <2>1. /\ store' = [store EXCEPT ![e] = [store[e] EXCEPT !.row = v]]
        /\ UNCHANGED <<ckpt, coreVars, pathVars, engine, cloud>>
    BY <1>2 DEF OldBuildWrites
  <2>2. ASSUME NEW x \in Combining
        PROVE  /\ store'[x].synced = store[x].synced
               /\ store[x].op # "none" => store'[x].op # "none"
    <3>1. store'[x] \in {store[x], [store[x] EXCEPT !.row = v]}
      BY <1>0, <2>1 DEF Inv, TypeOK
    <3>2. store[x] \in Stored
      BY <1>0
    <3> QED
      BY <3>1, <3>2 DEF Stored
  <2> QED
    BY <2>1, <2>2, RowsAccounted DEF coreVars, pathVars
<1>3. ASSUME NEW e \in Entity, NEW v \in Payload, NEW at \in Times,
             NEW rev \in cloud[e].rev .. cloud[e].rev + 1, PeerSaves(e, v, rev, at)
      PROVE  Accounted'
  <2> DEFINE next == [val |-> v, ver |-> cloud[e].ver + 1, rev |-> rev, at |-> at, dev |-> Peer]
  <2>1. /\ v # None /\ cloud' = [cloud EXCEPT ![e] = next]
        /\ UNCHANGED <<store, ckpt, coreVars, pathVars, engine>>
    BY <1>3 DEF PeerSaves
  <2>2. next.val = v /\ next.ver = cloud[e].ver + 1
    OBVIOUS
  <2> HIDE DEF next
  <2>3. ASSUME NEW x \in Combining PROVE Later(cloud[x], cloud'[x])
    <3>1. x \in Entity /\ cloud[x] \in CloudRecord
      BY <1>0
    <3>2. CASE x # e
      BY <2>1, <3>1, <3>2 DEF Later, Inv, TypeOK
    <3>3. CASE x = e
      <4>1. cloud'[x] = next
        BY <2>1, <3>1, <3>3 DEF Inv, TypeOK
      <4>2. cloud[x].ver + 1 > cloud[x].ver
        BY <3>1 DEF CloudRecord
      <4>3. Added(cloud[x].val, cloud'[x].val)
        BY DEF Kept
      <4> QED
        BY <2>1, <2>2, <3>3, <4>1, <4>2, <4>3 DEF Later
    <3> QED
      BY <3>2, <3>3
  <2> QED
    BY <2>1, <2>3, ZoneAccounted DEF coreVars, pathVars, Merging
<1>4. ~\E e \in Entity : PeerDeletes(e)
  BY DEF PeerDeletes, OnlyAdds
<1> QED
  BY <1>1, <1>2, <1>3, <1>4 DEF Users

(* A timer or the start of the program ends in `pump`.                      *)
LEMMA PumpAccounted ==
    ASSUME Inv, Merging, Kept, Accounted,
           UNCHANGED <<cloud, ckpt, pendingState, toApply, chan, engine>>,
           NEW st \in [Entity -> Stored], NEW flying, NEW again, NEW caught,
           NEW out \in Seq(Command), Pump(st, flying, again, caught, out),
           \A e \in Combining : /\ st[e].synced = store[e].synced
                                /\ store[e].op # "none" => st[e].op # "none",
           \A i \in DOMAIN out : out[i].cmd = "start" =>
               out[i].at = ckpt \/ \E j \in DOMAIN cmds : out[i] = cmds[j]
    PROVE  Accounted'
<1>1. \A e \in Combining : /\ Goes(e, cloud[e], store[e], store'[e], chan)
                           /\ store'[e].synced = store[e].synced
  BY PumpGoes DEF Insists
<1>2. Covers(cloud, store', ckpt, cmds, pendingState, toApply, chan, engine)
  BY <1>1, CoversGoes DEF Accounted, Covering
<1>3. Covers(cloud, store', ckpt, out, pendingState, toApply, chan, engine)
  BY <1>2 DEF Covers
<1>4. Covers(cloud, store', ckpt, cmds', pendingState, toApply, chan, engine)
  BY <1>3, PumpAsks, CoversAsked
<1>5. Known(cloud, store', toApply, chan)
  BY <1>1, AddedSame, KnownKept DEF Kept, Accounted
<1> QED
  BY <1>4, <1>5 DEF Accounted, Covering

(* The timers.                                                              *)
LEMMA TimersAccounted ==
    ASSUME Inv, Inv', Merging, Kept, Accounted, Timers
    PROVE  Accounted'
<1>0. /\ \A e \in Combining : /\ e \in Entity /\ store[e] \in Stored /\ Sound(cloud[e], store[e])
      /\ store \in [Entity -> Stored] /\ cmds \in Seq(Command)
  BY CombiningTyped DEF Merging, Rows
<1>1. ASSUME NEW now \in Times, Tick(now) PROVE Accounted'
  <2> DEFINE st == [e \in Entity |-> IF reconcileNeeded THEN Reconcile(store[e], now) ELSE store[e]]
             again == FALSE
  <2>1. /\ Pump(st, inflight, again, caughtUp, cmds)
        /\ UNCHANGED <<cloud, ckpt, pendingState, toApply, chan, engine>>
    BY <1>1 DEF Tick
  <2>2. now \in Nat
    BY MacAssumption
  <2>3. st \in [Entity -> Stored]
    BY <1>0, <2>2, ReconcileStored
  <2>4. ASSUME NEW e \in Combining
        PROVE  /\ st[e].synced = store[e].synced
               /\ store[e].op # "none" => st[e].op # "none"
    <3>1. st[e] = IF reconcileNeeded THEN Reconcile(store[e], now) ELSE store[e]
      BY <1>0
    <3>2. ~NeedsDelete(store[e])
      BY <1>0 DEF NeedsDelete, Sound, Tracked
    <3>3. st[e] \in {store[e], QueueUpsert(store[e], now)}
      BY <3>1, <3>2 DEF Reconcile
    <3>4. /\ QueueUpsert(store[e], now).synced = store[e].synced
          /\ QueueUpsert(store[e], now).op = "upsert"
      BY <1>0, <2>2, QueuedFields DEF Same
    <3> HIDE DEF st
    <3> QED
      BY <3>3, <3>4
  <2> HIDE DEF st, again
  <2> QED
    BY <1>0, <2>1, <2>3, <2>4, PumpAccounted
<1>2. ASSUME NEW overdue \in BOOLEAN
      PROVE  /\ WithFetch(cmds, overdue) \in Seq(Command)
             /\ \A i \in DOMAIN WithFetch(cmds, overdue) :
                   WithFetch(cmds, overdue)[i].cmd = "start" =>
                       \E j \in DOMAIN cmds : WithFetch(cmds, overdue)[i] = cmds[j]
  <2> DEFINE m == [cmd |-> "fetch"]
             out == WithFetch(cmds, overdue)
  <2>1. m \in Command /\ m.cmd = "fetch"
    BY DEF Command
  <2>2. out \in {cmds, Append(cmds, m)}
    BY DEF WithFetch
  <2> HIDE DEF m, out
  <2>3. Append(cmds, m) \in Seq(Command)
    BY <1>0, <2>1, AppendProperties
  <2>4. \A i \in DOMAIN Append(cmds, m) :
           Append(cmds, m)[i] = m \/ (i \in DOMAIN cmds /\ Append(cmds, m)[i] = cmds[i])
    BY <1>0, AppendProperties, LenProperties
  <2>5. out \in Seq(Command)
    BY <1>0, <2>2, <2>3
  <2>6. \A i \in DOMAIN out : out[i] = m \/ (i \in DOMAIN cmds /\ out[i] = cmds[i])
    BY <2>2, <2>4
  <2>7. ASSUME NEW i \in DOMAIN out, out[i].cmd = "start"
        PROVE  \E j \in DOMAIN cmds : out[i] = cmds[j]
    BY <2>1, <2>6, <2>7
  <2> QED
    BY <2>5, <2>7 DEF out
<1>3. ASSUME NEW overdue \in BOOLEAN, RequestSync(overdue) PROVE Accounted'
  <2> DEFINE again == TRUE
             out == WithFetch(cmds, overdue)
  <2>1. /\ Pump(store, inflight, again, caughtUp, out)
        /\ UNCHANGED <<cloud, ckpt, pendingState, toApply, chan, engine>>
    BY <1>3 DEF RequestSync
  <2>2. /\ out \in Seq(Command)
        /\ \A i \in DOMAIN out : out[i].cmd = "start" => \E j \in DOMAIN cmds : out[i] = cmds[j]
    BY <1>2
  <2> HIDE DEF again, out
  <2> QED
    BY <1>0, <2>1, <2>2, PumpAccounted
<1>4. ASSUME NEW overdue \in BOOLEAN, Poll(overdue) PROVE Accounted'
  <2>1. /\ cmds' = WithFetch(cmds, overdue)
        /\ UNCHANGED <<store, cloud, ckpt, pendingState, toApply, chan, engine>>
    BY <1>4 DEF Poll
  <2>2. Covers(cloud, store, ckpt, cmds', pendingState, toApply, chan, engine)
    BY <1>2, <2>1, CoversAsked DEF Accounted, Covering
  <2> QED
    BY <2>1, <2>2 DEF Accounted, Covering
<1>5. ASSUME NEW x \in Entity, RetryDue(x) PROVE Accounted'
  <2>1. /\ store' = [store EXCEPT ![x] = [store[x] EXCEPT !.wait = "now"]]
        /\ UNCHANGED <<cloud, ckpt, coreVars, pathVars, engine>>
    BY <1>5 DEF RetryDue
  <2>2. \A e \in Combining : store'[e] \in {store[e], [store[e] EXCEPT !.wait = "now"]}
    BY <1>0, <2>1
  <2>3. \A s \in Stored : /\ [s EXCEPT !.wait = "now"].synced = s.synced
                          /\ [s EXCEPT !.wait = "now"].op = s.op
    BY DEF Stored
  <2>4. \A e \in Combining : /\ store'[e].synced = store[e].synced
                             /\ store[e].op # "none" => store'[e].op # "none"
    BY <1>0, <2>2, <2>3
  <2> QED
    BY <2>1, <2>4, RowsAccounted DEF coreVars, pathVars
<1>6. ASSUME HoldOver PROVE Accounted'
  <2>1. UNCHANGED <<store, cloud, ckpt, cmds, pendingState, toApply, chan, engine>>
    BY <1>6 DEF HoldOver, pathVars
  <2> QED
    BY <2>1 DEF Accounted, Covering
<1> QED
  BY <1>1, <1>3, <1>4, <1>5, <1>6 DEF Timers

(* The program starts: the engine at the checkpoint, or at nothing.         *)
LEMMA LaunchAccounted ==
    ASSUME Inv, Merging, Kept, Accounted, OnlyAdds, NEW away \in BOOLEAN, Launch(away)
    PROVE  Accounted'
<1> DEFINE at == IF away THEN NoPosition ELSE ckpt
           a == [cmd |-> "start", at |-> at]
           b == [cmd |-> "fetch"]
           out == <<a, b>>
           flying == {}
           again == TRUE
           caught == FALSE
<1>1. /\ ~away /\ Pump(store, flying, again, caught, out)
      /\ UNCHANGED <<cloud, ckpt, pendingState, toApply, chan, engine>>
  BY DEF Launch, Fault, OnlyAdds
<1>2. a \in Command /\ a.cmd = "start" /\ a.at = ckpt /\ b \in Command /\ b.cmd = "fetch"
  BY <1>1 DEF Command, Inv, TypeOK
<1> HIDE DEF a, b
<1>3. /\ out \in Seq(Command)
      /\ \A i \in DOMAIN out : out[i] = a \/ out[i] = b
  BY <1>2
<1> HIDE DEF out, flying, again, caught
<1>4. \A i \in DOMAIN out : out[i].cmd = "start" => out[i].at = ckpt
  BY <1>2, <1>3
<1>5. store \in [Entity -> Stored]
  BY CombiningTyped
<1> QED
  BY <1>1, <1>3, <1>4, <1>5, PumpAccounted

(* The program ends: only the checkpoint on disk is left, which owes        *)
(* nothing that was in memory.                                              *)
LEMMA CrashAccounted ==
    ASSUME Inv, Merging, Accounted, Crash
    PROVE  Accounted'
<1>1. /\ toApply' = <<>> /\ cmds' = <<>> /\ chan' = <<>> /\ pendingState' = None
      /\ engine' = NoPosition /\ UNCHANGED <<store, ckpt, cloud>>
  BY DEF Crash
<1>2. Passed(cloud, store, <<>>, <<>>, ckpt, 0)
  <2> SUFFICES ASSUME NEW e \in Combining, Safe(e, cloud[e], store[e], <<>>, chan, 0)
               PROVE  Safe(e, cloud[e], store[e], <<>>, <<>>, 0)
    BY DEF Accounted, Covering, Covers, Passed
  <2>1. \A k \in DOMAIN chan : ~(k <= 0)
    BY CombiningTyped, LenProperties
  <2> QED
    BY <2>1 DEF Safe, Insists
<1>3. Passed(cloud, store, <<>>, <<>>, NoPosition, 0)
  <2> SUFFICES ASSUME NEW e \in Combining
               PROVE  /\ NoPosition.pos[e] <= cloud[e].ver
                      /\ NoPosition.pos[e] = cloud[e].ver => cloud[e].val = None
    BY DEF Passed, Safe, Added
  <2>1. NoPosition.pos[e] = 0 /\ cloud[e].ver \in Nat
    BY CombiningTyped DEF NoPosition, CloudRecord
  <2> QED
    BY <2>1 DEF Merging, Rows, Undeleted
<1>4. Len(<<>>) = 0
  OBVIOUS
<1>5. Covering'
  BY <1>1, <1>2, <1>3, <1>4 DEF Covering, Covers
<1>6. Known(cloud', store', toApply', chan')
  BY <1>1 DEF Accounted, Known
<1> QED
  BY <1>5, <1>6 DEF Accounted

(* The host applies the batch that waited longest.                          *)
LEMMA PassedApplied ==
    ASSUME NEW z, NEW st, NEW s, NEW b \in Seq(Batch), b # <<>>, NEW c, NEW p, NEW n,
           \A e \in Combining :
               /\ Goes(e, z[e], st[e], s[e], c)
               /\ Bring(Head(b).recs, e, z[e]) =>
                      Added(z[e].val, s[e].row) \/ Insists(e, z[e], s[e], c)
    PROVE  /\ Passed(z, st, b, c, p, n) => Passed(z, s, Tail(b), c, p, n)
           /\ Passed(z, st, <<>>, c, p, n) => Passed(z, s, <<>>, c, p, n)
<1> DEFINE a == Tail(b)
<1>1. /\ Len(b) \in Nat \ {0} /\ DOMAIN b = 1 .. Len(b) /\ DOMAIN a = 1 .. Len(b) - 1
      /\ \A k \in DOMAIN a : a[k] = b[k + 1]
      /\ Head(b) = b[1]
  BY HeadTailProperties, LenProperties, EmptySeq
<1>2. \A k \in DOMAIN b : k = 1 \/ (k - 1 \in DOMAIN a /\ a[k - 1] = b[k])
  <2> HIDE DEF a
  <2> QED
    BY <1>1
<1> HIDE DEF a
<1>3. ASSUME NEW e \in Combining, Safe(e, z[e], st[e], b, c, n)
      PROVE  Safe(e, z[e], s[e], a, c, n)
  <2>1. CASE Added(z[e].val, st[e].row)
    BY <2>1, AddedOn DEF Goes, Safe
  <2>2. CASE Insists(e, z[e], st[e], c)
    BY <2>2 DEF Goes, Safe, Insists
  <2>3. ASSUME NEW k \in DOMAIN b, Bring(b[k].recs, e, z[e])
        PROVE  Safe(e, z[e], s[e], a, c, n)
    <3>1. CASE k = 1
      BY <1>1, <2>3, <3>1 DEF Safe
    <3>2. CASE k - 1 \in DOMAIN a /\ a[k - 1] = b[k]
      BY <2>3, <3>2 DEF Safe
    <3> QED
      BY <1>2, <3>1, <3>2
  <2> QED
    BY <1>3, <2>1, <2>2, <2>3 DEF Safe
<1>4. Passed(z, st, b, c, p, n) => Passed(z, s, a, c, p, n)
  BY <1>3 DEF Passed
<1> QED
  BY <1>4, PassedGoes DEF a

(* More events may bring it.                                                *)
LEMMA PassedLonger ==
    ASSUME NEW z, NEW st, NEW b, NEW c \in Seq(Event), NEW p, NEW n \in Nat, NEW m \in Nat,
           n <= m, Passed(z, st, b, c, p, n)
    PROVE  Passed(z, st, b, c, p, m)
<1>1. \A k \in DOMAIN c : k <= n => k <= m
  BY LenProperties
<1>2. ASSUME NEW e \in Combining, Safe(e, z[e], st[e], b, c, n)
      PROVE  Safe(e, z[e], st[e], b, c, m)
  BY <1>1, <1>2 DEF Safe
<1> QED
  BY <1>2 DEF Passed

(* What the merge leaves of a fetched version: all of it, unless the row is *)
(* ahead of it in revisions and the record is ignored.                      *)
LEMMA AppliedHas ==
    ASSUME NEW e \in Combining, NEW z \in CloudRecord, NEW s \in Stored,
           NEW r \in CloudRecord, NEW now \in Nat, r.val # None, Sound(z, s), Fits(z, s, r)
    PROVE  LET t == ApplyRecord(e, s, r, now)
           IN  /\ s.op # "none" => t.op # "none"
               /\ t.row # None
               /\ \/ t = s /\ s.rev > r.rev
                  \/ Added(r.val, t.row)
<1> DEFINE v == MergedValue(e, s, r, now)
           w == Link(e, s, r)
           t == ApplyRecord(e, s, r, now)
<1>1. CASE Outdated(s, r)
  BY <1>1 DEF ApplyRecord, Outdated
<1>2. CASE ~Outdated(s, r)
  <2>1. v \in Payload /\ Added(s.row, v) /\ r.val \subseteq v /\ v # None
    BY MergeAdds, StoreAssumption DEF Sound, Fits, Tracked
  <2>2. w \in Stored
    BY DEF Link, Stored, CloudRecord, Larger
  <2>3. w.op = s.op /\ ~w.gone /\ w.op # "delete"
    BY DEF Link, Stored, Sound, Tracked
  <2>4. t = Write(w, v, now)
    BY <1>2 DEF ApplyRecord
  <2> DEFINE u == [w EXCEPT !.row = v]
  <2>5. u \in Stored /\ u.op = w.op
    BY <2>1, <2>2 DEF Stored
  <2>6. t \in {w, u, QueueUpsert(u, now)}
    BY <2>1, <2>4 DEF Write
  <2> HIDE DEF v, w, t, u
  <2>7. QueueUpsert(u, now).op = "upsert"
    BY <2>5, QueuedFields
  <2>8. t.row = v
    BY <2>1, <2>2, <2>3, <2>4, WriteFields
  <2> QED
    BY <2>1, <2>3, <2>5, <2>6, <2>7, <2>8 DEF Added, t
<1> QED
  BY <1>1, <1>2

(* The host applies a batch (`Apply`).                                      *)
LEMMA ApplyAccounted ==
    ASSUME Inv, Inv', Merging, Kept, Accounted, OlderHasNoMore, NEW now \in Times, Apply(now)
    PROVE  Accounted'
<1> DEFINE ack == [ev |-> "applied"]
           b == Head(toApply)
           n == <<ack>>
<1>1. /\ toApply # <<>>
      /\ store' = [e \in Entity |-> Applied(b, e, now)]
      /\ toApply' = Tail(toApply)
      /\ chan' = Append(chan, ack)
      /\ UNCHANGED <<ckpt, pendingState, cmds, engine, cloud>>
  BY DEF Apply, coreVars
<1>2. /\ toApply \in Seq(Batch) /\ chan \in Seq(Event) /\ now \in Nat
      /\ \A e \in Combining : /\ e \in Entity /\ store[e] \in Stored /\ cloud[e] \in CloudRecord
                              /\ store'[e] = Applied(b, e, now)
  BY <1>1, CombiningTyped, MacAssumption
<1>3. /\ b \in Batch /\ 1 \in DOMAIN toApply /\ b = toApply[1]
      /\ \A k \in DOMAIN Tail(toApply) : /\ k + 1 \in DOMAIN toApply
                                         /\ Tail(toApply)[k] = toApply[k + 1]
  <2>1. /\ Len(toApply) \in Nat \ {0} /\ DOMAIN toApply = 1 .. Len(toApply)
        /\ DOMAIN Tail(toApply) = 1 .. Len(toApply) - 1
        /\ \A k \in DOMAIN Tail(toApply) : Tail(toApply)[k] = toApply[k + 1]
        /\ b = toApply[1] /\ b \in Batch
    BY <1>1, <1>2, HeadTailProperties, LenProperties, EmptySeq
  <2> HIDE DEF b
  <2> QED
    BY <2>1
<1>4. ack \in Event /\ ack.ev = "applied" /\ Brought(ack) = {} /\ Answers(ack) = {}
  BY DEF Event, Brought, Answers
<1> HIDE DEF ack, b
<1>5. /\ n \in Seq(Event) /\ chan' = chan \o n /\ \A k \in DOMAIN n : n[k] = ack
  BY <1>1, <1>2, <1>4, AppendIsConcat
<1> HIDE DEF n
<1>6. ASSUME NEW e \in Combining
      PROVE  /\ Goes(e, cloud[e], store[e], store'[e], chan)
             /\ Bring(b.recs, e, cloud[e]) =>
                    \/ Added(cloud[e].val, store'[e].row)
                    \/ Insists(e, cloud[e], store'[e], chan)
             /\ \/ store'[e].synced \in {store[e].synced, None}
                \/ cloud[e].val # None /\ store'[e].row # None
  <2> DEFINE recs == {x \in b.recs : x.e = e}
             x == CHOOSE x \in recs : TRUE
  <2>1. Sound(cloud[e], store[e])
    BY DEF Merging, Rows
  <2>2. CASE recs # {}
    <3>1. x \in b.recs /\ x.e = e
      BY <2>2
    <3>2. store'[e] = ApplyRecord(e, store[e], x.rec, now)
      BY <1>2, <2>2 DEF Applied
    <3> HIDE DEF x
    <3>3. x.rec \in CloudRecord /\ x.rec.val # None
      BY <1>3, <3>1 DEF Batch, Fetched
    <3>4. Fits(cloud[e], store[e], x.rec)
      BY <1>3, <3>1 DEF Merging, Ways, Fitting, AllFit
    <3>5. /\ store[e].op # "none" => store'[e].op # "none"
          /\ store'[e].row # None
          /\ \/ store'[e] = store[e] /\ store[e].rev > x.rec.rev
             \/ Added(x.rec.val, store'[e].row)
      BY <1>2, <2>1, <3>2, <3>3, <3>4, AppliedHas
    <3>6. cloud[e].val # None
      BY <1>3, <3>1, <3>3 DEF Accounted, Known, Named
    <3>7. Goes(e, cloud[e], store[e], store'[e], chan)
      BY <3>5 DEF Goes, Insists, Kept
    <3>8. ASSUME Bring(b.recs, e, cloud[e]), ~Added(cloud[e].val, store'[e].row)
          PROVE  Insists(e, cloud[e], store'[e], chan)
      <4>1. x.rec = cloud[e]
        BY <3>1, <3>8 DEF Bring
      <4>2. store'[e] = store[e] /\ store[e].rev > cloud[e].rev
        BY <3>5, <3>8, <4>1
      <4>3. store[e].op # "none"
        <5>1. store[e].rev \in Nat /\ cloud[e].rev \in Nat
          BY <1>2 DEF Stored, CloudRecord
        <5> QED
          BY <3>8, <4>2, <5>1 DEF OlderHasNoMore
      <4>4. ASSUME NEW k \in DOMAIN chan, NEW r \in Answers(chan[k]), r.e = e
            PROVE  Entries(cloud[e].val) \subseteq Entries(r.rec.val)
        <5>1. r \in Brought(chan[k])
          BY DEF Answers, Brought
        <5>2. Under(b.recs, Brought(chan[k]))
          BY <1>3 DEF Merging, Ways, Sorted
        <5> QED
          BY <3>1, <4>1, <4>4, <5>1, <5>2 DEF Under
      <4> QED
        BY <4>2, <4>3, <4>4 DEF Insists
    <3> QED
      BY <3>5, <3>6, <3>7, <3>8
  <2>3. CASE recs = {}
    <3>1. e \notin b.dels
      BY <1>3 DEF Merging, Plain
    <3>2. store'[e] = store[e]
      BY <1>2, <2>3, <3>1 DEF Applied
    <3>3. ~Bring(b.recs, e, cloud[e])
      BY <2>3 DEF Bring
    <3> QED
      BY <3>2, <3>3, AddedSame DEF Goes, Insists
  <2> QED
    BY <2>2, <2>3
<1>7. Covers(cloud, store', ckpt, cmds, pendingState, Tail(toApply), chan, engine)
  <2>1. \A p, m : /\ Passed(cloud, store, toApply, chan, p, m) =>
                        Passed(cloud, store', Tail(toApply), chan, p, m)
                  /\ Passed(cloud, store, <<>>, chan, p, m) =>
                        Passed(cloud, store', <<>>, chan, p, m)
    BY <1>1, <1>2, <1>6, PassedApplied DEF b
  <2> QED
    BY <2>1 DEF Accounted, Covering, Covers
<1>8. Covers(cloud, store', ckpt, cmds, pendingState, Tail(toApply), chan \o n, engine)
  <2>1. \A i \in DOMAIN n : Answers(n[i]) = {} /\ n[i].ev # "state"
    BY <1>4, <1>5
  <2>2. Passed(cloud, store', Tail(toApply), chan \o n, engine, Len(chan) + Len(n))
    <3> DEFINE a == Tail(toApply)
    <3>1. Passed(cloud, store', a, chan, engine, Len(chan)) /\ Len(chan) \in Nat /\ Len(n) \in Nat
      BY <1>2, <1>5, <1>7, LenProperties DEF Covers
    <3> HIDE DEF a
    <3>2. Passed(cloud, store', a, chan \o n, engine, Len(chan))
      BY <1>2, <1>5, <2>1, <3>1, PassedEmitted
    <3>3. chan \o n \in Seq(Event) /\ Len(chan) <= Len(chan) + Len(n)
          /\ Len(chan) + Len(n) \in Nat
      BY <1>2, <1>5, <3>1, ConcatProperties
    <3>4. Passed(cloud, store', a, chan \o n, engine, Len(chan) + Len(n))
      BY <3>1, <3>2, <3>3, PassedLonger
    <3> QED
      BY <3>4 DEF a
  <2> QED
    BY <1>2, <1>5, <1>7, <2>1, <2>2, CoversEmitted
<1>9. Known(cloud, store', Tail(toApply), chan \o n)
  <2>1. Known(cloud, store', toApply, chan)
    BY <1>6, AddedSame, KnownKept DEF Kept, Accounted
  <2>2. Known(cloud, store', Tail(toApply), chan)
    BY <1>3, <2>1 DEF Known
  <2>3. \A i \in DOMAIN n : Brought(n[i]) = {} /\ Answers(n[i]) = {}
    BY <1>4, <1>5
  <2> QED
    BY <1>2, <1>5, <2>2, <2>3, KnownEmitted
<1> QED
  BY <1>1, <1>5, <1>8, <1>9 DEF Accounted, Covering

(* The position after a page of changes covers what the page brought, what  *)
(* the engine had passed before and what is not there.                      *)
LEMMA AdvancePassed ==
    ASSUME Inv, Merging, Accounted, NEW page \in SUBSET Changed,
           NEW at, at = page \/ (at = Entity /\ page = Changed),
           NEW m \in Seq(Event), \A i \in DOMAIN m : Answers(m[i]) = {},
           NEW j \in Nat,
           page # {} => 1 \in DOMAIN m /\ m[1] = FetchedPage(page) /\ 1 <= j
    PROVE  Passed(cloud, store, toApply, chan \o m, Advance(at), Len(chan) + j)
<1> DEFINE c == chan \o m
           n == Len(chan) + j
           p == Advance(at)
<1>1. /\ chan \in Seq(Event) /\ engine \in Position /\ page \in SUBSET Entity
      /\ \A e \in Combining : e \in Entity /\ cloud[e] \in CloudRecord /\ engine.pos[e] \in Nat
  BY CombiningTyped DEF Inv, TypeOK, Merging, Plain, Position, Changed
<1>2. /\ Len(chan) \in Nat /\ n \in Nat /\ Len(chan) <= n /\ c \in Seq(Event)
      /\ page # {} => /\ Len(chan) + 1 \in DOMAIN c /\ Len(chan) + 1 <= n
                      /\ c[Len(chan) + 1] = FetchedPage(page)
  <2>1. /\ Len(chan) \in Nat /\ Len(m) \in Nat /\ c \in Seq(Event)
        /\ DOMAIN m = 1 .. Len(m) /\ DOMAIN c = 1 .. Len(chan) + Len(m)
        /\ \A k \in DOMAIN c : c[k] = IF k <= Len(chan) THEN chan[k] ELSE m[k - Len(chan)]
    BY <1>1, ConcatProperties, LenProperties
  <2> HIDE DEF c
  <2>2. page # {} => /\ Len(chan) + 1 \in DOMAIN c /\ ~(Len(chan) + 1 <= Len(chan))
                     /\ (Len(chan) + 1) - Len(chan) = 1
    BY <2>1
  <2>3. page # {} => c[Len(chan) + 1] = FetchedPage(page)
    BY <2>1, <2>2
  <2> QED
    BY <2>1, <2>2, <2>3
<1>3. Passed(cloud, store, toApply, c, engine, n)
  <2>1. Passed(cloud, store, toApply, chan, engine, Len(chan))
    BY DEF Accounted, Covering, Covers
  <2> HIDE DEF n
  <2>2. Passed(cloud, store, toApply, c, engine, Len(chan))
    BY <1>1, <1>2, <2>1, PassedEmitted
  <2> HIDE DEF c
  <2> QED
    BY <1>2, <2>2, PassedLonger
<1>4. \A e \in Entity :
         p.pos[e] = IF e \in at \/ (engine.nil /\ cloud[e].val = None)
                    THEN cloud[e].ver ELSE engine.pos[e]
  BY DEF Advance
<1> HIDE DEF c, n, p
<1>5. ASSUME NEW e \in Combining
      PROVE  /\ p.pos[e] <= cloud[e].ver
             /\ p.pos[e] = cloud[e].ver => Safe(e, cloud[e], store[e], toApply, c, n)
  <2>1. /\ e \in Entity /\ cloud[e].ver \in Nat /\ engine.pos[e] \in Nat
        /\ engine.pos[e] <= cloud[e].ver
        /\ engine.pos[e] = cloud[e].ver => Safe(e, cloud[e], store[e], toApply, c, n)
    BY <1>1, <1>3 DEF Passed, CloudRecord
  <2>2. CASE cloud[e].val = None
    <3>1. Safe(e, cloud[e], store[e], toApply, c, n)
      BY <2>2 DEF Safe, Added
    <3> QED
      BY <1>4, <2>1, <3>1
  <2>3. CASE e \in page /\ cloud[e].val # None
    <3> DEFINE y == FetchedPage(page)
               x == [e |-> e, rec |-> cloud[e]]
    <3>1. y.ev = "fetched"
          /\ y.recs = {[e |-> d, rec |-> cloud[d]] : d \in {d \in page : cloud[d].val # None}}
      BY DEF FetchedPage
    <3>2. x \in y.recs /\ x.e = e
      BY <2>3, <3>1
    <3>3. \A d \in y.recs : d.e = e => d.rec = cloud[e]
      BY <3>1
    <3> HIDE DEF y, x
    <3>4. Bring(y.recs, e, cloud[e])
      BY <3>2, <3>3 DEF Bring
    <3>5. Safe(e, cloud[e], store[e], toApply, c, n)
      BY <1>2, <2>3, <3>1, <3>4 DEF Safe, y
    <3> QED
      BY <1>4, <2>1, <3>5
  <2>4. CASE e \notin page /\ cloud[e].val # None
    <3>1. e \in at => ~(cloud[e].ver > engine.pos[e])
      BY <2>1, <2>4 DEF Changed
    <3>2. p.pos[e] = cloud[e].ver => engine.pos[e] = cloud[e].ver
      BY <1>4, <2>1, <2>4, <3>1
    <3> QED
      BY <1>4, <2>1, <3>2
  <2> QED
    BY <2>2, <2>3, <2>4
<1> QED
  BY <1>5 DEF Passed, c, n, p

(* What is left of a queue was in it.                                       *)
LEMMA TailFrom ==
    ASSUME NEW S, NEW q \in Seq(S), q # <<>>
    PROVE  \A i \in DOMAIN Tail(q) : \E j \in DOMAIN q : Tail(q)[i] = q[j]
<1>1. /\ Len(q) \in Nat \ {0} /\ DOMAIN q = 1 .. Len(q) /\ DOMAIN Tail(q) = 1 .. Len(q) - 1
      /\ \A i \in DOMAIN Tail(q) : Tail(q)[i] = q[i + 1]
  BY HeadTailProperties, LenProperties, EmptySeq
<1>2. \A i \in DOMAIN Tail(q) : i + 1 \in DOMAIN q
  BY <1>1
<1> QED
  BY <1>1, <1>2

(* A fetch, complete or not: the page, the position behind it, the end.     *)
LEMMA FetchesAccounted ==
    ASSUME Inv, Inv', Merging, Accounted, NEW page \in SUBSET Changed,
           NEW kind \in {"complete", "error"}, Runs("fetch"),
           NEW at, at = page \/ (at = Entity /\ page = Changed), at \in SUBSET Entity,
           engine' = Advance(at) \/ (page = {} /\ engine' = engine),
           chan' = chan \o ((IF page = {} THEN <<>> ELSE << FetchedPage(page), StateAt(at) >>)
                            \o << [ev |-> kind] >>),
           UNCHANGED <<store, coreVars, toApply, cloud, ckpt>>
    PROVE  Accounted'
<1> DEFINE a == FetchedPage(page)
           b == StateAt(at)
           z == [ev |-> kind]
<1>1. /\ cmds # <<>> /\ cmds' = Tail(cmds)
      /\ UNCHANGED <<store, cloud, ckpt, pendingState, toApply>>
      /\ cmds \in Seq(Command) /\ chan \in Seq(Event)
  BY CombiningTyped DEF Runs, coreVars
<1>2. engine # None /\ page \in SUBSET Entity
  BY DEF Merging, Plain, Changed
<1>3. /\ a \in Event /\ a.ev = "fetched" /\ b \in Event /\ b.ev = "state" /\ b.at = Advance(at)
      /\ z \in Event /\ z.ev = kind
  BY <1>2, PageTyped DEF Event, Inv, StateAt
<1>4. \A x \in a.recs : x.rec = cloud[x.e]
  BY PageKeeps
<1> HIDE DEF a, b, z
<1>5. PICK m : /\ chan' = chan \o m
               /\ m = IF page = {} THEN <<z>> ELSE <<a, b, z>>
  <2>1. <<>> \o <<z>> = <<z>> /\ <<a, b>> \o <<z>> = <<a, b, z>>
    BY <1>3, PairConcat
  <2>2. chan' = chan \o ((IF page = {} THEN <<>> ELSE <<a, b>>) \o <<z>>)
    BY DEF a, b, z
  <2>3. CASE page = {}
    BY <2>1, <2>2, <2>3
  <2>4. CASE page # {}
    BY <2>1, <2>2, <2>4
  <2> QED
    BY <2>3, <2>4
<1>6. /\ m \in Seq(Event)
      /\ \A k \in DOMAIN m : m[k] = z \/ (page # {} /\ ((m[k] = a /\ k = 1) \/ (m[k] = b /\ k = 2)))
      /\ page # {} => 1 \in DOMAIN m /\ m[1] = a
  <2>1. CASE page = {}
    BY <1>3, <1>5, <2>1
  <2>2. CASE page # {}
    <3>1. m = <<a, b, z>>
      BY <1>5, <2>2
    <3>2. m \in Seq(Event) /\ DOMAIN m = {1, 2, 3} /\ m[1] = a /\ m[2] = b /\ m[3] = z
      BY <1>3, <3>1
    <3> QED
      BY <2>2, <3>2
  <2> QED
    BY <2>1, <2>2
<1>7. \A k \in DOMAIN m : /\ Answers(m[k]) = {}
                          /\ \A x \in Brought(m[k]) : x.rec = cloud[x.e]
                          /\ m[k].ev = "state" => page # {} /\ k = 2 /\ m[k].at = Advance(at)
  <2> SUFFICES ASSUME NEW k \in DOMAIN m
               PROVE  /\ Answers(m[k]) = {}
                      /\ \A x \in Brought(m[k]) : x.rec = cloud[x.e]
                      /\ m[k].ev = "state" => page # {} /\ k = 2 /\ m[k].at = Advance(at)
    OBVIOUS
  <2>1. m[k] = z \/ (page # {} /\ m[k] = a) \/ (page # {} /\ m[k] = b /\ k = 2)
    BY <1>6
  <2>2. Answers(z) = {} /\ Answers(a) = {} /\ Answers(b) = {}
    BY <1>3 DEF Answers
  <2>3. Brought(z) = {} /\ Brought(a) = a.recs /\ Brought(b) = {}
    BY <1>3 DEF Brought
  <2> QED
    BY <1>3, <1>4, <2>1, <2>2, <2>3
<1>8. Len(chan) \in Nat /\ Len(m) \in Nat /\ (page # {} => 1 <= Len(m))
  <2>1. Len(chan) \in Nat /\ Len(m) \in Nat /\ DOMAIN m = 1 .. Len(m)
    BY <1>1, <1>6, LenProperties
  <2> QED
    BY <1>6, <2>1
<1>9. Passed(cloud, store, toApply, chan \o m, engine', Len(chan) + Len(m))
  <2>1. CASE engine' = Advance(at)
    BY <1>6, <1>7, <1>8, <2>1, AdvancePassed DEF a
  <2>2. CASE page = {} /\ engine' = engine
    <3>1. Passed(cloud, store, toApply, chan, engine, Len(chan)) /\ Len(chan) <= Len(chan)
      BY <1>8 DEF Accounted, Covering, Covers
    <3>2. Passed(cloud, store, toApply, chan \o m, engine, Len(chan))
      BY <1>1, <1>6, <1>7, <1>8, <3>1, PassedEmitted
    <3>3. /\ chan \o m \in Seq(Event) /\ Len(chan) + Len(m) \in Nat
          /\ Len(chan) <= Len(chan) + Len(m)
      BY <1>1, <1>6, <1>8, ConcatProperties
    <3> QED
      BY <1>8, <2>2, <3>2, <3>3, PassedLonger
  <2> QED
    BY <2>1, <2>2
<1>10. ASSUME NEW k \in DOMAIN m, m[k].ev = "state"
       PROVE  Passed(cloud, store, toApply, chan \o m, m[k].at, Len(chan) + k - 1)
  <2>1. page # {} /\ k = 2 /\ m[k].at = Advance(at)
    BY <1>7, <1>10
  <2> DEFINE j == 1
  <2>2. j \in Nat /\ 1 <= j /\ Len(chan) + k - 1 = Len(chan) + j
    BY <1>8, <2>1
  <2> HIDE DEF j
  <2>3. Passed(cloud, store, toApply, chan \o m, Advance(at), Len(chan) + j)
    BY <1>6, <1>7, <2>1, <2>2, AdvancePassed DEF a
  <2> QED
    BY <2>1, <2>2, <2>3
<1>11. Covers(cloud, store, ckpt, cmds, pendingState, toApply, chan \o m, engine')
  BY <1>1, <1>6, <1>7, <1>9, <1>10, CoversEmitted DEF Accounted, Covering
<1>12. Covers(cloud, store, ckpt, cmds', pendingState, toApply, chan \o m, engine')
  <2>1. \A i \in DOMAIN Tail(cmds) : \E l \in DOMAIN cmds : Tail(cmds)[i] = cmds[l]
    <3>1. /\ Len(cmds) \in Nat \ {0} /\ DOMAIN cmds = 1 .. Len(cmds)
          /\ DOMAIN Tail(cmds) = 1 .. Len(cmds) - 1
          /\ \A i \in DOMAIN Tail(cmds) : Tail(cmds)[i] = cmds[i + 1]
      BY <1>1, HeadTailProperties, LenProperties, EmptySeq
    <3>2. \A i \in DOMAIN Tail(cmds) : i + 1 \in DOMAIN cmds
      BY <3>1
    <3> QED
      BY <3>1, <3>2
  <2> QED
    BY <1>1, <1>11, <2>1, CoversAsked
<1>13. Known(cloud, store, toApply, chan \o m)
  BY <1>1, <1>6, <1>7, KnownEmitted DEF Accounted
<1> QED
  BY <1>1, <1>5, <1>12, <1>13 DEF Accounted, Covering

(* A send: what it saved is what the row has, so that the engine may pass   *)
(* it.                                                                      *)
LEMMA SendAccounted ==
    ASSUME Inv, Inv', Merging, Merging', Accounted,
           NEW flaky \in SUBSET Entity, NEW told \in SUBSET Entity, EngineSend(flaky, told)
    PROVE  Accounted'
<1>1. /\ cloud \in [Entity -> CloudRecord] /\ cloud' \in [Entity -> CloudRecord]
      /\ ckpt \in Position /\ cmds \in Seq(Command) /\ chan \in Seq(Event)
      /\ pendingState \in {None} \cup Position /\ engine \in Position
      /\ \A e \in Combining : /\ e \in Entity /\ store[e] \in Stored
                              /\ cloud[e] \in CloudRecord /\ cloud'[e] \in CloudRecord
  BY MacAssumption DEF Inv, TypeOK, Merging, Plain
<1>2. PICK results \in SUBSET Result :
              /\ IsFiniteSet(results)
              /\ chan' = chan \o << [ev |-> "sent", results |-> results] >>
              /\ \A r \in results : \E c \in Offers(Head(cmds)) :
                    /\ c.e = r.e /\ c.q = r.q
                    /\ r.kind = "saved" => r.rec.val = c.val
                    /\ r.kind = "deleted" => c.val = None
              /\ \A r, y \in results : r.e = y.e => r = y
              /\ \A e \in Combining : Later(cloud[e], cloud'[e])
              /\ \A r \in results : r.e \in Combining => r.rec = cloud'[r.e]
              /\ engine' \in Position
              /\ \A e \in Entity :
                    \/ engine'.pos[e] = engine.pos[e]
                    \/ /\ engine'.pos[e] = cloud'[e].ver
                       /\ \E r \in results : r.e = e /\ r.kind \in {"saved", "deleted"}
  BY <1>1, SendPieces
<1>3. /\ cmds # <<>> /\ cmds' = Tail(cmds)
      /\ UNCHANGED <<store, ckpt, pendingState, toApply, inflight>>
  BY DEF EngineSend, Runs, coreVars
<1>4. 1 \in DOMAIN cmds /\ Head(cmds) = cmds[1]
  BY <1>1, <1>3, HeadTailProperties, LenProperties, EmptySeq
<1> DEFINE sent == [ev |-> "sent", results |-> results]
           m == <<sent>>
<1>5. /\ sent \in Event /\ sent.ev = "sent" /\ Brought(sent) = results /\ Answers(sent) = results
  BY <1>2 DEF Event, FiniteSubset, Brought, Answers
<1> HIDE DEF sent
<1>6. m \in Seq(Event) /\ Len(m) = 1 /\ \A i \in DOMAIN m : m[i] = sent
  BY <1>5
<1>7. chan' = chan \o m
  BY <1>2 DEF sent
<1> HIDE DEF m
<1>8. Covers(cloud', store, ckpt, cmds, pendingState, toApply, chan, engine)
  BY <1>1, <1>2, CoversZone DEF Accounted, Covering
<1>9. Len(chan) \in Nat /\ Len(chan) <= Len(chan) + Len(m) /\ Len(chan) + Len(m) \in Nat
      /\ chan \o m \in Seq(Event)
  BY <1>1, <1>6, LenProperties, ConcatProperties
<1>10. \A i \in DOMAIN m : /\ \A r \in Answers(m[i]) : r.e \in Combining =>
                                 Entries(cloud'[r.e].val) \subseteq Entries(r.rec.val)
                           /\ m[i].ev # "state"
  BY <1>2, <1>5, <1>6
<1>11. Passed(cloud', store, toApply, chan \o m, engine', Len(chan) + Len(m))
  <2>1. Passed(cloud', store, toApply, chan \o m, engine, Len(chan) + Len(m))
    <3>1. Passed(cloud', store, toApply, chan, engine, Len(chan)) /\ Len(chan) <= Len(chan)
      BY <1>8, <1>9 DEF Covers
    <3>2. Passed(cloud', store, toApply, chan \o m, engine, Len(chan))
      BY <1>1, <1>6, <1>9, <1>10, <3>1, PassedEmitted
    <3> QED
      BY <1>9, <3>2, PassedLonger
  <2>2. ASSUME NEW e \in Combining,
               engine'.pos[e] = cloud'[e].ver,
               NEW r \in results, r.e = e, r.kind \in {"saved", "deleted"}
        PROVE  Added(cloud'[e].val, store[e].row)
    <3>1. PICK c \in Offers(cmds[1]) :
             /\ c.e = r.e
             /\ c.q = r.q
             /\ (r.kind = "saved" => r.rec.val = c.val)
             /\ (r.kind = "deleted" => c.val = None)
      BY <1>2, <1>4
    <3>2. c.e \in Combining /\ c.val # None
      BY <1>4, <2>2, <3>1 DEF Merging, Uploads, Ready
    <3>3. cloud'[e].val = c.val
      BY <1>2, <2>2, <3>1, <3>2
    <3> DEFINE i == [e |-> c.e, q |-> c.q, val |-> c.val]
    <3>4. i \in inflight /\ i.e = c.e /\ i.val = c.val
      BY <1>4, <3>1 DEF Merging, Uploads, Paired, Matched
    <3> HIDE DEF i
    <3>5. store[e].row # None /\ c.val \subseteq store[e].row
      BY <2>2, <3>1, <3>2, <3>4 DEF Merging, Uploads, Asked
    <3> QED
      BY <3>3, <3>5 DEF Added
  <2>3. ASSUME NEW e \in Combining
        PROVE  /\ engine'.pos[e] <= cloud'[e].ver
               /\ engine'.pos[e] = cloud'[e].ver =>
                      Safe(e, cloud'[e], store[e], toApply, chan \o m, Len(chan) + Len(m))
    <3>1. cloud'[e].ver \in Nat
      BY <1>1 DEF CloudRecord
    <3>2. CASE engine'.pos[e] = engine.pos[e]
      BY <2>1, <3>2 DEF Passed
    <3>3. CASE /\ engine'.pos[e] = cloud'[e].ver
               /\ \E r \in results : r.e = e /\ r.kind \in {"saved", "deleted"}
      BY <2>2, <3>1, <3>3 DEF Safe
    <3> QED
      BY <1>1, <1>2, <3>2, <3>3
  <2> QED
    BY <2>3 DEF Passed
<1>12. Covers(cloud', store, ckpt, cmds, pendingState, toApply, chan \o m, engine')
  BY <1>1, <1>6, <1>8, <1>10, <1>11, CoversEmitted
<1>13. Covers(cloud', store, ckpt, cmds', pendingState, toApply, chan \o m, engine')
  <2>1. \A i \in DOMAIN Tail(cmds) : \E l \in DOMAIN cmds : Tail(cmds)[i] = cmds[l]
    BY <1>1, <1>3, TailFrom
  <2> QED
    BY <1>3, <1>12, <2>1, CoversAsked
<1>14. Known(cloud', store, toApply, chan \o m)
  <2>1. Known(cloud', store, toApply, chan)
    BY <1>1, <1>2, AddedSame, LaterKeeps, KnownKept DEF Accounted
  <2>2. ASSUME NEW r \in results, r.e \in Combining PROVE r.kind # "deleted"
    <3>1. PICK c \in Offers(cmds[1]) : c.e = r.e /\ (r.kind = "deleted" => c.val = None)
      BY <1>2, <1>4
    <3> QED
      BY <1>4, <2>2, <3>1 DEF Merging, Uploads, Ready
  <2>3. \A k \in DOMAIN m :
           /\ \A x \in Brought(m[k]) : x.e \in Combining => x.rec = cloud'[x.e]
           /\ \A r \in Answers(m[k]) : r.e \in Combining => r.kind # "deleted"
    BY <1>2, <1>5, <1>6, <2>2
  <2> QED
    BY <1>1, <1>6, <2>1, <2>3, KnownEmitted
<1> QED
  BY <1>3, <1>7, <1>13, <1>14 DEF Accounted, Covering

(* An engine that starts at a position owes what the position owed.         *)
LEMMA StartAccounted ==
    ASSUME Inv, Merging, Accounted, EngineStart
    PROVE  Accounted'
<1>1. /\ cmds # <<>> /\ Head(cmds).cmd = "start" /\ cmds' = Tail(cmds)
      /\ engine' = Head(cmds).at
      /\ UNCHANGED <<store, ckpt, pendingState, toApply, chan, cloud>>
  BY DEF EngineStart, Runs, coreVars
<1>2. cmds \in Seq(Command) /\ chan \in Seq(Event) /\ Len(chan) \in Nat
  BY CombiningTyped, LenProperties
<1>3. 1 \in DOMAIN cmds /\ Head(cmds) = cmds[1]
  BY <1>1, <1>2, HeadTailProperties, LenProperties, EmptySeq
<1>4. Passed(cloud, store, <<>>, chan, engine', 0)
  BY <1>1, <1>3 DEF Accounted, Covering, Covers
<1>5. Passed(cloud, store, toApply, chan, engine', Len(chan))
  BY <1>2, <1>4, PassedMore
<1>6. Covers(cloud, store, ckpt, cmds, pendingState, toApply, chan, engine')
  BY <1>5 DEF Accounted, Covering, Covers
<1>7. Covers(cloud, store, ckpt, cmds', pendingState, toApply, chan, engine')
  <2>1. \A i \in DOMAIN Tail(cmds) : \E l \in DOMAIN cmds : Tail(cmds)[i] = cmds[l]
    BY <1>1, <1>2, TailFrom
  <2>2. cmds' = Tail(cmds)
    BY <1>1
  <2> QED
    BY <2>2, <1>6, <2>1, CoversAsked
<1> QED
  BY <1>1, <1>7 DEF Accounted, Covering

(* Every step of the bridge.                                                *)
LEMMA BridgeAccounted ==
    ASSUME Inv, Inv', Merging, Merging', Accounted, OnlyAdds, Bridge
    PROVE  Accounted'
<1>1. ASSUME EngineFetch PROVE Accounted'
  <2> DEFINE page == Changed
             kind == "complete"
  <2>1. /\ Runs("fetch") /\ engine' = Advance(Entity)
        /\ chan' = chan \o ((IF page = {} THEN <<>> ELSE << FetchedPage(page), StateAt(Entity) >>)
                            \o << [ev |-> kind] >>)
        /\ UNCHANGED <<store, ckpt, coreVars, toApply, cloud>>
    BY <1>1 DEF EngineFetch, Emits
  <2>2. page \in SUBSET Changed /\ kind \in {"complete", "error"} /\ page = Changed
    OBVIOUS
  <2> HIDE DEF page, kind
  <2> QED
    BY <2>1, <2>2, FetchesAccounted
<1>2. ASSUME NEW page \in SUBSET Entity, EngineFetchFails(page) PROVE Accounted'
  <2> DEFINE kind == "error"
  <2>1. /\ Runs("fetch") /\ page \in SUBSET Changed
        /\ engine' = Advance(page) \/ (page = {} /\ engine' = engine)
        /\ chan' = chan \o ((IF page = {} THEN <<>> ELSE << FetchedPage(page), StateAt(page) >>)
                            \o << [ev |-> kind] >>)
        /\ UNCHANGED <<store, ckpt, coreVars, toApply, cloud>>
    BY <1>2 DEF EngineFetchFails, Emits
  <2>2. kind \in {"complete", "error"}
    OBVIOUS
  <2> HIDE DEF kind
  <2> QED
    BY <2>1, <2>2, FetchesAccounted
<1>3. ~EngineExpires
  BY DEF EngineExpires, Fault, OnlyAdds, Merging, Plain
<1>4. ~\E landed \in SUBSET Entity : EngineSendThrows(landed)
  BY DEF EngineSendThrows, Fault, OnlyAdds
<1> QED
  BY <1>1, <1>2, <1>3, <1>4, StartAccounted, SendAccounted DEF Bridge

(* Every step.                                                              *)
LEMMA NextAccounted ==
    ASSUME Inv, Merging, Accounted, OnlyAdds, FewRefusals, OlderHasNoMore, [Next]_vars
    PROVE  Accounted'
<1>1. Inv' /\ Merging' /\ Kept
  BY NextInv, NextMerging
<1>2. CASE UNCHANGED vars
  <2>1. UNCHANGED <<store, cloud, ckpt, cmds, pendingState, toApply, chan, engine>>
    BY <1>2 DEF vars, coreVars, pathVars
  <2> QED
    BY <2>1 DEF Accounted, Covering
<1>3. CASE Handlers
  BY <1>1, <1>3, HandlersAccounted, SentAccounted
<1>4. CASE Next /\ ~Handlers
  BY <1>1, <1>4, UsersAccounted, TimersAccounted, BridgeAccounted,
     LaunchAccounted, CrashAccounted, ApplyAccounted DEF Next
<1> QED
  BY <1>2, <1>3, <1>4 DEF Next

(* At first there is nothing to account for.                                *)
LEMMA InitAccounted == Init => Accounted
<1> SUFFICES ASSUME Init PROVE Accounted
  OBVIOUS
<1>1. \A e \in Combining :
         /\ e \in Entity /\ store[e] = Untracked
         /\ cloud[e] = [val |-> None, ver |-> 0, rev |-> 0, at |-> 0, dev |-> Peer]
  BY MacAssumption DEF Init
<1>2. toApply = <<>> /\ chan = <<>> /\ cmds = <<>> /\ pendingState = None
      /\ ckpt = FirstPosition /\ engine = NoPosition
  BY DEF Init
<1>3. ASSUME NEW b, NEW c, NEW n, NEW p \in {FirstPosition, NoPosition}
      PROVE  Passed(cloud, store, b, c, p, n)
  <2> SUFFICES ASSUME NEW e \in Combining
               PROVE  p.pos[e] <= cloud[e].ver /\ Added(cloud[e].val, store[e].row)
    BY DEF Passed, Safe
  <2>1. p.pos[e] = 0 \/ p.pos[e] = -1
    BY <1>1 DEF FirstPosition, NoPosition
  <2> QED
    BY <1>1, <2>1 DEF Added
<1>4. Covering
  BY <1>2, <1>3 DEF Covering, Covers
<1>5. Known(cloud, store, toApply, chan)
  BY <1>1, <1>2 DEF Known, Untracked
<1> QED
  BY <1>4, <1>5 DEF Accounted

(* What is accounted for, and neither queued nor under way, is there.       *)
LEMMA CoveredHeld ==
    ASSUME Inv, Merging, Accounted, NEW e \in Combining, Covered(e), ~Pending(e)
    PROVE  store[e].row = cloud[e].val
<1> DEFINE s == store[e]
           z == cloud[e]
<1>1. /\ e \in Entity /\ s \in Stored /\ z \in CloudRecord /\ z.ver \in Nat
      /\ ckpt \in Position /\ engine \in Position
  BY MacAssumption DEF Inv, TypeOK, CloudRecord, Merging, Plain
<1>2. Safe(e, z, s, <<>>, <<>>, 0) \/ \E c : Safe(e, z, s, <<>>, c, 0) /\ c \in Seq(Event)
  <2>1. CASE z.ver <= ckpt.pos[e]
    <3>1. Passed(cloud, store, <<>>, chan, ckpt, 0)
      BY DEF Accounted, Covering, Covers
    <3>2. ckpt.pos[e] = z.ver
      BY <1>1, <2>1, <3>1 DEF Passed, Position
    <3> QED
      BY <3>1, <3>2, CombiningTyped DEF Passed
  <2>2. CASE Quiet /\ z.ver <= engine.pos[e]
    <3>1. Passed(cloud, store, <<>>, <<>>, engine, 0)
      BY <2>2 DEF Accounted, Covering, Covers, Quiet
    <3>2. engine.pos[e] = z.ver
      BY <1>1, <2>2, <3>1 DEF Passed, Position
    <3> QED
      BY <3>1, <3>2 DEF Passed
  <2> QED
    BY <2>1, <2>2 DEF Covered
<1>3. Added(z.val, s.row)
  <2>1. s.op = "none"
    BY DEF Pending
  <2>2. \A c \in Seq(Event) : \A k \in DOMAIN c : ~(k <= 0)
    BY LenProperties
  <2> QED
    BY <1>2, <2>1, <2>2 DEF Safe, Insists
<1>4. CASE s.row = None
  BY <1>3, <1>4 DEF Added
<1>5. CASE s.row # None
  <2>1. s.synced = s.row
    BY <1>1, <1>5 DEF Pending, NeedsUpsert, Matches
  <2>2. z.val # None /\ s.row \subseteq z.val
    BY <1>5, <2>1 DEF Accounted, Known, Merging, Rows, Sound, Agreed, Entries
  <2> QED
    BY <1>3, <1>5, <2>2 DEF Added
<1> QED
  BY <1>4, <1>5

(* Where users only add entries, a version of a combining entity that no    *)
(* fetch will bring again is what this Mac holds, unless the store shows an *)
(* upload still to be made ("A fetched change is applied locally before the *)
(* engine checkpoint that covers it is saved", core.rs), whatever crashes,  *)
(* interrupted or stuck fetches, refused records, old builds and edits of   *)
(* other Macs come in between.  Beside FewRefusals it needs what            *)
(* `merged_value` takes for granted when it ignores a record as older       *)
(* (OlderHasNoMore).                                                        *)
THEOREM CoveredIsHeld ==
    ASSUME OnlyAdds
    PROVE  Spec /\ []FewRefusals /\ []OlderHasNoMore =>
               [](\A e \in Combining : Covered(e) /\ ~Pending(e) => store[e].row = cloud[e].val)
<1>1. Inv /\ Merging /\ FewRefusals /\ [Next]_vars => Merging'
  BY NextMerging
<1>2. Inv /\ Merging /\ Accounted /\ FewRefusals /\ OlderHasNoMore /\ [Next]_vars => Accounted'
  BY NextAccounted
<1>3. Inv /\ Merging /\ Accounted =>
          \A e \in Combining : Covered(e) /\ ~Pending(e) => store[e].row = cloud[e].val
  BY CoveredHeld
<1> QED
  BY <1>1, <1>2, <1>3, InitMerging, InitAccounted, Invariance, PTL DEF Spec

(* Where every entity is a combining one, that is: nothing is missed.       *)
THEOREM NothingIsMissed ==
    ASSUME OnlyAdds, Combining = Entity
    PROVE  Spec /\ []FewRefusals /\ []OlderHasNoMore => []NothingMissed
<1>1. (\A e \in Combining : Covered(e) /\ ~Pending(e) => store[e].row = cloud[e].val)
          => NothingMissed
  BY DEF NothingMissed
<1> QED
  BY <1>1, CoveredIsHeld, PTL
=============================================================================
