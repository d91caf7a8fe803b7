------------------------- MODULE SyncPositionProofs -------------------------
(***************************************************************************)
(* Further proofs about SyncSession, for every set of accounts, items and  *)
(* choices and every bound, and without assumptions: no position saved for *)
(* the bound account has passed an item this Mac does not have, unless     *)
(* data came out of turn (NothingPassed); and a zone is emptied only if    *)
(* the user asked for it, unless the request was overtaken (OnlyAsked).    *)
(*                                                                         *)
(* The arguments are independent.  Positions: everything on its way to the *)
(* disk, from the engine over commands and messages to the pending         *)
(* position, is sound for the bound account (Placed).  Deletions: every    *)
(* command, and every wish that waits, is one the user asked for (Wanted). *)
(***************************************************************************)
EXTENDS SyncSessionProofs, FiniteSetTheorems, FunctionTheorems

-----------------------------------------------------------------------------
(*                     What the worker's mail holds                        *)

(* The items of the fetches that wait, and of those before place n.        *)
Fetched(q) ==
  {i \in Item : \E k \in DOMAIN q : q[k].type = "fetched" /\ i \in q[k].items}
Before(q, n) ==
  {i \in Item : \E k \in DOMAIN q : k < n /\ q[k].type = "fetched" /\ i \in q[k].items}

(* The acknowledgements that wait.                                         *)
Acks(q) == {k \in DOMAIN q : q[k].type = "applied"}

LEMMA SeqFacts ==
  ASSUME NEW T, NEW q \in Seq(T)
  PROVE  Len(q) \in Nat /\ DOMAIN q = 1 .. Len(q) /\ (q = <<>> <=> Len(q) = 0)
OBVIOUS

LEMMA TailFacts ==
  ASSUME NEW T, NEW q \in Seq(T), q # <<>>
  PROVE  /\ Tail(q) \in Seq(T) /\ Head(q) \in T /\ Head(q) = q[1]
         /\ Len(q) \in Nat \ {0} /\ Len(Tail(q)) = Len(q) - 1
         /\ DOMAIN q = 1 .. Len(q) /\ DOMAIN Tail(q) = 1 .. Len(q) - 1
         /\ \A k \in 1 .. Len(q) - 1 : Tail(q)[k] = q[k + 1]
BY HeadTailProperties, LenProperties, EmptySeq

LEMMA ConcatFacts ==
  ASSUME NEW T, NEW q \in Seq(T), NEW r \in Seq(T)
  PROVE  /\ q \o r \in Seq(T) /\ Len(q) \in Nat /\ Len(r) \in Nat
         /\ DOMAIN q = 1 .. Len(q) /\ DOMAIN r = 1 .. Len(r)
         /\ DOMAIN (q \o r) = 1 .. Len(q) + Len(r)
         /\ \A k \in DOMAIN q : (q \o r)[k] = q[k]
         /\ \A k \in DOMAIN r : (q \o r)[Len(q) + k] = r[k]
         /\ \A k \in DOMAIN (q \o r) : k \in DOMAIN q \/ k - Len(q) \in DOMAIN r
BY ConcatProperties, LenProperties

LEMMA AcksFinite ==
  ASSUME NEW q \in Seq(Event) PROVE IsFiniteSet(Acks(q)) /\ Cardinality(Acks(q)) \in Nat
<1>1. IsFiniteSet(1 .. Len(q)) BY FS_Interval, SeqFacts
<1>2. Acks(q) \subseteq 1 .. Len(q) BY SeqFacts DEF Acks
<1> QED BY <1>1, <1>2, FS_Subset, FS_CardinalityType

(* Taking a message takes an acknowledgement if it was one.                *)
LEMMA AcksTail ==
  ASSUME NEW q \in Seq(Event), q # <<>>
  PROVE  Cardinality(Acks(Tail(q))) =
           IF Head(q).type = "applied" THEN Cardinality(Acks(q)) - 1 ELSE Cardinality(Acks(q))
<1> DEFINE later == Acks(q) \ {1}
           f == [k \in Acks(Tail(q)) |-> k + 1]
<1>1. Tail(q) \in Seq(Event) BY TailFacts
<1>2. \A k \in Acks(Tail(q)) : k \in Nat /\ k + 1 \in later BY TailFacts DEF Acks
<1>3. \A k \in later : k - 1 \in Acks(Tail(q)) /\ (k - 1) + 1 = k BY TailFacts DEF Acks
<1>4. f \in Bijection(Acks(Tail(q)), later)
  <2>1. f \in [Acks(Tail(q)) -> later] BY <1>2
  <2>2. \A k, l \in Acks(Tail(q)) : f[k] = f[l] => k = l BY <1>2
  <2>3. \A k \in later : \E l \in Acks(Tail(q)) : f[l] = k BY <1>3
  <2> QED BY <2>1, <2>2, <2>3, Fun_IsBij
<1>5. Cardinality(Acks(Tail(q))) = Cardinality(later)
  BY <1>1, <1>4, AcksFinite, Fun_ExistsBij, FS_Bijection
<1>6. 1 \in Acks(q) <=> Head(q).type = "applied" BY TailFacts DEF Acks
<1> QED BY <1>5, <1>6, AcksFinite, FS_RemoveElement

(* Messages that are no acknowledgements leave the count alone.            *)
LEMMA AcksOthers ==
  ASSUME NEW q \in Seq(Event), NEW r \in Seq(Event), ~Has(r, "applied")
  PROVE  Acks(q \o r) = Acks(q)
<1> DEFINE s == q \o r
<1>1. \A k \in DOMAIN s : s[k].type = "applied" => k \in DOMAIN q BY ConcatFacts DEF Has
<1> QED BY <1>1, ConcatFacts DEF Acks

(* One acknowledgement for each of n batches.                              *)
LEMMA AcksAll ==
  ASSUME NEW q \in Seq(Event), NEW r \in Seq(Event), \A k \in DOMAIN r : r[k].type = "applied"
  PROVE  Cardinality(Acks(q \o r)) = Cardinality(Acks(q)) + Len(r)
<1> DEFINE s == q \o r
           new == Len(q) + 1 .. Len(q) + Len(r)
<1>1. \A k \in new : k - Len(q) \in DOMAIN r /\ Len(q) + (k - Len(q)) = k BY ConcatFacts
<1>2. \A k \in new : k \in DOMAIN s /\ s[k].type = "applied" BY <1>1, ConcatFacts
<1>3. \A k \in DOMAIN s : k \in DOMAIN q \/ k \in new BY ConcatFacts
<1>4. Acks(s) = Acks(q) \cup new BY <1>2, <1>3, ConcatFacts DEF Acks
<1>5. Acks(q) \cap new = {} BY ConcatFacts DEF Acks
<1>6. IsFiniteSet(new) /\ Cardinality(new) = Len(r)
  <2> DEFINE a == Len(q) + 1
             b == Len(q) + Len(r)
  <2>1. a \in Int /\ b \in Int /\ (a > b => Len(r) = 0) /\ b - a + 1 = Len(r)
    BY ConcatFacts
  <2> HIDE DEF a, b
  <2>2. IsFiniteSet(a .. b) /\ Cardinality(a .. b) = IF a > b THEN 0 ELSE b - a + 1
    BY <2>1, FS_Interval
  <2> QED BY <2>1, <2>2 DEF a, b
<1>7. Cardinality({}) = 0 BY FS_EmptySet
<1> HIDE DEF new, s
<1>8. IsFiniteSet(Acks(q)) /\ Cardinality(Acks(q)) \in Nat /\ Len(r) \in Nat
  BY AcksFinite, ConcatFacts
<1>9. Cardinality(Acks(q) \cup new) = Cardinality(Acks(q)) + Len(r)
  <2> DEFINE both == Acks(q) \cap new
  <2>1. Cardinality(Acks(q) \cup new) =
          Cardinality(Acks(q)) + Cardinality(new) - Cardinality(both)
    BY <1>6, <1>8, FS_Union
  <2>2. Cardinality(both) = 0 BY <1>5, <1>7
  <2> HIDE DEF both
  <2> QED BY <1>6, <1>8, <2>1, <2>2
<1> QED BY <1>4, <1>8, <1>9 DEF s

(* What the mail holds after a message was taken or others came.           *)
LEMMA MailTaken ==
  ASSUME NEW q \in Seq(Event), q # <<>>
  PROVE  /\ Fetched(Tail(q)) \subseteq Fetched(q)
         /\ Fetched(q) \subseteq
              Fetched(Tail(q)) \cup IF Head(q).type = "fetched" THEN Head(q).items ELSE {}
         /\ \A k \in DOMAIN Tail(q) : Before(q, k + 1) \subseteq
              Before(Tail(q), k) \cup IF Head(q).type = "fetched" THEN Head(q).items ELSE {}
         /\ Before(q, 1) = {}
         /\ \A type : Has(q, type) <=> Head(q).type = type \/ Has(Tail(q), type)
<1> DEFINE t == Tail(q)
<1>1. /\ \A k \in DOMAIN t : k + 1 \in DOMAIN q /\ t[k] = q[k + 1] /\ k \in Nat
      /\ \A k \in DOMAIN q : k \in Nat /\ (k = 1 \/ (k - 1 \in DOMAIN t /\ t[k - 1] = q[k]))
      /\ 1 \in DOMAIN q /\ Head(q) = q[1] /\ \A k \in DOMAIN q : ~(k < 1)
  BY TailFacts
<1> HIDE DEF t
<1>2. Fetched(t) \subseteq Fetched(q) BY <1>1 DEF Fetched
<1>3. Fetched(q) \subseteq Fetched(t) \cup IF Head(q).type = "fetched" THEN Head(q).items ELSE {}
  BY <1>1 DEF Fetched
<1>4. ASSUME NEW k \in DOMAIN t
      PROVE  Before(q, k + 1) \subseteq
               Before(t, k) \cup IF Head(q).type = "fetched" THEN Head(q).items ELSE {}
  <2> SUFFICES ASSUME NEW i \in Item, NEW j \in DOMAIN q, j < k + 1, q[j].type = "fetched",
                      i \in q[j].items, ~(Head(q).type = "fetched" /\ i \in Head(q).items)
               PROVE  i \in Before(t, k)
    BY DEF Before
  <2>1. j - 1 \in DOMAIN t /\ t[j - 1] = q[j] /\ j - 1 < k BY <1>1
  <2> QED BY <2>1 DEF Before
<1>5. Before(q, 1) = {} BY <1>1 DEF Before
<1>6. ASSUME NEW type PROVE Has(q, type) <=> Head(q).type = type \/ Has(t, type)
  BY <1>1 DEF Has
<1> QED BY <1>2, <1>3, <1>4, <1>5, <1>6 DEF t

LEMMA MailSent ==
  ASSUME NEW q \in Seq(Event), NEW r \in Seq(Event)
  PROVE  /\ Fetched(q \o r) = Fetched(q) \cup Fetched(r)
         /\ \A k \in DOMAIN q : Before(q, k) \subseteq Before(q \o r, k)
         /\ \A k \in DOMAIN r :
              Fetched(q) \cup Before(r, k) \subseteq Before(q \o r, Len(q) + k)
         /\ \A type : Has(q \o r, type) <=> Has(q, type) \/ Has(r, type)
<1> DEFINE s == q \o r
<1>1. /\ \A k \in DOMAIN q : k \in DOMAIN s /\ s[k] = q[k] /\ k \in Nat /\ k <= Len(q)
      /\ \A k \in DOMAIN r : Len(q) + k \in DOMAIN s /\ s[Len(q) + k] = r[k] /\ k \in Nat /\ 0 < k
      /\ \A k \in DOMAIN s : k \in DOMAIN q \/ (k - Len(q) \in DOMAIN r /\ s[k] = r[k - Len(q)])
      /\ Len(q) \in Nat
  BY ConcatFacts
<1> HIDE DEF s
<1>2. Fetched(s) = Fetched(q) \cup Fetched(r) BY <1>1 DEF Fetched
<1>3. ASSUME NEW k \in DOMAIN q PROVE Before(q, k) \subseteq Before(s, k)
  BY <1>1, <1>3 DEF Before
<1>4. ASSUME NEW k \in DOMAIN r
      PROVE  Fetched(q) \cup Before(r, k) \subseteq Before(s, Len(q) + k)
  BY <1>1, <1>4 DEF Before, Fetched
<1>5. ASSUME NEW type PROVE Has(s, type) <=> Has(q, type) \/ Has(r, type)
  BY <1>1 DEF Has
<1> QED BY <1>2, <1>3, <1>4, <1>5 DEF s

-----------------------------------------------------------------------------
(*                       Where the engine will be                          *)

(* A position has passed only items of S.                                  *)
Good(p, S) == p = None \/ p.seen \subseteq S

(* The position the engine has when command n is its next one, at being    *)
(* the one it has now: that of the last start before n.                    *)
Reaches(q, at, S, n) ==
  /\ (\A k \in DOMAIN q : k < n => q[k].type # "start") => Good(at, S)
  /\ \A k \in DOMAIN q :
       /\ k < n /\ q[k].type = "start"
       /\ \A l \in DOMAIN q : k < l /\ l < n => q[l].type # "start"
       => Good(q[k].at, S)

(* Every fetch begins where nothing but items of S was passed and, if on,  *)
(* so would a fetch sent now.                                              *)
Steady(q, at, S, on) ==
  /\ \A n \in DOMAIN q : q[n].type = "fetch" => Reaches(q, at, S, n)
  /\ on => Reaches(q, at, S, Len(q) + 1)

LEMMA SteadyMore ==
  ASSUME NEW q \in Seq(Command), NEW at, NEW S, NEW T, NEW on, S \subseteq T, Steady(q, at, S, on)
  PROVE  Steady(q, at, T, on)
<1>1. \A n : Reaches(q, at, S, n) => Reaches(q, at, T, n) BY DEF Reaches, Good
<1> QED BY <1>1 DEF Steady

(* The engine has moved on to another good position.                       *)
LEMMA SteadyMoved ==
  ASSUME NEW q \in Seq(Command), NEW at, NEW to, NEW S, NEW T, NEW on, S \subseteq T,
         Steady(q, at, S, on), Good(to, T)
  PROVE  Steady(q, to, T, on)
<1>1. \A n : Reaches(q, at, S, n) => Reaches(q, to, T, n) BY DEF Reaches, Good
<1> QED BY <1>1 DEF Steady

LEMMA SteadyIdle ==
  ASSUME NEW q \in Seq(Command), NEW at, NEW S, ~Has(q, "fetch")
  PROVE  Steady(q, at, S, FALSE)
BY DEF Steady, Has

LEMMA SteadyEmpty == \A S, on : Steady(<<>>, None, S, on)
BY DEF Steady, Reaches, Good

LEMMA AppendFacts ==
  ASSUME NEW T, NEW q \in Seq(T), NEW c \in T
  PROVE  LET r == Append(q, c)
         IN  /\ r \in Seq(T) /\ Len(r) = Len(q) + 1 /\ r[Len(q) + 1] = c /\ Len(q) \in Nat
             /\ \A k \in DOMAIN q : k \in DOMAIN r /\ r[k] = q[k] /\ k \in Nat /\ k < Len(q) + 1
             /\ \A k \in DOMAIN r : k \in Nat /\ (k \in DOMAIN q \/ k = Len(q) + 1)
             /\ Len(q) + 1 \in DOMAIN r
BY AppendProperties, LenProperties

(* Places before the last command of a longer queue.                       *)
LEMMA ReachesLonger ==
  ASSUME NEW q \in Seq(Command), NEW c \in Command, NEW at, NEW S,
         NEW n \in 1 .. Len(q) + 1, Reaches(q, at, S, n)
  PROVE  Reaches(Append(q, c), at, S, n)
<1> DEFINE r == Append(q, c)
<1>1. /\ \A k \in DOMAIN q : k \in DOMAIN r /\ r[k] = q[k] /\ k \in Nat
      /\ \A k \in DOMAIN r : k \in Nat /\ (k < n => k \in DOMAIN q)
  BY AppendFacts
<1> HIDE DEF r
<1>2. (\A k \in DOMAIN r : k < n => r[k].type # "start") => Good(at, S)
  BY <1>1 DEF Reaches
<1>3. ASSUME NEW k \in DOMAIN r, k < n, r[k].type = "start",
             \A l \in DOMAIN r : k < l /\ l < n => r[l].type # "start"
      PROVE  Good(r[k].at, S)
  BY <1>1, <1>3 DEF Reaches
<1> QED BY <1>2, <1>3 DEF Reaches, r

(* A command that does not start the engine leaves the position alone.     *)
LEMMA ReachesSame ==
  ASSUME NEW q \in Seq(Command), NEW c \in Command, NEW at, NEW S,
         c.type # "start", Reaches(q, at, S, Len(q) + 1)
  PROVE  Reaches(Append(q, c), at, S, Len(Append(q, c)) + 1)
<1> DEFINE r == Append(q, c)
<1>1. /\ \A k \in DOMAIN q : k \in DOMAIN r /\ r[k] = q[k] /\ k \in Nat /\ k < Len(q) + 1
      /\ \A k \in DOMAIN r : k \in Nat /\ (r[k].type = "start" => k \in DOMAIN q)
      /\ Len(r) = Len(q) + 1 /\ Len(q) \in Nat
  BY AppendFacts
<1> HIDE DEF r
<1>2. (\A k \in DOMAIN r : k < Len(r) + 1 => r[k].type # "start") => Good(at, S)
  BY <1>1 DEF Reaches
<1>3. ASSUME NEW k \in DOMAIN r, k < Len(r) + 1, r[k].type = "start",
             \A l \in DOMAIN r : k < l /\ l < Len(r) + 1 => r[l].type # "start"
      PROVE  Good(r[k].at, S)
  BY <1>1, <1>3 DEF Reaches
<1> QED BY <1>2, <1>3 DEF Reaches, r

LEMMA SteadySends ==
  ASSUME NEW q \in Seq(Command), NEW c \in Command, NEW at, NEW S, NEW on \in BOOLEAN,
         Steady(q, at, S, on), c.type # "start", c.type = "fetch" => on
  PROVE  Steady(Append(q, c), at, S, on)
<1> DEFINE r == Append(q, c)
<1>1. /\ \A n \in DOMAIN q : r[n] = q[n] /\ n \in 1 .. Len(q) + 1
      /\ \A n \in DOMAIN r : n \in DOMAIN q \/ (n = Len(q) + 1 /\ r[n] = c)
      /\ Len(q) + 1 \in 1 .. Len(q) + 1
  BY AppendFacts
<1>2. ASSUME NEW n \in DOMAIN r, r[n].type = "fetch" PROVE Reaches(r, at, S, n)
  <2>1. CASE n \in DOMAIN q
    <3>1. Reaches(q, at, S, n) /\ n \in 1 .. Len(q) + 1
      <4> HIDE DEF r
      <4> QED BY <1>1, <1>2, <2>1 DEF Steady
    <3> QED BY <3>1, ReachesLonger
  <2>2. CASE n = Len(q) + 1 /\ r[n] = c
    <3>1. Reaches(q, at, S, n) /\ n \in 1 .. Len(q) + 1
      <4> HIDE DEF r
      <4> QED BY <1>1, <1>2, <2>2 DEF Steady
    <3> QED BY <3>1, ReachesLonger
  <2> QED BY <1>1, <2>1, <2>2
<1>3. ASSUME on PROVE Reaches(r, at, S, Len(r) + 1)
  <2>1. Reaches(q, at, S, Len(q) + 1) BY <1>3 DEF Steady
  <2> QED BY <2>1, ReachesSame
<1> QED BY <1>2, <1>3 DEF Steady

(* A start from a good position.                                           *)
LEMMA SteadyStarts ==
  ASSUME NEW q \in Seq(Command), NEW c \in Command, NEW at, NEW S, NEW on, NEW new,
         Steady(q, at, S, on), c.type = "start", Good(c.at, S)
  PROVE  Steady(Append(q, c), at, S, new)
<1> DEFINE r == Append(q, c)
<1>1. /\ \A n \in DOMAIN q : r[n] = q[n] /\ n \in 1 .. Len(q) + 1
      /\ \A n \in DOMAIN r : n \in Nat /\ (n \in DOMAIN q \/ n = Len(q) + 1)
      /\ Len(q) + 1 \in DOMAIN r /\ r[Len(q) + 1] = c /\ Len(r) = Len(q) + 1 /\ Len(q) \in Nat
      /\ \A n \in DOMAIN q : n < Len(q) + 1
  BY AppendFacts
<1>2. ASSUME NEW n \in DOMAIN r, r[n].type = "fetch" PROVE Reaches(r, at, S, n)
  <2>1. n \in DOMAIN q /\ Reaches(q, at, S, n) /\ n \in 1 .. Len(q) + 1
    <3> HIDE DEF r
    <3> QED BY <1>1, <1>2 DEF Steady
  <2> QED BY <2>1, ReachesLonger
<1>3. Reaches(r, at, S, Len(r) + 1)
  <2> HIDE DEF r
  <2> QED BY <1>1 DEF Reaches
<1> QED BY <1>2, <1>3 DEF Steady

(* The bridge takes a command.                                             *)
LEMMA SteadyTaken ==
  ASSUME NEW q \in Seq(Command), q # <<>>, NEW at, NEW S, NEW on, Steady(q, at, S, on)
  PROVE  /\ Head(q).type # "start" => Steady(Tail(q), at, S, on)
         /\ Head(q).type = "start" => Steady(Tail(q), Head(q).at, S, on)
         /\ Head(q).type = "fetch" => Good(at, S)
<1> DEFINE t == Tail(q)
           to == IF Head(q).type = "start" THEN Head(q).at ELSE at
<1>1. /\ \A k \in DOMAIN t : k + 1 \in DOMAIN q /\ t[k] = q[k + 1] /\ k \in Nat
      /\ \A k \in DOMAIN q : k \in Nat /\ (k = 1 \/ (k - 1 \in DOMAIN t /\ t[k - 1] = q[k]))
      /\ 1 \in DOMAIN q /\ Head(q) = q[1] /\ Len(q) \in Nat /\ Len(t) + 1 = Len(q)
      /\ \A k \in DOMAIN q : ~(k < 1) /\ (k # 1 => 1 < k)
  BY TailFacts
<1> HIDE DEF t
<1>2. ASSUME NEW n \in Nat \ {0}, Reaches(q, at, S, n + 1) PROVE Reaches(t, to, S, n)
  <2>1. ASSUME \A k \in DOMAIN t : k < n => t[k].type # "start" PROVE Good(to, S)
    <3>1. \A k \in DOMAIN q : k # 1 /\ k < n + 1 => q[k].type # "start" BY <1>1, <2>1
    <3>2. CASE Head(q).type = "start"
      <4>1. /\ 1 < n + 1 /\ q[1].type = "start"
            /\ \A l \in DOMAIN q : 1 < l /\ l < n + 1 => q[l].type # "start"
        BY <1>1, <3>1, <3>2
      <4>2. Good(q[1].at, S) BY <1>1, <1>2, <4>1 DEF Reaches
      <4> QED BY <1>1, <3>2, <4>2
    <3>3. CASE Head(q).type # "start"
      <4>1. \A k \in DOMAIN q : k < n + 1 => q[k].type # "start" BY <1>1, <3>1, <3>3
      <4> QED BY <1>2, <3>3, <4>1 DEF Reaches
    <3> QED BY <3>2, <3>3
  <2>2. ASSUME NEW k \in DOMAIN t, k < n, t[k].type = "start",
               \A l \in DOMAIN t : k < l /\ l < n => t[l].type # "start"
        PROVE  Good(t[k].at, S)
    <3>1. k + 1 \in DOMAIN q /\ t[k] = q[k + 1] /\ k + 1 < n + 1 BY <1>1, <2>2
    <3>2. ASSUME NEW l \in DOMAIN q, k + 1 < l, l < n + 1 PROVE q[l].type # "start"
      <4>1. l \in Nat /\ k \in Nat /\ l # 1 BY <1>1, <3>2
      <4>2. l - 1 \in DOMAIN t /\ t[l - 1] = q[l] BY <1>1, <4>1
      <4>3. k < l - 1 /\ l - 1 < n BY <1>2, <3>2, <4>1
      <4> QED BY <2>2, <4>2, <4>3
    <3> QED BY <1>2, <2>2, <3>1, <3>2 DEF Reaches
  <2> QED BY <2>1, <2>2 DEF Reaches
<1>3. Steady(t, to, S, on)
  <2>1. ASSUME NEW n \in DOMAIN t, t[n].type = "fetch" PROVE Reaches(t, to, S, n)
    <3>1. n + 1 \in DOMAIN q /\ q[n + 1].type = "fetch" /\ n \in Nat \ {0}
      BY <1>1, <2>1, TailFacts DEF t
    <3> QED BY <1>2, <3>1 DEF Steady
  <2>2. ASSUME on PROVE Reaches(t, to, S, Len(t) + 1)
    <3>1. Len(t) + 1 \in Nat \ {0} /\ Reaches(q, at, S, Len(t) + 1 + 1)
      BY <1>1, <2>2, TailFacts DEF t, Steady
    <3> QED BY <1>2, <3>1
  <2> QED BY <2>1, <2>2 DEF Steady
<1>4. ASSUME Head(q).type = "fetch" PROVE Good(at, S)
  <2>1. Reaches(q, at, S, 1) BY <1>1, <1>4 DEF Steady
  <2> QED BY <1>1, <2>1 DEF Reaches
<1> QED BY <1>3, <1>4 DEF t

-----------------------------------------------------------------------------
(*                 What is true of the core and its mail                   *)

(* What a world of the core lies in: what the user declined and asked for, *)
(* the position of the engine and the messages that wait.                  *)
Contexts == [declined : SUBSET Item, asked : SUBSET (Account \cup {None}),
             at : Position \cup {None}, mail : Seq(Event)]

(* What is on this Mac or was declined, and with it what is about to be    *)
(* applied.  Before the merge what is local does not count: it may be      *)
(* replaced.                                                               *)
Kept(d, declined) == d.inbox \cup declined \cup IF d.joined THEN d.local ELSE {}
Waiting(batches) == {i \in Item : \E k \in DOMAIN batches : i \in batches[k]}
OnMac(w, x) == Kept(w.db, x.declined) \cup Waiting(w.effects.batches)

(* The position on disk.                                                   *)
Disk(w, x) ==
  w.db.bound # None /\ w.db.ckpt # None =>
    w.db.ckpt.of = w.db.bound /\ w.db.ckpt.seen \subseteq Kept(w.db, x.declined)

(* The positions on their way to it, unless they will never be saved.      *)
Under(w, x, on) ==
  w.db.bound # None /\ ~w.core.held =>
    /\ w.core.pending # None =>
         w.core.pending.of = w.db.bound /\ w.core.pending.seen \subseteq OnMac(w, x)
    /\ \A k \in DOMAIN x.mail : x.mail[k].type = "state" =>
         /\ x.mail[k].at.of = w.db.bound
         /\ x.mail[k].at.seen \subseteq OnMac(w, x) \cup Before(x.mail, k)
    /\ \A k \in DOMAIN w.cmds : w.cmds[k].type = "fetch" => w.cmds[k].for = w.db.bound
    /\ Steady(w.cmds, x.at, OnMac(w, x) \cup Fetched(x.mail), on)

(* What is linked, and so no longer fetched, is here; before the merge     *)
(* nothing is linked.                                                      *)
Linked(w, x) ==
  /\ w.db.joined => w.db.linked \subseteq Kept(w.db, x.declined)
  /\ ~w.db.joined => w.db.linked = {} /\ w.effects.batches = <<>>

(* What is under way is on this Mac, and before the merge nothing is, once *)
(* the core has stopped or started again.                                  *)
Calm(w, x) ==
  \/ w.core.inflight \subseteq IF w.db.joined THEN w.db.local ELSE {}
  \/ Has(x.mail, "restart")
  \/ w.db.bound = None /\ ~w.db.joined /\ Has(x.mail, "stop")

(* The core counts the batches that wait and those it has not heard of.    *)
Counted(w, x) ==
  w.core.unapplied = Len(w.effects.batches) + Cardinality(Acks(x.mail))

(* A position that may be saved has been.                                  *)
Saved(w) == w.core.unapplied = 0 /\ ~w.core.held => w.core.pending = None

(* What is left of it while the core stops.                                *)
Loose(w, x) == Disk(w, x) /\ Under(w, x, FALSE) /\ Linked(w, x) /\ Counted(w, x)

Right(w, x) ==
  /\ Disk(w, x) /\ Under(w, x, w.core.started /\ ~Has(x.mail, "restart"))
  /\ Linked(w, x) /\ Calm(w, x) /\ Counted(w, x)

(* The question which account to use is asked only when none is bound; the *)
(* zone of an account is deleted only if it is among those asked for.      *)
Proper(w, x) ==
  /\ w.db.bound # None => w.effects.confirm = None
  /\ \A k \in DOMAIN w.cmds : w.cmds[k].type = "delete" => w.cmds[k].for \in x.asked

(* What a step of the core does with all that.                             *)
Keeps(w, v, x) ==
  /\ v \in Worlds /\ v.db.bound = w.db.bound /\ v.db.joined = w.db.joined
  /\ Right(w, x) => Right(v, x)
  /\ Saved(w) => Saved(v)
  /\ Proper(w, x) => Proper(v, x)

LEMMA KeepsChain ==
  ASSUME NEW x \in Contexts, NEW u, NEW v, NEW w, Keeps(u, v, x), Keeps(v, w, x)
  PROVE  Keeps(u, w, x)
BY Zenon DEF Keeps

(* The parts of the core this is about.                                    *)
Alike(c, d) ==
  /\ d.pending = c.pending /\ d.held = c.held /\ d.unapplied = c.unapplied
  /\ d.started = c.started /\ d.inflight \subseteq c.inflight

LEMMA KeepsQuiet ==
  ASSUME NEW x \in Contexts, NEW w \in Worlds, NEW v \in Worlds, v.db = w.db, v.cmds = w.cmds,
         v.effects.batches = w.effects.batches,
         v.effects.confirm = w.effects.confirm \/ w.db.bound = None, Alike(w.core, v.core)
  PROVE  Keeps(w, v, x)
<1>1. OnMac(v, x) = OnMac(w, x) BY Zenon DEF OnMac
<1>2. ASSUME Right(w, x) PROVE Right(v, x)
  <2>1. Disk(v, x) BY <1>2 DEF Right, Disk
  <2>2. Under(v, x, v.core.started /\ ~Has(x.mail, "restart"))
    BY <1>1, <1>2, Zenon DEF Right, Under, Alike
  <2>3. Linked(v, x) /\ Calm(v, x) BY <1>2 DEF Right, Linked, Calm, Alike
  <2>4. Counted(v, x) BY <1>2 DEF Right, Counted, Alike
  <2> QED BY <2>1, <2>2, <2>3, <2>4 DEF Right
<1>3. Saved(w) => Saved(v) BY DEF Saved, Alike
<1>4. Proper(w, x) => Proper(v, x) BY DEF Proper
<1> QED BY <1>2, <1>3, <1>4 DEF Keeps, Alike

LEMMA KeepsSame == ASSUME NEW x \in Contexts, NEW w \in Worlds PROVE Keeps(w, w, x)
BY DEF Keeps

(* A command that is no start; a fetch is for the bound account.           *)
LEMMA KeepsSends ==
  ASSUME NEW x \in Contexts, NEW w \in Worlds, NEW c \in Command, c.type # "start",
         c.type = "fetch" => c.for = w.db.bound /\ w.core.started /\ ~Has(x.mail, "restart"),
         c.type = "delete" => c.for \in x.asked
  PROVE  /\ Keeps(w, Sends(w, c), x)
         /\ Sends(w, c).db = w.db /\ Sends(w, c).core = w.core
<1> DEFINE v == Sends(w, c)
           on == w.core.started /\ ~Has(x.mail, "restart")
<1>1. w.cmds \in Seq(Command) /\ Append(w.cmds, c) \in Seq(Command) /\ on \in BOOLEAN
  BY DEF Worlds, Core, Has
<1>2. /\ v \in Worlds /\ v.db = w.db /\ v.core = w.core /\ v.effects = w.effects
      /\ v.cmds = Append(w.cmds, c)
  BY <1>1, Zenon DEF Worlds, Sends
<1> HIDE DEF v
<1>3. OnMac(v, x) = OnMac(w, x) BY <1>2 DEF OnMac
<1>4. \A k \in DOMAIN v.cmds : (k \in DOMAIN w.cmds /\ v.cmds[k] = w.cmds[k]) \/ v.cmds[k] = c
  BY <1>1, <1>2, AppendFacts
<1>5. ASSUME Right(w, x) PROVE Right(v, x)
  <2>1. Disk(v, x) /\ Linked(v, x) /\ Calm(v, x) /\ Counted(v, x)
    BY <1>2, <1>5 DEF Right, Disk, Linked, Calm, Counted
  <2>2. ASSUME v.db.bound # None, ~v.core.held PROVE Under(v, x, on)
    <3> DEFINE S == OnMac(w, x) \cup Fetched(x.mail)
    <3>1. Under(w, x, on) BY <1>5 DEF Right
    <3>2. Steady(w.cmds, x.at, S, on) BY <1>2, <2>2, <3>1 DEF Under
    <3>3. c.type = "fetch" => on OBVIOUS
    <3> HIDE DEF S, on
    <3>4. Steady(v.cmds, x.at, S, on) BY <1>1, <1>2, <3>2, <3>3, SteadySends
    <3>5. \A k \in DOMAIN v.cmds : v.cmds[k].type = "fetch" => v.cmds[k].for = v.db.bound
      BY <1>2, <1>4, <2>2, <3>1 DEF Under
    <3>6. Steady(v.cmds, x.at, OnMac(v, x) \cup Fetched(x.mail), on) BY <1>3, <3>4 DEF S
    <3> QED BY <1>2, <1>3, <2>2, <3>1, <3>5, <3>6, Zenon DEF Under
  <2>3. Under(v, x, on) BY <2>2 DEF Under
  <2> QED BY <1>2, <2>1, <2>3 DEF Right
<1>6. Saved(w) => Saved(v) BY <1>2 DEF Saved
<1>7. Proper(w, x) => Proper(v, x) BY <1>2, <1>4 DEF Proper
<1>8. Keeps(w, v, x) BY <1>2, <1>5, <1>6, <1>7 DEF Keeps
<1> QED BY <1>2, <1>8 DEF v

LEMMA KeepsStartFetch ==
  ASSUME NEW x \in Contexts, NEW w \in Worlds, ~Has(x.mail, "restart")
  PROVE  Keeps(w, StartFetch(w), x)
<1>1. CASE CanSync(w) /\ ~w.core.fetching
  <2> DEFINE v == [w EXCEPT !.core.fetching = TRUE]
             c == [type |-> "fetch", for |-> w.core.account]
  <2>1. /\ v \in Worlds /\ v.db = w.db /\ v.cmds = w.cmds /\ v.effects = w.effects
        /\ Alike(w.core, v.core) /\ v.core.started = w.core.started
    BY Zenon DEF Worlds, Core, Alike
  <2>2. w.core.account \in Account /\ w.core.account = w.db.bound /\ w.core.started
    BY <1>1 DEF CanSync, BoundAccount
  <2>3. c \in Command /\ c.type = "fetch" /\ c.for = w.core.account BY <2>2 DEF Command
  <2>4. StartFetch(w) = Sends(v, c) BY <1>1, Zenon DEF StartFetch
  <2> HIDE DEF v, c
  <2>5. Keeps(w, v, x) BY <2>1, KeepsQuiet
  <2>6. Keeps(v, Sends(v, c), x) BY <2>1, <2>2, <2>3, KeepsSends
  <2> QED BY <2>4, <2>5, <2>6, KeepsChain
<1>2. CASE ~(CanSync(w) /\ ~w.core.fetching)
  BY <1>2, KeepsSame DEF StartFetch
<1> QED BY <1>1, <1>2

LEMMA KeepsPump ==
  ASSUME NEW x \in Contexts, NEW w \in Worlds PROVE Keeps(w, Pump(w), x)
<1> DEFINE due == (w.db.local \ w.db.linked) \ w.core.inflight
<1>1. CASE CanUpload(w) /\ due # {}
  <2> DEFINE v == [w EXCEPT !.core.inflight = w.core.inflight \cup due]
             c == [type |-> "stage", for |-> w.core.account, items |-> due]
             s == [type |-> "send"]
  <2>0. due \in SUBSET Item BY DEF Worlds, Database
  <2>1. /\ v \in Worlds /\ v.db = w.db /\ v.cmds = w.cmds /\ v.effects = w.effects
        /\ v.core.inflight = w.core.inflight \cup due /\ v.core.pending = w.core.pending
        /\ v.core.held = w.core.held /\ v.core.unapplied = w.core.unapplied
        /\ v.core.started = w.core.started /\ v.core.deleting = w.core.deleting
    BY <2>0, Zenon DEF Worlds, Core
  <2>2. w.core.account \in Account /\ w.db.joined
    BY <1>1 DEF CanUpload, CanSync, BoundAccount
  <2>3. /\ c \in Command /\ c.type = "stage" /\ s \in Command /\ s.type = "send"
    BY <2>0, <2>2 DEF Command
  <2>4. Pump(w) = Sends(Sends(v, c), s) BY <1>1, Zenon DEF Pump
  <2>5. due \subseteq w.db.local OBVIOUS
  <2> HIDE DEF v, c, s, due
  <2>6. OnMac(v, x) = OnMac(w, x) BY <2>1 DEF OnMac
  <2>7. ASSUME Right(w, x) PROVE Right(v, x)
    <3>1. Disk(v, x) BY <2>1, <2>7 DEF Right, Disk
    <3>2. Under(v, x, v.core.started /\ ~Has(x.mail, "restart"))
      BY <2>1, <2>6, <2>7, Zenon DEF Right, Under
    <3>3. Linked(v, x) /\ Calm(v, x) BY <2>1, <2>2, <2>5, <2>7 DEF Right, Linked, Calm
    <3>4. Counted(v, x) BY <2>1, <2>7 DEF Right, Counted
    <3> QED BY <3>1, <3>2, <3>3, <3>4 DEF Right
  <2>8. Keeps(w, v, x)
    <3>1. Saved(w) => Saved(v) BY <2>1 DEF Saved
    <3>2. Proper(w, x) => Proper(v, x) BY <2>1 DEF Proper
    <3> QED BY <2>1, <2>7, <3>1, <3>2 DEF Keeps
  <2>9. Keeps(v, Sends(v, c), x) BY <2>1, <2>3, KeepsSends
  <2>10. Sends(v, c) \in Worlds BY <2>9 DEF Keeps
  <2>11. Keeps(Sends(v, c), Sends(Sends(v, c), s), x) BY <2>3, <2>10, KeepsSends
  <2>12. Keeps(w, Sends(v, c), x) BY <2>8, <2>9, KeepsChain
  <2> QED BY <2>4, <2>11, <2>12, KeepsChain
<1>2. CASE ~(CanUpload(w) /\ due # {})
  BY <1>2, KeepsSame DEF Pump
<1> QED BY <1>1, <1>2

LEMMA KeepsThenPump ==
  ASSUME NEW x \in Contexts, NEW w, NEW v, Keeps(w, v, x)
  PROVE  Keeps(w, Pump(v), x)
<1>1. v \in Worlds BY DEF Keeps
<1>2. Keeps(v, Pump(v), x) BY <1>1, KeepsPump
<1> QED BY <1>2, KeepsChain

(* A position is saved once everything it passed has been applied.         *)
LEMMA KeepsFlush ==
  ASSUME NEW x \in Contexts, NEW w \in Worlds
  PROVE  Keeps(w, FlushState(w), x) /\ Saved(FlushState(w))
<1>1. Known(w) \in Account \cup {None} BY DEF Known
<1>2. CASE w.core.unapplied > 0 \/ w.core.held
  <2>1. FlushState(w) = w BY <1>2, Zenon DEF FlushState
  <2>2. Saved(w)
    <3>1. w.core.unapplied \in Nat BY DEF Worlds, Core
    <3> QED BY <1>2, <3>1 DEF Saved
  <2> QED BY <2>1, <2>2, KeepsSame
<1>3. CASE ~(w.core.unapplied > 0 \/ w.core.held) /\ w.core.pending = None
  <2> DEFINE v == [w EXCEPT !.core.caught = w.core.caught \/ w.core.completed]
  <2>1. /\ v \in Worlds /\ v.db = w.db /\ v.cmds = w.cmds /\ v.effects = w.effects
        /\ Alike(w.core, v.core)
    BY Zenon DEF Worlds, Core, Alike
  <2>2. FlushState(w) = v BY <1>3, Zenon DEF FlushState, SavePosition
  <2> HIDE DEF v
  <2>3. Saved(v) BY <1>3, <2>1 DEF Saved, Alike
  <2> QED BY <2>1, <2>2, <2>3, KeepsQuiet
<1>4. CASE ~(w.core.unapplied > 0 \/ w.core.held) /\ w.core.pending # None
  <2> DEFINE v == [w EXCEPT !.core.caught = TRUE, !.core.pending = None,
                            !.db.ckpt = w.core.pending, !.db.owner = Known(w)]
  <2>1. /\ v \in Worlds /\ v.cmds = w.cmds /\ v.effects = w.effects
        /\ v.db.ckpt = w.core.pending /\ v.db.bound = w.db.bound /\ v.db.joined = w.db.joined
        /\ v.db.local = w.db.local /\ v.db.linked = w.db.linked /\ v.db.inbox = w.db.inbox
        /\ v.core.pending = None /\ v.core.held = w.core.held
        /\ v.core.unapplied = w.core.unapplied /\ v.core.started = w.core.started
        /\ v.core.inflight = w.core.inflight /\ v.core.deleting = w.core.deleting
    BY <1>1, Zenon DEF Worlds, Core, Database
  <2>2. FlushState(w) = v BY <1>4, Zenon DEF FlushState, SavePosition
  <2> HIDE DEF v
  <2>3. Kept(v.db, x.declined) = Kept(w.db, x.declined) BY <2>1 DEF Kept
  <2>4. OnMac(v, x) = OnMac(w, x) BY <2>1, <2>3 DEF OnMac
  <2>5. ASSUME Right(w, x) PROVE Right(v, x)
    <3>1. Waiting(w.effects.batches) = {}
      <4>1. w.core.unapplied = 0 BY <1>4 DEF Worlds, Core
      <4>2. w.effects.batches \in Seq(SUBSET Item) BY DEF Worlds, Effects
      <4>3. Cardinality(Acks(x.mail)) \in Nat BY AcksFinite DEF Contexts
      <4>4. Len(w.effects.batches) = 0
        BY <2>5, <4>1, <4>2, <4>3 DEF Right, Counted
      <4> QED BY <4>2, <4>4 DEF Waiting
    <3>2. Disk(v, x)
      BY <1>4, <2>1, <2>3, <2>5, <3>1 DEF Right, Under, Disk, OnMac
    <3>3. Under(v, x, v.core.started /\ ~Has(x.mail, "restart"))
      BY <2>1, <2>4, <2>5, Zenon DEF Right, Under
    <3>4. Linked(v, x) /\ Calm(v, x)
      BY <2>1, <2>3, <2>5, Zenon DEF Right, Linked, Calm
    <3>5. Counted(v, x) BY <2>1, <2>5 DEF Right, Counted
    <3> QED BY <3>2, <3>3, <3>4, <3>5 DEF Right
  <2>6. Saved(v) BY <2>1 DEF Saved
  <2>7. Proper(w, x) => Proper(v, x) BY <2>1 DEF Proper
  <2>8. Keeps(w, v, x) BY <2>1, <2>5, <2>6, <2>7 DEF Keeps
  <2> QED BY <2>2, <2>6, <2>8
<1> QED BY <1>2, <1>3, <1>4

(* An engine starts where the position on disk says.                       *)
LEMMA KeepsStart ==
  ASSUME NEW x \in Contexts, NEW w \in Worlds PROVE Keeps(w, Start(w), x)
<1>1. CASE w.db.enabled /\ ~w.core.started
  <2> DEFINE at == IF w.db.owner # None /\ w.db.owner = w.db.bound THEN w.db.ckpt ELSE None
             c == [type |-> "start", at |-> at]
             k == [type |-> "check"]
             q == Append(w.cmds, c)
             v == [w EXCEPT !.core.started = TRUE, !.cmds = q]
             on == v.core.started /\ ~Has(x.mail, "restart")
             S == OnMac(w, x) \cup Fetched(x.mail)
  <2>1. at \in Position \cup {None} BY DEF Worlds, Database
  <2>2. at = None \/ (at = w.db.ckpt /\ w.db.bound # None) OBVIOUS
  <2> HIDE DEF at
  <2>3. c \in Command /\ c.type = "start" /\ c.at = at /\ k \in Command /\ k.type = "check"
    BY <2>1 DEF Command
  <2> HIDE DEF c, k
  <2>4. w.cmds \in Seq(Command) /\ q \in Seq(Command) BY <2>3 DEF Worlds
  <2>5. \A n \in DOMAIN q : (n \in DOMAIN w.cmds /\ q[n] = w.cmds[n]) \/ q[n] = c
    BY <2>3, <2>4, AppendFacts
  <2>6. /\ v \in Worlds /\ v.db = w.db /\ v.cmds = q /\ v.effects = w.effects
        /\ v.core.inflight = w.core.inflight /\ v.core.pending = w.core.pending
        /\ v.core.held = w.core.held /\ v.core.unapplied = w.core.unapplied
        /\ v.core.deleting = w.core.deleting
    <3> HIDE DEF q
    <3> QED BY <2>4, Zenon DEF Worlds, Core
  <2>7. Start(w) = Sends(v, k) BY <1>1, Zenon DEF Start, Sends, q, c, k, at
  <2> HIDE DEF v
  <2>8. OnMac(v, x) = OnMac(w, x) BY <2>6 DEF OnMac
  <2>9. ASSUME Right(w, x) PROVE Right(v, x)
    <3>1. Disk(v, x) /\ Linked(v, x) /\ Calm(v, x) /\ Counted(v, x)
      BY <2>6, <2>9 DEF Right, Disk, Linked, Calm, Counted
    <3>2. ASSUME v.db.bound # None, ~v.core.held PROVE Under(v, x, on)
      <4>1. Under(w, x, w.core.started /\ ~Has(x.mail, "restart")) BY <2>9 DEF Right
      <4>2. Good(at, S) BY <2>2, <2>9 DEF Right, Disk, Good, OnMac
      <4>3. Steady(w.cmds, x.at, S, w.core.started /\ ~Has(x.mail, "restart"))
        BY <2>6, <3>2, <4>1 DEF Under
      <4>4. \A n \in DOMAIN v.cmds : v.cmds[n].type = "fetch" => v.cmds[n].for = v.db.bound
        BY <2>3, <2>5, <2>6, <3>2, <4>1 DEF Under
      <4> HIDE DEF S, on
      <4>5. Steady(v.cmds, x.at, S, on) BY <2>3, <2>4, <2>6, <4>2, <4>3, SteadyStarts
      <4>6. Steady(v.cmds, x.at, OnMac(v, x) \cup Fetched(x.mail), on) BY <2>8, <4>5 DEF S
      <4> QED BY <2>6, <2>8, <3>2, <4>1, <4>4, <4>6, Zenon DEF Under
    <3>3. Under(v, x, on) BY <3>2 DEF Under
    <3> QED BY <3>1, <3>3 DEF Right
  <2>10. Keeps(w, v, x)
    <3>1. Saved(w) => Saved(v) BY <2>6 DEF Saved
    <3>2. Proper(w, x) => Proper(v, x) BY <2>3, <2>5, <2>6 DEF Proper
    <3> QED BY <2>6, <2>9, <3>1, <3>2 DEF Keeps
  <2>11. Keeps(v, Sends(v, k), x) BY <2>3, <2>6, KeepsSends
  <2> QED BY <2>7, <2>10, <2>11, KeepsChain
<1>2. CASE ~(w.db.enabled /\ ~w.core.started)
  BY <1>2, KeepsSame DEF Start
<1> QED BY <1>1, <1>2

(* A core that stops forgets what was under way.                           *)
LEMMA KeepsStop ==
  ASSUME NEW x \in Contexts, NEW w \in Worlds
  PROVE  LET v == Stop(w)
         IN  /\ v \in Worlds /\ v.db = w.db /\ (Loose(w, x) => Right(v, x))
             /\ Saved(w) => Saved(v)
             /\ Proper(w, x) => Proper(v, x)
<1> DEFINE u == [w EXCEPT !.core.started = FALSE, !.core.account = "unknown",
                          !.core.inflight = {}, !.core.fetching = FALSE,
                          !.core.deleting = "idle"]
           c == [type |-> "stop"]
           v == Stop(w)
<1>1. /\ u \in Worlds /\ u.db = w.db /\ u.cmds = w.cmds /\ u.effects = w.effects
      /\ u.core.pending = w.core.pending /\ u.core.held = w.core.held
      /\ u.core.unapplied = w.core.unapplied /\ u.core.started = FALSE
      /\ u.core.inflight = {} /\ u.core.deleting = "idle"
  BY ZenonT(30) DEF Worlds, Core
<1>2. c \in Command /\ c.type = "stop" BY DEF Command
<1>3. v = Sends(u, c) \/ v = u BY Zenon DEF Stop
<1> HIDE DEF u, c, v
<1>4. OnMac(u, x) = OnMac(w, x) BY <1>1 DEF OnMac
<1>5. ASSUME Loose(w, x) PROVE Right(u, x)
  <2>1. Disk(u, x) /\ Linked(u, x) /\ Calm(u, x) /\ Counted(u, x)
    BY <1>1, <1>5 DEF Loose, Disk, Linked, Calm, Counted
  <2>2. Under(u, x, FALSE) BY <1>1, <1>4, <1>5, Zenon DEF Loose, Under
  <2>3. Under(u, x, u.core.started /\ ~Has(x.mail, "restart"))
    BY <1>1, <2>2 DEF Under, Steady
  <2> QED BY <2>1, <2>3 DEF Right
<1>6. (Saved(w) => Saved(u)) /\ (Proper(w, x) => Proper(u, x)) BY <1>1 DEF Saved, Proper
<1>7. Keeps(u, u, x) /\ Keeps(u, Sends(u, c), x) /\ Sends(u, c).db = u.db
  BY <1>1, <1>2, KeepsSame, KeepsSends
<1>8. Keeps(u, v, x) /\ v.db = w.db BY <1>1, <1>3, <1>7
<1>9. /\ v \in Worlds /\ v.db = w.db /\ (Loose(w, x) => Right(v, x))
      /\ Saved(w) => Saved(v)
      /\ Proper(w, x) => Proper(v, x)
  BY <1>1, <1>5, <1>6, <1>8, Zenon DEF Keeps
<1> QED BY <1>9, Zenon DEF v

LEMMA KeepsAccount ==
  ASSUME NEW x \in Contexts, NEW w \in Worlds, NEW a \in Account \cup {None},
         ~Has(x.mail, "restart")
  PROVE  Keeps(w, OnAccount(w, a), x)
<1>1. CASE a = None
  <2> DEFINE v == [w EXCEPT !.core.account = "unavailable"]
  <2>1. /\ v \in Worlds /\ v.db = w.db /\ v.cmds = w.cmds /\ v.effects = w.effects
        /\ Alike(w.core, v.core)
    BY Zenon DEF Worlds, Core, Alike
  <2>2. OnAccount(w, a) = v BY <1>1, Zenon DEF OnAccount
  <2> HIDE DEF v
  <2> QED BY <2>1, <2>2, KeepsQuiet
<1>2. CASE a # None
  <2> DEFINE known == [w EXCEPT !.core.account = a]
             asked == [known EXCEPT !.effects.confirm = a]
             paused == [known EXCEPT !.core.paused = TRUE, !.effects.mismatch = a]
  <2>1. a \in Account BY <1>2
  <2>2. /\ known \in Worlds /\ known.db = w.db /\ known.cmds = w.cmds
        /\ known.effects = w.effects /\ Alike(w.core, known.core)
    BY <2>1, Zenon DEF Worlds, Core, Alike
  <2>3. \/ w.db.bound = None /\ OnAccount(w, a) = asked
        \/ OnAccount(w, a) = StartFetch(known) \/ OnAccount(w, a) = paused
    BY <1>2, Zenon DEF OnAccount, OnAvailable
  <2> HIDE DEF known
  <2>4. /\ asked \in Worlds /\ asked.db = known.db /\ asked.cmds = known.cmds
        /\ asked.effects.batches = known.effects.batches /\ Alike(known.core, asked.core)
    BY <2>1, <2>2, Zenon DEF Worlds, Effects, Alike
  <2>5. /\ paused \in Worlds /\ paused.db = known.db /\ paused.cmds = known.cmds
        /\ paused.effects.batches = known.effects.batches
        /\ paused.effects.confirm = known.effects.confirm /\ Alike(known.core, paused.core)
    BY <2>1, <2>2, Zenon DEF Worlds, Effects, Core, Alike
  <2> HIDE DEF asked, paused
  <2>6. Keeps(w, known, x) BY <2>2, KeepsQuiet
  <2>7. CASE w.db.bound = None /\ OnAccount(w, a) = asked
    <3>1. Keeps(known, asked, x) BY <2>2, <2>4, <2>7, KeepsQuiet
    <3> QED BY <2>6, <2>7, <3>1, KeepsChain
  <2>8. CASE OnAccount(w, a) = StartFetch(known)
    <3>1. Keeps(known, StartFetch(known), x) BY <2>2, KeepsStartFetch
    <3> QED BY <2>6, <2>8, <3>1, KeepsChain
  <2>9. CASE OnAccount(w, a) = paused
    <3>1. Keeps(known, paused, x) BY <2>2, <2>5, KeepsQuiet
    <3> QED BY <2>6, <2>9, <3>1, KeepsChain
  <2> QED BY <2>3, <2>7, <2>8, <2>9
<1> QED BY <1>1, <1>2

LEMMA KeepsAccountChange ==
  ASSUME NEW x \in Contexts, NEW w \in Worlds, NEW a \in Account \cup {None},
         ~Has(x.mail, "restart")
  PROVE  Keeps(w, OnAccountChange(w, a), x)
<1> DEFINE v == [w EXCEPT !.core.inflight = {}, !.core.fetching = FALSE]
<1>1. /\ v \in Worlds /\ v.db = w.db /\ v.cmds = w.cmds /\ v.effects = w.effects
      /\ v.core.inflight = {} /\ v.core.pending = w.core.pending /\ v.core.held = w.core.held
      /\ v.core.unapplied = w.core.unapplied /\ v.core.started = w.core.started
      /\ v.core.deleting = w.core.deleting
  BY Zenon DEF Worlds, Core
<1>2. OnAccountChange(w, a) = OnAccount(v, a) BY Zenon DEF OnAccountChange
<1> HIDE DEF v
<1>3. Alike(w.core, v.core) BY <1>1 DEF Alike
<1>4. Keeps(w, v, x) /\ Keeps(v, OnAccount(v, a), x) BY <1>1, <1>3, KeepsQuiet, KeepsAccount
<1> QED BY <1>2, <1>4, KeepsChain

LEMMA KeepsError ==
  ASSUME NEW x \in Contexts, NEW w \in Worlds, NEW refused \in BOOLEAN
  PROVE  Keeps(w, OnError(w, refused), x)
<1> DEFINE v == OnError(w, refused)
<1>1. /\ v \in Worlds /\ v.db = w.db /\ v.cmds = w.cmds /\ v.effects = w.effects
      /\ Alike(w.core, v.core)
  BY Zenon DEF OnError, Worlds, Core, Alike
<1> HIDE DEF v
<1>2. Keeps(w, v, x) BY <1>1, KeepsQuiet
<1> QED BY <1>2 DEF v

LEMMA KeepsSendFailed ==
  ASSUME NEW x \in Contexts, NEW w \in Worlds PROVE Keeps(w, OnSendFailed(w), x)
<1> DEFINE e == OnError(w, FALSE)
           v == [e EXCEPT !.core.inflight = {}]
<1>1. Keeps(w, e, x) BY KeepsError
<1>2. e \in Worlds BY <1>1 DEF Keeps
<1>3. OnSendFailed(w) = v BY Zenon DEF OnSendFailed
<1> HIDE DEF e
<1>4. /\ v \in Worlds /\ v.db = e.db /\ v.cmds = e.cmds /\ v.effects = e.effects
      /\ v.core.inflight = {} /\ v.core.pending = e.core.pending /\ v.core.held = e.core.held
      /\ v.core.unapplied = e.core.unapplied /\ v.core.started = e.core.started
      /\ v.core.deleting = e.core.deleting
  BY <1>2, Zenon DEF Worlds, Core
<1> HIDE DEF v
<1>5. Keeps(e, v, x) BY <1>2, <1>4, KeepsQuiet DEF Alike
<1> QED BY <1>1, <1>3, <1>5, KeepsChain

LEMMA KeepsZoneDeleted ==
  ASSUME NEW x \in Contexts, NEW w \in Worlds PROVE Keeps(w, OnZoneDeleted(w), x)
<1>1. CASE w.core.deleting = "requested"
  <2> DEFINE v == [w EXCEPT !.core.deleting = "confirmed"]
  <2>1. /\ v \in Worlds /\ v.db = w.db /\ v.cmds = w.cmds /\ v.effects = w.effects
        /\ v.core.inflight = w.core.inflight /\ v.core.pending = w.core.pending
        /\ v.core.held = w.core.held /\ v.core.unapplied = w.core.unapplied
        /\ v.core.started = w.core.started
    BY Zenon DEF Worlds, Core
  <2>2. OnZoneDeleted(w) = v BY <1>1, Zenon DEF OnZoneDeleted
  <2> HIDE DEF v
  <2>3. Alike(w.core, v.core) BY <1>1, <2>1 DEF Alike
  <2> QED BY <2>1, <2>2, <2>3, KeepsQuiet
<1>2. CASE w.core.deleting # "requested" BY <1>2, KeepsSame DEF OnZoneDeleted
<1> QED BY <1>1, <1>2

LEMMA KeepsClearPause ==
  ASSUME NEW x \in Contexts, NEW w \in Worlds PROVE Keeps(w, [w EXCEPT !.core.paused = FALSE], x)
<1> DEFINE v == [w EXCEPT !.core.paused = FALSE]
<1>1. /\ v \in Worlds /\ v.db = w.db /\ v.cmds = w.cmds /\ v.effects = w.effects
      /\ Alike(w.core, v.core)
  BY Zenon DEF Worlds, Core, Alike
<1> HIDE DEF v
<1>2. Keeps(w, v, x) BY <1>1, KeepsQuiet
<1> QED BY <1>2 DEF v

(* The user asked for the deletion while bound as now.                     *)
LEMMA KeepsDelete ==
  ASSUME NEW x \in Contexts, NEW w \in Worlds, w.db.bound \in x.asked \cup {None}
  PROVE  Keeps(w, DeleteCloudData(w), x)
<1>1. CASE w.core.started /\ BoundAccount(w)
  <2> DEFINE v == [w EXCEPT !.core.deleting = "requested"]
             c == [type |-> "delete", for |-> w.core.account]
  <2>1. /\ v \in Worlds /\ v.db = w.db /\ v.cmds = w.cmds /\ v.effects = w.effects
        /\ Alike(w.core, v.core)
    BY Zenon DEF Worlds, Core, Alike
  <2>2. w.core.account \in Account /\ w.core.account \in x.asked
    BY <1>1, SessionAssumption DEF BoundAccount
  <2>3. c \in Command /\ c.type = "delete" /\ c.for \in x.asked BY <2>2 DEF Command
  <2>4. DeleteCloudData(w) = Sends(v, c) BY <1>1, Zenon DEF DeleteCloudData
  <2> HIDE DEF v, c
  <2>5. Keeps(w, v, x) BY <2>1, KeepsQuiet
  <2>6. Keeps(v, Sends(v, c), x) BY <2>1, <2>3, KeepsSends
  <2> QED BY <2>4, <2>5, <2>6, KeepsChain
<1>2. CASE ~(w.core.started /\ BoundAccount(w)) BY <1>2, KeepsSame DEF DeleteCloudData
<1> QED BY <1>1, <1>2

(* What was sent is linked, and was on this Mac.                           *)
LEMMA KeepsSent ==
  ASSUME NEW x \in Contexts, NEW w \in Worlds, NEW items \in SUBSET Item,
         ~Has(x.mail, "restart")
  PROVE  Keeps(w, OnSent(w, items), x)
<1> DEFINE known == w.db.linked \cup IF w.db.joined THEN items \cap w.core.inflight ELSE {}
           rest == w.core.inflight \ items
           v == [w EXCEPT !.db.linked = known, !.core.inflight = rest]
<1>1. known \in SUBSET Item /\ rest \in SUBSET Item /\ rest \subseteq w.core.inflight
      /\ known \subseteq w.db.linked \cup w.core.inflight /\ (~w.db.joined => known = w.db.linked)
  BY DEF Worlds, Database, Core
<1>2. OnSent(w, items) = v BY Zenon DEF OnSent
<1> HIDE DEF known, rest
<1>3. /\ v \in Worlds /\ v.cmds = w.cmds /\ v.effects = w.effects /\ v.db.linked = known
      /\ v.db.local = w.db.local /\ v.db.bound = w.db.bound /\ v.db.joined = w.db.joined
      /\ v.db.inbox = w.db.inbox /\ v.db.ckpt = w.db.ckpt
      /\ v.core.pending = w.core.pending /\ v.core.held = w.core.held
      /\ v.core.unapplied = w.core.unapplied /\ v.core.started = w.core.started
      /\ v.core.inflight = rest /\ v.core.deleting = w.core.deleting
  BY <1>1, Zenon DEF Worlds, Core, Database
<1> HIDE DEF v
<1>4. Kept(v.db, x.declined) = Kept(w.db, x.declined) BY <1>3 DEF Kept
<1>5. OnMac(v, x) = OnMac(w, x) BY <1>3, <1>4 DEF OnMac
<1>6. ASSUME Right(w, x) PROVE Right(v, x)
  <2>1. Disk(v, x) /\ Calm(v, x) /\ Counted(v, x)
    BY <1>1, <1>3, <1>4, <1>6 DEF Right, Disk, Calm, Counted
  <2>2. Under(v, x, v.core.started /\ ~Has(x.mail, "restart"))
    BY <1>3, <1>5, <1>6, Zenon DEF Right, Under
  <2>3. Linked(v, x)
    <3>1. w.db.joined => w.db.local \subseteq Kept(w.db, x.declined) BY DEF Kept
    <3>2. w.db.joined => w.core.inflight \subseteq w.db.local BY <1>6 DEF Right, Calm
    <3> QED BY <1>1, <1>3, <1>4, <1>6, <3>1, <3>2 DEF Right, Linked
  <2> QED BY <2>1, <2>2, <2>3 DEF Right
<1>7. (Saved(w) => Saved(v)) /\ (Proper(w, x) => Proper(v, x)) BY <1>3 DEF Saved, Proper
<1>8. Keeps(w, v, x) BY <1>3, <1>6, <1>7 DEF Keeps
<1> QED BY <1>2, <1>8

-----------------------------------------------------------------------------
(*                        A message is handled                             *)

(* The context once the first message is taken.                            *)
Next1(x) == [x EXCEPT !.mail = Tail(x.mail)]

LEMMA ContextTaken ==
  ASSUME NEW x \in Contexts, x.mail # <<>>
  PROVE  /\ Next1(x) \in Contexts /\ Next1(x).mail = Tail(x.mail)
         /\ Next1(x).declined = x.declined /\ Next1(x).asked = x.asked /\ Next1(x).at = x.at
         /\ x.mail \in Seq(Event) /\ Head(x.mail) \in Event
<1>1. x.mail \in Seq(Event) BY DEF Contexts
<1>2. Tail(x.mail) \in Seq(Event) /\ Head(x.mail) \in Event BY <1>1, TailFacts
<1> QED BY <1>1, <1>2, Zenon DEF Contexts, Next1

(* A message that brings no items leaves where the engine is alone; what a *)
(* state says was passed is here, if it comes first.                       *)
LEMMA UnderTaken ==
  ASSUME NEW x \in Contexts, x.mail # <<>>, NEW w \in Worlds, NEW on,
         Head(x.mail).type # "fetched", Under(w, x, on)
  PROVE  /\ Under(w, Next1(x), on) /\ Under(w, Next1(x), FALSE)
         /\ w.db.bound # None /\ ~w.core.held /\ Head(x.mail).type = "state" =>
              /\ Head(x.mail).at.of = w.db.bound
              /\ Head(x.mail).at.seen \subseteq OnMac(w, Next1(x))
<1> DEFINE y == Next1(x)
           q == x.mail
           t == Tail(x.mail)
           S == OnMac(w, x) \cup Fetched(q)
<1>1. /\ y \in Contexts /\ y.mail = t /\ y.declined = x.declined /\ y.at = x.at
      /\ q \in Seq(Event) /\ w.cmds \in Seq(Command)
  BY ContextTaken DEF Worlds
<1>2. /\ Fetched(q) \subseteq Fetched(t) /\ Before(q, 1) = {}
      /\ \A k \in DOMAIN t : Before(q, k + 1) \subseteq Before(t, k)
  BY <1>1, MailTaken
<1>3. /\ \A k \in DOMAIN t : k + 1 \in DOMAIN q /\ t[k] = q[k + 1]
      /\ 1 \in DOMAIN q /\ Head(q) = q[1]
  BY <1>1, TailFacts
<1> HIDE DEF y, q, t
<1>4. OnMac(w, y) = OnMac(w, x) BY <1>1 DEF OnMac
<1>5. ASSUME w.db.bound # None, ~w.core.held
      PROVE  /\ Under(w, y, on) /\ Under(w, y, FALSE)
             /\ Head(q).type = "state" =>
                  Head(q).at.of = w.db.bound /\ Head(q).at.seen \subseteq OnMac(w, y)
  <2>1. \A k \in DOMAIN q : q[k].type = "state" =>
          q[k].at.of = w.db.bound /\ q[k].at.seen \subseteq OnMac(w, x) \cup Before(q, k)
    BY <1>5 DEF Under, q
  <2>2. Steady(w.cmds, x.at, S, on) BY <1>5 DEF Under, q
  <2>3. \A k \in DOMAIN t : t[k].type = "state" =>
          t[k].at.of = w.db.bound /\ t[k].at.seen \subseteq OnMac(w, y) \cup Before(t, k)
    BY <1>2, <1>3, <1>4, <2>1
  <2>4. Steady(w.cmds, y.at, OnMac(w, y) \cup Fetched(t), on)
    <3> DEFINE T == OnMac(w, y) \cup Fetched(t)
    <3>1. S \subseteq T BY <1>2, <1>4
    <3> HIDE DEF S, T
    <3>2. Steady(w.cmds, x.at, T, on) BY <1>1, <2>2, <3>1, SteadyMore
    <3> QED BY <1>1, <3>2 DEF T
  <2>5. Steady(w.cmds, y.at, OnMac(w, y) \cup Fetched(t), FALSE) BY <2>4 DEF Steady
  <2>6. /\ w.core.pending # None =>
             w.core.pending.of = w.db.bound /\ w.core.pending.seen \subseteq OnMac(w, y)
        /\ \A k \in DOMAIN w.cmds : w.cmds[k].type = "fetch" => w.cmds[k].for = w.db.bound
    BY <1>4, <1>5 DEF Under
  <2>7. Under(w, y, on) /\ Under(w, y, FALSE)
    BY <1>1, <1>5, <2>3, <2>4, <2>5, <2>6, Zenon DEF Under
  <2>8. Head(q).type = "state" =>
          Head(q).at.of = w.db.bound /\ Head(q).at.seen \subseteq OnMac(w, y)
    BY <1>2, <1>3, <1>4, <2>1
  <2> QED BY <2>7, <2>8
<1>6. CASE ~(w.db.bound # None /\ ~w.core.held) BY <1>6 DEF Under, y, q
<1> QED BY <1>5, <1>6 DEF y, q

LEMMA RightTaken ==
  ASSUME NEW x \in Contexts, x.mail # <<>>, NEW w \in Worlds, Right(w, x),
         Head(x.mail).type \notin {"fetched", "applied"}
  PROVE  /\ Loose(w, Next1(x))
         /\ Head(x.mail).type \notin {"stop", "restart"} => Right(w, Next1(x))
<1> DEFINE y == Next1(x)
<1>1. /\ y \in Contexts /\ y.mail = Tail(x.mail) /\ y.declined = x.declined
      /\ x.mail \in Seq(Event)
  BY ContextTaken
<1>2. \A type : Has(x.mail, type) <=> Head(x.mail).type = type \/ Has(y.mail, type)
  BY <1>1, MailTaken
<1>3. Cardinality(Acks(y.mail)) = Cardinality(Acks(x.mail)) BY <1>1, AcksTail
<1> HIDE DEF y
<1>4. Disk(w, y) /\ Linked(w, y) /\ Counted(w, y)
  BY <1>1, <1>3 DEF Right, Disk, Linked, Counted
<1>5. Under(w, y, FALSE) /\ Under(w, y, w.core.started /\ ~Has(x.mail, "restart"))
  BY UnderTaken DEF Right, y
<1>6. ASSUME Head(x.mail).type \notin {"stop", "restart"} PROVE Right(w, y)
  <2>1. Calm(w, y) BY <1>2, <1>6 DEF Right, Calm
  <2>2. Has(x.mail, "restart") <=> Has(y.mail, "restart") BY <1>2, <1>6
  <2>3. Under(w, y, w.core.started /\ ~Has(y.mail, "restart"))
    BY <1>5, <2>2 DEF Under, Steady
  <2> QED BY <1>4, <2>1, <2>3 DEF Right
<1> QED BY <1>4, <1>5, <1>6 DEF Loose, y

(* A batch that was applied is counted off.                                *)
LEMMA RightApplied ==
  ASSUME NEW x \in Contexts, x.mail # <<>>, NEW w \in Worlds, Head(x.mail).type = "applied"
  PROVE  LET v == RemoteApplied(w)
             y == Next1(x)
         IN  /\ v \in Worlds /\ v.db.bound = w.db.bound /\ v.db.joined = w.db.joined
             /\ Right(w, x) => Right(v, y)
             /\ Saved(v)
             /\ Proper(w, x) => Proper(v, y)
<1> DEFINE n == IF w.core.unapplied = 0 THEN 0 ELSE w.core.unapplied - 1
           u == [w EXCEPT !.core.unapplied = n]
           f == FlushState(u)
           v == RemoteApplied(w)
           y == Next1(x)
<1>0. n \in Nat BY DEF Worlds, Core
<1>1. v = Pump(f) BY Zenon DEF RemoteApplied
<1>2. (w.core.unapplied > 0 => n = w.core.unapplied - 1) /\ w.core.unapplied \in Nat
  BY DEF Worlds, Core
<1> HIDE DEF n
<1>3. /\ u \in Worlds /\ u.db = w.db /\ u.cmds = w.cmds /\ u.effects = w.effects
      /\ u.core.inflight = w.core.inflight /\ u.core.pending = w.core.pending
      /\ u.core.held = w.core.held /\ u.core.unapplied = n
      /\ u.core.started = w.core.started /\ u.core.deleting = w.core.deleting
  BY <1>0, Zenon DEF Worlds, Core
<1> HIDE DEF u
<1>4. /\ y \in Contexts /\ y.mail = Tail(x.mail) /\ y.declined = x.declined
      /\ y.asked = x.asked /\ x.mail \in Seq(Event)
  BY ContextTaken
<1>5. \A type : Has(x.mail, type) <=> Head(x.mail).type = type \/ Has(y.mail, type)
  BY <1>4, MailTaken
<1>6. ASSUME Right(w, x) PROVE Right(u, y)
  <2>1. Counted(u, y)
    <3>1. Cardinality(Acks(y.mail)) = Cardinality(Acks(x.mail)) - 1
          /\ Cardinality(Acks(y.mail)) \in Nat /\ Cardinality(Acks(x.mail)) \in Nat
      BY <1>4, AcksTail, AcksFinite DEF Contexts
    <3>2. Len(w.effects.batches) \in Nat BY DEF Worlds, Effects
    <3>3. w.core.unapplied = Len(w.effects.batches) + Cardinality(Acks(x.mail))
      BY <1>6 DEF Right, Counted
    <3> QED BY <1>2, <1>3, <3>1, <3>2, <3>3 DEF Counted
  <2>2. Disk(u, y) /\ Linked(u, y) BY <1>3, <1>4, <1>6 DEF Right, Disk, Linked
  <2>3. Calm(u, y) BY <1>3, <1>5, <1>6 DEF Right, Calm
  <2>4. OnMac(u, y) = OnMac(w, y) BY <1>3 DEF OnMac
  <2>5. Under(w, y, w.core.started /\ ~Has(x.mail, "restart"))
    BY <1>6, UnderTaken DEF Right
  <2>6. Has(x.mail, "restart") <=> Has(y.mail, "restart") BY <1>5
  <2>7. Under(w, y, w.core.started /\ ~Has(y.mail, "restart")) BY <2>5, <2>6 DEF Under, Steady
  <2> HIDE DEF y
  <2>8. Under(u, y, u.core.started /\ ~Has(y.mail, "restart"))
    BY <1>3, <2>4, <2>7, Zenon DEF Under
  <2> QED BY <2>1, <2>2, <2>3, <2>8 DEF Right
<1>7. Proper(w, x) => Proper(u, y) BY <1>3, <1>4 DEF Proper
<1> HIDE DEF y, v, f
<1>8. Keeps(u, f, y) /\ Saved(f) BY <1>3, <1>4, KeepsFlush DEF f
<1>9. f \in Worlds BY <1>8 DEF Keeps
<1>10. Keeps(f, v, y) BY <1>1, <1>4, <1>9, KeepsPump
<1>11. /\ v \in Worlds /\ v.db.bound = w.db.bound /\ v.db.joined = w.db.joined
       /\ Right(w, x) => Right(v, y)
       /\ Saved(v)
       /\ Proper(w, x) => Proper(v, y)
  BY <1>3, <1>6, <1>7, <1>8, <1>10, Zenon DEF Keeps
<1> QED BY <1>11, Zenon DEF v, y

LEMMA WaitingAppend ==
  ASSUME NEW b \in Seq(SUBSET Item), NEW S \in SUBSET Item
  PROVE  Waiting(Append(b, S)) = Waiting(b) \cup S
<1> DEFINE c == Append(b, S)
<1>1. /\ \A k \in DOMAIN b : k \in DOMAIN c /\ c[k] = b[k]
      /\ \A k \in DOMAIN c : (k \in DOMAIN b /\ c[k] = b[k]) \/ c[k] = S
      /\ Len(b) + 1 \in DOMAIN c /\ c[Len(b) + 1] = S
  BY AppendFacts
<1> HIDE DEF c
<1>2. Waiting(c) \subseteq Waiting(b) \cup S BY <1>1 DEF Waiting
<1>3. Waiting(b) \subseteq Waiting(c) BY <1>1 DEF Waiting
<1>4. S \subseteq Waiting(c) BY <1>1 DEF Waiting
<1> QED BY <1>2, <1>3, <1>4 DEF c

(* Items arrive: before or after the merge they stay on this Mac, or no    *)
(* position will be saved any more.                                        *)
LEMMA RightFetched ==
  ASSUME NEW x \in Contexts, x.mail # <<>>, NEW w \in Worlds, NEW u \in Worlds,
         Head(x.mail).type = "fetched", Right(w, x),
         u.cmds = w.cmds, u.db.bound = w.db.bound, u.db.joined = w.db.joined,
         u.db.ckpt = w.db.ckpt, u.db.linked = w.db.linked, u.db.local = w.db.local,
         w.db.inbox \subseteq u.db.inbox,
         u.core.inflight = w.core.inflight, u.core.pending = w.core.pending,
         w.core.held => u.core.held, u.core.started = w.core.started,
         Waiting(w.effects.batches) \subseteq Waiting(u.effects.batches),
         u.core.held \/ Head(x.mail).items \ w.db.linked \subseteq
                          u.db.inbox \cup Waiting(u.effects.batches),
         u.core.unapplied - Len(u.effects.batches) = w.core.unapplied - Len(w.effects.batches),
         ~w.db.joined => u.effects.batches = w.effects.batches
  PROVE  Right(u, Next1(x))
<1> DEFINE y == Next1(x)
           q == x.mail
           t == Tail(x.mail)
           items == Head(x.mail).items
           on == w.core.started /\ ~Has(q, "restart")
<1>1. /\ y \in Contexts /\ y.mail = t /\ y.declined = x.declined /\ y.at = x.at
      /\ q \in Seq(Event) /\ w.cmds \in Seq(Command)
  BY ContextTaken DEF Worlds
<1>2. /\ Fetched(q) \subseteq Fetched(t) \cup items
      /\ \A k \in DOMAIN t : Before(q, k + 1) \subseteq Before(t, k) \cup items
      /\ \A type : Has(q, type) <=> "fetched" = type \/ Has(t, type)
  BY <1>1, MailTaken
<1>3. /\ \A k \in DOMAIN t : k + 1 \in DOMAIN q /\ t[k] = q[k + 1]
  BY <1>1, TailFacts
<1>4. Cardinality(Acks(t)) = Cardinality(Acks(q)) /\ Cardinality(Acks(t)) \in Nat
  BY <1>1, AcksTail, AcksFinite DEF Contexts
<1>5. /\ Len(w.effects.batches) \in Nat /\ Len(u.effects.batches) \in Nat
      /\ u.core.unapplied \in Nat /\ w.core.unapplied \in Nat
  BY DEF Worlds, Effects, Core
<1> HIDE DEF y, q, t, items
<1>6. Kept(w.db, x.declined) \subseteq Kept(u.db, y.declined) BY <1>1 DEF Kept
<1>7. OnMac(w, x) \subseteq OnMac(u, y) BY <1>6 DEF OnMac
<1>8. u.core.held \/ items \subseteq OnMac(u, y)
  <2>1. w.db.linked \subseteq Kept(w.db, x.declined) BY DEF Right, Linked
  <2>2. u.db.inbox \subseteq Kept(u.db, y.declined) BY DEF Kept
  <2> QED BY <1>6, <2>1, <2>2 DEF OnMac, items
<1>9. Disk(u, y) BY <1>6 DEF Right, Disk
<1>10. Linked(u, y) BY <1>6 DEF Right, Linked
<1>11. Calm(u, y) BY <1>1, <1>2 DEF Right, Calm, q
<1>12. Counted(u, y)
  <2> DEFINE n == Cardinality(Acks(q))
  <2>1. w.core.unapplied = Len(w.effects.batches) + n BY DEF Right, Counted, q
  <2>2. Cardinality(Acks(y.mail)) = n /\ n \in Nat BY <1>1, <1>4
  <2> HIDE DEF n
  <2> DEFINE a == u.core.unapplied
             b == Len(u.effects.batches)
             c == w.core.unapplied
             e == Len(w.effects.batches)
  <2>3. a \in Nat /\ b \in Nat /\ c \in Nat /\ e \in Nat /\ a - b = c - e /\ c = e + n
    BY <1>5, <2>1
  <2> HIDE DEF a, b, c, e
  <2>4. a = b + n BY <2>2, <2>3
  <2> QED BY <2>2, <2>4 DEF Counted, a, b
<1>13. ASSUME u.db.bound # None, ~u.core.held
       PROVE  Under(u, y, on)
  <2>1. Under(w, x, on) BY DEF Right, q
  <2>2. /\ w.core.pending # None =>
             w.core.pending.of = w.db.bound /\ w.core.pending.seen \subseteq OnMac(w, x)
        /\ \A k \in DOMAIN q : q[k].type = "state" =>
             q[k].at.of = w.db.bound /\ q[k].at.seen \subseteq OnMac(w, x) \cup Before(q, k)
        /\ \A k \in DOMAIN w.cmds : w.cmds[k].type = "fetch" => w.cmds[k].for = w.db.bound
        /\ Steady(w.cmds, x.at, OnMac(w, x) \cup Fetched(q), on)
    BY <1>13, <2>1, Zenon DEF Under, q
  <2>3. \A k \in DOMAIN t : t[k].type = "state" =>
          t[k].at.of = u.db.bound /\ t[k].at.seen \subseteq OnMac(u, y) \cup Before(t, k)
    BY <1>2, <1>3, <1>7, <1>8, <1>13, <2>2
  <2>4. Steady(u.cmds, y.at, OnMac(u, y) \cup Fetched(t), on)
    <3> DEFINE S == OnMac(w, x) \cup Fetched(q)
               T == OnMac(u, y) \cup Fetched(t)
    <3>1. S \subseteq T BY <1>2, <1>7, <1>8, <1>13
    <3>2. Steady(w.cmds, x.at, S, on) BY <2>2
    <3> HIDE DEF S, T, on
    <3>3. Steady(w.cmds, x.at, T, on) BY <1>1, <3>1, <3>2, SteadyMore
    <3> QED BY <1>1, <3>3 DEF T
  <2>5. u.core.pending # None =>
          u.core.pending.of = u.db.bound /\ u.core.pending.seen \subseteq OnMac(u, y)
    BY <1>7, <2>2
  <2>6. \A k \in DOMAIN u.cmds : u.cmds[k].type = "fetch" => u.cmds[k].for = u.db.bound
    BY <2>2
  <2> QED BY <1>1, <2>3, <2>4, <2>5, <2>6, Zenon DEF Under
<1>14. Under(u, y, on) BY <1>13 DEF Under
<1>15. Under(u, y, u.core.started /\ ~Has(y.mail, "restart"))
  <2>1. Has(q, "restart") <=> Has(y.mail, "restart") BY <1>1, <1>2
  <2> QED BY <1>14, <2>1 DEF Under, Steady
<1> QED BY <1>9, <1>10, <1>11, <1>12, <1>15 DEF Right, y

(* What a handler does, in the context of the message it took.             *)
Does(w, v, x) ==
  LET y == Next1(x)
  IN  /\ v \in Worlds /\ v.db.bound = w.db.bound /\ v.db.joined = w.db.joined
      /\ Right(w, x) => Right(v, y)
      /\ Saved(w) => Saved(v)
      /\ Proper(w, x) => Proper(v, y)

LEMMA DoesThenPump ==
  ASSUME NEW x \in Contexts, x.mail # <<>>, NEW w, NEW v, Does(w, v, x)
  PROVE  Does(w, Pump(v), x)
<1> DEFINE y == Next1(x)
           z == Pump(v)
<1>1. y \in Contexts BY ContextTaken
<1>2. v \in Worlds BY DEF Does
<1>3. Keeps(v, z, y) BY <1>1, <1>2, KeepsPump
<1> HIDE DEF y, z
<1>4. Does(w, z, x) BY <1>3, Zenon DEF Does, Keeps, y
<1> QED BY <1>4 DEF z

(* A handler whose message carries nothing that has to be accounted for.   *)
LEMMA DoesKeeping ==
  ASSUME NEW x \in Contexts, x.mail # <<>>, NEW w \in Worlds, NEW v, Keeps(w, v, Next1(x)),
         Head(x.mail).type \notin {"fetched", "applied", "stop", "restart"}
  PROVE  Does(w, v, x)
<1>1. Right(w, x) => Right(w, Next1(x)) BY RightTaken
<1>2. Proper(w, x) => Proper(w, Next1(x)) BY ContextTaken DEF Proper
<1> QED BY <1>1, <1>2, Zenon DEF Does, Keeps

LEMMA DoesFetched ==
  ASSUME NEW x \in Contexts, x.mail # <<>>, NEW w \in Worlds, NEW kept \in BOOLEAN,
         Head(x.mail).type = "fetched"
  PROVE  Does(w, OnFetched(w, Head(x.mail).items, kept), x)
<1> DEFINE items == Head(x.mail).items
           new == items \ w.db.linked
           over == [w EXCEPT !.core.fetching = FALSE]
           inbox == [over EXCEPT !.db.inbox = w.db.inbox \cup new]
           hold == [over EXCEPT !.core.held = TRUE]
           batch == [over EXCEPT !.core.unapplied = w.core.unapplied + 1,
                                 !.effects.batches = Append(w.effects.batches, new)]
           u == OnFetched(w, items, kept)
           y == Next1(x)
<1>1. /\ y \in Contexts /\ y.declined = x.declined /\ y.asked = x.asked
      /\ Head(x.mail) \in Event
  BY ContextTaken
<1>2. items \in SUBSET Item BY <1>1, EventFields
<1>3. /\ over \in Worlds /\ over.db = w.db /\ over.cmds = w.cmds /\ over.effects = w.effects
      /\ over.core.inflight = w.core.inflight /\ over.core.pending = w.core.pending
      /\ over.core.held = w.core.held /\ over.core.unapplied = w.core.unapplied
      /\ over.core.started = w.core.started /\ over.core.deleting = w.core.deleting
  BY Zenon DEF Worlds, Core
<1>4. \/ new = {} /\ u = over
      \/ ~w.db.joined /\ u = inbox
      \/ ~w.db.joined /\ u = hold
      \/ w.db.joined /\ u = batch
  BY Zenon DEF OnFetched
<1>5. /\ w.core.unapplied \in Nat /\ w.core.unapplied + 1 \in Nat /\ w.core.unapplied + 1 # 0
      /\ w.effects.batches \in Seq(SUBSET Item)
  BY DEF Worlds, Core, Effects
<1>6. w.db.inbox \cup new \in SUBSET Item /\ new \in SUBSET Item BY <1>2 DEF Worlds, Database
<1>7. /\ Append(w.effects.batches, new) \in Seq(SUBSET Item)
      /\ Len(Append(w.effects.batches, new)) = Len(w.effects.batches) + 1
      /\ Len(w.effects.batches) \in Nat
      /\ Waiting(Append(w.effects.batches, new)) = Waiting(w.effects.batches) \cup new
  <2> DEFINE b == w.effects.batches
  <2>1. b \in Seq(SUBSET Item) /\ new \in SUBSET Item BY <1>5, <1>6
  <2> HIDE DEF b, new
  <2>2. Waiting(Append(b, new)) = Waiting(b) \cup new BY <2>1, WaitingAppend
  <2>3. /\ Append(b, new) \in Seq(SUBSET Item) /\ Len(Append(b, new)) = Len(b) + 1
        /\ Len(b) \in Nat
    BY <2>1
  <2> QED BY <2>2, <2>3 DEF b
<1> HIDE DEF over, u, y
<1>8. /\ u \in Worlds /\ u.cmds = w.cmds /\ u.db.bound = w.db.bound
      /\ u.db.joined = w.db.joined /\ u.db.ckpt = w.db.ckpt /\ u.db.linked = w.db.linked
      /\ u.db.local = w.db.local /\ u.core.inflight = w.core.inflight
      /\ u.core.pending = w.core.pending /\ u.core.started = w.core.started
      /\ u.core.deleting = w.core.deleting /\ u.effects.confirm = w.effects.confirm
      /\ \/ /\ new = {} \/ u.core.held \/ u.db.inbox = w.db.inbox \cup new
            /\ u.db.inbox = w.db.inbox \/ u.db.inbox = w.db.inbox \cup new
            /\ u.effects = w.effects /\ u.core.unapplied = w.core.unapplied
            /\ u.core.held = w.core.held \/ u.core.held = TRUE
         \/ /\ w.db.joined /\ u.db.inbox = w.db.inbox /\ u.core.held = w.core.held
            /\ u.core.unapplied = w.core.unapplied + 1
            /\ u.effects.batches = Append(w.effects.batches, new)
  <2> HIDE DEF new
  <2>1. CASE new = {} /\ u = over BY <1>3, <2>1, Zenon
  <2>2. CASE ~w.db.joined /\ u = inbox
    <3>1. inbox \in Worlds /\ inbox.cmds = over.cmds /\ inbox.db.bound = over.db.bound
          /\ inbox.db.joined = over.db.joined /\ inbox.db.ckpt = over.db.ckpt
          /\ inbox.db.linked = over.db.linked /\ inbox.db.local = over.db.local
          /\ inbox.core = over.core /\ inbox.effects = over.effects
          /\ inbox.db.inbox = w.db.inbox \cup new
      BY <1>3, <1>6, Zenon DEF Worlds, Database
    <3> HIDE DEF inbox
    <3> QED BY <1>3, <2>2, <3>1, Zenon
  <2>3. CASE ~w.db.joined /\ u = hold
    <3>1. hold \in Worlds /\ hold.cmds = over.cmds /\ hold.db = over.db
          /\ hold.effects = over.effects /\ hold.core.held = TRUE
          /\ hold.core.inflight = over.core.inflight /\ hold.core.pending = over.core.pending
          /\ hold.core.unapplied = over.core.unapplied /\ hold.core.started = over.core.started
          /\ hold.core.deleting = over.core.deleting
      BY <1>3, Zenon DEF Worlds, Core
    <3> HIDE DEF hold
    <3> QED BY <1>3, <2>3, <3>1, Zenon
  <2>4. CASE w.db.joined /\ u = batch
    <3> DEFINE b == Append(w.effects.batches, new)
               n == w.core.unapplied + 1
    <3>1. b \in Seq(SUBSET Item) /\ n \in Nat BY <1>5, <1>7
    <3> HIDE DEF b, n
    <3> DEFINE bb == [over EXCEPT !.core.unapplied = n, !.effects.batches = b]
    <3>2. bb \in Worlds /\ bb.cmds = over.cmds /\ bb.db = over.db
          /\ bb.effects.batches = b /\ bb.effects.confirm = over.effects.confirm
          /\ bb.core.inflight = over.core.inflight /\ bb.core.pending = over.core.pending
          /\ bb.core.unapplied = n /\ bb.core.started = over.core.started
          /\ bb.core.deleting = over.core.deleting /\ bb.core.held = over.core.held
      BY <1>3, <3>1, Zenon DEF Worlds, Core, Effects
    <3>3. u = bb BY <2>4, Zenon DEF b, n
    <3> HIDE DEF bb
    <3> QED BY <1>3, <2>4, <3>2, <3>3, Zenon DEF b, n
  <2> QED BY <1>4, <2>1, <2>2, <2>3, <2>4
<1> DEFINE b == w.effects.batches
           c == u.effects.batches
<1>9. /\ w.db.inbox \subseteq u.db.inbox /\ Waiting(b) \subseteq Waiting(c)
      /\ w.core.held => u.core.held
      /\ u.core.held \/ new \subseteq u.db.inbox \cup Waiting(c)
      /\ ~w.db.joined => c = b
  BY <1>7, <1>8
<1>10. u.core.unapplied - Len(c) = w.core.unapplied - Len(b)
  <2>1. CASE c = b /\ u.core.unapplied = w.core.unapplied BY <2>1
  <2>2. CASE c = Append(b, new) /\ u.core.unapplied = w.core.unapplied + 1
    <3>1. Len(c) = Len(b) + 1 /\ Len(b) \in Nat BY <1>7, <2>2
    <3> HIDE DEF b, c
    <3> QED BY <1>5, <2>2, <3>1
  <2> QED BY <1>8, <2>1, <2>2
<1>11. Saved(w) => Saved(u) BY <1>5, <1>8 DEF Saved
<1>12. Proper(w, x) => Proper(u, y) BY <1>1, <1>8 DEF Proper
<1>13. Right(w, x) => Right(u, y) BY <1>8, <1>9, <1>10, RightFetched DEF y
<1>14. Does(w, u, x) BY <1>8, <1>11, <1>12, <1>13, Zenon DEF Does, y
<1> QED BY <1>14 DEF u

(* The position that comes is saved, or waits for what it passed.          *)
LEMMA DoesState ==
  ASSUME NEW x \in Contexts, x.mail # <<>>, NEW w \in Worlds, Head(x.mail).type = "state"
  PROVE  Does(w, OnState(w, Head(x.mail).at), x)
<1> DEFINE p == Head(x.mail).at
           u == [w EXCEPT !.core.fetching = FALSE, !.core.pending = p]
           v == OnState(w, p)
           y == Next1(x)
<1>1. y \in Contexts /\ y.asked = x.asked /\ Head(x.mail) \in Event BY ContextTaken
<1>2. p \in Position BY <1>1, EventFields
<1>3. v = FlushState(u) BY Zenon DEF OnState
<1>4. ASSUME Right(w, x)
      PROVE  /\ Right(w, y)
             /\ w.db.bound # None /\ ~w.core.held =>
                  p.of = w.db.bound /\ p.seen \subseteq OnMac(w, y)
  <2>1. Right(w, y) BY <1>4, RightTaken
  <2>2. Under(w, x, w.core.started /\ ~Has(x.mail, "restart")) BY <1>4 DEF Right
  <2> QED BY <2>1, <2>2, UnderTaken
<1> HIDE DEF p, y
<1>5. /\ u \in Worlds /\ u.db = w.db /\ u.cmds = w.cmds /\ u.effects = w.effects
      /\ u.core.inflight = w.core.inflight /\ u.core.pending = p
      /\ u.core.held = w.core.held /\ u.core.unapplied = w.core.unapplied
      /\ u.core.started = w.core.started /\ u.core.deleting = w.core.deleting
  BY <1>2, Zenon DEF Worlds, Core
<1> HIDE DEF u, v
<1>6. OnMac(u, y) = OnMac(w, y) BY <1>5 DEF OnMac
<1>7. ASSUME Right(w, x) PROVE Right(u, y)
  <2>1. Disk(u, y) /\ Linked(u, y) /\ Calm(u, y) /\ Counted(u, y)
    BY <1>4, <1>5, <1>7 DEF Right, Disk, Linked, Calm, Counted
  <2>2. Under(w, y, w.core.started /\ ~Has(y.mail, "restart")) BY <1>4, <1>7 DEF Right
  <2>3. Under(u, y, w.core.started /\ ~Has(y.mail, "restart"))
    BY <1>4, <1>5, <1>6, <1>7, <2>2, Zenon DEF Under
  <2> QED BY <1>5, <2>1, <2>3 DEF Right
<1>8. Keeps(u, v, y) /\ Saved(v) BY <1>1, <1>3, <1>5, KeepsFlush
<1>9. Proper(w, x) => Proper(u, y) BY <1>1, <1>5 DEF Proper
<1>10. Does(w, v, x)
  BY <1>5, <1>7, <1>8, <1>9, Zenon DEF Does, Keeps, y
<1> QED BY <1>10 DEF v, p

LEMMA KeepsComplete ==
  ASSUME NEW x \in Contexts, NEW w \in Worlds PROVE Keeps(w, OnFetchComplete(w), x)
<1> DEFINE v == [w EXCEPT !.core.fetching = FALSE, !.core.completed = TRUE]
<1>1. /\ v \in Worlds /\ v.db = w.db /\ v.cmds = w.cmds /\ v.effects = w.effects
      /\ Alike(w.core, v.core)
  BY Zenon DEF Worlds, Core, Alike
<1>2. OnFetchComplete(w) = FlushState(v) BY Zenon DEF OnFetchComplete
<1> HIDE DEF v
<1>3. Keeps(w, v, x) /\ Keeps(v, FlushState(v), x) BY <1>1, KeepsQuiet, KeepsFlush
<1> QED BY <1>2, <1>3, KeepsChain

(* A stop, and the start that follows it on a restart.                     *)
LEMMA DoesStop ==
  ASSUME NEW x \in Contexts, x.mail # <<>>, NEW w \in Worlds,
         Head(x.mail).type \in {"stop", "restart"}
  PROVE  Does(w, Stop(w), x) /\ Does(w, Start(Stop(w)), x)
<1> DEFINE y == Next1(x)
           v == Stop(w)
<1>1. y \in Contexts BY ContextTaken
<1>2. Right(w, x) => Loose(w, y) BY RightTaken
<1>3. Proper(w, x) => Proper(w, y) BY ContextTaken DEF Proper
<1> HIDE DEF y
<1>4. /\ v \in Worlds /\ v.db = w.db /\ (Loose(w, y) => Right(v, y))
      /\ Saved(w) => Saved(v)
      /\ Proper(w, y) => Proper(v, y)
  BY <1>1, KeepsStop
<1> HIDE DEF v
<1>5. Does(w, v, x) BY <1>2, <1>3, <1>4, Zenon DEF Does, y
<1>6. Keeps(v, Start(v), y) BY <1>1, <1>4, KeepsStart
<1>7. Does(w, Start(v), x) BY <1>5, <1>6, Zenon DEF Does, Keeps, y
<1> QED BY <1>5, <1>7 DEF v

-----------------------------------------------------------------------------
(*                           The invariants                                *)

(* Positions do not ask which deletions were asked for.                    *)
Here == [declined |-> user.declined, asked |-> Account \cup {None}, at |-> bridge.at,
         mail |-> mail]

(* Every position on its way to the disk, and the one there, is sound.     *)
Placed == Right(World, Here) /\ Saved(World)

(* A restart is handled before anything else is, but the pause that is     *)
(* cleared with it.                                                        *)
Prompted(q) ==
  \A k \in DOMAIN q : q[k].type = "restart" => k = 1 \/ (k = 2 /\ q[1].type = "clear_pause")

(* The first merge is offered, and chosen, where an account is bound, and  *)
(* no account is asked about any more once it has been carried out.        *)
Asking ==
  /\ Proper(World, Here)
  /\ Prompted(mail)
  /\ db.joined => db.bound # None /\ host.confirm = None
  /\ host.choice \in {"join", "cloud"} => db.bound # None /\ host.confirm = None
  /\ host.phase = "join" => db.bound # None

LEMMA HereType ==
  ASSUME Types
  PROVE  /\ Here \in Contexts /\ Here.mail = mail /\ Here.declined = user.declined
         /\ Here.asked = Account \cup {None} /\ Here.at = bridge.at
         /\ World.db = db /\ World.core = core /\ World.cmds = cmds
         /\ World.effects = host.effects /\ World \in Worlds
<1> DEFINE all == Account \cup {None}
<1>1. all \in SUBSET (Account \cup {None}) OBVIOUS
<1>2. Here = [declined |-> user.declined, asked |-> all, at |-> bridge.at, mail |-> mail]
  BY DEF Here
<1> HIDE DEF all
<1>3. /\ Here \in Contexts /\ Here.mail = mail /\ Here.declined = user.declined
      /\ Here.asked = all /\ Here.at = bridge.at
  BY <1>1, <1>2, Zenon DEF Types, Contexts, Users, Bridges
<1>4. /\ World.db = db /\ World.core = core /\ World.cmds = cmds
      /\ World.effects = host.effects /\ World \in Worlds
  BY WorldType, Zenon DEF World
<1> QED BY <1>3, <1>4 DEF all

LEMMA WorldAfter ==
  ASSUME Types, NEW v \in Worlds, Becomes(v)
  PROVE  /\ World' = v /\ host'.choice = host.choice /\ host'.confirm = host.confirm
         /\ host'.phase = Phase(v) /\ host'.deleted = (v.core.deleting = "confirmed")
<1> DEFINE deleted == v.core.deleting = "confirmed"
           h == [host EXCEPT !.effects = v.effects, !.phase = Phase(v), !.deleted = deleted]
<1>1. host \in Hosts BY DEF Types
<1>2. host' = h /\ db' = v.db /\ core' = v.core /\ cmds' = v.cmds BY DEF Becomes
<1>3. /\ h.effects = v.effects /\ h.choice = host.choice /\ h.confirm = host.confirm
      /\ h.phase = Phase(v) /\ h.deleted = deleted
  BY <1>1, Zenon DEF Hosts
<1> HIDE DEF h
<1>4. v = [db |-> v.db, core |-> v.core, cmds |-> v.cmds, effects |-> v.effects]
  BY Zenon DEF Worlds
<1>5. World' = v BY <1>2, <1>3, <1>4, Zenon DEF World
<1> QED BY <1>2, <1>3, <1>5

LEMMA HereTaken ==
  ASSUME Types, mail # <<>>, mail' = Tail(mail), user' = user, bridge' = bridge
  PROVE  Here' = Next1(Here)
<1> DEFINE t == Tail(mail)
           all == Account \cup {None}
<1>1. Here' = [declined |-> user.declined, asked |-> all, at |-> bridge.at, mail |-> t]
  BY DEF Here
<1>2. Next1(Here) = [Here EXCEPT !.mail = t] BY HereType DEF Next1
<1>3. Here = [declined |-> user.declined, asked |-> all, at |-> bridge.at, mail |-> mail]
  BY DEF Here
<1> HIDE DEF t, all
<1>4. [Here EXCEPT !.mail = t] =
        [declined |-> user.declined, asked |-> all, at |-> bridge.at, mail |-> t]
  BY <1>3
<1> QED BY <1>1, <1>2, <1>4

LEMMA PromptedTaken ==
  ASSUME NEW q \in Seq(Event), q # <<>>, Prompted(q)
  PROVE  /\ Prompted(Tail(q))
         /\ Has(Tail(q), "restart") => Head(q).type = "clear_pause"
<1>1. /\ \A k \in DOMAIN Tail(q) : k + 1 \in DOMAIN q /\ Tail(q)[k] = q[k + 1] /\ k \in Nat \ {0}
      /\ Head(q) = q[1]
  BY TailFacts
<1>2. \A k \in DOMAIN Tail(q) : Tail(q)[k].type = "restart" => k = 1 /\ q[1].type = "clear_pause"
  BY <1>1 DEF Prompted
<1> QED BY <1>1, <1>2 DEF Prompted, Has

LEMMA PromptedMore ==
  ASSUME NEW q \in Seq(Event), NEW r \in Seq(Event), Prompted(q), ~Has(r, "restart")
  PROVE  Prompted(q \o r) /\ (q # <<>> => q \o r # <<>>)
<1> DEFINE s == q \o r
<1>1. /\ DOMAIN q = 1 .. Len(q) /\ Len(q) \in Nat /\ Len(r) \in Nat
      /\ DOMAIN s = 1 .. Len(q) + Len(r)
      /\ \A k \in DOMAIN q : s[k] = q[k]
      /\ \A k \in DOMAIN r : s[Len(q) + k] = r[k]
      /\ \A k \in DOMAIN s : k \in DOMAIN q \/ k - Len(q) \in DOMAIN r
  BY ConcatFacts
<1> HIDE DEF s
<1>2. \A k \in DOMAIN s : Len(q) + (k - Len(q)) = k BY <1>1
<1>3. \A k \in DOMAIN q : k = 2 => 1 \in DOMAIN q BY <1>1
<1>4. Prompted(s)
  <2> SUFFICES ASSUME NEW k \in DOMAIN s, s[k].type = "restart"
               PROVE  k = 1 \/ (k = 2 /\ s[1].type = "clear_pause")
    BY DEF Prompted
  <2>1. k \in DOMAIN q
    <3> SUFFICES ASSUME k - Len(q) \in DOMAIN r PROVE FALSE BY <1>1
    <3> DEFINE l == k - Len(q)
    <3>1. l \in DOMAIN r /\ s[Len(q) + l] = r[l] /\ Len(q) + l = k BY <1>1, <1>2
    <3> HIDE DEF l
    <3> QED BY <3>1 DEF Has
  <2>2. k = 1 \/ (k = 2 /\ q[1].type = "clear_pause") BY <1>1, <2>1 DEF Prompted
  <2> QED BY <1>1, <1>3, <2>1, <2>2
<1>5. q # <<>> => 1 \in DOMAIN s BY <1>1
<1>6. s # <<>> \/ 1 \notin DOMAIN s OBVIOUS
<1> QED BY <1>4, <1>5, <1>6 DEF s

(* The join prompt comes only where a merge can follow.                    *)
LEMMA PhaseJoin == ASSUME NEW w, Phase(w) = "join" PROVE w.db.bound # None
BY DEF Phase

(* What a handler of the first message leads to.                           *)
Outcome(v, x) ==
  /\ Does(World, v, x) /\ Becomes(v)
  /\ user' = user /\ mail # <<>> /\ mail' = Tail(mail)

LEMMA Handled ==
  ASSUME Types, Handles, NEW x \in Contexts, x.mail # <<>>, Head(x.mail) = Head(mail),
         Prompted(x.mail), Head(mail).type = "delete" => db.bound \in x.asked \cup {None}
  PROVE  \E v : Outcome(v, x)
<1> DEFINE m == Head(mail)
           w == World
           y == Next1(x)
<1>0. w \in Worlds /\ w.db = db /\ w.core = core BY HereType
<1>1. ASSUME NEW type, Takes(type)
      PROVE  /\ y \in Contexts /\ x.mail # <<>> /\ Head(x.mail) = m /\ m.type = type
             /\ Has(y.mail, "restart") => type = "clear_pause"
             /\ m \in Event
  <2>1. m.type = type BY <1>1 DEF Takes
  <2>2. /\ y \in Contexts /\ y.mail = Tail(x.mail) /\ x.mail \in Seq(Event)
        /\ Head(x.mail) \in Event
    BY ContextTaken
  <2>3. Has(Tail(x.mail), "restart") => Head(x.mail).type = "clear_pause"
    BY <2>2, PromptedTaken
  <2> QED BY <2>1, <2>2, <2>3
<1>2. ASSUME NEW type, Takes(type), NEW v, Keeps(w, v, y),
             type \notin {"fetched", "applied", "stop", "restart"}
      PROVE  Does(w, v, x) /\ Does(w, Pump(v), x)
  <2>1. x.mail # <<>> /\ Head(x.mail).type = type BY <1>1, <1>2
  <2>2. Does(w, v, x) BY <1>0, <1>2, <2>1, DoesKeeping
  <2> QED BY <1>0, <2>1, <2>2, DoesThenPump
<1>3. CASE HandleStart
  <2>1. Takes("start") /\ Becomes(Start(w)) /\ user' = user BY <1>3 DEF HandleStart
  <2>2. Keeps(w, Start(w), y) BY <1>0, <1>1, <2>1, KeepsStart
  <2>3. Does(w, Start(w), x) BY <1>2, <2>1, <2>2
  <2> QED BY <2>1, <2>3 DEF Takes, Outcome
<1>4. CASE HandleStop
  <2>1. Takes("stop") /\ Becomes(Stop(w)) /\ user' = user BY <1>4 DEF HandleStop
  <2>2. Does(w, Stop(w), x) BY <1>0, <1>1, <2>1, DoesStop
  <2> QED BY <2>1, <2>2 DEF Takes, Outcome
<1>5. CASE HandleRestart
  <2>1. Takes("restart") /\ Becomes(Start(Stop(w))) /\ user' = user
    BY <1>5 DEF HandleRestart
  <2>2. Does(w, Start(Stop(w)), x) BY <1>0, <1>1, <2>1, DoesStop
  <2> QED BY <2>1, <2>2 DEF Takes, Outcome
<1>6. CASE HandleClearPause
  <2> DEFINE v == [w EXCEPT !.core.paused = FALSE]
  <2>1. Takes("clear_pause") /\ Becomes(v) /\ user' = user BY <1>6 DEF HandleClearPause
  <2>2. Keeps(w, v, y) BY <1>0, <1>1, <2>1, KeepsClearPause
  <2> HIDE DEF v
  <2>3. Does(w, v, x) BY <1>2, <2>1, <2>2
  <2> QED BY <2>1, <2>3 DEF Takes, Outcome
<1>7. CASE HandleTick
  <2>1. Takes("tick") /\ Becomes(Pump(w)) /\ user' = user BY <1>7 DEF HandleTick
  <2>2. Keeps(w, w, y) BY <1>0, <1>1, <2>1, KeepsSame
  <2>3. Does(w, Pump(w), x) BY <1>2, <2>1, <2>2
  <2> QED BY <2>1, <2>3 DEF Takes, Outcome
<1>8. CASE HandleApplied
  <2> DEFINE v == RemoteApplied(w)
  <2>1. Takes("applied") /\ Becomes(v) /\ user' = user BY <1>8 DEF HandleApplied
  <2>2. /\ v \in Worlds /\ v.db.bound = w.db.bound /\ v.db.joined = w.db.joined
        /\ Right(w, x) => Right(v, y)
        /\ Saved(v)
        /\ Proper(w, x) => Proper(v, y)
    BY <1>0, <1>1, <2>1, RightApplied
  <2> HIDE DEF v
  <2>3. Does(w, v, x) BY <2>2, Zenon DEF Does
  <2> QED BY <2>1, <2>3 DEF Takes, Outcome
<1>9. CASE HandleDelete
  <2>1. Takes("delete") /\ Becomes(DeleteCloudData(w)) /\ user' = user
    BY <1>9 DEF HandleDelete
  <2>2. w.db.bound \in y.asked \cup {None}
    <3>1. m.type = "delete" /\ y.asked = x.asked BY <1>1, <2>1, ContextTaken
    <3> QED BY <1>0, <3>1
  <2>3. Keeps(w, DeleteCloudData(w), y) BY <1>0, <1>1, <2>1, <2>2, KeepsDelete
  <2>4. Does(w, DeleteCloudData(w), x) BY <1>2, <2>1, <2>3
  <2> QED BY <2>1, <2>4 DEF Takes, Outcome
<1>10. CASE HandleAccount
  <2>1. Takes("account") /\ Becomes(Pump(OnAccount(w, m.account))) /\ user' = user
    BY <1>10 DEF HandleAccount
  <2>2. m.account \in Account \cup {None} BY <1>1, <2>1, EventFields
  <2>3. Keeps(w, OnAccount(w, m.account), y) BY <1>0, <1>1, <2>1, <2>2, KeepsAccount
  <2>4. Does(w, Pump(OnAccount(w, m.account)), x) BY <1>2, <2>1, <2>3
  <2> QED BY <2>1, <2>4 DEF Takes, Outcome
<1>11. CASE HandleChange
  <2>1. Takes("change") /\ Becomes(Pump(OnAccountChange(w, m.account))) /\ user' = user
    BY <1>11 DEF HandleChange
  <2>2. m.account \in Account \cup {None} BY <1>1, <2>1, EventFields
  <2>3. Keeps(w, OnAccountChange(w, m.account), y)
    BY <1>0, <1>1, <2>1, <2>2, KeepsAccountChange
  <2>4. Does(w, Pump(OnAccountChange(w, m.account)), x) BY <1>2, <2>1, <2>3
  <2> QED BY <2>1, <2>4 DEF Takes, Outcome
<1>12. CASE HandleFetched
  <2>1. PICK kept \in BOOLEAN : Becomes(Pump(OnFetched(w, m.items, kept)))
    BY <1>12 DEF HandleFetched
  <2>2. Takes("fetched") /\ user' = user BY <1>12 DEF HandleFetched
  <2>3. Does(w, OnFetched(w, m.items, kept), x) BY <1>0, <1>1, <2>2, DoesFetched
  <2>4. Does(w, Pump(OnFetched(w, m.items, kept)), x)
    BY <1>0, <1>1, <2>2, <2>3, DoesThenPump
  <2> QED BY <2>1, <2>2, <2>4 DEF Takes, Outcome
<1>13. CASE HandleState
  <2>1. Takes("state") /\ Becomes(Pump(OnState(w, m.at))) /\ user' = user
    BY <1>13 DEF HandleState
  <2>2. Does(w, OnState(w, m.at), x) BY <1>0, <1>1, <2>1, DoesState
  <2>3. Does(w, Pump(OnState(w, m.at)), x) BY <1>0, <1>1, <2>1, <2>2, DoesThenPump
  <2> QED BY <2>1, <2>3 DEF Takes, Outcome
<1>14. CASE HandleComplete
  <2>1. Takes("complete") /\ Becomes(Pump(OnFetchComplete(w))) /\ user' = user
    BY <1>14 DEF HandleComplete
  <2>2. Keeps(w, OnFetchComplete(w), y) BY <1>0, <1>1, <2>1, KeepsComplete
  <2>3. Does(w, Pump(OnFetchComplete(w)), x) BY <1>2, <2>1, <2>2
  <2> QED BY <2>1, <2>3 DEF Takes, Outcome
<1>15. CASE HandleSent
  <2>1. Takes("sent") /\ Becomes(Pump(OnSent(w, m.items))) /\ user' = user
    BY <1>15 DEF HandleSent
  <2>2. m.items \in SUBSET Item BY <1>1, <2>1, EventFields
  <2>3. Keeps(w, OnSent(w, m.items), y) BY <1>0, <1>1, <2>1, <2>2, KeepsSent
  <2>4. Does(w, Pump(OnSent(w, m.items)), x) BY <1>2, <2>1, <2>3
  <2> QED BY <2>1, <2>4 DEF Takes, Outcome
<1>16. CASE HandleError
  <2>1. Takes("error") /\ Becomes(Pump(OnError(w, m.refused))) /\ user' = user
    BY <1>16 DEF HandleError
  <2>2. m.refused \in BOOLEAN BY <1>1, <2>1, EventFields
  <2>3. Keeps(w, OnError(w, m.refused), y) BY <1>0, <1>1, <2>1, <2>2, KeepsError
  <2>4. Does(w, Pump(OnError(w, m.refused)), x) BY <1>2, <2>1, <2>3
  <2> QED BY <2>1, <2>4 DEF Takes, Outcome
<1>17. CASE HandleSendFailed
  <2>1. Takes("send_failed") /\ Becomes(OnSendFailed(w)) /\ user' = user
    BY <1>17 DEF HandleSendFailed
  <2>2. Keeps(w, OnSendFailed(w), y) BY <1>0, <1>1, <2>1, KeepsSendFailed
  <2>3. Does(w, OnSendFailed(w), x) BY <1>2, <2>1, <2>2
  <2> QED BY <2>1, <2>3 DEF Takes, Outcome
<1>18. CASE HandleZoneDeleted
  <2>1. Takes("zone_deleted") /\ Becomes(Pump(OnZoneDeleted(w))) /\ user' = user
    BY <1>18 DEF HandleZoneDeleted
  <2>2. Keeps(w, OnZoneDeleted(w), y) BY <1>0, <1>1, <2>1, KeepsZoneDeleted
  <2>3. Does(w, Pump(OnZoneDeleted(w)), x) BY <1>2, <2>1, <2>2
  <2> QED BY <2>1, <2>3 DEF Takes, Outcome
<1> QED BY <1>3, <1>4, <1>5, <1>6, <1>7, <1>8, <1>9, <1>10, <1>11, <1>12, <1>13, <1>14,
           <1>15, <1>16, <1>17, <1>18 DEF Handles


(* Every handler keeps the invariants.                                     *)
LEMMA Serving ==
  ASSUME Types, Asking, Handles PROVE Asking' /\ (Placed => Placed')
<1>0. mail \in Seq(Event) /\ Here \in Contexts /\ Here.mail = mail /\ World.db = db
      /\ Here.asked = Account \cup {None}
  BY HereType DEF Types
<1>1. mail # <<>>
  BY DEF Handles, Takes, HandleStart, HandleStop, HandleRestart, HandleClearPause, HandleTick,
         HandleApplied, HandleDelete, HandleAccount, HandleChange, HandleFetched, HandleState,
         HandleComplete, HandleSent, HandleError, HandleSendFailed, HandleZoneDeleted
<1>2. db.bound \in Here.asked \cup {None} BY <1>0 DEF Types, Database
<1>3. PICK v : Outcome(v, Here)
  <2>1. Prompted(Here.mail) BY <1>0 DEF Asking
  <2> QED BY <1>0, <1>1, <1>2, <2>1, Handled
<1>4. /\ Does(World, v, Here) /\ Becomes(v) /\ user' = user /\ mail # <<>>
      /\ mail' = Tail(mail)
  BY <1>3 DEF Outcome
<1>5. /\ v \in Worlds /\ v.db.bound = db.bound /\ v.db.joined = db.joined
      /\ Right(World, Here) => Right(v, Next1(Here))
      /\ Saved(World) => Saved(v)
      /\ Proper(World, Here) => Proper(v, Next1(Here))
  BY <1>0, <1>4, Zenon DEF Does
<1>6. bridge' = bridge /\ db' = v.db BY <1>4 DEF Becomes
<1>7. Here' = Next1(Here) BY <1>4, <1>6, HereTaken
<1>8. /\ World' = v /\ host'.choice = host.choice /\ host'.confirm = host.confirm
      /\ host'.phase = Phase(v)
  BY <1>4, <1>5, WorldAfter
<1>9. Asking'
  <2>1. Proper(World', Here') BY <1>5, <1>7, <1>8 DEF Asking
  <2>2. Prompted(mail') BY <1>0, <1>4, PromptedTaken DEF Asking
  <2>3. host'.phase = "join" => db'.bound # None BY <1>6, <1>8, PhaseJoin
  <2> QED BY <1>5, <1>6, <1>8, <2>1, <2>2, <2>3 DEF Asking
<1>10. Placed => Placed' BY <1>5, <1>7, <1>8 DEF Placed
<1> QED BY <1>9, <1>10

(* The worker's timers, which run when there is no mail.                   *)
LEMMA Paced ==
  ASSUME Types, Ticks \/ Polls, NEW x \in Contexts, ~Has(x.mail, "restart")
  PROVE  \E v : /\ Keeps(World, v, x) /\ Becomes(v)
                /\ mail = <<>> /\ mail' = mail /\ user' = user
<1>0. World \in Worlds BY HereType
<1>1. /\ mail = <<>> /\ mail' = mail /\ user' = user
      /\ Becomes(Pump(World)) \/ Becomes(StartFetch(World))
  BY DEF Ticks, Polls
<1>2. PICK v \in {Pump(World), StartFetch(World)} : Becomes(v) BY <1>1
<1>3. Keeps(World, v, x) BY <1>0, <1>2, KeepsPump, KeepsStartFetch
<1> QED BY <1>1, <1>2, <1>3

LEMMA Pacing ==
  ASSUME Types, Asking, Ticks \/ Polls PROVE Asking' /\ (Placed => Placed')
<1>0. Here \in Contexts /\ Here.mail = mail /\ World.db = db BY HereType
<1>1. ~Has(Here.mail, "restart") BY <1>0 DEF Ticks, Polls, Has
<1>2. PICK v : /\ Keeps(World, v, Here) /\ Becomes(v)
               /\ mail = <<>> /\ mail' = mail /\ user' = user
  BY <1>0, <1>1, Paced
<1>3. v \in Worlds /\ v.db.bound = db.bound /\ v.db.joined = db.joined
  BY <1>0, <1>2, Zenon DEF Keeps
<1>4. /\ World' = v /\ host'.choice = host.choice /\ host'.confirm = host.confirm
      /\ host'.phase = Phase(v)
  BY <1>2, <1>3, WorldAfter
<1>5. bridge' = bridge /\ db' = v.db BY <1>2 DEF Becomes
<1>6. Here' = Here BY <1>2, <1>5 DEF Here
<1>7. Asking'
  <2>1. Proper(World', Here') BY <1>2, <1>4, <1>6 DEF Keeps, Asking
  <2>2. host'.phase = "join" => db'.bound # None BY <1>4, <1>5, PhaseJoin
  <2> QED BY <1>2, <1>3, <1>4, <1>5, <2>1, <2>2 DEF Asking
<1>8. Placed => Placed' BY <1>2, <1>4, <1>6 DEF Placed, Keeps
<1> QED BY <1>7, <1>8

-----------------------------------------------------------------------------
(*                     The bridge and the accounts                         *)

(* Messages come, the engine moves, and this Mac has no less.              *)
LEMMA UnderMoved ==
  ASSUME NEW x \in Contexts, NEW y \in Contexts, NEW w \in Worlds, NEW v \in Worlds,
         NEW r \in Seq(Event), Under(w, x, w.core.started /\ ~Has(x.mail, "restart")),
         v.db.bound = w.db.bound, v.core = w.core, OnMac(w, x) \subseteq OnMac(v, y),
         y.mail = x.mail \o r, ~Has(r, "restart"),
         w.db.bound # None /\ ~w.core.held =>
           /\ \A k \in DOMAIN r : r[k].type = "state" =>
                /\ r[k].at.of = w.db.bound
                /\ r[k].at.seen \subseteq OnMac(w, x) \cup Fetched(x.mail) \cup Before(r, k)
           /\ \A k \in DOMAIN v.cmds : v.cmds[k].type = "fetch" => v.cmds[k].for = w.db.bound
           /\ Steady(v.cmds, y.at, OnMac(w, x) \cup Fetched(x.mail) \cup Fetched(r),
                     w.core.started /\ ~Has(x.mail, "restart"))
  PROVE  Under(v, y, v.core.started /\ ~Has(y.mail, "restart"))
<1> DEFINE q == x.mail
           on == w.core.started /\ ~Has(q, "restart")
<1>1. q \in Seq(Event) BY DEF Contexts
<1>2. /\ Fetched(q \o r) = Fetched(q) \cup Fetched(r)
      /\ \A k \in DOMAIN q : Before(q, k) \subseteq Before(q \o r, k)
      /\ \A k \in DOMAIN r : Fetched(q) \cup Before(r, k) \subseteq Before(q \o r, Len(q) + k)
      /\ \A type : Has(q \o r, type) <=> Has(q, type) \/ Has(r, type)
  BY <1>1, MailSent
<1>3. /\ \A k \in DOMAIN (q \o r) :
           \/ k \in DOMAIN q /\ (q \o r)[k] = q[k]
           \/ k - Len(q) \in DOMAIN r /\ (q \o r)[k] = r[k - Len(q)] /\ Len(q) + (k - Len(q)) = k
  BY <1>1, ConcatFacts
<1>4. y.mail = q \o r OBVIOUS
<1> HIDE DEF q
<1>5. ASSUME w.db.bound # None, ~w.core.held PROVE Under(v, y, on)
  <2>1. Under(w, x, on) BY DEF q
  <2>2. /\ w.core.pending # None =>
             w.core.pending.of = w.db.bound /\ w.core.pending.seen \subseteq OnMac(w, x)
        /\ \A k \in DOMAIN q : q[k].type = "state" =>
             q[k].at.of = w.db.bound /\ q[k].at.seen \subseteq OnMac(w, x) \cup Before(q, k)
    BY <1>5, <2>1, Zenon DEF Under, q
  <2>3. ASSUME NEW k \in DOMAIN (q \o r), (q \o r)[k].type = "state"
        PROVE  /\ (q \o r)[k].at.of = w.db.bound
               /\ (q \o r)[k].at.seen \subseteq OnMac(w, x) \cup Before(q \o r, k)
    <3>1. CASE k \in DOMAIN q /\ (q \o r)[k] = q[k] BY <1>2, <2>2, <2>3, <3>1
    <3>2. CASE /\ k - Len(q) \in DOMAIN r /\ (q \o r)[k] = r[k - Len(q)]
               /\ Len(q) + (k - Len(q)) = k
      <4> DEFINE l == k - Len(q)
      <4>1. /\ l \in DOMAIN r /\ (q \o r)[k] = r[l] /\ Len(q) + l = k BY <3>2
      <4>2. Fetched(q) \cup Before(r, l) \subseteq Before(q \o r, Len(q) + l) BY <1>2, <4>1
      <4>3. Fetched(q) \cup Before(r, l) \subseteq Before(q \o r, k) BY <4>1, <4>2
      <4> HIDE DEF l
      <4>4. r[l].at.of = w.db.bound
            /\ r[l].at.seen \subseteq OnMac(w, x) \cup Fetched(q) \cup Before(r, l)
        BY <1>5, <2>3, <4>1 DEF q
      <4> QED BY <4>1, <4>3, <4>4
    <3> QED BY <1>3, <2>3, <3>1, <3>2
  <2>4. Steady(v.cmds, y.at, OnMac(v, y) \cup Fetched(y.mail), on)
    <3> DEFINE S == OnMac(w, x) \cup Fetched(q) \cup Fetched(r)
               T == OnMac(v, y) \cup Fetched(y.mail)
    <3>1. Steady(v.cmds, y.at, S, on) BY <1>5 DEF q
    <3>2. S \subseteq T BY <1>2, <1>4
    <3>3. v.cmds \in Seq(Command) BY DEF Worlds
    <3> HIDE DEF S, T, on
    <3>4. Steady(v.cmds, y.at, T, on) BY <3>1, <3>2, <3>3, SteadyMore
    <3> QED BY <3>4 DEF T
  <2>5. \A k \in DOMAIN v.cmds : v.cmds[k].type = "fetch" => v.cmds[k].for = v.db.bound
    BY <1>5
  <2>6. \A k \in DOMAIN y.mail : y.mail[k].type = "state" =>
          y.mail[k].at.of = v.db.bound
          /\ y.mail[k].at.seen \subseteq OnMac(v, y) \cup Before(y.mail, k)
    BY <1>4, <2>3
  <2>7. v.core.pending # None =>
          v.core.pending.of = v.db.bound /\ v.core.pending.seen \subseteq OnMac(v, y)
    BY <2>2
  <2> QED BY <2>4, <2>5, <2>6, <2>7, Zenon DEF Under
<1>6. Under(v, y, on) BY <1>5 DEF Under
<1>7. Has(y.mail, "restart") <=> Has(q, "restart") BY <1>2, <1>4
<1> QED BY <1>6, <1>7 DEF Under, Steady

(* Messages that bring no position, while the bridge rests.                *)
LEMMA UnderTold ==
  ASSUME NEW x \in Contexts, NEW y \in Contexts, NEW w \in Worlds, NEW v \in Worlds,
         NEW r \in Seq(Event), Under(w, x, w.core.started /\ ~Has(x.mail, "restart")),
         v.db.bound = w.db.bound, v.core = w.core, v.cmds = w.cmds, y.at = x.at,
         OnMac(w, x) \subseteq OnMac(v, y),
         y.mail = x.mail \o r, ~Has(r, "restart"), ~Has(r, "state")
  PROVE  Under(v, y, v.core.started /\ ~Has(y.mail, "restart"))
<1> DEFINE on == w.core.started /\ ~Has(x.mail, "restart")
           S == OnMac(w, x) \cup Fetched(x.mail)
           T == OnMac(w, x) \cup Fetched(x.mail) \cup Fetched(r)
<1>1. \A k \in DOMAIN r : r[k].type # "state" BY DEF Has
<1>2. ASSUME w.db.bound # None, ~w.core.held
      PROVE  /\ \A k \in DOMAIN v.cmds : v.cmds[k].type = "fetch" => v.cmds[k].for = w.db.bound
             /\ Steady(v.cmds, y.at, T, on)
  <2>1. /\ \A k \in DOMAIN w.cmds : w.cmds[k].type = "fetch" => w.cmds[k].for = w.db.bound
        /\ Steady(w.cmds, x.at, S, on)
    BY <1>2, Zenon DEF Under
  <2>2. S \subseteq T /\ w.cmds \in Seq(Command) BY DEF Worlds
  <2> HIDE DEF S, T, on
  <2>3. Steady(w.cmds, x.at, T, on) BY <2>1, <2>2, SteadyMore
  <2> QED BY <2>1, <2>3
<1>3. Under(w, x, on) OBVIOUS
<1> HIDE DEF on
<1> QED BY <1>1, <1>2, <1>3, UnderMoved DEF T, on

LEMMA RightMoved ==
  ASSUME NEW x \in Contexts, NEW y \in Contexts, NEW w \in Worlds, NEW v \in Worlds,
         NEW r \in Seq(Event), Right(w, x),
         v.db = w.db, v.core = w.core, v.effects = w.effects,
         y.declined = x.declined, y.mail = x.mail \o r,
         ~Has(r, "restart"), ~Has(r, "applied"),
         w.db.bound # None /\ ~w.core.held =>
           /\ \A k \in DOMAIN r : r[k].type = "state" =>
                /\ r[k].at.of = w.db.bound
                /\ r[k].at.seen \subseteq OnMac(w, x) \cup Fetched(x.mail) \cup Before(r, k)
           /\ \A k \in DOMAIN v.cmds : v.cmds[k].type = "fetch" => v.cmds[k].for = w.db.bound
           /\ Steady(v.cmds, y.at, OnMac(w, x) \cup Fetched(x.mail) \cup Fetched(r),
                     w.core.started /\ ~Has(x.mail, "restart"))
  PROVE  Right(v, y)
<1>1. x.mail \in Seq(Event) BY DEF Contexts
<1>2. \A type : Has(y.mail, type) <=> Has(x.mail, type) \/ Has(r, type) BY <1>1, MailSent
<1>3. Acks(y.mail) = Acks(x.mail) BY <1>1, AcksOthers
<1>4. OnMac(w, x) \subseteq OnMac(v, y) BY DEF OnMac
<1>5. Under(v, y, v.core.started /\ ~Has(y.mail, "restart")) BY <1>4, UnderMoved DEF Right
<1>6. Disk(v, y) /\ Linked(v, y) BY DEF Right, Disk, Linked
<1>7. Calm(v, y) BY <1>2 DEF Right, Calm
<1>8. Counted(v, y) BY <1>3 DEF Right, Counted
<1> QED BY <1>5, <1>6, <1>7, <1>8 DEF Right

LEMMA HereAfter ==
  ASSUME Types'
  PROVE  /\ Here' \in Contexts /\ Here'.mail = mail' /\ Here'.declined = user'.declined
         /\ Here'.asked = Account \cup {None} /\ Here'.at = bridge'.at
         /\ World'.db = db' /\ World'.core = core' /\ World'.cmds = cmds'
         /\ World'.effects = host'.effects /\ World' \in Worlds
<1> DEFINE all == Account \cup {None}
<1>1. /\ db' \in Database /\ core' \in Core /\ host'.effects \in Effects /\ mail' \in Seq(Event)
      /\ cmds' \in Seq(Command) /\ bridge'.at \in Position \cup {None}
      /\ all \in SUBSET (Account \cup {None}) /\ user'.declined \in SUBSET Item
  BY DEF Types, Hosts, Bridges, Users
<1>2. /\ Here' = [declined |-> user'.declined, asked |-> all, at |-> bridge'.at, mail |-> mail']
      /\ World' = [db |-> db', core |-> core', cmds |-> cmds', effects |-> host'.effects]
  BY DEF Here, World
<1> HIDE DEF all
<1>3. /\ Here' \in Contexts /\ Here'.mail = mail' /\ Here'.declined = user'.declined
      /\ Here'.asked = all /\ Here'.at = bridge'.at
      /\ World'.db = db' /\ World'.core = core' /\ World'.cmds = cmds'
      /\ World'.effects = host'.effects /\ World' \in Worlds
  BY <1>1, <1>2, Zenon DEF Contexts, Worlds
<1> QED BY <1>3 DEF all

(* Messages come and commands go.                                          *)
LEMMA Aside ==
  ASSUME Types, Types', Asking, UNCHANGED <<db, core, host, user>>,
         NEW r \in Seq(Event), mail' = mail \o r, ~Has(r, "restart"),
         \A k \in DOMAIN cmds' : \E l \in DOMAIN cmds : cmds'[k] = cmds[l]
  PROVE  Asking'
<1>1. mail \in Seq(Event) BY DEF Types
<1>2. Prompted(mail') BY <1>1, PromptedMore DEF Asking
<1>3. /\ World'.db = World.db /\ World'.effects = World.effects /\ World'.cmds = cmds'
      /\ World.cmds = cmds /\ Here'.asked = Here.asked
  BY HereType, HereAfter
<1>4. Proper(World', Here')
  <2>1. Proper(World, Here) BY DEF Asking
  <2> QED BY <1>3, <2>1 DEF Proper
<1>5. /\ db' = db /\ host' = host OBVIOUS
<1> QED BY <1>2, <1>4, <1>5 DEF Asking

(* A command taken, of which no position comes.                            *)
LEMMA Ran ==
  ASSUME Types, Types', Asking, NEW type, Runs(type), NEW r \in Seq(Event),
         mail' = mail \o r, ~Has(r, "restart"), ~Has(r, "applied"), ~Has(r, "state"),
         bridge'.at \in {None, IF type = "start" THEN Head(cmds).at ELSE bridge.at}
  PROVE  Asking' /\ (Placed => Placed')
<1> DEFINE w == World
           v == World'
           x == Here
           y == Here'
           on == core.started /\ ~Has(mail, "restart")
           S == OnMac(w, x) \cup Fetched(mail)
           T == OnMac(w, x) \cup Fetched(mail) \cup Fetched(r)
           next == IF type = "start" THEN Head(cmds).at ELSE bridge.at
<1>1. /\ cmds \in Seq(Command) /\ cmds # <<>> /\ Head(cmds).type = type /\ cmds' = Tail(cmds)
      /\ UNCHANGED <<db, core, host, user>> /\ cmds' \in Seq(Command)
  BY DEF Types, Runs, Heads
<1>2. \A k \in DOMAIN cmds' : \E l \in DOMAIN cmds : cmds'[k] = cmds[l]
  <2>1. \A k \in DOMAIN cmds' : k + 1 \in DOMAIN cmds /\ cmds'[k] = cmds[k + 1]
    BY <1>1, TailFacts
  <2> QED BY <2>1
<1>3. Asking' BY <1>1, <1>2, Aside
<1>4. /\ x \in Contexts /\ y \in Contexts /\ w \in Worlds /\ v \in Worlds
      /\ v.db = w.db /\ v.core = w.core /\ v.effects = w.effects /\ w.db = db /\ w.core = core
      /\ y.declined = x.declined /\ x.mail = mail /\ y.mail = mail \o r
      /\ w.cmds = cmds /\ v.cmds = cmds' /\ x.at = bridge.at /\ y.at = bridge'.at
  BY <1>1, HereType, HereAfter
<1> HIDE DEF w, v, x, y
<1>5. ASSUME Placed PROVE Placed'
  <2>1. Right(w, x) /\ Saved(w) BY <1>5 DEF Placed, w, x
  <2>2. ASSUME db.bound # None, ~core.held
        PROVE  /\ \A k \in DOMAIN cmds' : cmds'[k].type = "fetch" => cmds'[k].for = db.bound
               /\ Steady(cmds', bridge'.at, T, on)
    <3>1. Under(w, x, on) BY <1>4, <2>1 DEF Right
    <3>2. /\ \A k \in DOMAIN cmds : cmds[k].type = "fetch" => cmds[k].for = db.bound
          /\ Steady(cmds, bridge.at, S, on)
      BY <1>4, <2>2, <3>1, Zenon DEF Under
    <3>3. S \subseteq T OBVIOUS
    <3> HIDE DEF S, T, on
    <3>4. Steady(cmds', next, S, on) BY <1>1, <3>2, SteadyTaken
    <3>5. Steady(cmds', next, T, on) BY <1>1, <3>3, <3>4, SteadyMore
    <3>6. Steady(cmds', None, T, on)
      <4>1. Good(None, T) BY DEF Good
      <4> QED BY <1>1, <3>3, <3>4, <4>1, SteadyMoved
    <3> QED BY <1>2, <3>2, <3>5, <3>6
  <2>3. Right(v, y)
    <3>1. \A k \in DOMAIN r : r[k].type # "state" BY DEF Has
    <3> HIDE DEF on
    <3>2. w.db.bound # None /\ ~w.core.held =>
            /\ \A k \in DOMAIN v.cmds : v.cmds[k].type = "fetch" => v.cmds[k].for = w.db.bound
            /\ Steady(v.cmds, y.at, T, on)
      BY <1>4, <2>2
    <3> QED BY <1>4, <2>1, <3>1, <3>2, RightMoved DEF on, T
  <2>4. Saved(v) BY <1>4, <2>1 DEF Saved
  <2> QED BY <2>3, <2>4 DEF Placed, v, y
<1> QED BY <1>3, <1>5

LEMMA PairOfEvents ==
  ASSUME NEW e \in Event, NEW f \in Event
  PROVE  /\ <<e, f>> \in Seq(Event) /\ DOMAIN <<e, f>> = {1, 2}
         /\ <<e, f>>[1] = e /\ <<e, f>>[2] = f
<1>1. <<e, f>> \in Seq(Event) /\ Len(<<e, f>>) = 2 OBVIOUS
<1>2. <<e, f>>[1] = e /\ <<e, f>>[2] = f OBVIOUS
<1>3. DOMAIN <<e, f>> = 1 .. 2 BY <1>1, LenProperties
<1>4. 1 .. 2 = {1, 2} OBVIOUS
<1> QED BY <1>1, <1>2, <1>3, <1>4

LEMMA ThreeEvents ==
  ASSUME NEW e \in Event, NEW f \in Event, NEW h \in Event, NEW r, r = <<e>> \o <<f, h>>
  PROVE  r \in Seq(Event) /\ DOMAIN r = {1, 2, 3} /\ r[1] = e /\ r[2] = f /\ r[3] = h
<1> DEFINE q == <<e>>
           t == <<f, h>>
<1>1. q \in Seq(Event) /\ Len(q) = 1 /\ q[1] = e OBVIOUS
<1>2. t \in Seq(Event) /\ DOMAIN t = {1, 2} /\ t[1] = f /\ t[2] = h BY PairOfEvents
<1>3. r = q \o t OBVIOUS
<1> HIDE DEF q, t
<1>4. Len(t) = 2 BY <1>2, LenProperties
<1>5. /\ q \o t \in Seq(Event) /\ DOMAIN (q \o t) = 1 .. 3
      /\ (q \o t)[1] = q[1] /\ (q \o t)[1 + 1] = t[1] /\ (q \o t)[1 + 2] = t[2]
  <2>1. /\ q \o t \in Seq(Event) /\ DOMAIN (q \o t) = 1 .. Len(q) + Len(t)
        /\ \A k \in DOMAIN q : (q \o t)[k] = q[k]
        /\ \A k \in DOMAIN t : (q \o t)[Len(q) + k] = t[k]
        /\ DOMAIN q = 1 .. Len(q)
    BY <1>1, <1>2, ConcatFacts
  <2>2. 1 \in DOMAIN q /\ Len(q) + Len(t) = 3 BY <1>1, <1>4, <2>1
  <2> QED BY <1>1, <1>2, <2>1, <2>2
<1>6. 1 .. 3 = {1, 2, 3} /\ 1 + 1 = 2 /\ 1 + 2 = 3 OBVIOUS
<1> QED BY <1>1, <1>2, <1>3, <1>5, <1>6

(* What a fetch brings: the items first, and then where the engine is.     *)
LEMMA FetchEvents ==
  ASSUME NEW p \in Position, NEW new \in SUBSET Item
  PROVE  LET r == (IF new = {} THEN <<>> ELSE <<[type |-> "fetched", items |-> new]>>)
                  \o <<[type |-> "state", at |-> p], [type |-> "complete"]>>
         IN  /\ r \in Seq(Event) /\ Fetched(r) = new
             /\ ~Has(r, "restart") /\ ~Has(r, "delete") /\ ~Has(r, "applied")
             /\ \A k \in DOMAIN r :
                  r[k].type = "state" => r[k].at = p /\ new \subseteq Before(r, k)
<1> DEFINE f == [type |-> "fetched", items |-> new]
           s == [type |-> "state", at |-> p]
           c == [type |-> "complete"]
           r == (IF new = {} THEN <<>> ELSE <<f>>) \o <<s, c>>
<1>1. f \in Event /\ s \in Event /\ c \in Event BY DEF Event
<1>2. /\ f.type = "fetched" /\ f.items = new /\ s.type = "state" /\ s.at = p
      /\ c.type = "complete"
  OBVIOUS
<1> HIDE DEF f, s, c
<1>3. CASE new = {}
  <2>1. <<s, c>> \in Seq(Event) BY <1>1, PairOfEvents
  <2>2. r = <<s, c>> BY <1>3, <2>1, ConcatEmptySeq
  <2> HIDE DEF r
  <2>3. r \in Seq(Event) /\ DOMAIN r = {1, 2} /\ r[1] = s /\ r[2] = c
    BY <1>1, <2>2, PairOfEvents
  <2>4. Fetched(r) = new BY <1>2, <1>3, <2>3 DEF Fetched
  <2>5. ~Has(r, "restart") /\ ~Has(r, "delete") /\ ~Has(r, "applied")
    BY <1>2, <2>3 DEF Has
  <2>6. \A k \in DOMAIN r : r[k].type = "state" => r[k].at = p BY <1>2, <2>3
  <2>7. /\ r \in Seq(Event) /\ Fetched(r) = new
        /\ ~Has(r, "restart") /\ ~Has(r, "delete") /\ ~Has(r, "applied")
        /\ \A k \in DOMAIN r : r[k].type = "state" => r[k].at = p /\ new \subseteq Before(r, k)
    BY <1>3, <2>3, <2>4, <2>5, <2>6
  <2> QED BY <2>7 DEF r, f, s, c
<1>4. CASE new # {}
  <2>1. r = <<f>> \o <<s, c>> BY <1>4
  <2> HIDE DEF r
  <2>2. r \in Seq(Event) /\ DOMAIN r = {1, 2, 3} /\ r[1] = f /\ r[2] = s /\ r[3] = c
    BY <1>1, <2>1, ThreeEvents
  <2>3. Fetched(r) = new
    <3>1. \A k \in DOMAIN r : r[k].type = "fetched" => k = 1 BY <1>2, <2>2
    <3>2. 1 \in DOMAIN r /\ r[1].type = "fetched" /\ r[1].items = new BY <1>2, <2>2
    <3> QED BY <3>1, <3>2 DEF Fetched
  <2>4. new \subseteq Before(r, 2)
    <3>1. 1 \in DOMAIN r /\ r[1].type = "fetched" /\ r[1].items = new /\ 1 < 2 BY <1>2, <2>2
    <3> QED BY <3>1 DEF Before
  <2>5. ~Has(r, "restart") /\ ~Has(r, "delete") /\ ~Has(r, "applied")
    BY <1>2, <2>2 DEF Has
  <2>6. \A k \in DOMAIN r : r[k].type = "state" => k = 2 /\ r[k].at = p
    BY <1>2, <2>2
  <2>7. /\ r \in Seq(Event) /\ Fetched(r) = new
        /\ ~Has(r, "restart") /\ ~Has(r, "delete") /\ ~Has(r, "applied")
        /\ \A k \in DOMAIN r : r[k].type = "state" => r[k].at = p /\ new \subseteq Before(r, k)
    BY <2>2, <2>3, <2>4, <2>5, <2>6
  <2> QED BY <2>7 DEF r, f, s, c
<1> QED BY <1>3, <1>4

(* A fetch that comes in turn is for the account it was asked for: where   *)
(* the engine comes is a position of the bound account, and what it passed *)
(* on the way is in the messages before.                                   *)
LEMMA FetchPlaced ==
  ASSUME Types, Types', Asking, BridgeFetch, "data" \notin user'.late
  PROVE  Asking' /\ (Placed => Placed')
<1> DEFINE seen == IF bridge.at = None THEN {} ELSE bridge.at.seen
           now == [of |-> signedIn, seen |-> cloud[signedIn]]
           new == cloud[signedIn] \ seen
           r == (IF new = {} THEN <<>> ELSE <<[type |-> "fetched", items |-> new]>>)
                \o <<[type |-> "state", at |-> now], [type |-> "complete"]>>
           w == World
           v == World'
           x == Here
           y == Here'
           on == core.started /\ ~Has(mail, "restart")
           S == OnMac(w, x) \cup Fetched(mail)
           T == OnMac(w, x) \cup Fetched(mail) \cup Fetched(r)
<1>0. /\ Heads("fetch") /\ signedIn # None /\ Head(cmds).for = signedIn /\ user' = user
      /\ bridge' = [bridge EXCEPT !.at = now] /\ mail' = mail \o r
  <2>1. Noted(user, {"data"}).late = user.late \cup {"data"}
    <3>1. user \in Users /\ {"data"} \in SUBSET {"data", "deletion"} BY DEF Types
    <3> QED BY <3>1, Noting
  <2>2. user' = IF Head(cmds).for = signedIn THEN user ELSE Noted(user, {"data"})
    BY DEF BridgeFetch
  <2>3. Head(cmds).for = signedIn /\ user' = user BY <2>1, <2>2
  <2> QED BY <2>3 DEF BridgeFetch, Emit
<1>1. /\ cmds \in Seq(Command) /\ cmds # <<>> /\ Head(cmds).type = "fetch"
      /\ cmds' = Tail(cmds) /\ cmds' \in Seq(Command)
      /\ UNCHANGED <<db, core, host, user>> /\ bridge'.at = now
  <2>1. bridge \in Bridges BY DEF Types
  <2>2. bridge'.at = now BY <1>0, <2>1, Zenon DEF Bridges
  <2> QED BY <1>0, <2>2 DEF Types, Heads
<1>2. /\ \A k \in DOMAIN cmds' : \E l \in DOMAIN cmds : cmds'[k] = cmds[l]
      /\ Head(cmds) = cmds[1] /\ 1 \in DOMAIN cmds
  <2>1. \A k \in DOMAIN cmds' : k + 1 \in DOMAIN cmds /\ cmds'[k] = cmds[k + 1]
    BY <1>1, TailFacts
  <2> QED BY <1>1, <2>1, TailFacts
<1>3. now \in Position /\ new \in SUBSET Item /\ now.of = signedIn /\ now.seen = cloud[signedIn]
  <2>1. signedIn \in Account /\ cloud[signedIn] \in SUBSET Item BY <1>0 DEF Types, Grants
  <2> QED BY <2>1 DEF Position
<1>4. now.seen \subseteq seen \cup new BY <1>3
<1> HIDE DEF now, new
<1>5. /\ r \in Seq(Event) /\ Fetched(r) = new
      /\ ~Has(r, "restart") /\ ~Has(r, "applied")
      /\ \A k \in DOMAIN r : r[k].type = "state" => r[k].at = now /\ new \subseteq Before(r, k)
  BY <1>3, FetchEvents, Zenon
<1> HIDE DEF r
<1>6. Asking' BY <1>0, <1>1, <1>2, <1>5, Aside
<1>7. /\ x \in Contexts /\ y \in Contexts /\ w \in Worlds /\ v \in Worlds
      /\ v.db = w.db /\ v.core = w.core /\ v.effects = w.effects /\ w.db = db /\ w.core = core
      /\ y.declined = x.declined /\ x.mail = mail /\ y.mail = mail \o r
      /\ w.cmds = cmds /\ v.cmds = cmds' /\ x.at = bridge.at /\ y.at = now
  BY <1>0, <1>1, HereType, HereAfter
<1> HIDE DEF w, v, x, y
<1>8. ASSUME Placed PROVE Placed'
  <2>1. Right(w, x) /\ Saved(w) BY <1>8 DEF Placed, w, x
  <2>2. ASSUME db.bound # None, ~core.held
        PROVE  /\ \A k \in DOMAIN r : r[k].type = "state" =>
                    r[k].at.of = db.bound /\ r[k].at.seen \subseteq S \cup Before(r, k)
               /\ \A k \in DOMAIN cmds' : cmds'[k].type = "fetch" => cmds'[k].for = db.bound
               /\ Steady(cmds', now, T, on)
    <3>1. Under(w, x, on) BY <1>7, <2>1 DEF Right
    <3>2. /\ \A k \in DOMAIN cmds : cmds[k].type = "fetch" => cmds[k].for = db.bound
          /\ Steady(cmds, bridge.at, S, on)
      BY <1>7, <2>2, <3>1, Zenon DEF Under
    <3>3. S \subseteq T /\ T = S \cup new BY <1>5
    <3>4. signedIn = db.bound BY <1>0, <1>1, <1>2, <3>2
    <3> HIDE DEF S, T, on
    <3>5. Steady(cmds', bridge.at, S, on) /\ Good(bridge.at, S) BY <1>1, <3>2, SteadyTaken
    <3>6. now.seen \subseteq S \cup new BY <1>4, <3>5 DEF Good
    <3>7. Good(now, T) BY <3>3, <3>6 DEF Good
    <3>8. Steady(cmds', now, T, on) BY <1>1, <3>3, <3>5, <3>7, SteadyMoved
    <3>9. \A k \in DOMAIN r : r[k].type = "state" =>
            r[k].at.of = db.bound /\ r[k].at.seen \subseteq S \cup Before(r, k)
      BY <1>3, <1>5, <3>4, <3>6
    <3> QED BY <1>2, <3>2, <3>8, <3>9
  <2>3. Right(v, y)
    <3> HIDE DEF on
    <3>1. w.db.bound # None /\ ~w.core.held =>
            /\ \A k \in DOMAIN r : r[k].type = "state" =>
                 r[k].at.of = w.db.bound /\ r[k].at.seen \subseteq S \cup Before(r, k)
            /\ \A k \in DOMAIN v.cmds : v.cmds[k].type = "fetch" => v.cmds[k].for = w.db.bound
            /\ Steady(v.cmds, y.at, T, on)
      BY <1>7, <2>2
    <3> QED BY <1>5, <1>7, <2>1, <3>1, RightMoved DEF on, S, T
  <2>4. Saved(v) BY <1>7, <2>1 DEF Saved
  <2> QED BY <2>3, <2>4 DEF Placed, v, y
<1> QED BY <1>6, <1>8

(* Events that bring no position and ask for nothing.                      *)
Plain == {r \in Seq(Event) : ~Has(r, "restart") /\ ~Has(r, "delete")
                             /\ ~Has(r, "applied") /\ ~Has(r, "state")}

LEMMA PlainEvents ==
  /\ <<>> \in Plain
  /\ \A a \in Account \cup {None} :
       <<[type |-> "account", account |-> a]>> \in Plain
       /\ <<[type |-> "change", account |-> a]>> \in Plain
  /\ \A refused \in BOOLEAN : Failed(refused) \in Plain
  /\ \A S \in SUBSET Item : <<[type |-> "sent", items |-> S]>> \in Plain
  /\ <<[type |-> "send_failed"]>> \in Plain
  /\ <<[type |-> "zone_deleted"]>> \in Plain
<1>1. ASSUME NEW e \in Event, e.type \notin {"restart", "delete", "applied", "state"}
      PROVE  <<e>> \in Plain
  <2> DEFINE r == <<e>>
  <2>1. r \in Seq(Event) /\ Len(r) = 1 /\ r[1] = e OBVIOUS
  <2> HIDE DEF r
  <2>2. \A k \in DOMAIN r : r[k] = e BY <2>1
  <2>3. r \in Plain BY <1>1, <2>1, <2>2 DEF Plain, Has
  <2> QED BY <2>3 DEF r
<1>2. <<>> \in Plain BY DEF Plain, Has
<1>3. \A a \in Account \cup {None} :
        [type |-> "account", account |-> a] \in Event /\ [type |-> "change", account |-> a] \in Event
  BY DEF Event
<1>4. \A refused \in BOOLEAN : [type |-> "error", refused |-> refused] \in Event BY DEF Event
<1>5. \A S \in SUBSET Item : [type |-> "sent", items |-> S] \in Event BY DEF Event
<1>6. [type |-> "send_failed"] \in Event /\ [type |-> "zone_deleted"] \in Event BY DEF Event
<1> QED BY <1>1, <1>2, <1>3, <1>4, <1>5, <1>6 DEF Failed

LEMMA MailSame == ASSUME Types, mail' = mail PROVE mail' = mail \o <<>>
<1>1. mail \in Seq(Event) BY DEF Types
<1> QED BY <1>1, ConcatEmptySeq

LEMMA RanPlain ==
  ASSUME Types, Types', Asking, NEW type, Runs(type), NEW r \in Plain,
         mail' = mail \o r,
         bridge'.at \in {None, IF type = "start" THEN Head(cmds).at ELSE bridge.at}
  PROVE  Asking' /\ (Placed => Placed')
BY Ran DEF Plain

(* Every command of the bridge keeps the invariants.                       *)
LEMMA Obeying ==
  ASSUME Types, Asking, BridgeRuns, "data" \notin user'.late
  PROVE  Asking' /\ (Placed => Placed')
<1>0. /\ Types' /\ bridge \in Bridges /\ signedIn \in Account \cup {None}
  BY Bridging DEF Types
<1>1. CASE BridgeStart
  <2>1. Runs("start") /\ mail' = mail \o <<>> /\ bridge'.at = Head(cmds).at
    BY <1>1, MailSame DEF BridgeStart, Nothing
  <2> QED BY <1>0, <2>1, PlainEvents, RanPlain
<1>2. CASE BridgeCheck
  <2> DEFINE r == <<[type |-> "account", account |-> signedIn]>>
  <2>1. r \in Plain BY <1>0, PlainEvents
  <2>2. Runs("check") /\ mail' = mail \o r /\ bridge' = bridge BY <1>2 DEF BridgeCheck, Emit
  <2> HIDE DEF r
  <2> QED BY <1>0, <2>1, <2>2, RanPlain
<1>3. CASE BridgeStage
  <2>1. Runs("stage") BY <1>3 DEF BridgeStage
  <2>2. /\ \E r \in Plain : mail' = mail \o r
        /\ bridge'.at \in {None, bridge.at}
    <3>1. CASE ~bridge.running \/ Head(cmds).for # signedIn
      <4>1. bridge' = bridge /\ (mail' = mail \o Failed(TRUE) \/ mail' = mail)
        BY <1>3, <3>1 DEF BridgeStage, Emit, Nothing
      <4> QED BY <4>1, MailSame, PlainEvents
    <3>2. CASE bridge.running /\ Head(cmds).for = signedIn
      <4>1. PICK b \in {signedIn} \cup IF Interrupted /\ left.switches > 0 THEN Account ELSE {} :
              StageUnder(b)
        BY <1>3, <3>2 DEF BridgeStage
      <4>2. CASE b = signedIn
        <5>1. mail' = mail
              /\ bridge' = [bridge EXCEPT !.staged = bridge.staged \cup Head(cmds).items]
          BY <4>1, <4>2 DEF StageUnder, Nothing
        <5>2. bridge'.at = bridge.at BY <1>0, <5>1, Zenon DEF Bridges
        <5> QED BY <5>1, <5>2, MailSame, PlainEvents
      <4>3. CASE b # signedIn
        <5>1. /\ bridge' = [bridge EXCEPT !.at = None, !.staged = Head(cmds).items]
              /\ mail' = mail \o <<[type |-> "change", account |-> b]>>
          BY <4>1, <4>3 DEF StageUnder, Emit
        <5>2. bridge'.at = None BY <1>0, <5>1, Zenon DEF Bridges
        <5> QED BY <1>0, <5>1, <5>2, PlainEvents
      <4> QED BY <4>2, <4>3
    <3> QED BY <3>1, <3>2
  <2>3. PICK r \in Plain : mail' = mail \o r BY <2>2
  <2>4. bridge'.at \in {None, IF "stage" = "start" THEN Head(cmds).at ELSE bridge.at} BY <2>2
  <2> QED BY <1>0, <2>1, <2>3, <2>4, RanPlain
<1>4. CASE BridgeSend
  <2>1. /\ Runs("send") /\ bridge' = [bridge EXCEPT !.staged = {}]
        /\ mail' = mail \/ mail' = mail \o <<[type |-> "sent", items |-> bridge.staged]>>
    BY <1>4 DEF BridgeSend, Nothing, Emit
  <2>2. bridge'.at = bridge.at /\ bridge.staged \in SUBSET Item
    BY <1>0, <2>1, Zenon DEF Bridges
  <2>3. PICK r \in Plain : mail' = mail \o r BY <1>0, <2>1, <2>2, MailSame, PlainEvents
  <2>4. Runs("send") /\ bridge'.at = bridge.at BY <2>1, <2>2
  <2> QED BY <1>0, <2>3, <2>4, RanPlain
<1>5. CASE BridgeSendFails
  <2> DEFINE r == <<[type |-> "send_failed"]>>
  <2>1. r \in Plain BY PlainEvents
  <2>2. Runs("send") /\ mail' = mail \o r /\ bridge' = bridge
    BY <1>5 DEF BridgeSendFails, Emit
  <2> HIDE DEF r
  <2> QED BY <1>0, <2>1, <2>2, RanPlain
<1>6. CASE BridgeFetch BY <1>0, <1>6, FetchPlaced
<1>7. CASE BridgeDelete
  <2> DEFINE r == <<[type |-> "zone_deleted"]>>
  <2>1. r \in Plain BY PlainEvents
  <2>2. Runs("delete") /\ mail' = mail \o r /\ bridge' = bridge
    BY <1>7 DEF BridgeDelete, Emit
  <2> HIDE DEF r
  <2> QED BY <1>0, <2>1, <2>2, RanPlain
<1>8. CASE BridgeFails
  <2>1. PICK type \in {"fetch", "delete"} : Runs(type) BY <1>8 DEF BridgeFails
  <2>2. Failed(FALSE) \in Plain BY PlainEvents
  <2>3. mail' = mail \o Failed(FALSE) /\ bridge' = bridge BY <1>8 DEF BridgeFails, Emit
  <2> QED BY <1>0, <2>1, <2>2, <2>3, RanPlain
<1>9. CASE BridgeStop
  <2>1. Runs("stop") /\ mail' = mail \o <<>>
        /\ bridge' = [bridge EXCEPT !.running = FALSE, !.staged = {}]
    BY <1>9, MailSame DEF BridgeStop, Nothing
  <2>2. bridge'.at = bridge.at BY <1>0, <2>1, Zenon DEF Bridges
  <2>3. PICK r \in Plain : mail' = mail \o r BY <2>1, PlainEvents
  <2>4. Runs("stop") BY <2>1
  <2> QED BY <1>0, <2>2, <2>3, <2>4, RanPlain
<1> QED BY <1>1, <1>2, <1>3, <1>4, <1>5, <1>6, <1>7, <1>8, <1>9 DEF BridgeRuns

(* Nothing is taken from what this Mac holds, and messages come.           *)
LEMMA RightTold ==
  ASSUME NEW x \in Contexts, NEW y \in Contexts, NEW w \in Worlds, NEW v \in Worlds,
         NEW r \in Seq(Event), y.mail = x.mail \o r, y.at = x.at,
         ~Has(r, "restart"), ~Has(r, "state"), ~Has(r, "applied"),
         v.core = w.core, v.cmds = w.cmds, v.effects = w.effects,
         v.db.bound = w.db.bound, v.db.joined = w.db.joined,
         v.db.ckpt = w.db.ckpt, v.db.linked = w.db.linked, w.db.local \subseteq v.db.local,
         Kept(w.db, x.declined) \subseteq Kept(v.db, y.declined), Right(w, x)
  PROVE  Right(v, y)
<1>1. x.mail \in Seq(Event) BY DEF Contexts
<1>2. OnMac(w, x) \subseteq OnMac(v, y) BY DEF OnMac
<1>3. Under(w, x, w.core.started /\ ~Has(x.mail, "restart")) BY DEF Right
<1>4. Under(v, y, v.core.started /\ ~Has(y.mail, "restart")) BY <1>2, <1>3, UnderTold
<1>5. \A type : Has(y.mail, type) <=> Has(x.mail, type) \/ Has(r, type) BY <1>1, MailSent
<1>6. Acks(y.mail) = Acks(x.mail) BY <1>1, AcksOthers
<1>7. Disk(v, y) /\ Linked(v, y) BY DEF Right, Disk, Linked
<1>8. Calm(v, y) /\ Counted(v, y) BY <1>5, <1>6 DEF Right, Calm, Counted
<1> QED BY <1>4, <1>7, <1>8 DEF Right

LEMMA RightMore ==
  ASSUME NEW x \in Contexts, NEW y \in Contexts, NEW w \in Worlds, NEW v \in Worlds,
         y.mail = x.mail, y.at = x.at, v.core = w.core, v.cmds = w.cmds,
         v.effects = w.effects, v.db.bound = w.db.bound, v.db.joined = w.db.joined,
         v.db.ckpt = w.db.ckpt, v.db.linked = w.db.linked, w.db.local \subseteq v.db.local,
         Kept(w.db, x.declined) \subseteq Kept(v.db, y.declined), Right(w, x)
  PROVE  Right(v, y)
<1>1. x.mail \in Seq(Event) BY DEF Contexts
<1>2. PICK r \in Plain : y.mail = x.mail \o r
  <2>1. y.mail = x.mail \o <<>> BY <1>1, ConcatEmptySeq
  <2> QED BY <2>1, PlainEvents
<1> QED BY <1>2, RightTold DEF Plain

LEMMA JoinOffered ==
  ASSUME NEW c \in {"join", "cloud"}, c \in Offered
  PROVE  host.confirm = None /\ host.phase = "join" /\ ~host.deleted
<1>1. db.enabled BY DEF Offered
<1>2. Prompt \in {"none", "account", "confirm", "join"} BY Zenon DEF Prompt
<1>3. Prompt # "account"
  <2> SUFFICES ASSUME Prompt = "account" PROVE FALSE OBVIOUS
  <2>1. Offered = {"disable"} \cup {"keep", "use", "merge"} BY <1>1, Zenon DEF Offered
  <2> QED BY <2>1
<1>4. Prompt # "confirm"
  <2> SUFFICES ASSUME Prompt = "confirm" PROVE FALSE OBVIOUS
  <2>1. Offered = {"disable"} \cup {"confirm"} BY <1>1 DEF Offered
  <2> QED BY <2>1
<1>5. Prompt # "none"
  <2> SUFFICES ASSUME Prompt = "none" PROVE FALSE OBVIOUS
  <2>1. Offered \subseteq {"disable", "delete"} BY <1>1 DEF Offered
  <2> QED BY <2>1
<1> QED BY <1>2, <1>3, <1>4, <1>5 DEF Prompt

(* A choice is pressed, whatever waits.                                    *)
LEMMA Pressing ==
  ASSUME Types, Asking, NEW c \in Choices, Choose(c) PROVE Asking' /\ (Placed => Placed')
<1>0. /\ Types' /\ host \in Hosts /\ user \in Users
  BY Choosing DEF Types
<1>1. /\ c \in Offered /\ host' = [host EXCEPT !.choice = c]
      /\ user' = IF c = "delete" THEN [user EXCEPT !.asked = user.asked \cup {db.bound}] ELSE user
      /\ UNCHANGED <<db, core, mail, cmds, bridge, signedIn, cloud>>
  BY DEF Choose
<1>2. /\ host'.choice = c /\ host'.confirm = host.confirm /\ host'.phase = host.phase
      /\ host'.effects = host.effects
  BY <1>0, <1>1, Zenon DEF Hosts
<1>3. user'.declined = user.declined
  <2>1. CASE c = "delete"
    <3> DEFINE s == user.asked \cup {db.bound}
    <3>1. user' = [user EXCEPT !.asked = s] BY <1>1, <2>1
    <3> HIDE DEF s
    <3> QED BY <1>0, <3>1, Zenon DEF Users
  <2>2. CASE c # "delete" BY <1>1, <2>2
  <2> QED BY <2>1, <2>2
<1>4. /\ Here \in Contexts /\ World \in Worlds /\ World' = World /\ Here' = Here
  <2>1. World' = World BY <1>1, <1>2 DEF World
  <2>2. Here' = Here BY <1>1, <1>3 DEF Here
  <2> QED BY <2>1, <2>2, HereType
<1>5. c \in {"join", "cloud"} => db.bound # None /\ host.confirm = None
  BY <1>1, JoinOffered DEF Asking
<1>6. Asking' BY <1>1, <1>2, <1>4, <1>5 DEF Asking
<1>7. Placed => Placed' BY <1>4 DEF Placed
<1> QED BY <1>6, <1>7

(* Items are saved, here or on another Mac.                                *)
LEMMA Saving ==
  ASSUME Types, Types', Asking, UNCHANGED <<core, host, mail, cmds, bridge>>,
         db.local \subseteq db'.local, db'.bound = db.bound, db'.joined = db.joined,
         db'.ckpt = db.ckpt, db'.linked = db.linked, db'.inbox = db.inbox,
         user'.declined = user.declined
  PROVE  Asking' /\ (Placed => Placed')
<1>1. /\ Here \in Contexts /\ Here' \in Contexts /\ World \in Worlds /\ World' \in Worlds
      /\ Here' = Here /\ Here.declined = user.declined
      /\ World'.core = World.core /\ World'.cmds = World.cmds /\ World'.effects = World.effects
      /\ World.db = db /\ World'.db = db'
  <2>1. Here' = Here BY DEF Here
  <2> QED BY <2>1, HereType, HereAfter
<1>2. Kept(db, Here.declined) \subseteq Kept(db', Here'.declined) BY <1>1 DEF Kept
<1>3. Placed => Placed'
  <2>1. Right(World, Here) => Right(World', Here') BY <1>1, <1>2, RightMore
  <2>2. Saved(World) => Saved(World') BY <1>1 DEF Saved
  <2> QED BY <2>1, <2>2 DEF Placed
<1>4. Proper(World', Here') BY <1>1 DEF Asking, Proper
<1>5. core' = core /\ host' = host /\ mail' = mail OBVIOUS
<1>6. Asking' BY <1>4, <1>5 DEF Asking
<1> QED BY <1>3, <1>6

LEMMA Created ==
  ASSUME Types, Asking, NEW i \in Item, Create(i) PROVE Asking' /\ (Placed => Placed')
<1>0. /\ Types' /\ db \in Database /\ user \in Users BY Creating DEF Types
<1>1. /\ db' = [db EXCEPT !.local = db.local \cup {i}]
      /\ user' = IF db.joined THEN Agreed(user, db.bound, {i}) ELSE user
      /\ UNCHANGED <<core, host, mail, cmds, bridge>>
  BY DEF Create
<1>2. /\ db'.local = db.local \cup {i} /\ db'.bound = db.bound /\ db'.joined = db.joined
      /\ db'.ckpt = db.ckpt /\ db'.linked = db.linked /\ db'.inbox = db.inbox
  BY <1>0, <1>1, Zenon DEF Database
<1>3. user'.declined = user.declined BY <1>0, <1>1, Zenon DEF Agreed, Users
<1> QED BY <1>0, <1>1, <1>2, <1>3, Saving

LEMMA PeerSaved ==
  ASSUME Types, Asking, NEW a \in Account, NEW i \in Item, PeerSaves(a, i)
  PROVE  Asking' /\ (Placed => Placed')
<1>0. /\ Types' /\ user \in Users BY PeerSaving DEF Types
<1>1. /\ user' = Agreed(user, a, {i}) /\ UNCHANGED <<db, core, host, mail, cmds, bridge>>
  BY DEF PeerSaves
<1>2. user'.declined = user.declined BY <1>0, <1>1, Zenon DEF Agreed, Users
<1> QED BY <1>0, <1>1, <1>2, Saving

(* Another account signs in: the engine forgets where it was.              *)
LEMMA Switched ==
  ASSUME Types, Asking, NEW a \in Account \cup {None}, Switch(a)
  PROVE  Asking' /\ (Placed => Placed')
<1> DEFINE w == World
           v == World'
           x == Here
           y == Here'
<1>0. Types' /\ bridge \in Bridges BY Switches DEF Types
<1>1. /\ UNCHANGED <<db, core, host, cmds, user>> BY DEF Switch
<1>2. PICK r \in Plain : mail' = mail \o r BY MailSame, PlainEvents DEF Switch, Emit, Nothing
<1>3. bridge'.at \in {None, bridge.at}
  <2>1. CASE bridge.running
    <3>1. bridge' = [bridge EXCEPT !.at = None, !.staged = {}] BY <2>1 DEF Switch
    <3> QED BY <1>0, <3>1, Zenon DEF Bridges
  <2>2. CASE ~bridge.running BY <2>2 DEF Switch
  <2> QED BY <2>1, <2>2
<1>4. /\ r \in Seq(Event) /\ ~Has(r, "restart") /\ ~Has(r, "applied")
      /\ ~Has(r, "state") /\ \A k \in DOMAIN r : r[k].type # "state"
  BY DEF Plain, Has
<1>5. Asking' BY <1>0, <1>1, <1>2, <1>4, Aside
<1>6. /\ x \in Contexts /\ y \in Contexts /\ w \in Worlds /\ v \in Worlds
      /\ v.db = w.db /\ v.core = w.core /\ v.effects = w.effects /\ v.cmds = w.cmds
      /\ y.declined = x.declined /\ y.mail = x.mail \o r /\ y.at \in {None, x.at}
      /\ w.cmds \in Seq(Command)
  BY <1>0, <1>1, <1>2, <1>3, HereType, HereAfter DEF Types
<1> HIDE DEF w, v, x, y
<1>7. ASSUME Right(w, x), Saved(w) PROVE Right(v, y) /\ Saved(v)
  <2> DEFINE on == w.core.started /\ ~Has(x.mail, "restart")
             S == OnMac(w, x) \cup Fetched(x.mail)
             T == OnMac(w, x) \cup Fetched(x.mail) \cup Fetched(r)
  <2>1. ASSUME w.db.bound # None, ~w.core.held
        PROVE  /\ \A k \in DOMAIN v.cmds : v.cmds[k].type = "fetch" => v.cmds[k].for = w.db.bound
               /\ Steady(v.cmds, y.at, T, on)
    <3>1. Under(w, x, on) BY <1>7 DEF Right
    <3>2. /\ \A k \in DOMAIN w.cmds : w.cmds[k].type = "fetch" => w.cmds[k].for = w.db.bound
          /\ Steady(w.cmds, x.at, S, on)
      BY <2>1, <3>1, Zenon DEF Under
    <3>3. S \subseteq T /\ Good(None, T) BY DEF Good
    <3> HIDE DEF S, T, on
    <3>4. Steady(w.cmds, x.at, T, on) BY <1>6, <3>2, <3>3, SteadyMore
    <3>5. Steady(w.cmds, None, T, on) BY <1>6, <3>2, <3>3, SteadyMoved
    <3> QED BY <1>6, <3>2, <3>4, <3>5
  <2> HIDE DEF on
  <2>2. Right(v, y) BY <1>4, <1>6, <1>7, <2>1, RightMoved DEF on, T
  <2>3. Saved(v) BY <1>6, <1>7 DEF Saved
  <2> QED BY <2>2, <2>3
<1> QED BY <1>5, <1>7 DEF Placed, w, v, x, y

(* The program has just started.                                           *)
LEMMA Fresh ==
  ASSUME SessionAssumption, NEW x \in Contexts, NEW w \in Worlds, w.core = NewCore,
         w.effects = NoEffects, w.cmds = <<>>, x.at = None,
         x.mail = <<>> \/ x.mail = <<[type |-> "start"]>>
  PROVE  /\ Proper(w, x) /\ Saved(w)
         /\ Disk(w, x)
            /\ (w.db.joined => w.db.linked \subseteq Kept(w.db, x.declined))
            /\ (~w.db.joined => w.db.linked = {})
            => Right(w, x)
<1>1. \A k \in DOMAIN x.mail : x.mail[k].type = "start"
  <2> DEFINE e == [type |-> "start"]
             q == <<e>>
  <2>1. e \in Event /\ e.type = "start" BY DEF Event
  <2> HIDE DEF e
  <2>2. q \in Seq(Event) /\ Len(q) = 1 /\ q[1] = e BY <2>1
  <2>3. x.mail = <<>> \/ x.mail = q BY DEF e
  <2> HIDE DEF q
  <2>4. \A k \in DOMAIN q : q[k] = e BY <2>2
  <2> QED BY <2>1, <2>3, <2>4
<1>2. /\ w.core.pending = None /\ w.core.inflight = {} /\ w.core.unapplied = 0
      /\ w.effects.batches = <<>> /\ w.effects.confirm = None
  BY DEF NewCore, NoEffects
<1>3. Acks(x.mail) = {} BY <1>1 DEF Acks
<1>4. Counted(w, x) BY <1>2, <1>3, FS_EmptySet DEF Counted
<1>5. /\ (w.db.joined => w.db.linked \subseteq Kept(w.db, x.declined))
      /\ (~w.db.joined => w.db.linked = {})
      => Linked(w, x) /\ Calm(w, x)
  BY <1>2 DEF Linked, Calm
<1>6. Under(w, x, w.core.started /\ ~Has(x.mail, "restart"))
  <2> DEFINE on == w.core.started /\ ~Has(x.mail, "restart")
             S == OnMac(w, x) \cup Fetched(x.mail)
  <2>1. Steady(w.cmds, x.at, S, on) BY SteadyEmpty
  <2>2. \A k \in DOMAIN w.cmds : FALSE OBVIOUS
  <2> HIDE DEF on, S
  <2>3. Under(w, x, on) BY <1>1, <1>2, <2>1, <2>2 DEF Under, S
  <2> QED BY <2>3 DEF on
<1>7. Saved(w) /\ Proper(w, x)
  <2>1. \A k \in DOMAIN w.cmds : FALSE OBVIOUS
  <2> QED BY <1>2, <2>1 DEF Saved, Proper
<1> QED BY <1>4, <1>5, <1>6, <1>7 DEF Right

LEMMA LaunchedMail ==
  ASSUME NEW q, q = <<>> \/ q = <<[type |-> "start"]>>
  PROVE  Prompted(q) /\ ~Has(q, "delete")
<1> DEFINE e == [type |-> "start"]
           r == <<e>>
<1>1. e \in Event /\ e.type = "start" BY DEF Event
<1>2. q = <<>> \/ q = r OBVIOUS
<1> HIDE DEF e
<1>3. r \in Seq(Event) /\ Len(r) = 1 /\ r[1] = e BY <1>1
<1> HIDE DEF r
<1>4. \A k \in DOMAIN q : q[k].type = "start" BY <1>1, <1>2, <1>3
<1> QED BY <1>4 DEF Prompted, Has

LEMMA Crashed ==
  ASSUME Types, Asking, Crash PROVE Asking' /\ (Placed => Placed')
<1> DEFINE w == World
           v == World'
           x == Here
           y == Here'
<1>0. Types' BY Crashing
<1>1. /\ core' = NewCore /\ host' = NewHost /\ bridge' = NewBridge /\ cmds' = <<>>
      /\ mail' = <<>> \/ mail' = <<[type |-> "start"]>>
      /\ UNCHANGED <<db, user>>
  BY DEF Crash, Launched
<1>2. /\ y \in Contexts /\ v \in Worlds /\ v.core = NewCore /\ v.effects = NoEffects
      /\ v.cmds = <<>> /\ y.at = None /\ y.mail = mail' /\ v.db = w.db
      /\ y.declined = x.declined
  <2>1. NewHost.effects = NoEffects /\ NewBridge.at = None BY DEF NewHost, NewBridge
  <2> QED BY <1>0, <1>1, <2>1, HereType, HereAfter
<1>3. Prompted(mail') BY <1>1, LaunchedMail
<1>4. host'.choice = None /\ host'.confirm = None /\ host'.phase = "off"
  BY <1>1 DEF NewHost
<1>5. Proper(v, y) /\ Saved(v) BY <1>1, <1>2, SessionAssumption, Fresh
<1>6. ASSUME Right(w, x) PROVE Right(v, y)
  <2>1. /\ Disk(v, y)
        /\ v.db.joined => v.db.linked \subseteq Kept(v.db, y.declined)
        /\ ~v.db.joined => v.db.linked = {}
    BY <1>2, <1>6 DEF Right, Disk, Linked
  <2> QED BY <1>1, <1>2, <2>1, SessionAssumption, Fresh
<1> HIDE DEF w, v, x, y
<1>7. Placed => Placed' BY <1>5, <1>6 DEF Placed, w, v, x, y
<1>8. Asking'
  <2>1. db'.joined => db'.bound # None /\ host'.confirm = None BY <1>1, <1>4 DEF Asking
  <2>2. host'.choice \notin {"join", "cloud"} /\ host'.phase # "join"
    BY <1>4, SessionAssumption
  <2> QED BY <1>3, <1>5, <2>1, <2>2 DEF Asking, v, y
<1> QED BY <1>7, <1>8

(* In the beginning.                                                       *)
LEMMA Begun == Init => Asking /\ Placed
<1> SUFFICES ASSUME Init PROVE Asking /\ Placed OBVIOUS
<1>1. PICK joined \in BOOLEAN :
        /\ db = [enabled |-> joined, bound |-> IF joined THEN Home ELSE None, joined |-> joined,
                 ckpt |-> IF joined THEN [of |-> Home, seen |-> {}] ELSE None,
                 owner |-> IF joined THEN Home ELSE None,
                 local |-> {}, linked |-> {}, inbox |-> {}]
        /\ core = NewCore /\ host = NewHost /\ bridge = NewBridge
        /\ cmds = <<>> /\ mail = Launched
  BY DEF Init
<1> DEFINE w == World
           x == Here
<1>2. Types BY Initial
<1>3. /\ x \in Contexts /\ w \in Worlds /\ w.core = NewCore /\ w.effects = NoEffects
      /\ w.cmds = <<>> /\ x.at = None /\ x.mail = mail /\ w.db = db
  <2>1. NewHost.effects = NoEffects /\ NewBridge.at = None BY DEF NewHost, NewBridge
  <2> QED BY <1>1, <1>2, <2>1, HereType
<1>4. mail = <<>> \/ mail = <<[type |-> "start"]>> BY <1>1 DEF Launched
<1>5. /\ db.linked = {} /\ db.joined = joined /\ (joined => db.bound = Home)
      /\ db.ckpt # None => db.ckpt.of = db.bound /\ db.ckpt.seen = {}
  BY <1>1
<1> HIDE DEF w, x
<1>6. Disk(w, x) BY <1>3, <1>5 DEF Disk
<1>7. Proper(w, x) /\ Saved(w) /\ Right(w, x)
  BY <1>3, <1>4, <1>5, <1>6, SessionAssumption, Fresh
<1>8. Placed BY <1>7 DEF Placed, w, x
<1>9. host.choice = None /\ host.confirm = None /\ host.phase = "off" BY <1>1 DEF NewHost
<1>10. Prompted(mail) BY <1>4, LaunchedMail
<1>11. Asking
  <2>1. db.joined => db.bound # None BY <1>5, SessionAssumption
  <2>2. host.choice \notin {"join", "cloud"} /\ host.phase # "join"
    BY <1>9, SessionAssumption
  <2> QED BY <1>7, <1>9, <1>10, <2>1, <2>2 DEF Asking, w, x
<1> QED BY <1>8, <1>11

-----------------------------------------------------------------------------
(*                           The app thread                                *)

(* The first merge, whatever waits.                                        *)
LEMMA RightJoined ==
  ASSUME NEW x \in Contexts, NEW y \in Contexts, NEW w \in Worlds, NEW v \in Worlds,
         NEW r \in Seq(Event), y.mail = x.mail \o r, y.at = x.at, y.declined = x.declined,
         ~Has(r, "restart"), ~Has(r, "state"), ~Has(r, "applied"),
         v.core = w.core, v.cmds = w.cmds, v.effects = w.effects, w.db.bound # None,
         ~w.db.joined, v.db.joined, v.db.bound = w.db.bound, v.db.ckpt = w.db.ckpt,
         w.db.inbox \subseteq v.db.local, v.db.linked = w.db.linked \cup w.db.inbox,
         Right(w, x)
  PROVE  Right(v, y)
<1>1. x.mail \in Seq(Event) BY DEF Contexts
<1>2. Kept(w.db, x.declined) \subseteq Kept(v.db, y.declined) BY DEF Kept
<1>3. OnMac(w, x) \subseteq OnMac(v, y) BY <1>2 DEF OnMac
<1>4. Under(w, x, w.core.started /\ ~Has(x.mail, "restart")) BY DEF Right
<1>5. Under(v, y, v.core.started /\ ~Has(y.mail, "restart")) BY <1>3, <1>4, UnderTold
<1>6. Acks(y.mail) = Acks(x.mail) BY <1>1, AcksOthers
<1>7. w.core.inflight = {} \/ Has(x.mail, "restart") BY DEF Right, Calm
<1>8. \A type : Has(y.mail, type) <=> Has(x.mail, type) \/ Has(r, type) BY <1>1, MailSent
<1>9. w.db.linked = {} BY DEF Right, Linked
<1>10. v.db.linked \subseteq Kept(v.db, y.declined) BY <1>9 DEF Kept
<1>11. Linked(v, y) BY <1>10 DEF Linked
<1>12. Disk(v, y) BY <1>2 DEF Right, Disk
<1>13. Calm(v, y) BY <1>7, <1>8 DEF Calm
<1>14. Counted(v, y) BY <1>6 DEF Right, Counted
<1> QED BY <1>5, <1>11, <1>12, <1>13, <1>14 DEF Right

(* Another account is bound, or the same one anew, while no fetch waits.   *)
LEMMA RightRebound ==
  ASSUME NEW x \in Contexts, NEW y \in Contexts, NEW w \in Worlds, NEW v \in Worlds,
         x.mail = <<>>, w.effects.batches = <<>>, ~Has(w.cmds, "fetch"),
         Has(y.mail, "restart"), ~Has(y.mail, "state"), ~Has(y.mail, "applied"),
         v.core = w.core, v.cmds = w.cmds, v.effects = w.effects,
         v.db.ckpt = None, ~v.db.joined, v.db.linked = {}, Right(w, x), Saved(w)
  PROVE  Right(v, y)
<1>1. w.cmds \in Seq(Command) BY DEF Worlds
<1>2. Acks(x.mail) = {} /\ Acks(y.mail) = {} BY DEF Acks, Has
<1>3. Len(w.effects.batches) = 0 BY EmptySeq
<1>4. w.core.unapplied = 0
  <2>1. Counted(w, x) BY DEF Right
  <2>2. Cardinality(Acks(x.mail)) = 0 BY <1>2, FS_EmptySet
  <2> QED BY <1>3, <2>1, <2>2 DEF Counted
<1>5. Counted(v, y) BY <1>2, <1>3, <1>4, FS_EmptySet DEF Counted
<1>6. ~w.core.held => w.core.pending = None BY <1>4 DEF Saved
<1>7. Under(v, y, FALSE)
  <2> DEFINE S == OnMac(v, y) \cup Fetched(y.mail)
  <2>1. Steady(v.cmds, y.at, S, FALSE) BY <1>1, SteadyIdle
  <2>2. /\ \A k \in DOMAIN y.mail : y.mail[k].type # "state"
        /\ \A k \in DOMAIN v.cmds : v.cmds[k].type # "fetch"
    BY DEF Has
  <2> QED BY <1>6, <2>1, <2>2 DEF Under
<1>8. Under(v, y, v.core.started /\ ~Has(y.mail, "restart")) BY <1>7 DEF Under, Steady
<1>9. Disk(v, y) /\ Linked(v, y) /\ Calm(v, y) BY DEF Disk, Linked, Calm
<1> QED BY <1>5, <1>8, <1>9 DEF Right

(* No account is bound any more.                                           *)
LEMMA RightUnbound ==
  ASSUME NEW y, NEW v, v.db.bound = None, ~v.db.joined, v.db.linked = {},
         v.effects.batches = <<>>, Has(y.mail, "stop"), Counted(v, y)
  PROVE  Right(v, y)
BY DEF Right, Disk, Under, Linked, Calm

(* The batches that wait are applied, and the worker is told of each.      *)
LEMMA RightApplying ==
  ASSUME NEW x \in Contexts, NEW y \in Contexts, NEW w \in Worlds, NEW v \in Worlds,
         NEW r \in Seq(Event), y.mail = x.mail \o r, y.at = x.at, y.declined = x.declined,
         \A k \in DOMAIN r : r[k].type = "applied", Len(r) = Len(w.effects.batches),
         v.core = w.core, v.cmds = w.cmds, v.effects.batches = <<>>,
         v.db.bound = w.db.bound, v.db.joined = w.db.joined, v.db.ckpt = w.db.ckpt,
         v.db.inbox = w.db.inbox, v.db.local = w.db.local \cup Waiting(w.effects.batches),
         v.db.linked = w.db.linked \cup Waiting(w.effects.batches), Right(w, x)
  PROVE  Right(v, y)
<1>1. x.mail \in Seq(Event) BY DEF Contexts
<1>2. ~Has(r, "restart") /\ ~Has(r, "state") BY DEF Has
<1>3. ~w.db.joined => Waiting(w.effects.batches) = {}
  <2>1. ~w.db.joined => w.effects.batches = <<>> BY DEF Right, Linked
  <2>2. Waiting(<<>>) = {} BY DEF Waiting
  <2> QED BY <2>1, <2>2
<1>4. Kept(w.db, x.declined) \subseteq Kept(v.db, y.declined) BY DEF Kept
<1>5. OnMac(w, x) \subseteq OnMac(v, y) BY <1>3, <1>4 DEF OnMac, Kept
<1>6. Under(w, x, w.core.started /\ ~Has(x.mail, "restart")) BY DEF Right
<1>7. Under(v, y, v.core.started /\ ~Has(y.mail, "restart")) BY <1>2, <1>5, <1>6, UnderTold
<1>8. Cardinality(Acks(y.mail)) = Cardinality(Acks(x.mail)) + Len(r) BY <1>1, AcksAll
<1>9. Counted(v, y)
  <2>1. w.core.unapplied = Len(w.effects.batches) + Cardinality(Acks(x.mail)) BY DEF Right, Counted
  <2>2. /\ Cardinality(Acks(x.mail)) \in Nat /\ Len(r) \in Nat /\ Len(v.effects.batches) = 0
    BY <1>1, AcksFinite, SeqFacts, EmptySeq
  <2> QED BY <1>8, <2>1, <2>2 DEF Counted
<1>10. \A type : Has(y.mail, type) <=> Has(x.mail, type) \/ Has(r, type) BY <1>1, MailSent
<1>11. Linked(v, y)
  <2>1. w.db.joined => v.db.linked \subseteq Kept(v.db, y.declined)
    BY <1>4 DEF Right, Linked, Kept
  <2> QED BY <1>3, <2>1 DEF Right, Linked
<1>12. Disk(v, y) BY <1>4 DEF Right, Disk
<1>13. Calm(v, y) BY <1>10 DEF Right, Calm
<1> QED BY <1>7, <1>9, <1>11, <1>12, <1>13 DEF Right

(* What a step of the app thread leaves for the core.                      *)
Sees(v) == [db |-> v.db, core |-> core, cmds |-> cmds, effects |-> v.host.effects]
Around(v) == [declined |-> v.user.declined, asked |-> Account \cup {None}, at |-> bridge.at,
              mail |-> v.mail]
Puts(v) == Right(Sees(v), Around(v))

(* Asking, as far as it holds in the middle of such a step.                *)
Asks(v) ==
  /\ Prompted(v.mail) /\ v.host.choice = None
  /\ v.db.joined =>
       v.db.bound # None /\ v.host.confirm = None /\ v.host.effects.confirm = None
  /\ v.db.enabled /\ v.host.phase = "join" => v.db.bound # None

(* The choice is taken.                                                    *)
Ready == [App EXCEPT !.host.choice = None]

(* The answers to the questions which account to use.                      *)
Answers == {"confirm", "keep", "use", "merge"}

LEMMA SeenType ==
  ASSUME Types, NEW v \in Apps
  PROVE  /\ Sees(v) \in Worlds /\ Around(v) \in Contexts
         /\ Sees(v).db = v.db /\ Sees(v).core = core /\ Sees(v).cmds = cmds
         /\ Sees(v).effects = v.host.effects /\ Around(v).declined = v.user.declined
         /\ Around(v).at = bridge.at /\ Around(v).mail = v.mail
<1> DEFINE all == Account \cup {None}
<1>1. all \in SUBSET (Account \cup {None}) OBVIOUS
<1>2. Around(v) = [declined |-> v.user.declined, asked |-> all, at |-> bridge.at, mail |-> v.mail]
  BY DEF Around
<1> HIDE DEF all
<1>3. /\ Sees(v) \in Worlds /\ Sees(v).db = v.db /\ Sees(v).core = core
      /\ Sees(v).cmds = cmds /\ Sees(v).effects = v.host.effects
  BY Zenon DEF Types, Apps, Sees, Worlds, Hosts
<1>4. v.user.declined \in SUBSET Item /\ bridge.at \in Position \cup {None} /\ v.mail \in Seq(Event)
  BY DEF Types, Apps, Users, Bridges
<1> DEFINE y == Around(v)
<1>5. y = [declined |-> v.user.declined, asked |-> all, at |-> bridge.at, mail |-> v.mail]
  BY <1>2
<1> HIDE DEF y
<1>6. y \in Contexts /\ y.declined = v.user.declined /\ y.at = bridge.at /\ y.mail = v.mail
  BY <1>1, <1>4, <1>5, Zenon DEF Contexts
<1> QED BY <1>3, <1>6 DEF y

LEMMA AppType ==
  ASSUME Types
  PROVE  /\ App \in Apps /\ App.db = db /\ App.host = host /\ App.mail = mail
         /\ App.user = user
BY Zenon DEF Types, App, Apps

LEMMA ReadyType ==
  ASSUME Types
  PROVE  /\ Ready \in Apps /\ Ready.db = db /\ Ready.mail = mail /\ Ready.user = user
         /\ Ready.host.choice = None /\ Ready.host.confirm = host.confirm
         /\ Ready.host.mismatch = host.mismatch /\ Ready.host.effects = host.effects
         /\ Ready.host.phase = host.phase
BY AppType, Zenon DEF Ready, Apps, Hosts

(* One message more.                                                       *)
LEMMA Telling ==
  ASSUME NEW v \in Apps, NEW type \in Messages
  PROVE  /\ Tell(v, type) \in Apps /\ Tell(v, type).db = v.db /\ Tell(v, type).host = v.host
         /\ Tell(v, type).user = v.user /\ Tell(v, type).mail = v.mail \o <<[type |-> type]>>
<1> DEFINE e == [type |-> type]
           q == Append(v.mail, e)
<1>1. e \in Event BY DEF Event, Messages
<1>2. v.mail \in Seq(Event) BY DEF Apps
<1> HIDE DEF e
<1>3. q \in Seq(Event) /\ q = v.mail \o <<e>> BY <1>1, <1>2
<1>4. Tell(v, type) = [v EXCEPT !.mail = q] BY Zenon DEF Tell, e
<1> HIDE DEF q
<1>5. LET u == [v EXCEPT !.mail = q]
      IN  /\ u \in Apps /\ u.db = v.db /\ u.host = v.host /\ u.user = v.user /\ u.mail = q
  BY <1>3, Zenon DEF Apps
<1> QED BY <1>3, <1>4, <1>5 DEF e

LEMMA OneMessage ==
  ASSUME NEW type \in Messages
  PROVE  LET r == <<[type |-> type]>>
         IN  /\ r \in Seq(Event) /\ r # <<>> /\ \A t : Has(r, t) <=> t = type
             /\ \A k \in DOMAIN r : k = 1
<1> DEFINE e == [type |-> type]
           r == <<e>>
<1>1. e \in Event /\ e.type = type BY DEF Event, Messages
<1> HIDE DEF e
<1>2. r \in Seq(Event) /\ Len(r) = 1 /\ r[1] = e BY <1>1
<1> HIDE DEF r
<1>3. r # <<>> /\ DOMAIN r = {1} BY <1>2
<1>4. \A t : Has(r, t) <=> t = type BY <1>1, <1>2, <1>3 DEF Has
<1> QED BY <1>2, <1>3, <1>4 DEF r, e

(* The binding is taken away, or another one made.                         *)
LEMMA BindFields ==
  ASSUME NEW d \in Database, NEW a \in Account \cup {None}
  PROVE  /\ Bind(d, a) \in Database /\ Bind(d, a).bound = a /\ ~Bind(d, a).joined
         /\ Bind(d, a).ckpt = None /\ Bind(d, a).linked = d.linked
         /\ ResetSyncData(d) \in Database /\ ResetSyncData(d).linked = {}
         /\ Unbind(d) \in Database /\ Unbind(d).bound = None /\ ~Unbind(d).joined
         /\ Unbind(d).linked = {} /\ ~Unbind(d).enabled
<1>1. \A e \in Database, b \in Account \cup {None} :
        /\ Bind(e, b) \in Database /\ Bind(e, b).bound = b /\ ~Bind(e, b).joined
        /\ Bind(e, b).ckpt = None /\ Bind(e, b).linked = e.linked
  BY Zenon DEF Bind, Forget, Database
<1>2. \A e \in Database :
        /\ ResetSyncData(e) \in Database /\ ResetSyncData(e).joined = e.joined
        /\ ResetSyncData(e).linked = {} /\ ResetSyncData(e).bound = e.bound
        /\ ResetSyncData(e).enabled = e.enabled
  BY Zenon DEF ResetSyncData, Database
<1> DEFINE e == [Bind(d, None) EXCEPT !.enabled = FALSE]
<1>3. e \in Database /\ ~e.joined /\ e.bound = None /\ ~e.enabled
  <2>1. Bind(d, None) \in Database /\ ~Bind(d, None).joined /\ Bind(d, None).bound = None
    BY <1>1
  <2> QED BY <2>1, Zenon DEF Database
<1>4. Unbind(d) = ResetSyncData(e) BY Zenon DEF Unbind
<1> HIDE DEF e
<1> QED BY <1>1, <1>2, <1>3, <1>4

(* What a choice that is carried out has to leave.                         *)
LEMMA RanAsks ==
  ASSUME Types, Asking, NEW r \in Apps, r.host.choice = None,
         r.host.effects = host.effects, r.host.phase = host.phase, Prompted(r.mail),
         r.db.joined => /\ db.joined \/ host.choice \in {"join", "cloud"}
                        /\ r.db.bound = db.bound /\ r.host.confirm = host.confirm,
         r.db.enabled /\ db.bound # None => r.db.bound # None
  PROVE  Asks(r)
<1>1. db.bound # None => host.effects.confirm = None BY HereType DEF Asking, Proper
<1>2. r.db.joined =>
        r.db.bound # None /\ r.host.confirm = None /\ r.host.effects.confirm = None
  BY <1>1 DEF Asking
<1>3. r.db.enabled /\ r.host.phase = "join" => r.db.bound # None BY DEF Asking
<1> QED BY <1>2, <1>3 DEF Asks

(* A choice that leaves the binding and what is here, and says one thing.  *)
LEMMA RanOn ==
  ASSUME Types, Asking, NEW r \in Apps, NEW type \in Messages,
         type \notin {"restart", "applied"},
         r.host.choice = None, r.host.effects = host.effects, r.host.phase = host.phase,
         r.host.confirm = host.confirm, r.mail = mail \o <<[type |-> type]>>,
         r.db.bound = db.bound, r.db.joined = db.joined, r.db.ckpt = db.ckpt,
         r.db.linked = db.linked, r.db.local = db.local,
         Kept(db, user.declined) \subseteq Kept(r.db, r.user.declined)
  PROVE  Asks(r) /\ (Placed => Puts(r))
<1> DEFINE q == <<[type |-> type]>>
<1>1. /\ q \in Seq(Event) /\ q # <<>> /\ \A t : Has(q, t) <=> t = type
      /\ \A k \in DOMAIN q : k = 1
  BY OneMessage
<1>2. r.mail = mail \o q OBVIOUS
<1> HIDE DEF q
<1>3. mail \in Seq(Event) /\ Prompted(mail) /\ ~Has(q, "restart") BY <1>1 DEF Types, Asking
<1>4. Prompted(r.mail) BY <1>1, <1>2, <1>3, PromptedMore
<1>5. Asks(r) BY <1>4, RanAsks
<1> DEFINE w == World
           x == Here
           v == Sees(r)
           y == Around(r)
<1>6. /\ v \in Worlds /\ y \in Contexts /\ w \in Worlds /\ x \in Contexts
      /\ v.core = w.core /\ v.cmds = w.cmds /\ v.effects = w.effects
      /\ v.db = r.db /\ w.db = db /\ y.mail = x.mail \o q /\ y.at = x.at
      /\ x.declined = user.declined /\ y.declined = r.user.declined
  BY <1>2, SeenType, HereType
<1> HIDE DEF w, x, v, y
<1>7. ASSUME Right(w, x) PROVE Right(v, y)
  <2>1. ~Has(q, "restart") /\ ~Has(q, "state") /\ ~Has(q, "applied") BY <1>1 DEF Messages
  <2>2. /\ v.db.bound = w.db.bound /\ v.db.joined = w.db.joined /\ v.db.ckpt = w.db.ckpt
        /\ v.db.linked = w.db.linked /\ w.db.local \subseteq v.db.local
        /\ Kept(w.db, x.declined) \subseteq Kept(v.db, y.declined)
    BY <1>6
  <2> QED BY <1>1, <1>6, <1>7, <2>1, <2>2, RightTold
<1> QED BY <1>5, <1>7 DEF Placed, Puts, w, x, v, y

(* A choice that binds an account: the core is told to start again.        *)
LEMMA RanBinding ==
  ASSUME Types, Asking, mail = <<>>, host.effects.batches = <<>>, NEW r \in Apps,
         r.host.choice = None, r.host.effects = host.effects, r.host.phase = host.phase,
         \/ r.mail = mail \o <<[type |-> "restart"]>>
         \/ r.mail = (mail \o <<[type |-> "clear_pause"]>>) \o <<[type |-> "restart"]>>,
         r.db.bound # None, ~r.db.joined, r.db.ckpt = None
  PROVE  Asks(r) /\ (Placed /\ r.db.linked = {} /\ ~Has(cmds, "fetch") => Puts(r))
<1> DEFINE p == <<[type |-> "clear_pause"]>>
           q == <<[type |-> "restart"]>>
<1>1. /\ p \in Seq(Event) /\ (\A t : Has(p, t) <=> t = "clear_pause") /\ \A k \in DOMAIN p : k = 1
      /\ q \in Seq(Event) /\ (\A t : Has(q, t) <=> t = "restart") /\ \A k \in DOMAIN q : k = 1
      /\ Len(p) = 1 /\ p[1].type = "clear_pause"
  BY OneMessage DEF Messages
<1>2. r.mail = mail \o q \/ r.mail = (mail \o p) \o q OBVIOUS
<1> HIDE DEF p, q
<1>3. r.mail = q \/ r.mail = p \o q BY <1>1, <1>2, ConcatEmptySeq
<1>4. /\ \A t : Has(p \o q, t) <=> t \in {"clear_pause", "restart"}
      /\ Prompted(p \o q)
  <2>1. /\ DOMAIN (p \o q) = 1 .. 2 /\ (p \o q)[1] = p[1]
    <3>1. /\ DOMAIN p = 1 .. Len(p) /\ DOMAIN q = 1 .. Len(q)
          /\ DOMAIN (p \o q) = 1 .. Len(p) + Len(q) /\ \A k \in DOMAIN p : (p \o q)[k] = p[k]
          /\ Len(q) \in Nat
      BY <1>1, ConcatFacts
    <3>2. Len(q) = 1
      <4>1. q # <<>> BY <1>1 DEF Has
      <4>2. Len(q) # 0 /\ (Len(q) >= 2 => 2 \in DOMAIN q) BY <1>1, <3>1, <4>1, EmptySeq
      <4> QED BY <1>1, <3>1, <4>2
    <3> QED BY <1>1, <3>1, <3>2
  <2>2. \A k \in DOMAIN (p \o q) : k = 1 \/ k = 2 BY <2>1
  <2>3. Prompted(p \o q) BY <1>1, <2>1, <2>2 DEF Prompted
  <2>4. \A t : Has(p \o q, t) <=> Has(p, t) \/ Has(q, t) BY <1>1, MailSent
  <2> QED BY <1>1, <2>3, <2>4
<1>5. Prompted(q) BY <1>1 DEF Prompted
<1>6. /\ Has(r.mail, "restart") /\ ~Has(r.mail, "state") /\ ~Has(r.mail, "applied")
      /\ Prompted(r.mail)
  BY <1>1, <1>3, <1>4, <1>5
<1>7. Asks(r) BY <1>6, RanAsks
<1> DEFINE w == World
           x == Here
           v == Sees(r)
           y == Around(r)
<1>8. /\ v \in Worlds /\ y \in Contexts /\ w \in Worlds /\ x \in Contexts
      /\ v.core = w.core /\ v.cmds = w.cmds /\ v.effects = w.effects
      /\ v.db = r.db /\ x.mail = <<>> /\ w.effects.batches = <<>> /\ w.cmds = cmds
      /\ y.mail = r.mail
  BY SeenType, HereType
<1> HIDE DEF w, x, v, y
<1>9. ASSUME Right(w, x), Saved(w), r.db.linked = {}, ~Has(cmds, "fetch") PROVE Right(v, y)
  BY <1>6, <1>8, <1>9, RightRebound
<1> QED BY <1>7, <1>9 DEF Placed, Puts, w, x, v, y

(* The binding is taken away.                                              *)
LEMMA RanUnbinding ==
  ASSUME Types, Asking, mail = <<>>, host.effects.batches = <<>>, NEW r \in Apps,
         r.host.choice = None, r.host.effects = host.effects, r.host.phase = host.phase,
         r.mail = mail \o <<[type |-> "stop"]>>,
         r.db.bound = None, ~r.db.joined, r.db.linked = {}, ~r.db.enabled
  PROVE  Asks(r) /\ (Placed => Puts(r))
<1> DEFINE q == <<[type |-> "stop"]>>
<1>1. /\ q \in Seq(Event) /\ q # <<>> /\ \A t : Has(q, t) <=> t = "stop"
      /\ \A k \in DOMAIN q : k = 1
  BY OneMessage DEF Messages
<1>2. r.mail = mail \o q OBVIOUS
<1> HIDE DEF q
<1>3. r.mail = q BY <1>1, <1>2, ConcatEmptySeq
<1>4. Prompted(r.mail) BY <1>1, <1>3 DEF Prompted
<1>5. Asks(r) BY <1>1, <1>3, <1>4, RanAsks
<1> DEFINE w == World
           x == Here
           v == Sees(r)
           y == Around(r)
<1>6. /\ v.core = w.core /\ v.effects = w.effects /\ v.db = r.db /\ x.mail = <<>>
      /\ w.effects.batches = <<>> /\ y.mail = q
  BY <1>3, SeenType, HereType
<1> HIDE DEF w, x, v, y
<1>7. ASSUME Right(w, x) PROVE Right(v, y)
  <2>1. Counted(w, x) BY <1>7 DEF Right
  <2>2. Acks(x.mail) = {} /\ Acks(y.mail) = {} BY <1>1, <1>6 DEF Acks, Has
  <2>3. Counted(v, y) BY <1>6, <2>1, <2>2 DEF Counted
  <2>4. Has(y.mail, "stop") BY <1>1, <1>6
  <2> QED BY <1>6, <2>3, <2>4, RightUnbound
<1> QED BY <1>5, <1>7 DEF Placed, Puts, w, x, v, y

(* The first merge.                                                        *)
LEMMA RanJoin ==
  ASSUME Types, Asking, ~db.joined, host.choice \in {"join", "cloud"}, NEW r \in Apps,
         r.host.choice = None, r.host.effects = host.effects, r.host.phase = host.phase,
         r.host.confirm = host.confirm, r.user.declined = user.declined,
         r.mail = mail \o <<[type |-> "tick"]>>,
         r.db.joined, r.db.bound = db.bound, r.db.ckpt = db.ckpt,
         db.inbox \subseteq r.db.local, r.db.linked = db.linked \cup db.inbox
  PROVE  Asks(r) /\ (Placed => Puts(r))
<1> DEFINE q == <<[type |-> "tick"]>>
<1>1. /\ q \in Seq(Event) /\ q # <<>> /\ \A t : Has(q, t) <=> t = "tick"
      /\ \A k \in DOMAIN q : k = 1
  BY OneMessage DEF Messages
<1>2. r.mail = mail \o q OBVIOUS
<1> HIDE DEF q
<1>3. mail \in Seq(Event) /\ Prompted(mail) /\ ~Has(q, "restart") BY <1>1 DEF Types, Asking
<1>4. Prompted(r.mail) BY <1>1, <1>2, <1>3, PromptedMore
<1>5. Asks(r) BY <1>4, RanAsks
<1> DEFINE w == World
           x == Here
           v == Sees(r)
           y == Around(r)
<1>6. /\ v \in Worlds /\ y \in Contexts /\ w \in Worlds /\ x \in Contexts
      /\ v.core = w.core /\ v.cmds = w.cmds /\ v.effects = w.effects
      /\ v.db = r.db /\ w.db = db /\ y.mail = x.mail \o q /\ y.at = x.at
      /\ y.declined = x.declined
  BY <1>2, SeenType, HereType
<1>7. db.bound # None BY DEF Asking
<1> HIDE DEF w, x, v, y
<1>8. ASSUME Right(w, x) PROVE Right(v, y)
  <2>1. ~Has(q, "restart") /\ ~Has(q, "state") /\ ~Has(q, "applied") BY <1>1 DEF Messages
  <2>2. /\ v.db.bound = w.db.bound /\ w.db.bound # None /\ v.db.joined /\ ~w.db.joined
        /\ v.db.ckpt = w.db.ckpt
        /\ v.db.linked = w.db.linked \cup w.db.inbox /\ w.db.inbox \subseteq v.db.local
    BY <1>6, <1>7
  <2> QED BY <1>1, <1>6, <1>8, <2>1, <2>2, RightJoined
<1> QED BY <1>5, <1>8 DEF Placed, Puts, w, x, v, y

(* A choice that does nothing.                                             *)
LEMMA RanNot ==
  ASSUME Types, Asking PROVE Asks(Ready) /\ (Placed => Puts(Ready))
<1>1. Asks(Ready)
  <2> DEFINE r == Ready
  <2>1. /\ r \in Apps /\ r.db = db /\ r.mail = mail /\ r.host.choice = None
        /\ r.host.confirm = host.confirm /\ r.host.effects = host.effects
        /\ r.host.phase = host.phase
    BY ReadyType
  <2>2. db.joined => db.joined \/ host.choice \in {"join", "cloud"} OBVIOUS
  <2> HIDE DEF r
  <2>3. Prompted(r.mail) BY <2>1 DEF Asking
  <2>4. Asks(r) BY <2>1, <2>2, <2>3, RanAsks
  <2> QED BY <2>4 DEF r
<1>2. Sees(Ready) = World /\ Around(Ready) = Here BY ReadyType, Zenon DEF Sees, Around, World, Here
<1> QED BY <1>1, <1>2 DEF Placed, Puts

(* An answer to the question which account to use.                         *)
LEMMA Answering ==
  ASSUME NEW v \in Apps, NEW d \in Database, NEW h \in Hosts
  PROVE  LET u == NotDeclined([v EXCEPT !.db = d, !.host = h])
         IN  u \in Apps /\ u.db = d /\ u.host = h /\ u.mail = v.mail
<1> DEFINE s == [v EXCEPT !.db = d, !.host = h]
           u == [s EXCEPT !.user.declined = {}]
<1>1. s \in Apps /\ s.db = d /\ s.host = h /\ s.user = v.user /\ s.mail = v.mail
  BY Zenon DEF Apps
<1> HIDE DEF s
<1>2. u \in Apps /\ u.db = d /\ u.host = h /\ u.mail = v.mail
  BY <1>1, Zenon DEF Apps, Users
<1>3. NotDeclined(s) = u BY Zenon DEF NotDeclined
<1> QED BY <1>2, <1>3, Zenon DEF s

LEMMA RunEnable ==
  ASSUME Types, Asking, NEW r \in {Enable(Ready), Disable(Ready)}
  PROVE  r \in Apps /\ Asks(r) /\ (Placed => Puts(r))
<1>1. /\ Ready \in Apps /\ Ready.db = db /\ Ready.mail = mail /\ Ready.user = user
      /\ Ready.host.choice = None /\ Ready.host.confirm = host.confirm
      /\ Ready.host.effects = host.effects /\ Ready.host.phase = host.phase
  BY ReadyType
<1>2. PICK on \in BOOLEAN, type \in {"start", "stop"} :
        r = Tell([Ready EXCEPT !.db.enabled = on], type)
  BY Zenon DEF Enable, Disable
<1> DEFINE d == [db EXCEPT !.enabled = on]
           u == [Ready EXCEPT !.db.enabled = on]
<1>3. u \in Apps /\ u.db = d /\ u.host = Ready.host /\ u.user = user /\ u.mail = mail
  BY <1>1, Zenon DEF Apps, Database
<1>4. /\ d.bound = db.bound /\ d.joined = db.joined /\ d.ckpt = db.ckpt
      /\ d.linked = db.linked /\ d.local = db.local /\ d.inbox = db.inbox
  <2>1. db \in Database BY DEF Types
  <2> QED BY <2>1, Zenon DEF Database
<1>5. r = Tell(u, type) /\ type \in Messages /\ type \notin {"restart", "applied"}
  BY <1>2 DEF Messages
<1> HIDE DEF u, d
<1>6. /\ r \in Apps /\ r.db = d /\ r.host = Ready.host /\ r.user = user
      /\ r.mail = mail \o <<[type |-> type]>>
  BY <1>3, <1>5, Telling
<1>7. Kept(db, user.declined) \subseteq Kept(r.db, r.user.declined) BY <1>4, <1>6 DEF Kept
<1>8. Asks(r) /\ (Placed => Puts(r)) BY <1>1, <1>4, <1>5, <1>6, <1>7, RanOn
<1> QED BY <1>6, <1>8

LEMMA RunDelete ==
  ASSUME Types, Asking, NEW r, r = Tell(Ready, "delete")
  PROVE  r \in Apps /\ Asks(r) /\ (Placed => Puts(r))
<1>1. /\ Ready \in Apps /\ Ready.db = db /\ Ready.mail = mail /\ Ready.user = user
      /\ Ready.host.choice = None /\ Ready.host.confirm = host.confirm
      /\ Ready.host.effects = host.effects /\ Ready.host.phase = host.phase
  BY ReadyType
<1>2. "delete" \in Messages BY DEF Messages
<1>3. /\ r \in Apps /\ r.db = db /\ r.host = Ready.host /\ r.user = user
      /\ r.mail = mail \o <<[type |-> "delete"]>>
  BY <1>1, <1>2, Telling
<1>4. Asks(r) /\ (Placed => Puts(r)) BY <1>1, <1>2, <1>3, RanOn
<1> QED BY <1>3, <1>4

LEMMA RunDecline ==
  ASSUME Types, Asking, NEW r, r = Decline(Ready)
  PROVE  r \in Apps /\ Asks(r) /\ (Placed => Puts(r))
<1>1. /\ Ready \in Apps /\ Ready.db = db /\ Ready.mail = mail /\ Ready.user = user
      /\ Ready.host.choice = None /\ Ready.host.confirm = host.confirm
      /\ Ready.host.effects = host.effects /\ Ready.host.phase = host.phase
  BY ReadyType
<1> DEFINE d == [db EXCEPT !.inbox = {}, !.enabled = FALSE]
           s == user.declined \cup db.inbox
           z == [user EXCEPT !.declined = s]
           u == [Ready EXCEPT !.db = [Ready.db EXCEPT !.inbox = {}, !.enabled = FALSE],
                              !.user.declined = Ready.user.declined \cup Ready.db.inbox]
<1>2. db \in Database /\ user \in Users BY DEF Types
<1>3. s \in SUBSET Item BY <1>2 DEF Database, Users
<1>4. r = Tell(u, "stop") BY Zenon DEF Decline
<1>5. /\ d \in Database /\ d.bound = db.bound /\ d.joined = db.joined /\ d.ckpt = db.ckpt
      /\ d.linked = db.linked /\ d.local = db.local /\ d.inbox = {}
  BY <1>2, Zenon DEF Database
<1>6. u = [Ready EXCEPT !.db = d, !.user.declined = s] BY <1>1, Zenon
<1> HIDE DEF s
<1>7. z \in Users /\ z.declined = s BY <1>2, <1>3, Zenon DEF Users
<1> HIDE DEF d, u
<1>8. u \in Apps /\ u.db = d /\ u.host = Ready.host /\ u.user = z /\ u.mail = mail
  BY <1>1, <1>5, <1>6, <1>7, Zenon DEF Apps
<1> HIDE DEF z
<1>9. "stop" \in Messages BY DEF Messages
<1>10. /\ r \in Apps /\ r.db = d /\ r.host = Ready.host /\ r.user = z
       /\ r.mail = mail \o <<[type |-> "stop"]>>
  <2> DEFINE t == Tell(u, "stop")
  <2>1. /\ t \in Apps /\ t.db = u.db /\ t.host = u.host /\ t.user = u.user
        /\ t.mail = u.mail \o <<[type |-> "stop"]>>
    BY <1>8, <1>9, Telling
  <2> HIDE DEF t
  <2>2. r = t BY <1>4 DEF t
  <2> QED BY <1>8, <2>1, <2>2
<1>11. Kept(db, user.declined) \subseteq Kept(r.db, r.user.declined)
  BY <1>5, <1>7, <1>10 DEF Kept, s
<1>12. Asks(r) /\ (Placed => Puts(r)) BY <1>1, <1>5, <1>7, <1>9, <1>10, <1>11, RanOn
<1> QED BY <1>10, <1>12

LEMMA RunJoin ==
  ASSUME Types, Asking, ~db.joined, host.choice \in {"join", "cloud"},
         NEW useCloud \in BOOLEAN, NEW r, r = Join(Ready, useCloud)
  PROVE  r \in Apps /\ Asks(r) /\ (Placed => Puts(r))
<1>1. /\ Ready \in Apps /\ Ready.db = db /\ Ready.mail = mail /\ Ready.user = user
      /\ Ready.host.choice = None /\ Ready.host.confirm = host.confirm
      /\ Ready.host.effects = host.effects /\ Ready.host.phase = host.phase
  BY ReadyType
<1> DEFINE here == db.inbox \cup IF useCloud THEN {} ELSE db.local
           known == db.linked \cup db.inbox
           d == [db EXCEPT !.local = here, !.linked = known, !.inbox = {}, !.joined = TRUE]
           z == Agreed(user, db.bound, here)
           u == [Ready EXCEPT !.db = d, !.user = z]
<1>2. db \in Database /\ user \in Users BY DEF Types
<1>3. here \in SUBSET Item /\ known \in SUBSET Item /\ db.inbox \subseteq here
  BY <1>2 DEF Database
<1>4. r = Tell(u, "tick") BY <1>1, Zenon DEF Join
<1> HIDE DEF here
<1>5. known = db.linked \cup db.inbox OBVIOUS
<1> HIDE DEF known
<1>6. /\ d \in Database /\ d.bound = db.bound /\ d.joined /\ d.ckpt = db.ckpt
      /\ d.linked = known /\ d.local = here
  BY <1>2, <1>3, Zenon DEF Database
<1>7. z \in Users /\ z.declined = user.declined
  <2>1. z \in Users BY <1>2, <1>3, AgreedGrows
  <2>2. z.declined = user.declined BY <1>2, Zenon DEF Agreed, Users
  <2> QED BY <2>1, <2>2
<1> HIDE DEF d, z
<1>8. u \in Apps /\ u.db = d /\ u.host = Ready.host /\ u.user = z /\ u.mail = mail
  BY <1>1, <1>6, <1>7, Zenon DEF Apps
<1> HIDE DEF u
<1>9. "tick" \in Messages BY DEF Messages
<1>10. /\ r \in Apps /\ r.db = d /\ r.host = Ready.host /\ r.user = z
       /\ r.mail = mail \o <<[type |-> "tick"]>>
  <2> DEFINE t == Tell(u, "tick")
  <2>1. /\ t \in Apps /\ t.db = u.db /\ t.host = u.host /\ t.user = u.user
        /\ t.mail = u.mail \o <<[type |-> "tick"]>>
    BY <1>8, <1>9, Telling
  <2> HIDE DEF t
  <2>2. r = t BY <1>4 DEF t
  <2> QED BY <1>8, <2>1, <2>2
<1>11. Asks(r) /\ (Placed => Puts(r)) BY <1>1, <1>3, <1>5, <1>6, <1>7, <1>10, RanJoin
<1> QED BY <1>10, <1>11

(* Nothing is linked before the merge.                                     *)
LEMMA Unlinked ==
  ASSUME Types, Placed, ~db.joined PROVE db.linked = {}
BY HereType DEF Placed, Right, Linked

LEMMA RunConfirm ==
  ASSUME Types, Asking, ~UnderWay,
         NEW r, r = ConfirmAccount(Ready)
  PROVE  r \in Apps /\ Asks(r) /\ (Placed => Puts(r))
<1>0. mail = <<>> /\ host.effects.batches = <<>> /\ ~Has(cmds, "fetch") BY DEF UnderWay
<1>1. /\ Ready \in Apps /\ Ready.db = db /\ Ready.mail = mail /\ Ready.user = user
      /\ Ready.host.choice = None /\ Ready.host.confirm = host.confirm
      /\ Ready.host.effects = host.effects /\ Ready.host.phase = host.phase
  BY ReadyType
<1>2. CASE host.confirm = None
  <2>1. r = Ready BY <1>1, <1>2 DEF ConfirmAccount
  <2> QED BY <1>1, <2>1, RanNot
<1>3. CASE host.confirm # None
  <2> DEFINE a == host.confirm
             d == Bind(db, a)
             h == [Ready.host EXCEPT !.confirm = None]
             u == NotDeclined([Ready EXCEPT !.db = d, !.host = h])
  <2>1. db \in Database /\ host \in Hosts /\ Ready.host \in Hosts BY <1>1 DEF Types, Apps
  <2>2. a \in Account \cup {None} /\ a # None BY <1>3, <2>1 DEF Hosts
  <2>3. /\ d \in Database /\ d.bound = a /\ ~d.joined /\ d.ckpt = None /\ d.linked = db.linked
    BY <2>1, <2>2, BindFields
  <2>4. /\ h \in Hosts /\ h.choice = None /\ h.effects = host.effects
        /\ h.phase = host.phase
    BY <1>1, <2>1, Zenon DEF Hosts
  <2>5. r = Tell(u, "restart") BY <1>1, <1>3, Zenon DEF ConfirmAccount
  <2> HIDE DEF d, h
  <2>6. /\ u \in Apps /\ u.db = d /\ u.host = h /\ u.mail = mail
    BY <1>1, <2>3, <2>4, Answering
  <2> HIDE DEF u
  <2>7. "restart" \in Messages BY DEF Messages
  <2>8. /\ r \in Apps /\ r.db = d /\ r.host = h
        /\ r.mail = mail \o <<[type |-> "restart"]>>
    BY <2>5, <2>6, <2>7, Telling
  <2>9. Asks(r) /\ (Placed /\ r.db.linked = {} /\ ~Has(cmds, "fetch") => Puts(r))
    BY <1>0, <2>2, <2>3, <2>4, <2>8, RanBinding
  <2>10. ~db.joined BY <2>2 DEF Asking
  <2> QED BY <1>0, <2>3, <2>8, <2>9, <2>10, Unlinked
<1> QED BY <1>2, <1>3

LEMMA RunResolve ==
  ASSUME Types, Asking, ~UnderWay,
         NEW c \in {"keep", "use", "merge"}, NEW r, r = ResolveAccount(Ready, c)
  PROVE  r \in Apps /\ Asks(r) /\ (Placed => Puts(r))
<1>0. mail = <<>> /\ host.effects.batches = <<>> /\ ~Has(cmds, "fetch") BY DEF UnderWay
<1>1. /\ Ready \in Apps /\ Ready.db = db /\ Ready.mail = mail /\ Ready.user = user
      /\ Ready.host.choice = None /\ Ready.host.mismatch = host.mismatch
      /\ Ready.host.effects = host.effects /\ Ready.host.phase = host.phase
  BY ReadyType
<1>2. CASE host.mismatch = None
  <2>1. r = Ready BY <1>1, <1>2, Zenon DEF ResolveAccount
  <2> QED BY <1>1, <2>1, RanNot
<1>3. CASE host.mismatch # None
  <2> DEFINE a == host.mismatch
             h == [Ready.host EXCEPT !.mismatch = None]
             moved == Bind(ResetSyncData(db), a)
             bare == [moved EXCEPT !.local = {}]
             gone == Unbind(db)
             u(d) == NotDeclined([Ready EXCEPT !.db = d, !.host = h])
  <2>1. db \in Database /\ host \in Hosts /\ Ready.host \in Hosts BY <1>1 DEF Types, Apps
  <2>2. a \in Account \cup {None} /\ a # None BY <1>3, <2>1 DEF Hosts
  <2>3. /\ moved \in Database /\ moved.bound = a /\ ~moved.joined /\ moved.ckpt = None
        /\ moved.linked = {}
    <3> DEFINE e == ResetSyncData(db)
    <3>1. e \in Database /\ e.linked = {} BY <2>1, <2>2, BindFields
    <3> HIDE DEF e
    <3>2. /\ Bind(e, a) \in Database /\ Bind(e, a).bound = a /\ ~Bind(e, a).joined
          /\ Bind(e, a).ckpt = None /\ Bind(e, a).linked = e.linked
      BY <2>2, <3>1, BindFields
    <3> QED BY <3>1, <3>2 DEF e
  <2>4. /\ gone \in Database /\ gone.bound = None /\ ~gone.joined /\ gone.linked = {}
        /\ ~gone.enabled
    BY <2>1, <2>2, BindFields
  <2>5. /\ h \in Hosts /\ h.choice = None /\ h.effects = host.effects
        /\ h.phase = host.phase
    BY <1>1, <2>1, Zenon DEF Hosts
  <2>6. /\ c = "keep" => r = Tell(u(gone), "stop")
        /\ c = "use" => r = Tell(Tell(u(bare), "clear_pause"), "restart")
        /\ c = "merge" => r = Tell(Tell(u(moved), "clear_pause"), "restart")
    <3> DEFINE answered == NotDeclined([Ready EXCEPT !.host.mismatch = None])
    <3>1. \A d : [answered EXCEPT !.db = d] = u(d)
      BY <1>1, Zenon DEF NotDeclined, Apps
    <3>2. /\ c = "keep" => r = Tell([answered EXCEPT !.db = gone], "stop")
          /\ c = "use" => r = Tell(Tell([answered EXCEPT !.db = bare], "clear_pause"), "restart")
          /\ c = "merge" => r = Tell(Tell([answered EXCEPT !.db = moved], "clear_pause"), "restart")
      BY <1>1, <1>3 DEF ResolveAccount
    <3> HIDE DEF answered, u, gone, bare, moved
    <3> QED BY <3>1, <3>2
  <2> HIDE DEF moved
  <2>7. /\ bare \in Database /\ bare.bound = a /\ ~bare.joined /\ bare.ckpt = None
        /\ bare.linked = {}
    BY <2>3, Zenon DEF Database
  <2> HIDE DEF h, bare, gone
  <2>8. ASSUME NEW d \in Database
        PROVE  /\ u(d) \in Apps /\ u(d).db = d /\ u(d).host = h
               /\ u(d).mail = mail
    BY <1>1, <2>5, Answering
  <2> HIDE DEF u
  <2>9. {"stop", "clear_pause", "restart"} \subseteq Messages BY DEF Messages
  <2>10. CASE c = "keep"
    <3>1. /\ r \in Apps /\ r.db = gone /\ r.host = h
          /\ r.mail = mail \o <<[type |-> "stop"]>>
      <4> DEFINE v == u(gone)
                 t == Tell(v, "stop")
      <4>1. /\ v \in Apps /\ v.db = gone /\ v.host = h
            /\ v.mail = mail
        BY <2>4, <2>8
      <4> HIDE DEF v
      <4>2. /\ t \in Apps /\ t.db = v.db /\ t.host = v.host /\ t.user = v.user
            /\ t.mail = v.mail \o <<[type |-> "stop"]>>
        BY <2>9, <4>1, Telling
      <4>3. r = t BY <2>6, <2>10 DEF v
      <4> HIDE DEF t
      <4> QED BY <4>1, <4>2, <4>3
    <3>2. Asks(r) /\ (Placed => Puts(r)) BY <1>0, <2>4, <2>5, <3>1, RanUnbinding
    <3> QED BY <3>1, <3>2
  <2>11. CASE c # "keep"
    <3>1. PICK d \in {bare, moved} : r = Tell(Tell(u(d), "clear_pause"), "restart")
      BY <2>6, <2>11
    <3>2. /\ d \in Database /\ d.bound = a /\ ~d.joined /\ d.ckpt = None /\ d.linked = {}
      BY <2>3, <2>7
    <3> DEFINE t == Tell(u(d), "clear_pause")
    <3>3. /\ t \in Apps /\ t.db = d /\ t.host = h
          /\ t.mail = mail \o <<[type |-> "clear_pause"]>>
      <4> DEFINE v == u(d)
                 z == Tell(v, "clear_pause")
      <4>1. /\ v \in Apps /\ v.db = d /\ v.host = h
            /\ v.mail = mail
        BY <2>8, <3>2
      <4> HIDE DEF v
      <4>2. /\ z \in Apps /\ z.db = v.db /\ z.host = v.host /\ z.user = v.user
            /\ z.mail = v.mail \o <<[type |-> "clear_pause"]>>
        BY <2>9, <4>1, Telling
      <4>3. t = z BY DEF v
      <4> HIDE DEF t, z
      <4> QED BY <4>1, <4>2, <4>3
    <3>4. r = Tell(t, "restart") BY <3>1
    <3> HIDE DEF t
    <3>5. /\ r \in Apps /\ r.db = d /\ r.host = h
          /\ r.mail = (mail \o <<[type |-> "clear_pause"]>>) \o <<[type |-> "restart"]>>
      <4> DEFINE z == Tell(t, "restart")
      <4>1. /\ z \in Apps /\ z.db = t.db /\ z.host = t.host /\ z.user = t.user
            /\ z.mail = t.mail \o <<[type |-> "restart"]>>
        BY <2>9, <3>3, Telling
      <4>2. r = z BY <3>4
      <4> HIDE DEF z
      <4> QED BY <3>3, <4>1, <4>2
    <3>6. Asks(r) /\ (Placed /\ r.db.linked = {} /\ ~Has(cmds, "fetch") => Puts(r))
      BY <1>0, <2>2, <2>5, <3>2, <3>5, RanBinding
    <3> QED BY <1>0, <3>2, <3>5, <3>6
  <2> QED BY <2>10, <2>11
<1> QED BY <1>2, <1>3

(* Whatever was chosen.                                                    *)
LEMMA RunChosen ==
  ASSUME Types, Asking, host.choice \in Answers => ~UnderWay,
         host.choice \in {"join", "cloud"} => ~db.joined, NEW r, r = Run(Ready, host.choice)
  PROVE  r \in Apps /\ Asks(r) /\ (Placed => Puts(r))
<1> DEFINE c == host.choice
<1>1. CASE c \in {"enable", "disable"}
  <2>1. r \in {Enable(Ready), Disable(Ready)} BY <1>1 DEF Run
  <2> QED BY <2>1, RunEnable
<1>2. CASE c = "confirm"
  <2>1. r = ConfirmAccount(Ready) /\ ~UnderWay BY <1>2 DEF Run, Answers
  <2> QED BY <2>1, RunConfirm
<1>3. CASE c \in {"keep", "use", "merge"}
  <2>1. r = ResolveAccount(Ready, c) /\ ~UnderWay BY <1>3 DEF Run, Answers
  <2> QED BY <1>3, <2>1, RunResolve
<1>4. CASE c \in {"join", "cloud"}
  <2>1. r = Join(Ready, c = "cloud") /\ (c = "cloud") \in BOOLEAN BY <1>4 DEF Run
  <2> QED BY <1>4, <2>1, RunJoin
<1>5. CASE c = "decline"
  <2>1. r = Decline(Ready) BY <1>5 DEF Run
  <2> QED BY <2>1, RunDecline
<1>6. CASE c = "delete"
  <2>1. r = Tell(Ready, "delete") BY <1>6 DEF Run
  <2> QED BY <2>1, RunDelete
<1>7. CASE c \notin {"enable", "disable", "confirm", "keep", "use", "merge", "join", "cloud",
                     "decline", "delete"}
  <2>1. r = Ready BY <1>7, Zenon DEF Run
  <2> QED BY <2>1, ReadyType, RanNot
<1> QED BY <1>1, <1>2, <1>3, <1>4, <1>5, <1>6, <1>7

(* The effects are taken.                                                  *)
LEMMA Took ==
  ASSUME Types, NEW v \in Apps, Asks(v), NEW t, t = TakeEffects(v)
  PROVE  t \in Apps /\ t.host.effects = NoEffects /\ Asks(t) /\ (Puts(v) => Puts(t))
<1> DEFINE batches == v.host.effects.batches
           items == UNION {batches[i] : i \in DOMAIN batches}
           e == v.host.effects
           q1 == IF e.confirm = None THEN v.host.confirm ELSE e.confirm
           q2 == IF e.mismatch = None THEN v.host.mismatch ELSE e.mismatch
           h == [v.host EXCEPT !.effects = NoEffects, !.confirm = q1, !.mismatch = q2]
           here == v.db.local \cup items
           known == v.db.linked \cup items
           d == [v.db EXCEPT !.local = here, !.linked = known]
           told == [i \in DOMAIN batches |-> [type |-> "applied"]]
           m == v.mail \o told
           u == [v EXCEPT !.host = h, !.db = d, !.mail = m]
<1>1. v.db \in Database /\ v.host \in Hosts /\ v.mail \in Seq(Event) BY DEF Apps
<1>2. e \in Effects /\ batches \in Seq(SUBSET Item) BY <1>1, Zenon DEF Hosts, Effects
<1>3. items \in SUBSET Item /\ items = Waiting(batches)
  <2>1. \A i \in DOMAIN batches : batches[i] \in SUBSET Item BY <1>2
  <2>2. items \in SUBSET Item BY <2>1, Zenon
  <2>3. \A j : j \in items <=> \E i \in DOMAIN batches : j \in batches[i] BY Zenon
  <2> HIDE DEF items
  <2> QED BY <2>2, <2>3 DEF Waiting
<1>4. q1 \in Account \cup {None} /\ q2 \in Account \cup {None}
  BY <1>1, <1>2, Zenon DEF Hosts, Effects
<1>5. NoEffects \in Effects /\ NoEffects.batches = <<>> /\ NoEffects.confirm = None
  BY DEF NoEffects, Effects
<1>6. /\ told \in Seq(Event) /\ Len(told) = Len(batches)
      /\ \A k \in DOMAIN told : told[k].type = "applied"
  <2>1. [type |-> "applied"] \in Event BY DEF Event
  <2>2. told \in Seq(Event) BY <1>2, <2>1, AcksType
  <2>3. DOMAIN told = DOMAIN batches /\ \A k \in DOMAIN told : told[k].type = "applied" OBVIOUS
  <2> HIDE DEF told, batches
  <2>4. DOMAIN told = 1 .. Len(told) /\ DOMAIN batches = 1 .. Len(batches)
        /\ Len(told) \in Nat /\ Len(batches) \in Nat
    BY <1>2, <2>2, SeqFacts
  <2>5. ASSUME NEW m1 \in Nat, NEW n1 \in Nat, 1 .. m1 = 1 .. n1 PROVE m1 = n1
    <3>1. (m1 # 0 => m1 \in 1 .. m1) /\ (n1 # 0 => n1 \in 1 .. n1) OBVIOUS
    <3>2. (m1 # 0 => m1 \in 1 .. n1) /\ (n1 # 0 => n1 \in 1 .. m1) BY <2>5, <3>1
    <3> QED BY <3>2
  <2>6. 1 .. Len(told) = 1 .. Len(batches) BY <2>3, <2>4
  <2> QED BY <2>2, <2>3, <2>4, <2>5, <2>6
<1>7. t = u BY Zenon DEF TakeEffects
<1>8. /\ e.confirm = None => q1 = v.host.confirm
      /\ here \in SUBSET Item /\ known \in SUBSET Item
      /\ here = v.db.local \cup Waiting(batches) /\ known = v.db.linked \cup Waiting(batches)
  BY <1>1, <1>3 DEF Database
<1> HIDE DEF items, told, q1, q2, here, known
<1>9. /\ h \in Hosts /\ h.effects = NoEffects /\ h.confirm = q1 /\ h.choice = v.host.choice
      /\ h.phase = v.host.phase
  BY <1>1, <1>4, <1>5, Zenon DEF Hosts
<1>10. /\ d \in Database /\ d.local = here /\ d.linked = known /\ d.inbox = v.db.inbox
       /\ d.joined = v.db.joined /\ d.bound = v.db.bound /\ d.ckpt = v.db.ckpt
       /\ d.enabled = v.db.enabled
  BY <1>1, <1>8, Zenon DEF Database
<1>11. m \in Seq(Event) BY <1>1, <1>6, ConcatFacts
<1>12. m = v.mail \o told OBVIOUS
<1> HIDE DEF h, d, m
<1>13. u \in Apps /\ u.db = d /\ u.user = v.user /\ u.host = h /\ u.mail = m
  BY <1>9, <1>10, <1>11, Zenon DEF Apps
<1> HIDE DEF u
<1>14. /\ t \in Apps /\ t.db = d /\ t.user = v.user /\ t.host = h /\ t.mail = v.mail \o told
  BY <1>7, <1>12, <1>13
<1>15. ~Has(told, "restart") BY <1>6 DEF Has
<1>16. Asks(t)
  <2>1. Prompted(t.mail) BY <1>1, <1>6, <1>14, <1>15, PromptedMore DEF Asks
  <2>2. t.db.joined =>
          t.db.bound # None /\ t.host.confirm = None /\ t.host.effects.confirm = None
    BY <1>5, <1>8, <1>9, <1>10, <1>14 DEF Asks
  <2>3. /\ t.host.choice = None
        /\ t.db.enabled /\ t.host.phase = "join" => t.db.bound # None
    BY <1>9, <1>10, <1>14 DEF Asks
  <2> QED BY <2>1, <2>2, <2>3 DEF Asks
<1> DEFINE w == Sees(v)
           x == Around(v)
           z == Sees(t)
           y == Around(t)
<1>17. /\ w \in Worlds /\ x \in Contexts /\ z \in Worlds /\ y \in Contexts
       /\ z.core = w.core /\ z.cmds = w.cmds /\ z.effects.batches = <<>>
       /\ w.effects.batches = batches /\ w.db = v.db /\ z.db = d
       /\ y.mail = x.mail \o told /\ y.at = x.at /\ y.declined = x.declined
  BY <1>5, <1>9, <1>14, SeenType
<1> HIDE DEF w, x, y, z, batches
<1>18. ASSUME Right(w, x) PROVE Right(z, y)
  <2>1. /\ z.db.bound = w.db.bound /\ z.db.joined = w.db.joined /\ z.db.ckpt = w.db.ckpt
        /\ z.db.inbox = w.db.inbox /\ z.db.local = w.db.local \cup Waiting(w.effects.batches)
        /\ z.db.linked = w.db.linked \cup Waiting(w.effects.batches)
        /\ Len(told) = Len(w.effects.batches)
    BY <1>6, <1>8, <1>10, <1>17
  <2> QED BY <1>6, <1>17, <1>18, <2>1, RightApplying
<1> QED BY <1>9, <1>14, <1>16, <1>18 DEF Puts, w, x, y, z

(* A deletion is finished: the binding goes.                               *)
LEMMA Finished ==
  ASSUME Types, NEW t \in Apps, t.host.effects = NoEffects, Asks(t),
         NEW v, v = FinishDeletion(t)
  PROVE  v \in Apps /\ v.host.effects = NoEffects /\ Asks(v) /\ (Puts(t) => Puts(v))
<1>1. CASE ~t.host.deleted
  <2>1. v = t BY <1>1 DEF FinishDeletion
  <2> QED BY <2>1
<1>2. CASE t.host.deleted
  <2> DEFINE h == [t.host EXCEPT !.deleted = FALSE]
             gone == Unbind(t.db)
             u == [t EXCEPT !.db = gone, !.host = h]
             z == Tell(u, "stop")
             r == <<[type |-> "stop"]>>
  <2>1. t.db \in Database /\ t.host \in Hosts /\ t.mail \in Seq(Event) BY DEF Apps
  <2>2. h \in Hosts /\ h.effects = NoEffects /\ h.choice = t.host.choice BY <2>1, Zenon DEF Hosts
  <2>3. /\ gone \in Database /\ gone.bound = None /\ ~gone.joined /\ gone.linked = {}
        /\ ~gone.enabled
    BY <2>1, BindFields
  <2>4. v = z BY <1>2, Zenon DEF FinishDeletion
  <2> HIDE DEF h, gone
  <2>5. u \in Apps /\ u.db = gone /\ u.host = h /\ u.user = t.user /\ u.mail = t.mail
    BY <2>2, <2>3, Zenon DEF Apps
  <2> HIDE DEF u
  <2>6. "stop" \in Messages BY DEF Messages
  <2>7. /\ z \in Apps /\ z.db = u.db /\ z.host = u.host /\ z.user = u.user
        /\ z.mail = u.mail \o r
    BY <2>5, <2>6, Telling
  <2>8. r \in Seq(Event) /\ \A type : Has(r, type) <=> type = "stop" BY <2>6, OneMessage
  <2> HIDE DEF z, r
  <2>9. /\ v \in Apps /\ v.db = gone /\ v.host = h /\ v.user = t.user /\ v.mail = t.mail \o r
    BY <2>4, <2>5, <2>7
  <2>10. \A type : Has(v.mail, type) <=> Has(t.mail, type) \/ type = "stop"
    BY <2>1, <2>8, <2>9, MailSent
  <2>11. Asks(v)
    <3>1. Prompted(v.mail)
      <4>1. ~Has(r, "restart") BY <2>8
      <4> QED BY <2>1, <2>8, <2>9, <4>1, PromptedMore DEF Asks
    <3>2. ~v.db.joined /\ ~v.db.enabled /\ v.host.choice = None BY <2>2, <2>3, <2>9 DEF Asks
    <3> QED BY <3>1, <3>2 DEF Asks
  <2> DEFINE w == Sees(t)
             x == Around(t)
             s == Sees(v)
             y == Around(v)
  <2>12. /\ s.core = w.core /\ s.effects = w.effects /\ w.effects.batches = <<>>
         /\ s.db = gone /\ x.mail = t.mail /\ y.mail = t.mail \o r
    BY <2>2, <2>9, SeenType DEF NoEffects
  <2> HIDE DEF w, x, s, y
  <2>13. ASSUME Right(w, x) PROVE Right(s, y)
    <3>1. Counted(w, x) BY <2>13 DEF Right
    <3>2. ~Has(r, "applied") BY <2>8
    <3>3. Acks(y.mail) = Acks(x.mail) BY <2>1, <2>8, <2>12, <3>2, AcksOthers
    <3>4. Counted(s, y) BY <2>12, <3>1, <3>3 DEF Counted
    <3>5. Has(y.mail, "stop") BY <2>9, <2>10, <2>12
    <3> QED BY <2>3, <2>12, <3>4, <3>5, RightUnbound
  <2> QED BY <2>2, <2>9, <2>11, <2>13 DEF Puts, w, x, s, y
<1> QED BY <1>1, <1>2

(* A tick carries out what was chosen, whatever waits.                     *)
LEMMA Ticked ==
  ASSUME Types, Asking, Tick, "data" \notin user'.late
  PROVE  Asking' /\ (Placed => Placed')
<1> DEFINE r == Run(Ready, host.choice)
           t == TakeEffects(r)
           v == FinishDeletion(t)
           late == OutOfTurn(host.choice, v.db.bound)
<1>1. /\ db' = v.db /\ mail' = v.mail /\ user' = Noted(v.user, late)
      /\ host' = [v.host EXCEPT !.phase = IF v.db.enabled THEN v.host.phase ELSE "off"]
      /\ UNCHANGED <<core, cmds, bridge, signedIn, cloud, left>>
  BY Zenon DEF Tick, Ready, v, t, r, late
<1>2. Types' /\ "data" \notin OutOfTurn(host.choice, db'.bound) BY Ticking
<1>3. /\ host.choice \in Answers => ~UnderWay
      /\ host.choice \in {"join", "cloud"} => ~db.joined
  BY <1>2 DEF OutOfTurn, Answers
<1>4. late \in SUBSET {"data", "deletion"} BY OutOfTurnType
<1> HIDE DEF late
<1>5. r \in Apps /\ Asks(r) /\ (Placed => Puts(r))
  <2> DEFINE c == r
  <2>1. c = Run(Ready, host.choice) OBVIOUS
  <2> HIDE DEF c
  <2>2. c \in Apps /\ Asks(c) /\ (Placed => Puts(c)) BY <1>3, <2>1, RunChosen
  <2> QED BY <2>2 DEF c
<1> HIDE DEF r
<1>6. t \in Apps /\ t.host.effects = NoEffects /\ Asks(t) /\ (Puts(r) => Puts(t))
  BY <1>5, Took
<1> HIDE DEF t
<1>7. v \in Apps /\ v.host.effects = NoEffects /\ Asks(v) /\ (Puts(t) => Puts(v))
  BY <1>6, Finished
<1> HIDE DEF v
<1>8. /\ host'.effects = NoEffects /\ host'.confirm = v.host.confirm /\ host'.choice = None
      /\ host'.phase = "join" => v.db.enabled /\ v.host.phase = "join"
  <2>1. v.host \in Hosts /\ v.host.choice = None BY <1>7 DEF Apps, Asks
  <2> DEFINE phase == IF v.db.enabled THEN v.host.phase ELSE "off"
  <2>2. phase = "join" => v.db.enabled /\ v.host.phase = "join" OBVIOUS
  <2>3. host' = [v.host EXCEPT !.phase = phase] BY <1>1
  <2> HIDE DEF phase
  <2>4. /\ host'.effects = v.host.effects /\ host'.confirm = v.host.confirm
        /\ host'.choice = v.host.choice /\ host'.phase = phase
    BY <2>1, <2>3, Zenon DEF Hosts
  <2> QED BY <1>7, <2>1, <2>2, <2>4
<1>9. user'.declined = v.user.declined
  <2>1. v.user \in Users BY <1>7 DEF Apps
  <2> QED BY <1>1, <1>4, <2>1, Noting
<1>10. Asking'
  <2>1. Proper(World', Here')
    <3>1. /\ World'.effects = NoEffects /\ World'.cmds = World.cmds /\ Here'.asked = Here.asked
      BY <1>1, <1>2, <1>8, HereType, HereAfter
    <3>2. NoEffects.confirm = None BY DEF NoEffects
    <3> QED BY <3>1, <3>2 DEF Asking, Proper
  <2>2. Prompted(mail') BY <1>1, <1>7 DEF Asks
  <2>3. db'.joined => db'.bound # None /\ host'.confirm = None BY <1>1, <1>7, <1>8 DEF Asks
  <2>4. host'.choice \notin {"join", "cloud"} BY <1>8, SessionAssumption
  <2>5. host'.phase = "join" => db'.bound # None BY <1>1, <1>7, <1>8 DEF Asks
  <2> QED BY <2>1, <2>2, <2>3, <2>4, <2>5 DEF Asking
<1>11. ASSUME Placed PROVE Placed'
  <2>1. Puts(v) BY <1>5, <1>6, <1>7, <1>11
  <2>2. World' = Sees(v) /\ Here' = Around(v)
    <3>1. host'.effects = v.host.effects BY <1>7, <1>8
    <3> QED BY <1>1, <1>9, <3>1, Zenon DEF World, Here, Sees, Around
  <2>3. Saved(World')
    <3>1. World'.core = World.core BY <1>1, <1>2, HereType, HereAfter
    <3> QED BY <1>11, <3>1 DEF Placed, Saved
  <2> QED BY <2>1, <2>2, <2>3 DEF Placed, Puts
<1> QED BY <1>10, <1>11

-----------------------------------------------------------------------------
(*                             The theorems                                *)

(* The note of what came out of turn only grows.                           *)
LEMMA LateGrows == ASSUME Types, [Next]_vars PROVE user.late \subseteq user'.late
<1>1. CASE UNCHANGED user BY <1>1
<1>2. CASE Tick BY <1>2, Ticking
<1>3. CASE BridgeFetch
  <2>1. user \in Users /\ {"data"} \in SUBSET {"data", "deletion"} BY DEF Types
  <2>2. user' = user \/ user' = Noted(user, {"data"}) BY <1>3 DEF BridgeFetch
  <2>3. Noted(user, {"data"}).late = user.late \cup {"data"} BY <2>1, Noting
  <2> QED BY <2>2, <2>3
<1>4. ASSUME NEW c \in Choices, Choose(c) PROVE user.late \subseteq user'.late
  <2> DEFINE s == user.asked \cup {db.bound}
  <2>1. user \in Users BY DEF Types
  <2>2. user' = user \/ user' = [user EXCEPT !.asked = s] BY <1>4 DEF Choose
  <2> HIDE DEF s
  <2>3. [user EXCEPT !.asked = s].late = user.late BY <2>1, Zenon DEF Users
  <2> QED BY <2>2, <2>3
<1>5. ASSUME NEW i \in Item, Create(i) PROVE user.late \subseteq user'.late
  <2>1. user \in Users /\ {i} \in SUBSET Item BY DEF Types
  <2>2. user' = user \/ user' = Agreed(user, db.bound, {i}) BY <1>5 DEF Create
  <2>3. Agreed(user, db.bound, {i}).late = user.late BY <2>1, AgreedGrows
  <2> QED BY <2>2, <2>3
<1>6. ASSUME NEW a \in Account, NEW i \in Item, PeerSaves(a, i)
      PROVE  user.late \subseteq user'.late
  <2>1. user \in Users /\ {i} \in SUBSET Item BY DEF Types
  <2>2. user' = Agreed(user, a, {i}) BY <1>6 DEF PeerSaves
  <2>3. Agreed(user, a, {i}).late = user.late BY <2>1, AgreedGrows
  <2> QED BY <2>2, <2>3
<1>7. Handles \/ Ticks \/ Polls => UNCHANGED user
  BY DEF Handles, Ticks, Polls, HandleStart, HandleStop, HandleRestart,
         HandleClearPause, HandleTick, HandleApplied, HandleDelete, HandleAccount, HandleChange,
         HandleFetched, HandleState, HandleComplete, HandleSent, HandleError, HandleSendFailed,
         HandleZoneDeleted
<1>8. BridgeRuns => UNCHANGED user \/ BridgeFetch
  BY DEF BridgeRuns, BridgeStart, BridgeCheck, BridgeStage, BridgeSend, BridgeSendFails,
         BridgeDelete, BridgeFails, BridgeStop, Runs
<1>9. Crash => UNCHANGED user BY DEF Crash
<1>10. \A a \in Account \cup {None} : Switch(a) => UNCHANGED user BY DEF Switch
<1>11. CASE UNCHANGED vars BY <1>11 DEF vars
<1>12. CASE Next
  BY <1>1, <1>2, <1>3, <1>4, <1>5, <1>6, <1>7, <1>8, <1>9, <1>10, <1>12 DEF Next
<1> QED BY <1>11, <1>12

(* Unless data came out of turn.                                           *)
LEMMA Placing ==
  ASSUME Types, Asking, [Next]_vars, "data" \notin user'.late
  PROVE  Asking' /\ (Placed => Placed')
<1>1. CASE UNCHANGED vars
  BY <1>1 DEF vars, Asking, Placed, World, Here
<1>2. CASE Next
  <2> DEFINE Done == Asking' /\ (Placed => Placed')
  <2>1. Handles => Done BY Serving
  <2>2. Ticks \/ Polls => Done BY Pacing
  <2>3. Tick => Done BY Ticked
  <2>4. BridgeRuns => Done BY Obeying
  <2>5. Crash => Done BY Crashed
  <2>6. ASSUME NEW c \in Choices, Choose(c) PROVE Done BY <2>6, Pressing
  <2>7. ASSUME NEW i \in Item, Create(i) PROVE Done BY <2>7, Created
  <2>8. ASSUME NEW a \in Account, NEW i \in Item, PeerSaves(a, i) PROVE Done
    BY <2>8, PeerSaved
  <2>9. ASSUME NEW a \in Account \cup {None}, Switch(a) PROVE Done BY <2>9, Switched
  <2> HIDE DEF Done
  <2>10. Done BY <1>2, <2>1, <2>2, <2>3, <2>4, <2>5, <2>6, <2>7, <2>8, <2>9 DEF Next
  <2> QED BY <2>10 DEF Done
<1> QED BY <1>1, <1>2

LEMMA PlacedFits == Types /\ Placed => PositionFits
<1> SUFFICES ASSUME Types, Placed, db.ckpt # None, db.bound # None
             PROVE  /\ db.ckpt.of = db.bound
                    /\ db.ckpt.seen \subseteq db.local \cup db.inbox \cup user.declined
  BY DEF PositionFits
<1>1. World.db = db /\ Here.declined = user.declined BY HereType
<1>2. Disk(World, Here) BY DEF Placed, Right
<1>3. db.ckpt.of = db.bound /\ db.ckpt.seen \subseteq Kept(db, user.declined)
  BY <1>1, <1>2 DEF Disk
<1> QED BY <1>3 DEF Kept

(* No position on disk that the next start will use has passed an item     *)
(* this Mac neither has, keeps for the first merge nor declined, whatever  *)
(* switches, merges, faults and restarts there were, as long as no account *)
(* question was answered while something was under way, no merge was       *)
(* carried out twice, and no fetch ran under another account than the one  *)
(* it was asked for.                                                       *)
THEOREM NothingIsPassed == Spec => []NothingPassed
<1> DEFINE InTurn == "data" \in user.late \/ (Asking /\ Placed)
<1>1. Init => Types /\ InTurn BY Initial, Begun
<1>2. Types /\ InTurn /\ [Next]_vars => (Types /\ InTurn)'
  <2> SUFFICES ASSUME Types, InTurn, [Next]_vars PROVE Types' /\ InTurn' OBVIOUS
  <2>1. Types' /\ user.late \subseteq user'.late BY Stepping, LateGrows
  <2>2. ASSUME "data" \notin user'.late PROVE Asking' /\ Placed' BY <2>1, <2>2, Placing
  <2> QED BY <2>1, <2>2
<1>3. Types /\ InTurn => NothingPassed BY PlacedFits DEF NothingPassed
<1> HIDE DEF InTurn
<1> QED BY <1>1, <1>2, <1>3, PTL DEF Spec

-----------------------------------------------------------------------------
(*                            The deletions                                *)

(* Only the deletion of a zone takes something from it.                    *)
LEMMA ZonesGrow ==
  ASSUME Types, [Next]_vars, ~BridgeDelete PROVE \A a \in Account : cloud[a] \subseteq cloud'[a]
<1>1. cloud \in [Account -> SUBSET Item] BY DEF Types, Grants
<1>2. CASE UNCHANGED cloud BY <1>2
<1>3. CASE BridgeSend
  <2>1. cloud' = [cloud EXCEPT ![signedIn] = cloud[signedIn] \cup bridge.staged]
    BY <1>3 DEF BridgeSend
  <2> QED BY <1>1, <2>1
<1>4. ASSUME NEW b \in Account, NEW i \in Item, PeerSaves(b, i)
      PROVE  \A a \in Account : cloud[a] \subseteq cloud'[a]
  <2>1. cloud' = [cloud EXCEPT ![b] = cloud[b] \cup {i}] BY <1>4 DEF PeerSaves
  <2> QED BY <1>1, <2>1
<1>5. Handles \/ Ticks \/ Polls => UNCHANGED cloud
  BY DEF Handles, Ticks, Polls, Becomes, HandleStart, HandleStop, HandleRestart,
         HandleClearPause, HandleTick, HandleApplied, HandleDelete, HandleAccount, HandleChange,
         HandleFetched, HandleState, HandleComplete, HandleSent, HandleError, HandleSendFailed,
         HandleZoneDeleted
<1>6. Tick \/ Crash => UNCHANGED cloud BY DEF Tick, Crash
<1>7. BridgeRuns => UNCHANGED cloud \/ BridgeSend
  BY DEF BridgeRuns, BridgeStart, BridgeCheck, BridgeStage, BridgeSendFails, BridgeFetch,
         BridgeFails, BridgeStop
<1>8. \A c \in Choices : Choose(c) => UNCHANGED cloud BY DEF Choose
<1>9. \A i \in Item : Create(i) => UNCHANGED cloud BY DEF Create
<1>10. \A a \in Account \cup {None} : Switch(a) => UNCHANGED cloud BY DEF Switch
<1>11. CASE UNCHANGED vars BY <1>2, <1>11 DEF vars
<1>12. CASE Next
  BY <1>2, <1>3, <1>4, <1>5, <1>6, <1>7, <1>8, <1>9, <1>10, <1>12 DEF Next
<1> QED BY <1>11, <1>12

(* Who deletes what: a command to delete the zone of an account waits only *)
(* if the user asked for it while bound to it; and while a wish to delete  *)
(* waits for the core, the database is bound to an account it is for.      *)
Wanted ==
  /\ db.bound # None => host.effects.confirm = None
  /\ \A k \in DOMAIN cmds : cmds[k].type = "delete" => cmds[k].for \in user.asked
  /\ Has(mail, "delete") \/ host.choice = "delete" => db.bound \in user.asked \cup {None}

(* The context of the message that is handled, with what was asked for.    *)
Wish(q) == [declined |-> {}, asked |-> user.asked, at |-> None, mail |-> q]

LEMMA WishType ==
  ASSUME Types, NEW q \in Seq(Event)
  PROVE  /\ Wish(q) \in Contexts /\ Wish(q).mail = q /\ Wish(q).asked = user.asked
         /\ Proper(World, Wish(q)) <=>
              /\ db.bound # None => host.effects.confirm = None
              /\ \A k \in DOMAIN cmds : cmds[k].type = "delete" => cmds[k].for \in user.asked
<1>1. user.asked \in SUBSET (Account \cup {None}) BY DEF Types, Users
<1>2. Wish(q) \in Contexts /\ Wish(q).mail = q /\ Wish(q).asked = user.asked
  BY <1>1, Zenon DEF Wish, Contexts
<1> QED BY <1>2, HereType DEF Proper

(* A step of the core that leads to v, where v may be proper.              *)
LEMMA WantedAfter ==
  ASSUME Types, Types', Wanted, NEW v \in Worlds, Becomes(v), v.db.bound = db.bound,
         user' = user, Has(mail', "delete") => Has(mail, "delete"),
         NEW x, x.asked = user.asked, Proper(v, x)
  PROVE  Wanted'
<1>1. /\ v.db = db' /\ v.cmds = cmds' /\ v.effects = host'.effects /\ host'.choice = host.choice
  BY WorldAfter, HereAfter
<1> QED BY <1>1 DEF Wanted, Proper

LEMMA ServedWanted == ASSUME Types, Wanted, Handles PROVE Wanted'
<1> DEFINE m == Head(mail)
           q == <<m>>
           x == Wish(q)
<1>0. mail \in Seq(Event) /\ World.db = db /\ Types' BY HereType, Handling DEF Types
<1>1. mail # <<>>
  BY DEF Handles, Takes, HandleStart, HandleStop, HandleRestart, HandleClearPause, HandleTick,
         HandleApplied, HandleDelete, HandleAccount, HandleChange, HandleFetched, HandleState,
         HandleComplete, HandleSent, HandleError, HandleSendFailed, HandleZoneDeleted
<1>2. m \in Event /\ (\A type : Has(mail, type) <=> m.type = type \/ Has(Tail(mail), type))
  BY <1>0, <1>1, TailFacts, MailTaken
<1> HIDE DEF m
<1>3. q \in Seq(Event) /\ q # <<>> /\ Head(q) = m /\ Len(q) = 1 BY <1>2
<1> HIDE DEF q
<1>4. x \in Contexts /\ x.mail = q /\ x.asked = user.asked /\ Proper(World, x)
  BY <1>0, <1>3, WishType DEF Wanted
<1> HIDE DEF x
<1>5. Prompted(x.mail)
  <2>1. DOMAIN x.mail = 1 .. 1 BY <1>3, <1>4, LenProperties
  <2>2. \A k \in 1 .. 1 : k = 1 OBVIOUS
  <2> QED BY <2>1, <2>2 DEF Prompted
<1>6. Head(mail).type = "delete" => db.bound \in x.asked \cup {None}
  BY <1>2, <1>4 DEF Wanted, m
<1>7. PICK v : Outcome(v, x)
  <2>1. x.mail # <<>> /\ Head(x.mail) = Head(mail) BY <1>3, <1>4 DEF m
  <2> QED BY <1>4, <1>5, <1>6, <2>1, Handled
<1>8. /\ Does(World, v, x) /\ Becomes(v) /\ user' = user /\ mail' = Tail(mail)
  BY <1>7 DEF Outcome
<1>9. v \in Worlds /\ v.db.bound = db.bound /\ Proper(v, Next1(x))
  BY <1>0, <1>4, <1>8, Zenon DEF Does
<1>10. Next1(x).asked = user.asked BY <1>3, <1>4, ContextTaken
<1>11. Has(mail', "delete") => Has(mail, "delete") BY <1>2, <1>8
<1> QED BY <1>0, <1>8, <1>9, <1>10, <1>11, WantedAfter

LEMMA PacedWanted == ASSUME Types, Wanted, Ticks \/ Polls PROVE Wanted'
<1> DEFINE x == Wish(<<>>)
<1>0. World.db = db /\ Types' BY HereType, Timing
<1>1. x \in Contexts /\ x.mail = <<>> /\ x.asked = user.asked /\ Proper(World, x)
  <2>1. <<>> \in Seq(Event) OBVIOUS
  <2> QED BY <2>1, WishType DEF Wanted
<1> HIDE DEF x
<1>2. ~Has(x.mail, "restart") BY <1>1 DEF Has
<1>3. PICK v : Keeps(World, v, x) /\ Becomes(v) /\ mail' = mail /\ user' = user
  BY <1>1, <1>2, Paced
<1>4. v \in Worlds /\ v.db.bound = db.bound /\ Proper(v, x)
  BY <1>0, <1>1, <1>3, Zenon DEF Keeps
<1> QED BY <1>0, <1>1, <1>3, <1>4, WantedAfter

(* A tick: what binds another account while the wish waits is noted.       *)
LEMMA TickedWanted == ASSUME Types, Wanted, Tick, "deletion" \notin user'.late PROVE Wanted'
<1>1. /\ user'.asked = user.asked
      /\ user'.late = user.late \cup OutOfTurn(host.choice, db'.bound)
      /\ Has(mail', "delete") => Has(mail, "delete") \/ host.choice = "delete"
      /\ host'.effects = NoEffects /\ host'.choice = None
      /\ host.choice = "delete" => db'.bound \in {db.bound, None}
  BY Ticking
<1>2. cmds' = cmds BY DEF Tick
<1>3. Has(mail, "delete") => db'.bound \in {db.bound, None}
  BY <1>1 DEF OutOfTurn
<1>4. host'.effects.confirm = None /\ host'.choice # "delete"
  BY <1>1, SessionAssumption DEF NoEffects
<1> QED BY <1>1, <1>2, <1>3, <1>4 DEF Wanted

(* The bridge and the accounts ask for no deletion.                        *)
LEMMA BridgeAsksNot ==
  ASSUME Types, BridgeRuns \/ \E a \in Account \cup {None} : Switch(a)
  PROVE  /\ \E r \in Seq(Event) : mail' = mail \o r /\ ~Has(r, "delete")
         /\ UNCHANGED <<db, core, host>> /\ user'.asked = user.asked
         /\ cmds' = cmds \/ (cmds # <<>> /\ cmds' = Tail(cmds))
<1>0. bridge \in Bridges /\ signedIn \in Account \cup {None} /\ user \in Users /\ cloud \in Grants
  BY DEF Types
<1>1. ASSUME NEW type, Runs(type)
      PROVE  UNCHANGED <<db, core, host, user>> /\ cmds # <<>> /\ cmds' = Tail(cmds)
  BY <1>1 DEF Runs, Heads
<1> DEFINE Plainly == \E r \in Plain : mail' = mail \o r
<1>2. Plainly => \E r \in Seq(Event) : mail' = mail \o r /\ ~Has(r, "delete") BY DEF Plain
<1>3. mail' = mail => Plainly BY MailSame, PlainEvents
<1>4. CASE BridgeStart \/ BridgeStop
  <2>1. mail' = mail /\ (Runs("start") \/ Runs("stop"))
    BY <1>4 DEF BridgeStart, BridgeStop, Nothing
  <2> QED BY <1>1, <1>2, <1>3, <2>1
<1>5. CASE BridgeCheck
  <2>1. Runs("check") /\ mail' = mail \o <<[type |-> "account", account |-> signedIn]>>
    BY <1>5 DEF BridgeCheck, Emit
  <2>2. Plainly BY <1>0, <2>1, PlainEvents
  <2> QED BY <1>1, <1>2, <2>1, <2>2
<1>6. CASE BridgeStage
  <2>1. Runs("stage") BY <1>6 DEF BridgeStage
  <2>2. Plainly
    <3>1. CASE ~bridge.running \/ Head(cmds).for # signedIn
      <4>1. mail' = mail \o Failed(TRUE) \/ mail' = mail
        BY <1>6, <3>1 DEF BridgeStage, Emit, Nothing
      <4> QED BY <1>3, <4>1, PlainEvents
    <3>2. CASE bridge.running /\ Head(cmds).for = signedIn
      <4>1. PICK b \in {signedIn} \cup IF Interrupted /\ left.switches > 0 THEN Account ELSE {} :
              StageUnder(b)
        BY <1>6, <3>2 DEF BridgeStage
      <4>2. b \in Account \cup {None} BY <1>0
      <4>3. mail' = mail \/ mail' = mail \o <<[type |-> "change", account |-> b]>>
        BY <4>1 DEF StageUnder, Emit, Nothing
      <4> QED BY <1>3, <4>2, <4>3, PlainEvents
    <3> QED BY <3>1, <3>2
  <2> QED BY <1>1, <1>2, <2>1, <2>2
<1>7. CASE BridgeSend
  <2>1. /\ Runs("send")
        /\ mail' = mail \/ mail' = mail \o <<[type |-> "sent", items |-> bridge.staged]>>
    BY <1>7 DEF BridgeSend, Nothing, Emit
  <2>2. bridge.staged \in SUBSET Item BY <1>0 DEF Bridges
  <2>3. Plainly BY <1>3, <2>1, <2>2, PlainEvents
  <2> QED BY <1>1, <1>2, <2>1, <2>3
<1>8. CASE BridgeSendFails \/ BridgeDelete \/ BridgeFails
  <2>1. Runs("send") \/ Runs("delete") \/ Runs("fetch")
    BY <1>8 DEF BridgeSendFails, BridgeDelete, BridgeFails
  <2>2. \/ mail' = mail \o <<[type |-> "send_failed"]>>
        \/ mail' = mail \o <<[type |-> "zone_deleted"]>>
        \/ mail' = mail \o Failed(FALSE)
    BY <1>8 DEF BridgeSendFails, BridgeDelete, BridgeFails, Emit
  <2>3. Plainly BY <2>2, PlainEvents
  <2> QED BY <1>1, <1>2, <2>1, <2>3
<1>9. CASE BridgeFetch
  <2> DEFINE seen == IF bridge.at = None THEN {} ELSE bridge.at.seen
             now == [of |-> signedIn, seen |-> cloud[signedIn]]
             new == cloud[signedIn] \ seen
             r == (IF new = {} THEN <<>> ELSE <<[type |-> "fetched", items |-> new]>>)
                  \o <<[type |-> "state", at |-> now], [type |-> "complete"]>>
  <2>1. /\ Heads("fetch") /\ signedIn # None /\ mail' = mail \o r
        /\ user' = user \/ user' = Noted(user, {"data"})
    BY <1>9 DEF BridgeFetch, Emit
  <2>2. signedIn \in Account /\ cloud[signedIn] \in SUBSET Item BY <1>0, <2>1 DEF Grants
  <2>3. now \in Position /\ new \in SUBSET Item BY <2>2 DEF Position
  <2> HIDE DEF now, new
  <2>4. r \in Seq(Event) /\ ~Has(r, "delete") BY <2>3, FetchEvents
  <2> HIDE DEF r
  <2>5. user'.asked = user.asked
    <3>1. {"data"} \in SUBSET {"data", "deletion"} OBVIOUS
    <3> QED BY <1>0, <2>1, <3>1, Noting
  <2>6. UNCHANGED <<db, core, host>> /\ cmds # <<>> /\ cmds' = Tail(cmds) BY <2>1 DEF Heads
  <2> QED BY <2>1, <2>4, <2>5, <2>6
<1>10. ASSUME NEW a \in Account \cup {None}, Switch(a)
       PROVE  Plainly /\ UNCHANGED <<db, core, host, cmds, user>>
  <2>1. mail' = mail \/ mail' = mail \o <<[type |-> "change", account |-> a]>>
    BY <1>10 DEF Switch, Emit, Nothing
  <2>2. UNCHANGED <<db, core, host, cmds, user>> BY <1>10 DEF Switch
  <2> QED BY <1>3, <2>1, <2>2, PlainEvents
<1> HIDE DEF Plainly
<1>11. CASE \E a \in Account \cup {None} : Switch(a)
  <2>1. Plainly /\ UNCHANGED <<db, core, host, cmds, user>> BY <1>10, <1>11
  <2> QED BY <1>2, <2>1
<1> QED BY <1>4, <1>5, <1>6, <1>7, <1>8, <1>9, <1>11 DEF BridgeRuns

LEMMA BridgedWanted ==
  ASSUME Types, Wanted, BridgeRuns \/ \E a \in Account \cup {None} : Switch(a)
  PROVE  Wanted'
<1>1. PICK r \in Seq(Event) : mail' = mail \o r /\ ~Has(r, "delete") BY BridgeAsksNot
<1>2. mail \in Seq(Event) /\ cmds \in Seq(Command) BY DEF Types
<1>3. Has(mail', "delete") => Has(mail, "delete") BY <1>1, <1>2, MailSent
<1>4. /\ UNCHANGED <<db, core, host>> /\ user'.asked = user.asked
      /\ cmds' = cmds \/ (cmds # <<>> /\ cmds' = Tail(cmds))
  BY BridgeAsksNot
<1>5. \A k \in DOMAIN cmds' : \E l \in DOMAIN cmds : cmds'[k] = cmds[l]
  <2>1. CASE cmds' = cmds BY <2>1
  <2>2. CASE cmds # <<>> /\ cmds' = Tail(cmds)
    <3>1. \A k \in DOMAIN cmds' : k + 1 \in DOMAIN cmds /\ cmds'[k] = cmds[k + 1]
      BY <1>2, <2>2, TailFacts
    <3> QED BY <3>1
  <2> QED BY <1>4, <2>1, <2>2
<1> QED BY <1>3, <1>4, <1>5 DEF Wanted

LEMMA ChosenWanted == ASSUME Types, Wanted, NEW c \in Choices, Choose(c) PROVE Wanted'
<1>1. host \in Hosts /\ user \in Users BY DEF Types
<1>2. /\ host' = [host EXCEPT !.choice = c] /\ UNCHANGED <<db, mail, cmds>>
      /\ user' = IF c = "delete" THEN [user EXCEPT !.asked = user.asked \cup {db.bound}] ELSE user
  BY DEF Choose
<1>3. host'.choice = c /\ host'.effects = host.effects BY <1>1, <1>2, Zenon DEF Hosts
<1>4. user.asked \subseteq user'.asked /\ (c = "delete" => db.bound \in user'.asked)
  <2> DEFINE s == user.asked \cup {db.bound}
  <2>1. c = "delete" => user' = [user EXCEPT !.asked = s] BY <1>2
  <2>2. c # "delete" => user' = user BY <1>2
  <2>3. user.asked \subseteq s /\ db.bound \in s OBVIOUS
  <2> HIDE DEF s
  <2>4. c = "delete" => user'.asked = s BY <1>1, <2>1, Zenon DEF Users
  <2> QED BY <2>2, <2>3, <2>4
<1> QED BY <1>2, <1>3, <1>4 DEF Wanted

LEMMA SavedWanted ==
  ASSUME Types, Wanted, NEW i \in Item, Create(i) \/ \E a \in Account : PeerSaves(a, i)
  PROVE  Wanted'
<1>1. user \in Users /\ db \in Database /\ {i} \in SUBSET Item BY DEF Types
<1>2. CASE Create(i)
  <2>1. /\ UNCHANGED <<host, mail, cmds>>
        /\ user' = user \/ user' = Agreed(user, db.bound, {i})
        /\ db' = [db EXCEPT !.local = db.local \cup {i}]
    BY <1>2 DEF Create
  <2>2. db'.bound = db.bound BY <1>1, <2>1, Zenon DEF Database
  <2>3. Agreed(user, db.bound, {i}).asked = user.asked BY <1>1, AgreedGrows
  <2>4. user'.asked = user.asked BY <2>1, <2>3
  <2> QED BY <2>1, <2>2, <2>4 DEF Wanted
<1>3. ASSUME NEW a \in Account, PeerSaves(a, i) PROVE Wanted'
  <2>1. UNCHANGED <<db, host, mail, cmds>> /\ user' = Agreed(user, a, {i})
    BY <1>3 DEF PeerSaves
  <2>2. Agreed(user, a, {i}).asked = user.asked BY <1>1, AgreedGrows
  <2>3. user'.asked = user.asked BY <2>1, <2>2
  <2> QED BY <2>1, <2>3 DEF Wanted
<1> QED BY <1>2, <1>3

(* After a start no wish waits.                                            *)
LEMMA FreshWanted ==
  ASSUME SessionAssumption, host = NewHost, cmds = <<>>,
         mail = <<>> \/ mail = <<[type |-> "start"]>>
  PROVE  Wanted
<1>1. ~Has(mail, "delete") BY LaunchedMail
<1>2. host.choice # "delete" /\ host.effects.confirm = None
  BY SessionAssumption DEF NewHost, NoEffects
<1>3. \A k \in DOMAIN cmds : FALSE OBVIOUS
<1> QED BY <1>1, <1>2, <1>3 DEF Wanted

LEMMA CrashedWanted == ASSUME Crash PROVE Wanted'
<1>1. /\ host' = NewHost /\ cmds' = <<>>
      /\ mail' = <<>> \/ mail' = <<[type |-> "start"]>>
  BY DEF Crash, Launched
<1>2. ~Has(mail', "delete") BY <1>1, LaunchedMail
<1>3. host'.choice # "delete" /\ host'.effects.confirm = None
  BY <1>1, SessionAssumption DEF NewHost, NoEffects
<1>4. \A k \in DOMAIN cmds' : FALSE BY <1>1
<1> QED BY <1>2, <1>3, <1>4 DEF Wanted

(* Unless a deletion came out of turn.                                     *)
LEMMA Wanting ==
  ASSUME Types, Wanted, [Next]_vars, "deletion" \notin user'.late PROVE Wanted'
<1>1. CASE UNCHANGED vars BY <1>1 DEF vars, Wanted
<1>2. CASE Next
  <2>1. ASSUME NEW c \in Choices, Choose(c) PROVE Wanted' BY <2>1, ChosenWanted
  <2>2. ASSUME NEW i \in Item, Create(i) \/ \E a \in Account : PeerSaves(a, i) PROVE Wanted'
    BY <2>2, SavedWanted
  <2>3. CASE BridgeRuns \/ \E a \in Account \cup {None} : Switch(a) BY <2>3, BridgedWanted
  <2>4. CASE Ticks \/ Polls BY <2>4, PacedWanted
  <2> QED BY <1>2, <2>1, <2>2, <2>3, <2>4, ServedWanted, TickedWanted, CrashedWanted DEF Next
<1> QED BY <1>1, <1>2

LEMMA DeletesAsked ==
  ASSUME Types, "deletion" \in user.late \/ Wanted, BridgeDelete
  PROVE  EmptiesAsAsked
<1> SUFFICES ASSUME NEW a \in Account, ~OvertakenAtBridge, "deletion" \notin user.late
             PROVE  cloud[a] \subseteq cloud'[a] \/ a \in user.asked
  BY DEF EmptiesAsAsked
<1>1. cloud \in [Account -> SUBSET Item] /\ cmds \in Seq(Command) BY DEF Types, Grants
<1>2. /\ cmds # <<>> /\ Head(cmds).type = "delete" /\ cloud' = [cloud EXCEPT ![signedIn] = {}]
  BY DEF BridgeDelete, Runs, Heads
<1>3. Head(cmds).for = signedIn BY <1>2 DEF OvertakenAtBridge
<1>4. Head(cmds) = cmds[1] /\ 1 \in DOMAIN cmds BY <1>1, <1>2, TailFacts
<1>5. signedIn \in user.asked BY <1>2, <1>3, <1>4 DEF Wanted
<1>6. CASE a = signedIn BY <1>5, <1>6
<1>7. CASE a # signedIn BY <1>1, <1>2, <1>7
<1> QED BY <1>6, <1>7

(* A zone is emptied only if the user asked for that while this Mac was    *)
(* bound to its account, whatever switches, choices, faults and restarts   *)
(* there were, unless the account signed in changed after the core had     *)
(* sent the command, or another one was bound before the core got the      *)
(* wish.                                                                   *)
THEOREM OnlyIfAsked == Spec => OnlyAsked
<1> DEFINE InTurn == "deletion" \in user.late \/ Wanted
<1>1. Init => Types /\ InTurn
  <2> SUFFICES ASSUME Init PROVE Types /\ Wanted OBVIOUS
  <2>1. Types BY Initial
  <2>2. host = NewHost /\ cmds = <<>> /\ (mail = <<>> \/ mail = <<[type |-> "start"]>>)
    BY DEF Init, Launched
  <2> QED BY <2>1, <2>2, FreshWanted, SessionAssumption
<1>2. Types /\ InTurn /\ [Next]_vars => (Types /\ InTurn)'
  <2> SUFFICES ASSUME Types, InTurn, [Next]_vars PROVE Types' /\ InTurn' OBVIOUS
  <2>1. Types' /\ user.late \subseteq user'.late BY Stepping, LateGrows
  <2>2. ASSUME "deletion" \notin user'.late PROVE Wanted' BY <2>1, <2>2, Wanting
  <2> QED BY <2>1, <2>2
<1>3. Types /\ InTurn /\ [Next]_vars => [EmptiesAsAsked]_vars
  <2> SUFFICES ASSUME Types, InTurn, [Next]_vars PROVE EmptiesAsAsked OBVIOUS
  <2>1. CASE BridgeDelete BY <2>1, DeletesAsked
  <2>2. CASE ~BridgeDelete BY <2>2, ZonesGrow DEF EmptiesAsAsked
  <2> QED BY <2>1, <2>2
<1> HIDE DEF InTurn
<1> QED BY <1>1, <1>2, <1>3, PTL DEF Spec, OnlyAsked
=============================================================================
