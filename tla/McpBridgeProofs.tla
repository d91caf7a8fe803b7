--------------------------- MODULE McpBridgeProofs ---------------------------
(***************************************************************************)
(* For any number of calls and clients and any limits: a call that hears it *)
(* was refused has not run and never will (McpBridge implements CallOnce),  *)
(* only wanted commands start, and a request_id places one order.  The      *)
(* argument: a request is in one place only and is started there at most    *)
(* once (`Requests`), its caller and the app read the same switch           *)
(* (`Callers`, `Hand`), and the record of a request_id names the order that *)
(* was placed under it (`Records`, `Kept`).                                 *)
(***************************************************************************)
EXTENDS McpBridge, SequenceTheorems, FiniteSetTheorems, TLAPS

(* A call that was not sent is untouched; one that was given up is never    *)
(* pending; what a call is told follows the switch of its request.          *)
Callers ==
    \A c \in Call :
        /\ caller[c] \in {"new", "arrived"} => switch[c] = "pending" /\ answer[c] = "none"
        /\ caller[c] # "ended" => told[c] = "none"
        /\ caller[c] \in {"grace", "ended"} => switch[c] # "pending"
        /\ answer[c] = "refused" => switch[c] = "cancelled"
        /\ answer[c] \in {"placed", "already", "failed"} => switch[c] = "started"

Unsent == {"new", "arrived"}

(* A request is in one place; only the first one of a frame can be started. *)
Requests ==
    /\ \A i, j \in 1 .. Len(queue) : queue[i] = queue[j] => i = j
    /\ \A i, j \in 1 .. Len(batch) : batch[i] = batch[j] => i = j
    /\ \A i \in 1 .. Len(queue), j \in 1 .. Len(batch) : queue[i] # batch[j]
    /\ \A i \in 1 .. Len(queue) : caller[queue[i]] \notin Unsent /\ switch[queue[i]] # "started"
    /\ \A j \in 1 .. Len(batch) :
          /\ caller[batch[j]] \notin Unsent
          /\ switch[batch[j]] = "started" => j = 1 /\ step = "running"

(* The app acts on what it judged: nobody changes a permission or stops the *)
(* server in the middle of a frame, and a stop waits for all calls.         *)
Hand ==
    /\ step = "judged" => batch[1].client \in allowed
    /\ step = "refusing" => switch[batch[1]] = "cancelled"
    /\ step = "running" => switch[batch[1]] = "started"
    /\ batch # <<>> => server # "stopping"
    /\ Live # {} => server # "off"

IInv == TypeOK /\ Callers /\ Requests /\ Hand

LEMMA LimitsNat == /\ QueueCapacity \in Nat \ {0} /\ MaxConcurrent \in Nat \ {0}
                   /\ PerFrame \in Nat \ {0} /\ MemoryLimit \in Nat \ {0}
                   /\ MaxChanges \in Nat
BY BridgeAssumption

-----------------------------------------------------------------------------
(* The memory of request_ids *)

(* No two entries share a request_id, and none is without.                  *)
OnePerKey(m) ==
    /\ \A j, k \in 1 .. Len(m) : m[j].key = m[k].key => j = k
    /\ \A k \in 1 .. Len(m) : m[k].key # None

Has(m, e) == \E k \in 1 .. Len(m) : m[k] = e

(* `Forget` leaves the entries of all other request_ids, in a sequence.     *)
LEMMA Forgotten ==
    ASSUME memory \in Seq(Entry), NEW key
    PROVE  /\ Forget(key) \in Seq(Entry)
           /\ \A e : Has(Forget(key), e) => Has(memory, e)
           /\ \A e : Has(memory, e) /\ e.key # key => Has(Forget(key), e)
           /\ OnePerKey(memory) =>
                 /\ OnePerKey(Forget(key))
                 /\ \A k \in 1 .. Len(Forget(key)) : Forget(key)[k].key # key
<1>1. CASE ~\E k \in DOMAIN memory : memory[k].key = key
  <2>1. Forget(key) = memory
    BY <1>1 DEF Forget
  <2> QED
    BY <1>1, <2>1
<1>2. CASE \E k \in DOMAIN memory : memory[k].key = key
  <2> DEFINE n == CHOOSE k \in DOMAIN memory : memory[k].key = key
             a == SubSeq(memory, 1, n - 1)
             b == SubSeq(memory, n + 1, Len(memory))
  <2>1. n \in 1 .. Len(memory) /\ memory[n].key = key
    BY <1>2
  <2>2. Forget(key) = a \o b
    BY <1>2 DEF Forget
  <2> HIDE DEF n
  <2>3. /\ a \in Seq(Entry) /\ Len(a) = n - 1
        /\ \A i \in 1 .. n - 1 : a[i] = memory[i]
    BY <2>1, SubSeqProperties
  <2>4. /\ b \in Seq(Entry) /\ Len(b) = Len(memory) - n
        /\ \A i \in 1 .. Len(memory) - n : b[i] = memory[n + i]
    BY <2>1, SubSeqProperties
  <2> HIDE DEF a, b
  <2> DEFINE m == a \o b
  <2>5. /\ m \in Seq(Entry) /\ Len(m) = Len(memory) - 1
        /\ \A i \in 1 .. Len(m) : m[i] = IF i < n THEN memory[i] ELSE memory[i + 1]
    <3>1. /\ m \in Seq(Entry) /\ Len(m) = Len(a) + Len(b)
          /\ \A i \in 1 .. Len(m) : m[i] = IF i <= Len(a) THEN a[i] ELSE b[i - Len(a)]
      BY <2>3, <2>4, ConcatProperties
    <3> HIDE DEF m
    <3>2. Len(m) = Len(memory) - 1 /\ Len(memory) \in Nat /\ n \in Nat
      BY <2>1, <2>3, <2>4, <3>1
    <3>3. ASSUME NEW i \in 1 .. Len(m)
          PROVE  m[i] = IF i < n THEN memory[i] ELSE memory[i + 1]
      <4>1. CASE i < n
        BY <2>1, <2>3, <3>1, <3>2, <4>1
      <4>2. CASE ~(i < n)
        <5>1. /\ i - (n - 1) \in 1 .. Len(memory) - n
              /\ n + (i - (n - 1)) = i + 1 /\ ~(i <= n - 1)
          BY <2>1, <3>2, <4>2
        <5>2. m[i] = b[i - (n - 1)]
          BY <2>3, <3>1, <5>1
        <5>3. b[i - (n - 1)] = memory[n + (i - (n - 1))]
          BY <2>4, <5>1
        <5> QED
          BY <4>2, <5>1, <5>2, <5>3
      <4> QED
        BY <4>1, <4>2
    <3> QED
      BY <3>1, <3>2, <3>3
  <2> HIDE DEF m
  <2>6. \A e : Has(m, e) => Has(memory, e)
    BY <2>1, <2>5 DEF Has
  <2>7. ASSUME NEW e, Has(memory, e), e.key # key PROVE Has(m, e)
    <3>1. PICK k \in 1 .. Len(memory) : memory[k] = e
      BY <2>7 DEF Has
    <3>2. k # n
      BY <2>1, <2>7, <3>1
    <3>3. CASE k < n
      <4>1. k \in 1 .. Len(m) /\ m[k] = e
        BY <2>1, <2>5, <3>1, <3>3
      <4> QED
        BY <4>1 DEF Has
    <3>4. CASE k > n
      <4>1. k - 1 \in 1 .. Len(m) /\ m[k - 1] = e
        BY <2>1, <2>5, <3>1, <3>4
      <4> QED
        BY <4>1 DEF Has
    <3> QED
      BY <2>1, <3>1, <3>2, <3>3, <3>4
  <2>8. ASSUME OnePerKey(memory)
        PROVE  OnePerKey(m) /\ \A k \in 1 .. Len(m) : m[k].key # key
    <3> DEFINE from(i) == IF i < n THEN i ELSE i + 1
    <3>1. \A i \in 1 .. Len(m) : /\ from(i) \in 1 .. Len(memory) /\ from(i) # n
                                /\ m[i] = memory[from(i)]
      BY <2>1, <2>5
    <3>2. \A i, j \in 1 .. Len(m) : from(i) = from(j) => i = j
      BY <2>1, <2>5
    <3> HIDE DEF from
    <3> QED
      BY <2>1, <2>8, <3>1, <3>2 DEF OnePerKey
  <2>9. Forget(key) = m
    BY <2>2 DEF m
  <2> QED
    BY <2>5, <2>6, <2>7, <2>8, <2>9
<1> QED
  BY <1>1, <1>2

(* A memory that lacks a request_id is shorter than there are.              *)
LEMMA RoomForOne ==
    ASSUME NEW m \in Seq(Entry), OnePerKey(m), NEW key \in Key \ {None},
           \A k \in 1 .. Len(m) : m[k].key # key
    PROVE  Len(m) < Cardinality(Key \ {None})
<1> DEFINE S == Key \ {None}
           f == [k \in 1 .. Len(m) |-> m[k].key]
<1>1. IsFiniteSet(Key)
  <2> DEFINE g == [c \in Call |-> c.key]
  <2>1. g \in Surjection(Call, Key)
    BY DEF Key, Surjection
  <2> QED
    BY <2>1, BridgeAssumption, FS_Surjection
<1>2. IsFiniteSet(S)
  BY <1>1, FS_Subset
<1>3. IsFiniteSet(S \ {key}) /\ Cardinality(S \ {key}) = Cardinality(S) - 1
  BY <1>2, FS_RemoveElement
<1>4. \A k \in 1 .. Len(m) : m[k] \in Entry
  OBVIOUS
<1>5. f \in [1 .. Len(m) -> S \ {key}]
  BY <1>4 DEF OnePerKey, Entry
<1>6. f \in Injection(1 .. Len(m), S \ {key})
  BY <1>5 DEF OnePerKey, Injection, IsInjective
<1>7. Cardinality(1 .. Len(m)) <= Cardinality(S) - 1
  BY <1>3, <1>6, FS_Injection
<1>8. Len(m) \in Nat
  OBVIOUS
<1>9. Cardinality(1 .. Len(m)) = Len(m)
  BY <1>8, FS_Interval
<1>10. Cardinality(S) \in Nat
  BY <1>2, FS_CardinalityType
<1> QED
  BY <1>7, <1>8, <1>9, <1>10

-----------------------------------------------------------------------------
(* The inductive invariant of the bridge *)

LEMMA InitInv == Init => IInv
<1> SUFFICES ASSUME Init PROVE IInv
  OBVIOUS
<1>1. <<>> \in Seq(Call) /\ <<>> \in Seq(Entry) /\ Len(<<>>) = 0
  BY EmptySeq
<1>2. TypeOK
  <2>1. 0 \in Nat /\ 1 \in Nat /\ Len(<<>>) <= QueueCapacity /\ Len(<<>>) <= PerFrame
    BY <1>1, LimitsNat
  <2> QED
    BY <1>1, <2>1, LimitsNat, BridgeAssumption DEF Init, TypeOK
<1>3. Callers
  BY DEF Init, Callers
<1>4. Requests /\ Hand
  BY <1>1 DEF Init, Requests, Hand, Live
<1> QED
  BY <1>2, <1>3, <1>4 DEF IInv

(* Whatever ends a call takes nothing back that the app has started.        *)
LEMMA EndsInv ==
    ASSUME IInv, NEW c \in Call, NEW word \in {"none", "result", "refused"}, Ends(c, word),
           UNCHANGED <<serverVars, since, answer, frameVars, paperVars, left>>
    PROVE  IInv'
<1>1. TypeOK'
  BY DEF IInv, TypeOK, Ends, Cancelled, serverVars, frameVars, paperVars
<1>2. \A x \in Call : /\ switch'[x] # switch[x] => switch'[x] = "cancelled" /\ x = c
                                                    /\ switch[x] = "pending"
                      /\ caller'[x] = (IF x = c THEN "ended" ELSE caller[x])
                      /\ x # c => told'[x] = told[x]
                      /\ x = c => switch'[x] # "pending"
  BY DEF IInv, TypeOK, Ends, Cancelled
<1>3. Callers'
  BY <1>2 DEF IInv, Callers
<1>4. Requests'
  <2>1. \A i \in 1 .. Len(queue) : queue[i] \in Call
    BY DEF IInv, TypeOK
  <2>2. \A i \in 1 .. Len(batch) : batch[i] \in Call
    BY DEF IInv, TypeOK
  <2> QED
    BY <1>2, <2>1, <2>2 DEF IInv, Requests, Unsent, frameVars
<1>5. Hand'
  <2>1. step # "next" => batch[1] \in Call
    BY DEF IInv, TypeOK
  <2>2. Live' \subseteq Live
    BY <1>2 DEF Live
  <2> QED
    BY <1>2, <2>1, <2>2 DEF IInv, Hand, frameVars, serverVars
<1> QED
  BY <1>1, <1>3, <1>4, <1>5 DEF IInv

(* What the server's thread does.                                           *)
LEMMA ServerInv ==
    ASSUME IInv, Server
    PROVE  IInv'
<1> PICK c \in Call : Arrive(c) \/ Queues(c) \/ TimesOut(c) \/ Hears(c) \/ Leaves(c)
  BY DEF Server
<1>1. ASSUME NEW word \in {"none", "result", "refused"}, Ends(c, word),
             UNCHANGED <<serverVars, since, answer, frameVars, paperVars, left>>
      PROVE  IInv'
  BY <1>1, EndsInv
<1>2. ASSUME caller' = [caller EXCEPT ![c] = "arrived"], caller[c] = "new", server # "off",
             UNCHANGED <<told, switch, serverVars, since, answer, frameVars, paperVars, left>>
      PROVE  IInv'
  <2>1. TypeOK'
    BY <1>2 DEF IInv, TypeOK, serverVars, frameVars, paperVars
  <2>2. Callers'
    BY <1>2 DEF IInv, TypeOK, Callers
  <2>3. Requests'
    BY <1>2 DEF IInv, TypeOK, Requests, Unsent, frameVars
  <2>4. Hand'
    BY <1>2 DEF IInv, TypeOK, Hand, Live, frameVars, serverVars
  <2> QED
    BY <2>1, <2>2, <2>3, <2>4 DEF IInv
<1>3. CASE Arrive(c)
  BY <1>1, <1>2, <1>3 DEF Arrive
<1>4. CASE Queues(c)
  <2>1. CASE ~(Len(queue) < QueueCapacity)
    BY <1>1, <1>4, <2>1 DEF Queues, frameVars
  <2>2. CASE Len(queue) < QueueCapacity
    <3>1. /\ queue' = Append(queue, c) /\ awake' = TRUE
          /\ caller' = [caller EXCEPT ![c] = "waiting"]
          /\ since' = [since EXCEPT ![c] = generation]
          /\ caller[c] = "arrived"
          /\ UNCHANGED <<serverVars, told, switch, answer, batch, step, paperVars, left>>
      BY <1>4, <2>2 DEF Queues
    <3>2. /\ queue' \in Seq(Call) /\ Len(queue') = Len(queue) + 1
          /\ \A i \in 1 .. Len(queue) : queue'[i] = queue[i]
          /\ queue'[Len(queue) + 1] = c
      BY <3>1, AppendProperties DEF IInv, TypeOK
    <3>3. Len(queue) \in Nat
      BY DEF IInv, TypeOK
    <3>4. TypeOK'
      BY <2>2, <3>1, <3>2, <3>3, LimitsNat DEF IInv, TypeOK, serverVars, paperVars
    <3>5. Callers'
      BY <3>1 DEF IInv, TypeOK, Callers
    <3>6. Requests'
      <4>1. \A i \in 1 .. Len(queue') : i \in 1 .. Len(queue) \/ (i = Len(queue) + 1 /\ queue'[i] = c)
        BY <3>2, <3>3
      <4>2. \A i \in 1 .. Len(queue) : queue[i] # c /\ queue[i] \in Call
        BY <3>1 DEF IInv, TypeOK, Requests, Unsent
      <4>3. \A i \in 1 .. Len(batch) : batch[i] # c /\ batch[i] \in Call
        BY <3>1 DEF IInv, TypeOK, Requests, Unsent
      <4>4. /\ \A x \in Call : caller[x] \notin Unsent => caller'[x] \notin Unsent
            /\ caller'[c] \notin Unsent
        BY <3>1 DEF IInv, TypeOK, Unsent
      <4>5. switch[c] = "pending"
        BY <3>1 DEF IInv, Callers
      <4>6. \A i, j \in 1 .. Len(queue') : queue'[i] = queue'[j] => i = j
        BY <3>2, <4>1, <4>2 DEF IInv, Requests
      <4>7. \A i \in 1 .. Len(queue') : caller'[queue'[i]] \notin Unsent /\ switch'[queue'[i]] # "started"
        <5> SUFFICES ASSUME NEW i \in 1 .. Len(queue')
                     PROVE  caller'[queue'[i]] \notin Unsent /\ switch'[queue'[i]] # "started"
          OBVIOUS
        <5>1. CASE i \in 1 .. Len(queue)
          BY <3>1, <3>2, <4>2, <4>4, <5>1 DEF IInv, Requests
        <5>2. CASE queue'[i] = c
          BY <3>1, <4>4, <4>5, <5>2
        <5> QED
          BY <4>1, <5>1, <5>2
      <4>8. \A i \in 1 .. Len(queue'), j \in 1 .. Len(batch) : queue'[i] # batch[j]
        BY <3>2, <4>1, <4>3 DEF IInv, Requests
      <4>9. \A j \in 1 .. Len(batch) : caller'[batch[j]] \notin Unsent
        BY <4>3, <4>4 DEF IInv, Requests
      <4>10. /\ \A i, j \in 1 .. Len(batch) : batch[i] = batch[j] => i = j
             /\ \A j \in 1 .. Len(batch) : switch[batch[j]] = "started" => j = 1 /\ step = "running"
        BY DEF IInv, Requests
      <4> QED
        BY <3>1, <4>6, <4>7, <4>8, <4>9, <4>10 DEF Requests, Unsent
    <3>7. Hand'
      <4>1. Live' = Live /\ Live # {}
        BY <3>1 DEF IInv, TypeOK, Live
      <4> QED
        BY <3>1, <4>1 DEF IInv, Hand, serverVars
    <3> QED
      BY <3>4, <3>5, <3>6, <3>7 DEF IInv
  <2> QED
    BY <2>1, <2>2
<1>5. CASE TimesOut(c)
  <2>1. CASE caller[c] = "waiting" /\ switch[c] # "pending"
    <3>1. /\ caller' = [caller EXCEPT ![c] = "grace"]
          /\ UNCHANGED <<told, switch, serverVars, since, answer, frameVars, paperVars, left>>
      BY <1>5, <2>1 DEF TimesOut
    <3>2. TypeOK'
      BY <3>1 DEF IInv, TypeOK, serverVars, frameVars, paperVars
    <3>3. Callers'
      BY <2>1, <3>1 DEF IInv, TypeOK, Callers
    <3>4. Requests'
      BY <2>1, <3>1 DEF IInv, TypeOK, Requests, Unsent, frameVars
    <3>5. Hand'
      BY <2>1, <3>1 DEF IInv, TypeOK, Hand, Live, frameVars, serverVars
    <3> QED
      BY <3>2, <3>3, <3>4, <3>5 DEF IInv
  <2>2. CASE ~(caller[c] = "waiting" /\ switch[c] # "pending")
    BY <1>1, <1>5, <2>2 DEF TimesOut
  <2> QED
    BY <2>1, <2>2
<1>6. CASE Hears(c)
  BY <1>1, <1>6 DEF Hears, Heard
<1>7. CASE Leaves(c)
  BY <1>1, <1>7 DEF Leaves
<1> QED
  BY <1>3, <1>4, <1>5, <1>6, <1>7

(* A frame takes the oldest requests out of the queue.                      *)
LEMMA FrameInv ==
    ASSUME IInv, Frame
    PROVE  IInv'
<1> DEFINE n == Least(Len(queue), PerFrame)
<1>0. /\ Len(queue) \in Nat /\ n \in Nat /\ n <= Len(queue) /\ n <= PerFrame
      /\ queue \in Seq(Call) /\ Len(queue) <= QueueCapacity
  BY LimitsNat DEF IInv, TypeOK, Least
<1>1. /\ batch = <<>> /\ server # "stopping" /\ step = "next"
      /\ batch' = SubSeq(queue, 1, n)
      /\ queue' = SubSeq(queue, n + 1, Len(queue))
      /\ awake' = (n = PerFrame)
      /\ UNCHANGED <<serverVars, callVars, step, paperVars, left>>
  BY DEF Frame, Idle, IInv, TypeOK
<1> HIDE DEF n
<1>2. /\ batch' \in Seq(Call) /\ Len(batch') = n
      /\ \A i \in 1 .. n : batch'[i] = queue[i]
  BY <1>0, <1>1, SubSeqProperties
<1>3. /\ queue' \in Seq(Call) /\ Len(queue') = Len(queue) - n
      /\ \A i \in 1 .. Len(queue) - n : queue'[i] = queue[n + i]
  BY <1>0, <1>1, SubSeqProperties
<1>4. TypeOK'
  <2>1. Len(queue') <= QueueCapacity /\ Len(batch') <= PerFrame
    BY <1>0, <1>2, <1>3, LimitsNat
  <2>2. awake' \in BOOLEAN
    BY <1>1
  <2> QED
    BY <1>1, <1>2, <1>3, <2>1, <2>2 DEF IInv, TypeOK, serverVars, callVars, paperVars
<1>5. Callers'
  BY <1>1 DEF IInv, Callers, callVars
<1>6. Requests'
  <2> DEFINE from(i) == n + i
  <2>1. \A i \in 1 .. Len(queue') : /\ from(i) \in 1 .. Len(queue) /\ from(i) > n
                                    /\ queue'[i] = queue[from(i)]
    BY <1>0, <1>3
  <2>2. \A i, j \in 1 .. Len(queue') : from(i) = from(j) => i = j
    BY <1>0, <1>3
  <2>3. \A j \in 1 .. Len(batch') : /\ j \in 1 .. Len(queue) /\ j <= n
                                    /\ batch'[j] = queue[j]
    BY <1>0, <1>2
  <2>4. \A i \in 1 .. Len(queue'), j \in 1 .. Len(batch') : from(i) # j
    BY <1>0, <1>2, <1>3
  <2> HIDE DEF from
  <2>5. caller' = caller
    BY <1>1 DEF callVars
  <2>6. switch' = switch /\ step' = step
    BY <1>1 DEF callVars
  <2>7. \A i, j \in 1 .. Len(queue') : queue'[i] = queue'[j] => i = j
    BY <2>1, <2>2 DEF IInv, Requests
  <2>8. \A i, j \in 1 .. Len(batch') : batch'[i] = batch'[j] => i = j
    BY <2>3 DEF IInv, Requests
  <2>9. \A i \in 1 .. Len(queue'), j \in 1 .. Len(batch') : queue'[i] # batch'[j]
    BY <2>1, <2>3, <2>4 DEF IInv, Requests
  <2>10. \A i \in 1 .. Len(queue') : caller'[queue'[i]] \notin Unsent /\ switch'[queue'[i]] # "started"
    BY <2>1, <2>5, <2>6 DEF IInv, Requests
  <2>11. \A j \in 1 .. Len(batch') : caller'[batch'[j]] \notin Unsent /\ switch'[batch'[j]] # "started"
    BY <2>3, <2>5, <2>6 DEF IInv, Requests
  <2> QED
    BY <2>7, <2>8, <2>9, <2>10, <2>11 DEF Requests, Unsent
<1>7. Hand'
  BY <1>1 DEF IInv, Hand, Live, serverVars, callVars
<1> QED
  BY <1>4, <1>5, <1>6, <1>7 DEF IInv

-----------------------------------------------------------------------------
(* The app thread, one request at a time *)

LEMMA FirstOfBatch ==
    ASSUME TypeOK, batch # <<>>
    PROVE  /\ Head(batch) = batch[1] /\ batch[1] \in Call /\ 1 \in 1 .. Len(batch)
           /\ Tail(batch) \in Seq(Call) /\ Len(Tail(batch)) = Len(batch) - 1
           /\ \A i \in 1 .. Len(Tail(batch)) : Tail(batch)[i] = batch[i + 1]
           /\ Len(batch) \in Nat
<1>1. batch \in Seq(Call)
  BY DEF TypeOK
<1> QED
  BY <1>1, HeadTailProperties

(* Moving the switch of the first request, by what the app made of it.      *)
LEMMA SwitchInv ==
    ASSUME IInv, batch # <<>>, step \in {"next", "judged"},
           NEW c, c = batch[1],
           \/ step' = "judged" /\ switch' = switch /\ c.client \in allowed
           \/ step' = "refusing" /\ switch' = [switch EXCEPT ![c] = "cancelled"]
              /\ switch[c] # "started"
           \/ step' = "running" /\ switch' = [switch EXCEPT ![c] = "started"]
              /\ switch[c] = "pending",
           UNCHANGED <<serverVars, caller, told, since, answer, queue, awake, batch,
                       paperVars, left>>
    PROVE  IInv'
<1>0. c \in Call /\ 1 \in 1 .. Len(batch)
  BY FirstOfBatch DEF IInv
<1>1. TypeOK'
  BY <1>0 DEF IInv, TypeOK, serverVars, paperVars
<1>2. \A x \in Call : x # c => switch'[x] = switch[x]
  BY DEF IInv, TypeOK
<1>3. caller[c] \notin Unsent
  BY <1>0 DEF IInv, Requests
<1>4. switch'[c] = switch[c] \/ switch[c] # "started"
  BY <1>0 DEF IInv, TypeOK
<1>5. switch[c] = "pending" \/ switch'[c] = switch[c] \/ switch'[c] = "cancelled"
  BY <1>0 DEF IInv, TypeOK
<1>6. switch'[c] = "pending" => switch[c] = "pending"
  BY <1>0 DEF IInv, TypeOK
<1>7. Callers'
  <2> SUFFICES ASSUME NEW x \in Call
               PROVE  /\ caller[x] \in Unsent => switch'[x] = "pending" /\ answer[x] = "none"
                      /\ caller[x] # "ended" => told[x] = "none"
                      /\ caller[x] \in {"grace", "ended"} => switch'[x] # "pending"
                      /\ answer[x] = "refused" => switch'[x] = "cancelled"
                      /\ answer[x] \in {"placed", "already", "failed"} => switch'[x] = "started"
    BY DEF Callers, Unsent
  <2>1. CASE x # c
    BY <1>2, <2>1 DEF IInv, Callers, Unsent
  <2>2. CASE x = c
    <3>1. switch[c] \in {"pending", "started", "cancelled"}
      BY <1>0 DEF IInv, TypeOK
    <3>2. switch[c] = "cancelled" => switch'[c] = "cancelled"
      BY <1>0 DEF IInv, TypeOK
    <3> QED
      BY <1>0, <1>3, <1>4, <1>5, <1>6, <2>2, <3>1, <3>2 DEF IInv, Callers, Unsent
  <2> QED
    BY <2>1, <2>2
<1>8. Requests'
  <2>1. \A i \in 1 .. Len(queue) : queue[i] \in Call /\ queue[i] # c
    BY <1>0 DEF IInv, TypeOK, Requests
  <2>2. \A j \in 1 .. Len(batch) : batch[j] \in Call /\ (batch[j] = c => j = 1)
    BY <1>0 DEF IInv, TypeOK, Requests
  <2>3. switch'[c] = "started" => step' = "running"
    BY <1>0 DEF IInv, TypeOK, Requests
  <2>4. ASSUME NEW j \in 1 .. Len(batch), switch'[batch[j]] = "started"
        PROVE  j = 1 /\ step' = "running"
    BY <1>2, <2>2, <2>3, <2>4 DEF IInv, Requests
  <2>5. \A i \in 1 .. Len(queue) : switch'[queue[i]] # "started"
    BY <1>2, <2>1 DEF IInv, Requests
  <2> QED
    BY <2>4, <2>5 DEF IInv, Requests, Unsent
<1>9. Hand'
  BY <1>0 DEF IInv, TypeOK, Hand, Live, serverVars
<1> QED
  BY <1>1, <1>7, <1>8, <1>9 DEF IInv

(* Answering the first request, as its switch allows.                       *)
LEMMA AnswersInv ==
    ASSUME IInv, batch # <<>>, NEW word,
           \/ word = "refused" /\ switch[batch[1]] = "cancelled"
           \/ word \in {"placed", "already", "failed"} /\ switch[batch[1]] = "started",
           Answers(word), orders' \subseteq [id : Nat, by : Call], lastId' \in Nat,
           memory' \in Seq(Entry),
           UNCHANGED <<serverVars, caller, told, switch, since, queue, awake, left>>
    PROVE  IInv'
<1> DEFINE c == batch[1]
<1>0. /\ c \in Call /\ 1 \in 1 .. Len(batch) /\ batch' = Tail(batch) /\ step' = "next"
      /\ answer' = [answer EXCEPT ![c] = word]
      /\ Len(batch) \in Nat /\ batch' \in Seq(Call) /\ Len(batch') = Len(batch) - 1
      /\ \A i \in 1 .. Len(batch') : batch'[i] = batch[i + 1]
  BY FirstOfBatch DEF IInv, Answers
<1>1. caller[c] \notin Unsent
  BY <1>0 DEF IInv, Requests
<1> HIDE DEF c
<1>2. Len(batch') <= PerFrame
  BY <1>0, LimitsNat DEF IInv, TypeOK
<1>3. TypeOK'
  BY <1>0, <1>2 DEF IInv, TypeOK, serverVars
<1>4. Callers'
  <2>1. \A x \in Call : x # c => answer'[x] = answer[x]
    BY <1>0 DEF IInv, TypeOK
  <2>2. answer'[c] = word
    BY <1>0 DEF IInv, TypeOK
  <2> SUFFICES ASSUME NEW x \in Call
               PROVE  /\ caller[x] \in Unsent => switch[x] = "pending" /\ answer'[x] = "none"
                      /\ caller[x] # "ended" => told[x] = "none"
                      /\ caller[x] \in {"grace", "ended"} => switch[x] # "pending"
                      /\ answer'[x] = "refused" => switch[x] = "cancelled"
                      /\ answer'[x] \in {"placed", "already", "failed"} => switch[x] = "started"
    BY DEF Callers, Unsent
  <2>3. CASE x # c
    BY <2>1, <2>3 DEF IInv, Callers, Unsent
  <2>4. CASE x = c
    BY <1>1, <2>2, <2>4 DEF IInv, Callers, Unsent, c
  <2> QED
    BY <2>3, <2>4
<1>5. Requests'
  <2> DEFINE from(j) == j + 1
  <2>1. \A j \in 1 .. Len(batch') : from(j) \in 1 .. Len(batch) /\ batch'[j] = batch[from(j)]
    BY <1>0
  <2>2. \A i, j \in 1 .. Len(batch') : from(i) = from(j) => i = j
    BY <1>0
  <2>3. \A j \in 1 .. Len(batch') : from(j) # 1
    BY <1>0
  <2> HIDE DEF from
  <2>4. \A j \in 1 .. Len(batch') : caller[batch'[j]] \notin Unsent /\ switch[batch'[j]] # "started"
    BY <2>1, <2>3 DEF IInv, Requests
  <2>5. \A i, j \in 1 .. Len(batch') : batch'[i] = batch'[j] => i = j
    BY <2>1, <2>2 DEF IInv, Requests
  <2>6. \A i \in 1 .. Len(queue), j \in 1 .. Len(batch') : queue[i] # batch'[j]
    BY <2>1 DEF IInv, Requests
  <2> QED
    BY <2>4, <2>5, <2>6 DEF IInv, Requests, Unsent
<1>6. Hand'
  <2>1. server # "stopping"
    BY DEF IInv, Hand
  <2> QED
    BY <1>0, <2>1 DEF IInv, Hand, Live, serverVars
<1> QED
  BY <1>3, <1>4, <1>5, <1>6 DEF IInv

(* What the memory becomes.                                                 *)
LEMMA Remembered ==
    ASSUME TypeOK, NEW c \in Call, NEW id \in Nat
    PROVE  /\ Remember(c, id) \in Seq(Entry)
           /\ \A e : Has(Remember(c, id), e) =>
                 \/ Has(Forget(c.key), e)
                 \/ e = [key |-> c.key, order |-> c.order, id |-> id]
           /\ OnePerKey(memory) /\ c.key # None => OnePerKey(Remember(c, id))
           /\ Len(Forget(c.key)) < MemoryLimit =>
                 /\ Has(Remember(c, id), [key |-> c.key, order |-> c.order, id |-> id])
                 /\ \A e : Has(Forget(c.key), e) => Has(Remember(c, id), e)
<1> DEFINE new == [key |-> c.key, order |-> c.order, id |-> id]
           old == Forget(c.key)
           kept == IF Len(old) >= MemoryLimit THEN Tail(old) ELSE old
<1>1. memory \in Seq(Entry)
  BY DEF TypeOK
<1>2. new \in Entry
  BY DEF Entry, Key
<1>3. /\ old \in Seq(Entry)
      /\ OnePerKey(memory) => OnePerKey(old) /\ \A k \in 1 .. Len(old) : old[k].key # c.key
  BY <1>1, Forgotten
<1>4. Remember(c, id) = Append(kept, new)
  BY DEF Remember
<1> HIDE DEF old
<1>5. /\ kept \in Seq(Entry)
      /\ \/ kept = old
         \/ /\ Len(old) >= MemoryLimit /\ Len(kept) = Len(old) - 1
            /\ \A k \in 1 .. Len(kept) : kept[k] = old[k + 1]
  <2>1. CASE Len(old) >= MemoryLimit
    <3>1. old # <<>>
      BY <1>3, <2>1, LimitsNat, EmptySeq
    <3> QED
      BY <1>3, <2>1, <3>1, HeadTailProperties
  <2>2. CASE ~(Len(old) >= MemoryLimit)
    BY <1>3, <2>2
  <2> QED
    BY <2>1, <2>2
<1>6. Len(old) < MemoryLimit => kept = old
  BY <1>3, LimitsNat
<1> HIDE DEF kept
<1>7. \A k \in 1 .. Len(kept) : \E j \in 1 .. Len(old) : kept[k] = old[j]
  BY <1>3, <1>5
<1>8. OnePerKey(memory) => OnePerKey(kept) /\ \A k \in 1 .. Len(kept) : kept[k].key # c.key
  <2> SUFFICES ASSUME OnePerKey(memory)
               PROVE  OnePerKey(kept) /\ \A k \in 1 .. Len(kept) : kept[k].key # c.key
    OBVIOUS
  <2>1. OnePerKey(old) /\ \A k \in 1 .. Len(old) : old[k].key # c.key
    BY <1>3
  <2>2. CASE kept = old
    BY <2>1, <2>2
  <2>3. CASE /\ Len(kept) = Len(old) - 1
             /\ \A k \in 1 .. Len(kept) : kept[k] = old[k + 1]
    <3>1. \A k \in 1 .. Len(kept) : k + 1 \in 1 .. Len(old) /\ kept[k] = old[k + 1]
      BY <1>3, <1>5, <2>3
    <3> QED
      BY <2>1, <3>1 DEF OnePerKey
  <2> QED
    BY <1>5, <2>2, <2>3
<1> DEFINE m == Append(kept, new)
<1>9. /\ m \in Seq(Entry) /\ Len(m) = Len(kept) + 1 /\ m[Len(kept) + 1] = new
      /\ \A k \in 1 .. Len(kept) : m[k] = kept[k]
  BY <1>2, <1>5, AppendProperties
<1>10. Len(kept) \in Nat
  BY <1>5
<1> HIDE DEF m, new
<1>11. \A k \in 1 .. Len(m) : k \in 1 .. Len(kept) \/ k = Len(kept) + 1
  BY <1>9, <1>10
<1>12. \A e : Has(m, e) => Has(old, e) \/ e = new
  BY <1>7, <1>9, <1>11 DEF Has
<1>13. Len(kept) + 1 \in 1 .. Len(m) /\ \A k \in 1 .. Len(kept) : k \in 1 .. Len(m)
  BY <1>9, <1>10
<1>14. OnePerKey(memory) /\ c.key # None => OnePerKey(m)
  <2> SUFFICES ASSUME OnePerKey(memory), c.key # None
               PROVE  OnePerKey(m)
    OBVIOUS
  <2>1. new.key = c.key
    BY DEF new
  <2> QED
    BY <1>8, <1>9, <1>11, <1>13, <2>1 DEF OnePerKey
<1>15. Len(old) < MemoryLimit => Has(m, new) /\ \A e : Has(old, e) => Has(m, e)
  BY <1>6, <1>9, <1>13 DEF Has
<1> QED
  BY <1>4, <1>9, <1>12, <1>14, <1>15 DEF m, old, new

LEMMA RunsInv ==
    ASSUME IInv, Runs
    PROVE  IInv'
<1> PICK c \in Call : Place(c) \/ PlacedBefore(c) \/ Fails(c)
  BY DEF Runs
<1>1. step = "running"
  BY DEF Place, PlacedBefore, Fails
<1>2. batch # <<>>
  BY <1>1 DEF IInv, TypeOK
<1>3. switch[batch[1]] = "started"
  BY <1>1 DEF IInv, Hand
<1>4. lastId + 1 \in Nat /\ memory \in Seq(Entry) /\ orders \subseteq [id : Nat, by : Call]
  BY DEF IInv, TypeOK
<1>5. CASE Place(c)
  <2>1. memory' \in Seq(Entry)
    BY <1>4, <1>5, Remembered DEF Place, IInv
  <2>2. orders' \subseteq [id : Nat, by : Call] /\ lastId' \in Nat
    BY <1>4, <1>5 DEF Place
  <2> QED
    BY <1>2, <1>3, <1>5, <2>1, <2>2, AnswersInv DEF Place
<1>6. CASE PlacedBefore(c)
  <2>1. UNCHANGED paperVars /\ lastId \in Nat
    BY <1>6 DEF PlacedBefore, IInv, TypeOK
  <2>2. orders' = orders /\ lastId' = lastId /\ memory' = memory
    BY <2>1 DEF paperVars
  <2> QED
    BY <1>2, <1>3, <1>4, <1>6, <2>1, <2>2, AnswersInv DEF PlacedBefore
<1>7. CASE Fails(c)
  <2>1. memory' \in Seq(Entry)
    BY <1>4, <1>7, Forgotten DEF Fails
  <2>2. lastId \in Nat
    BY DEF IInv, TypeOK
  <2> QED
    BY <1>2, <1>3, <1>4, <1>7, <2>1, <2>2, AnswersInv DEF Fails
<1> QED
  BY <1>5, <1>6, <1>7

LEMMA HandlingInv ==
    ASSUME IInv, Handling
    PROVE  IInv'
<1>1. ASSUME NEW past \in BOOLEAN, Judge(past) PROVE IInv'
  <2>1. batch # <<>> /\ step = "next"
    BY <1>1 DEF Judge
  <2>2. Head(batch) = batch[1] /\ batch[1] \in Call /\ 1 \in 1 .. Len(batch)
    BY <2>1, FirstOfBatch DEF IInv
  <2>3. switch[batch[1]] # "started"
    BY <2>1, <2>2 DEF IInv, Requests
  <2>4. switch \in [Call -> {"pending", "started", "cancelled"}]
    BY DEF IInv, TypeOK
  <2>5. [switch EXCEPT ![batch[1]] = Cancelled(batch[1])]
            = [switch EXCEPT ![batch[1]] = "cancelled"]
    BY <2>2, <2>3, <2>4 DEF Cancelled
  <2>6. UNCHANGED <<serverVars, caller, told, since, answer, queue, awake, batch,
                    paperVars, left>>
    BY <1>1 DEF Judge
  <2>7. CASE past \/ Unwanted(batch[1])
    <3>1. step' = "refusing" /\ switch' = [switch EXCEPT ![batch[1]] = "cancelled"]
      BY <1>1, <2>2, <2>5, <2>7 DEF Judge
    <3> QED
      BY <2>1, <2>3, <2>6, <3>1, SwitchInv
  <2>8. CASE ~(past \/ Unwanted(batch[1]))
    <3>1. step' = "judged" /\ switch' = switch
      BY <1>1, <2>2, <2>8 DEF Judge
    <3>2. batch[1].client \in allowed
      BY <2>8 DEF Unwanted
    <3> QED
      BY <2>1, <2>6, <3>1, <3>2, SwitchInv
  <2> QED
    BY <2>7, <2>8
<1>2. CASE Start
  <2>1. batch # <<>> /\ step = "judged"
    BY <1>2 DEF Start, IInv, TypeOK
  <2>2. Head(batch) = batch[1] /\ batch[1] \in Call /\ 1 \in 1 .. Len(batch)
    BY <2>1, FirstOfBatch DEF IInv
  <2>3. switch[batch[1]] # "started"
    BY <2>1, <2>2 DEF IInv, Requests
  <2>4. switch \in [Call -> {"pending", "started", "cancelled"}]
    BY DEF IInv, TypeOK
  <2>5. UNCHANGED <<serverVars, caller, told, since, answer, queue, awake, batch,
                    paperVars, left>>
    BY <1>2 DEF Start
  <2>6. CASE switch[batch[1]] = "pending"
    <3>1. step' = "running" /\ switch' = [switch EXCEPT ![batch[1]] = "started"]
      BY <1>2, <2>2, <2>6 DEF Start
    <3> QED
      BY <2>1, <2>5, <2>6, <3>1, SwitchInv
  <2>7. CASE switch[batch[1]] # "pending"
    <3>1. step' = "refusing" /\ switch' = switch
      BY <1>2, <2>2, <2>7 DEF Start
    <3>2. switch[batch[1]] = "cancelled"
      BY <2>2, <2>3, <2>4, <2>7
    <3>3. switch' = [switch EXCEPT ![batch[1]] = "cancelled"]
      BY <2>2, <2>4, <3>1, <3>2
    <3> QED
      BY <2>1, <2>3, <2>5, <3>1, <3>3, SwitchInv
  <2> QED
    BY <2>6, <2>7
<1>3. CASE Refuse
  <2>1. step = "refusing" /\ batch # <<>>
    BY <1>3 DEF Refuse, IInv, TypeOK
  <2>2. switch[batch[1]] = "cancelled"
    BY <2>1 DEF IInv, Hand
  <2>3. orders' = orders /\ lastId' = lastId /\ memory' = memory
    BY <1>3 DEF Refuse, paperVars
  <2>4. orders \subseteq [id : Nat, by : Call] /\ lastId \in Nat /\ memory \in Seq(Entry)
    BY DEF IInv, TypeOK
  <2> QED
    BY <1>3, <2>1, <2>2, <2>3, <2>4, AnswersInv DEF Refuse
<1>4. CASE Runs
  BY <1>4, RunsInv
<1> QED
  BY <1>1, <1>2, <1>3, <1>4 DEF Handling

LEMMA NextInv == IInv /\ [Next]_vars => IInv'
<1> SUFFICES ASSUME IInv, [Next]_vars PROVE IInv'
  OBVIOUS
<1>1. CASE Server
  BY <1>1, ServerInv
<1>2. CASE Frame
  BY <1>2, FrameInv
<1>3. CASE Handling
  BY <1>3, HandlingInv
<1>4. ASSUME NEW starts \in BOOLEAN, Joined(starts) PROVE IInv'
  <2>1. TypeOK'
    BY <1>4 DEF Joined, IInv, TypeOK, callVars, frameVars, paperVars
  <2>2. Callers' /\ Requests'
    BY <1>4 DEF Joined, IInv, Callers, Requests, callVars, frameVars
  <2>3. Hand'
    BY <1>4 DEF Joined, IInv, Hand, Live, callVars, frameVars
  <2> QED
    BY <2>1, <2>2, <2>3 DEF IInv
<1>5. CASE User
  <2>1. left > 0 /\ left' = left - 1 /\ batch = <<>> /\ server # "stopping"
    BY <1>5 DEF User, Permit, Switches, Resets, Changes, Idle
  <2>2. left' \in Nat /\ lastId + 1 \in Nat /\ generation + 1 \in Nat
    BY <2>1 DEF IInv, TypeOK
  <2>3. step = "next"
    BY <2>1 DEF IInv, TypeOK
  <2>4. ASSUME NEW clients \in SUBSET Client, Permit(clients) PROVE IInv'
    <3>1. TypeOK'
      BY <2>2, <2>4 DEF Permit, IInv, TypeOK, callVars, frameVars, paperVars
    <3>2. Callers' /\ Requests' /\ Hand'
      BY <2>1, <2>3, <2>4
        DEF Permit, IInv, Callers, Requests, Hand, Live, callVars, frameVars
    <3> QED
      BY <3>1, <3>2 DEF IInv
  <2>5. ASSUME NEW on \in BOOLEAN, Switches(on) PROVE IInv'
    <3>1. TypeOK'
      BY <2>2, <2>5 DEF Switches, IInv, TypeOK, callVars, frameVars, paperVars
    <3>2. Callers' /\ Requests'
      BY <2>5 DEF Switches, IInv, Callers, Requests, callVars, frameVars
    <3>3. Hand'
      BY <2>1, <2>3, <2>5 DEF Switches, IInv, TypeOK, Hand, Live, callVars, frameVars
    <3> QED
      BY <3>1, <3>2, <3>3 DEF IInv
  <2>6. ASSUME NEW again \in BOOLEAN, Resets(again) PROVE IInv'
    <3>1. lastId' \in Nat
      BY <2>2, <2>6 DEF Resets
    <3>2. TypeOK'
      BY <2>2, <2>6, <3>1 DEF Resets, IInv, TypeOK, serverVars, callVars, frameVars
    <3>3. Callers' /\ Requests' /\ Hand'
      BY <2>1, <2>3, <2>6
        DEF Resets, IInv, Callers, Requests, Hand, Live, serverVars, callVars, frameVars
    <3> QED
      BY <3>2, <3>3 DEF IInv
  <2> QED
    BY <1>5, <2>4, <2>5, <2>6 DEF User
<1>6. CASE UNCHANGED vars
  BY <1>6 DEF vars, IInv, TypeOK, Callers, Requests, Hand, Live, serverVars, callVars,
              frameVars, paperVars
<1> QED
  BY <1>1, <1>2, <1>3, <1>4, <1>5, <1>6 DEF Next

-----------------------------------------------------------------------------
(* Theorems about the bridge *)

(* The invariant holds all along, whatever the limits.                      *)
THEOREM Invariance == Spec => []IInv
<1> QED
  BY InitInv, NextInv, PTL DEF Spec

(* Every variable keeps its type: neither the queue nor a frame ever holds  *)
(* more than its capacity.                                                  *)
THEOREM Typed == Spec => []TypeOK
<1>1. IInv => TypeOK
  BY DEF IInv
<1> QED
  BY <1>1, Invariance, PTL

(* Only a command that is still wanted is started: its caller waits, its    *)
(* client is permitted, its server runs.                                    *)
THEOREM OnlyWanted == Spec => StartsWanted
<1>1. IInv /\ [Next]_vars =>
        [\A c \in Call :
            switch'[c] = "started" /\ switch[c] # "started" =>
                /\ caller[c] = "waiting"
                /\ server = "running"
                /\ c.client \in allowed]_vars
  <2> SUFFICES ASSUME IInv, Next, NEW c \in Call,
                      switch'[c] = "started", switch[c] # "started"
               PROVE  caller[c] = "waiting" /\ server = "running" /\ c.client \in allowed
    OBVIOUS
  <2>1. switch \in [Call -> {"pending", "started", "cancelled"}]
    BY DEF IInv, TypeOK
  <2>2. ASSUME NEW x \in Call, NEW word, Ends(x, word) PROVE FALSE
    BY <2>1, <2>2 DEF Ends, Cancelled
  <2>3. ~Server
    BY <2>2 DEF Server, Arrive, Queues, TimesOut, Hears, Leaves
  <2>4. ~Frame /\ ~User /\ ~Runs /\ ~Refuse /\ ~\E starts \in BOOLEAN : Joined(starts)
    BY DEF Frame, User, Permit, Switches, Resets, Runs, Place, PlacedBefore, Fails,
           Refuse, Joined, callVars
  <2>5. ~\E past \in BOOLEAN : Judge(past)
    BY <2>1 DEF Judge, Cancelled
  <2>6. Start
    BY <2>3, <2>4, <2>5 DEF Next, Handling
  <2>7. step = "judged" /\ batch # <<>>
    BY <2>6 DEF Start, IInv, TypeOK
  <2>8. Head(batch) = batch[1] /\ batch[1] \in Call /\ 1 \in 1 .. Len(batch)
    BY <2>7, FirstOfBatch DEF IInv
  <2>9. c = batch[1] /\ switch[c] = "pending"
    BY <2>1, <2>6, <2>8 DEF Start
  <2>10. caller[c] \notin Unsent
    BY <2>8, <2>9 DEF IInv, Requests
  <2>11. caller[c] = "waiting"
    BY <2>9, <2>10 DEF IInv, TypeOK, Callers, Unsent
  <2>12. server = "running"
    BY <2>7, <2>11 DEF IInv, TypeOK, Hand, Live
  <2> QED
    BY <2>7, <2>9, <2>11, <2>12 DEF IInv, Hand
<1> QED
  BY <1>1, Invariance, PTL DEF Spec, StartsWanted

-----------------------------------------------------------------------------
(* The bridge implements CallOnce *)

Fates == [c \in Call |-> Fate(c)]

(* When no switch moves and nobody is told anything, nothing has happened.  *)
LEMMA Unchanged ==
    ASSUME UNCHANGED <<told, switch>>
    PROVE  Fates' = Fates /\ told' = told
BY DEF Fates, Fate

(* The switch of one call moves, as the caller's own (`Ends`).              *)
LEMMA EndsMaps ==
    ASSUME IInv, NEW c \in Call, caller[c] # "ended",
           NEW word \in {"none", "result", "refused"}, Ends(c, word),
           word = "refused" => switch[c] # "started",
           word = "result" => switch[c] = "started"
    PROVE  Once!Next \/ (Fates' = Fates /\ told' = told)
<1>1. /\ told[c] = "none" /\ told' = [told EXCEPT ![c] = word]
      /\ told \in [Call -> {"none", "result", "refused"}]
      /\ switch \in [Call -> {"pending", "started", "cancelled"}]
      /\ switch' = [switch EXCEPT ![c] = Cancelled(c)]
  BY DEF IInv, TypeOK, Callers, Ends
<1>2. CASE switch[c] = "started"
  <2>1. Fates' = Fates
    BY <1>1, <1>2 DEF Fates, Fate, Cancelled
  <2>2. CASE word = "none"
    BY <1>1, <2>1, <2>2
  <2>3. CASE word = "result"
    <3>1. Once!Tell(c)
      BY <1>1, <1>2, <2>1, <2>3 DEF Once!Tell, Fates, Fate
    <3> QED
      BY <3>1 DEF Once!Next
  <2> QED
    BY <1>2, <2>2, <2>3
<1>3. CASE switch[c] # "started"
  <2>1. Fates' = [Fates EXCEPT ![c] = "void"] /\ Fates[c] # "ran"
    BY <1>1, <1>3 DEF Fates, Fate, Cancelled
  <2>2. CASE word = "none"
    <3>1. told' = told
      BY <1>1, <2>2
    <3>2. CASE switch[c] = "pending"
      <4>1. Once!GiveUp(c)
        BY <1>1, <2>1, <3>1, <3>2 DEF Once!GiveUp, Fates, Fate
      <4> QED
        BY <4>1 DEF Once!Next
    <3>3. CASE switch[c] = "cancelled"
      BY <1>1, <3>1, <3>3 DEF Fates, Fate, Cancelled
    <3> QED
      BY <1>1, <1>3, <3>2, <3>3
  <2>3. CASE word = "refused"
    <3>1. Once!Refuse(c)
      BY <1>1, <2>1, <2>3 DEF Once!Refuse, Fates
    <3> QED
      BY <3>1 DEF Once!Next
  <2> QED
    BY <1>3, <2>2, <2>3
<1> QED
  BY <1>2, <1>3

LEMMA StepMaps ==
    ASSUME Slow = FALSE, IInv, [Next]_vars
    PROVE  Once!Next \/ (Fates' = Fates /\ told' = told)
<1>0. switch \in [Call -> {"pending", "started", "cancelled"}]
  BY DEF IInv, TypeOK
<1>1. CASE Server
  <2> PICK c \in Call : Arrive(c) \/ Queues(c) \/ TimesOut(c) \/ Hears(c) \/ Leaves(c)
    BY <1>1 DEF Server
  <2>1. caller[c] \in {"new", "arrived"} => switch[c] = "pending"
    BY DEF IInv, Callers
  <2>2. CASE Arrive(c)
    BY <2>1, <2>2, EndsMaps, Unchanged DEF Arrive
  <2>3. CASE Queues(c)
    BY <2>1, <2>3, EndsMaps, Unchanged DEF Queues
  <2>4. CASE TimesOut(c)
    <3>1. CASE caller[c] = "waiting" /\ switch[c] # "pending"
      BY <2>4, <3>1, Unchanged DEF TimesOut
    <3>2. CASE ~(caller[c] = "waiting" /\ switch[c] # "pending")
      <4>1. caller[c] = "waiting" /\ switch[c] = "pending" /\ Ends(c, "refused")
        BY <2>4, <3>2 DEF TimesOut
      <4> QED
        BY <4>1, EndsMaps
    <3> QED
      BY <3>1, <3>2
  <2>5. CASE Hears(c)
    <3>1. /\ answer[c] \in {"placed", "already", "failed", "refused"}
          /\ caller[c] # "ended" /\ Ends(c, Heard(c))
      BY <2>5 DEF Hears, IInv, TypeOK
    <3>2. /\ answer[c] = "refused" => switch[c] = "cancelled"
          /\ answer[c] # "refused" => switch[c] = "started"
      BY <3>1 DEF IInv, Callers
    <3>3. CASE answer[c] = "refused"
      BY <3>1, <3>2, <3>3, EndsMaps DEF Heard
    <3>4. CASE answer[c] # "refused"
      BY <3>1, <3>2, <3>4, EndsMaps DEF Heard
    <3> QED
      BY <3>3, <3>4
  <2>6. CASE Leaves(c)
    BY <2>6, EndsMaps DEF Leaves, Live
  <2> QED
    BY <2>2, <2>3, <2>4, <2>5, <2>6
<1>2. ASSUME NEW past \in BOOLEAN, Judge(past)
      PROVE  Once!Next \/ (Fates' = Fates /\ told' = told)
  <2>1. batch # <<>> /\ step = "next" /\ told' = told
    BY <1>2 DEF Judge
  <2>2. PICK c \in Call : c = Head(batch)
    BY <2>1, FirstOfBatch DEF IInv
  <2>3. switch' = switch \/ switch' = [switch EXCEPT ![c] = Cancelled(c)]
    BY <1>2, <2>2 DEF Judge
  <2>4. CASE switch' = switch
    BY <2>1, <2>4, Unchanged
  <2>5. CASE switch[c] # "pending" /\ switch' = [switch EXCEPT ![c] = Cancelled(c)]
    <3>1. switch' = switch
      BY <1>0, <2>5 DEF Cancelled
    <3> QED
      BY <2>1, <3>1, Unchanged
  <2>6. CASE switch[c] = "pending" /\ switch' = [switch EXCEPT ![c] = Cancelled(c)]
    <3>1. Fates' = [Fates EXCEPT ![c] = "void"] /\ Fates[c] = "open"
      BY <1>0, <2>6 DEF Fates, Fate, Cancelled
    <3>2. Once!GiveUp(c)
      BY <2>1, <3>1 DEF Once!GiveUp, Fates
    <3> QED
      BY <3>2 DEF Once!Next
  <2> QED
    BY <2>3, <2>4, <2>5, <2>6
<1>3. CASE Start
  <2>1. batch # <<>> /\ told' = told
    BY <1>3 DEF Start, IInv, TypeOK
  <2>2. PICK c \in Call : c = Head(batch)
    BY <2>1, FirstOfBatch DEF IInv
  <2>3. CASE switch[c] = "pending"
    <3>1. switch' = [switch EXCEPT ![c] = "started"]
      BY <1>3, <2>2, <2>3 DEF Start
    <3>2. Fates' = [Fates EXCEPT ![c] = "ran"] /\ Fates[c] = "open"
      BY <1>0, <2>3, <3>1 DEF Fates, Fate
    <3>3. Once!Run(c)
      BY <2>1, <3>2 DEF Once!Run, Fates
    <3> QED
      BY <3>3 DEF Once!Next
  <2>4. CASE switch[c] # "pending"
    BY <1>3, <2>1, <2>2, <2>4, Unchanged DEF Start
  <2> QED
    BY <2>3, <2>4
<1>4. CASE Frame \/ Refuse \/ Runs \/ User \/ \E starts \in BOOLEAN : Joined(starts)
  <2>1. UNCHANGED <<told, switch>>
    BY <1>4 DEF Frame, Refuse, Runs, Place, PlacedBefore, Fails, User, Permit, Switches,
                Resets, Joined, callVars
  <2> QED
    BY <2>1, Unchanged
<1>5. CASE UNCHANGED vars
  BY <1>5, Unchanged DEF vars, callVars
<1> QED
  BY <1>1, <1>2, <1>3, <1>4, <1>5 DEF Next, Handling

(* As long as no command takes longer than STARTED_GRACE, a call that is    *)
(* told it was refused or timed out has not run and never will, a command   *)
(* runs once at most, and a result is told only of one that ran.            *)
THEOREM Implements == ASSUME Slow = FALSE PROVE Spec => Truthful
<1>1. Init => Once!Init
  BY DEF Init, Once!Init, Fate
<1>2. IInv /\ [Next]_vars => [Once!Next]_<<[c \in Call |-> Fate(c)], told>>
  BY StepMaps DEF Fates
<1> QED
  BY <1>1, <1>2, Invariance, PTL DEF Spec, Truthful, Once!Spec

-----------------------------------------------------------------------------
(* The records of request_ids *)

(* Ids go up, so that a record and an order with its id belong together.    *)
Records ==
    /\ OnePerKey(memory)
    /\ \A o \in orders : o.id <= lastId
    /\ \A o, p \in orders : o.id = p.id => o = p
    /\ \A e : Has(memory, e) => e.id <= lastId
    /\ \A e : \A o \in orders :
          Has(memory, e) /\ o.id = e.id => o.by.key = e.key /\ o.by.order = e.order

(* Each order that was placed under a request_id has its record.            *)
Kept ==
    \A o \in orders :
        o.by.key # None => \E e : Has(memory, e) /\ e.key = o.by.key /\ e.id = o.id

LEMMA EntryOf ==
    ASSUME TypeOK, NEW e, Has(memory, e)
    PROVE  e \in Entry /\ e.id \in Nat
<1>1. memory \in Seq(Entry)
  BY DEF TypeOK
<1>2. e \in Entry
  BY <1>1 DEF Has
<1> QED
  BY <1>2 DEF Entry

(* Steps that touch neither the orders nor their records.                   *)
LEMMA PaperAlone ==
    ASSUME IInv, [Next]_vars
    PROVE  \/ UNCHANGED paperVars
           \/ \E c \in Call : Place(c) \/ Fails(c)
           \/ \E again \in BOOLEAN : Resets(again)
<1>1. CASE Server
  BY <1>1 DEF Server, Arrive, Queues, TimesOut, Hears, Leaves
<1>2. CASE Frame \/ Handling
  BY <1>2 DEF Frame, Handling, Judge, Start, Refuse, Runs, PlacedBefore
<1>3. CASE User \/ \E starts \in BOOLEAN : Joined(starts)
  BY <1>3 DEF User, Permit, Switches, Joined
<1>4. CASE UNCHANGED vars
  BY <1>4 DEF vars
<1> QED
  BY <1>1, <1>2, <1>3, <1>4 DEF Next

LEMMA RecordsStep ==
    ASSUME Recreates = FALSE, IInv, Records, [Next]_vars
    PROVE  Records'
<1>0. TypeOK /\ lastId \in Nat /\ memory \in Seq(Entry) /\ \A o \in orders : o.id \in Nat
  BY DEF IInv, TypeOK
<1>1. CASE UNCHANGED paperVars
  BY <1>1 DEF Records, OnePerKey, Has, paperVars
<1>2. ASSUME NEW c \in Call, Place(c) PROVE Records'
  <2> DEFINE id == lastId + 1
             new == [key |-> c.key, order |-> c.order, id |-> id]
             order == [id |-> id, by |-> c]
  <2>1. id \in Nat /\ lastId' = id /\ orders' = orders \cup {order}
        /\ memory' = (IF c.key = None THEN memory ELSE Remember(c, id))
    BY <1>0, <1>2 DEF Place
  <2>2. /\ OnePerKey(memory')
        /\ \A e : Has(memory', e) => Has(memory, e) \/ e = new
    <3>1. CASE c.key = None
      BY <2>1, <3>1 DEF Records
    <3>2. CASE c.key # None
      <4>1. memory' = Remember(c, id)
        BY <2>1, <3>2
      <4> HIDE DEF id
      <4>0. /\ \A e : Has(Remember(c, id), e) => Has(Forget(c.key), e) \/ e = new
            /\ OnePerKey(memory) /\ c.key # None => OnePerKey(Remember(c, id))
        BY <1>0, <2>1, Remembered, Zenon
      <4> HIDE DEF new
      <4>2. \A e : Has(memory', e) => Has(Forget(c.key), e) \/ e = new
        BY <4>0, <4>1
      <4>3. OnePerKey(memory')
        BY <4>0, <3>2, <4>1 DEF Records
      <4>4. \A e : Has(Forget(c.key), e) => Has(memory, e)
        BY <1>0, Forgotten
      <4> QED
        BY <4>2, <4>3, <4>4
    <3> QED
      BY <3>1, <3>2
  <2>3. \A o \in orders : o.id <= lastId /\ o.id # id
    BY <1>0 DEF Records
  <2>4. \A e : Has(memory, e) => e.id <= lastId /\ e.id # id /\ e.id \in Nat
    BY <1>0, EntryOf DEF Records
  <2>5. new.key = c.key /\ new.order = c.order /\ new.id = id /\ order.id = id /\ order.by = c
    OBVIOUS
  <2>6. lastId <= id /\ \A x \in Nat : x <= lastId => x <= id
    BY <1>0
  <2> HIDE DEF id, new, order
  <2>7. \A o \in orders' : o.id <= lastId'
    BY <1>0, <2>1, <2>3, <2>5, <2>6
  <2>8. \A o, p \in orders' : o.id = p.id => o = p
    BY <2>1, <2>3, <2>5 DEF Records
  <2>9. \A e : Has(memory', e) => e.id <= lastId'
    BY <2>1, <2>2, <2>4, <2>5, <2>6
  <2>10. ASSUME NEW e, NEW o \in orders', Has(memory', e), o.id = e.id
         PROVE  o.by.key = e.key /\ o.by.order = e.order
    <3>1. o \in orders \/ o = order
      BY <2>1
    <3>2. Has(memory, e) \/ e = new
      BY <2>2, <2>10
    <3>3. CASE o \in orders /\ Has(memory, e)
      BY <2>10, <3>3 DEF Records
    <3>4. CASE o = order /\ e = new
      BY <2>5, <3>4
    <3>5. CASE o \in orders /\ e = new
      BY <2>3, <2>5, <2>10, <3>5
    <3>6. CASE o = order /\ Has(memory, e)
      BY <2>4, <2>5, <2>10, <3>6
    <3> QED
      BY <3>1, <3>2, <3>3, <3>4, <3>5, <3>6
  <2>11. \A e : \A o \in orders' :
            Has(memory', e) /\ o.id = e.id => o.by.key = e.key /\ o.by.order = e.order
    BY <2>10
  <2>12. \A e : Has(memory, e)' <=> Has(memory', e)
    BY DEF Has
  <2> QED
    BY <2>2, <2>7, <2>8, <2>9, <2>11 DEF Records, OnePerKey, Has
<1>3. ASSUME NEW c \in Call, Fails(c) PROVE Records'
  <2>1. orders' = orders /\ lastId' = lastId /\ (memory' = memory \/ memory' = Forget(c.key))
    BY <1>3 DEF Fails
  <2>2. OnePerKey(memory') /\ \A e : Has(memory', e) => Has(memory, e)
    BY <1>0, <2>1, Forgotten DEF Records
  <2> QED
    BY <2>1, <2>2 DEF Records, OnePerKey, Has
<1>4. ASSUME NEW again \in BOOLEAN, Resets(again) PROVE Records'
  <2>1. orders' = {} /\ lastId' = lastId + 1 /\ memory' = memory
    BY <1>4 DEF Resets
  <2>2. \A e : Has(memory, e) => e.id <= lastId + 1
    BY <1>0, EntryOf DEF Records
  <2> QED
    BY <2>1, <2>2 DEF Records, OnePerKey, Has
<1> QED
  BY <1>1, <1>2, <1>3, <1>4, PaperAlone

(* The calls that find their request_id taken, and those that do not.       *)
LEMMA RecalledEntry ==
    ASSUME TypeOK, NEW c \in Call, c.key # None
    PROVE  Recalled(c) = {} <=>
               \A e : Has(memory, e) /\ e.key = c.key => \A o \in orders : o.id # e.id
<1>1. memory \in Seq(Entry)
  BY DEF TypeOK
<1>2. DOMAIN memory = 1 .. Len(memory)
  BY <1>1
<1> QED
  BY <1>2 DEF Recalled, Has

LEMMA KeptStep ==
    ASSUME Recreates = FALSE, Cardinality(Key \ {None}) <= MemoryLimit,
           IInv, Records, Kept, [Next]_vars
    PROVE  Kept'
<1>0. TypeOK /\ memory \in Seq(Entry)
  BY DEF IInv, TypeOK
<1>1. CASE UNCHANGED paperVars
  BY <1>1 DEF Kept, Has, paperVars
<1>2. ASSUME NEW c \in Call, c.key # None, Recalled(c) = {},
             NEW o \in orders, o.by.key # None
      PROVE  \E e : Has(Forget(c.key), e) /\ e.key = o.by.key /\ e.id = o.id
  <2>1. PICK e : Has(memory, e) /\ e.key = o.by.key /\ e.id = o.id
    BY <1>2 DEF Kept
  <2>2. e.key # c.key
    BY <1>0, <1>2, <2>1, RecalledEntry
  <2> QED
    BY <1>0, <2>1, <2>2, Forgotten
<1>3. ASSUME NEW c \in Call, Place(c) PROVE Kept'
  <2> DEFINE id == lastId + 1
             new == [key |-> c.key, order |-> c.order, id |-> id]
             order == [id |-> id, by |-> c]
  <2>1. /\ id \in Nat /\ orders' = orders \cup {order} /\ Recalled(c) = {}
        /\ memory' = (IF c.key = None THEN memory ELSE Remember(c, id))
    BY <1>0, <1>3 DEF Place, TypeOK
  <2>2. new.key = c.key /\ new.id = id /\ order.id = id /\ order.by = c
    OBVIOUS
  <2> HIDE DEF id
  <2> SUFFICES ASSUME NEW o \in orders', o.by.key # None
               PROVE  \E e : Has(memory', e) /\ e.key = o.by.key /\ e.id = o.id
    BY DEF Kept, Has
  <2>3. CASE c.key = None
    <3>1. memory' = memory /\ o \in orders
      BY <2>1, <2>2, <2>3
    <3> QED
      BY <3>1 DEF Kept
  <2>4. CASE c.key # None
    <3>1. memory' = Remember(c, id)
      BY <2>1, <2>4
    <3>2. /\ Forget(c.key) \in Seq(Entry) /\ OnePerKey(Forget(c.key))
          /\ \A k \in 1 .. Len(Forget(c.key)) : Forget(c.key)[k].key # c.key
      BY <1>0, Forgotten DEF Records
    <3>3. c.key \in Key \ {None}
      BY <2>4 DEF Key
    <3>4. Len(Forget(c.key)) < Cardinality(Key \ {None})
      BY <3>2, <3>3, RoomForOne
    <3>5. Len(Forget(c.key)) \in Nat /\ MemoryLimit \in Nat
      BY <3>2, LimitsNat
    <3>6. Cardinality(Key \ {None}) \in Int
      <4> DEFINE g == [d \in Call |-> d.key]
      <4>1. g \in Surjection(Call, Key)
        BY DEF Key, Surjection
      <4>2. IsFiniteSet(Key)
        BY <4>1, BridgeAssumption, FS_Surjection
      <4> QED
        BY <4>2, FS_Subset, FS_CardinalityType
    <3>7. Len(Forget(c.key)) < MemoryLimit
      BY <3>4, <3>5, <3>6
    <3>8. /\ Has(memory', new)
          /\ \A e : Has(Forget(c.key), e) => Has(memory', e)
      BY <1>0, <2>1, <3>1, <3>7, Remembered
    <3>9. CASE o \in orders
      BY <1>2, <2>1, <2>4, <3>8, <3>9
    <3>10. CASE o = order
      BY <2>2, <3>8, <3>10
    <3> QED
      BY <2>1, <3>9, <3>10
  <2> QED
    BY <2>3, <2>4
<1>4. ASSUME NEW c \in Call, Fails(c) PROVE Kept'
  <2>1. orders' = orders
    BY <1>4 DEF Fails
  <2>2. CASE memory' = memory
    BY <2>1, <2>2 DEF Kept, Has
  <2>3. CASE memory' = Forget(c.key) /\ c.key # None /\ Recalled(c) = {}
    BY <1>2, <2>1, <2>3 DEF Kept, Has
  <2> QED
    BY <1>4, <2>2, <2>3 DEF Fails
<1>5. ASSUME NEW again \in BOOLEAN, Resets(again) PROVE Kept'
  BY <1>5 DEF Resets, Kept
<1> QED
  BY <1>1, <1>3, <1>4, <1>5, PaperAlone

LEMMA RecordsAlways == ASSUME Recreates = FALSE PROVE Spec => []Records
<1>1. Init => Records
  BY EmptySeq DEF Init, Records, OnePerKey, Has
<1>2. IInv /\ Records /\ [Next]_vars => Records'
  BY RecordsStep
<1> QED
  BY <1>1, <1>2, Invariance, PTL DEF Spec

(* A call that hears that its order was placed before finds the order that  *)
(* it asked for, as long as no paper account is deleted and made anew.      *)
THEOREM NamesOwnOrder == ASSUME Recreates = FALSE PROVE Spec => NamesItsOrder
<1>1. IInv /\ Records /\ [Next]_vars =>
        [\A c \in Call :
            answer'[c] = "already" /\ answer[c] # "already" =>
                \E o \in orders : o.by.key = c.key /\ o.by.order = c.order]_vars
  <2> SUFFICES ASSUME IInv, Records, Next, NEW c \in Call,
                      answer'[c] = "already", answer[c] # "already"
               PROVE  \E o \in orders : o.by.key = c.key /\ o.by.order = c.order
    OBVIOUS
  <2>1. ~Server /\ ~Frame /\ ~User /\ ~\E starts \in BOOLEAN : Joined(starts)
    BY DEF Server, Arrive, Queues, TimesOut, Hears, Leaves, Frame, User, Permit, Switches,
           Resets, Joined, callVars
  <2>2. Handling
    BY <2>1 DEF Next
  <2>3. answer \in [Call -> {"none", "placed", "already", "failed", "refused"}]
    BY DEF IInv, TypeOK
  <2>4. ~Start /\ ~Refuse /\ ~\E past \in BOOLEAN : Judge(past)
    BY <2>3 DEF Start, Refuse, Judge, Answers
  <2>5. PICK d \in Call : Place(d) \/ PlacedBefore(d) \/ Fails(d)
    BY <2>2, <2>4 DEF Handling, Runs
  <2>6. ~Place(d) /\ ~Fails(d)
    BY <2>3 DEF Place, Fails, Answers
  <2>7. d = Head(batch) /\ answer' = [answer EXCEPT ![d] = "already"] /\ Repeats(d)
    BY <2>5, <2>6 DEF PlacedBefore, Answers
  <2>8. c = d
    BY <2>3, <2>7
  <2>9. PICK k \in Recalled(c) : memory[k].order = c.order
    BY <2>7, <2>8 DEF Repeats
  <2>10. PICK o \in orders : o.id = memory[k].id
    BY <2>9 DEF Recalled
  <2>11. Has(memory, memory[k]) /\ memory[k].key = c.key
    BY <2>9 DEF Recalled, Has, IInv, TypeOK
  <2> QED
    BY <2>9, <2>10, <2>11 DEF Records
<1> QED
  BY <1>1, Invariance, RecordsAlways, PTL DEF Spec, NamesItsOrder

(* As long as the memory has room for every request_id in use, and no paper *)
(* account is deleted and made anew, no two orders are placed under one     *)
(* request_id, however calls are repeated and given up.                     *)
THEOREM PlacesOnce ==
    ASSUME Recreates = FALSE, Cardinality(Key \ {None}) <= MemoryLimit
    PROVE  Spec => []PlacedOnce
<1>1. Init => Kept
  BY DEF Init, Kept
<1>2. IInv /\ Records /\ Kept /\ [Next]_vars => Kept'
  BY KeptStep
<1>3. Records /\ Kept => PlacedOnce
  <2> SUFFICES ASSUME Records, Kept, NEW o \in orders, NEW p \in orders,
                      o.by.key # None, o.by.key = p.by.key
               PROVE  o = p
    BY DEF PlacedOnce
  <2>1. PICK e : Has(memory, e) /\ e.key = o.by.key /\ e.id = o.id
    BY DEF Kept
  <2>2. PICK f : Has(memory, f) /\ f.key = p.by.key /\ f.id = p.id
    BY DEF Kept
  <2>3. e = f
    BY <2>1, <2>2 DEF Records, OnePerKey, Has
  <2> QED
    BY <2>1, <2>2, <2>3 DEF Records
<1> QED
  BY <1>1, <1>2, <1>3, Invariance, RecordsAlways, PTL DEF Spec
=============================================================================
