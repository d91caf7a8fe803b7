-------------------------- MODULE SelfUpdateProofs --------------------------
(***************************************************************************)
(* Proofs about SelfUpdate, for any number of processes and versions, any  *)
(* choice of release candidates and every bound.                           *)
(*                                                                         *)
(* The argument about the files: what is set aside has always started in   *)
(* place (`Kept`), and the one process that lives (`Alone`) has put in     *)
(* place a version that never started only as the last thing it did; so    *)
(* whoever clears the staging folder finds a version in place that has.    *)
(***************************************************************************)
EXTENDS SelfUpdate, TLAPS, SequenceTheorems, WellFoundedInduction

(* The worker's queue: at most one check and one install, and only while   *)
(* the host says so.                                                       *)
Queue(s, checking, working) ==
  /\ s \in Seq(Job) /\ Len(s) <= 2
  /\ \A i \in 1..Len(s) : IF s[i].does = "check" THEN checking ELSE working
  /\ \A i, j \in 1..Len(s) : i # j => (s[i].does = "check" <=> s[j].does # "check")

Good(r) == r \in Running /\ Queue(r.jobs, r.checking, r.at = "working")

(* The second rename follows the first in one go.                          *)
Whole(r) == r.swapping => r.at = "ready" /\ r.status = "running"

Files == [app : 0..MaxVersion, new : 0..MaxVersion, old : 0..MaxVersion]

Types ==
  /\ disk \in Files /\ published \subseteq Version /\ saved \in Channel \cup {"none"}
  /\ procs \in [Process -> Running]
  /\ \A p \in Process : Good(procs[p]) /\ Whole(procs[p])
  /\ helpers \subseteq Process /\ proven \subseteq Version
  /\ left \in [troubles : Nat, switches : Nat]

Staging(r) == \E i \in 1..Len(r.jobs) : r.jobs[i].does = "unpack"

(* The parts of a process the invariants speak of.                         *)
Finds(r) == <<r.offer, r.version, r.channel>>
Quits(r) == <<r.status, r.asked, r.armed>>
Swaps(r) == <<r.applied, r.swapping, r.clean>>

(* A step that matters to the files only in that an install may begin or   *)
(* fail, or the app exit.                                                  *)
Quiet(r, s) ==
  /\ Swaps(s) = Swaps(r)
  /\ s.status = "off" <=> r.status = "off"
  /\ s.swapping => s.status = r.status
  /\ s.at = r.at \/ "ready" \notin {r.at, s.at}
  /\ Staging(s) => Staging(r)

(* What is offered fits; a relaunch is armed only during its quit.         *)
Fits(r) == r.offer # 0 => r.offer > r.version /\ Accepts(r.channel, r.offer)
Steady(r) == r.armed => r.asked = "quit" \/ r.status = "exiting"

(* What every step of a process keeps.                                     *)
Keeps(r, s) ==
  Good(s) /\ (Fits(r) => Fits(s)) /\ (~CloseWhileAsked /\ Steady(r) => Steady(s))

-----------------------------------------------------------------------------
(*                       Versions and the queue                            *)

LEMMA Constants ==
  /\ MaxVersion \in Nat /\ 1 \in Version /\ Version \subseteq 0..MaxVersion
  /\ 0 \in 0..MaxVersion /\ 0 \notin Version
  /\ MaxTroubles \in Nat /\ MaxSwitches \in Nat
BY SelfUpdateAssumption DEF Version

LEMMA Members == \A x, y \in Nat : x < y => <<x, y>> \in OpToRel(<, Nat)
BY DEF OpToRel

(* A set of versions that is not empty has a newest one.                   *)
LEMMA Largest ==
  ASSUME NEW T, T \subseteq Version, T # {}
  PROVE  \E x \in T : \A y \in T : y <= x
<1> DEFINE D == {MaxVersion - v : v \in T}
<1>0. \A v \in T : v \in Nat /\ MaxVersion - v \in Nat BY Constants DEF Version
<1>1. D \subseteq Nat /\ D # {} BY <1>0, Zenon
<1>2. \E x \in D : \A y \in D : ~ (<<y, x>> \in OpToRel(<, Nat))
  BY <1>1, WFMin, NatLessThanWellFounded
<1>3. PICK x \in D : \A y \in D : ~ (y < x)
  BY <1>1, <1>2, Members
<1>4. PICK v \in T : x = MaxVersion - v BY <1>3
<1>5. \A w \in T : w <= v
  <2> TAKE w \in T
  <2>1. MaxVersion - w \in D /\ ~(MaxVersion - w < x) BY <1>3
  <2> QED BY <2>1, <1>0, <1>4, Constants
<1> QED BY <1>5

LEMMA PickFits ==
  ASSUME published \subseteq Version, NEW c, NEW n
  PROVE  /\ Pick(c, n) \in 0..MaxVersion
         /\ Pick(c, n) # 0 => Pick(c, n) > n /\ Accepts(c, Pick(c, n))
<1>1. CASE Newer(c, n) = {}
  BY <1>1, Constants DEF Pick
<1>2. CASE Newer(c, n) # {}
  <2>1. Newer(c, n) \subseteq Version BY DEF Newer
  <2>2. \E v \in Newer(c, n) : \A w \in Newer(c, n) : w <= v BY <1>2, <2>1, Largest
  <2>3. Pick(c, n) \in Newer(c, n) BY <1>2, <2>2, Zenon DEF Pick
  <2> QED BY <2>1, <2>3, Constants DEF Newer
<1> QED BY <1>1, <1>2

LEMMA QueueCheck ==
  ASSUME NEW s, NEW w \in BOOLEAN, Queue(s, FALSE, w), NEW c \in Channel
  PROVE  LET t == Append(s, [does |-> "check", channel |-> c, version |-> 0])
         IN  /\ Queue(t, TRUE, w)
             /\ (\E i \in 1..Len(t) : t[i].does = "unpack")
                   => \E i \in 1..Len(s) : s[i].does = "unpack"
<1> DEFINE j == [does |-> "check", channel |-> c, version |-> 0]
           t == Append(s, j)
<1>1. j \in Job /\ j.does = "check" BY Constants DEF Job
<1> HIDE DEF j
<1>2. /\ t \in Seq(Job) /\ Len(t) = Len(s) + 1
      /\ \A i \in 1..Len(s) : t[i] = s[i]
      /\ t[Len(s) + 1] = j
  BY <1>1, AppendProperties DEF Queue
<1>3. Len(s) \in Nat BY DEF Queue
<1>4. \A i \in 1..Len(s) : s[i].does # "check" BY DEF Queue
<1>5. Len(s) <= 1
  <2> SUFFICES ASSUME Len(s) = 2 PROVE FALSE BY <1>3 DEF Queue
  <2>1. 1 \in 1..Len(s) /\ 2 \in 1..Len(s) /\ 1 # 2 OBVIOUS
  <2> QED BY <2>1, <1>4 DEF Queue
<1> HIDE DEF t
<1>6. \A i \in 1..Len(t) : i \in 1..Len(s) \/ i = Len(s) + 1 BY <1>2, <1>3
<1>7. Queue(t, TRUE, w) BY <1>1, <1>2, <1>3, <1>4, <1>5, <1>6 DEF Queue
<1>8. (\E i \in 1..Len(t) : t[i].does = "unpack") => \E i \in 1..Len(s) : s[i].does = "unpack"
  BY <1>1, <1>2, <1>6
<1> QED BY <1>7, <1>8 DEF t, j

LEMMA QueueInstall ==
  ASSUME NEW s, NEW b \in BOOLEAN, Queue(s, b, FALSE), NEW c \in Channel, NEW v \in 0..MaxVersion
  PROVE  LET t == Append(s, [does |-> "clear", channel |-> c, version |-> v])
         IN  Queue(t, b, TRUE) /\ \A i \in 1..Len(t) : t[i].does # "unpack"
<1> DEFINE j == [does |-> "clear", channel |-> c, version |-> v]
           t == Append(s, j)
<1>1. j \in Job /\ j.does = "clear" BY DEF Job
<1> HIDE DEF j
<1>2. /\ t \in Seq(Job) /\ Len(t) = Len(s) + 1
      /\ \A i \in 1..Len(s) : t[i] = s[i]
      /\ t[Len(s) + 1] = j
  BY <1>1, AppendProperties DEF Queue
<1>3. Len(s) \in Nat BY DEF Queue
<1>4. \A i \in 1..Len(s) : s[i].does = "check" BY DEF Queue
<1>5. Len(s) <= 1
  <2> SUFFICES ASSUME Len(s) = 2 PROVE FALSE BY <1>3 DEF Queue
  <2>1. 1 \in 1..Len(s) /\ 2 \in 1..Len(s) /\ 1 # 2 OBVIOUS
  <2> QED BY <2>1, <1>4 DEF Queue
<1> HIDE DEF t
<1>6. \A i \in 1..Len(t) : i \in 1..Len(s) \/ i = Len(s) + 1 BY <1>2, <1>3
<1>7. Queue(t, b, TRUE) BY <1>1, <1>2, <1>3, <1>4, <1>5, <1>6 DEF Queue
<1>8. \A i \in 1..Len(t) : t[i].does # "unpack" BY <1>1, <1>2, <1>4, <1>6
<1> QED BY <1>7, <1>8 DEF t, j

(* The job at the head is done.                                            *)
LEMMA QueueDone ==
  ASSUME NEW s, NEW b \in BOOLEAN, NEW w \in BOOLEAN, Queue(s, b, w), s # <<>>
  PROVE  /\ Head(s) \in Job
         /\ Head(s).does = "check" => b /\ Queue(Tail(s), FALSE, w)
         /\ Head(s).does # "check" => w /\ Queue(Tail(s), b, FALSE)
                                        /\ \A i \in 1..Len(Tail(s)) : Tail(s)[i].does = "check"
         /\ (\E i \in 1..Len(Tail(s)) : Tail(s)[i].does = "unpack")
               => \E i \in 1..Len(s) : s[i].does = "unpack"
<1> DEFINE t == Tail(s)
<1>1. /\ Head(s) \in Job /\ t \in Seq(Job) /\ Len(t) = Len(s) - 1
      /\ \A i \in 1..Len(t) : t[i] = s[i + 1]
  BY HeadTailProperties DEF Queue
<1>2. Len(s) \in Nat /\ Len(s) # 0 /\ Head(s) = s[1] /\ 1 \in 1..Len(s) BY DEF Queue
<1> HIDE DEF t
<1>3. \A i \in 1..Len(t) : i + 1 \in 1..Len(s) /\ i + 1 # 1 BY <1>1, <1>2
<1>4. \A i, j \in 1..Len(t) : i # j => i + 1 # j + 1 OBVIOUS
<1>5. \A i \in 1..Len(t) : IF t[i].does = "check" THEN b ELSE w BY <1>1, <1>3 DEF Queue
<1>6. \A i, j \in 1..Len(t) : i # j => (t[i].does = "check" <=> t[j].does # "check")
  BY <1>1, <1>3, <1>4 DEF Queue
<1>7. \A i \in 1..Len(t) : t[i].does = "check" <=> Head(s).does # "check"
  BY <1>1, <1>2, <1>3 DEF Queue
<1>8. t \in Seq(Job) /\ Len(t) <= 2 BY <1>1, <1>2 DEF Queue
<1>9. CASE Head(s).does = "check"
  <2>1. \A i \in 1..Len(t) : t[i].does # "check" /\ w BY <1>9, <1>7, <1>5
  <2>2. b BY <1>2, <1>9 DEF Queue
  <2> QED BY <1>1, <1>3, <1>6, <1>8, <1>9, <2>1, <2>2 DEF Queue, t
<1>10. CASE Head(s).does # "check"
  <2>1. \A i \in 1..Len(t) : t[i].does = "check" /\ b BY <1>10, <1>7, <1>5
  <2>2. w BY <1>2, <1>10 DEF Queue
  <2> QED BY <1>1, <1>3, <1>6, <1>8, <1>10, <2>1, <2>2 DEF Queue, t
<1> QED BY <1>9, <1>10

(* The job at the head goes on to its second half.                         *)
LEMMA QueueOn ==
  ASSUME NEW s, NEW b \in BOOLEAN, NEW w \in BOOLEAN, Queue(s, b, w), s # <<>>,
         Head(s).does = "clear"
  PROVE  LET t == <<[Head(s) EXCEPT !.does = "unpack"]>> \o Tail(s)
         IN  w /\ Queue(t, b, w)
<1> DEFINE j == [Head(s) EXCEPT !.does = "unpack"]
           t == <<j>> \o Tail(s)
<1>1. /\ Head(s) \in Job /\ Tail(s) \in Seq(Job) /\ Len(Tail(s)) = Len(s) - 1
      /\ \A i \in 1..Len(Tail(s)) : Tail(s)[i] = s[i + 1]
  BY HeadTailProperties DEF Queue
<1>2. Len(s) \in Nat /\ Len(s) # 0 /\ Head(s) = s[1] /\ 1 \in 1..Len(s) BY DEF Queue
<1>3. j \in Job /\ j.does = "unpack" BY <1>1, Zenon DEF Job
<1> HIDE DEF j
<1>4. <<j>> \in Seq(Job) /\ Len(<<j>>) = 1 /\ <<j>>[1] = j BY <1>3
<1>5. /\ t \in Seq(Job) /\ Len(t) = 1 + Len(Tail(s))
      /\ \A i \in 1..1 + Len(Tail(s)) : t[i] = IF i <= 1 THEN <<j>>[i] ELSE Tail(s)[i - 1]
  BY <1>1, <1>4, ConcatProperties
<1> HIDE DEF t
<1>6. Len(t) = Len(s) BY <1>1, <1>2, <1>5
<1>7. t[1] = j BY <1>4, <1>5, <1>1, <1>2
<1>8. \A i \in 1..Len(s) : i # 1 => t[i] = s[i]
  <2> TAKE i \in 1..Len(s)
  <2> HAVE i # 1
  <2>1. i \in 1..1 + Len(Tail(s)) /\ ~(i <= 1) /\ i - 1 \in 1..Len(Tail(s)) /\ i - 1 + 1 = i
    BY <1>1, <1>2
  <2> QED BY <2>1, <1>1, <1>5
<1>9. \A i \in 1..Len(s) : t[i].does = "check" <=> s[i].does = "check"
  BY <1>2, <1>3, <1>7, <1>8
<1>10. w BY <1>2 DEF Queue
<1> QED BY <1>5, <1>6, <1>9, <1>10 DEF Queue, t, j

-----------------------------------------------------------------------------
(*                       What a step does to a process                     *)

LEMMA KeepsChain ==
  ASSUME NEW r, NEW s, NEW t, Keeps(r, s), Keeps(s, t) PROVE Keeps(r, t)
BY DEF Keeps

LEMMA KeepsPlain ==
  ASSUME NEW r, NEW s, Good(s), Finds(s) = Finds(r), Quits(s) = Quits(r) PROVE Keeps(r, s)
<1>1. /\ s.offer = r.offer /\ s.version = r.version /\ s.channel = r.channel
      /\ s.armed = r.armed /\ s.asked = r.asked /\ s.status = r.status
  BY DEF Finds, Quits
<1> QED BY <1>1 DEF Keeps, Fits, Steady

LEMMA QuietChain ==
  ASSUME NEW r, NEW s, NEW t, Quiet(r, s), Quiet(s, t) PROVE Quiet(r, t)
<1>1. s.swapping = r.swapping /\ t.swapping = s.swapping BY DEF Quiet, Swaps
<1> QED BY <1>1 DEF Quiet, Swaps

LEMMA OffGood ==
  /\ Good(Off) /\ Fits(Off) /\ Steady(Off) /\ Off.status = "off" /\ Off.jobs = <<>>
  /\ ~Off.swapping
<1>1. Off \in Running BY Constants DEF Off, Running, Channel
<1>2. Queue(Off.jobs, Off.checking, Off.at = "working") BY DEF Off, Queue
<1> QED BY <1>1, <1>2 DEF Off, Good, Fits, Steady

LEMMA StartCheckKeeps ==
  ASSUME NEW r, Good(r), NEW manual \in BOOLEAN
  PROVE  Keeps(r, StartCheck(r, manual)) /\ Quiet(r, StartCheck(r, manual))
<1> DEFINE s == StartCheck(r, manual)
           j == [does |-> "check", channel |-> r.channel, version |-> 0]
<1>1. CASE r.checking \/ r.at = "working"
  <2>1. s = r BY <1>1 DEF StartCheck
  <2> QED BY <2>1, KeepsPlain DEF Quiet
<1>2. CASE ~(r.checking \/ r.at = "working")
  <2> DEFINE at == IF manual /\ r.at = "failed" THEN "idle" ELSE r.at
             target == IF manual /\ r.at = "failed" THEN 0 ELSE r.target
             jobs == Append(r.jobs, j)
  <2>0. r \in Running /\ r.checking = FALSE /\ r.channel \in Channel BY <1>2 DEF Good, Running
  <2>1. /\ Queue(jobs, TRUE, r.at = "working")
        /\ (\E i \in 1..Len(jobs) : jobs[i].does = "unpack") => Staging(r)
    BY <2>0, QueueCheck DEF Good, Staging
  <2>2. /\ at \in {"idle", "working", "ready", "failed"}
        /\ target \in 0..MaxVersion /\ jobs \in Seq(Job)
        /\ (at = r.at \/ (r.at = "failed" /\ at = "idle"))
    <3>1. jobs \in Seq(Job) BY <2>1 DEF Queue
    <3>2. r.at \in {"idle", "working", "ready", "failed"} /\ r.target \in 0..MaxVersion
      BY <2>0, Zenon DEF Running
    <3> HIDE DEF jobs
    <3> QED BY <3>1, <3>2, Constants
  <2>3. s = [r EXCEPT !.checking = TRUE, !.at = at, !.target = target, !.jobs = jobs]
    BY <1>2 DEF StartCheck
  <2> HIDE DEF at, target, jobs
  <2>4. /\ s \in Running /\ s.checking = TRUE /\ s.at = at /\ s.jobs = jobs
        /\ Finds(s) = Finds(r) /\ Quits(s) = Quits(r) /\ Swaps(s) = Swaps(r)
    BY <2>0, <2>2, <2>3, ZenonT(30) DEF Running, Finds, Quits, Swaps
  <2> HIDE DEF s
  <2>5. (at = "working") = (r.at = "working") BY <1>2, <2>2
  <2>6. Good(s) BY <2>1, <2>4, <2>5 DEF Good
  <2>7. s.status = r.status BY <2>4 DEF Quits
  <2>8. Staging(s) => Staging(r) BY <2>1, <2>4 DEF Staging
  <2>9. Quiet(r, s) BY <2>2, <2>4, <2>7, <2>8 DEF Quiet, Swaps
  <2>10. Keeps(r, s) BY <2>4, <2>6, KeepsPlain, Zenon
  <2> QED BY <2>9, <2>10 DEF s
<1> QED BY <1>1, <1>2

(* The worker's check is answered.                                         *)
LEMMA AnswerKeeps ==
  ASSUME NEW r, Good(r), r.jobs # <<>>, Head(r.jobs).does = "check",
         NEW answer \in 0..MaxVersion, NEW failed \in BOOLEAN,
         answer # 0 => answer > r.version /\ Accepts(Head(r.jobs).channel, answer)
  PROVE  LET s == FinishCheck(Done(r), Head(r.jobs).channel, answer, failed)
         IN  Keeps(r, s) /\ Quiet(r, s)
<1> DEFINE d == Done(r)
           c == Head(r.jobs).channel
           s == FinishCheck(d, c, answer, failed)
           moot == d.at = "failed" /\ answer # d.target
           drop == c # d.channel \/ (failed /\ d.offer # 0)
           offer == IF drop THEN d.offer ELSE answer
           at == IF ~drop /\ moot THEN "idle" ELSE d.at
           target == IF ~drop /\ moot THEN 0 ELSE d.target
<1>0. r \in Running /\ r.checking \in BOOLEAN /\ (r.at = "working") \in BOOLEAN
  BY DEF Good, Running
<1>1. /\ Queue(Tail(r.jobs), FALSE, r.at = "working")
      /\ (\E i \in 1..Len(Tail(r.jobs)) : Tail(r.jobs)[i].does = "unpack") => Staging(r)
  BY <1>0, QueueDone DEF Good, Staging
<1>2. /\ d \in Running /\ d.jobs = Tail(r.jobs) /\ d.at = r.at /\ d.target = r.target
      /\ Finds(d) = Finds(r) /\ Quits(d) = Quits(r) /\ Swaps(d) = Swaps(r)
  <2>1. Tail(r.jobs) \in Seq(Job) BY <1>1 DEF Queue
  <2> QED BY <1>0, <2>1, Zenon DEF Done, Running, Finds, Quits, Swaps
<1> HIDE DEF d, c
<1>3. s = [d EXCEPT !.checking = FALSE, !.offer = offer, !.at = at, !.target = target]
  <2>1. CASE drop
    <3>1. s = [d EXCEPT !.checking = FALSE]
      <4>1. CASE c # d.channel BY <4>1, Zenon DEF FinishCheck
      <4>2. CASE c = d.channel /\ failed /\ d.offer # 0
        BY <4>2 DEF FinishCheck, FinishCheckOfAny
      <4> QED BY <2>1, <4>1, <4>2
    <3>2. offer = d.offer /\ at = d.at /\ target = d.target BY <2>1
    <3> HIDE DEF offer, at, target
    <3> QED BY <3>1, <3>2, <1>2, Zenon DEF Running
  <2>2. CASE ~drop
    <3>1. s = FinishCheckOfAny(d, c, answer, failed) BY <2>2, Zenon DEF FinishCheck
    <3>2. offer = answer /\ at = (IF moot THEN "idle" ELSE d.at)
          /\ target = (IF moot THEN 0 ELSE d.target)
      BY <2>2
    <3>3. s = [d EXCEPT !.checking = FALSE, !.offer = answer,
                        !.at = IF moot THEN "idle" ELSE d.at,
                        !.target = IF moot THEN 0 ELSE d.target]
      BY <2>2, <3>1, Zenon DEF FinishCheckOfAny
    <3> HIDE DEF offer, at, target
    <3> QED BY <3>2, <3>3, Zenon
  <2> QED BY <2>1, <2>2
<1>4. /\ offer \in 0..MaxVersion /\ target \in 0..MaxVersion
      /\ at \in {"idle", "working", "ready", "failed"}
      /\ (at = r.at \/ (r.at = "failed" /\ at = "idle"))
  <2>1. d.offer \in 0..MaxVersion /\ d.target \in 0..MaxVersion
        /\ d.at \in {"idle", "working", "ready", "failed"}
    BY <1>2, Zenon DEF Running
  <2> QED BY <1>2, <2>1, Constants
<1>5. offer = d.offer \/ (offer = answer /\ c = d.channel)
  <2>1. CASE drop BY <2>1
  <2>2. CASE ~drop BY <2>2
  <2> QED BY <2>1, <2>2
<1> HIDE DEF at, target, offer
<1>6. /\ s \in Running /\ s.checking = FALSE /\ s.at = at /\ s.jobs = d.jobs
      /\ s.offer = offer /\ s.version = d.version /\ s.channel = d.channel
      /\ Quits(s) = Quits(d) /\ Swaps(s) = Swaps(d)
  BY <1>2, <1>3, <1>4, ZenonT(60) DEF Running, Quits, Swaps
<1> HIDE DEF s
<1>7. (at = "working") = (r.at = "working") BY <1>4
<1>8. Good(s) BY <1>1, <1>2, <1>6, <1>7 DEF Good
<1>9. d.offer = r.offer /\ d.version = r.version /\ d.channel = r.channel BY <1>2 DEF Finds
<1>10. Fits(r) => Fits(s) BY <1>5, <1>6, <1>9 DEF Fits, c
<1>11. s.status = r.status /\ s.asked = r.asked /\ s.armed = r.armed BY <1>2, <1>6 DEF Quits
<1>12. Staging(s) => Staging(r) BY <1>1, <1>2, <1>6 DEF Staging
<1>13. Keeps(r, s) BY <1>8, <1>10, <1>11 DEF Keeps, Steady
<1>14. Quiet(r, s) BY <1>2, <1>4, <1>6, <1>11, <1>12 DEF Quiet
<1> QED BY <1>13, <1>14 DEF s, d, c

LEMMA InstallKeeps ==
  ASSUME NEW r, Good(r), r.at \notin {"working", "ready"}
  PROVE  LET s == [r EXCEPT !.at = "working", !.target = r.offer,
                            !.jobs = Append(r.jobs, [does |-> "clear", channel |-> r.channel,
                                                     version |-> r.offer])]
         IN  Keeps(r, s) /\ Quiet(r, s)
<1> DEFINE jobs == Append(r.jobs, [does |-> "clear", channel |-> r.channel, version |-> r.offer])
           s == [r EXCEPT !.at = "working", !.target = r.offer, !.jobs = jobs]
<1>0. /\ r \in Running /\ r.checking \in BOOLEAN /\ r.channel \in Channel
      /\ r.offer \in 0..MaxVersion /\ (r.at = "working") = FALSE
  BY DEF Good, Running
<1>1. Queue(jobs, r.checking, TRUE) /\ \A i \in 1..Len(jobs) : jobs[i].does # "unpack"
  <2>1. Queue(r.jobs, r.checking, FALSE) BY <1>0, Zenon DEF Good
  <2> QED BY <1>0, <2>1, QueueInstall, ZenonT(60)
<1>2. jobs \in Seq(Job) BY <1>1 DEF Queue
<1> HIDE DEF jobs
<1>3. /\ s \in Running /\ s.checking = r.checking /\ s.at = "working" /\ s.jobs = jobs
      /\ Finds(s) = Finds(r) /\ Quits(s) = Quits(r) /\ Swaps(s) = Swaps(r)
  BY <1>0, <1>2, Zenon DEF Running, Finds, Quits, Swaps
<1> HIDE DEF s
<1>4. Good(s) BY <1>1, <1>3 DEF Good
<1>5. s.status = r.status BY <1>3 DEF Quits
<1>6. ~Staging(s) BY <1>1, <1>3 DEF Staging
<1> QED BY <1>3, <1>4, <1>5, <1>6, KeepsPlain DEF Quiet, s, jobs

LEMMA SetChannelKeeps ==
  ASSUME NEW r, Good(r), NEW c \in Channel, r.at \notin {"working", "ready"}, c # r.channel
  PROVE  LET stale == r.offer # 0
             s == StartCheck([r EXCEPT !.channel = c,
                                       !.offer = IF stale THEN 0 ELSE r.offer,
                                       !.at = IF stale THEN "idle" ELSE r.at,
                                       !.target = IF stale THEN 0 ELSE r.target], TRUE)
         IN  Keeps(r, s) /\ Quiet(r, s)
<1> DEFINE stale == r.offer # 0
           offer == IF stale THEN 0 ELSE r.offer
           at == IF stale THEN "idle" ELSE r.at
           target == IF stale THEN 0 ELSE r.target
           d == [r EXCEPT !.channel = c, !.offer = offer, !.at = at, !.target = target]
<1>0. r \in Running BY DEF Good
<1>1. /\ offer = 0 /\ target \in 0..MaxVersion /\ 0 \in 0..MaxVersion
      /\ at \in {"idle", "failed"}
  BY <1>0, Constants DEF Running
<1> HIDE DEF offer, at, target
<1>2. /\ d \in Running /\ d.checking = r.checking /\ d.jobs = r.jobs /\ d.at = at
      /\ d.offer = offer /\ Quits(d) = Quits(r) /\ Swaps(d) = Swaps(r)
  BY <1>0, <1>1, Zenon DEF Running, Quits, Swaps
<1> HIDE DEF d
<1>3. (d.at = "working") = (r.at = "working") BY <1>1, <1>2
<1>4. Good(d) BY <1>2, <1>3 DEF Good
<1>5. d.status = r.status /\ d.armed = r.armed /\ d.asked = r.asked BY <1>2 DEF Quits
<1>6. Keeps(r, d) BY <1>1, <1>2, <1>4, <1>5 DEF Keeps, Fits, Steady
<1>7. Quiet(r, d) BY <1>1, <1>2, <1>5 DEF Quiet, Staging
<1>8. Keeps(d, StartCheck(d, TRUE)) /\ Quiet(d, StartCheck(d, TRUE)) BY <1>4, StartCheckKeeps
<1> QED BY <1>6, <1>7, <1>8, KeepsChain, QuietChain DEF d, offer, at, target

-----------------------------------------------------------------------------
(* The questions and the exit                                              *)

(* A change of the edits, the question, the arming and the exit only.      *)
Asked(r, dirty, asked, armed, status) ==
  [r EXCEPT !.dirty = dirty, !.asked = asked, !.armed = armed, !.status = status]

LEMMA QuitFields ==
  ASSUME NEW r, Good(r), NEW dirty \in BOOLEAN, NEW asked \in {"no", "quit", "close"},
         NEW armed \in BOOLEAN, NEW status \in {"running", "exiting"},
         r.status = "running", ~r.swapping
  PROVE  LET s == Asked(r, dirty, asked, armed, status)
         IN  /\ Good(s) /\ Quiet(r, s)
             /\ s.asked = asked /\ s.armed = armed /\ s.status = status
             /\ Fits(r) => Fits(s)
<1> DEFINE s == Asked(r, dirty, asked, armed, status)
<1>0. r \in Running BY DEF Good
<1>1. /\ s \in Running /\ s.checking = r.checking /\ s.jobs = r.jobs /\ s.at = r.at
      /\ s.asked = asked /\ s.armed = armed /\ s.status = status
      /\ Finds(s) = Finds(r) /\ Swaps(s) = Swaps(r) /\ s.swapping = r.swapping
  BY <1>0, ZenonT(30) DEF Running, Finds, Swaps, Asked
<1> HIDE DEF s
<1>2. Good(s) BY <1>1 DEF Good
<1>3. Quiet(r, s) BY <1>1 DEF Quiet, Staging
<1>4. Fits(r) => Fits(s) BY <1>1 DEF Fits, Finds
<1> QED BY <1>1, <1>2, <1>3, <1>4 DEF s

-----------------------------------------------------------------------------
(*                       Steps that leave the files alone                  *)

(* A process moves as Keeps and Quiet say; nothing else that the           *)
(* invariants about the files read changes.                                *)
Moves(p, s) == Put(p, s) /\ Keeps(procs[p], s)

Calm(p) ==
  /\ \E s : Moves(p, s) /\ Quiet(procs[p], s)
  /\ Live(p) /\ disk' = disk /\ proven' = proven /\ helpers' \subseteq helpers \cup {p}

LEMMA Fields ==
  ASSUME NEW r, r \in Running
  PROVE  /\ r.status \in {"off", "running", "exiting"} /\ r.version \in 0..MaxVersion
         /\ r.channel \in Channel /\ r.offer \in 0..MaxVersion /\ r.checking \in BOOLEAN
         /\ r.at \in {"idle", "working", "ready", "failed"} /\ r.target \in 0..MaxVersion
         /\ r.applied \in BOOLEAN /\ r.armed \in BOOLEAN /\ r.swapping \in BOOLEAN
         /\ r.clean \in BOOLEAN /\ r.dirty \in BOOLEAN /\ r.asked \in {"no", "quit", "close"}
         /\ r.jobs \in Seq(Job)
BY Zenon DEF Running

LEMMA Process0 == ASSUME Types, NEW p \in Process PROVE Good(procs[p]) /\ procs[p] \in Running
BY DEF Types, Good

(* The exit, of a process whose edits, question and arming may just have   *)
(* been decided.                                                           *)
LEMMA ExitMoves ==
  ASSUME Types, NEW p \in Process, NEW dirty \in BOOLEAN, NEW asked \in {"no", "quit", "close"},
         NEW armed \in BOOLEAN, procs[p].status = "running", ~procs[p].swapping,
         Exit(p, [procs[p] EXCEPT !.dirty = dirty, !.asked = asked, !.armed = armed])
  PROVE  /\ \E s : Moves(p, s) /\ Quiet(procs[p], s)
         /\ helpers' \subseteq helpers \cup {p} /\ left' \in [troubles : Nat, switches : Nat]
<1> DEFINE r == procs[p]
           e == [r EXCEPT !.dirty = dirty, !.asked = asked, !.armed = armed]
           s == Asked(r, dirty, asked, armed, "exiting")
<1>1. /\ Good(r) /\ r \in Running /\ r.status = "running" /\ ~r.swapping
      /\ "exiting" \in {"running", "exiting"}
  BY Process0
<1>2. [e EXCEPT !.status = "exiting"] = s BY <1>1, Zenon DEF Running, Asked
<1>3. /\ Good(s) /\ Quiet(r, s) /\ s.status = "exiting" /\ (Fits(r) => Fits(s))
  BY <1>1, QuitFields
<1>4. Keeps(r, s) BY <1>3 DEF Keeps, Steady
<1>5. Put(p, s) BY <1>2 DEF Exit
<1>6. helpers' \subseteq helpers \cup {p} BY DEF Exit
<1>7. left' \in [troubles : Nat, switches : Nat] BY DEF Exit, Trouble, Troubles, Types
<1> QED BY <1>3, <1>4, <1>5, <1>6, <1>7 DEF Moves

LEMMA RequestQuitMoves ==
  ASSUME Types, NEW p \in Process, NEW dirty \in BOOLEAN, NEW asked \in {"no", "quit", "close"},
         NEW armed \in BOOLEAN, procs[p].status = "running", ~procs[p].swapping,
         RequestQuit(p, [procs[p] EXCEPT !.dirty = dirty, !.asked = asked, !.armed = armed])
  PROVE  /\ \E s : Moves(p, s) /\ Quiet(procs[p], s)
         /\ helpers' \subseteq helpers \cup {p} /\ left' \in [troubles : Nat, switches : Nat]
<1> DEFINE r == procs[p]
           e == [r EXCEPT !.dirty = dirty, !.asked = asked, !.armed = armed]
           s == Asked(r, dirty, "quit", armed, "running")
<1>1. /\ Good(r) /\ r \in Running /\ r.status = "running" /\ ~r.swapping
      /\ "running" \in {"running", "exiting"} /\ "quit" \in {"no", "quit", "close"}
  BY Process0
<1>2. CASE Put(p, [e EXCEPT !.asked = "quit"]) /\ UNCHANGED <<helpers, left>>
  <2>1. [e EXCEPT !.asked = "quit"] = s BY <1>1, Zenon DEF Running, Asked
  <2>2. /\ Good(s) /\ Quiet(r, s) /\ s.asked = "quit" /\ (Fits(r) => Fits(s))
    BY <1>1, QuitFields
  <2>3. Keeps(r, s) BY <2>2 DEF Keeps, Steady
  <2> QED BY <1>2, <2>1, <2>2, <2>3 DEF Moves, Types
<1>3. CASE Exit(p, e) BY <1>3, ExitMoves
<1> QED BY <1>2, <1>3 DEF RequestQuit

(* A change of the edits, the question and the arming alone.               *)
LEMMA AskMoves ==
  ASSUME Types, NEW p \in Process, NEW dirty \in BOOLEAN, NEW asked \in {"no", "quit", "close"},
         NEW armed \in BOOLEAN, procs[p].status = "running", ~procs[p].swapping,
         Put(p, [procs[p] EXCEPT !.dirty = dirty, !.asked = asked, !.armed = armed]),
         ~CloseWhileAsked /\ Steady(procs[p]) => ~armed \/ asked = "quit"
  PROVE  \E s : Moves(p, s) /\ Quiet(procs[p], s)
<1> DEFINE r == procs[p]
           e == [r EXCEPT !.dirty = dirty, !.asked = asked, !.armed = armed]
           s == Asked(r, dirty, asked, armed, "running")
<1>1. /\ Good(r) /\ r \in Running /\ r.status = "running" /\ ~r.swapping
      /\ "running" \in {"running", "exiting"}
  BY Process0
<1>2. e = s BY <1>1, Zenon DEF Running, Asked
<1>3. /\ Good(s) /\ Quiet(r, s) /\ s.asked = asked /\ s.armed = armed /\ (Fits(r) => Fits(s))
  BY <1>1, QuitFields
<1>4. Keeps(r, s) BY <1>3 DEF Keeps, Steady
<1> QED BY <1>2, <1>3, <1>4 DEF Moves

LEMMA Asking ==
  ASSUME NEW r, r \in Running
  PROVE  /\ r = [r EXCEPT !.dirty = r.dirty, !.asked = r.asked, !.armed = r.armed]
         /\ \A d \in BOOLEAN : [r EXCEPT !.dirty = d]
                = [r EXCEPT !.dirty = d, !.asked = r.asked, !.armed = r.armed]
         /\ \A a \in {"no", "quit", "close"} : [r EXCEPT !.asked = a]
                = [r EXCEPT !.dirty = r.dirty, !.asked = a, !.armed = r.armed]
         /\ [r EXCEPT !.asked = "no", !.dirty = FALSE]
                = [r EXCEPT !.dirty = FALSE, !.asked = "no", !.armed = r.armed]
         /\ CallOffQuit(r) = [r EXCEPT !.dirty = r.dirty, !.asked = "no", !.armed = FALSE]
         /\ [r EXCEPT !.armed = TRUE]
                = [r EXCEPT !.dirty = r.dirty, !.asked = r.asked, !.armed = TRUE]
BY Zenon DEF Running, CallOffQuit

Looks(p) ==
  Tick(p) \/ CheckNow(p) \/ (\E c \in Channel : SetChannel(p, c)) \/ Install(p) \/ Answer(p)

Decides(p) ==
  Quit(p) \/ Edit(p) \/ AskClose(p) \/ Proceed(p) \/ Cancel(p) \/ RestartAgain(p)

Rest ==
  published' \subseteq Version /\ saved' \in Channel \cup {"none"}
  /\ left' \in [troubles : Nat, switches : Nat]

LEMMA LooksCalm ==
  ASSUME Types, NEW p \in Process, Looks(p)
  PROVE  Calm(p) /\ helpers' = helpers /\ Rest
<1> DEFINE r == procs[p]
<1>0. Good(r) /\ r \in Running BY Process0
<1>1. CASE Tick(p) \/ CheckNow(p)
  <2>1. PICK m \in BOOLEAN : Put(p, StartCheck(r, m)) BY <1>1 DEF Tick, CheckNow
  <2>2. Keeps(r, StartCheck(r, m)) /\ Quiet(r, StartCheck(r, m)) BY <1>0, StartCheckKeeps
  <2>3. /\ Live(p) /\ disk' = disk /\ proven' = proven /\ helpers' = helpers
        /\ left' = left /\ saved' = saved /\ published' = published
    BY <1>1 DEF Tick, CheckNow, Free, Live
  <2> QED BY <2>1, <2>2, <2>3 DEF Calm, Moves, Rest, Types
<1>2. ASSUME NEW c \in Channel, SetChannel(p, c) PROVE Calm(p) /\ helpers' = helpers /\ Rest
  <2> DEFINE s == StartCheck([r EXCEPT !.channel = c,
                                       !.offer = IF r.offer # 0 THEN 0 ELSE r.offer,
                                       !.at = IF r.offer # 0 THEN "idle" ELSE r.at,
                                       !.target = IF r.offer # 0 THEN 0 ELSE r.target], TRUE)
  <2>1. Put(p, s) /\ r.at \notin {"working", "ready"} /\ c # r.channel
    BY <1>2, Zenon DEF SetChannel
  <2>2. Keeps(r, s) /\ Quiet(r, s) BY <1>0, <2>1, SetChannelKeeps
  <2> HIDE DEF s
  <2>3. /\ Live(p) /\ disk' = disk /\ proven' = proven /\ helpers' = helpers
        /\ saved' = c /\ published' = published
    BY <1>2 DEF SetChannel, Free, Live
  <2>4. left' \in [troubles : Nat, switches : Nat] BY <1>2 DEF SetChannel, Types
  <2> QED BY <2>1, <2>2, <2>3, <2>4 DEF Calm, Moves, Rest, Types
<1>3. CASE Install(p)
  <2> DEFINE s == [r EXCEPT !.at = "working", !.target = r.offer,
                      !.jobs = Append(r.jobs, [does |-> "clear", channel |-> r.channel,
                                               version |-> r.offer])]
  <2>1. Put(p, s) /\ r.at \notin {"working", "ready"} BY <1>3, Zenon DEF Install
  <2>2. Keeps(r, s) /\ Quiet(r, s) BY <1>0, <2>1, InstallKeeps
  <2> HIDE DEF s
  <2>3. /\ Live(p) /\ disk' = disk /\ proven' = proven /\ helpers' = helpers
        /\ left' = left /\ saved' = saved /\ published' = published
    BY <1>3 DEF Install, Free, Live
  <2> QED BY <2>1, <2>2, <2>3 DEF Calm, Moves, Rest, Types
<1>4. CASE Answer(p)
  <2> DEFINE c == Head(r.jobs).channel
             found == Pick(c, r.version)
             s == FinishCheck(Done(r), c, found, FALSE)
             f == FinishCheck(Done(r), c, 0, TRUE)
  <2>1. r.jobs # <<>> /\ Head(r.jobs).does = "check" /\ Live(p) BY <1>4 DEF Answer, Working
  <2>2. found \in 0..MaxVersion /\ (found # 0 => found > r.version /\ Accepts(c, found))
    BY PickFits DEF Types
  <2> HIDE DEF found
  <2>3. Keeps(r, s) /\ Quiet(r, s) BY <1>0, <2>1, <2>2, AnswerKeeps
  <2>4. Keeps(r, f) /\ Quiet(r, f) BY <1>0, <2>1, Constants, AnswerKeeps
  <2> HIDE DEF s, f
  <2>5. (Put(p, s) /\ left' = left) \/ (Put(p, f) /\ Trouble)
    BY <1>4, Zenon DEF Answer, s, f, found
  <2>6. left' \in [troubles : Nat, switches : Nat] BY <2>5 DEF Trouble, Troubles, Types
  <2>7. /\ disk' = disk /\ proven' = proven /\ helpers' = helpers
        /\ saved' = saved /\ published' = published
    BY <1>4 DEF Answer
  <2> QED BY <2>1, <2>3, <2>4, <2>5, <2>6, <2>7 DEF Calm, Moves, Rest, Types
<1> QED BY <1>1, <1>2, <1>3, <1>4 DEF Looks

LEMMA DecidesCalm == ASSUME Types, NEW p \in Process, Decides(p) PROVE Calm(p) /\ Rest
<1> DEFINE r == procs[p]
<1>0. Good(r) /\ r \in Running BY Process0
<1>1. r.asked \in {"no", "quit", "close"} /\ r.dirty \in BOOLEAN /\ r.armed \in BOOLEAN
  BY <1>0, Fields
<1>2. /\ r.status = "running" /\ ~r.swapping /\ disk' = disk /\ proven' = proven
      /\ saved' = saved /\ published' = published
  BY DEF Decides, Quit, Edit, AskClose, Proceed, Cancel, RestartAgain, Free
<1> DEFINE Goes == (\E s : Moves(p, s) /\ Quiet(r, s)) /\ helpers' \subseteq helpers \cup {p}
                   /\ left' \in [troubles : Nat, switches : Nat]
<1>3. ASSUME Quit(p) PROVE Goes
  <2>1. RequestQuit(p, [r EXCEPT !.dirty = r.dirty, !.asked = r.asked, !.armed = r.armed])
    BY <1>0, <1>3, Asking DEF Quit
  <2> QED BY <1>1, <1>2, <2>1, RequestQuitMoves
<1>4. ASSUME Edit(p) PROVE Goes
  <2>1. PICK d \in BOOLEAN : Put(p, [r EXCEPT !.dirty = d]) BY <1>4 DEF Edit
  <2>2. Put(p, [r EXCEPT !.dirty = d, !.asked = r.asked, !.armed = r.armed])
    BY <1>0, <2>1, Asking
  <2>3. \E s : Moves(p, s) /\ Quiet(r, s) BY <1>1, <1>2, <2>2, AskMoves DEF Steady
  <2>4. helpers' = helpers /\ left' = left BY <1>4 DEF Edit
  <2> QED BY <2>3, <2>4 DEF Types
<1>5. ASSUME AskClose(p) PROVE Goes
  <2>1. Put(p, [r EXCEPT !.asked = "close"]) /\ (CloseWhileAsked \/ r.asked # "quit")
    BY <1>5 DEF AskClose
  <2>2. Put(p, [r EXCEPT !.dirty = r.dirty, !.asked = "close", !.armed = r.armed])
    BY <1>0, <2>1, Asking
  <2>3. \E s : Moves(p, s) /\ Quiet(r, s) BY <1>1, <1>2, <2>1, <2>2, AskMoves DEF Steady
  <2>4. helpers' = helpers /\ left' = left BY <1>5 DEF AskClose
  <2> QED BY <2>3, <2>4 DEF Types
<1>6. ASSUME Proceed(p) PROVE Goes
  <2> DEFINE e == [r EXCEPT !.dirty = FALSE, !.asked = "no", !.armed = r.armed]
  <2>1. \/ RequestQuit(p, e) \/ Exit(p, e)
        \/ r.asked = "close" /\ Put(p, e) /\ helpers' = helpers /\ left' = left
    BY <1>0, <1>6, Asking DEF Proceed
  <2> HIDE DEF e
  <2>2. CASE RequestQuit(p, e) BY <1>1, <1>2, <2>2, RequestQuitMoves DEF e
  <2>3. CASE Exit(p, e) BY <1>1, <1>2, <2>3, ExitMoves DEF e
  <2>4. CASE r.asked = "close" /\ Put(p, e) /\ helpers' = helpers /\ left' = left
    <3>1. \E s : Moves(p, s) /\ Quiet(r, s) BY <1>1, <1>2, <2>4, AskMoves DEF Steady, e
    <3> QED BY <2>4, <3>1 DEF Types
  <2> QED BY <2>1, <2>2, <2>3, <2>4
<1>7. ASSUME Cancel(p) PROVE Goes
  <2>1. \/ Put(p, [r EXCEPT !.dirty = r.dirty, !.asked = "no", !.armed = FALSE])
        \/ /\ r.asked = "close"
           /\ Put(p, [r EXCEPT !.dirty = r.dirty, !.asked = "no", !.armed = r.armed])
    BY <1>0, <1>7, Asking DEF Cancel
  <2>2. \E s : Moves(p, s) /\ Quiet(r, s)
    <3>1. CASE Put(p, [r EXCEPT !.dirty = r.dirty, !.asked = "no", !.armed = FALSE])
      BY <1>1, <1>2, <3>1, AskMoves
    <3>2. CASE /\ r.asked = "close"
               /\ Put(p, [r EXCEPT !.dirty = r.dirty, !.asked = "no", !.armed = r.armed])
      BY <1>1, <1>2, <3>2, AskMoves DEF Steady
    <3> QED BY <2>1, <3>1, <3>2
  <2>3. helpers' = helpers /\ left' = left BY <1>7 DEF Cancel
  <2> QED BY <2>2, <2>3 DEF Types
<1>8. ASSUME RestartAgain(p) PROVE Goes
  <2>1. RequestQuit(p, [r EXCEPT !.dirty = r.dirty, !.asked = r.asked, !.armed = TRUE])
    BY <1>0, <1>8, Asking DEF RestartAgain
  <2> QED BY <1>1, <1>2, <2>1, RequestQuitMoves
<1>9. Goes BY <1>3, <1>4, <1>5, <1>6, <1>7, <1>8 DEF Decides
<1> QED BY <1>2, <1>9 DEF Calm, Live, Rest, Types

-----------------------------------------------------------------------------
(*                       Steps that touch the files                        *)

LEMMA Cleaning ==
  ASSUME Types
  PROVE  /\ Cleared \in Files /\ Cleared.app = disk.app /\ Cleared.old = 0
         /\ \A v \in 0..MaxVersion :
              LET d == [disk EXCEPT !.new = v]
              IN  d \in Files /\ d.app = disk.app /\ d.old = disk.old
<1>1. disk \in Files /\ 0 \in 0..MaxVersion BY Constants DEF Types
<1> QED BY <1>1, Zenon DEF Cleared, Files

(* The job at the head, of an install, is done.                            *)
Finished(r, at, applied) == [r EXCEPT !.jobs = Tail(r.jobs), !.at = at, !.applied = applied]

LEMMA FinishedKeeps ==
  ASSUME NEW r, Good(r), r.jobs # <<>>, Head(r.jobs).does # "check",
         NEW at \in {"ready", "failed"}, NEW applied \in BOOLEAN
  PROVE  LET s == Finished(r, at, applied)
         IN  /\ r.at = "working" /\ Keeps(r, s) /\ ~Staging(s)
             /\ s.status = r.status /\ s.at = at /\ s.applied = applied
             /\ s.swapping = r.swapping /\ s.clean = r.clean
<1> DEFINE s == Finished(r, at, applied)
<1>0. r \in Running /\ r.checking \in BOOLEAN /\ (r.at = "working") \in BOOLEAN
  BY DEF Good, Running
<1>1. /\ r.at = "working" /\ Queue(Tail(r.jobs), r.checking, FALSE)
      /\ \A i \in 1..Len(Tail(r.jobs)) : Tail(r.jobs)[i].does = "check"
  <2> DEFINE w == r.at = "working"
             c == r.checking
             q == r.jobs
  <2>1. /\ Queue(q, c, w) /\ w \in BOOLEAN /\ c \in BOOLEAN /\ q # <<>>
        /\ Head(q).does # "check"
    BY <1>0, Zenon DEF Good
  <2> HIDE DEF w, c, q
  <2>2. Head(q).does # "check" => w /\ Queue(Tail(q), c, FALSE)
                                    /\ \A i \in 1..Len(Tail(q)) : Tail(q)[i].does = "check"
    BY <2>1, QueueDone, Zenon
  <2> QED BY <2>1, <2>2 DEF w, c, q
<1>2. Tail(r.jobs) \in Seq(Job) BY <1>1 DEF Queue
<1>3. /\ s \in Running /\ s.jobs = Tail(r.jobs) /\ s.at = at /\ s.applied = applied
      /\ s.checking = r.checking /\ s.swapping = r.swapping /\ s.clean = r.clean
      /\ s.status = r.status /\ Finds(s) = Finds(r) /\ Quits(s) = Quits(r)
  BY <1>0, <1>2, Zenon DEF Finished, Running, Finds, Quits
<1> HIDE DEF s
<1>4. Good(s) BY <1>1, <1>3 DEF Good
<1>5. Keeps(r, s) BY <1>3, <1>4, KeepsPlain
<1>6. ~Staging(s) BY <1>1, <1>3 DEF Staging
<1> QED BY <1>1, <1>3, <1>5, <1>6 DEF s

LEMMA Finishing ==
  ASSUME NEW r, r \in Running
  PROVE  /\ [Done(r) EXCEPT !.at = "failed"] = Finished(r, "failed", r.applied)
         /\ [Done(r) EXCEPT !.at = "ready", !.applied = FALSE] = Finished(r, "ready", FALSE)
BY Zenon DEF Running, Done, Finished

LEMMA ClearFacts ==
  ASSUME Types, NEW p \in Process, Clear(p)
  PROVE  LET r == procs[p]
         IN  /\ \E s : /\ Moves(p, s) /\ Swaps(s) = Swaps(r) /\ s.status = r.status
                       /\ s.at # "ready"
                       /\ \/ disk' = disk /\ ~Staging(s)
                          \/ disk' = Cleared /\ ~OnlyCopy
             /\ r.at = "working" /\ (LateCleanup \/ ~r.clean)
             /\ Live(p) /\ proven' = proven /\ helpers' = helpers /\ Rest
<1> DEFINE r == procs[p]
           f == Finished(r, "failed", r.applied)
           j == <<[Head(r.jobs) EXCEPT !.does = "unpack"]>> \o Tail(r.jobs)
           u == [r EXCEPT !.jobs = j]
<1>0. Good(r) /\ r \in Running /\ r.applied \in BOOLEAN /\ r.checking \in BOOLEAN
  BY Process0, Fields
<1>1. /\ r.jobs # <<>> /\ Head(r.jobs).does = "clear" /\ Live(p)
      /\ LateCleanup \/ ~r.clean
      /\ proven' = proven /\ helpers' = helpers /\ saved' = saved /\ published' = published
  BY DEF Clear, Working
<1>2. InstallFailed(p) => Put(p, f) BY <1>0, Finishing DEF InstallFailed
<1>3. /\ r.at = "working" /\ Keeps(r, f) /\ ~Staging(f) /\ f.status = r.status
      /\ f.at # "ready" /\ Swaps(f) = Swaps(r)
  BY <1>0, <1>1, FinishedKeeps DEF Swaps
<1>4. \/ InstallFailed(p) /\ disk' = disk
      \/ ~OnlyCopy /\ disk' = Cleared /\ Put(p, u)
      \/ ~OnlyCopy /\ disk' \in {disk, Cleared} /\ InstallFailed(p)
  BY Zenon DEF Clear
<1>5. left' \in [troubles : Nat, switches : Nat] BY DEF Clear, Trouble, Troubles, Types
<1>6. Queue(j, r.checking, TRUE)
  BY <1>0, <1>1, <1>3, QueueOn DEF Good
<1>7. j \in Seq(Job) BY <1>6 DEF Queue
<1> HIDE DEF j, f
<1>8. /\ u \in Running /\ u.jobs = j /\ u.at = r.at /\ u.checking = r.checking
      /\ u.status = r.status /\ Finds(u) = Finds(r) /\ Quits(u) = Quits(r)
      /\ Swaps(u) = Swaps(r)
  BY <1>0, <1>7, Zenon DEF Running, Finds, Quits, Swaps
<1> HIDE DEF u
<1>9. Good(u) BY <1>3, <1>6, <1>8 DEF Good
<1>10. Keeps(r, u) /\ u.at # "ready" BY <1>3, <1>8, <1>9, KeepsPlain
<1>11. \E s : /\ Moves(p, s) /\ Swaps(s) = Swaps(r) /\ s.status = r.status
              /\ s.at # "ready"
              /\ \/ disk' = disk /\ ~Staging(s)
                 \/ disk' = Cleared /\ ~OnlyCopy
  <2>1. CASE InstallFailed(p) /\ (disk' = disk \/ (disk' = Cleared /\ ~OnlyCopy))
    BY <1>2, <1>3, <2>1 DEF Moves
  <2>2. CASE ~OnlyCopy /\ disk' = Cleared /\ Put(p, u)
    BY <1>8, <1>10, <2>2 DEF Moves
  <2> QED BY <1>4, <2>1, <2>2
<1> QED BY <1>1, <1>3, <1>5, <1>11 DEF Rest, Types

LEMMA UnpackFacts ==
  ASSUME Types, NEW p \in Process, Unpack(p)
  PROVE  LET r == procs[p]
         IN  /\ \E s : /\ Moves(p, s) /\ ~Staging(s) /\ s.status = r.status
                       /\ s.swapping = r.swapping /\ s.clean = r.clean
                       /\ \/ disk' = Cleared /\ s.at = "failed"
                          \/ \E v \in 0..MaxVersion : disk' = [disk EXCEPT !.new = v]
             /\ r.at = "working" /\ Staging(r)
             /\ Live(p) /\ proven' = proven /\ helpers' = helpers /\ Rest
<1> DEFINE r == procs[p]
           f == Finished(r, "failed", r.applied)
           u == Finished(r, "ready", FALSE)
<1>0. Good(r) /\ r \in Running /\ r.applied \in BOOLEAN BY Process0, Fields
<1>1. /\ r.jobs # <<>> /\ Head(r.jobs).does = "unpack" /\ Live(p)
      /\ proven' = proven /\ helpers' = helpers /\ saved' = saved /\ published' = published
  BY DEF Unpack, Working
<1>2. InstallFailed(p) => Put(p, f) BY <1>0, Finishing DEF InstallFailed
<1>3. /\ r.at = "working" /\ Keeps(r, f) /\ ~Staging(f) /\ f.status = r.status
      /\ f.at = "failed" /\ f.swapping = r.swapping /\ f.clean = r.clean
  BY <1>0, <1>1, FinishedKeeps
<1>4. /\ Keeps(r, u) /\ ~Staging(u) /\ u.status = r.status
      /\ u.swapping = r.swapping /\ u.clean = r.clean
  BY <1>0, <1>1, FinishedKeeps
<1>5. \/ disk' = [disk EXCEPT !.new = Head(r.jobs).version] /\ Put(p, u)
      \/ disk' = Cleared /\ Put(p, f)
  BY <1>0, <1>2, Finishing DEF Unpack
<1>6. left' \in [troubles : Nat, switches : Nat] BY DEF Unpack, Trouble, Troubles, Types
<1>7. r.jobs \in Seq(Job) BY <1>0, Fields
<1>8. Head(r.jobs) \in Job /\ Head(r.jobs) = r.jobs[1] /\ Len(r.jobs) \in Nat /\ Len(r.jobs) # 0
  BY <1>1, <1>7
<1>9. Head(r.jobs).version \in 0..MaxVersion BY <1>8 DEF Job
<1>10. Staging(r) BY <1>1, <1>8 DEF Staging
<1> HIDE DEF f, u
<1>11. \E s : /\ Moves(p, s) /\ ~Staging(s) /\ s.status = r.status
              /\ s.swapping = r.swapping /\ s.clean = r.clean
              /\ \/ disk' = Cleared /\ s.at = "failed"
                 \/ \E v \in 0..MaxVersion : disk' = [disk EXCEPT !.new = v]
  BY <1>3, <1>4, <1>5, <1>9 DEF Moves
<1> QED BY <1>1, <1>3, <1>6, <1>10, <1>11 DEF Rest, Types

(* The first rename, or a swap that failed.                                *)
Swapped(r, at, swapping) == [r EXCEPT !.at = at, !.swapping = swapping]

LEMMA SwappedKeeps ==
  ASSUME NEW r, Good(r), r.at = "ready", NEW at \in {"ready", "failed"}, NEW swapping \in BOOLEAN
  PROVE  LET s == Swapped(r, at, swapping)
         IN  /\ Keeps(r, s) /\ s.at = at /\ s.swapping = swapping
             /\ s.status = r.status /\ s.clean = r.clean /\ s.applied = r.applied
             /\ s.jobs = r.jobs
<1> DEFINE s == Swapped(r, at, swapping)
<1>0. r \in Running BY DEF Good
<1>1. /\ s \in Running /\ s.jobs = r.jobs /\ s.at = at /\ s.swapping = swapping
      /\ s.checking = r.checking /\ s.clean = r.clean /\ s.applied = r.applied
      /\ s.status = r.status /\ Finds(s) = Finds(r) /\ Quits(s) = Quits(r)
  BY <1>0, Zenon DEF Swapped, Running, Finds, Quits
<1> HIDE DEF s
<1>2. Good(s) BY <1>1 DEF Good
<1>3. Keeps(r, s) BY <1>1, <1>2, KeepsPlain
<1> QED BY <1>1, <1>3 DEF s

LEMMA Swapping ==
  ASSUME NEW r, r \in Running
  PROVE  /\ r.at = "ready" => [r EXCEPT !.swapping = TRUE] = Swapped(r, "ready", TRUE)
         /\ [r EXCEPT !.at = "failed", !.swapping = FALSE] = Swapped(r, "failed", FALSE)
BY Zenon DEF Running, Swapped

LEMMA RestartFacts ==
  ASSUME Types, NEW p \in Process, Restart(p)
  PROVE  LET r == procs[p]
         IN  /\ \E s : /\ Moves(p, s) /\ s.jobs = r.jobs /\ s.status = "running"
                       /\ s.clean = r.clean /\ s.applied = r.applied
                       /\ \/ s.at = "failed" /\ ~s.swapping /\ disk' = disk
                          \/ /\ s.at = "ready" /\ disk.app # 0
                             /\ disk' = [disk EXCEPT !.app = 0, !.old = disk.app]
             /\ r.at = "ready" /\ ~r.applied
             /\ Live(p) /\ proven' = proven /\ helpers' = helpers /\ Rest
<1> DEFINE r == procs[p]
           s == Swapped(r, "ready", TRUE)
           f == Swapped(r, "failed", FALSE)
<1>0. Good(r) /\ r \in Running BY Process0
<1>1. /\ r.at = "ready" /\ ~r.applied /\ r.status = "running"
      /\ proven' = proven /\ helpers' = helpers /\ saved' = saved /\ published' = published
  BY DEF Restart, Free
<1>2. \/ disk.app # 0 /\ disk' = [disk EXCEPT !.app = 0, !.old = disk.app] /\ Put(p, s)
      \/ Put(p, f) /\ disk' = disk
  BY <1>0, <1>1, Swapping DEF Restart, SwapFailed
<1>3. left' \in [troubles : Nat, switches : Nat]
  BY DEF Restart, Troubles, Types, Cost
<1>4. /\ Keeps(r, s) /\ s.at = "ready" /\ s.jobs = r.jobs
      /\ s.status = r.status /\ s.clean = r.clean /\ s.applied = r.applied
  BY <1>0, <1>1, SwappedKeeps
<1>5. /\ Keeps(r, f) /\ f.at = "failed" /\ f.jobs = r.jobs /\ ~f.swapping
      /\ f.status = r.status /\ f.clean = r.clean /\ f.applied = r.applied
  BY <1>0, <1>1, SwappedKeeps
<1> HIDE DEF s, f
<1>6. Live(p) BY <1>1 DEF Live
<1> QED BY <1>1, <1>2, <1>3, <1>4, <1>5, <1>6 DEF Moves, Rest, Types

(* The second rename: the app is asked to quit, and asks or exits.         *)
Replaced(r, asked, status) ==
  [r EXCEPT !.swapping = FALSE, !.applied = TRUE, !.armed = TRUE,
            !.asked = asked, !.status = status]

LEMMA ReplacedKeeps ==
  ASSUME NEW r, Good(r), NEW asked \in {"no", "quit", "close"}, NEW status \in {"running", "exiting"},
         asked = "quit" \/ status = "exiting"
  PROVE  LET s == Replaced(r, asked, status)
         IN  /\ Keeps(r, s) /\ s.at = r.at /\ s.applied /\ ~s.swapping
             /\ s.status = status /\ s.clean = r.clean /\ s.jobs = r.jobs
<1> DEFINE s == Replaced(r, asked, status)
<1>0. r \in Running BY DEF Good
<1>1. /\ s \in Running /\ s.jobs = r.jobs /\ s.at = r.at /\ s.swapping = FALSE
      /\ s.checking = r.checking /\ s.clean = r.clean /\ s.applied = TRUE
      /\ s.asked = asked /\ s.status = status /\ Finds(s) = Finds(r)
  BY <1>0, Zenon DEF Replaced, Running, Finds
<1> HIDE DEF s
<1>2. Good(s) BY <1>1 DEF Good
<1>3. Fits(r) => Fits(s) BY <1>1 DEF Fits, Finds
<1>4. Keeps(r, s) BY <1>1, <1>2, <1>3 DEF Keeps, Steady
<1> QED BY <1>1, <1>4 DEF s

LEMMA Replacing ==
  ASSUME NEW r, r \in Running
  PROVE  /\ [Placed(r) EXCEPT !.asked = "quit"] = Replaced(r, "quit", r.status)
         /\ [Placed(r) EXCEPT !.status = "exiting"] = Replaced(r, r.asked, "exiting")
BY Zenon DEF Running, Placed, Replaced

LEMMA PutInPlaceFacts ==
  ASSUME Types, NEW p \in Process, PutInPlace(p)
  PROVE  LET r == procs[p]
         IN  /\ \E s : /\ Moves(p, s) /\ s.jobs = r.jobs /\ s.status # "off" /\ ~s.swapping
                       /\ s.clean = r.clean
                       /\ \/ /\ disk.new # 0 /\ s.at = "ready" /\ s.applied
                             /\ disk' = [disk EXCEPT !.app = disk.new, !.new = 0]
                          \/ /\ disk.old # 0 /\ s.at = "failed"
                             /\ disk' = [disk EXCEPT !.app = disk.old, !.old = 0]
                          \/ s.at = "failed" /\ disk' = disk
             /\ r.swapping /\ Live(p) /\ proven' = proven
             /\ helpers' \subseteq helpers \cup {p} /\ Rest
<1> DEFINE r == procs[p]
           f == Swapped(r, "failed", FALSE)
           q == Replaced(r, "quit", "running")
           e == Replaced(r, r.asked, "exiting")
           placed == Placed(r)
<1>0. Good(r) /\ r \in Running /\ r.asked \in {"no", "quit", "close"} BY Process0, Fields
<1>1. /\ r.swapping /\ r.at = "ready" /\ r.status = "running"
      /\ proven' = proven /\ saved' = saved /\ published' = published
  BY DEF PutInPlace, Types, Whole
<1>2. \/ /\ disk.new # 0 /\ disk' = [disk EXCEPT !.app = disk.new, !.new = 0]
         /\ RequestQuit(p, placed)
      \/ /\ disk.old # 0 /\ disk' = [disk EXCEPT !.app = disk.old, !.old = 0]
         /\ Put(p, f) /\ helpers' = helpers
         /\ Troubles(Cost(disk.new))
      \/ /\ disk' = disk /\ Put(p, f) /\ helpers' = helpers
         /\ Troubles(Cost(disk.new) + Cost(disk.old))
  BY <1>0, Swapping, Zenon DEF PutInPlace, SwapFailed
<1>3. RequestQuit(p, placed)
        => /\ Put(p, q) \/ Put(p, e)
           /\ helpers' \subseteq helpers \cup {p} /\ left' \in [troubles : Nat, switches : Nat]
  <2> HAVE RequestQuit(p, placed)
  <2>1. [placed EXCEPT !.asked = "quit"] = q /\ [placed EXCEPT !.status = "exiting"] = e
    BY <1>0, <1>1, Replacing
  <2> HIDE DEF placed, q, e
  <2> QED BY <2>1 DEF RequestQuit, Exit, Trouble, Troubles, Types
<1>4. /\ Keeps(r, f) /\ f.at = "failed" /\ f.jobs = r.jobs /\ ~f.swapping
      /\ f.status = r.status /\ f.clean = r.clean
  BY <1>0, <1>1, SwappedKeeps
<1>5. /\ Keeps(r, q) /\ q.at = "ready" /\ q.applied /\ ~q.swapping
      /\ q.status = "running" /\ q.clean = r.clean /\ q.jobs = r.jobs
  BY <1>0, <1>1, ReplacedKeeps
<1>6. /\ Keeps(r, e) /\ e.at = "ready" /\ e.applied /\ ~e.swapping
      /\ e.status = "exiting" /\ e.clean = r.clean /\ e.jobs = r.jobs
  BY <1>0, <1>1, ReplacedKeeps
<1> HIDE DEF f, q, e, placed
<1>7. Troubles(Cost(disk.new)) \/ Troubles(Cost(disk.new) + Cost(disk.old))
        => left' \in [troubles : Nat, switches : Nat]
  BY DEF Troubles, Types, Cost
<1>8. /\ left' \in [troubles : Nat, switches : Nat]
      /\ helpers' \subseteq helpers \cup {p}
      /\ Put(p, f) \/ Put(p, q) \/ Put(p, e)
  BY <1>2, <1>3, <1>7
<1>9. \E s : /\ Moves(p, s) /\ s.jobs = r.jobs /\ s.status # "off" /\ ~s.swapping
             /\ s.clean = r.clean
             /\ \/ /\ disk.new # 0 /\ s.at = "ready" /\ s.applied
                   /\ disk' = [disk EXCEPT !.app = disk.new, !.new = 0]
                \/ /\ disk.old # 0 /\ s.at = "failed"
                   /\ disk' = [disk EXCEPT !.app = disk.old, !.old = 0]
                \/ s.at = "failed" /\ disk' = disk
  <2>1. CASE /\ disk.new # 0 /\ disk' = [disk EXCEPT !.app = disk.new, !.new = 0]
             /\ RequestQuit(p, placed)
    BY <1>3, <1>5, <1>6, <2>1, Zenon DEF Moves
  <2>2. CASE /\ disk.old # 0 /\ disk' = [disk EXCEPT !.app = disk.old, !.old = 0]
             /\ Put(p, f)
    BY <1>1, <1>4, <2>2, Zenon DEF Moves
  <2>3. CASE disk' = disk /\ Put(p, f) BY <1>1, <1>4, <2>3, Zenon DEF Moves
  <2> QED BY <1>2, <2>1, <2>2, <2>3
<1>10. Live(p) BY <1>1 DEF Live
<1> QED BY <1>1, <1>8, <1>9, <1>10 DEF Rest, Types

LEMMA BeginFacts ==
  ASSUME Types, NEW p \in Process, Begin(p)
  PROVE  /\ \E s : /\ Moves(p, s) /\ s.status = "running" /\ s.clean /\ ~s.swapping
                   /\ s.at = "idle" /\ s.jobs = <<>>
         /\ ~Live(p) /\ disk.app # 0 /\ proven' = proven \cup {disk.app} /\ proven' \subseteq Version
<1> DEFINE c == IF saved = "none" THEN OwnChannel(disk.app) ELSE saved
           s == [Off EXCEPT !.status = "running", !.version = disk.app, !.clean = TRUE,
                            !.channel = c]
<1>1. procs[p] = Off /\ disk.app # 0 /\ Put(p, s) /\ proven' = proven \cup {disk.app}
  BY Zenon DEF Begin
<1>2. disk.app \in 0..MaxVersion /\ c \in Channel
  BY DEF Types, Files, OwnChannel, Channel
<1> HIDE DEF c
<1>3. Off \in Running BY OffGood DEF Good
<1>4. /\ s \in Running /\ s.status = "running" /\ s.clean = TRUE /\ s.offer = Off.offer
      /\ s.at = Off.at /\ s.jobs = Off.jobs /\ s.swapping = Off.swapping
      /\ s.armed = Off.armed /\ s.checking = Off.checking
  BY <1>2, <1>3, Zenon DEF Running
<1>5. /\ Off.offer = 0 /\ Off.at = "idle" /\ Off.jobs = <<>> /\ ~Off.swapping /\ ~Off.armed
      /\ Off.status = "off"
  BY DEF Off
<1> HIDE DEF s
<1>6. Good(s) BY <1>4, OffGood DEF Good
<1>7. Keeps(procs[p], s) BY <1>4, <1>5, <1>6 DEF Keeps, Fits, Steady
<1>8. proven' \subseteq Version
  <2>1. disk.app \in Version BY <1>1, <1>2, Constants DEF Version
  <2> QED BY <1>1, <2>1 DEF Types
<1>9. ~Live(p) BY <1>1, <1>5 DEF Live
<1> QED BY <1>1, <1>4, <1>5, <1>7, <1>8, <1>9 DEF Moves

LEMMA CleanUpFacts ==
  ASSUME Types, NEW p \in Process, CleanUp(p)
  PROVE  LET r == procs[p]
         IN  /\ \E s : /\ Moves(p, s) /\ s.jobs = r.jobs /\ s.status = r.status /\ s.at = r.at
                       /\ s.swapping = r.swapping /\ s.applied = r.applied /\ ~s.clean
             /\ r.clean /\ disk' \in {disk, Cleared}
             /\ Live(p) /\ proven' = proven /\ helpers' = helpers /\ Rest
<1> DEFINE r == procs[p]
           s == [r EXCEPT !.clean = FALSE]
<1>0. Good(r) /\ r \in Running BY Process0
<1>1. /\ Put(p, s) /\ r.clean /\ disk' \in {disk, Cleared} /\ Live(p)
      /\ proven' = proven /\ helpers' = helpers /\ saved' = saved /\ published' = published
  BY Zenon DEF CleanUp
<1>2. left' \in [troubles : Nat, switches : Nat] BY DEF CleanUp, Trouble, Troubles, Types
<1>3. /\ s \in Running /\ s.jobs = r.jobs /\ s.at = r.at /\ s.swapping = r.swapping
      /\ s.checking = r.checking /\ s.clean = FALSE /\ s.applied = r.applied
      /\ s.status = r.status /\ Finds(s) = Finds(r) /\ Quits(s) = Quits(r)
  BY <1>0, Zenon DEF Running, Finds, Quits
<1> HIDE DEF s
<1>4. Good(s) BY <1>0, <1>3 DEF Good
<1>5. Keeps(r, s) BY <1>3, <1>4, KeepsPlain
<1> QED BY <1>1, <1>2, <1>3, <1>5 DEF Moves, Rest, Types

LEMMA EndFacts ==
  ASSUME Types, NEW p \in Process, Gone(p) \/ Crash(p)
  PROVE  /\ Moves(p, Off) /\ Live(p) /\ disk' = disk /\ proven' = proven
         /\ helpers' = helpers /\ Rest
<1>1. /\ Put(p, Off) /\ Live(p) /\ disk' = disk /\ proven' = proven
      /\ helpers' = helpers /\ saved' = saved /\ published' = published
  BY DEF Gone, Crash, Live
<1>2. left' \in [troubles : Nat, switches : Nat] BY DEF Gone, Crash, Trouble, Troubles, Types
<1> QED BY <1>1, <1>2, OffGood DEF Moves, Keeps, Rest, Types

-----------------------------------------------------------------------------
(*                       Types, offers and the arming                      *)

Offers == \A p \in Process : Fits(procs[p])

Steadily == \A p \in Process : Steady(procs[p])

Keep == Types' /\ (Offers => Offers') /\ (~CloseWhileAsked /\ Steadily => Steadily')

LEMMA MovesKeep ==
  ASSUME Types, NEW p \in Process, NEW s, Moves(p, s), Whole(s), Rest,
         helpers' \subseteq helpers \cup {p}, proven' \subseteq Version, disk' \in Files
  PROVE  Keep
<1>1. /\ procs' \in [Process -> Running]
      /\ \A q \in Process : procs'[q] = IF q = p THEN s ELSE procs[q]
  <2>1. s \in Running BY DEF Moves, Keeps, Good
  <2> QED BY <2>1 DEF Moves, Put, Types
<1>2. Keeps(procs[p], s) BY DEF Moves
<1>3. \A q \in Process : Good(procs'[q]) /\ Whole(procs'[q]) BY <1>1, <1>2 DEF Types, Keeps
<1>4. Types' BY <1>1, <1>3 DEF Types, Rest
<1>5. Offers => Offers' BY <1>1, <1>2 DEF Keeps, Offers
<1>6. ~CloseWhileAsked /\ Steadily => Steadily' BY <1>1, <1>2 DEF Keeps, Steadily
<1> QED BY <1>4, <1>5, <1>6 DEF Keep

LEMMA StillKeeps ==
  ASSUME Types, procs' = procs, Rest, helpers' \subseteq helpers, proven' = proven, disk' \in Files
  PROVE  Keep
<1>1. Types' BY DEF Types, Rest
<1> QED BY <1>1 DEF Keep, Offers, Steadily

LEMMA CalmKeeps == ASSUME Types, NEW p \in Process, Calm(p), Rest PROVE Keep
<1>1. PICK s : Moves(p, s) /\ Quiet(procs[p], s) BY DEF Calm
<1>2. Whole(s) BY <1>1 DEF Quiet, Swaps, Whole, Types
<1>3. disk' \in Files /\ proven' \subseteq Version /\ helpers' \subseteq helpers \cup {p}
  BY DEF Calm, Types
<1> QED BY <1>1, <1>2, <1>3, MovesKeep

(* The renames.                                                            *)
LEMMA Renames ==
  ASSUME Types
  PROVE  /\ LET d == [disk EXCEPT !.app = 0, !.old = disk.app]
            IN  d \in Files /\ d.app = 0 /\ d.old = disk.app
         /\ LET d == [disk EXCEPT !.app = disk.new, !.new = 0]
            IN  d \in Files /\ d.app = disk.new /\ d.old = disk.old
         /\ LET d == [disk EXCEPT !.app = disk.old, !.old = 0]
            IN  d \in Files /\ d.app = disk.old /\ d.old = 0
<1>1. disk \in Files /\ 0 \in 0..MaxVersion BY Constants DEF Types
<1>2. disk.app \in 0..MaxVersion /\ disk.new \in 0..MaxVersion /\ disk.old \in 0..MaxVersion
  BY <1>1, Zenon DEF Files
<1> QED BY <1>1, <1>2, Zenon DEF Files

Still == PutBack \/ (\E v \in Version : Publish(v)) \/ (\E p \in Process : GiveUp(p))

LEMMA StillFacts ==
  ASSUME Types, Still
  PROVE  procs' = procs /\ Rest /\ helpers' \subseteq helpers /\ proven' = proven /\ disk' \in Files
<1>1. CASE PutBack BY <1>1, Renames DEF PutBack, Rest, Types
<1>2. ASSUME NEW v \in Version, Publish(v)
      PROVE  procs' = procs /\ Rest /\ helpers' \subseteq helpers /\ proven' = proven /\ disk' \in Files
  BY <1>2 DEF Publish, Rest, Types
<1>3. ASSUME NEW p \in Process, GiveUp(p)
      PROVE  procs' = procs /\ Rest /\ helpers' \subseteq helpers /\ proven' = proven /\ disk' \in Files
  <2>1. left' \in [troubles : Nat, switches : Nat] BY <1>3 DEF GiveUp, Troubles, Types, Cost
  <2> QED BY <1>3, <2>1 DEF GiveUp, Rest, Types
<1> QED BY <1>1, <1>2, <1>3 DEF Still

(* Every step is one of these.                                             *)
LEMMA Cases ==
  ASSUME Next
  PROVE  \/ Still
         \/ \E p \in Process :
              \/ Looks(p) \/ Decides(p) \/ Clear(p) \/ Unpack(p) \/ Restart(p) \/ PutInPlace(p)
              \/ Open(p) \/ CleanUp(p) \/ Gone(p) \/ Crash(p)
              \/ \E q \in Process : Relaunch(p, q)
BY DEF Next, Runs, Still, Looks, Decides

LEMMA Stepping == ASSUME Types, Next PROVE Keep
<1>1. CASE Still BY <1>1, StillFacts, StillKeeps
<1>2. ASSUME NEW p \in Process, Looks(p) PROVE Keep BY <1>2, LooksCalm, CalmKeeps
<1>3. ASSUME NEW p \in Process, Decides(p) PROVE Keep BY <1>3, DecidesCalm, CalmKeeps
<1>4. ASSUME NEW p \in Process, Clear(p) PROVE Keep
  <2>1. PICK s : /\ Moves(p, s) /\ Swaps(s) = Swaps(procs[p]) /\ s.status = procs[p].status
                 /\ disk' \in {disk, Cleared}
    BY <1>4, ClearFacts
  <2>2. procs[p].at = "working" /\ proven' = proven /\ helpers' = helpers /\ Rest
    BY <1>4, ClearFacts
  <2>3. Whole(s) BY <2>1, <2>2 DEF Whole, Swaps, Types
  <2>4. disk' \in Files /\ proven' \subseteq Version /\ helpers' \subseteq helpers \cup {p}
    BY <2>1, <2>2, Cleaning DEF Types
  <2> QED BY <2>1, <2>2, <2>3, <2>4, MovesKeep
<1>5. ASSUME NEW p \in Process, Unpack(p) PROVE Keep
  <2>1. PICK s : /\ Moves(p, s) /\ s.swapping = procs[p].swapping
                 /\ \/ disk' = Cleared
                    \/ \E v \in 0..MaxVersion : disk' = [disk EXCEPT !.new = v]
    BY <1>5, UnpackFacts
  <2>2. procs[p].at = "working" /\ proven' = proven /\ helpers' = helpers /\ Rest
    BY <1>5, UnpackFacts
  <2>3. Whole(s) BY <2>1, <2>2 DEF Whole, Types
  <2>4. disk' \in Files /\ proven' \subseteq Version /\ helpers' \subseteq helpers \cup {p}
    BY <2>1, <2>2, Cleaning DEF Types
  <2> QED BY <2>1, <2>2, <2>3, <2>4, MovesKeep
<1>6. ASSUME NEW p \in Process, Restart(p) PROVE Keep
  <2>1. PICK s : /\ Moves(p, s) /\ s.status = "running"
                 /\ \/ ~s.swapping /\ disk' = disk
                    \/ s.at = "ready" /\ disk' = [disk EXCEPT !.app = 0, !.old = disk.app]
    BY <1>6, RestartFacts
  <2>2. proven' = proven /\ helpers' = helpers /\ Rest BY <1>6, RestartFacts
  <2>3. Whole(s) BY <2>1 DEF Whole
  <2>4. disk' \in Files /\ proven' \subseteq Version /\ helpers' \subseteq helpers \cup {p}
    BY <2>1, <2>2, Renames DEF Types
  <2> QED BY <2>1, <2>2, <2>3, <2>4, MovesKeep
<1>7. ASSUME NEW p \in Process, PutInPlace(p) PROVE Keep
  <2>1. PICK s : /\ Moves(p, s) /\ ~s.swapping
                 /\ \/ disk' = [disk EXCEPT !.app = disk.new, !.new = 0]
                    \/ disk' = [disk EXCEPT !.app = disk.old, !.old = 0]
                    \/ disk' = disk
    BY <1>7, PutInPlaceFacts
  <2>2. proven' = proven /\ helpers' \subseteq helpers \cup {p} /\ Rest BY <1>7, PutInPlaceFacts
  <2>3. Whole(s) BY <2>1 DEF Whole
  <2>4. disk' \in Files /\ proven' \subseteq Version BY <2>1, <2>2, Renames DEF Types
  <2> QED BY <2>1, <2>2, <2>3, <2>4, MovesKeep
<1>8. ASSUME NEW p \in Process, Begin(p), helpers' \subseteq helpers, Rest, disk' = disk PROVE Keep
  <2>1. PICK s : Moves(p, s) /\ ~s.swapping BY <1>8, BeginFacts
  <2>2. proven' \subseteq Version /\ disk' \in Files BY <1>8, BeginFacts DEF Types
  <2> QED BY <1>8, <2>1, <2>2, MovesKeep DEF Whole
<1>9. ASSUME NEW p \in Process, Open(p) PROVE Keep
  BY <1>8, <1>9 DEF Open, Rest, Types
<1>10. ASSUME NEW p \in Process, NEW q \in Process, Relaunch(p, q) PROVE Keep
  BY <1>8, <1>10 DEF Relaunch, Rest, Types
<1>11. ASSUME NEW p \in Process, CleanUp(p) PROVE Keep
  <2>1. PICK s : /\ Moves(p, s) /\ s.status = procs[p].status /\ s.at = procs[p].at
                 /\ s.swapping = procs[p].swapping
    BY <1>11, CleanUpFacts
  <2>2. disk' \in {disk, Cleared} /\ proven' = proven /\ helpers' = helpers /\ Rest
    BY <1>11, CleanUpFacts
  <2>3. Whole(s) BY <2>1 DEF Whole, Types
  <2>4. disk' \in Files /\ proven' \subseteq Version /\ helpers' \subseteq helpers \cup {p}
    BY <2>2, Cleaning DEF Types
  <2> QED BY <2>1, <2>2, <2>3, <2>4, MovesKeep
<1>12. ASSUME NEW p \in Process, Gone(p) \/ Crash(p) PROVE Keep
  <2>1. /\ Moves(p, Off) /\ disk' \in Files /\ proven' \subseteq Version
        /\ helpers' \subseteq helpers \cup {p} /\ Rest
    BY <1>12, EndFacts DEF Types
  <2>2. Whole(Off) BY OffGood DEF Whole
  <2> QED BY <2>1, <2>2, MovesKeep
<1> QED BY <1>1, <1>2, <1>3, <1>4, <1>5, <1>6, <1>7, <1>9, <1>10, <1>11, <1>12, Cases

LEMMA Starting == ASSUME Init PROVE Types /\ Offers /\ Steadily
<1>1. /\ procs \in [Process -> Running]
      /\ \A p \in Process : procs[p] = Off
  BY OffGood DEF Init, Good
<1>2. disk \in Files /\ proven \subseteq Version BY Constants DEF Init, Files, Version
<1>3. left \in [troubles : Nat, switches : Nat] BY Constants DEF Init
<1>4. Types BY <1>1, <1>2, <1>3, OffGood DEF Init, Types, Whole
<1> QED BY <1>1, <1>4, OffGood DEF Offers, Steadily

LEMMA Idling == ASSUME Types, UNCHANGED vars PROVE Keep
BY DEF Types, Keep, Offers, Steadily, vars

LEMMA Sound == Spec => [](Types /\ Offers)
<1>1. Init => Types /\ Offers BY Starting
<1>2. Types /\ Offers /\ [Next]_vars => (Types /\ Offers)'
  BY Stepping, Idling DEF Keep
<1> QED BY <1>1, <1>2, PTL DEF Spec

(* Every variable keeps its type, whatever the processes and the worker    *)
(* do, and the worker's queue stays short (TypeOK).                        *)
THEOREM Typed == Spec => []TypeOK
<1>1. Types => TypeOK BY DEF Types, TypeOK, Good, Queue, Files
<1> QED BY <1>1, Sound, PTL

(* What a process offers fits its own version and the channel chosen now,  *)
(* in whatever order answers and switches come (OfferFits).                *)
THEOREM OffersFit == Spec => []OfferFits
<1>1. Offers => OfferFits BY DEF Offers, Fits, OfferFits
<1> QED BY <1>1, Sound, PTL

(* As long as the tab that asks about the quit is not closed under its     *)
(* question, nothing stays armed once the quit was called off              *)
(* (ArmedWhileQuitting).                                                   *)
THEOREM OnlyWhileQuitting ==
  ASSUME CloseWhileAsked = FALSE
  PROVE  Spec => []ArmedWhileQuitting
<1>1. Init => Types /\ Steadily BY Starting
<1>2. Types /\ Steadily /\ [Next]_vars => (Types /\ Steadily)'
  BY Stepping, Idling DEF Keep
<1>3. Steadily => ArmedWhileQuitting BY DEF Steadily, Steady, ArmedWhileQuitting
<1> QED BY <1>1, <1>2, <1>3, PTL DEF Spec

-----------------------------------------------------------------------------
(*                       One process at a time                             *)

(* One process lives, and a helper waits for no other.                     *)
Alone ==
  /\ \A p, q \in Process : Live(p) /\ Live(q) => p = q
  /\ \A p \in helpers, q \in Process : Live(q) => q = p
  /\ \A p, q \in helpers : p = q

(* Whoever a step belongs to is the only one who lives after it.           *)
Sole(p) ==
  /\ \E s : Moves(p, s)
  /\ \A q \in Process : q # p => ~Live(q)
  /\ helpers' \subseteq {p}

LEMMA LiveSole ==
  ASSUME Types, Alone, NEW p \in Process, Live(p), helpers' \subseteq helpers \cup {p}
  PROVE  (\A q \in Process : q # p => ~Live(q)) /\ helpers' \subseteq {p}
BY DEF Alone, Types

LEMMA SoleAlone ==
  ASSUME Types, NEW p \in Process, Sole(p)
  PROVE  Alone' /\ \A q \in Process : q # p => procs'[q] = procs[q] /\ ~Live(q)'
<1>1. \A q \in Process : q # p => procs'[q] = procs[q] BY DEF Sole, Moves, Put, Types
<1>2. \A q \in Process : q # p => ~Live(q)' BY <1>1 DEF Sole, Live
<1> QED BY <1>1, <1>2 DEF Alone, Sole

LEMMA StillAlone ==
  ASSUME Types, Alone, procs' = procs, helpers' \subseteq helpers
  PROVE  Alone'
BY DEF Alone, Live

LEMMA Starts ==
  ASSUME Types, Alone, SecondCopy = FALSE, NEW p \in Process,
         Open(p) \/ \E q \in Process : Relaunch(q, p)
  PROVE  Begin(p) /\ Sole(p) /\ disk' = disk
<1>1. CASE Open(p)
  <2>1. Begin(p) /\ helpers' = {} /\ disk' = disk /\ \A q \in Process : ~Live(q)
    BY <1>1 DEF Open
  <2> QED BY <2>1, BeginFacts DEF Sole
<1>2. ASSUME NEW q \in Process, Relaunch(q, p) PROVE Begin(p) /\ Sole(p) /\ disk' = disk
  <2>1. q \in helpers /\ ~Live(q) /\ Begin(p) /\ helpers' = helpers \ {q} /\ disk' = disk
    BY <1>2 DEF Relaunch, MayOpen
  <2>2. helpers' = {} /\ \A r \in Process : ~Live(r) BY <2>1 DEF Alone
  <2> QED BY <2>1, <2>2, BeginFacts DEF Sole
<1> QED BY <1>1, <1>2

(* Who makes a step of a process that runs.                                *)
Acts(p) ==
  Looks(p) \/ Decides(p) \/ Clear(p) \/ Unpack(p) \/ Restart(p) \/ PutInPlace(p)
    \/ CleanUp(p) \/ Gone(p) \/ Crash(p)

LEMMA ActsSole ==
  ASSUME Types, Alone, NEW p \in Process, Acts(p)
  PROVE  Sole(p) /\ Live(p)
<1>1. (\E s : Moves(p, s)) /\ Live(p) /\ helpers' \subseteq helpers \cup {p}
  <2>1. CASE Looks(p) BY <2>1, LooksCalm DEF Calm
  <2>2. CASE Decides(p) BY <2>2, DecidesCalm DEF Calm
  <2>3. CASE Clear(p) BY <2>3, ClearFacts
  <2>4. CASE Unpack(p) BY <2>4, UnpackFacts
  <2>5. CASE Restart(p) BY <2>5, RestartFacts
  <2>6. CASE PutInPlace(p) BY <2>6, PutInPlaceFacts
  <2>7. CASE CleanUp(p) BY <2>7, CleanUpFacts
  <2>8. CASE Gone(p) \/ Crash(p) BY <2>8, EndFacts
  <2> QED BY <2>1, <2>2, <2>3, <2>4, <2>5, <2>6, <2>7, <2>8 DEF Acts
<1> QED BY <1>1, LiveSole DEF Sole

LEMMA Steps ==
  ASSUME Next
  PROVE  \/ Still \/ \E p \in Process : Acts(p)
         \/ \E p \in Process : Open(p) \/ \E q \in Process : Relaunch(q, p)
BY Cases DEF Acts

LEMMA StaysAlone == ASSUME Types, Alone, SecondCopy = FALSE, Next PROVE Alone'
<1>1. CASE Still BY <1>1, StillFacts, StillAlone
<1>2. ASSUME NEW p \in Process, Acts(p) PROVE Alone' BY <1>2, ActsSole, SoleAlone
<1>3. ASSUME NEW p \in Process, Open(p) \/ \E q \in Process : Relaunch(q, p) PROVE Alone'
  BY <1>3, Starts, SoleAlone
<1> QED BY <1>1, <1>2, <1>3, Steps

LEMMA StartsAlone == ASSUME Init PROVE Alone
<1>1. \A p \in Process : ~Live(p) BY OffGood DEF Init, Live
<1> QED BY <1>1 DEF Alone, Init

(* As long as the user opens no second copy, two processes never have the  *)
(* database open: no helper opens the new version while the old one lives  *)
(* (OneDatabase).                                                          *)
THEOREM NeverTwo ==
  ASSUME SecondCopy = FALSE
  PROVE  Spec => []OneDatabase
<1>1. Init => Types /\ Alone BY Starting, StartsAlone
<1>2. Types /\ Alone /\ [Next]_vars => (Types /\ Alone)'
  <2>1. ASSUME Types, Alone, UNCHANGED vars PROVE Alone' BY <2>1, StillAlone DEF vars
  <2> QED BY <2>1, Stepping, Idling, StaysAlone DEF Keep
<1>3. Alone => OneDatabase BY DEF Alone, OneDatabase
<1> QED BY <1>1, <1>2, <1>3, PTL DEF Spec

-----------------------------------------------------------------------------
(*                       The files                                         *)

(* One copy is left, and what is set aside has started in place.           *)
Shape(d, started) ==
  /\ d.app # 0 \/ d.old # 0
  /\ d.old # 0 => d.old \in started
  /\ d.app # 0 /\ d.app \notin started => d.old \in started

(* What a process still to clear the folder, between the renames or done   *)
(* with them knows of the files.                                           *)
Orderly(r, d, started) ==
  /\ r.clean => d.app # 0 /\ r.at # "ready" /\ ~Staging(r)
  /\ Staging(r) => d.app # 0
  /\ r.swapping => ~r.applied /\ d.app = 0
  /\ d.app # 0 /\ d.app \notin started => r.at = "ready" /\ r.applied

Kept == Shape(disk, proven) /\ \A p \in Process : Live(p) => Orderly(procs[p], disk, proven)

LEMMA KeptBy ==
  ASSUME Types, NEW p \in Process, Sole(p), NEW s, Moves(p, s), Shape(disk', proven'),
         s.status # "off" => Orderly(s, disk', proven')
  PROVE  Kept'
<1>1. procs'[p] = s BY DEF Moves, Put, Types
<1>2. \A q \in Process : Live(q)' => Orderly(procs'[q], disk', proven')
  BY <1>1, SoleAlone DEF Live
<1> QED BY <1>2 DEF Kept

LEMMA Staged == ASSUME Types, NEW p \in Process, Staging(procs[p]) PROVE procs[p].at = "working"
<1>1. PICK i \in 1..Len(procs[p].jobs) : procs[p].jobs[i].does = "unpack" BY DEF Staging
<1> QED BY <1>1 DEF Types, Good, Queue

LEMMA CalmKept ==
  ASSUME Types, Kept, NEW p \in Process, Sole(p), Calm(p)
  PROVE  Kept'
<1>1. PICK s : Moves(p, s) /\ Quiet(procs[p], s) BY DEF Calm
<1>2. Orderly(procs[p], disk, proven) /\ disk' = disk /\ proven' = proven BY DEF Kept, Calm
<1>3. s.applied = procs[p].applied /\ s.swapping = procs[p].swapping /\ s.clean = procs[p].clean
  BY <1>1 DEF Quiet, Swaps
<1>4. Orderly(s, disk, proven) BY <1>1, <1>2, <1>3 DEF Orderly, Quiet
<1> QED BY <1>1, <1>2, <1>4, KeptBy DEF Kept

LEMMA ActsKept ==
  ASSUME Types, Alone, Kept, LateCleanup = FALSE, NEW p \in Process, Acts(p)
  PROVE  Kept'
<1> DEFINE r == procs[p]
<1>1. Sole(p) /\ Live(p) BY ActsSole
<1>2. Orderly(r, disk, proven) /\ Shape(disk, proven) BY <1>1 DEF Kept
<1>3. CASE Looks(p) BY <1>1, <1>3, LooksCalm, CalmKept
<1>4. CASE Decides(p) BY <1>1, <1>4, DecidesCalm, CalmKept
<1>5. CASE Clear(p)
  <2>1. PICK s : /\ Moves(p, s) /\ Swaps(s) = Swaps(r) /\ s.at # "ready"
                 /\ \/ disk' = disk /\ ~Staging(s)
                    \/ disk' = Cleared /\ ~OnlyCopy
    BY <1>5, ClearFacts
  <2>2. r.at = "working" /\ ~r.clean /\ proven' = proven BY <1>5, ClearFacts
  <2>3. ~s.clean /\ ~s.swapping BY <2>1, <2>2 DEF Swaps, Types, Whole
  <2>4. disk.app # 0 => disk.app \in proven BY <1>2, <2>2 DEF Orderly
  <2>5. CASE disk' = disk /\ ~Staging(s)
    <3>1. Orderly(s, disk', proven') BY <2>2, <2>3, <2>4, <2>5 DEF Orderly
    <3> QED BY <1>1, <1>2, <2>1, <2>2, <2>5, <3>1, KeptBy
  <2>6. CASE disk' = Cleared /\ ~OnlyCopy
    <3>1. disk'.app = disk.app /\ disk'.old = 0 BY <2>6, Cleaning
    <3>2. disk.app # 0 BY <1>2, <2>6 DEF Shape, OnlyCopy
    <3>3. Shape(disk', proven') BY <2>2, <2>4, <3>1, <3>2 DEF Shape
    <3>4. Orderly(s, disk', proven') BY <2>2, <2>3, <2>4, <3>1, <3>2 DEF Orderly
    <3> QED BY <1>1, <2>1, <3>3, <3>4, KeptBy
  <2> QED BY <2>1, <2>5, <2>6
<1>6. CASE Unpack(p)
  <2>1. PICK s : /\ Moves(p, s) /\ ~Staging(s) /\ s.swapping = r.swapping /\ s.clean = r.clean
                 /\ \/ disk' = Cleared
                    \/ \E v \in 0..MaxVersion : disk' = [disk EXCEPT !.new = v]
    BY <1>6, UnpackFacts
  <2>2. r.at = "working" /\ Staging(r) /\ proven' = proven BY <1>6, UnpackFacts
  <2>3. ~s.clean /\ ~s.swapping BY <1>2, <2>1, <2>2 DEF Types, Whole, Orderly
  <2>4. disk.app # 0 /\ disk.app \in proven BY <1>2, <2>2 DEF Orderly
  <2>5. disk'.app = disk.app /\ (disk'.old = disk.old \/ disk'.old = 0) BY <2>1, Cleaning
  <2>6. Shape(disk', proven') BY <1>2, <2>2, <2>4, <2>5 DEF Shape
  <2>7. Orderly(s, disk', proven') BY <2>1, <2>2, <2>3, <2>4, <2>5 DEF Orderly
  <2> QED BY <1>1, <2>1, <2>6, <2>7, KeptBy
<1>7. CASE Restart(p)
  <2>1. PICK s : /\ Moves(p, s) /\ s.jobs = r.jobs /\ s.clean = r.clean /\ s.applied = r.applied
                 /\ \/ s.at = "failed" /\ ~s.swapping /\ disk' = disk
                    \/ /\ s.at = "ready" /\ disk.app # 0
                       /\ disk' = [disk EXCEPT !.app = 0, !.old = disk.app]
    BY <1>7, RestartFacts
  <2>2. r.at = "ready" /\ ~r.applied /\ proven' = proven BY <1>7, RestartFacts
  <2>3. ~s.clean /\ ~Staging(s) /\ ~s.applied
    BY <1>2, <2>1, <2>2, Staged DEF Orderly, Staging
  <2>4. disk.app # 0 => disk.app \in proven BY <1>2, <2>2 DEF Orderly
  <2>5. CASE ~s.swapping /\ disk' = disk
    <3>1. Orderly(s, disk', proven') BY <2>2, <2>3, <2>4, <2>5 DEF Orderly
    <3> QED BY <1>1, <1>2, <2>1, <2>2, <2>5, <3>1, KeptBy
  <2>6. CASE disk.app # 0 /\ disk' = [disk EXCEPT !.app = 0, !.old = disk.app]
    <3>1. disk'.app = 0 /\ disk'.old = disk.app BY <2>6, Renames
    <3>2. Shape(disk', proven') BY <2>2, <2>4, <2>6, <3>1 DEF Shape
    <3>3. Orderly(s, disk', proven') BY <2>3, <3>1 DEF Orderly
    <3> QED BY <1>1, <2>1, <3>2, <3>3, KeptBy
  <2> QED BY <2>1, <2>5, <2>6
<1>8. CASE PutInPlace(p)
  <2>1. PICK s : /\ Moves(p, s) /\ s.jobs = r.jobs /\ ~s.swapping /\ s.clean = r.clean
                 /\ \/ /\ disk.new # 0 /\ s.at = "ready" /\ s.applied
                       /\ disk' = [disk EXCEPT !.app = disk.new, !.new = 0]
                    \/ disk' = [disk EXCEPT !.app = disk.old, !.old = 0] /\ disk.old # 0
                    \/ disk' = disk
    BY <1>8, PutInPlaceFacts
  <2>2. r.swapping /\ proven' = proven BY <1>8, PutInPlaceFacts
  <2>3. r.at = "ready" /\ ~r.applied /\ disk.app = 0 BY <1>2, <2>2 DEF Orderly, Types, Whole
  <2>4. ~s.clean /\ ~Staging(s) BY <1>2, <2>1, <2>3, Staged DEF Orderly, Staging
  <2>5. disk.old # 0 /\ disk.old \in proven BY <1>2, <2>3 DEF Shape
  <2>6. CASE /\ disk.new # 0 /\ s.at = "ready" /\ s.applied
             /\ disk' = [disk EXCEPT !.app = disk.new, !.new = 0]
    <3>1. disk'.app = disk.new /\ disk'.old = disk.old BY <2>6, Renames
    <3>2. Shape(disk', proven') BY <2>2, <2>5, <3>1 DEF Shape
    <3>3. Orderly(s, disk', proven') BY <2>1, <2>4, <2>6 DEF Orderly
    <3> QED BY <1>1, <2>1, <3>2, <3>3, KeptBy
  <2>7. CASE disk' = [disk EXCEPT !.app = disk.old, !.old = 0]
    <3>1. disk'.app = disk.old /\ disk'.old = 0 BY <2>7, Renames
    <3>2. Shape(disk', proven') BY <2>2, <2>5, <3>1 DEF Shape
    <3>3. Orderly(s, disk', proven') BY <2>1, <2>2, <2>4, <2>5, <3>1 DEF Orderly
    <3> QED BY <1>1, <2>1, <3>2, <3>3, KeptBy
  <2>8. CASE disk' = disk
    <3>1. Orderly(s, disk', proven') BY <2>1, <2>3, <2>4, <2>8 DEF Orderly
    <3> QED BY <1>1, <1>2, <2>1, <2>2, <2>8, <3>1, KeptBy
  <2> QED BY <2>1, <2>6, <2>7, <2>8
<1>9. CASE CleanUp(p)
  <2>1. PICK s : /\ Moves(p, s) /\ s.jobs = r.jobs /\ s.at = r.at
                 /\ s.swapping = r.swapping /\ s.applied = r.applied /\ ~s.clean
    BY <1>9, CleanUpFacts
  <2>2. r.clean /\ disk' \in {disk, Cleared} /\ proven' = proven BY <1>9, CleanUpFacts
  <2>3. r.at # "ready" /\ ~Staging(s) /\ disk.app # 0 BY <1>2, <2>1, <2>2 DEF Orderly, Staging
  <2>4. disk.app \in proven BY <1>2, <2>3 DEF Orderly
  <2>5. ~s.swapping BY <1>2, <2>1, <2>3 DEF Orderly
  <2>6. disk'.app = disk.app /\ (disk' = disk \/ disk'.old = 0) BY <2>2, Cleaning
  <2>7. Shape(disk', proven') BY <1>2, <2>2, <2>3, <2>4, <2>6 DEF Shape
  <2>8. Orderly(s, disk', proven') BY <2>1, <2>2, <2>3, <2>4, <2>5, <2>6 DEF Orderly
  <2> QED BY <1>1, <2>1, <2>7, <2>8, KeptBy
<1>10. CASE Gone(p) \/ Crash(p)
  <2>1. Moves(p, Off) /\ disk' = disk /\ proven' = proven BY <1>10, EndFacts
  <2> QED BY <1>1, <1>2, <2>1, OffGood, KeptBy
<1> QED BY <1>3, <1>4, <1>5, <1>6, <1>7, <1>8, <1>9, <1>10 DEF Acts

LEMMA StartsKept ==
  ASSUME Types, Kept, NEW p \in Process, Begin(p), Sole(p), disk' = disk
  PROVE  Kept'
<1>1. PICK s : /\ Moves(p, s) /\ ~s.swapping /\ s.at = "idle" /\ s.jobs = <<>>
  BY BeginFacts
<1>2. disk.app # 0 /\ proven' = proven \cup {disk.app} BY BeginFacts
<1>3. ~Staging(s) BY <1>1 DEF Staging
<1>4. Shape(disk', proven') BY <1>2 DEF Kept, Shape
<1>5. Orderly(s, disk', proven') BY <1>1, <1>2, <1>3 DEF Orderly
<1> QED BY <1>1, <1>4, <1>5, KeptBy

LEMMA StillKept == ASSUME Types, Kept, Still PROVE Kept'
<1>1. procs' = procs /\ proven' = proven BY StillFacts
<1>2. CASE disk' = disk BY <1>1, <1>2 DEF Kept, Live
<1>3. CASE PutBack
  <2>1. disk'.app = disk.old /\ disk'.old = 0 /\ disk.old # 0 BY <1>3, Renames DEF PutBack
  <2>2. disk.old \in proven BY <2>1 DEF Kept, Shape
  <2>3. Shape(disk', proven') BY <1>1, <2>1, <2>2 DEF Shape
  <2>4. \A p \in Process : Live(p) => ~procs[p].swapping /\ Orderly(procs[p], disk, proven)
    BY <1>3 DEF PutBack, Kept
  <2>5. \A p \in Process : Live(p) => Orderly(procs[p], disk', proven')
    BY <1>1, <2>1, <2>2, <2>4 DEF Orderly
  <2> QED BY <1>1, <2>3, <2>5 DEF Kept, Live
<1>4. PutBack \/ disk' = disk BY DEF Still, Publish, GiveUp
<1> QED BY <1>2, <1>3, <1>4

LEMMA StaysKept ==
  ASSUME Types, Alone, Kept, SecondCopy = FALSE, LateCleanup = FALSE, Next
  PROVE  Kept'
<1>1. CASE Still BY <1>1, StillKept
<1>2. ASSUME NEW p \in Process, Acts(p) PROVE Kept' BY <1>2, ActsKept
<1>3. ASSUME NEW p \in Process, Open(p) \/ \E q \in Process : Relaunch(q, p) PROVE Kept'
  BY <1>3, Starts, StartsKept
<1> QED BY <1>1, <1>2, <1>3, Steps

LEMMA InKept == ASSUME SecondCopy = FALSE, LateCleanup = FALSE PROVE Spec => []Kept
<1>1. Init => Types /\ Alone /\ Kept
  <2> SUFFICES ASSUME Init PROVE Kept BY Starting, StartsAlone
  <2>1. \A p \in Process : ~Live(p) BY OffGood DEF Init, Live
  <2>2. Shape(disk, proven) BY DEF Init, Shape
  <2> QED BY <2>1, <2>2 DEF Kept
<1>2. Types /\ Alone /\ Kept /\ [Next]_vars => (Types /\ Alone /\ Kept)'
  <2>1. ASSUME Types, Alone, Kept, UNCHANGED vars PROVE Alone' /\ Kept'
    BY <2>1, StillAlone DEF vars, Kept, Live
  <2> QED BY <2>1, Stepping, Idling, StaysAlone, StaysKept DEF Keep
<1> QED BY <1>1, <1>2, PTL DEF Spec

(* As long as the clean-up at start runs before the first download and no  *)
(* second copy is opened, a copy of the app is always left (OneCopyLeft).  *)
THEOREM CopyLeft ==
  ASSUME SecondCopy = FALSE, LateCleanup = FALSE
  PROVE  Spec => []OneCopyLeft
<1>1. Kept => OneCopyLeft BY DEF Kept, Shape, OneCopyLeft
<1> QED BY <1>1, InKept, PTL

(* Under the same conditions a version that never started is in place only *)
(* with one that did beside it (PreviousKept).                             *)
THEOREM PreviousCopyKept ==
  ASSUME SecondCopy = FALSE, LateCleanup = FALSE
  PROVE  Spec => []PreviousKept
<1>1. Kept => PreviousKept BY DEF Kept, Shape, PreviousKept
<1> QED BY <1>1, InKept, PTL
=============================================================================
