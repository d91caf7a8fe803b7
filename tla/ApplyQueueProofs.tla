--------------------------- MODULE ApplyQueueProofs ---------------------------
(***************************************************************************)
(* As long as no frame takes longer than UI_IDLE, ApplyQueue implements     *)
(* FetchOrder for any number of pages, failures and crashes.  The argument: *)
(* at any time only one thread holds batches (`OneHolder`), and every page  *)
(* brought is saved or still counted by the core (`Accounted`), so that an  *)
(* empty `unapplied` means that everything is saved.                        *)
(***************************************************************************)
EXTENDS ApplyQueue, SequenceTheorems, TLAPS

(* The worker takes batches only when no frame is drawn, and while it has   *)
(* some it brings no new ones.                                              *)
OneHolder ==
    /\ app.at \in {"away", "acting"} => app.left = <<>>
    /\ worker.at = "away" => worker.left = <<>>
    /\ app.at # "away" => ~idle
    /\ worker.left # <<>> => effects = <<>> /\ app.left = <<>>

(* What is acknowledged, or about to be, is saved; what is not saved is not *)
(* acknowledged; what was lost holds the checkpoint.                        *)
Accounted ==
    /\ mail \in Seq(saved) /\ app.done \in Seq(saved) /\ worker.done \in Seq(saved)
    /\ \A page \in 1 .. brought : page \in saved \/ page \in unapplied
    /\ lost # {} => Held \in unapplied
    /\ reported <= brought /\ position <= brought
    /\ reported # 0 => position <= reported

IInv == TypeOK /\ OneHolder /\ Accounted

USE DEF Page, Held

-----------------------------------------------------------------------------
(* What the parts of the steps return *)

(* `FlushState` saves the position it is given, or keeps it for later.      *)
LEMMA Flushed ==
    ASSUME TypeOK, NEW open, NEW bytes \in 0 .. MaxPages, FlushState(open, bytes)
    PROVE  /\ \/ reported' = bytes /\ position' = position
              \/ open = {} /\ reported' = 0 /\ position' = bytes /\ bytes # 0
           /\ reported' \in 0 .. MaxPages /\ position' \in 0 .. MaxPages
           /\ budget' \in [failures : Nat, crashes : Nat]
<1>1. ASSUME MayFail, Failing
      PROVE  budget' \in [failures : Nat, crashes : Nat]
  <2>1. budget.failures - 1 \in Nat
    BY <1>1 DEF MayFail, TypeOK
  <2>2. budget \in [failures : Nat, crashes : Nat]
    BY DEF TypeOK
  <2> QED
    BY <2>1, <2>2, <1>1 DEF Failing
<1>2. position \in 0 .. MaxPages /\ budget \in [failures : Nat, crashes : Nat]
  BY DEF TypeOK
<1>3. 0 \in 0 .. MaxPages
  BY QueueAssumption
<1>4. CASE open # {} \/ bytes = 0
  BY <1>2, <1>4 DEF FlushState
<1>5. CASE ~(open # {} \/ bytes = 0)
  BY <1>1, <1>2, <1>3, <1>5 DEF FlushState
<1> QED
  BY <1>4, <1>5

(* A thread that applies keeps its type, saves the batch it has first or    *)
(* none, and remembers what it saved.                                       *)
LEMMA Applied ==
    ASSUME TypeOK, NEW me \in Thread, NEW me1, ApplyInOrder(me, me1),
           me.done \in Seq(saved)
    PROVE  /\ me1 \in Thread /\ me.at \in {"taken", "applying"}
           /\ me1.at \in {"applying", "telling"}
           /\ \/ /\ me.left # <<>> /\ me1.left = Tail(me.left)
                 /\ saved' = saved \union {Head(me.left)}
              \/ me1.left = me.left /\ saved' = saved
           /\ saved' \subseteq Page
           /\ me1.done \in Seq(saved')
           /\ retry' \in {"none", "waiting", "due"}
           /\ budget' \in [failures : Nat, crashes : Nat]
<1>0. me.left \in Seq(Page) /\ me.done \in Seq(Page)
  BY DEF Thread
<1>1. CASE Start(me, me1)
  BY <1>1 DEF Start, TypeOK, Thread
<1>2. CASE Saved(me, me1)
  <2>1. Head(me.left) \in Page /\ Tail(me.left) \in Seq(Page)
    BY <1>0, <1>2, HeadTailProperties DEF Saved
  <2>2. Append(me.done, Head(me.left)) \in Seq(Page)
    BY <1>0, <2>1, AppendProperties
  <2>3. me.done \in Seq(saved') /\ Head(me.left) \in saved'
    BY <1>2, SeqMonotonic DEF Saved
  <2>4. Append(me.done, Head(me.left)) \in Seq(saved')
    BY <2>3, AppendProperties
  <2> QED
    BY <1>2, <2>1, <2>2, <2>4 DEF Saved, TypeOK, Thread
<1>3. CASE NotSaved(me, me1)
  <2>1. budget.failures - 1 \in Nat
    BY <1>3 DEF NotSaved, MayFail, TypeOK
  <2>2. budget \in [failures : Nat, crashes : Nat]
    BY DEF TypeOK
  <2>3. budget' \in [failures : Nat, crashes : Nat]
    BY <2>1, <2>2, <1>3 DEF NotSaved, Failing
  <2> QED
    BY <2>3, <1>3 DEF NotSaved, TypeOK, Thread
<1> QED
  BY <1>1, <1>2, <1>3 DEF ApplyInOrder

-----------------------------------------------------------------------------
(* The inductive invariant *)

LEMMA MaxNat == MaxPages \in Nat /\ MaxFailures \in Nat /\ MaxCrashes \in Nat
BY QueueAssumption

LEMMA AwayThread == /\ Away \in Thread /\ [Away EXCEPT !.at = "acting"] \in Thread
                    /\ <<>> \in Seq(Page) /\ \A S : <<>> \in Seq(S)
<1>1. <<>> \in Seq(Page) /\ \A S : <<>> \in Seq(S)
  BY EmptySeq
<1> QED
  BY <1>1 DEF Away, Thread

LEMMA InitInv == Init => IInv
<1> SUFFICES ASSUME Init PROVE IInv
  OBVIOUS
<1>1. <<>> \in Seq(Page) /\ <<>> \in Seq(saved) /\ Away \in Thread
  BY AwayThread
<1>2. budget \in [failures : Nat, crashes : Nat]
  BY MaxNat DEF Init
<1>3. 0 \in 0 .. MaxPages
  BY MaxNat
<1>4. TypeOK
  BY <1>1, <1>2, <1>3 DEF Init, TypeOK
<1> QED
  BY <1>1, <1>4 DEF Init, IInv, OneHolder, Accounted, Away

(* What the worker's core does leaves the threads alone.                    *)
LEMMA FetchInv ==
    ASSUME IInv, NEW change \in BOOLEAN, NEW lose \in BOOLEAN, OnFetched(change, lose)
    PROVE  IInv'
<1> DEFINE page == brought + 1
<1>0. page \in Page
  BY MaxNat DEF IInv, TypeOK, OnFetched
<1>1. /\ worker.at = "away" /\ page \in Page /\ brought' = page
      /\ unapplied' = unapplied \union (IF change THEN {page} ELSE {})
                                \union (IF lose THEN {Held} ELSE {})
      /\ effects' = IF change THEN Append(effects, page) ELSE effects
      /\ saved' = IF change THEN saved ELSE saved \union {page}
      /\ lost' = IF lose THEN lost \union {page} ELSE lost
      /\ UNCHANGED <<reported, position, retry, drawn, idle, app, worker, mail>>
  BY <1>0 DEF OnFetched
<1>2. budget' \in [failures : Nat, crashes : Nat]
  <2>1. budget \in [failures : Nat, crashes : Nat]
    BY DEF IInv, TypeOK
  <2>2. CASE lose
    <3>1. budget.failures - 1 \in Nat
      BY <2>1, <2>2 DEF OnFetched, MayFail
    <3> QED
      BY <2>1, <2>2, <3>1 DEF OnFetched, Failing
  <2> QED
    BY <2>1, <2>2 DEF OnFetched
<1>3. effects' \in Seq(Page)
  BY <1>1, AppendProperties DEF IInv, TypeOK
<1>4. TypeOK'
  BY <1>1, <1>2, <1>3, SMTT(60) DEF IInv, TypeOK
<1>5. OneHolder'
  BY <1>1 DEF IInv, OneHolder
<1>6. mail' \in Seq(saved') /\ app'.done \in Seq(saved') /\ worker'.done \in Seq(saved')
  BY <1>1, SeqMonotonic DEF IInv, Accounted
<1>7. Accounted'
  BY <1>1, <1>6 DEF IInv, TypeOK, Accounted
<1> QED
  BY <1>4, <1>5, <1>7 DEF IInv

LEMMA StateInv == ASSUME IInv, OnState PROVE IInv'
<1>1. /\ FlushState(unapplied, brought) /\ brought \in 0 .. MaxPages /\ TypeOK
      /\ UNCHANGED <<brought, unapplied, saved, lost, effects, retry, drawn, idle,
                     app, worker, mail>>
  BY DEF OnState, IInv, TypeOK
<1>2. /\ \/ reported' = brought /\ position' = position
         \/ reported' = 0 /\ position' = brought
      /\ reported' \in 0 .. MaxPages /\ position' \in 0 .. MaxPages
      /\ budget' \in [failures : Nat, crashes : Nat]
  BY <1>1, Flushed
<1>3. TypeOK' /\ OneHolder'
  BY <1>1, <1>2 DEF IInv, TypeOK, OneHolder
<1>4. Accounted'
  BY <1>1, <1>2 DEF IInv, TypeOK, Accounted
<1> QED
  BY <1>3, <1>4 DEF IInv

LEMMA AppliedInv == ASSUME IInv, RemoteApplied PROVE IInv'
<1>1. /\ mail # <<>> /\ mail' = Tail(mail) /\ unapplied' = unapplied \ {Head(mail)}
      /\ FlushState(unapplied', reported) /\ reported \in 0 .. MaxPages /\ TypeOK
      /\ UNCHANGED <<brought, saved, lost, effects, retry, drawn, idle, app, worker>>
  BY DEF RemoteApplied, IInv, TypeOK
<1>2. Head(mail) \in saved /\ Head(mail) \in Page /\ mail' \in Seq(saved) /\ mail' \in Seq(Page)
  BY <1>1, HeadTailProperties DEF IInv, Accounted, TypeOK
<1>3. /\ \/ reported' = reported /\ position' = position
         \/ reported' = 0 /\ position' = reported /\ reported # 0
      /\ reported' \in 0 .. MaxPages /\ position' \in 0 .. MaxPages
      /\ budget' \in [failures : Nat, crashes : Nat]
  BY <1>1, Flushed
<1>4. TypeOK' /\ OneHolder'
  BY <1>1, <1>2, <1>3 DEF IInv, TypeOK, OneHolder
<1>5. Accounted'
  BY <1>1, <1>2, <1>3, SMTT(30) DEF IInv, TypeOK, Accounted
<1> QED
  BY <1>4, <1>5 DEF IInv

(* The app thread's steps.                                                  *)
LEMMA AppInv ==
    ASSUME IInv, BeginTick \/ TakeEffects \/ AppApplies \/ Tell \/ EndTick
    PROVE  IInv'
<1> USE DEF IInv, coreVars
<1>0. app \in Thread /\ worker \in Thread /\ effects \in Seq(Page) /\ mail \in Seq(Page)
      /\ <<>> \in Seq(Page) /\ <<>> \in Seq(saved)
  BY EmptySeq DEF TypeOK
<1>1. CASE BeginTick
  <2>1. app' = [at |-> "acting", left |-> <<>>, done |-> <<>>]
    BY <1>1 DEF BeginTick, Away
  <2>2. app' \in Thread
    BY <1>1, AwayThread DEF BeginTick
  <2>3. UNCHANGED <<coreVars, saved, effects, retry, worker, mail, budget>>
        /\ drawn' = TRUE /\ idle' = FALSE /\ app.at = "away"
    BY <1>1 DEF BeginTick
  <2>4. TypeOK'
    BY <2>2, <2>3 DEF TypeOK
  <2>5. OneHolder'
    BY <2>1, <2>3 DEF OneHolder
  <2>6. Accounted'
    BY <1>0, <2>1, <2>3 DEF Accounted
  <2> QED
    BY <2>4, <2>5, <2>6
<1>2. CASE TakeEffects
  <2>1. TypeOK'
    BY <1>0, <1>2 DEF TakeEffects, TypeOK, Thread
  <2> QED
    BY <1>0, <1>2, <2>1 DEF TakeEffects, OneHolder, Accounted
<1>3. CASE AppApplies
  <2>1. ApplyInOrder(app, app') /\ app.done \in Seq(saved) /\ TypeOK
        /\ UNCHANGED <<brought, unapplied, reported, position, lost, effects, drawn,
                       idle, worker, mail>>
    BY <1>3 DEF AppApplies, Accounted
  <2>2. /\ app' \in Thread /\ app.at \in {"taken", "applying"}
        /\ app'.at \in {"applying", "telling"}
        /\ \/ /\ app.left # <<>> /\ app'.left = Tail(app.left)
              /\ saved' = saved \union {Head(app.left)}
           \/ app'.left = app.left /\ saved' = saved
        /\ saved' \subseteq Page /\ app'.done \in Seq(saved')
        /\ retry' \in {"none", "waiting", "due"}
        /\ budget' \in [failures : Nat, crashes : Nat]
    BY <1>0, <2>1, Applied
  <2>3. TypeOK'
    BY <2>1, <2>2 DEF TypeOK
  <2>4. saved \subseteq saved'
    BY <2>2
  <2>5. mail' \in Seq(saved') /\ worker'.done \in Seq(saved')
    BY <2>1, <2>4, SeqMonotonic DEF Accounted
  <2>6. Accounted'
    BY <2>1, <2>2, <2>4, <2>5 DEF Accounted
  <2>7. OneHolder'
    BY <2>1, <2>2 DEF OneHolder
  <2> QED
    BY <2>3, <2>6, <2>7
<1>4. CASE Tell
  <2>1. app' = [app EXCEPT !.at = "leaving", !.done = <<>>] /\ mail' = mail \o app.done
        /\ app.done \in Seq(saved) /\ mail \in Seq(saved) /\ app.done \in Seq(Page)
        /\ app.at = "telling"
    BY <1>0, <1>4 DEF Tell, Accounted, Thread
  <2>2. app' \in Thread /\ app'.left = app.left /\ app'.done = <<>> /\ app'.at = "leaving"
    BY <1>0, <2>1 DEF Thread
  <2>3. mail' \in Seq(saved) /\ mail' \in Seq(Page)
    BY <1>0, <2>1, ConcatProperties
  <2>4. TypeOK'
    BY <1>4, <2>2, <2>3 DEF Tell, TypeOK
  <2> QED
    BY <1>0, <1>4, <2>1, <2>2, <2>3, <2>4 DEF Tell, OneHolder, Accounted
<1>5. CASE EndTick
  <2>1. app' = Away /\ effects' = app.left \o effects /\ app.left \in Seq(Page)
    BY <1>0, <1>5 DEF EndTick, Requeue, Thread
  <2>2. effects' \in Seq(Page) /\ (app.left = <<>> => effects' = effects)
    BY <1>0, <2>1, ConcatProperties, ConcatEmptySeq
  <2>3. TypeOK'
    BY <1>0, <1>5, <2>1, <2>2 DEF EndTick, TypeOK, Away, Thread
  <2> QED
    BY <1>0, <1>5, <2>1, <2>2, <2>3 DEF EndTick, OneHolder, Accounted, Away
<1> QED
  BY <1>1, <1>2, <1>3, <1>4, <1>5

(* The worker's steps while no window draws.                                *)
LEMMA WorkerInv ==
    ASSUME IInv, TakeWhileIdle \/ WorkerApplies \/ Acknowledge \/ PutBack
    PROVE  IInv'
<1> USE DEF IInv, coreVars
<1>0. app \in Thread /\ worker \in Thread /\ effects \in Seq(Page) /\ mail \in Seq(Page)
      /\ <<>> \in Seq(Page) /\ <<>> \in Seq(saved)
  BY EmptySeq DEF TypeOK
<1>1. CASE TakeWhileIdle
  <2>1. TypeOK'
    BY <1>0, <1>1 DEF TakeWhileIdle, TypeOK, Thread
  <2> QED
    BY <1>0, <1>1, <2>1 DEF TakeWhileIdle, OneHolder, Accounted
<1>2. CASE WorkerApplies
  <2>1. ApplyInOrder(worker, worker') /\ worker.done \in Seq(saved) /\ TypeOK
        /\ UNCHANGED <<brought, unapplied, reported, position, lost, effects, drawn,
                       idle, app, mail>>
    BY <1>2 DEF WorkerApplies, Accounted
  <2>2. /\ worker' \in Thread /\ worker.at \in {"taken", "applying"}
        /\ worker'.at \in {"applying", "telling"}
        /\ \/ /\ worker.left # <<>> /\ worker'.left = Tail(worker.left)
              /\ saved' = saved \union {Head(worker.left)}
           \/ worker'.left = worker.left /\ saved' = saved
        /\ saved' \subseteq Page /\ worker'.done \in Seq(saved')
        /\ retry' \in {"none", "waiting", "due"}
        /\ budget' \in [failures : Nat, crashes : Nat]
    BY <1>0, <2>1, Applied
  <2>3. TypeOK'
    BY <2>1, <2>2 DEF TypeOK
  <2>4. saved \subseteq saved'
    BY <2>2
  <2>5. mail' \in Seq(saved') /\ app'.done \in Seq(saved')
    BY <2>1, <2>4, SeqMonotonic DEF Accounted
  <2>6. Accounted'
    BY <2>1, <2>2, <2>4, <2>5 DEF Accounted
  <2>7. OneHolder'
    BY <2>1, <2>2 DEF OneHolder
  <2> QED
    BY <2>3, <2>6, <2>7
<1>3. CASE Acknowledge /\ worker.done = <<>>
  <2>1. worker' = [worker EXCEPT !.at = "leaving"] /\ worker.at = "telling"
        /\ UNCHANGED <<brought, unapplied, reported, position, lost, saved, effects,
                       retry, drawn, idle, app, mail, budget>>
    BY <1>3 DEF Acknowledge
  <2>2. worker' \in Thread /\ worker'.left = worker.left /\ worker'.done = worker.done
        /\ worker'.at = "leaving"
    BY <1>0, <2>1 DEF Thread
  <2>3. TypeOK'
    BY <2>1, <2>2 DEF TypeOK
  <2> QED
    BY <2>1, <2>2, <2>3 DEF OneHolder, Accounted
<1>4. CASE Acknowledge /\ worker.done # <<>>
  <2>1. /\ worker' = [worker EXCEPT !.done = Tail(@)] /\ worker.at = "telling"
        /\ unapplied' = unapplied \ {Head(worker.done)}
        /\ FlushState(unapplied', reported) /\ reported \in 0 .. MaxPages /\ TypeOK
        /\ UNCHANGED <<brought, lost, saved, effects, retry, drawn, idle, app, mail>>
    BY <1>4 DEF Acknowledge, TypeOK
  <2>2. Head(worker.done) \in saved /\ Head(worker.done) \in Page
        /\ Tail(worker.done) \in Seq(saved) /\ Tail(worker.done) \in Seq(Page)
    BY <1>0, <1>4, HeadTailProperties DEF Accounted, Thread
  <2>3. worker' \in Thread /\ worker'.left = worker.left /\ worker'.at = worker.at
        /\ worker'.done = Tail(worker.done)
    BY <1>0, <2>1, <2>2 DEF Thread
  <2>4. /\ \/ reported' = reported /\ position' = position
           \/ reported' = 0 /\ position' = reported /\ reported # 0
        /\ reported' \in 0 .. MaxPages /\ position' \in 0 .. MaxPages
        /\ budget' \in [failures : Nat, crashes : Nat]
    BY <2>1, Flushed
  <2>5. TypeOK'
    BY <2>1, <2>3, <2>4 DEF TypeOK
  <2>6. OneHolder'
    BY <2>1, <2>3 DEF OneHolder
  <2>7. \A page \in 1 .. brought : page \in saved \/ page \in unapplied'
    BY <2>1, <2>2 DEF Accounted
  <2>8. lost # {} => Held \in unapplied'
    BY <2>1, <2>2 DEF Accounted
  <2>9. reported' <= brought /\ position' <= brought
        /\ (reported' # 0 => position' <= reported')
    BY <2>4, MaxNat DEF Accounted, TypeOK
  <2>10. Accounted'
    BY <2>1, <2>2, <2>3, <2>7, <2>8, <2>9 DEF Accounted
  <2> QED
    BY <2>5, <2>6, <2>10
<1>5. CASE PutBack
  <2>1. worker' = Away /\ effects' = worker.left \o effects /\ worker.left \in Seq(Page)
    BY <1>0, <1>5 DEF PutBack, Requeue, Thread
  <2>2. effects' \in Seq(Page)
    BY <1>0, <2>1, ConcatProperties
  <2>3. TypeOK'
    BY <1>0, <1>5, <2>1, <2>2 DEF PutBack, TypeOK, Away, Thread
  <2> QED
    BY <1>0, <1>5, <2>1, <2>2, <2>3 DEF PutBack, OneHolder, Accounted, Away
<1> QED
  BY <1>1, <1>2, <1>3, <1>4, <1>5

(* Every step keeps the invariant while frames are short.                   *)
LEMMA NextInv == ASSUME SlowFrames = FALSE, IInv, [Next]_vars PROVE IInv'
<1>1. CASE BecomeIdle \/ RetryDue
  <2>1. UNCHANGED <<brought, unapplied, reported, position, lost, saved, effects, drawn,
                    app, worker, mail, budget>>
        /\ idle' \in BOOLEAN /\ retry' \in {"none", "waiting", "due"}
        /\ (idle' => idle \/ app.at = "away")
    <3>1. CASE BecomeIdle
      BY <1>1, <3>1 DEF BecomeIdle, IInv, TypeOK, coreVars
    <3>2. CASE RetryDue
      BY <1>1, <3>2 DEF RetryDue, IInv, TypeOK, coreVars
    <3> QED
      BY <1>1, <3>1, <3>2
  <2>2. TypeOK'
    BY <2>1 DEF IInv, TypeOK
  <2>3. OneHolder'
    BY <2>1 DEF IInv, OneHolder
  <2>4. Accounted'
    BY <2>1 DEF IInv, Accounted
  <2> QED
    BY <2>2, <2>3, <2>4 DEF IInv
<1>2. CASE Crash
  <2>1. <<>> \in Seq(Page) /\ \A s : <<>> \in Seq(s)
    BY EmptySeq
  <2>2. budget \in [failures : Nat, crashes : Nat] /\ budget.crashes - 1 \in Nat
    BY <1>2 DEF Crash, IInv, TypeOK
  <2>3. budget' \in [failures : Nat, crashes : Nat]
    BY <1>2, <2>2 DEF Crash
  <2>4. position \in 0 .. MaxPages /\ 1 .. position \subseteq Page
    BY MaxNat DEF IInv, TypeOK
  <2>6. /\ brought' = position /\ saved' = 1 .. position /\ lost' = {}
        /\ unapplied' = {} /\ reported' = 0 /\ position' = position
        /\ effects' = <<>> /\ retry' = "none" /\ drawn' = FALSE /\ idle' = FALSE
        /\ app' = Away /\ worker' = Away /\ mail' = <<>>
    BY <1>2 DEF Crash
  <2>7. 0 \in 0 .. MaxPages
    BY MaxNat
  <2>5. TypeOK'
    BY <2>1, <2>3, <2>4, <2>6, <2>7, AwayThread DEF TypeOK
  <2> QED
    BY <2>1, <2>4, <2>5, <2>6 DEF IInv, OneHolder, Accounted, Away
<1>3. CASE UNCHANGED vars
  BY <1>3 DEF vars, IInv, TypeOK, OneHolder, Accounted
<1> QED
  BY <1>1, <1>2, <1>3, FetchInv, StateInv, AppliedInv, AppInv, WorkerInv DEF Next

-----------------------------------------------------------------------------
(* Each step is a step of FetchOrder or leaves its variables as they are *)

Queue == app.left \o worker.left \o effects
orderVars == <<brought, Queue, saved, lost, position>>

(* With one holder at a time, the queue is the app thread's batches and the *)
(* rest, or the worker's batches.                                           *)
LEMMA QueueIs ==
    ASSUME IInv
    PROVE  /\ Queue \in Seq(Page)
           /\ worker.left = <<>> => Queue = app.left \o effects
           /\ app.left = <<>> /\ worker.left = <<>> => Queue = effects
           /\ worker.left # <<>> => Queue = worker.left
<1>1. app.left \in Seq(Page) /\ worker.left \in Seq(Page) /\ effects \in Seq(Page)
  BY DEF IInv, TypeOK, Thread
<1>2. app.left \o worker.left \in Seq(Page) /\ Queue \in Seq(Page)
  BY <1>1, ConcatProperties DEF Queue
<1>3. \A s \in Seq(Page) : s \o <<>> = s /\ <<>> \o s = s
  BY ConcatEmptySeq
<1>4. CASE worker.left = <<>>
  BY <1>1, <1>2, <1>3, <1>4 DEF Queue
<1>5. CASE worker.left # <<>>
  <2>1. effects = <<>> /\ app.left = <<>>
    BY <1>5 DEF IInv, OneHolder
  <2> QED
    BY <1>1, <1>2, <1>3, <1>5, <2>1 DEF Queue
<1> QED
  BY <1>2, <1>4, <1>5

(* The batch applied next is the queue's first.                             *)
LEMMA ConcatTail ==
    ASSUME NEW S, NEW s \in Seq(S), NEW t \in Seq(S), s # <<>>
    PROVE  /\ s \o t # <<>> /\ Head(s \o t) = Head(s)
           /\ Tail(s \o t) = Tail(s) \o t
<1>1. /\ Len(s) \in Nat \ {0} /\ Len(t) \in Nat
      /\ s \o t \in Seq(S) /\ Len(s \o t) = Len(s) + Len(t)
      /\ \A i \in 1 .. Len(s) + Len(t) :
            (s \o t)[i] = IF i <= Len(s) THEN s[i] ELSE t[i - Len(s)]
  BY ConcatProperties, EmptySeq, LenProperties
<1>2. s \o t # <<>>
  BY <1>1, EmptySeq
<1>3. Head(s \o t) = Head(s)
  BY <1>1, <1>2
<1>4. /\ Tail(s) \in Seq(S) /\ Len(Tail(s)) = Len(s) - 1
      /\ \A i \in 1 .. Len(Tail(s)) : Tail(s)[i] = s[i + 1]
      /\ Tail(s \o t) \in Seq(S) /\ Len(Tail(s \o t)) = Len(s) + Len(t) - 1
      /\ \A i \in 1 .. Len(Tail(s \o t)) : Tail(s \o t)[i] = (s \o t)[i + 1]
  BY <1>1, <1>2, HeadTailProperties
<1>5. /\ Tail(s) \o t \in Seq(S) /\ Len(Tail(s) \o t) = Len(s) - 1 + Len(t)
      /\ \A i \in 1 .. Len(s) - 1 + Len(t) :
            (Tail(s) \o t)[i] = IF i <= Len(s) - 1 THEN Tail(s)[i] ELSE t[i - (Len(s) - 1)]
  BY <1>4, ConcatProperties
<1>6. \A i \in 1 .. Len(Tail(s \o t)) : Tail(s \o t)[i] = (Tail(s) \o t)[i]
  <2> SUFFICES ASSUME NEW i \in 1 .. Len(Tail(s \o t))
               PROVE  Tail(s \o t)[i] = (Tail(s) \o t)[i]
    OBVIOUS
  <2>1. i \in 1 .. Len(s) + Len(t) - 1 /\ i + 1 \in 1 .. Len(s) + Len(t)
    BY <1>1, <1>4
  <2>2. CASE i <= Len(s) - 1
    <3>1. (s \o t)[i + 1] = s[i + 1]
      BY <1>1, <2>1, <2>2
    <3>2. (Tail(s) \o t)[i] = s[i + 1]
      BY <1>1, <1>4, <1>5, <2>1, <2>2
    <3> QED
      BY <1>4, <3>1, <3>2
  <2>3. CASE i > Len(s) - 1
    <3>1. (s \o t)[i + 1] = t[i + 1 - Len(s)]
      BY <1>1, <2>1, <2>3
    <3>2. (Tail(s) \o t)[i] = t[i - (Len(s) - 1)]
      BY <1>1, <1>5, <2>1, <2>3
    <3>3. i + 1 - Len(s) = i - (Len(s) - 1)
      BY <1>1
    <3> QED
      BY <1>4, <3>1, <3>2, <3>3
  <2> QED
    BY <1>1, <2>1, <2>2, <2>3
<1>7. Tail(s \o t) = Tail(s) \o t
  <2>1. Len(Tail(s \o t)) = Len(Tail(s) \o t)
    BY <1>1, <1>4, <1>5
  <2> QED
    BY <1>4, <1>5, <1>6, <2>1, SeqEqual
<1> QED
  BY <1>2, <1>3, <1>7

LEMMA ConcatAppend ==
    ASSUME NEW S, NEW s \in Seq(S), NEW t \in Seq(S), NEW e \in S
    PROVE  s \o Append(t, e) = Append(s \o t, e)
<1>1. /\ <<e>> \in Seq(S) /\ s \o t \in Seq(S)
      /\ Append(t, e) = t \o <<e>> /\ Append(s \o t, e) = (s \o t) \o <<e>>
  BY AppendIsConcat, ConcatProperties
<1> QED
  BY <1>1, ConcatAssociative

(* A page arrives while the worker holds nothing.                           *)
LEMMA FetchMaps ==
    ASSUME IInv, NEW change \in BOOLEAN, NEW lose \in BOOLEAN, OnFetched(change, lose)
    PROVE  Order!Bring(change, lose)
<1>1. worker.left = <<>> /\ worker'.left = <<>> /\ app' = app /\ worker' = worker
  BY DEF OnFetched, IInv, OneHolder
<1>2. app.left \in Seq(Page) /\ effects \in Seq(Page) /\ brought + 1 \in Page
  BY MaxNat DEF OnFetched, IInv, TypeOK, Thread
<1>3. Queue = app.left \o effects
  BY <1>1, QueueIs
<1>4. Queue' = app.left \o effects'
  <2>1. IInv'
    BY FetchInv
  <2> QED
    BY <1>1, <1>2, ConcatEmptySeq DEF Queue
<1>5. Queue' = IF change THEN Append(Queue, brought + 1) ELSE Queue
  <2>1. app.left \o Append(effects, brought + 1) = Append(app.left \o effects, brought + 1)
    <3>1. \A s, t \in Seq(Page), e \in Page : s \o Append(t, e) = Append(s \o t, e)
      BY ConcatAppend
    <3> HIDE DEF Page
    <3> QED
      BY <1>2, <3>1
  <2>2. effects' = IF change THEN Append(effects, brought + 1) ELSE effects
    BY DEF OnFetched
  <2> QED
    BY <1>3, <1>4, <2>1, <2>2
<1> QED
  BY <1>5 DEF OnFetched, Order!Bring, Queue

(* The core saves a checkpoint when every page it covers is saved.          *)
LEMMA AdvanceMaps ==
    ASSUME IInv, NEW open, NEW bytes \in 0 .. MaxPages,
           bytes = reported \/ bytes = brought,
           \A page \in 1 .. brought : page \in saved \/ page \in open,
           lost # {} => Held \in open,
           FlushState(open, bytes),
           UNCHANGED <<brought, saved, lost, app, effects>>, worker'.left = worker.left
    PROVE  Order!Advance \/ UNCHANGED orderVars
<1>1. Queue' = Queue
  BY DEF Queue
<1>2. CASE position' = position
  BY <1>1, <1>2 DEF orderVars
<1>3. CASE open = {} /\ position' = bytes /\ bytes # 0
  <2>1. position' \in position .. brought
    BY <1>3, MaxNat DEF IInv, TypeOK, Accounted
  <2>2. \A page \in 1 .. brought : page \in saved /\ page \notin lost
    BY <1>3
  <2>3. \A page \in 1 .. position' : page \in 1 .. brought
    BY <2>1 DEF IInv, TypeOK
  <2>4. \A page \in 1 .. position' : Order!Kept(page)
    BY <2>2, <2>3 DEF Order!Kept
  <2> QED
    BY <1>1, <2>1, <2>4 DEF Order!Advance, Queue
<1> QED
  BY <1>2, <1>3, Flushed DEF IInv

(* Applying a batch takes the first of the queue.                           *)
LEMMA AppliesMaps ==
    ASSUME IInv, AppApplies \/ WorkerApplies
    PROVE  Order!Save \/ UNCHANGED orderVars
<1>1. /\ app \in Thread /\ worker \in Thread /\ TypeOK
      /\ app.left \in Seq(Page) /\ worker.left \in Seq(Page) /\ effects \in Seq(Page)
      /\ app.done \in Seq(saved) /\ worker.done \in Seq(saved)
  BY DEF IInv, TypeOK, Thread, Accounted
<1>2. CASE AppApplies
  <2>1. UNCHANGED <<brought, lost, position, effects, worker>> /\ ApplyInOrder(app, app')
    BY <1>2 DEF AppApplies, coreVars
  <2>2. \/ /\ app.left # <<>> /\ app'.left = Tail(app.left)
           /\ saved' = saved \union {Head(app.left)}
        \/ app'.left = app.left /\ saved' = saved
    BY <1>1, <2>1, Applied
  <2>3. CASE app'.left = app.left /\ saved' = saved
    BY <2>1, <2>3 DEF orderVars, Queue
  <2>4. CASE /\ app.left # <<>> /\ app'.left = Tail(app.left)
             /\ saved' = saved \union {Head(app.left)}
    <3>1. worker.left = <<>> /\ worker'.left = <<>>
      BY <2>1, <2>4 DEF IInv, OneHolder
    <3>2. Queue = app.left \o effects
      BY <3>1, QueueIs
    <3>3. Tail(app.left) \in Seq(Page)
      BY <1>1, <2>4, HeadTailProperties
    <3>4. Queue' = Tail(app.left) \o effects
      BY <1>1, <2>1, <2>4, <3>1, <3>3, ConcatEmptySeq DEF Queue
    <3>5. Queue # <<>> /\ Head(Queue) = Head(app.left) /\ Queue' = Tail(Queue)
      BY <1>1, <2>4, <3>2, <3>4, ConcatTail
    <3> QED
      BY <2>1, <2>4, <3>5 DEF Order!Save, Queue
  <2> QED
    BY <2>2, <2>3, <2>4
<1>3. CASE WorkerApplies
  <2>1. UNCHANGED <<brought, lost, position, effects, app>> /\ ApplyInOrder(worker, worker')
    BY <1>3 DEF WorkerApplies, coreVars
  <2>2. \/ /\ worker.left # <<>> /\ worker'.left = Tail(worker.left)
           /\ saved' = saved \union {Head(worker.left)}
        \/ worker'.left = worker.left /\ saved' = saved
    BY <1>1, <2>1, Applied
  <2>3. CASE worker'.left = worker.left /\ saved' = saved
    BY <2>1, <2>3 DEF orderVars, Queue
  <2>4. CASE /\ worker.left # <<>> /\ worker'.left = Tail(worker.left)
             /\ saved' = saved \union {Head(worker.left)}
    <3>1. effects = <<>> /\ app.left = <<>> /\ Queue = worker.left
      BY <2>4, QueueIs DEF IInv, OneHolder
    <3>2. Tail(worker.left) \in Seq(Page) /\ <<>> \in Seq(Page)
      BY <1>1, <2>4, HeadTailProperties, EmptySeq
    <3>3. <<>> \o Tail(worker.left) = Tail(worker.left)
          /\ Tail(worker.left) \o <<>> = Tail(worker.left)
      BY <3>2, ConcatEmptySeq
    <3>4. Queue' = Tail(Queue)
      BY <2>1, <2>4, <3>1, <3>3 DEF Queue
    <3> QED
      BY <2>1, <2>4, <3>1, <3>4 DEF Order!Save, Queue
  <2> QED
    BY <2>2, <2>3, <2>4
<1> QED
  BY <1>2, <1>3

(* Taking batches and putting them back leave the queue as it is.           *)
LEMMA HandsMap ==
    ASSUME IInv, BeginTick \/ TakeEffects \/ Tell \/ EndTick \/ TakeWhileIdle \/ PutBack
                 \/ BecomeIdle \/ RetryDue
    PROVE  UNCHANGED orderVars
<1>1. /\ app.left \in Seq(Page) /\ worker.left \in Seq(Page) /\ effects \in Seq(Page)
      /\ <<>> \in Seq(Page)
  BY EmptySeq DEF IInv, TypeOK, Thread
<1>2. \A s \in Seq(Page) : s \o <<>> = s /\ <<>> \o s = s
  BY ConcatEmptySeq
<1>3. UNCHANGED <<brought, saved, lost, position>>
  BY DEF BeginTick, TakeEffects, Tell, EndTick, TakeWhileIdle, PutBack, BecomeIdle,
         RetryDue, coreVars
<1>4. Queue' = Queue
  <2>1. CASE BeginTick
    BY <2>1 DEF BeginTick, Away, Queue, IInv, OneHolder
  <2>2. CASE TakeEffects
    <3>1. app.left = <<>> /\ app'.left = effects /\ effects' = <<>> /\ worker' = worker
      BY <2>2 DEF TakeEffects, IInv, OneHolder
    <3>2. CASE worker.left = <<>>
      BY <1>1, <1>2, <3>1, <3>2 DEF Queue
    <3>3. CASE worker.left # <<>>
      BY <1>1, <1>2, <3>1, <3>3 DEF Queue, IInv, OneHolder
    <3> QED
      BY <3>2, <3>3
  <2>3. CASE Tell
    <3>1. app'.left = app.left /\ UNCHANGED <<worker, effects>>
      BY <2>3 DEF Tell, IInv, TypeOK, Thread
    <3> QED
      BY <3>1 DEF Queue
  <2>4. CASE EndTick
    <3>1. app'.left = <<>> /\ effects' = app.left \o effects /\ worker' = worker
      BY <2>4 DEF EndTick, Requeue, Away
    <3>2. CASE worker.left = <<>>
      <4>1. app.left \o effects \in Seq(Page)
        BY <1>1, ConcatProperties
      <4> QED
        BY <1>1, <1>2, <3>1, <3>2, <4>1 DEF Queue
    <3>3. CASE worker.left # <<>>
      BY <1>1, <1>2, <3>1, <3>3 DEF Queue, IInv, OneHolder
    <3> QED
      BY <3>2, <3>3
  <2>5. CASE TakeWhileIdle
    <3>1. app.left = <<>> /\ worker.left = <<>> /\ worker'.left = effects
          /\ effects' = <<>> /\ app' = app
      BY <2>5 DEF TakeWhileIdle, IInv, OneHolder
    <3> QED
      BY <1>1, <1>2, <3>1 DEF Queue
  <2>6. CASE PutBack
    <3>1. worker'.left = <<>> /\ effects' = worker.left \o effects /\ app' = app
      BY <2>6 DEF PutBack, Requeue, Away
    <3>2. CASE worker.left = <<>>
      BY <1>1, <1>2, <3>1, <3>2 DEF Queue
    <3>3. CASE worker.left # <<>>
      BY <1>1, <1>2, <3>1, <3>3 DEF Queue, IInv, OneHolder
    <3> QED
      BY <3>2, <3>3
  <2>7. CASE BecomeIdle \/ RetryDue
    BY <2>7 DEF BecomeIdle, RetryDue, Queue
  <2> QED
    BY <2>1, <2>2, <2>3, <2>4, <2>5, <2>6, <2>7
<1> QED
  BY <1>3, <1>4 DEF orderVars

LEMMA StepMaps ==
    ASSUME IInv, [Next]_vars
    PROVE  [Order!Next]_orderVars
<1>1. ASSUME NEW change \in BOOLEAN, NEW lose \in BOOLEAN, OnFetched(change, lose)
      PROVE  Order!Next
  BY <1>1, FetchMaps DEF Order!Next
<1>2. CASE OnState
  <2>1. brought \in 0 .. MaxPages /\ worker'.left = worker.left
    BY <1>2 DEF OnState, IInv, TypeOK
  <2> QED
    BY <1>2, <2>1, AdvanceMaps DEF OnState, IInv, Accounted, Order!Next
<1>3. CASE RemoteApplied
  <2>1. Head(mail) \in saved /\ Head(mail) \in Page /\ reported \in 0 .. MaxPages
    BY <1>3, HeadTailProperties DEF RemoteApplied, IInv, TypeOK, Accounted
  <2>2. /\ unapplied' = unapplied \ {Head(mail)} /\ FlushState(unapplied', reported)
        /\ UNCHANGED <<brought, saved, lost, app, effects, worker>>
    BY <1>3 DEF RemoteApplied
  <2>3. \A page \in 1 .. brought : page \in saved \/ page \in unapplied'
    BY <2>1, <2>2 DEF IInv, Accounted
  <2>4. lost # {} => Held \in unapplied'
    BY <2>1, <2>2 DEF IInv, Accounted
  <2> QED
    BY <2>1, <2>2, <2>3, <2>4, AdvanceMaps DEF Order!Next
<1>4. CASE Acknowledge
  <2>1. UNCHANGED <<brought, saved, lost, app, effects>> /\ worker'.left = worker.left
    BY <1>4 DEF Acknowledge, IInv, TypeOK, Thread
  <2>2. CASE worker.done = <<>>
    BY <1>4, <2>1, <2>2 DEF Acknowledge, orderVars, Queue
  <2>3. CASE worker.done # <<>>
    <3>1. worker.done \in Seq(Page) /\ worker.done \in Seq(saved)
      BY DEF IInv, TypeOK, Accounted, Thread
    <3>2. Head(worker.done) \in saved /\ Head(worker.done) \in Page
          /\ reported \in 0 .. MaxPages
      BY <2>3, <3>1, HeadTailProperties DEF IInv, TypeOK
    <3>3. unapplied' = unapplied \ {Head(worker.done)} /\ FlushState(unapplied', reported)
      BY <1>4, <2>3 DEF Acknowledge
    <3>4. \A page \in 1 .. brought : page \in saved \/ page \in unapplied'
      BY <3>2, <3>3 DEF IInv, Accounted
    <3>5. lost # {} => Held \in unapplied'
      BY <3>2, <3>3 DEF IInv, Accounted
    <3> QED
      BY <2>1, <3>2, <3>3, <3>4, <3>5, AdvanceMaps DEF Order!Next
  <2> QED
    BY <2>2, <2>3
<1>5. CASE AppApplies \/ WorkerApplies
  BY <1>5, AppliesMaps DEF Order!Next
<1>6. CASE BeginTick \/ TakeEffects \/ Tell \/ EndTick \/ TakeWhileIdle \/ PutBack
           \/ BecomeIdle \/ RetryDue
  BY <1>6, HandsMap
<1>7. CASE Crash
  <2>1. Queue' = <<>>
    BY <1>7, AwayThread, ConcatEmptySeq DEF Crash, Away, Queue
  <2> QED
    BY <1>7, <2>1 DEF Crash, Order!Relaunch, Order!Next, Queue
<1>8. CASE UNCHANGED vars
  BY <1>8 DEF vars, orderVars, Queue
<1> QED
  BY <1>1, <1>2, <1>3, <1>4, <1>5, <1>6, <1>7, <1>8 DEF Next

-----------------------------------------------------------------------------
(* Theorems *)

(* As long as frames are short, the invariant holds all along: one thread   *)
(* at a time holds batches, and what is acknowledged is saved.              *)
THEOREM Invariance == ASSUME SlowFrames = FALSE PROVE Spec => []IInv
<1>1. Init => IInv
  BY InitInv
<1>2. IInv /\ [Next]_vars => IInv'
  BY NextInv
<1> QED
  BY <1>1, <1>2, PTL DEF Spec

(* Every variable keeps its type.                                           *)
THEOREM Typed == ASSUME SlowFrames = FALSE PROVE Spec => []TypeOK
<1>1. IInv => TypeOK
  BY DEF IInv
<1> QED
  BY <1>1, Invariance, PTL

(* Pages are saved in the order they came, each once, and the checkpoint    *)
(* never passes one that is not, whichever of the two threads applies and   *)
(* whatever fails in between.                                               *)
THEOREM Implements == ASSUME SlowFrames = FALSE PROVE Spec => InOrder
<1>1. Init => Order!Init
  <2> SUFFICES ASSUME Init PROVE Order!Init
    OBVIOUS
  <2>1. Queue = <<>>
    BY AwayThread, ConcatEmptySeq DEF Init, Away, Queue
  <2> QED
    BY <2>1 DEF Init, Order!Init, Queue
<1>2. IInv /\ [Next]_vars => [Order!Next]_(Order!orderVars)
  <2>1. IInv /\ [Next]_vars => [Order!Next]_orderVars
    BY StepMaps
  <2> QED
    BY <2>1 DEF orderVars, Order!orderVars, Queue
<1> QED
  BY <1>1, <1>2, Invariance, PTL DEF Spec, InOrder, Order!Spec
=============================================================================
