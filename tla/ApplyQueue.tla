------------------------------ MODULE ApplyQueue ------------------------------
(***************************************************************************)
(* How fetched batches get from the sync worker into the database           *)
(* (src/host/sync_host.rs, src/sync/core.rs).  The worker appends them to   *)
(* `Shared.effects`.  The app thread takes and applies them once a frame;   *)
(* when no frame was drawn for UI_IDLE the worker does.  Each holds its     *)
(* batches outside the lock while it applies them one by one, and puts what *)
(* it could not save back at the front.  What was saved is acknowledged to  *)
(* the core, which then may save the engine's checkpoint.                   *)
(*                                                                          *)
(* A page stands for one `Fetched` event; its batch, if there is anything   *)
(* to apply, has the page's number as its id.                               *)
(***************************************************************************)
EXTENDS Naturals, Sequences

CONSTANTS
    SlowFrames,   \* may one `tick` take longer than UI_IDLE?
    MaxPages, MaxFailures, MaxCrashes   \* bounds on what happens

ASSUME QueueAssumption ==
    /\ SlowFrames \in BOOLEAN
    /\ {MaxPages, MaxFailures, MaxCrashes} \subseteq Nat

VARIABLES
    brought,    \* core: `Fetched` events handled, counted on from the position
    unapplied,  \* core: batches not acknowledged; Held stays for the session
    reported,   \* core: pending_state, a checkpoint covering so many pages, or 0
    position,   \* on disk: the checkpoint
    saved,      \* on disk: pages whose batch was applied, or that brought none
    lost,       \* pages of which a record could not be set aside
    effects,    \* Shared.effects: the batches in it, oldest first
    retry,      \* Shared.apply_retry: "none", "waiting" for not_before, or "due"
    drawn,      \* Shared.last_tick is set
    idle,       \* it is longer ago than UI_IDLE
    app,        \* app thread: [at, left, done], see Thread
    worker,     \* worker thread: the same
    mail,       \* `Applied` messages to the worker, oldest first
    budget      \* bounds: failures and crashes that may still happen

coreVars == <<brought, unapplied, reported, position, lost>>
vars == <<brought, unapplied, reported, position, saved, lost, effects, retry,
          drawn, idle, app, worker, mail, budget>>

Page == 1 .. MaxPages
Held == 0      \* CHECKPOINT_HELD: an id that is never acknowledged

(* A thread is elsewhere, carries out the user's actions, has taken batches *)
(* to apply (`left`), or is done with those saved (`done`) and has them to  *)
(* acknowledge and then the rest to put back.                               *)
Thread == [at : {"away", "acting", "taken", "applying", "telling", "leaving"},
           left : Seq(Page), done : Seq(Page)]
Away == [at |-> "away", left |-> <<>>, done |-> <<>>]

TypeOK ==
    /\ brought \in 0 .. MaxPages
    /\ unapplied \subseteq Page \union {Held}
    /\ reported \in 0 .. MaxPages /\ position \in 0 .. MaxPages
    /\ saved \subseteq Page /\ lost \subseteq Page
    /\ effects \in Seq(Page)
    /\ retry \in {"none", "waiting", "due"}
    /\ drawn \in BOOLEAN /\ idle \in BOOLEAN
    /\ app \in Thread /\ worker \in Thread
    /\ mail \in Seq(Page)
    /\ budget \in [failures : Nat, crashes : Nat]

Init ==
    /\ brought = 0 /\ unapplied = {} /\ reported = 0 /\ position = 0
    /\ saved = {} /\ lost = {}
    /\ effects = <<>> /\ retry = "none" /\ drawn = FALSE /\ idle = FALSE
    /\ app = Away /\ worker = Away /\ mail = <<>>
    /\ budget = [failures |-> MaxFailures, crashes |-> MaxCrashes]

MayFail == budget.failures > 0
Failing == budget' = [budget EXCEPT !.failures = @ - 1]

-----------------------------------------------------------------------------
(* The worker's core *)

(* The mistake: one page too many is taken as covered.                      *)
FlushStateAhead(open, bytes) ==
    IF open # {} \/ bytes = 0
    THEN reported' = bytes /\ UNCHANGED <<position, budget>>
    ELSE position' = bytes + 1 /\ reported' = 0 /\ UNCHANGED budget

(* The checkpoint is saved once nothing is left to apply; when that fails   *)
(* it stays to be saved with the next acknowledgement or report.            *)
FlushState(open, bytes) ==
    IF open # {} \/ bytes = 0
    THEN reported' = bytes /\ UNCHANGED <<position, budget>>
    ELSE \/ position' = bytes /\ reported' = 0 /\ UNCHANGED budget
         \/ MayFail /\ Failing /\ reported' = bytes /\ UNCHANGED position

(* A page arrives: `change` says that it holds something to apply, `lose`   *)
(* that a record this version cannot read could not be set aside either.    *)
OnFetched(change, lose) ==
    /\ worker.at = "away" /\ brought < MaxPages
    /\ lose => MayFail
    /\ brought' = brought + 1
    /\ unapplied' = unapplied \union (IF change THEN {brought + 1} ELSE {})
                              \union (IF lose THEN {Held} ELSE {})
    /\ effects' = IF change THEN Append(effects, brought + 1) ELSE effects
    /\ saved' = IF change THEN saved ELSE saved \union {brought + 1}
    /\ lost' = IF lose THEN lost \union {brought + 1} ELSE lost
    /\ IF lose THEN Failing ELSE UNCHANGED budget
    /\ UNCHANGED <<reported, position, retry, drawn, idle, app, worker, mail>>

OnState ==
    /\ worker.at = "away" /\ brought > 0
    /\ FlushState(unapplied, brought)
    /\ UNCHANGED <<brought, unapplied, saved, lost, effects, retry, drawn, idle,
                   app, worker, mail>>

RemoteApplied ==
    /\ worker.at = "away" /\ mail # <<>>
    /\ mail' = Tail(mail)
    /\ unapplied' = unapplied \ {Head(mail)}
    /\ FlushState(unapplied', reported)
    /\ UNCHANGED <<brought, saved, lost, effects, retry, drawn, idle, app, worker>>

-----------------------------------------------------------------------------
(* `apply_in_order`, by either thread: `me` is what the thread holds *)

Start(me, me1) ==
    /\ me.at = "taken"
    /\ me1 = [me EXCEPT !.at =
                IF me.left = <<>> \/ retry = "waiting" THEN "telling" ELSE "applying"]
    /\ UNCHANGED <<saved, retry, budget>>

Saved(me, me1) ==
    /\ me.at = "applying" /\ me.left # <<>>
    /\ saved' = saved \union {Head(me.left)}
    /\ retry' = "none"
    /\ me1 = [at |-> IF Tail(me.left) = <<>> THEN "telling" ELSE "applying",
              left |-> Tail(me.left), done |-> Append(me.done, Head(me.left))]
    /\ UNCHANGED budget

NotSaved(me, me1) ==
    /\ me.at = "applying" /\ me.left # <<>>
    /\ MayFail /\ Failing
    /\ retry' = "waiting"
    /\ me1 = [me EXCEPT !.at = "telling"]
    /\ UNCHANGED saved

ApplyInOrder(me, me1) == Start(me, me1) \/ Saved(me, me1) \/ NotSaved(me, me1)

(* The mistakes: put back behind newer batches; not put back.               *)
RequeueBehind(me, me1) ==
    /\ me.at = "leaving"
    /\ effects' = effects \o me.left
    /\ me1 = Away

RequeueForgotten(me, me1) == me.at = "leaving" /\ me1 = Away /\ UNCHANGED effects

Requeue(me, me1) ==
    /\ me.at = "leaving"
    /\ effects' = me.left \o effects
    /\ me1 = Away

-----------------------------------------------------------------------------
(* The app thread *)

(* `tick` notes that a frame is drawn, and carries out the user's actions   *)
(* before it takes the batches.                                             *)
BeginTick ==
    /\ app.at = "away"
    /\ drawn' = TRUE /\ idle' = FALSE
    /\ app' = [Away EXCEPT !.at = "acting"]
    /\ UNCHANGED <<coreVars, saved, effects, retry, worker, mail, budget>>

TakeEffects ==
    /\ app.at = "acting"
    /\ app' = [at |-> "taken", left |-> effects, done |-> <<>>]
    /\ effects' = <<>>
    /\ UNCHANGED <<coreVars, saved, retry, drawn, idle, worker, mail, budget>>

AppApplies ==
    /\ ApplyInOrder(app, app')
    /\ UNCHANGED <<coreVars, effects, drawn, idle, worker, mail>>

Tell ==
    /\ app.at = "telling"
    /\ mail' = mail \o app.done
    /\ app' = [app EXCEPT !.at = "leaving", !.done = <<>>]
    /\ UNCHANGED <<coreVars, saved, effects, retry, drawn, idle, worker, budget>>

EndTick ==
    /\ Requeue(app, app')
    /\ UNCHANGED <<coreVars, saved, retry, drawn, idle, worker, mail, budget>>

-----------------------------------------------------------------------------
(* The worker thread when no window draws *)

(* After every message, and at least once a second, the worker looks        *)
(* whether the interface is idle.                                           *)
TakeWhileIdle ==
    /\ worker.at = "away" /\ drawn /\ idle /\ effects # <<>>
    /\ worker' = [at |-> "taken", left |-> effects, done |-> <<>>]
    /\ effects' = <<>>
    /\ UNCHANGED <<coreVars, saved, retry, drawn, idle, app, mail, budget>>

WorkerApplies ==
    /\ ApplyInOrder(worker, worker')
    /\ UNCHANGED <<coreVars, effects, drawn, idle, app, mail>>

(* The worker acknowledges to its own core, one batch after the other.      *)
Acknowledge ==
    /\ worker.at = "telling"
    /\ IF worker.done = <<>>
       THEN /\ worker' = [worker EXCEPT !.at = "leaving"]
            /\ UNCHANGED <<unapplied, reported, position, budget>>
       ELSE /\ worker' = [worker EXCEPT !.done = Tail(@)]
            /\ unapplied' = unapplied \ {Head(worker.done)}
            /\ FlushState(unapplied', reported)
    /\ UNCHANGED <<brought, lost, saved, effects, retry, drawn, idle, app, mail>>

PutBack ==
    /\ Requeue(worker, worker')
    /\ UNCHANGED <<coreVars, saved, retry, drawn, idle, app, mail, budget>>

-----------------------------------------------------------------------------
(* Time, and the end of the program *)

BecomeIdle ==
    /\ drawn /\ ~idle
    /\ SlowFrames \/ app.at = "away"
    /\ idle' = TRUE
    /\ UNCHANGED <<coreVars, saved, effects, retry, drawn, app, worker, mail, budget>>

RetryDue ==
    /\ retry = "waiting"
    /\ retry' = "due"
    /\ UNCHANGED <<coreVars, saved, effects, drawn, idle, app, worker, mail, budget>>

(* Nothing in memory survives.  Pages behind the checkpoint are fetched and *)
(* applied again.                                                           *)
Crash ==
    /\ budget.crashes > 0
    /\ budget' = [budget EXCEPT !.crashes = @ - 1]
    /\ brought' = position /\ saved' = 1 .. position /\ lost' = {}
    /\ unapplied' = {} /\ reported' = 0
    /\ effects' = <<>> /\ retry' = "none" /\ drawn' = FALSE /\ idle' = FALSE
    /\ app' = Away /\ worker' = Away /\ mail' = <<>>
    /\ UNCHANGED position

Next ==
    \/ \E change, lose \in BOOLEAN : OnFetched(change, lose)
    \/ OnState
    \/ RemoteApplied
    \/ BeginTick \/ TakeEffects \/ AppApplies \/ Tell \/ EndTick
    \/ TakeWhileIdle \/ WorkerApplies \/ Acknowledge \/ PutBack
    \/ BecomeIdle \/ RetryDue
    \/ Crash

Spec == Init /\ [][Next]_vars

(* Both threads go on with what they began, time passes, the worker reads   *)
(* its messages, and the program draws a first frame.  That it draws        *)
(* another one is not assumed: a covered window draws none.                 *)
Fairness ==
    /\ WF_vars(TakeEffects) /\ WF_vars(AppApplies) /\ WF_vars(Tell) /\ WF_vars(EndTick)
    /\ WF_vars(TakeWhileIdle) /\ WF_vars(WorkerApplies)
    /\ WF_vars(Acknowledge) /\ WF_vars(PutBack)
    /\ WF_vars(RemoteApplied)
    /\ WF_vars(BecomeIdle) /\ WF_vars(RetryDue)
    /\ WF_vars(~drawn /\ BeginTick)

FairSpec == Spec /\ Fairness

-----------------------------------------------------------------------------
(* Properties *)

(* With two threads applying, retries, a checkpoint that fails to save and  *)
(* crashes, the pages are still saved in order, each once, and the saved    *)
(* position passes none that is not (`apply_in_order`, `requeue`,           *)
(* `hold_checkpoint`, `flush_state`).                                       *)
Order == INSTANCE FetchOrder
    WITH waiting <- app.left \o worker.left \o effects

InOrder == Order!Spec

(* A batch that can be saved is saved and acknowledged sooner or later,     *)
(* also when no window draws again ("changes waiting for a frame would wait *)
(* for the user to look", UI_IDLE), unless the program ends first.          *)
EachAcknowledged == \A page \in Page : page \in unapplied ~> page \notin unapplied

(* While a batch waits for its retry, none behind it is saved ("the batches *)
(* behind it wait", `apply_in_order`).  With SlowFrames it breaks; without, *)
(* InOrder says more, so no run checks it (README, section 7).              *)
OthersWait ==
    [][\A page \in saved' \ saved :
        page \in unapplied => \A other \in unapplied \ (saved \union {Held}) : page <= other]_vars
=============================================================================
