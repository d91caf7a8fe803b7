---------------------------- MODULE SyncSession ----------------------------
(***************************************************************************)
(* Whose data goes where.  A database is bound to one Apple Account; the   *)
(* account signed in on the Mac may be another one, or change at any       *)
(* time.  This module follows what decides that: the user's choices, which *)
(* the app thread carries out on its next tick; the core on the worker     *)
(* thread; the bridge; and the zones of the accounts.                      *)
(*                                                                         *)
(* The data path (module SyncMac) is reduced to sets.  An item is never    *)
(* edited; it is local or not, linked (known to be in the zone) or not,    *)
(* and what is local and not linked is what the outbox holds.  A position  *)
(* of the engine is the account it was reached in and what was listed.     *)
(***************************************************************************)
EXTENDS Naturals, Sequences

CONSTANTS Account, Item,
          Home,        \* the account signed in when the model begins
          None,        \* no account, no position, no choice
          Choices,     \* the choices the user may make
          MaxChoices, MaxSwitches, MaxTroubles,
          Interrupted  \* may the account change while stage waits for its answer?

ASSUME SessionAssumption ==
  /\ Home \in Account /\ None \notin Account
  /\ None \notin {"enable", "disable", "confirm", "keep", "use", "merge",
                  "join", "cloud", "decline", "delete"}
  /\ {"unknown", "unavailable"} \cap Account = {}
  /\ MaxChoices \in Nat \ {0} /\ {MaxSwitches, MaxTroubles} \subseteq Nat
  /\ Interrupted \in BOOLEAN

VARIABLES
  db,        \* sync_state, and what the collections, sync_entity and sync_inbox hold
  core,      \* SyncCore's fields
  host,      \* what the worker and the app thread share
  mail,      \* the worker's channel
  cmds,      \* commands on their way to the bridge
  bridge,    \* the Coordinator and its engine
  signedIn,  \* the account signed in on this Mac
  cloud,     \* the zone of each account
  user,      \* what the user agreed to, asked for and declined so far, and what
             \* came out of turn; the program reads none of it
  left       \* what may still happen

vars == <<db, core, host, mail, cmds, bridge, signedIn, cloud, user, left>>

(* A position of the engine.                                               *)
Position == [of : Account, seen : SUBSET Item]

(* sync_state: what is on disk.  ckpt is engine_state, owner is            *)
(* engine_state_account_hash.                                              *)
Database == [enabled : BOOLEAN, bound : Account \cup {None}, joined : BOOLEAN,
             ckpt : Position \cup {None}, owner : Account \cup {None},
             local : SUBSET Item, linked : SUBSET Item, inbox : SUBSET Item]

Core == [started : BOOLEAN, account : Account \cup {"unknown", "unavailable"},
         paused : BOOLEAN, fetching : BOOLEAN, completed : BOOLEAN, caught : BOOLEAN,
         inflight : SUBSET Item, pending : Position \cup {None}, unapplied : Nat,
         held : BOOLEAN, deleting : {"idle", "requested", "confirmed"}]

NewCore == [started |-> FALSE, account |-> "unknown", paused |-> FALSE, fetching |-> FALSE,
            completed |-> FALSE, caught |-> FALSE, inflight |-> {}, pending |-> None,
            unapplied |-> 0, held |-> FALSE, deleting |-> "idle"]

(* The effects the core leaves for the app thread: the account it asks     *)
(* about last, and the batches to apply.                                   *)
NoEffects == [confirm |-> None, mismatch |-> None, batches |-> <<>>]

(* What is shared under the host's lock: the accounts the user is asked    *)
(* about, the effects, the phase and the deletion the worker last          *)
(* reported, and the choice that waits for the next tick.                  *)
NewHost == [confirm |-> None, mismatch |-> None, effects |-> NoEffects, phase |-> "off",
            deleted |-> FALSE, choice |-> None]

NewBridge == [running |-> FALSE, at |-> None, staged |-> {}]

(* A message or command of this type waits.                                *)
Has(q, type) == \E k \in DOMAIN q : q[k].type = type

-----------------------------------------------------------------------------
(*                               The core                                  *)

(* A handler is a function of the core, the database it writes, the        *)
(* commands it sends and the effects it leaves for the app thread.         *)
World == [db |-> db, core |-> core, cmds |-> cmds, effects |-> host.effects]

Sends(w, c) == [w EXCEPT !.cmds = Append(w.cmds, c)]

BoundAccount(w) == w.core.account \in Account /\ w.core.account = w.db.bound
CanSync(w) == w.core.started /\ ~w.core.paused /\ BoundAccount(w)
CanUpload(w) == CanSync(w) /\ w.db.enabled /\ w.db.joined

StartFetch(w) ==
  IF CanSync(w) /\ ~w.core.fetching
  THEN Sends([w EXCEPT !.core.fetching = TRUE], [type |-> "fetch", for |-> w.core.account])
  ELSE w

Pump(w) ==
  LET due == (w.db.local \ w.db.linked) \ w.core.inflight
  IN  IF CanUpload(w) /\ due # {}
      THEN Sends(Sends([w EXCEPT !.core.inflight = w.core.inflight \cup due],
                       [type |-> "stage", for |-> w.core.account, items |-> due]),
                 [type |-> "send"])
      ELSE w

(* flush_state: the position is saved with the account signed in now.      *)
SavePosition(w, owner) ==
  IF w.core.pending = None
  THEN [w EXCEPT !.core.caught = w.core.caught \/ w.core.completed]
  ELSE [w EXCEPT !.core.caught = TRUE, !.core.pending = None,
                 !.db.ckpt = w.core.pending, !.db.owner = owner]

Known(w) == IF w.core.account \in Account THEN w.core.account ELSE None

(* Mutants: batches not applied yet do not matter; a word for an account.  *)
FlushStateEarly(w) == IF w.core.held THEN w ELSE SavePosition(w, Known(w))
FlushStateBlind(w) ==
  IF w.core.unapplied > 0 \/ w.core.held THEN w ELSE SavePosition(w, w.core.account)

FlushState(w) ==
  IF w.core.unapplied > 0 \/ w.core.held THEN w ELSE SavePosition(w, Known(w))

Start(w) ==
  IF w.db.enabled /\ ~w.core.started
  THEN Sends(Sends([w EXCEPT !.core.started = TRUE],
                   [type |-> "start",
                    at |-> IF w.db.owner # None /\ w.db.owner = w.db.bound
                           THEN w.db.ckpt ELSE None]),
             [type |-> "check"])
  ELSE w

Stop(w) ==
  LET quiet == [w EXCEPT !.core.started = FALSE, !.core.account = "unknown",
                         !.core.inflight = {}, !.core.fetching = FALSE,
                         !.core.deleting = "idle"]
  IN  IF w.core.started THEN Sends(quiet, [type |-> "stop"]) ELSE quiet

OnAvailable(w, a) ==
  LET known == [w EXCEPT !.core.account = a]
  IN  CASE w.db.bound = None -> [known EXCEPT !.effects.confirm = a]
        [] w.db.bound = a -> StartFetch(known)
        [] OTHER -> [known EXCEPT !.core.paused = TRUE, !.effects.mismatch = a]

OnAccount(w, a) ==
  IF a = None THEN [w EXCEPT !.core.account = "unavailable"] ELSE OnAvailable(w, a)

OnAccountChange(w, a) ==
  OnAccount([w EXCEPT !.core.inflight = {}, !.core.fetching = FALSE], a)

(* admit: what is linked is known already.  Before the first merge what is *)
(* fetched waits in the inbox; if it cannot be kept there, the checkpoint  *)
(* is held until the program starts again.                                 *)
OnFetched(w, items, kept) ==
  LET new == items \ w.db.linked
      over == [w EXCEPT !.core.fetching = FALSE]
  IN  IF new = {} THEN over
      ELSE IF ~w.db.joined
      THEN IF kept THEN [over EXCEPT !.db.inbox = w.db.inbox \cup new]
                   ELSE [over EXCEPT !.core.held = TRUE]
      ELSE [over EXCEPT !.core.unapplied = w.core.unapplied + 1,
                        !.effects.batches = Append(w.effects.batches, new)]

OnState(w, position) ==
  FlushState([w EXCEPT !.core.fetching = FALSE, !.core.pending = position])

OnFetchComplete(w) ==
  FlushState([w EXCEPT !.core.fetching = FALSE, !.core.completed = TRUE])

(* An upload that was forgotten leaves only its change tag behind; so does *)
(* one whose row in sync_entity went with a reset: ack_saved only updates. *)
OnSent(w, items) ==
  [w EXCEPT !.db.linked = w.db.linked \cup IF w.db.joined THEN items \cap w.core.inflight ELSE {},
            !.core.inflight = w.core.inflight \ items]

(* on_error: a deletion under way failed.  A refused stage says that the   *)
(* account is not available.                                               *)
OnError(w, refused) ==
  [w EXCEPT !.core.fetching = FALSE,
            !.core.deleting = IF w.core.deleting = "requested" THEN "idle" ELSE w.core.deleting,
            !.core.account = IF refused THEN "unavailable" ELSE w.core.account]

(* Mutant: a failed send leaves its uploads under way.                     *)
OnSendFailedKept(w) == OnError(w, FALSE)

OnSendFailed(w) == [OnError(w, FALSE) EXCEPT !.core.inflight = {}]

OnZoneDeleted(w) ==
  IF w.core.deleting = "requested" THEN [w EXCEPT !.core.deleting = "confirmed"] ELSE w

RemoteApplied(w) ==
  Pump(FlushState([w EXCEPT !.core.unapplied = IF w.core.unapplied = 0 THEN 0
                                                     ELSE w.core.unapplied - 1]))

(* Mutant: any account will do.                                            *)
DeleteCloudDataAnywhere(w) ==
  IF w.core.started /\ w.core.account \in Account
  THEN Sends([w EXCEPT !.core.deleting = "requested"],
             [type |-> "delete", for |-> w.core.account])
  ELSE w

DeleteCloudData(w) ==
  IF w.core.started /\ BoundAccount(w)
  THEN Sends([w EXCEPT !.core.deleting = "requested"],
             [type |-> "delete", for |-> w.core.account])
  ELSE w

(* phase_with, as far as the prompts and the delete button depend on it.   *)
Phase(w) ==
  IF ~w.db.enabled THEN "off"
  ELSE IF w.core.paused THEN "account"
  ELSE IF w.core.account = "unknown" THEN "checking"
  ELSE IF w.core.account = "unavailable" THEN "waiting"
  ELSE IF w.db.bound = None THEN "setup"
  ELSE IF w.core.account # w.db.bound THEN "account"
  ELSE IF w.core.deleting # "requested" /\ ~w.db.joined /\ w.core.caught THEN "join"
  ELSE "working"

(* run_worker: one message, then the effects and the status are shared.    *)
Becomes(next) ==
  /\ \E w \in {next} :
       /\ db' = w.db /\ core' = w.core /\ cmds' = w.cmds
       /\ host' = [host EXCEPT !.effects = w.effects, !.phase = Phase(w),
                               !.deleted = w.core.deleting = "confirmed"]
  /\ UNCHANGED <<bridge, signedIn, cloud>>

(* Something goes wrong: a fault or a crash.                               *)
Trouble == left.troubles > 0 /\ left' = [left EXCEPT !.troubles = left.troubles - 1]

Takes(type) == mail # <<>> /\ Head(mail).type = type /\ mail' = Tail(mail)

HandleStart == Takes("start") /\ Becomes(Start(World)) /\ UNCHANGED <<user, left>>
HandleStop == Takes("stop") /\ Becomes(Stop(World)) /\ UNCHANGED <<user, left>>
HandleRestart == Takes("restart") /\ Becomes(Start(Stop(World))) /\ UNCHANGED <<user, left>>
HandleClearPause ==
  Takes("clear_pause") /\ Becomes([World EXCEPT !.core.paused = FALSE]) /\ UNCHANGED <<user, left>>
HandleTick == Takes("tick") /\ Becomes(Pump(World)) /\ UNCHANGED <<user, left>>
HandleApplied == Takes("applied") /\ Becomes(RemoteApplied(World)) /\ UNCHANGED <<user, left>>
HandleDelete == Takes("delete") /\ Becomes(DeleteCloudData(World)) /\ UNCHANGED <<user, left>>

HandleAccount ==
  /\ Takes("account")
  /\ Becomes(Pump(OnAccount(World, Head(mail).account))) /\ UNCHANGED <<user, left>>
HandleChange ==
  /\ Takes("change")
  /\ Becomes(Pump(OnAccountChange(World, Head(mail).account))) /\ UNCHANGED <<user, left>>
HandleFetched ==
  /\ Takes("fetched")
  /\ \/ Becomes(Pump(OnFetched(World, Head(mail).items, TRUE))) /\ UNCHANGED left
     \/ /\ Trouble
        /\ Becomes(Pump(OnFetched(World, Head(mail).items, FALSE)))
  /\ UNCHANGED user
HandleState ==
  Takes("state") /\ Becomes(Pump(OnState(World, Head(mail).at))) /\ UNCHANGED <<user, left>>
HandleComplete ==
  Takes("complete") /\ Becomes(Pump(OnFetchComplete(World))) /\ UNCHANGED <<user, left>>
HandleSent ==
  Takes("sent") /\ Becomes(Pump(OnSent(World, Head(mail).items))) /\ UNCHANGED <<user, left>>
HandleError ==
  Takes("error") /\ Becomes(Pump(OnError(World, Head(mail).refused))) /\ UNCHANGED <<user, left>>
(* The hold after a failed send keeps the pump closed for now.             *)
HandleSendFailed ==
  Takes("send_failed") /\ Becomes(OnSendFailed(World)) /\ UNCHANGED <<user, left>>
HandleZoneDeleted ==
  Takes("zone_deleted") /\ Becomes(Pump(OnZoneDeleted(World))) /\ UNCHANGED <<user, left>>

Handles ==
  \/ HandleStart \/ HandleStop \/ HandleRestart \/ HandleClearPause \/ HandleTick
  \/ HandleApplied \/ HandleDelete \/ HandleAccount \/ HandleChange \/ HandleFetched
  \/ HandleState \/ HandleComplete \/ HandleSent \/ HandleError \/ HandleSendFailed
  \/ HandleZoneDeleted

(* The worker's timers: one second without a message; the poll.            *)
Ticks == /\ mail = <<>> /\ Pump(World) # World
         /\ Becomes(Pump(World)) /\ UNCHANGED <<mail, user, left>>
Polls == /\ mail = <<>> /\ cmds = <<>> /\ StartFetch(World) # World
         /\ Becomes(StartFetch(World)) /\ UNCHANGED <<mail, user, left>>

-----------------------------------------------------------------------------
(*                    The app thread and the user                          *)

(* refresh_view: the question on the page, which a tick draws after it has *)
(* finished a deletion.                                                    *)
Prompt ==
  IF ~db.enabled THEN "none"
  ELSE IF host.mismatch # None \/ host.phase = "account" THEN "account"
  ELSE IF host.confirm # None THEN "confirm"
  ELSE IF host.phase = "join" /\ ~host.deleted THEN "join"
  ELSE "none"

(* The buttons on the page.                                                *)
Offered ==
  IF ~db.enabled THEN {"enable"}
  ELSE {"disable"} \cup
       CASE Prompt = "account" -> {"keep", "use", "merge"}
         [] Prompt = "confirm" -> {"confirm"}
         [] Prompt = "join" -> {"join", "cloud", "decline"}
         [] Prompt = "none" -> IF host.phase = "working" THEN {"delete"} ELSE {}

(* The user presses one, whatever is under way; the next tick runs it.     *)
Choose(c) ==
  /\ host.choice = None /\ c \in Offered /\ left.choices > 0
  /\ host' = [host EXCEPT !.choice = c]
  /\ user' = IF c = "delete" THEN [user EXCEPT !.asked = user.asked \cup {db.bound}] ELSE user
  /\ left' = [left EXCEPT !.choices = left.choices - 1]
  /\ UNCHANGED <<db, core, mail, cmds, bridge, signedIn, cloud>>

(* What a step of the app thread changes.                                  *)
App == [db |-> db, host |-> host, mail |-> mail, user |-> user]

Tell(v, type) == [v EXCEPT !.mail = Append(v.mail, [type |-> type])]

Forget(d) == [d EXCEPT !.joined = FALSE, !.ckpt = None, !.owner = None]
Bind(d, a) == [Forget(d) EXCEPT !.bound = a]
ResetSyncData(d) == [d EXCEPT !.linked = {}, !.inbox = {}]
Unbind(d) == ResetSyncData([Bind(d, None) EXCEPT !.enabled = FALSE])
NotDeclined(v) == [v EXCEPT !.user.declined = {}]

Enable(v) == Tell([v EXCEPT !.db.enabled = TRUE], "start")
Disable(v) == Tell([v EXCEPT !.db.enabled = FALSE], "stop")

ConfirmAccount(v) ==
  IF v.host.confirm = None THEN v
  ELSE Tell(NotDeclined([v EXCEPT !.db = Bind(v.db, v.host.confirm),
                                  !.host.confirm = None]), "restart")

(* resolve_account: nothing happens when the question was taken back.      *)
ResolveAccount(v, c) ==
  LET next == v.host.mismatch
      answered == NotDeclined([v EXCEPT !.host.mismatch = None])
      moved == Bind(ResetSyncData(v.db), next)
  IN  CASE next = None -> v
        [] next # None /\ c = "keep" -> Tell([answered EXCEPT !.db = Unbind(v.db)], "stop")
        [] next # None /\ c = "use" ->
             Tell(Tell([answered EXCEPT !.db = [moved EXCEPT !.local = {}]],
                       "clear_pause"), "restart")
        [] next # None /\ c = "merge" ->
             Tell(Tell([answered EXCEPT !.db = moved], "clear_pause"), "restart")

(* What is added to what the user agreed belongs to account a.             *)
Agreed(u, a, items) ==
  [u EXCEPT !.agreed = [b \in Account |-> u.agreed[b] \cup IF b = a THEN items ELSE {}]]

(* finish_join: the user agrees that what is here after the merge belongs  *)
(* to the bound account.                                                   *)
Join(v, useCloud) ==
  LET d == v.db
      here == d.inbox \cup IF useCloud THEN {} ELSE d.local
  IN  Tell([v EXCEPT !.db = [d EXCEPT !.local = here, !.linked = d.linked \cup d.inbox,
                                      !.inbox = {}, !.joined = TRUE],
                     !.user = Agreed(v.user, d.bound, here)],
           "tick")

Decline(v) ==
  Tell([v EXCEPT !.db = [v.db EXCEPT !.inbox = {}, !.enabled = FALSE],
                 !.user.declined = v.user.declined \cup v.db.inbox], "stop")

Run(v, c) ==
  CASE c = "enable" -> Enable(v)
    [] c = "disable" -> Disable(v)
    [] c = "confirm" -> ConfirmAccount(v)
    [] c \in {"keep", "use", "merge"} -> ResolveAccount(v, c)
    [] c \in {"join", "cloud"} -> Join(v, c = "cloud")
    [] c = "decline" -> Decline(v)
    [] c = "delete" -> Tell(v, "delete")
    [] OTHER -> v

(* A new question replaces the old one; every batch is applied and told.   *)
TakeEffects(v) ==
  LET batches == v.host.effects.batches
      items == UNION {batches[i] : i \in DOMAIN batches}
      ask(new, old) == IF new = None THEN old ELSE new
  IN  [v EXCEPT !.host = [v.host EXCEPT
                  !.effects = NoEffects,
                  !.confirm = ask(v.host.effects.confirm, v.host.confirm),
                  !.mismatch = ask(v.host.effects.mismatch, v.host.mismatch)],
                !.db = [v.db EXCEPT !.local = v.db.local \cup items,
                                    !.linked = v.db.linked \cup items],
                !.mail = v.mail \o [i \in DOMAIN batches |-> [type |-> "applied"]]]

(* after_cloud_delete.                                                     *)
FinishDeletion(v) ==
  IF v.host.deleted
  THEN Tell([v EXCEPT !.db = Unbind(v.db), !.host.deleted = FALSE], "stop")
  ELSE v

(* What tick does not look at, noted for the properties: data is out of    *)
(* turn when the user answers which account to use while a message, a      *)
(* batch or a fetch is under way, or merges what was merged already; a     *)
(* deletion is when another account is bound while it waits for the core.  *)
UnderWay == mail # <<>> \/ host.effects.batches # <<>> \/ Has(cmds, "fetch")
OutOfTurn(c, bound) ==
  (IF \/ c \in {"confirm", "keep", "use", "merge"} /\ UnderWay
      \/ c \in {"join", "cloud"} /\ db.joined
   THEN {"data"} ELSE {})
  \cup IF bound \notin {db.bound, None} /\ Has(mail, "delete") THEN {"deletion"} ELSE {}

Noted(u, late) == [u EXCEPT !.late = u.late \cup late]

(* SyncHost::tick, when there is something to do: the choice is run        *)
(* whatever else waits, then the effects are taken.                        *)
Tick ==
  /\ host.choice # None \/ host.effects # NoEffects \/ host.deleted
  /\ \E chosen \in {Run([App EXCEPT !.host.choice = None], host.choice)} :
     \E taken \in {TakeEffects(chosen)} : \E v \in {FinishDeletion(taken)} :
       /\ db' = v.db /\ mail' = v.mail
       /\ user' = Noted(v.user, OutOfTurn(host.choice, v.db.bound))
       /\ host' = [v.host EXCEPT !.phase = IF v.db.enabled THEN v.host.phase ELSE "off"]
  /\ UNCHANGED <<core, cmds, bridge, signedIn, cloud, left>>

(* The user adds an item on this Mac.                                      *)
Create(i) ==
  /\ i \in left.fresh
  /\ db' = [db EXCEPT !.local = db.local \cup {i}]
  /\ user' = IF db.joined THEN Agreed(user, db.bound, {i}) ELSE user
  /\ left' = [left EXCEPT !.fresh = left.fresh \ {i}]
  /\ UNCHANGED <<core, host, mail, cmds, bridge, signedIn, cloud>>

-----------------------------------------------------------------------------
(*                    The bridge, the engine, the zones                    *)

(* The bridge takes the next command.                                      *)
Heads(type) ==
  /\ cmds # <<>> /\ Head(cmds).type = type
  /\ cmds' = Tail(cmds)
  /\ UNCHANGED <<db, core, host>>

Runs(type) == Heads(type) /\ UNCHANGED user

Emit(events) == mail' = mail \o events
Nothing == UNCHANGED mail
Failed(refused) == <<[type |-> "error", refused |-> refused]>>

BridgeStart ==
  /\ Runs("start")
  /\ bridge' = [running |-> TRUE, at |-> Head(cmds).at, staged |-> {}]
  /\ Nothing /\ UNCHANGED <<signedIn, cloud, left>>

BridgeCheck ==
  /\ Runs("check")
  /\ Emit(<<[type |-> "account", account |-> signedIn]>>)
  /\ UNCHANGED <<bridge, signedIn, cloud, left>>

(* The account is b when the changes are staged: if it changed while stage *)
(* waited for the answer, the engine has just forgotten what it had.       *)
StageUnder(b) ==
  IF b = signedIn
  THEN /\ bridge' = [bridge EXCEPT !.staged = bridge.staged \cup Head(cmds).items]
       /\ Nothing /\ UNCHANGED <<signedIn, left>>
  ELSE /\ bridge' = [bridge EXCEPT !.at = None, !.staged = Head(cmds).items]
       /\ Emit(<<[type |-> "change", account |-> b]>>)
       /\ signedIn' = b /\ left' = [left EXCEPT !.switches = left.switches - 1]

(* Mutant: the account is not asked for.                                   *)
BridgeStageUnasked == Runs("stage") /\ StageUnder(signedIn) /\ UNCHANGED cloud

(* Coordinator.stage: with an engine, and only if its account is the one   *)
(* signed in.                                                              *)
BridgeStage ==
  /\ Runs("stage") /\ UNCHANGED cloud
  /\ IF ~bridge.running \/ Head(cmds).for # signedIn
     THEN /\ IF bridge.running THEN Emit(Failed(TRUE)) ELSE Nothing
          /\ UNCHANGED <<bridge, signedIn, left>>
     ELSE \E b \in {signedIn} \cup IF Interrupted /\ left.switches > 0
                                   THEN Account ELSE {} :
            StageUnder(b)

BridgeSend ==
  /\ Runs("send") /\ signedIn # None
  /\ bridge' = [bridge EXCEPT !.staged = {}]
  /\ cloud' = [cloud EXCEPT ![signedIn] = cloud[signedIn] \cup bridge.staged]
  /\ IF bridge.staged = {} THEN Nothing
     ELSE Emit(<<[type |-> "sent", items |-> bridge.staged]>>)
  /\ UNCHANGED <<signedIn, left>>

Fails == \/ signedIn = None /\ UNCHANGED left
         \/ Trouble

BridgeSendFails ==
  /\ Runs("send") /\ Fails
  /\ Emit(<<[type |-> "send_failed"]>>)
  /\ UNCHANGED <<bridge, signedIn, cloud>>

(* fetch and deleteZone ask for no account: they run for the one signed in *)
(* now.  That a command remembers the account it was sent for is for the   *)
(* properties; only that of stage reaches the bridge.                      *)
BridgeFetch ==
  LET seen == IF bridge.at = None THEN {} ELSE bridge.at.seen
      now == [of |-> signedIn, seen |-> cloud[signedIn]]
      new == cloud[signedIn] \ seen
  IN  /\ Heads("fetch") /\ signedIn # None
      /\ user' = IF Head(cmds).for = signedIn THEN user ELSE Noted(user, {"data"})
      /\ bridge' = [bridge EXCEPT !.at = now]
      /\ Emit((IF new = {} THEN <<>> ELSE <<[type |-> "fetched", items |-> new]>>)
              \o <<[type |-> "state", at |-> now], [type |-> "complete"]>>)
      /\ UNCHANGED <<signedIn, cloud, left>>

BridgeDelete ==
  /\ Runs("delete") /\ signedIn # None
  /\ cloud' = [cloud EXCEPT ![signedIn] = {}]
  /\ Emit(<<[type |-> "zone_deleted"]>>)
  /\ UNCHANGED <<bridge, signedIn, left>>

BridgeFails ==
  /\ Runs("fetch") \/ Runs("delete")
  /\ Fails
  /\ Emit(Failed(FALSE))
  /\ UNCHANGED <<bridge, signedIn, cloud>>

BridgeStop ==
  /\ Runs("stop")
  /\ bridge' = [bridge EXCEPT !.running = FALSE, !.staged = {}]
  /\ Nothing /\ UNCHANGED <<signedIn, cloud, left>>

BridgeRuns ==
  \/ BridgeStart \/ BridgeCheck \/ BridgeStage \/ BridgeSend \/ BridgeSendFails
  \/ BridgeFetch \/ BridgeDelete \/ BridgeFails \/ BridgeStop

(* Another account signs in, or nobody (None).  A running engine forgets   *)
(* what it had and says so.                                                *)
Switch(a) ==
  /\ a # signedIn /\ left.switches > 0
  /\ signedIn' = a
  /\ left' = [left EXCEPT !.switches = left.switches - 1]
  /\ IF bridge.running
     THEN /\ bridge' = [bridge EXCEPT !.at = None, !.staged = {}]
          /\ Emit(<<[type |-> "change", account |-> a]>>)
     ELSE UNCHANGED bridge /\ Nothing
  /\ UNCHANGED <<db, core, host, cmds, cloud, user>>

(* Another Mac of an account saves an item.                                *)
PeerSaves(a, i) ==
  /\ i \in left.fresh
  /\ cloud' = [cloud EXCEPT ![a] = cloud[a] \cup {i}]
  /\ user' = Agreed(user, a, {i})
  /\ left' = [left EXCEPT !.fresh = left.fresh \ {i}]
  /\ UNCHANGED <<db, core, host, mail, cmds, bridge, signedIn>>

(* The program ends and is started again; sync starts if it is on.         *)
Launched == IF db.enabled THEN <<[type |-> "start"]>> ELSE <<>>
Crash ==
  /\ Trouble
  /\ core' = NewCore /\ host' = NewHost /\ bridge' = NewBridge
  /\ cmds' = <<>> /\ mail' = Launched
  /\ UNCHANGED <<db, signedIn, cloud, user>>

-----------------------------------------------------------------------------

(* A Mac on which sync was never turned on, or one that joined an account, *)
(* which took a choice, and is launched.                                   *)
Init ==
  \E joined \in BOOLEAN :
    /\ signedIn = Home
    /\ db = [enabled |-> joined, bound |-> IF joined THEN Home ELSE None, joined |-> joined,
             ckpt |-> IF joined THEN [of |-> Home, seen |-> {}] ELSE None,
             owner |-> IF joined THEN Home ELSE None,
             local |-> {}, linked |-> {}, inbox |-> {}]
    /\ core = NewCore /\ host = NewHost /\ bridge = NewBridge
    /\ cmds = <<>> /\ mail = Launched
    /\ cloud = [b \in Account |-> {}]
    /\ user = [agreed |-> [b \in Account |-> {}], asked |-> {}, declined |-> {},
             late |-> {}]
    /\ left = [choices |-> IF joined THEN MaxChoices - 1 ELSE MaxChoices,
               switches |-> MaxSwitches, fresh |-> Item, troubles |-> MaxTroubles]

Next ==
  \/ Handles \/ Ticks \/ Polls \/ Tick \/ BridgeRuns \/ Crash
  \/ \E c \in Choices : Choose(c)
  \/ \E i \in Item : Create(i) \/ \E a \in Account : PeerSaves(a, i)
  \/ \E a \in Account \cup {None} : Switch(a)

Spec == Init /\ [][Next]_vars

(* The worker, the bridge and the app thread are loops; the clock runs.    *)
Fairness == /\ WF_vars(Handles) /\ WF_vars(BridgeRuns) /\ WF_vars(Tick)
            /\ WF_vars(Ticks) /\ WF_vars(Polls)
FairSpec == Spec /\ Fairness

-----------------------------------------------------------------------------
(*                              Properties                                 *)

TypeOK ==
  /\ db \in Database
  /\ core \in Core
  /\ signedIn \in Account \cup {None}
  /\ cloud \in [Account -> SUBSET Item]
  /\ bridge.at \in Position \cup {None} /\ bridge.staged \subseteq Item

(* Data never moves between accounts without the user choosing how: the    *)
(* zone of an account holds only what was saved for it, whatever the order *)
(* of switches, choices, uploads and crashes.                              *)
NoCrossing == \A a \in Account : cloud[a] \subseteq user.agreed[a]

(* A position the next start will use was reached in the bound account,    *)
(* and all it passes is on this Mac, waits for the first merge, or was     *)
(* declined ("The checkpoint is only valid for the account it was saved    *)
(* under", core.rs).  Always is too much to ask: see NothingPassed and the *)
(* README, section 7.                                                      *)
PositionFits ==
  db.ckpt # None /\ db.owner = db.bound /\ db.bound # None =>
    /\ db.ckpt.of = db.bound
    /\ db.ckpt.seen \subseteq db.local \cup db.inbox \cup user.declined

(* Whatever is fetched, merged, declined and interrupted, the position fits *)
(* as long as no data came out of turn.                                    *)
NothingPassed == "data" \in user.late \/ PositionFits

(* A zone is emptied only if the user asked for it while bound to it       *)
(* ("never whichever one happens to be signed in", core.rs), unless the    *)
(* request is overtaken: the account changes after the core has handed it  *)
(* to the bridge, or another is bound before the core gets it.             *)
OvertakenAtBridge == cmds # <<>> /\ Head(cmds).for # signedIn
EmptiesAsAsked ==
  \A a \in Account : \/ cloud[a] \subseteq cloud'[a] \/ a \in user.asked
                     \/ OvertakenAtBridge \/ "deletion" \in user.late
OnlyAsked == [][EmptiesAsAsked]_vars

(* The same without exception.  It breaks (README, section 7).             *)
AlwaysAsked ==
  [][\A a \in Account : cloud[a] \subseteq cloud'[a] \/ a \in user.asked]_vars

(* Replacing this Mac's items with the account's is done once: what came   *)
(* from the account stays ("never a Mac with its own data gone and         *)
(* iCloud's not yet in", finish_join).  It breaks when the choice is       *)
(* carried out twice, and no run checks it (README, section 7).            *)
NothingGone ==
  [][db.joined /\ db'.joined => db.local \cap db.linked \subseteq db'.local]_vars

(* Sync never comes to rest anywhere else: it is off, asks the user,       *)
(* nobody is signed in, or this Mac and its account hold the same.         *)
Agrees == /\ db.bound = signedIn /\ db.local \subseteq cloud[signedIn]
          /\ cloud[signedIn] \subseteq db.local \cup user.declined
Settles == []<>(~db.enabled \/ Prompt # "none" \/ signedIn = None
                \/ db.bound \in user.asked \/ core.held \/ Agrees
                \/ "data" \in user.late)
=============================================================================
