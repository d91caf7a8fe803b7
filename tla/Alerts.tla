------------------------------- MODULE Alerts -------------------------------
(***************************************************************************)
(* Price alerts.  Two processes may evaluate them, the app and the login   *)
(* item (the agent); a file lock, the lease, says which one does.  The     *)
(* owner applies the commands queued in the database, judges quotes,       *)
(* claims and sends webhooks, and saves the whole snapshot together with   *)
(* the removal of the commands it contains.  The app, when it is not the   *)
(* owner, reads what the owner saved.                                      *)
(*                                                                         *)
(* A tick is cut where another actor or a crash can be seen: each command, *)
(* the judging with the claims, the save.  A price is on the far side of   *)
(* the target, from where it can cross, or on the near side (on the target *)
(* is near): the rule is the same for both directions.  A quote that is    *)
(* too old is not judged, as if it had not come.  Every alert has one      *)
(* enabled webhook endpoint.                                               *)
(***************************************************************************)
EXTENDS Naturals, FiniteSets, Sequences

CONSTANTS Alert,          \* ids of alerts
          None,           \* no alert, no earlier price, no quote
          Requests,       \* the alerts the user may ask for: frequency, baseline, check
          MaxCommands, MaxQuotes, MaxFaults,
          Unseen,         \* may the agent stop with a save the app has not read?
          Unsaved,        \* may the app give the lease up after a failed save?
          Lagging         \* may a new owner judge a quote older than the last owner's?

ASSUME AlertsAssumption ==
  /\ {MaxCommands, MaxQuotes, MaxFaults} \subseteq Nat
  /\ \A r \in Requests :
       /\ r.frequency \in {"once", "every"}
       /\ r.base \in {"far", "near", None}
       /\ r.plan \in {"new", None}
  /\ None \notin {"far", "near"}
  /\ {Unseen, Unsaved, Lagging} \subseteq BOOLEAN

VARIABLES
  saved,      \* the snapshot in the database
  queue,      \* alert_command: commands not yet acknowledged
  rows,       \* webhook_delivery: the triggers claimed, and where their delivery is
  here,       \* price_alert_local: alerts switched off on this Mac
  mem,        \* what each process has in memory
  lease,      \* who holds alert_runtime.lock
  service,    \* is the login item enabled?
  quotes,     \* the side the price was on, quote by quote
  count       \* how often each bounded thing happened

vars == <<saved, queue, rows, here, mem, lease, service, quotes, count>>

Runtime == {"app", "agent"}
Side == {"far", "near"}

Frequency == {"once", "every"}
State == {"active", "paused", "triggered"}

(* A price alert: how often it fires, its state, whether it is armed, the  *)
(* side last seen, the quote last judged, and the command that last set it *)
(* going.                                                                  *)
PriceAlert == [frequency : Frequency, state : State, armed : BOOLEAN,
               prev : Side \cup {None}, print : Nat, since : Nat]

Definition(alert) == <<alert.frequency, alert.state>>

(* What a command asks for.  plan is the definition an edit was planned    *)
(* from (AlertPrecondition::Unchanged); "new" asks that the id is free.    *)
Command == [id : Nat, op : {"save", "state", "delete", "clear"}, alert : Alert,
            frequency : Frequency, state : State, base : Side \cup {None},
            plan : {None, "new"} \cup (Frequency \X State)]

Event == [id : Alert \X Nat, alert : Alert, since : Nat, once : BOOLEAN, quote : Nat]

Snapshot == [alerts : [Alert -> PriceAlert \cup {None}], history : SUBSET Event,
             done : SUBSET Nat, owner : Runtime \cup {None}]

Memory == [on : BOOLEAN, at : {"idle", "drain", "save"}, snap : Snapshot,
           muted : SUBSET Alert, acks : SUBSET Nat, dirty : BOOLEAN, book : Nat]

EmptySnapshot == [alerts |-> [a \in Alert |-> None], history |-> {}, done |-> {}, owner |-> None]
Off == [on |-> FALSE, at |-> "idle", snap |-> EmptySnapshot, muted |-> {},
        acks |-> {}, dirty |-> FALSE, book |-> 0]
(* The mistake: an unreadable snapshot is taken for none.                  *)
LoadedEmpty == [Off EXCEPT !.on = TRUE]

Loaded == [Off EXCEPT !.on = TRUE, !.snap = saved]

-----------------------------------------------------------------------------
(*                               The engine                                *)

(* Why a command must not be applied to the alerts as they are now.        *)
BrokenPrecondition(snap, c) ==
  LET current == snap.alerts[c.alert]
  IN  /\ c.op = "save"
      /\ c.plan # None
      /\ IF c.plan = "new" THEN current # None
         ELSE current = None \/ Definition(current) # c.plan

(* The baseline, when there is one, arms the alert if it is on the far     *)
(* side.                                                                   *)
Armed(base, otherwise) == IF base = None THEN otherwise ELSE base = "far"

SaveAlert(c) ==
  [frequency |-> c.frequency, state |-> c.state, armed |-> Armed(c.base, TRUE),
   prev |-> c.base, print |-> 0, since |-> c.id]

SetState(alert, c) ==
  IF c.state # "active" THEN [alert EXCEPT !.state = c.state]
  ELSE [alert EXCEPT !.state = c.state, !.prev = c.base,
                     !.armed = Armed(c.base, alert.armed), !.since = c.id]

ApplyPayload(snap, c) ==
  CASE c.op = "save"   -> [snap EXCEPT !.alerts[c.alert] = SaveAlert(c)]
    [] c.op = "state"  -> IF snap.alerts[c.alert] = None THEN snap
                          ELSE [snap EXCEPT !.alerts[c.alert] = SetState(@, c)]
    [] c.op = "delete" -> [snap EXCEPT !.alerts[c.alert] = None]
    [] c.op = "clear"  -> [snap EXCEPT !.history = {}]

(* AlertEngine::apply: a command seen before is ignored, one whose         *)
(* precondition is broken is only consumed.                                *)
Apply(snap, c) ==
  IF c.id \in snap.done THEN snap
  ELSE [(IF BrokenPrecondition(snap, c) THEN snap ELSE ApplyPayload(snap, c))
          EXCEPT !.done = @ \cup {c.id}]

(* An alert that was muted in this process and no longer is starts afresh. *)
Unmuted(snap, muted) ==
  [snap EXCEPT !.alerts = [a \in Alert |->
     IF @[a] # None /\ a \in muted \ here THEN [@[a] EXCEPT !.prev = None, !.print = 0] ELSE @[a]]]

Evaluates(m, a) ==
  m.snap.alerts[a] # None /\ m.snap.alerts[a].state = "active" /\ a \notin m.muted

(* A quote is judged once per alert; the first only says where the price   *)
(* starts.  A quote is its number and the side the price was on.           *)
Judges(m, a, q) == Evaluates(m, a) /\ m.snap.alerts[a].print # q

Fires(m, a, q, side) ==
  /\ Judges(m, a, q)
  /\ m.snap.alerts[a].armed
  /\ m.snap.alerts[a].prev = "far"
  /\ side = "near"

(* The mistakes: the fired alert is not written back; it is never armed    *)
(* again.                                                                  *)
AfterQuoteDropped(m, a, q, side) ==
  LET alert == m.snap.alerts[a]
  IN  IF ~Judges(m, a, q) \/ Fires(m, a, q, side) THEN alert
      ELSE [alert EXCEPT !.prev = side, !.print = q,
              !.armed = IF alert.prev = None THEN side = "far" ELSE @ \/ side = "far"]

AfterQuoteUnarmed(m, a, q, side) ==
  LET alert == m.snap.alerts[a]
      fires == Fires(m, a, q, side)
  IN  IF ~Judges(m, a, q) THEN alert
      ELSE [alert EXCEPT
              !.prev = side, !.print = q,
              !.armed = IF alert.prev = None THEN side = "far" ELSE ~fires /\ @,
              !.state = IF fires /\ alert.frequency = "once" THEN "triggered" ELSE @]

AfterQuote(m, a, q, side) ==
  LET alert == m.snap.alerts[a]
      fires == Fires(m, a, q, side)
  IN  IF ~Judges(m, a, q) THEN alert
      ELSE [alert EXCEPT
              !.prev = side, !.print = q,
              !.armed = IF alert.prev = None THEN side = "far"
                        ELSE ~fires /\ (@ \/ side = "far"),
              !.state = IF fires /\ alert.frequency = "once" THEN "triggered" ELSE @]

(* A trigger.  Its id is random in the code: here the alert and a number.  *)
Trigger(m, a, q) ==
  [id |-> <<a, count.fired>>, alert |-> a, since |-> m.snap.alerts[a].since,
   once |-> m.snap.alerts[a].frequency = "once", quote |-> q]

-----------------------------------------------------------------------------
(*                        The owner's tick                                 *)

Bump(what, most) == count[what] < most /\ count' = [count EXCEPT ![what] = @ + 1]

Waiting(p) == {c \in queue : c.id \notin mem[p].acks}

(* drain_commands: first the switched-off alerts, then each queued command *)
(* not applied yet, oldest first.                                          *)
StartTick(p) ==
  LET m == mem[p]
  IN  mem' = [mem EXCEPT ![p] = [m EXCEPT !.at = "drain", !.snap = Unmuted(m.snap, m.muted),
                                          !.muted = here]]

DrainOne(p) ==
  \E c \in Waiting(p) :
    /\ mem[p].at = "drain"
    /\ \A d \in Waiting(p) : c.id <= d.id
    /\ LET m == mem[p]
       IN  mem' = [mem EXCEPT ![p] = [m EXCEPT !.snap = Apply(m.snap, c),
                                               !.acks = m.acks \cup {c.id}, !.dirty = TRUE]]
    /\ UNCHANGED <<saved, queue, rows, here, lease, service, quotes, count>>

(* What the process's quote book may have to judge: a new quote, which the *)
(* market gives now, or the latest one there is; a lagging book, any that  *)
(* is later than the one it had.                                           *)
Polled(p) ==
  {q \in (mem[p].book + 1)..Len(quotes) : Lagging \/ q = Len(quotes)}

(* evaluate_from_book_with_rates; dispatch_webhooks: each trigger is       *)
(* claimed at its endpoint before a thread sends it; the notification;     *)
(* update_health.                                                          *)
Evaluate(p, q, side) ==
  LET m == mem[p]
      fired == IF q = 0 THEN {} ELSE {a \in Alert : Fires(m, a, q, side)}
      triggers == {Trigger(m, a, q) : a \in fired}
  IN  /\ m.at = "drain" /\ Waiting(p) = {}
      /\ mem' = [mem EXCEPT ![p] =
           [m EXCEPT !.at = "save", !.dirty = TRUE, !.book = IF q = 0 THEN m.book ELSE q,
              !.snap = [m.snap EXCEPT !.owner = p, !.history = m.snap.history \cup triggers,
                 !.alerts = IF q = 0 THEN m.snap.alerts
                            ELSE [a \in Alert |-> AfterQuote(m, a, q, side)]]]]
      /\ rows' = rows \cup {[trigger |-> t, by |-> p, state |-> "sending"] : t \in triggers}
      /\ count' = [count EXCEPT !.fired = IF fired = {} THEN @ ELSE @ + 1]
      /\ quotes' = IF q > Len(quotes) THEN Append(quotes, side) ELSE quotes
      /\ UNCHANGED <<saved, queue, here, lease, service>>

Judge(p) ==
  \/ Evaluate(p, 0, "far")
  \/ \E q \in Polled(p) : Evaluate(p, q, quotes[q])
  \/ Len(quotes) < MaxQuotes /\ \E side \in Side : Evaluate(p, Len(quotes) + 1, side)

(* The mistake: the queue is emptied, whatever came since it was read.     *)
SaveAll(p) ==
  /\ mem[p].at = "save"
  /\ saved' = mem[p].snap
  /\ queue' = {}
  /\ mem' = [mem EXCEPT ![p] = [@ EXCEPT !.at = "idle", !.acks = {}, !.dirty = FALSE]]
  /\ UNCHANGED <<rows, here, lease, service, quotes, count>>

(* save_if_dirty: one transaction writes the snapshot and removes the      *)
(* commands it contains.                                                   *)
Save(p) ==
  /\ mem[p].at = "save"
  /\ saved' = mem[p].snap
  /\ queue' = {c \in queue : c.id \notin mem[p].acks}
  /\ mem' = [mem EXCEPT ![p] = [@ EXCEPT !.at = "idle", !.acks = {}, !.dirty = FALSE]]
  /\ UNCHANGED <<rows, here, lease, service, quotes, count>>

SaveFails(p) ==
  /\ mem[p].at = "save"
  /\ Bump("faults", MaxFaults)
  /\ mem' = [mem EXCEPT ![p] = [@ EXCEPT !.at = "idle"]]
  /\ UNCHANGED <<saved, queue, rows, here, lease, service, quotes>>

(* A webhook's thread: one request, then finish_webhook_delivery.          *)
Send(row) ==
  /\ row.state = "sending"
  /\ rows' = (rows \ {row}) \cup {[row EXCEPT !.state = "sent"]}
  /\ UNCHANGED <<saved, queue, here, mem, lease, service, quotes, count>>

-----------------------------------------------------------------------------
(*                        Who owns the runtime                             *)

(* run_alert_agent: the process waits for the lease, then loads the saved  *)
(* snapshot and ticks until it is stopped.                                 *)
AgentStarts ==
  /\ service /\ lease = "free" /\ ~mem["agent"].on
  /\ lease' = "agent"
  /\ mem' = [mem EXCEPT !["agent"] = Loaded]
  /\ UNCHANGED <<saved, queue, rows, here, service, quotes, count>>

AgentTicks ==
  /\ mem["agent"].on /\ mem["agent"].at = "idle"
  /\ StartTick("agent")
  /\ UNCHANGED <<saved, queue, rows, here, lease, service, quotes, count>>

AppIdle == mem["app"].on /\ mem["app"].at = "idle"

(* May the app let the lease go?                                           *)
MayYield == lease = "app" /\ mem["app"].dirty => Unsaved

Released == IF lease = "app" THEN "free" ELSE lease

(* reload_from_store: a newer snapshot replaces the one in memory; what is *)
(* marked as applied or unsaved stays marked.                              *)
Reload == mem' = [mem EXCEPT !["app"] = [@ EXCEPT !.snap = saved, !.muted = here]]

(* A frame in which gui_runtime_decision leaves the runtime to the agent:  *)
(* its heartbeat is fresh, or it was registered (the user may retry at any *)
(* time) less than AGENT_STARTUP_GRACE_MS ago.  How old they are is left   *)
(* open: AppReads and AppTicks are the frames in which they are too old.   *)
AppYields ==
  /\ AppIdle /\ service /\ MayYield
  /\ lease' = Released
  /\ Reload
  /\ UNCHANGED <<saved, queue, rows, here, service, quotes, count>>

(* A frame in which the app would own the runtime but the agent holds the  *)
(* lease.                                                                  *)
AppReads ==
  /\ AppIdle /\ lease = "agent"
  /\ Reload
  /\ UNCHANGED <<saved, queue, rows, here, lease, service, quotes, count>>

(* The mistake: with the login item enabled the app only reads.            *)
AppTicksAlone ==
  /\ AppIdle /\ ~service /\ lease \in {"free", "app"}
  /\ lease' = "app"
  /\ StartTick("app")
  /\ UNCHANGED <<saved, queue, rows, here, service, quotes, count>>

(* A frame in which the app owns the runtime: it ticks with what it has in *)
(* memory.                                                                 *)
AppTicks ==
  /\ AppIdle /\ lease \in {"free", "app"}
  /\ lease' = "app"
  /\ StartTick("app")
  /\ UNCHANGED <<saved, queue, rows, here, service, quotes, count>>

OpenApp ==
  /\ ~mem["app"].on
  /\ mem' = [mem EXCEPT !["app"] = Loaded]
  /\ UNCHANGED <<saved, queue, rows, here, lease, service, quotes, count>>

(* The mistake: a lock that outlives the process, as a file would.         *)
StopsLocked(p) ==
  /\ mem[p].on
  /\ p = "agent" /\ mem["app"].on => Unseen \/ mem["app"].snap = saved
  /\ mem' = [mem EXCEPT ![p] = Off]
  /\ UNCHANGED <<lease, rows>>

(* The process ends: its memory and its threads are gone, what they were   *)
(* sending stays claimed, and the system releases the lock.                *)
Stops(p) ==
  /\ mem[p].on
  /\ p = "agent" /\ mem["app"].on => Unseen \/ mem["app"].snap = saved
  /\ mem' = [mem EXCEPT ![p] = Off]
  /\ lease' = IF lease = p THEN "free" ELSE lease
  /\ rows' = {IF r.by = p /\ r.state = "sending" THEN [r EXCEPT !.state = "abandoned"] ELSE r
               : r \in rows}

Crash(p) ==
  /\ Stops(p)
  /\ Bump("faults", MaxFaults)
  /\ UNCHANGED <<saved, queue, here, service, quotes>>

(* The user turns the login item off in the system settings.               *)
Disable ==
  /\ service /\ Bump("faults", MaxFaults)
  /\ service' = FALSE
  /\ IF mem["agent"].on THEN Stops("agent") ELSE UNCHANGED <<mem, lease, rows>>
  /\ UNCHANGED <<saved, queue, here, quotes>>

-----------------------------------------------------------------------------
(*                       The user and the market                           *)

(* enqueue_alert_command *)
Enqueue(c) ==
  /\ Bump("commands", MaxCommands)
  /\ queue' = queue \cup {[c EXCEPT !.id = count.commands + 1]}

Blank(op, a) == [id |-> 0, op |-> op, alert |-> a, frequency |-> "once", state |-> "active",
                 base |-> None, plan |-> None]

(* commit_price_alert_checked: the alert is queued, the login item is      *)
(* registered and the lease given up so that the agent can take it.        *)
Commit ==
  \E a \in Alert, r \in Requests :
    /\ AppIdle /\ MayYield
    /\ r.plan = "new" => mem["app"].snap.alerts[a] = None
    /\ Enqueue([Blank("save", a) EXCEPT !.frequency = r.frequency, !.base = r.base, !.plan = r.plan])
    /\ service' \in {TRUE, service}
    /\ lease' = Released
    /\ UNCHANGED <<saved, rows, here, mem, quotes>>

(* What the user or the MCP server asks of an alert the app knows: an edit *)
(* planned from the app's copy, a pause or a resume, a removal; and that   *)
(* the history is cleared.  An edit that changes how often the alert fires *)
(* makes one that fired active again; its baseline is the price the app    *)
(* knows, if it knows one.                                                 *)
PriceKnown == {None} \cup (IF quotes = <<>> THEN {} ELSE {quotes[Len(quotes)]})

Edited(state) == IF state = "triggered" THEN "active" ELSE state

Edit(a, alert) ==
  \E frequency \in {"once", "every"} \ {alert.frequency}, base \in PriceKnown :
    Enqueue([Blank("save", a) EXCEPT !.frequency = frequency, !.state = Edited(alert.state),
                                     !.base = base, !.plan = Definition(alert)])

Toggle(a, alert) ==
  Enqueue([Blank("state", a) EXCEPT !.state = IF alert.state = "active" THEN "paused" ELSE "active"])

Ask ==
  /\ AppIdle
  /\ \E a \in Alert :
       LET alert == mem["app"].snap.alerts[a]
       IN  \/ alert # None /\ (Edit(a, alert) \/ Toggle(a, alert) \/ Enqueue(Blank("delete", a)))
           \/ mem["app"].snap.history # {} /\ Enqueue(Blank("clear", a))
  /\ UNCHANGED <<saved, rows, here, mem, lease, service, quotes>>

(* SetEvaluateHere *)
Switch(a) ==
  /\ AppIdle /\ Bump("faults", MaxFaults)
  /\ here' = IF a \in here THEN here \ {a} ELSE here \cup {a}
  /\ UNCHANGED <<saved, queue, rows, mem, lease, service, quotes>>

Init ==
  /\ saved = EmptySnapshot /\ queue = {} /\ rows = {} /\ here = {}
  /\ mem = [p \in Runtime |-> Off]
  /\ lease = "free" /\ service \in BOOLEAN /\ quotes = <<>>
  /\ count = [commands |-> 0, faults |-> 0, fired |-> 0]

Next ==
  \/ AgentStarts \/ AgentTicks \/ AppYields \/ AppReads \/ AppTicks \/ OpenApp
  \/ \E p \in Runtime : DrainOne(p) \/ Judge(p) \/ Save(p) \/ SaveFails(p) \/ Crash(p)
  \/ \E row \in rows : Send(row)
  \/ Disable \/ Commit \/ Ask \/ \E a \in Alert : Switch(a)

Spec == Init /\ [][Next]_vars

(* The app's frames and the agent's loop go on, also after a save that     *)
(* failed; whether the system starts the agent is not for the code to say. *)
Fairness ==
  /\ WF_vars(AgentTicks) /\ WF_vars(AppTicks)
  /\ \A p \in Runtime : WF_vars(DrainOne(p)) /\ WF_vars(Judge(p)) /\ WF_vars(Save(p))

FairSpec == Spec /\ Fairness

-----------------------------------------------------------------------------
(*                               Properties                                *)

Ids(set) == {x.id : x \in set}

(* Values are of their types, and the lease is with a process that runs.   *)
TypeOK ==
  /\ saved \in Snapshot
  /\ queue \subseteq Command
  /\ rows \subseteq [trigger : Event, by : Runtime, state : {"sending", "sent", "abandoned"}]
  /\ here \subseteq Alert
  /\ mem \in [Runtime -> Memory]
  /\ lease \in Runtime \cup {"free"} /\ service \in BOOLEAN
  /\ quotes \in Seq(Side)
  /\ count \in [{"commands", "faults", "fired"} -> Nat]
  /\ \A p \in Runtime : lease = p \/ mem[p].at # "idle" => mem[p].on
  /\ mem["agent"].on => lease = "agent"

(* A queued command is never lost (alert_host: every queued command is     *)
(* applied exactly once): it leaves the queue in the very save that        *)
(* contains it, whatever fails, crashes or changes hands in between.       *)
NoneLost ==
  /\ \A i \in 1..count.commands : i \in Ids(queue) \cup saved.done
  /\ Ids(queue) \cap saved.done = {}

(* A trigger once saved stays in the history, across owners, until a       *)
(* command of the user clears it.                                          *)
HistoryKept ==
  [][\A t \in saved.history \ saved'.history : \E c \in queue \ queue' : c.op = "clear"]_vars

(* Between two commands about it an alert fires at most once for a quote,  *)
(* and a "once" alert at most once: as the saved history tells, whoever    *)
(* owned the runtime and however often it was restarted.                   *)
FiresOnce ==
  \A t, u \in saved.history :
    t.alert = u.alert /\ t.since = u.since /\ (t.once \/ t.quote = u.quote) => t.id = u.id

(* An alert whose price was last seen on the far side is armed: the next   *)
(* crossing cannot be missed.                                              *)
ArmedWhenFar ==
  \A a \in Alert : saved.alerts[a] # None /\ saved.alerts[a].prev = "far" => saved.alerts[a].armed

(* One trigger reaches one endpoint once: no two webhooks go out for one   *)
(* crossing, that is for one alert, quote and setting of the alert.  It    *)
(* does not hold, and no run checks it (README, section 7).                *)
SentOnce ==
  \A r, s \in {row \in rows : row.state = "sent"} :
    LET t == r.trigger  u == s.trigger
    IN  t.alert = u.alert /\ t.since = u.since /\ t.quote = u.quote => r = s

(* Once a process that may own the runtime stays, every command queued is  *)
(* applied and saved.                                                      *)
Drained ==
  <>[](mem["app"].on \/ mem["agent"].on) =>
    \A i \in 1..MaxCommands : i \in Ids(queue) ~> i \notin Ids(queue)
=============================================================================
