----------------------------- MODULE AlertsProofs -----------------------------
(***************************************************************************)
(* What the saved snapshot promises, for any number of alerts, commands,    *)
(* quotes, failures and crashes: no queued command is lost, the history is  *)
(* kept until it is cleared, an alert seen on the far side is armed, none   *)
(* fires twice.  The first two need that the agent stops only when the app  *)
(* has read its last save and that the app gives up no unsaved snapshot,    *)
(* the last that no owner judges a quote older than one already judged: the *)
(* code guarantees none of the three.                                       *)
(*                                                                         *)
(* The argument: a process that may save holds the saved snapshot plus the  *)
(* commands it has marked, which are still queued (`InStep`).  That none    *)
(* fires twice holds of every snapshot by itself, saved or in memory        *)
(* (`Once`), so that it does not matter which of them survives.             *)
(***************************************************************************)
EXTENDS Alerts, TLAPS

(* What p would save is what is saved and the commands it has marked.       *)
InStep(p) ==
  /\ mem[p].snap.done = saved.done \cup mem[p].acks
  /\ \A i \in mem[p].acks : \E c \in queue : c.id = i
  /\ \A t \in saved.history \ mem[p].snap.history :
       \E c \in queue : c.id \in mem[p].acks /\ c.op = "clear"

(* The agent runs only as the owner; the app may become the owner at any    *)
(* time unless the agent is; while it is not, it has marked nothing.        *)
Owned ==
  /\ lease = "agent" => InStep("agent")
  /\ lease # "agent" /\ mem["app"].on => InStep("app")
  /\ lease # "app" => mem["app"].acks = {} /\ ~mem["app"].dirty
  /\ mem["app"].acks # {} => mem["app"].dirty
  /\ \A p \in Runtime : mem[p].at # "idle" => lease = p

Numbered ==
  /\ \A c \in queue : c.id \in 1..count.commands
  /\ saved.done \subseteq 1..count.commands

IInv == TypeOK /\ Owned /\ Numbered /\ NoneLost

(* Armed alerts, in what is saved and in what is in memory.                 *)
Ready(snap) ==
  \A a \in Alert : snap.alerts[a] # None /\ snap.alerts[a].prev = "far" => snap.alerts[a].armed

AllReady == TypeOK /\ Ready(saved) /\ \A p \in Runtime : Ready(mem[p].snap)

(* Why no alert fires twice, of a snapshot and the number of the last quote *)
(* there is: what it says was set going by a command it contains, so that   *)
(* the next command starts anew;                                            *)
Known(snap, last) ==
  /\ \A t \in snap.history : t.since \in snap.done /\ t.quote <= last
  /\ \A a \in Alert : snap.alerts[a] # None => snap.alerts[a].since \in snap.done

(* an alert that fired since it was set going has fired for good, if "once",*)
(* and cannot fire again for the last quote;                                *)
Spent(snap, last) ==
  \A t \in snap.history :
    LET alert == snap.alerts[t.alert]
    IN  alert # None /\ alert.since = t.since =>
          /\ t.once <=> alert.frequency = "once"
          /\ t.once => alert.state # "active"
          /\ t.quote = last => alert.print = last \/ alert.prev # "far"

(* and its own history shows no alert firing twice.                         *)
OneEach(snap) ==
  \A t, u \in snap.history :
    t.alert = u.alert /\ t.since = u.since /\ (t.once \/ t.quote = u.quote) => t.id = u.id

Once(snap, last) == Known(snap, last) /\ Spent(snap, last) /\ OneEach(snap)

AllOnce == Once(saved, Len(quotes)) /\ \A p \in Runtime : Once(mem[p].snap, Len(quotes))

-----------------------------------------------------------------------------
(* The engine's operators *)

LEMMA Constants ==
  /\ MaxCommands \in Nat /\ MaxQuotes \in Nat /\ MaxFaults \in Nat
  /\ None \notin Side
  /\ \A r \in Requests : /\ r.frequency \in Frequency
                         /\ r.base \in Side \cup {None}
                         /\ r.plan \in {"new", None}
BY AlertsAssumption DEF Side, Frequency

LEMMA EmptyTyped == /\ EmptySnapshot \in Snapshot /\ Off \in Memory /\ Ready(EmptySnapshot)
                    /\ Off.snap = EmptySnapshot /\ Off.acks = {} /\ ~Off.dirty /\ ~Off.on
                    /\ Off.at = "idle" /\ EmptySnapshot.done = {} /\ EmptySnapshot.history = {}
<1>1. EmptySnapshot \in Snapshot
  BY DEF EmptySnapshot, Snapshot
<1>2. Off \in Memory
  BY <1>1 DEF Off, Memory
<1> QED
  BY <1>1, <1>2 DEF Off, EmptySnapshot, Ready

LEMMA LoadedTyped ==
    ASSUME saved \in Snapshot
    PROVE  /\ Loaded \in Memory /\ Loaded.snap = saved /\ Loaded.acks = {} /\ ~Loaded.dirty
           /\ Loaded.at = "idle" /\ Loaded.on
<1>1. Loaded \in Memory
  BY EmptyTyped, Zenon DEF Loaded, Memory
<1> QED
  BY <1>1 DEF Loaded, Off

LEMMA SaveAlertTyped ==
    ASSUME NEW c \in Command
    PROVE  SaveAlert(c) \in PriceAlert /\ (SaveAlert(c).prev = "far" => SaveAlert(c).armed)
<1>1. c.frequency \in Frequency /\ c.state \in State /\ c.base \in Side \cup {None} /\ c.id \in Nat
  BY DEF Command
<1>2. Armed(c.base, TRUE) \in BOOLEAN
  BY DEF Armed
<1>3. SaveAlert(c) \in PriceAlert
  BY <1>1, <1>2 DEF SaveAlert, PriceAlert
<1>4. None # "far"
  BY Constants DEF Side
<1> QED
  BY <1>3, <1>4 DEF SaveAlert, Armed

LEMMA SetStateTyped ==
    ASSUME NEW alert \in PriceAlert, NEW c \in Command
    PROVE  /\ SetState(alert, c) \in PriceAlert
           /\ (alert.prev = "far" => alert.armed) =>
                (SetState(alert, c).prev = "far" => SetState(alert, c).armed)
<1>1. c.state \in State /\ c.base \in Side \cup {None} /\ c.id \in Nat
  BY DEF Command
<1>2. Armed(c.base, alert.armed) \in BOOLEAN
  BY DEF Armed, PriceAlert
<1>3. SetState(alert, c) \in PriceAlert
  BY <1>1, <1>2, Zenon DEF SetState, PriceAlert
<1>4. None # "far"
  BY Constants DEF Side
<1>5. CASE c.state # "active"
  BY <1>3, <1>5 DEF SetState, PriceAlert
<1>6. CASE c.state = "active"
  BY <1>3, <1>4, <1>6 DEF SetState, PriceAlert, Armed
<1> QED
  BY <1>3, <1>5, <1>6

LEMMA PayloadTyped ==
    ASSUME NEW snap \in Snapshot, NEW c \in Command
    PROVE  /\ ApplyPayload(snap, c) \in Snapshot
           /\ ApplyPayload(snap, c).done = snap.done
           /\ c.op # "clear" => ApplyPayload(snap, c).history = snap.history
           /\ Ready(snap) => Ready(ApplyPayload(snap, c))
<1> DEFINE p == ApplyPayload(snap, c)
<1>0. /\ snap.alerts \in [Alert -> PriceAlert \cup {None}] /\ snap.history \in SUBSET Event
      /\ c.alert \in Alert /\ c.op \in {"save", "state", "delete", "clear"}
  BY DEF Snapshot, Command
<1>1. \A v \in PriceAlert \cup {None} :
        LET s == [snap EXCEPT !.alerts[c.alert] = v]
        IN  /\ s \in Snapshot /\ s.done = snap.done /\ s.history = snap.history
            /\ s.alerts = [snap.alerts EXCEPT ![c.alert] = v]
  <2> TAKE v \in PriceAlert \cup {None}
  <2>1. [snap.alerts EXCEPT ![c.alert] = v] \in [Alert -> PriceAlert \cup {None}]
    BY <1>0
  <2> QED
    BY <2>1, Zenon DEF Snapshot
<1>2. \A v \in PriceAlert \cup {None} :
        Ready(snap) /\ (v # None /\ v.prev = "far" => v.armed)
          => Ready([snap EXCEPT !.alerts[c.alert] = v])
  <2> TAKE v \in PriceAlert \cup {None}
  <2> DEFINE s == [snap EXCEPT !.alerts[c.alert] = v]
  <2>1. s.alerts = [snap.alerts EXCEPT ![c.alert] = v]
    BY <1>1
  <2> HIDE DEF s
  <2>2. Ready(snap) /\ (v # None /\ v.prev = "far" => v.armed) => Ready(s)
    BY <1>0, <2>1 DEF Ready
  <2> QED
    BY <2>2 DEF s
<1>3. CASE c.op = "save"
  <2>1. p = [snap EXCEPT !.alerts[c.alert] = SaveAlert(c)]
    BY <1>3 DEF ApplyPayload
  <2> QED
    BY <2>1, <1>1, <1>2, SaveAlertTyped
<1>4. CASE c.op = "state" /\ snap.alerts[c.alert] = None
  <2>1. p = snap
    BY <1>4 DEF ApplyPayload
  <2> QED
    BY <2>1
<1>5. CASE c.op = "state" /\ snap.alerts[c.alert] # None
  <2>0. snap.alerts[c.alert] \in PriceAlert
    BY <1>0, <1>5
  <2>1. p = [snap EXCEPT !.alerts[c.alert] = SetState(snap.alerts[c.alert], c)]
    BY <1>5 DEF ApplyPayload
  <2>2. Ready(snap) => (snap.alerts[c.alert].prev = "far" => snap.alerts[c.alert].armed)
    BY <1>0, <1>5 DEF Ready
  <2> QED
    BY <2>0, <2>1, <2>2, <1>1, <1>2, SetStateTyped
<1>6. CASE c.op = "delete"
  <2>1. p = [snap EXCEPT !.alerts[c.alert] = None]
    BY <1>6 DEF ApplyPayload
  <2> QED
    BY <2>1, <1>1, <1>2
<1>7. CASE c.op = "clear"
  <2>1. p = [snap EXCEPT !.history = {}]
    BY <1>7 DEF ApplyPayload
  <2>2. p \in Snapshot /\ p.done = snap.done /\ p.alerts = snap.alerts
    BY <2>1, Zenon DEF Snapshot
  <2> QED
    BY <2>2, <1>7 DEF Ready
<1> QED
  BY <1>0, <1>3, <1>4, <1>5, <1>6, <1>7

LEMMA ApplyTyped ==
    ASSUME NEW snap \in Snapshot, NEW c \in Command
    PROVE  /\ Apply(snap, c) \in Snapshot
           /\ Apply(snap, c).done = snap.done \cup {c.id}
           /\ c.op # "clear" => Apply(snap, c).history = snap.history
           /\ Ready(snap) => Ready(Apply(snap, c))
<1>0. c.id \in Nat /\ snap.done \in SUBSET Nat
  BY DEF Command, Snapshot
<1>1. CASE c.id \in snap.done
  BY <1>0, <1>1 DEF Apply
<1>2. CASE c.id \notin snap.done
  <2> DEFINE s == IF BrokenPrecondition(snap, c) THEN snap ELSE ApplyPayload(snap, c)
  <2>1. s \in Snapshot /\ s.done = snap.done /\ (c.op # "clear" => s.history = snap.history)
        /\ (Ready(snap) => Ready(s))
    BY PayloadTyped
  <2>2. Apply(snap, c) = [s EXCEPT !.done = @ \cup {c.id}]
    BY <1>2 DEF Apply
  <2> HIDE DEF s
  <2>3. s.done \cup {c.id} \in SUBSET Nat
    BY <1>0, <2>1
  <2>4. [s EXCEPT !.done = @ \cup {c.id}] \in Snapshot
    BY <2>1, <2>3, Zenon DEF Snapshot
  <2>5. /\ [s EXCEPT !.done = @ \cup {c.id}].done = s.done \cup {c.id}
        /\ [s EXCEPT !.done = @ \cup {c.id}].history = s.history
        /\ [s EXCEPT !.done = @ \cup {c.id}].alerts = s.alerts
    BY <2>1, Zenon DEF Snapshot
  <2> QED
    BY <2>1, <2>2, <2>4, <2>5 DEF Ready
<1> QED
  BY <1>1, <1>2

LEMMA UnmutedTyped ==
    ASSUME NEW snap \in Snapshot, NEW muted \in SUBSET Alert
    PROVE  /\ Unmuted(snap, muted) \in Snapshot
           /\ Unmuted(snap, muted).done = snap.done
           /\ Unmuted(snap, muted).history = snap.history
           /\ Ready(snap) => Ready(Unmuted(snap, muted))
<1> DEFINE al == [a \in Alert |->
                    IF snap.alerts[a] # None /\ a \in muted \ here
                    THEN [snap.alerts[a] EXCEPT !.prev = None, !.print = 0] ELSE snap.alerts[a]]
<1>0. snap.alerts \in [Alert -> PriceAlert \cup {None}]
  BY DEF Snapshot
<1>1. \A x \in PriceAlert : /\ [x EXCEPT !.prev = None, !.print = 0] \in PriceAlert
                            /\ [x EXCEPT !.prev = None, !.print = 0].prev = None
  BY Zenon DEF PriceAlert
<1>2. al \in [Alert -> PriceAlert \cup {None}]
  BY <1>0, <1>1
<1>3. Unmuted(snap, muted) = [snap EXCEPT !.alerts = al]
  BY DEF Unmuted
<1>4. None # "far"
  BY Constants DEF Side
<1>5. Ready(snap) => \A a \in Alert : al[a] # None /\ al[a].prev = "far" => al[a].armed
  BY <1>0, <1>1, <1>4 DEF Ready
<1> HIDE DEF al
<1>6. [snap EXCEPT !.alerts = al] \in Snapshot
  BY <1>2, Zenon DEF Snapshot
<1>7. /\ [snap EXCEPT !.alerts = al].alerts = al
      /\ [snap EXCEPT !.alerts = al].done = snap.done
      /\ [snap EXCEPT !.alerts = al].history = snap.history
  BY Zenon DEF Snapshot
<1> QED
  BY <1>3, <1>5, <1>6, <1>7 DEF Ready

LEMMA AfterQuoteTyped ==
    ASSUME NEW m \in Memory, NEW a \in Alert, NEW q \in Nat, NEW side \in Side
    PROVE  /\ AfterQuote(m, a, q, side) \in PriceAlert \cup {None}
           /\ Ready(m.snap) /\ AfterQuote(m, a, q, side) # None
                /\ AfterQuote(m, a, q, side).prev = "far" => AfterQuote(m, a, q, side).armed
<1> DEFINE alert == m.snap.alerts[a]
           fires == Fires(m, a, q, side)
           armed == IF alert.prev = None THEN side = "far"
                    ELSE ~fires /\ (alert.armed \/ side = "far")
           state == IF fires /\ alert.frequency = "once" THEN "triggered" ELSE alert.state
<1>0. m.snap \in Snapshot /\ alert \in PriceAlert \cup {None}
  BY DEF Memory, Snapshot
<1>1. CASE ~Judges(m, a, q)
  BY <1>0, <1>1 DEF AfterQuote, Ready
<1>2. CASE Judges(m, a, q)
  <2>1. alert \in PriceAlert
    BY <1>0, <1>2 DEF Judges, Evaluates
  <2>2. AfterQuote(m, a, q, side)
          = [alert EXCEPT !.prev = side, !.print = q, !.armed = armed, !.state = state]
    BY <1>2, Zenon DEF AfterQuote
  <2>3. armed \in BOOLEAN
    BY Zenon
  <2>4. state \in State /\ side \in Side \cup {None}
    BY <2>1 DEF State, PriceAlert
  <2>5. side = "far" => armed
    BY Zenon DEF Fires
  <2> HIDE DEF armed, state, alert
  <2>6. [alert EXCEPT !.prev = side, !.print = q, !.armed = armed, !.state = state] \in PriceAlert
    BY <2>1, <2>3, <2>4, Zenon DEF PriceAlert
  <2>7. /\ [alert EXCEPT !.prev = side, !.print = q, !.armed = armed, !.state = state].prev = side
        /\ [alert EXCEPT !.prev = side, !.print = q, !.armed = armed, !.state = state].armed = armed
    BY <2>1, Zenon DEF PriceAlert
  <2> QED
    BY <2>2, <2>5, <2>6, <2>7
<1> QED
  BY <1>1, <1>2

LEMMA TriggerTyped ==
    ASSUME NEW m \in Memory, NEW a \in Alert, NEW q \in Nat, NEW side, Fires(m, a, q, side),
           count.fired \in Nat
    PROVE  [id |-> <<a, count.fired>>, alert |-> a, since |-> m.snap.alerts[a].since,
            once |-> m.snap.alerts[a].frequency = "once", quote |-> q] \in Event
<1>1. m.snap.alerts[a] \in PriceAlert
  BY DEF Fires, Judges, Evaluates, Memory, Snapshot
<1>2. m.snap.alerts[a].since \in Nat
  BY <1>1 DEF PriceAlert
<1> QED
  BY <1>2 DEF Event

-----------------------------------------------------------------------------
(* What each action does to the memory of the process that takes it *)

(* The other process's memory is as it was.                                 *)
Others(p) == \A q \in Runtime : q # p => mem'[q] = mem[q]

LEMMA OneMemory ==
    ASSUME TypeOK, NEW p \in Runtime, NEW m1 \in Memory, mem' = [mem EXCEPT ![p] = m1]
    PROVE  mem' \in [Runtime -> Memory] /\ mem'[p] = m1 /\ Others(p)
BY DEF TypeOK, Others

LEMMA StartTickSteps ==
    ASSUME TypeOK, NEW p \in Runtime, StartTick(p)
    PROVE  /\ mem' \in [Runtime -> Memory] /\ Others(p)
           /\ mem'[p].on = mem[p].on /\ mem'[p].at = "drain"
           /\ mem'[p].acks = mem[p].acks /\ mem'[p].dirty = mem[p].dirty
           /\ mem'[p].snap.done = mem[p].snap.done
           /\ mem'[p].snap.history = mem[p].snap.history
           /\ mem'[p].snap = Unmuted(mem[p].snap, mem[p].muted)
           /\ Ready(mem[p].snap) => Ready(mem'[p].snap)
<1> DEFINE m == mem[p]
           s == Unmuted(m.snap, m.muted)
           m1 == [m EXCEPT !.at = "drain", !.snap = s, !.muted = here]
<1>1. m \in Memory /\ here \in SUBSET Alert
  BY DEF TypeOK
<1>2. m.snap \in Snapshot /\ m.muted \in SUBSET Alert
  BY <1>1 DEF Memory
<1>3. s \in Snapshot /\ s.done = m.snap.done /\ s.history = m.snap.history
      /\ (Ready(m.snap) => Ready(s))
  BY <1>2, UnmutedTyped
<1>4. mem' = [mem EXCEPT ![p] = m1]
  BY DEF StartTick
<1> HIDE DEF m, s
<1>5. /\ m1 \in Memory /\ m1.on = m.on /\ m1.at = "drain" /\ m1.snap = s
      /\ m1.acks = m.acks /\ m1.dirty = m.dirty
  BY <1>1, <1>3, Zenon DEF Memory
<1> HIDE DEF m1
<1>6. mem' \in [Runtime -> Memory] /\ mem'[p] = m1 /\ Others(p)
  BY <1>4, <1>5, OneMemory
<1> QED
  BY <1>3, <1>5, <1>6 DEF m, s

LEMMA DrainSteps ==
    ASSUME TypeOK, NEW p \in Runtime, DrainOne(p)
    PROVE  \E c \in Waiting(p) :
             /\ c \in Command /\ c \in queue /\ c.id \notin mem[p].acks
             /\ mem' \in [Runtime -> Memory] /\ Others(p)
             /\ mem[p].at = "drain" /\ mem'[p].on = mem[p].on /\ mem'[p].at = "drain"
             /\ mem'[p].acks = mem[p].acks \cup {c.id} /\ mem'[p].dirty
             /\ mem'[p].snap.done = mem[p].snap.done \cup {c.id}
             /\ mem'[p].snap = Apply(mem[p].snap, c)
             /\ c.op # "clear" => mem'[p].snap.history = mem[p].snap.history
             /\ Ready(mem[p].snap) => Ready(mem'[p].snap)
<1>0. PICK c \in Waiting(p) :
        /\ mem[p].at = "drain"
        /\ mem' = [mem EXCEPT ![p] = [mem[p] EXCEPT !.snap = Apply(mem[p].snap, c),
                                        !.acks = mem[p].acks \cup {c.id}, !.dirty = TRUE]]
  BY DEF DrainOne
<1> DEFINE m == mem[p]
           s == Apply(m.snap, c)
           acks == m.acks \cup {c.id}
           m1 == [m EXCEPT !.snap = s, !.acks = acks, !.dirty = TRUE]
<1>1. c \in queue /\ c \in Command /\ c.id \notin m.acks /\ m \in Memory
  BY DEF TypeOK, Waiting
<1>2. m.snap \in Snapshot /\ acks \in SUBSET Nat
  BY <1>1 DEF Memory, Command
<1>3. s \in Snapshot /\ s.done = m.snap.done \cup {c.id}
      /\ (c.op # "clear" => s.history = m.snap.history) /\ (Ready(m.snap) => Ready(s))
  BY <1>1, <1>2, ApplyTyped
<1>4. mem' = [mem EXCEPT ![p] = m1]
  BY <1>0
<1> HIDE DEF m, s, acks
<1>5. /\ m1 \in Memory /\ m1.on = m.on /\ m1.at = m.at /\ m1.snap = s
      /\ m1.acks = acks /\ m1.dirty = TRUE
  BY <1>1, <1>2, <1>3, Zenon DEF Memory
<1> HIDE DEF m1
<1>6. mem' \in [Runtime -> Memory] /\ mem'[p] = m1 /\ Others(p)
  BY <1>4, <1>5, OneMemory
<1>7. /\ c \in Command /\ c \in queue /\ c.id \notin mem[p].acks
      /\ mem[p].at = "drain" /\ mem'[p].on = mem[p].on /\ mem'[p].at = "drain"
      /\ mem'[p].acks = mem[p].acks \cup {c.id} /\ mem'[p].dirty
      /\ mem'[p].snap.done = mem[p].snap.done \cup {c.id}
      /\ mem'[p].snap = Apply(mem[p].snap, c)
      /\ c.op # "clear" => mem'[p].snap.history = mem[p].snap.history
      /\ Ready(mem[p].snap) => Ready(mem'[p].snap)
  BY <1>0, <1>1, <1>3, <1>5, <1>6 DEF m, s, acks
<1> QED
  BY <1>6, <1>7

(* A trigger of this quote.                                                 *)
NewTrigger(t, m, q, side) ==
  /\ q # 0 /\ t.alert \in Alert /\ Fires(m, t.alert, q, side)
  /\ t.id = <<t.alert, count.fired>> /\ t.quote = q
  /\ t.since = m.snap.alerts[t.alert].since
  /\ t.once <=> m.snap.alerts[t.alert].frequency = "once"

LEMMA EvaluateSteps ==
    ASSUME TypeOK, NEW p \in Runtime, NEW q \in Nat, NEW side \in Side, Evaluate(p, q, side)
    PROVE  /\ mem' \in [Runtime -> Memory] /\ Others(p)
           /\ mem[p].at = "drain" /\ mem'[p].on = mem[p].on /\ mem'[p].at = "save"
           /\ mem'[p].acks = mem[p].acks /\ mem'[p].dirty
           /\ mem'[p].snap.done = mem[p].snap.done
           /\ mem[p].snap.history \subseteq mem'[p].snap.history
           /\ mem'[p].snap.alerts = IF q = 0 THEN mem[p].snap.alerts
                                    ELSE [a \in Alert |-> AfterQuote(mem[p], a, q, side)]
           /\ \A t \in mem'[p].snap.history :
                t \in mem[p].snap.history \/ NewTrigger(t, mem[p], q, side)
           /\ Ready(mem[p].snap) => Ready(mem'[p].snap)
           /\ rows' \subseteq [trigger : Event, by : Runtime, state : {"sending", "sent", "abandoned"}]
           /\ count' \in [{"commands", "faults", "fired"} -> Nat]
           /\ count'.commands = count.commands
           /\ quotes' \in Seq(Side)
           /\ UNCHANGED <<saved, queue, here, lease, service>>
<1> DEFINE m == mem[p]
           fired == IF q = 0 THEN {} ELSE {a \in Alert : Fires(m, a, q, side)}
           triggers == {Trigger(m, a, q) : a \in fired}
           alerts == IF q = 0 THEN m.snap.alerts ELSE [a \in Alert |-> AfterQuote(m, a, q, side)]
           history == m.snap.history \cup triggers
           s == [m.snap EXCEPT !.owner = p, !.history = history, !.alerts = alerts]
           book == IF q = 0 THEN m.book ELSE q
           m1 == [m EXCEPT !.at = "save", !.dirty = TRUE, !.book = book, !.snap = s]
<1>1. m \in Memory /\ m.snap \in Snapshot /\ m.snap.history \in SUBSET Event
      /\ m.snap.alerts \in [Alert -> PriceAlert \cup {None}]
  BY DEF TypeOK, Memory, Snapshot
<1>2. count.fired \in Nat /\ count \in [{"commands", "faults", "fired"} -> Nat]
  BY DEF TypeOK
<1>3. triggers \subseteq Event
  BY <1>1, <1>2, TriggerTyped DEF Trigger
<1>4. /\ alerts \in [Alert -> PriceAlert \cup {None}]
      /\ Ready(m.snap) =>
           \A a \in Alert : alerts[a] # None /\ alerts[a].prev = "far" => alerts[a].armed
  <2>1. CASE q = 0
    BY <2>1, <1>1 DEF Ready
  <2>2. CASE q # 0
    BY <2>2, <1>1, AfterQuoteTyped
  <2> QED
    BY <2>1, <2>2
<1>5. /\ m.at = "drain" /\ mem' = [mem EXCEPT ![p] = m1]
      /\ rows' = rows \cup {[trigger |-> t, by |-> p, state |-> "sending"] : t \in triggers}
      /\ count' = [count EXCEPT !.fired = IF fired = {} THEN @ ELSE @ + 1]
      /\ quotes' = IF q > Len(quotes) THEN Append(quotes, side) ELSE quotes
      /\ UNCHANGED <<saved, queue, here, lease, service>>
  BY DEF Evaluate
<1>6. rows' \subseteq [trigger : Event, by : Runtime, state : {"sending", "sent", "abandoned"}]
  BY <1>3, <1>5 DEF TypeOK
<1>7. count' \in [{"commands", "faults", "fired"} -> Nat] /\ count'.commands = count.commands
  <2>1. count.fired + 1 \in Nat
    BY <1>2
  <2> HIDE DEF fired
  <2> QED
    BY <1>2, <1>5, <2>1, Zenon
<1>8. quotes' \in Seq(Side)
  BY <1>5 DEF TypeOK
<1>9. \A t \in triggers : NewTrigger(t, m, q, side)
  <2> SUFFICES ASSUME NEW a \in fired PROVE NewTrigger(Trigger(m, a, q), m, q, side)
    BY Zenon
  <2>1. q # 0 /\ a \in Alert /\ Fires(m, a, q, side)
    OBVIOUS
  <2> QED
    BY <2>1, Zenon DEF Trigger, NewTrigger
<1>10. \A t \in history : t \in m.snap.history \/ NewTrigger(t, m, q, side)
  BY <1>9
<1>11. history \in SUBSET Event /\ m.snap.history \subseteq history
      /\ book \in Nat /\ p \in Runtime \cup {None}
  BY <1>1, <1>3 DEF Memory
<1> HIDE DEF m, fired, triggers, alerts, history, book
<1>12. s \in Snapshot /\ s.done = m.snap.done /\ s.history = history /\ s.alerts = alerts
  BY <1>1, <1>4, <1>11, Zenon DEF Snapshot
<1>13. Ready(m.snap) => Ready(s)
  BY <1>4, <1>12 DEF Ready
<1> HIDE DEF s
<1>14. /\ m1 \in Memory /\ m1.on = m.on /\ m1.at = "save" /\ m1.snap = s
       /\ m1.acks = m.acks /\ m1.dirty = TRUE
  BY <1>1, <1>11, <1>12, Zenon DEF Memory
<1> HIDE DEF m1
<1>15. mem' \in [Runtime -> Memory] /\ mem'[p] = m1 /\ Others(p)
  BY <1>5, <1>14, OneMemory
<1> QED
  BY <1>5, <1>6, <1>7, <1>8, <1>10, <1>11, <1>12, <1>13, <1>14, <1>15 DEF m, alerts

LEMMA JudgeSteps ==
    ASSUME TypeOK, NEW p \in Runtime, Judge(p)
    PROVE  \E q \in Nat, side \in Side : Evaluate(p, q, side)
<1>1. CASE Evaluate(p, 0, "far")
  BY <1>1 DEF Side
<1>2. CASE \E q \in Polled(p) : Evaluate(p, q, quotes[q])
  <2>1. PICK q \in Polled(p) : Evaluate(p, q, quotes[q])
    BY <1>2
  <2>2. mem[p].book \in Nat /\ quotes \in Seq(Side)
    BY DEF TypeOK, Memory
  <2>3. q \in Nat /\ q \in 1..Len(quotes)
    BY <2>2 DEF Polled
  <2>4. quotes[q] \in Side
    BY <2>2, <2>3
  <2> QED
    BY <2>1, <2>3, <2>4
<1>3. CASE \E side \in Side : Evaluate(p, Len(quotes) + 1, side)
  <2>1. Len(quotes) + 1 \in Nat
    BY DEF TypeOK
  <2> QED
    BY <1>3, <2>1
<1> QED
  BY <1>1, <1>2, <1>3 DEF Judge

LEMMA SaveSteps ==
    ASSUME TypeOK, NEW p \in Runtime, Save(p)
    PROVE  /\ mem' \in [Runtime -> Memory] /\ Others(p)
           /\ mem[p].at = "save" /\ mem'[p].on = mem[p].on /\ mem'[p].at = "idle"
           /\ mem'[p].acks = {} /\ ~mem'[p].dirty
           /\ mem'[p].snap = mem[p].snap /\ saved' = mem[p].snap
           /\ queue' = {c \in queue : c.id \notin mem[p].acks}
           /\ UNCHANGED <<rows, here, lease, service, quotes, count>>
<1> DEFINE m == mem[p]
           m1 == [m EXCEPT !.at = "idle", !.acks = {}, !.dirty = FALSE]
<1>1. m \in Memory
  BY DEF TypeOK
<1>2. /\ mem' = [mem EXCEPT ![p] = m1] /\ m.at = "save" /\ saved' = m.snap
      /\ queue' = {c \in queue : c.id \notin m.acks}
      /\ UNCHANGED <<rows, here, lease, service, quotes, count>>
  BY Zenon DEF Save
<1> HIDE DEF m
<1>3. /\ m1 \in Memory /\ m1.on = m.on /\ m1.at = "idle" /\ m1.snap = m.snap
      /\ m1.acks = {} /\ m1.dirty = FALSE
  BY <1>1, Zenon DEF Memory
<1> HIDE DEF m1
<1>4. mem' \in [Runtime -> Memory] /\ mem'[p] = m1 /\ Others(p)
  BY <1>2, <1>3, OneMemory
<1> QED
  BY <1>2, <1>3, <1>4 DEF m

LEMMA Counts ==
    ASSUME TypeOK, NEW what \in {"commands", "faults"}, NEW most, Bump(what, most)
    PROVE  /\ count' \in [{"commands", "faults", "fired"} -> Nat]
           /\ count'.commands = IF what = "commands" THEN count.commands + 1 ELSE count.commands
<1>1. count \in [{"commands", "faults", "fired"} -> Nat] /\ count[what] + 1 \in Nat
  BY DEF TypeOK
<1>2. count' = [count EXCEPT ![what] = count[what] + 1]
  BY DEF Bump
<1> QED
  BY <1>1, <1>2

LEMMA SaveFailsSteps ==
    ASSUME TypeOK, NEW p \in Runtime, SaveFails(p)
    PROVE  /\ mem' \in [Runtime -> Memory] /\ Others(p)
           /\ mem[p].at = "save" /\ mem'[p].on = mem[p].on /\ mem'[p].at = "idle"
           /\ mem'[p].acks = mem[p].acks /\ mem'[p].dirty = mem[p].dirty
           /\ mem'[p].snap = mem[p].snap
           /\ count' \in [{"commands", "faults", "fired"} -> Nat]
           /\ count'.commands = count.commands
           /\ UNCHANGED <<saved, queue, rows, here, lease, service, quotes>>
<1> DEFINE m == mem[p]
           m1 == [m EXCEPT !.at = "idle"]
<1>1. m \in Memory
  BY DEF TypeOK
<1>2. /\ mem' = [mem EXCEPT ![p] = m1] /\ m.at = "save" /\ Bump("faults", MaxFaults)
      /\ UNCHANGED <<saved, queue, rows, here, lease, service, quotes>>
  BY Zenon DEF SaveFails
<1> HIDE DEF m
<1>3. /\ m1 \in Memory /\ m1.on = m.on /\ m1.at = "idle" /\ m1.snap = m.snap
      /\ m1.acks = m.acks /\ m1.dirty = m.dirty
  BY <1>1, Zenon DEF Memory
<1> HIDE DEF m1
<1>4. mem' \in [Runtime -> Memory] /\ mem'[p] = m1 /\ Others(p)
  BY <1>2, <1>3, OneMemory
<1> QED
  BY <1>2, <1>3, <1>4, Counts DEF m

LEMMA ReloadSteps ==
    ASSUME TypeOK, Reload
    PROVE  /\ mem' \in [Runtime -> Memory] /\ Others("app")
           /\ mem'["app"].on = mem["app"].on /\ mem'["app"].at = mem["app"].at
           /\ mem'["app"].acks = mem["app"].acks /\ mem'["app"].dirty = mem["app"].dirty
           /\ mem'["app"].snap = saved
<1> DEFINE m == mem["app"]
           m1 == [m EXCEPT !.snap = saved, !.muted = here]
<1>0. "app" \in Runtime
  BY DEF Runtime
<1>1. m \in Memory /\ saved \in Snapshot /\ here \in SUBSET Alert
  BY <1>0 DEF TypeOK
<1>2. mem' = [mem EXCEPT !["app"] = m1]
  BY Zenon DEF Reload
<1> HIDE DEF m
<1>3. /\ m1 \in Memory /\ m1.on = m.on /\ m1.at = m.at /\ m1.snap = saved
      /\ m1.acks = m.acks /\ m1.dirty = m.dirty
  BY <1>1, Zenon DEF Memory
<1> HIDE DEF m1
<1>4. mem' \in [Runtime -> Memory] /\ mem'["app"] = m1 /\ Others("app")
  BY <1>0, <1>2, <1>3, OneMemory
<1> QED
  BY <1>3, <1>4 DEF m

LEMMA StopsSteps ==
    ASSUME TypeOK, NEW p \in Runtime, Stops(p)
    PROVE  /\ mem' \in [Runtime -> Memory] /\ Others(p) /\ mem'[p] = Off /\ mem[p].on
           /\ p = "agent" /\ mem["app"].on => Unseen \/ mem["app"].snap = saved
           /\ lease' = IF lease = p THEN "free" ELSE lease
           /\ rows' \subseteq [trigger : Event, by : Runtime, state : {"sending", "sent", "abandoned"}]
<1>1. mem' = [mem EXCEPT ![p] = Off] /\ mem[p].on
      /\ (p = "agent" /\ mem["app"].on => Unseen \/ mem["app"].snap = saved)
      /\ lease' = (IF lease = p THEN "free" ELSE lease)
      /\ rows' = {IF r.by = p /\ r.state = "sending" THEN [r EXCEPT !.state = "abandoned"] ELSE r
                   : r \in rows}
  BY DEF Stops
<1>2. \A r \in rows : /\ r \in [trigger : Event, by : Runtime, state : {"sending", "sent", "abandoned"}]
                      /\ [r EXCEPT !.state = "abandoned"]
                           \in [trigger : Event, by : Runtime, state : {"sending", "sent", "abandoned"}]
  BY DEF TypeOK
<1>3. rows' \subseteq [trigger : Event, by : Runtime, state : {"sending", "sent", "abandoned"}]
  BY <1>1, <1>2
<1>4. mem' \in [Runtime -> Memory] /\ mem'[p] = Off /\ Others(p)
  BY <1>1, EmptyTyped, OneMemory
<1> QED
  BY <1>1, <1>3, <1>4

LEMMA EnqueueSteps ==
    ASSUME TypeOK, NEW c \in Command, Enqueue(c)
    PROVE  \E d \in Command : /\ d.id = count.commands + 1
                              /\ queue' = queue \cup {d}
                              /\ count' \in [{"commands", "faults", "fired"} -> Nat]
                              /\ count'.commands = count.commands + 1
<1> DEFINE d == [c EXCEPT !.id = count.commands + 1]
<1>1. count.commands + 1 \in Nat
  BY DEF TypeOK
<1>2. d \in Command /\ d.id = count.commands + 1
  BY <1>1, Zenon DEF Command
<1>3. queue' = queue \cup {d}
  BY DEF Enqueue
<1>4. count' \in [{"commands", "faults", "fired"} -> Nat]
      /\ count'.commands = count.commands + 1
  BY Counts DEF Enqueue
<1> QED
  BY <1>2, <1>3, <1>4

LEMMA BlankTyped ==
    ASSUME NEW op \in {"save", "state", "delete", "clear"}, NEW a \in Alert
    PROVE  Blank(op, a) \in Command
BY DEF Blank, Command, Frequency, State

(* What the user queues is a command.                                       *)
LEMMA CommitSteps ==
    ASSUME TypeOK, Commit
    PROVE  /\ AppIdle /\ MayYield
           /\ \E c \in Command : Enqueue(c)
           /\ service' \in BOOLEAN /\ lease' = Released
           /\ UNCHANGED <<saved, rows, here, mem, quotes>>
<1>1. PICK a \in Alert, r \in Requests :
        /\ AppIdle /\ MayYield
        /\ Enqueue([Blank("save", a) EXCEPT !.frequency = r.frequency, !.base = r.base,
                                            !.plan = r.plan])
        /\ service' \in {TRUE, service} /\ lease' = Released
        /\ UNCHANGED <<saved, rows, here, mem, quotes>>
  BY Zenon DEF Commit
<1>2. Blank("save", a) \in Command
  BY BlankTyped
<1>3. /\ r.frequency \in Frequency /\ r.base \in Side \cup {None}
      /\ r.plan \in {None, "new"} \cup (Frequency \X State)
  BY Constants
<1>4. [Blank("save", a) EXCEPT !.frequency = r.frequency, !.base = r.base, !.plan = r.plan]
        \in Command
  BY <1>2, <1>3, Zenon DEF Command
<1> QED
  BY <1>1, <1>4 DEF TypeOK

LEMMA AskSteps ==
    ASSUME TypeOK, Ask
    PROVE  /\ AppIdle
           /\ \E c \in Command : Enqueue(c)
           /\ UNCHANGED <<saved, rows, here, mem, lease, service, quotes>>
<1>0. "app" \in Runtime
  BY DEF Runtime
<1> DEFINE alert(a) == mem["app"].snap.alerts[a]
<1>1. PICK a \in Alert :
        \/ alert(a) # None /\ (Edit(a, alert(a)) \/ Toggle(a, alert(a)) \/ Enqueue(Blank("delete", a)))
        \/ Enqueue(Blank("clear", a))
  BY DEF Ask
<1>2. alert(a) \in PriceAlert \cup {None}
  BY <1>0 DEF TypeOK, Memory, Snapshot
<1> HIDE DEF alert
<1>3. Blank("save", a) \in Command /\ Blank("state", a) \in Command
      /\ Blank("delete", a) \in Command /\ Blank("clear", a) \in Command
  BY BlankTyped
<1>4. CASE alert(a) # None /\ Edit(a, alert(a))
  <2>1. alert(a).frequency \in Frequency /\ alert(a).state \in State
    BY <1>2, <1>4 DEF PriceAlert
  <2>2. Definition(alert(a)) \in {None, "new"} \cup (Frequency \X State)
    BY <2>1 DEF Definition
  <2>3. PICK f \in {"once", "every"}, b \in PriceKnown :
          Enqueue([Blank("save", a) EXCEPT !.frequency = f, !.state = Edited(alert(a).state),
                                           !.base = b, !.plan = Definition(alert(a))])
    BY <1>4 DEF Edit
  <2>4. f \in Frequency /\ Edited(alert(a).state) \in State
    BY <2>1 DEF Frequency, Edited, State
  <2>5. b \in Side \cup {None}
    <3>1. quotes # <<>> => quotes[Len(quotes)] \in Side
      BY DEF TypeOK
    <3> QED
      BY <3>1 DEF PriceKnown
  <2>6. [Blank("save", a) EXCEPT !.frequency = f, !.state = Edited(alert(a).state),
                                 !.base = b, !.plan = Definition(alert(a))] \in Command
    BY <1>3, <2>2, <2>4, <2>5, Zenon DEF Command
  <2> QED
    BY <2>3, <2>6 DEF Ask
<1>5. CASE alert(a) # None /\ Toggle(a, alert(a))
  <2> DEFINE s == IF alert(a).state = "active" THEN "paused" ELSE "active"
  <2>1. s \in State
    BY DEF State
  <2>2. Enqueue([Blank("state", a) EXCEPT !.state = s])
    BY <1>5 DEF Toggle
  <2> HIDE DEF s
  <2>3. [Blank("state", a) EXCEPT !.state = s] \in Command
    BY <1>3, <2>1, Zenon DEF Command
  <2> QED
    BY <2>2, <2>3 DEF Ask
<1>6. CASE Enqueue(Blank("delete", a)) \/ Enqueue(Blank("clear", a))
  BY <1>3, <1>6 DEF Ask
<1> QED
  BY <1>1, <1>4, <1>5, <1>6

-----------------------------------------------------------------------------
(* Types, and armed alerts *)

LEMMA InitReady == Init => AllReady
<1> SUFFICES ASSUME Init PROVE AllReady
  OBVIOUS
<1>1. count \in [{"commands", "faults", "fired"} -> Nat]
  BY DEF Init
<1>2. saved \in Snapshot /\ mem \in [Runtime -> Memory] /\ \A p \in Runtime : mem[p] = Off
  BY EmptyTyped DEF Init
<1>3. TypeOK
  BY <1>1, <1>2, EmptyTyped DEF Init, TypeOK, Runtime
<1> QED
  BY <1>2, <1>3, EmptyTyped DEF Init, AllReady

(* A step in which only the memory of p, of what the types are about, moves. *)
LEMMA OwnStep ==
    ASSUME AllReady, NEW p \in Runtime,
           mem' \in [Runtime -> Memory], Others(p), Ready(mem'[p].snap),
           saved' \in Snapshot, Ready(saved'),
           queue' \subseteq queue, UNCHANGED here,
           rows' \subseteq [trigger : Event, by : Runtime, state : {"sending", "sent", "abandoned"}],
           service' \in BOOLEAN, quotes' \in Seq(Side),
           count' \in [{"commands", "faults", "fired"} -> Nat],
           lease' \in Runtime \cup {"free"},
           \A q \in Runtime : lease' = q => lease = q \/ (q = p /\ mem'[p].on),
           mem'[p].at = "idle" \/ mem'[p].on,
           lease' = p => mem'[p].on,
           mem'["agent"].on => lease' = "agent"
    PROVE  AllReady'
<1>1. TypeOK'
  BY DEF AllReady, TypeOK, Others
<1> QED
  BY <1>1 DEF AllReady, Others

LEMMA NextReady == AllReady /\ [Next]_vars => AllReady'
<1> SUFFICES ASSUME AllReady, [Next]_vars PROVE AllReady'
  OBVIOUS
<1>0. /\ TypeOK /\ "app" \in Runtime /\ "agent" \in Runtime
      /\ \A q \in Runtime : q = "app" \/ q = "agent"
      /\ \A q \in Runtime : mem[q] \in Memory /\ Ready(mem[q].snap) /\ mem[q].snap \in Snapshot
      /\ saved \in Snapshot /\ Ready(saved) /\ Released \in Runtime \cup {"free"}
  BY DEF AllReady, TypeOK, Runtime, Memory, Released
<1>1. CASE UNCHANGED vars
  BY <1>1 DEF vars, AllReady, TypeOK, Ready
<1>2. CASE AgentStarts
  <2>1. mem' \in [Runtime -> Memory] /\ mem'["agent"] = Loaded /\ Others("agent")
    BY <1>0, <1>2, LoadedTyped, OneMemory DEF AgentStarts
  <2> QED
    BY <1>0, <1>2, <2>1, LoadedTyped, OwnStep DEF AgentStarts, TypeOK
<1>3. CASE AgentTicks
  <2>1. /\ StartTick("agent") /\ mem["agent"].on
        /\ UNCHANGED <<saved, queue, rows, here, lease, service, quotes, count>>
    BY <1>3 DEF AgentTicks
  <2> QED
    BY <1>0, <2>1, StartTickSteps, OwnStep DEF TypeOK
<1>4. CASE AppYields
  <2>1. /\ Reload /\ lease' = Released /\ mem["app"].on /\ mem["app"].at = "idle"
        /\ UNCHANGED <<saved, queue, rows, here, service, quotes, count>>
    BY <1>4 DEF AppYields, AppIdle
  <2> QED
    <3>1. /\ mem' \in [Runtime -> Memory] /\ Others("app") /\ mem'["app"].on
          /\ mem'["app"].at = "idle" /\ Ready(mem'["app"].snap)
      BY <1>0, <2>1, ReloadSteps
    <3>2. /\ lease' \in Runtime \cup {"free"} /\ lease' # "app"
          /\ \A q \in Runtime : lease' = q => lease = q
          /\ mem'["agent"].on => lease' = "agent"
      BY <1>0, <2>1, <3>1 DEF TypeOK, Released, Others
    <3> QED
      BY <1>0, <2>1, <3>1, <3>2, OwnStep DEF TypeOK
<1>5. CASE AppReads
  <2>1. /\ Reload /\ mem["app"].on /\ mem["app"].at = "idle"
        /\ UNCHANGED <<saved, queue, rows, here, lease, service, quotes, count>>
    BY <1>5 DEF AppReads, AppIdle
  <2> QED
    <3>1. /\ mem' \in [Runtime -> Memory] /\ Others("app") /\ mem'["app"].on
          /\ mem'["app"].at = "idle" /\ Ready(mem'["app"].snap)
          /\ mem'["agent"] = mem["agent"]
      BY <1>0, <2>1, ReloadSteps DEF Others
    <3> QED
      BY <1>0, <2>1, <3>1, OwnStep DEF TypeOK
<1>6. CASE AppTicks
  <2>1. /\ StartTick("app") /\ mem["app"].on /\ lease' = "app" /\ lease \in {"free", "app"}
        /\ UNCHANGED <<saved, queue, rows, here, service, quotes, count>>
    BY <1>6 DEF AppTicks, AppIdle
  <2> QED
    BY <1>0, <2>1, StartTickSteps, OwnStep DEF TypeOK, Others
<1>7. CASE OpenApp
  <2>1. mem' \in [Runtime -> Memory] /\ mem'["app"] = Loaded /\ Others("app")
    BY <1>0, <1>7, LoadedTyped, OneMemory DEF OpenApp
  <2> QED
    BY <1>0, <1>7, <2>1, LoadedTyped, OwnStep DEF OpenApp, TypeOK, Others
<1>8. ASSUME NEW p \in Runtime, DrainOne(p)
      PROVE  AllReady'
  <2>1. UNCHANGED <<saved, queue, rows, here, lease, service, quotes, count>>
    BY <1>8 DEF DrainOne
  <2> QED
    BY <1>0, <1>8, <2>1, DrainSteps, OwnStep DEF TypeOK, Others
<1>9. ASSUME NEW p \in Runtime, Judge(p)
      PROVE  AllReady'
  <2>1. PICK q \in Nat, side \in Side : Evaluate(p, q, side)
    BY <1>0, <1>9, JudgeSteps
  <2>2. /\ mem' \in [Runtime -> Memory] /\ Others(p) /\ Ready(mem'[p].snap)
        /\ mem[p].at = "drain" /\ mem'[p].on = mem[p].on
        /\ rows' \subseteq [trigger : Event, by : Runtime, state : {"sending", "sent", "abandoned"}]
        /\ count' \in [{"commands", "faults", "fired"} -> Nat] /\ quotes' \in Seq(Side)
        /\ UNCHANGED <<saved, queue, here, lease, service>>
    BY <1>0, <2>1, EvaluateSteps
  <2> QED
    BY <1>0, <2>2, OwnStep DEF TypeOK, Others
<1>10. ASSUME NEW p \in Runtime, Save(p)
       PROVE  AllReady'
  BY <1>0, <1>10, SaveSteps, OwnStep DEF TypeOK, Others
<1>11. ASSUME NEW p \in Runtime, SaveFails(p)
       PROVE  AllReady'
  BY <1>0, <1>11, SaveFailsSteps, OwnStep, SMTT(30) DEF TypeOK, Others
<1>12. ASSUME NEW p \in Runtime, Stops(p), UNCHANGED <<saved, queue, here, quotes>>,
              service' \in BOOLEAN, count' \in [{"commands", "faults", "fired"} -> Nat]
       PROVE  AllReady'
  BY <1>0, <1>12, StopsSteps, EmptyTyped, OwnStep DEF TypeOK, Others
<1>13. ASSUME NEW p \in Runtime, Crash(p)
       PROVE  AllReady'
  <2>1. Stops(p) /\ Bump("faults", MaxFaults) /\ UNCHANGED <<saved, queue, here, service, quotes>>
    BY <1>13 DEF Crash
  <2> QED
    BY <1>0, <2>1, <1>12, Counts DEF TypeOK
<1>14. CASE Disable
  <2>1. /\ Bump("faults", MaxFaults) /\ service' = FALSE /\ UNCHANGED <<saved, queue, here, quotes>>
        /\ Stops("agent") \/ UNCHANGED <<mem, lease, rows>>
    BY <1>14 DEF Disable
  <2>2. count' \in [{"commands", "faults", "fired"} -> Nat]
    BY <1>0, <2>1, Counts
  <2>3. CASE Stops("agent")
    BY <1>0, <2>1, <2>2, <2>3, <1>12
  <2>4. CASE UNCHANGED <<mem, lease, rows>>
    BY <2>1, <2>2, <2>4 DEF AllReady, TypeOK, Ready
  <2> QED
    BY <2>1, <2>3, <2>4
<1>15. CASE Commit
  <2>1. PICK c \in Command : Enqueue(c)
    BY <1>0, <1>15, CommitSteps
  <2>2. queue' \subseteq Command /\ count' \in [{"commands", "faults", "fired"} -> Nat]
    BY <1>0, <2>1, EnqueueSteps DEF TypeOK
  <2>3. /\ service' \in BOOLEAN /\ lease' = Released /\ AppIdle
        /\ UNCHANGED <<saved, rows, here, mem, quotes>>
    BY <1>0, <1>15, CommitSteps
  <2> QED
    BY <1>0, <2>2, <2>3 DEF AllReady, TypeOK, Ready, Released
<1>16. CASE Ask
  <2>1. PICK c \in Command : Enqueue(c)
    BY <1>0, <1>16, AskSteps
  <2>2. queue' \subseteq Command /\ count' \in [{"commands", "faults", "fired"} -> Nat]
    BY <1>0, <2>1, EnqueueSteps DEF TypeOK
  <2>3. UNCHANGED <<saved, rows, here, mem, lease, service, quotes>>
    BY <1>0, <1>16, AskSteps
  <2> QED
    BY <2>2, <2>3 DEF AllReady, TypeOK, Ready
<1>17. ASSUME NEW a \in Alert, Switch(a)
       PROVE  AllReady'
  <2>1. count' \in [{"commands", "faults", "fired"} -> Nat]
    BY <1>0, <1>17, Counts DEF Switch
  <2> QED
    BY <1>17, <2>1 DEF Switch, AllReady, TypeOK, Ready
<1>18. ASSUME NEW row \in rows, Send(row)
       PROVE  AllReady'
  <2>1. [row EXCEPT !.state = "sent"]
          \in [trigger : Event, by : Runtime, state : {"sending", "sent", "abandoned"}]
    BY <1>0 DEF TypeOK
  <2> QED
    BY <1>18, <2>1 DEF Send, AllReady, TypeOK, Ready
<1> QED
  BY <1>1, <1>2, <1>3, <1>4, <1>5, <1>6, <1>7, <1>8, <1>9, <1>10, <1>11, <1>13, <1>14,
     <1>15, <1>16, <1>17, <1>18 DEF Next

-----------------------------------------------------------------------------
(* No command and no trigger is lost *)

LEMMA InitInv == Init => IInv
<1> SUFFICES ASSUME Init PROVE IInv
  OBVIOUS
<1>1. TypeOK
  BY InitReady DEF AllReady
<1>2. mem["app"] = Off /\ mem["agent"] = Off /\ \A p \in Runtime : mem[p] = Off
  BY DEF Init, Runtime
<1>3. saved.done = {} /\ queue = {} /\ lease = "free" /\ count.commands = 0
  BY EmptyTyped DEF Init
<1>4. Owned
  BY <1>2, <1>3, EmptyTyped DEF Owned
<1>5. NoneLost /\ Numbered
  BY <1>3 DEF NoneLost, Numbered, Ids
<1> QED
  BY <1>1, <1>4, <1>5 DEF IInv

(* A process that is in step stays so when nothing is saved, what it has    *)
(* marked only grows by commands that are queued, and a command that clears *)
(* the history is marked with it.                                           *)
LEMMA StillInStep ==
    ASSUME NEW p \in Runtime, InStep(p), UNCHANGED saved, queue \subseteq queue',
           NEW C \in SUBSET queue,
           mem'[p].acks = mem[p].acks \cup {c.id : c \in C},
           mem'[p].snap.done = mem[p].snap.done \cup {c.id : c \in C},
           (\A c \in C : c.op # "clear") => mem[p].snap.history \subseteq mem'[p].snap.history
    PROVE  InStep(p)'
<1>1. mem'[p].snap.done = saved'.done \cup mem'[p].acks
  BY DEF InStep
<1>2. \A i \in mem'[p].acks : \E c \in queue' : c.id = i
  BY DEF InStep
<1>3. \A t \in saved'.history \ mem'[p].snap.history :
        \E c \in queue' : c.id \in mem'[p].acks /\ c.op = "clear"
  <2>1. CASE \A c \in C : c.op # "clear"
    BY <2>1 DEF InStep
  <2>2. CASE \E c \in C : c.op = "clear"
    BY <2>2
  <2> QED
    BY <2>1, <2>2
<1> QED
  BY <1>1, <1>2, <1>3 DEF InStep

(* The case in which no command is marked.                                  *)
LEMMA SameStep ==
    ASSUME NEW p \in Runtime, InStep(p), UNCHANGED saved, queue \subseteq queue',
           mem'[p].acks = mem[p].acks,
           mem'[p].snap.done = mem[p].snap.done,
           mem[p].snap.history \subseteq mem'[p].snap.history
    PROVE  InStep(p)'
BY DEF InStep

(* A process that has just read what is saved is in step.                   *)
LEMMA FreshStep ==
    ASSUME NEW p \in Runtime, mem'[p].snap = saved', mem'[p].acks = {}
    PROVE  InStep(p)'
BY DEF InStep

(* Neither the queue nor what is saved is touched.                          *)
LEMMA Untouched ==
    ASSUME Numbered, NoneLost, UNCHANGED <<saved, queue>>, count'.commands = count.commands
    PROVE  Numbered' /\ NoneLost'
BY DEF Numbered, NoneLost, Ids

LEMMA OwnedNext ==
    ASSUME Unseen = FALSE, Unsaved = FALSE, IInv, TypeOK', Next
    PROVE  Owned'
<1>0. /\ TypeOK /\ Owned /\ "app" \in Runtime /\ "agent" \in Runtime
      /\ \A q \in Runtime : q = "app" \/ q = "agent"
      /\ \A q \in Runtime : lease = q \/ mem[q].at # "idle" => mem[q].on
      /\ mem["agent"].on => lease = "agent"
      /\ lease \in {"app", "agent", "free"}
      /\ mem["agent"].acks \in SUBSET Nat /\ mem["app"].acks \in SUBSET Nat
  BY DEF IInv, TypeOK, Runtime, Memory
<1>1. MayYield => (mem["app"].acks = {} /\ ~mem["app"].dirty)
  BY <1>0 DEF MayYield, Owned
<1>2. CASE AgentStarts
  <2>1. /\ mem' = [mem EXCEPT !["agent"] = Loaded] /\ lease = "free" /\ lease' = "agent"
        /\ UNCHANGED <<saved, queue>>
    BY <1>2 DEF AgentStarts
  <2>2. mem'["agent"] = Loaded /\ mem'["app"] = mem["app"]
    BY <1>0, <2>1, LoadedTyped, OneMemory DEF TypeOK, Others
  <2>3. InStep("agent")'
    BY <1>0, <2>1, <2>2, LoadedTyped, FreshStep DEF TypeOK
  <2> QED
    BY <1>0, <2>1, <2>2, <2>3, LoadedTyped DEF Owned, TypeOK
<1>3. CASE AgentTicks
  <2>1. /\ StartTick("agent") /\ mem["agent"].on /\ mem["agent"].at = "idle"
        /\ UNCHANGED <<saved, queue, lease>>
    BY <1>3 DEF AgentTicks
  <2>2. lease = "agent" /\ InStep("agent")
    BY <1>0, <2>1 DEF Owned
  <2>3. InStep("agent")'
    BY <1>0, <2>1, <2>2, StartTickSteps, SameStep
  <2> QED
    BY <1>0, <2>1, <2>2, <2>3, StartTickSteps DEF Owned, Others
<1>4. CASE AppYields
  <2>1. /\ Reload /\ lease' = Released /\ mem["app"].on /\ mem["app"].at = "idle" /\ MayYield
        /\ UNCHANGED <<saved, queue>>
    BY <1>4 DEF AppYields, AppIdle
  <2>2. /\ mem'["app"].snap = saved' /\ mem'["app"].acks = {} /\ ~mem'["app"].dirty
        /\ mem'["app"].at = "idle" /\ mem'["agent"] = mem["agent"] /\ lease' # "app"
        /\ lease' = "agent" => lease = "agent"
    BY <1>0, <1>1, <2>1, ReloadSteps DEF Others, Released
  <2>3. InStep("app")'
    BY <1>0, <2>2, FreshStep
  <2>4. lease = "agent" => InStep("agent")'
    BY <1>0, <2>1, <2>2, SameStep DEF Owned
  <2> QED
    BY <1>0, <2>1, <2>2, <2>3, <2>4 DEF Owned, Released
<1>5. CASE AppReads
  <2>1. /\ Reload /\ lease = "agent" /\ mem["app"].at = "idle"
        /\ UNCHANGED <<saved, queue, lease>>
    BY <1>5 DEF AppReads, AppIdle
  <2>2. InStep("agent")'
    BY <1>0, <2>1, ReloadSteps, SameStep DEF Owned, Others
  <2> QED
    BY <1>0, <2>1, <2>2, ReloadSteps DEF Owned, Others
<1>6. CASE AppTicks
  <2>1. /\ StartTick("app") /\ mem["app"].on /\ lease' = "app" /\ lease \in {"free", "app"}
        /\ UNCHANGED <<saved, queue>>
    BY <1>6 DEF AppTicks, AppIdle
  <2>2. InStep("app")'
    BY <1>0, <2>1, StartTickSteps, SameStep DEF Owned
  <2> QED
    BY <1>0, <2>1, <2>2, StartTickSteps DEF Owned, Others
<1>7. CASE OpenApp
  <2>1. /\ mem' = [mem EXCEPT !["app"] = Loaded] /\ ~mem["app"].on
        /\ UNCHANGED <<saved, queue, lease>>
    BY <1>7 DEF OpenApp
  <2>2. mem'["app"] = Loaded /\ mem'["agent"] = mem["agent"]
    BY <1>0, <2>1, LoadedTyped, OneMemory DEF TypeOK, Others
  <2>3. InStep("app")'
    BY <1>0, <2>1, <2>2, LoadedTyped, FreshStep DEF TypeOK
  <2>4. lease = "agent" => InStep("agent")'
    BY <1>0, <2>1, <2>2, SameStep DEF Owned
  <2> QED
    BY <1>0, <2>1, <2>2, <2>3, <2>4, LoadedTyped DEF Owned, TypeOK
<1>8. ASSUME NEW p \in Runtime, DrainOne(p)
      PROVE  Owned'
  <2>1. UNCHANGED <<saved, queue, lease>>
    BY <1>8 DEF DrainOne
  <2>2. PICK c \in Waiting(p) :
          /\ c \in queue /\ Others(p)
          /\ mem[p].at = "drain" /\ mem'[p].on = mem[p].on
          /\ mem'[p].acks = mem[p].acks \cup {c.id} /\ mem'[p].dirty
          /\ mem'[p].snap.done = mem[p].snap.done \cup {c.id}
          /\ c.op # "clear" => mem'[p].snap.history = mem[p].snap.history
    BY <1>0, <1>8, DrainSteps
  <2>3. lease = p /\ InStep(p)
    BY <1>0, <2>2 DEF Owned
  <2>4. /\ mem'[p].acks = mem[p].acks \cup {d.id : d \in {c}}
        /\ mem'[p].snap.done = mem[p].snap.done \cup {d.id : d \in {c}}
        /\ (\A d \in {c} : d.op # "clear") => mem[p].snap.history \subseteq mem'[p].snap.history
        /\ {c} \in SUBSET queue
    BY <2>2
  <2>5. InStep(p)'
    BY <2>1, <2>3, <2>4, StillInStep
  <2> QED
    BY <1>0, <2>1, <2>2, <2>3, <2>5 DEF Owned, Others
<1>9. ASSUME NEW p \in Runtime, Judge(p)
      PROVE  Owned'
  <2>1. PICK q \in Nat, side \in Side : Evaluate(p, q, side)
    BY <1>0, <1>9, JudgeSteps
  <2>2. /\ Others(p) /\ mem[p].at = "drain" /\ mem'[p].on = mem[p].on
        /\ mem'[p].acks = mem[p].acks /\ mem'[p].dirty
        /\ mem'[p].snap.done = mem[p].snap.done
        /\ mem[p].snap.history \subseteq mem'[p].snap.history
        /\ UNCHANGED <<saved, queue, lease>>
    BY <1>0, <2>1, EvaluateSteps
  <2>3. lease = p /\ InStep(p)
    BY <1>0, <2>2 DEF Owned
  <2>4. InStep(p)'
    BY <2>2, <2>3, SameStep
  <2> QED
    BY <1>0, <2>2, <2>3, <2>4 DEF Owned, Others
<1>10. ASSUME NEW p \in Runtime, Save(p)
       PROVE  Owned'
  <2>1. /\ Others(p) /\ mem[p].at = "save" /\ mem'[p].at = "idle" /\ mem'[p].acks = {}
        /\ ~mem'[p].dirty /\ mem'[p].snap = saved' /\ UNCHANGED lease
    BY <1>0, <1>10, SaveSteps
  <2>2. lease = p /\ InStep(p)'
    BY <1>0, <2>1, FreshStep DEF Owned
  <2> QED
    BY <1>0, <2>1, <2>2 DEF Owned, Others
<1>11. ASSUME NEW p \in Runtime, SaveFails(p)
       PROVE  Owned'
  <2>1. /\ Others(p) /\ mem[p].at = "save" /\ mem'[p].on = mem[p].on /\ mem'[p].at = "idle"
        /\ mem'[p].acks = mem[p].acks /\ mem'[p].dirty = mem[p].dirty
        /\ mem'[p].snap = mem[p].snap
        /\ UNCHANGED <<saved, queue, lease>>
    BY <1>0, <1>11, SaveFailsSteps
  <2>2. lease = p /\ InStep(p)
    BY <1>0, <2>1 DEF Owned
  <2>3. InStep(p)'
    BY <2>1, <2>2, SameStep
  <2> QED
    BY <1>0, <2>1, <2>2, <2>3 DEF Owned, Others
<1>12. ASSUME NEW p \in Runtime, Stops(p), UNCHANGED <<saved, queue>>
       PROVE  Owned'
  <2>1. /\ Others(p) /\ mem'[p] = Off
        /\ p = "agent" /\ mem["app"].on => mem["app"].snap = saved
        /\ lease' = IF lease = p THEN "free" ELSE lease
    BY <1>0, <1>12, StopsSteps
  <2>2. CASE p = "app"
    <3>1. lease = "agent" => InStep("agent")'
      BY <1>0, <1>12, <2>1, <2>2, SameStep DEF Owned, Others
    <3> QED
      BY <1>0, <2>1, <2>2, <3>1, EmptyTyped DEF Owned, Others
  <2>3. CASE p = "agent"
    <3>1. lease = "agent"
      BY <1>0, <1>12, <2>3 DEF Stops
    <3>2. mem'["app"] = mem["app"] /\ mem["app"].acks = {} /\ ~mem["app"].dirty
          /\ mem["app"].at = "idle"
      BY <1>0, <2>1, <2>3, <3>1 DEF Owned, Others
    <3>3. mem["app"].on => InStep("app")'
      BY <1>0, <1>12, <2>1, <2>3, <3>2, FreshStep
    <3> QED
      BY <1>0, <2>1, <2>3, <3>1, <3>2, <3>3, EmptyTyped DEF Owned
  <2> QED
    BY <1>0, <2>2, <2>3
<1>13. ASSUME NEW p \in Runtime, Crash(p)
       PROVE  Owned'
  BY <1>12, <1>13 DEF Crash
<1>14. ASSUME UNCHANGED <<saved, mem, lease>>, queue \subseteq queue'
       PROVE  Owned'
  <2>1. \A p \in Runtime : InStep(p) => InStep(p)'
    BY <1>14, SameStep
  <2> QED
    BY <1>0, <1>14, <2>1 DEF Owned
<1>15. CASE Disable
  BY <1>0, <1>12, <1>14, <1>15 DEF Disable
<1>16. CASE Commit
  <2>1. /\ MayYield /\ lease' = Released /\ AppIdle /\ UNCHANGED <<saved, mem>>
        /\ queue \subseteq queue'
    BY <1>0, <1>16, CommitSteps, EnqueueSteps
  <2>2. \A p \in Runtime : InStep(p) => InStep(p)'
    BY <2>1, SameStep
  <2> QED
    BY <1>0, <1>1, <2>1, <2>2 DEF Owned, Released, AppIdle
<1>17. CASE Ask
  <2>1. UNCHANGED <<saved, mem, lease>> /\ queue \subseteq queue'
    BY <1>0, <1>17, AskSteps, EnqueueSteps
  <2> QED
    BY <1>14, <2>1
<1>18. ASSUME NEW a \in Alert, Switch(a)
       PROVE  Owned'
  BY <1>14, <1>18 DEF Switch
<1>19. ASSUME NEW row \in rows, Send(row)
       PROVE  Owned'
  BY <1>14, <1>19 DEF Send
<1> QED
  BY <1>2, <1>3, <1>4, <1>5, <1>6, <1>7, <1>8, <1>9, <1>10, <1>11, <1>13, <1>15, <1>16,
     <1>17, <1>18, <1>19 DEF Next

(* Only the user queues a command and only a save removes some.             *)
LEMMA QueueNext ==
    ASSUME IInv, Next
    PROVE  /\ Numbered' /\ NoneLost'
           /\ \A t \in saved.history \ saved'.history :
                \E c \in queue \ queue' : c.op = "clear"
<1>0. /\ TypeOK /\ Owned /\ Numbered /\ NoneLost /\ count.commands \in Nat
      /\ \A q \in Runtime : q = "app" \/ q = "agent"
      /\ \A q \in Runtime : lease = q \/ mem[q].at # "idle" => mem[q].on
  BY DEF IInv, TypeOK, Runtime
<1>1. ASSUME UNCHANGED saved, NEW c \in Command, Enqueue(c)
      PROVE  Numbered' /\ NoneLost'
  <2>1. PICK d \in Command : /\ d.id = count.commands + 1 /\ queue' = queue \cup {d}
                             /\ count'.commands = count.commands + 1
    BY <1>0, <1>1, EnqueueSteps
  <2>2. Numbered'
    BY <1>0, <1>1, <2>1 DEF Numbered
  <2>3. \A i \in 1..count'.commands : i \in Ids(queue') \cup saved'.done
    <3> TAKE i \in 1..count'.commands
    <3>1. CASE i = count.commands + 1
      BY <2>1, <3>1 DEF Ids
    <3>2. CASE i \in 1..count.commands
      BY <1>0, <1>1, <2>1, <3>2 DEF NoneLost, Ids
    <3> QED
      BY <1>0, <2>1, <3>1, <3>2
  <2>4. Ids(queue') \cap saved'.done = {}
    BY <1>0, <1>1, <2>1 DEF NoneLost, Numbered, Ids
  <2> QED
    BY <2>2, <2>3, <2>4 DEF NoneLost
<1>2. ASSUME NEW p \in Runtime, Save(p)
      PROVE  /\ Numbered' /\ NoneLost'
             /\ \A t \in saved.history \ saved'.history :
                  \E c \in queue \ queue' : c.op = "clear"
  <2>1. /\ saved' = mem[p].snap /\ mem[p].at = "save" /\ UNCHANGED count
        /\ queue' = {c \in queue : c.id \notin mem[p].acks}
    BY <1>0, <1>2, SaveSteps
  <2>2. InStep(p)
    BY <1>0, <2>1 DEF Owned
  <2>3. saved'.done = saved.done \cup mem[p].acks
    BY <2>1, <2>2 DEF InStep
  <2>4. mem[p].acks \subseteq 1..count.commands
    BY <1>0, <2>2 DEF InStep, Numbered
  <2>5. Numbered'
    BY <1>0, <2>1, <2>3, <2>4 DEF Numbered
  <2>6. NoneLost'
    BY <1>0, <2>1, <2>3 DEF NoneLost, Ids
  <2>7. \A t \in saved.history \ saved'.history : \E c \in queue \ queue' : c.op = "clear"
    BY <2>1, <2>2 DEF InStep
  <2> QED
    BY <2>5, <2>6, <2>7
<1>3. CASE Commit
  BY <1>0, <1>1, <1>3, CommitSteps
<1>4. CASE Ask
  BY <1>0, <1>1, <1>4, AskSteps
<1>5. CASE UNCHANGED <<saved, queue>> /\ count'.commands = count.commands
  BY <1>0, <1>5, Untouched
<1>6. ASSUME NEW p \in Runtime, DrainOne(p) \/ Judge(p) \/ SaveFails(p) \/ Crash(p)
      PROVE  UNCHANGED <<saved, queue>> /\ count'.commands = count.commands
  BY <1>0, <1>6, JudgeSteps, EvaluateSteps, Counts DEF DrainOne, SaveFails, Crash
<1>7. ASSUME AgentStarts \/ AgentTicks \/ AppYields \/ AppReads \/ AppTicks \/ OpenApp
      PROVE  UNCHANGED <<saved, queue>> /\ count'.commands = count.commands
  BY <1>7 DEF AgentStarts, AgentTicks, AppYields, AppReads, AppTicks, OpenApp
<1>8. ASSUME Disable \/ (\E a \in Alert : Switch(a)) \/ \E row \in rows : Send(row)
      PROVE  UNCHANGED <<saved, queue>> /\ count'.commands = count.commands
  BY <1>0, <1>8, Counts DEF Disable, Switch, Send
<1> QED
  BY <1>2, <1>3, <1>4, <1>5, <1>6, <1>7, <1>8 DEF Next

-----------------------------------------------------------------------------
(* No alert fires twice *)

LEMMA EmptyOnce == ASSUME NEW last \in Nat PROVE Once(EmptySnapshot, last)
BY EmptyTyped DEF Once, Known, Spent, OneEach, EmptySnapshot

(* Nothing has fired yet for a quote that is new.                           *)
LEMMA LaterOnce ==
    ASSUME NEW snap \in Snapshot, NEW last \in Nat, Once(snap, last)
    PROVE  Once(snap, last + 1)
<1>1. \A t \in snap.history : t.quote \in Nat
  BY DEF Snapshot, Event
<1> QED
  BY <1>1 DEF Once, Known, Spent, OneEach

(* An alert as it was, for all that keeps it from firing again: it may be   *)
(* stopped, and the side last seen may be forgotten.                        *)
Kept(old, new, last) ==
  /\ old # None /\ new.since = old.since /\ new.frequency = old.frequency
  /\ new.state = "active" => old.state = "active"
  /\ old.print = last \/ old.prev # "far" => new.print = last \/ new.prev # "far"

(* Each alert of the new snapshot is a kept one or was set going by a       *)
(* command that the old snapshot does not contain.                          *)
LEMMA SetOnce ==
    ASSUME NEW snap \in Snapshot, NEW s \in Snapshot, NEW last \in Nat, Once(snap, last),
           s.history \subseteq snap.history, snap.done \subseteq s.done,
           \A a \in Alert : s.alerts[a] # None =>
             \/ s.alerts[a].since \in s.done \ snap.done
             \/ Kept(snap.alerts[a], s.alerts[a], last)
    PROVE  Once(s, last)
<1>1. Known(s, last)
  BY DEF Once, Known, Kept
<1>2. Spent(s, last)
  <2> SUFFICES ASSUME NEW t \in s.history, s.alerts[t.alert] # None,
                      s.alerts[t.alert].since = t.since
               PROVE  LET alert == s.alerts[t.alert]
                      IN  /\ t.once <=> alert.frequency = "once"
                          /\ t.once => alert.state # "active"
                          /\ t.quote = last => alert.print = last \/ alert.prev # "far"
    BY DEF Spent
  <2>1. t \in snap.history /\ t.alert \in Alert /\ t.since \in snap.done
    BY DEF Once, Known, Snapshot, Event
  <2>2. Kept(snap.alerts[t.alert], s.alerts[t.alert], last)
    BY <2>1
  <2>3. LET alert == snap.alerts[t.alert]
        IN  /\ t.once <=> alert.frequency = "once"
            /\ t.once => alert.state # "active"
            /\ t.quote = last => alert.print = last \/ alert.prev # "far"
    BY <2>1, <2>2 DEF Once, Spent, Kept
  <2> QED
    BY <2>2, <2>3 DEF Kept
<1>3. OneEach(s)
  BY DEF Once, OneEach
<1> QED
  BY <1>1, <1>2, <1>3 DEF Once

LEMMA ApplyOnce ==
    ASSUME NEW snap \in Snapshot, NEW c \in Command, NEW last \in Nat, Once(snap, last)
    PROVE  Once(Apply(snap, c), last)
<1>0. /\ snap.alerts \in [Alert -> PriceAlert \cup {None}] /\ snap.done \in SUBSET Nat
      /\ c.alert \in Alert /\ c.op \in {"save", "state", "delete", "clear"}
  BY DEF Snapshot, Command
<1>1. CASE c.id \in snap.done
  BY <1>1 DEF Apply
<1>2. CASE c.id \notin snap.done
  <2> DEFINE s == IF BrokenPrecondition(snap, c) THEN snap ELSE ApplyPayload(snap, c)
             r == Apply(snap, c)
  <2>1. s \in Snapshot /\ s.done = snap.done
    BY PayloadTyped
  <2>2. s.history \subseteq snap.history
    <3>1. c.op = "clear" => ApplyPayload(snap, c) = [snap EXCEPT !.history = {}]
      BY DEF ApplyPayload
    <3>2. [snap EXCEPT !.history = {}].history = {}
      BY Zenon DEF Snapshot
    <3> QED
      BY <3>1, <3>2, PayloadTyped
  <2>3. \A a \in Alert : s.alerts[a] # None =>
          s.alerts[a].since = c.id \/ Kept(snap.alerts[a], s.alerts[a], last)
    <3>1. \A a \in Alert : snap.alerts[a] # None => Kept(snap.alerts[a], snap.alerts[a], last)
      BY DEF Kept
    <3>2. CASE BrokenPrecondition(snap, c)
      BY <3>1, <3>2
    <3>3. CASE ~BrokenPrecondition(snap, c)
      <4>1. s = ApplyPayload(snap, c)
        BY <3>3
      <4> HIDE DEF s
      <4>2. \A v \in PriceAlert \cup {None} :
              [snap EXCEPT !.alerts[c.alert] = v].alerts = [snap.alerts EXCEPT ![c.alert] = v]
        BY Zenon DEF Snapshot
      <4>3. CASE c.op = "save"
        <5>1. s = [snap EXCEPT !.alerts[c.alert] = SaveAlert(c)]
          BY <4>1, <4>3 DEF ApplyPayload
        <5>2. SaveAlert(c) \in PriceAlert /\ SaveAlert(c).since = c.id
          BY SaveAlertTyped DEF SaveAlert
        <5>3. s.alerts = [snap.alerts EXCEPT ![c.alert] = SaveAlert(c)]
          BY <4>2, <5>1, <5>2
        <5> QED
          BY <1>0, <3>1, <5>2, <5>3
      <4>4. CASE c.op = "state" /\ snap.alerts[c.alert] = None
        BY <3>1, <4>1, <4>4 DEF ApplyPayload
      <4>5. CASE c.op = "state" /\ snap.alerts[c.alert] # None
        <5> DEFINE old == snap.alerts[c.alert]
                   new == SetState(old, c)
        <5>1. s = [snap EXCEPT !.alerts[c.alert] = new]
          BY <4>1, <4>5 DEF ApplyPayload
        <5>2. old \in PriceAlert /\ new \in PriceAlert
          BY <1>0, <4>5, SetStateTyped
        <5>3. s.alerts = [snap.alerts EXCEPT ![c.alert] = new]
          BY <4>2, <5>1, <5>2
        <5>4. new.since = c.id \/ Kept(old, new, last)
          <6> HIDE DEF old
          <6>1. CASE c.state # "active"
            <7>1. new = [old EXCEPT !.state = c.state]
              BY <6>1 DEF SetState
            <7>2. /\ new.since = old.since /\ new.frequency = old.frequency
                  /\ new.state = c.state /\ new.print = old.print /\ new.prev = old.prev
              BY <5>2, <7>1, Zenon DEF PriceAlert
            <7> QED
              BY <4>5, <6>1, <7>2 DEF Kept, old
          <6>2. CASE c.state = "active"
            <7>1. new = [old EXCEPT !.state = c.state, !.prev = c.base,
                                    !.armed = Armed(c.base, old.armed), !.since = c.id]
              BY <6>2 DEF SetState
            <7> QED
              BY <5>2, <7>1, Zenon DEF PriceAlert
          <6> QED
            BY <6>1, <6>2
        <5> HIDE DEF new
        <5> QED
          BY <1>0, <3>1, <5>3, <5>4
      <4>6. CASE c.op = "delete"
        <5>1. s = [snap EXCEPT !.alerts[c.alert] = None]
          BY <4>1, <4>6 DEF ApplyPayload
        <5>2. s.alerts = [snap.alerts EXCEPT ![c.alert] = None]
          BY <4>2, <5>1
        <5> QED
          BY <1>0, <3>1, <5>2
      <4>7. CASE c.op = "clear"
        <5>1. s = [snap EXCEPT !.history = {}]
          BY <4>1, <4>7 DEF ApplyPayload
        <5>2. s.alerts = snap.alerts
          BY <5>1, Zenon DEF Snapshot
        <5> QED
          BY <3>1, <5>2
      <4> QED
        BY <1>0, <4>3, <4>4, <4>5, <4>6, <4>7
    <3> QED
      BY <3>2, <3>3
  <2>4. r = [s EXCEPT !.done = @ \cup {c.id}]
    BY <1>2 DEF Apply
  <2>5. r \in Snapshot /\ r.done = snap.done \cup {c.id}
    BY ApplyTyped
  <2> HIDE DEF s, r
  <2>6. r.history = s.history /\ r.alerts = s.alerts
    BY <2>1, <2>4, Zenon DEF Snapshot
  <2>7. Once(r, last)
    BY <1>2, <2>2, <2>3, <2>5, <2>6, SetOnce
  <2> QED
    BY <2>7 DEF r
<1> QED
  BY <1>1, <1>2

LEMMA UnmutedOnce ==
    ASSUME NEW snap \in Snapshot, NEW muted \in SUBSET Alert, NEW last \in Nat, Once(snap, last)
    PROVE  Once(Unmuted(snap, muted), last)
<1> DEFINE al == [a \in Alert |->
                    IF snap.alerts[a] # None /\ a \in muted \ here
                    THEN [snap.alerts[a] EXCEPT !.prev = None, !.print = 0] ELSE snap.alerts[a]]
           s == Unmuted(snap, muted)
<1>0. snap.alerts \in [Alert -> PriceAlert \cup {None}] /\ None # "far"
  BY Constants DEF Snapshot, Side
<1>1. \A x \in PriceAlert : LET y == [x EXCEPT !.prev = None, !.print = 0]
                            IN  /\ y.prev = None /\ y.since = x.since
                                /\ y.frequency = x.frequency /\ y.state = x.state
  BY Zenon DEF PriceAlert
<1>2. \A a \in Alert : al[a] # None => Kept(snap.alerts[a], al[a], last)
  BY <1>0, <1>1 DEF Kept
<1>3. s = [snap EXCEPT !.alerts = al]
  BY DEF Unmuted
<1>4. s \in Snapshot /\ s.done = snap.done /\ s.history = snap.history
  BY UnmutedTyped
<1> HIDE DEF al
<1>5. s.alerts = al
  BY <1>3, Zenon DEF Snapshot
<1> HIDE DEF s
<1>6. Once(s, last)
  BY <1>2, <1>4, <1>5, SetOnce
<1> QED
  BY <1>6 DEF s

(* An alert that a quote is judged for keeps what set it going, has judged  *)
(* that quote, and is done when it fired and fires only once.               *)
LEMMA AfterQuoteKeeps ==
    ASSUME NEW m \in Memory, NEW a \in Alert, NEW q \in Nat, NEW side \in Side
    PROVE  LET old == m.snap.alerts[a]
               new == AfterQuote(m, a, q, side)
           IN  /\ ~Judges(m, a, q) => new = old
               /\ Judges(m, a, q) =>
                    /\ old # None /\ new.since = old.since /\ new.frequency = old.frequency
                    /\ new.state = "active" => old.state = "active"
                    /\ new.print = q
               /\ Fires(m, a, q, side) /\ old.frequency = "once" => new.state = "triggered"
<1> DEFINE alert == m.snap.alerts[a]
           fires == Fires(m, a, q, side)
           armed == IF alert.prev = None THEN side = "far"
                    ELSE ~fires /\ (alert.armed \/ side = "far")
           state == IF fires /\ alert.frequency = "once" THEN "triggered" ELSE alert.state
           new == AfterQuote(m, a, q, side)
<1>1. ~Judges(m, a, q) => new = alert /\ ~fires
  BY DEF AfterQuote, Fires
<1>2. CASE Judges(m, a, q)
  <2>1. alert \in PriceAlert /\ alert # None
    BY <1>2 DEF Judges, Evaluates, Memory, Snapshot
  <2>2. new = [alert EXCEPT !.prev = side, !.print = q, !.armed = armed, !.state = state]
    BY <1>2, Zenon DEF AfterQuote
  <2>3. state # alert.state => state = "triggered"
    OBVIOUS
  <2>4. fires /\ alert.frequency = "once" => state = "triggered"
    OBVIOUS
  <2> HIDE DEF armed, state, alert, new
  <2>5. /\ new.since = alert.since /\ new.frequency = alert.frequency
        /\ new.state = state /\ new.print = q
    BY <2>1, <2>2, Zenon DEF PriceAlert
  <2> QED
    BY <1>2, <2>1, <2>3, <2>4, <2>5 DEF alert, new
<1> QED
  BY <1>1, <1>2

(* A trigger of the last quote is not one its alert has already given since *)
(* it was set going.                                                        *)
LEMMA NewTriggerIsNew ==
    ASSUME NEW m \in Memory, NEW q \in Nat, NEW side \in Side, Once(m.snap, q),
           NEW t, NewTrigger(t, m, q, side), NEW u \in m.snap.history,
           t.alert = u.alert, t.since = u.since
    PROVE  ~t.once /\ ~u.once /\ t.quote # u.quote
<1> DEFINE alert == m.snap.alerts[u.alert]
<1>1. /\ Fires(m, u.alert, q, side) /\ alert.since = u.since /\ t.quote = q
      /\ t.once <=> alert.frequency = "once"
  BY DEF NewTrigger
<1>2. alert # None /\ alert.state = "active" /\ alert.print # q /\ alert.prev = "far"
  BY <1>1 DEF Fires, Judges, Evaluates
<1>3. /\ u.once <=> alert.frequency = "once"
      /\ u.once => alert.state # "active"
      /\ u.quote = q => alert.print = q \/ alert.prev # "far"
  BY <1>1, <1>2 DEF Once, Spent
<1> QED
  BY <1>1, <1>2, <1>3

LEMMA EvaluateOnce ==
    ASSUME TypeOK, NEW p \in Runtime, NEW q \in Nat, NEW side \in Side, Evaluate(p, q, side),
           q = 0 \/ q = Len(quotes'), Once(mem[p].snap, Len(quotes'))
    PROVE  Once(mem'[p].snap, Len(quotes'))
<1> DEFINE m == mem[p]
           s == mem'[p].snap
           last == Len(quotes')
<1>1. /\ mem' \in [Runtime -> Memory] /\ s.done = m.snap.done
      /\ s.alerts = IF q = 0 THEN m.snap.alerts ELSE [a \in Alert |-> AfterQuote(m, a, q, side)]
      /\ \A t \in s.history : t \in m.snap.history \/ NewTrigger(t, m, q, side)
      /\ quotes' \in Seq(Side)
  BY EvaluateSteps
<1>2. m \in Memory /\ m.snap \in Snapshot /\ s \in Snapshot /\ last \in Nat
  BY <1>1 DEF TypeOK, Memory
<1> HIDE DEF s
<1>3. CASE q = 0
  <2>1. s.history \subseteq m.snap.history /\ s.alerts = m.snap.alerts
    BY <1>1, <1>3 DEF NewTrigger
  <2>2. \A a \in Alert : s.alerts[a] # None => Kept(m.snap.alerts[a], s.alerts[a], last)
    BY <2>1 DEF Kept
  <2>3. Once(s, last)
    BY <1>1, <1>2, <2>1, <2>2, SetOnce
  <2> QED
    BY <2>3 DEF s
<1>4. CASE q # 0
  <2> HIDE DEF m
  <2>0. q = last /\ Once(m.snap, q)
    BY <1>4 DEF m
  <2>1. \A a \in Alert :
          LET old == m.snap.alerts[a]
              new == s.alerts[a]
          IN  /\ ~Judges(m, a, q) => new = old
              /\ Judges(m, a, q) =>
                   /\ old # None /\ new.since = old.since /\ new.frequency = old.frequency
                   /\ new.state = "active" => old.state = "active"
                   /\ new.print = q
              /\ Fires(m, a, q, side) /\ old.frequency = "once" => new.state = "triggered"
    BY <1>1, <1>2, <1>4, AfterQuoteKeeps
  <2>2. ASSUME NEW t, NewTrigger(t, m, q, side)
        PROVE  /\ t.alert \in Alert /\ t.since = m.snap.alerts[t.alert].since /\ t.quote = q
               /\ Judges(m, t.alert, q) /\ Fires(m, t.alert, q, side)
               /\ m.snap.alerts[t.alert] # None
               /\ t.once <=> m.snap.alerts[t.alert].frequency = "once"
    BY <2>2 DEF NewTrigger, Fires, Judges, Evaluates
  <2>3. Known(s, q)
    BY <1>1, <2>0, <2>1, <2>2 DEF Once, Known
  <2>4. Spent(s, q)
    <3> SUFFICES ASSUME NEW t \in s.history, s.alerts[t.alert] # None,
                        s.alerts[t.alert].since = t.since
                 PROVE  LET alert == s.alerts[t.alert]
                        IN  /\ t.once <=> alert.frequency = "once"
                            /\ t.once => alert.state # "active"
                            /\ t.quote = q => alert.print = q \/ alert.prev # "far"
      BY DEF Spent
    <3>1. t.alert \in Alert
      BY <1>2 DEF Snapshot, Event
    <3>2. CASE t \in m.snap.history
      <4> DEFINE old == m.snap.alerts[t.alert]
                 new == s.alerts[t.alert]
      <4>1. old # None /\ old.since = t.since /\ new.frequency = old.frequency
            /\ (new.state = "active" => old.state = "active")
            /\ (new = old \/ new.print = q)
        BY <2>1, <3>1
      <4>2. /\ t.once <=> old.frequency = "once"
            /\ t.once => old.state # "active"
            /\ t.quote = q => old.print = q \/ old.prev # "far"
        BY <2>0, <3>2, <4>1 DEF Once, Spent
      <4> QED
        BY <4>1, <4>2
    <3>3. CASE NewTrigger(t, m, q, side)
      BY <2>1, <2>2, <3>3
    <3> QED
      BY <1>1, <3>2, <3>3
  <2>5. OneEach(s)
    <3> SUFFICES ASSUME NEW t \in s.history, NEW u \in s.history,
                        t.alert = u.alert, t.since = u.since, t.once \/ t.quote = u.quote
                 PROVE  t.id = u.id
      BY DEF OneEach
    <3>1. CASE t \in m.snap.history /\ u \in m.snap.history
      BY <2>0, <3>1 DEF Once, OneEach
    <3>2. CASE NewTrigger(t, m, q, side) /\ NewTrigger(u, m, q, side)
      BY <3>2 DEF NewTrigger
    <3>3. CASE NewTrigger(t, m, q, side) /\ u \in m.snap.history
      BY <1>2, <2>0, <3>3, NewTriggerIsNew
    <3>4. CASE NewTrigger(u, m, q, side) /\ t \in m.snap.history
      BY <1>2, <2>0, <3>4, NewTriggerIsNew
    <3> QED
      BY <1>1, <3>1, <3>2, <3>3, <3>4
  <2> QED
    BY <2>0, <2>3, <2>4, <2>5 DEF Once, s
<1> QED
  BY <1>3, <1>4

(* A step that only copies snapshots, from memory or from the database.     *)
LEMMA CopiedOnce ==
    ASSUME AllOnce, TypeOK, UNCHANGED quotes,
           saved' = saved \/ \E r \in Runtime : saved' = mem[r].snap,
           \A p \in Runtime : \/ mem'[p].snap \in {saved, EmptySnapshot}
                              \/ mem'[p].snap = mem[p].snap
    PROVE  AllOnce'
<1>1. Len(quotes) \in Nat
  BY DEF TypeOK
<1> QED
  BY <1>1, EmptyOnce DEF AllOnce

(* A step of p after which the quotes are as many, or one more.             *)
LEMMA OwnOnce ==
    ASSUME AllOnce, TypeOK, NEW p \in Runtime, Others(p), UNCHANGED saved,
           Len(quotes') = Len(quotes) \/ Len(quotes') = Len(quotes) + 1,
           Once(mem[p].snap, Len(quotes')) => Once(mem'[p].snap, Len(quotes'))
    PROVE  AllOnce'
<1>1. Len(quotes) \in Nat /\ saved \in Snapshot /\ \A r \in Runtime : mem[r].snap \in Snapshot
  BY DEF TypeOK, Memory
<1>2. Once(saved, Len(quotes')) /\ \A r \in Runtime : Once(mem[r].snap, Len(quotes'))
  BY <1>1, LaterOnce DEF AllOnce
<1> QED
  BY <1>2 DEF AllOnce, Others

(* When no book lags, the quote judged is the last there is, or a new one.  *)
LEMMA JudgesLast ==
    ASSUME Lagging = FALSE, TypeOK, NEW p \in Runtime, Judge(p)
    PROVE  \E q \in Nat, side \in Side :
             /\ Evaluate(p, q, side)
             /\ q = 0 \/ q = Len(quotes')
             /\ Len(quotes') = Len(quotes) \/ Len(quotes') = Len(quotes) + 1
<1>0. quotes \in Seq(Side) /\ Len(quotes) \in Nat /\ mem[p].book \in Nat
  BY DEF TypeOK, Memory
<1>1. ASSUME NEW q \in Nat, NEW side \in Side, Evaluate(p, q, side)
      PROVE  Len(quotes') = IF q > Len(quotes) THEN Len(quotes) + 1 ELSE Len(quotes)
  BY <1>0, <1>1 DEF Evaluate
<1>2. CASE Evaluate(p, 0, "far")
  BY <1>0, <1>1, <1>2 DEF Side
<1>3. CASE \E q \in Polled(p) : Evaluate(p, q, quotes[q])
  <2>1. PICK q \in Polled(p) : Evaluate(p, q, quotes[q])
    BY <1>3
  <2>2. q \in Nat /\ q = Len(quotes) /\ q \in 1..Len(quotes)
    BY <1>0 DEF Polled
  <2>3. quotes[q] \in Side
    BY <1>0, <2>2
  <2> QED
    BY <1>0, <1>1, <2>1, <2>2, <2>3
<1>4. CASE \E side \in Side : Evaluate(p, Len(quotes) + 1, side)
  BY <1>0, <1>1, <1>4
<1> QED
  BY <1>2, <1>3, <1>4 DEF Judge

LEMMA InitOnce == Init => AllOnce
<1> SUFFICES ASSUME Init PROVE AllOnce
  OBVIOUS
<1>1. saved = EmptySnapshot /\ Len(quotes) \in Nat /\ \A p \in Runtime : mem[p].snap = EmptySnapshot
  BY EmptyTyped DEF Init
<1> QED
  BY <1>1, EmptyOnce DEF AllOnce

LEMMA NextOnce ==
    ASSUME Lagging = FALSE, TypeOK, AllOnce, [Next]_vars
    PROVE  AllOnce'
<1>0. /\ "app" \in Runtime /\ "agent" \in Runtime /\ Off.snap = EmptySnapshot
      /\ saved \in Snapshot /\ Len(quotes) \in Nat
      /\ \A p \in Runtime : mem[p] \in Memory /\ mem[p].snap \in Snapshot
                            /\ mem[p].muted \in SUBSET Alert
  BY EmptyTyped DEF TypeOK, Runtime, Memory
<1>1. ASSUME NEW p \in Runtime, StartTick(p), UNCHANGED <<saved, quotes>>
      PROVE  AllOnce'
  BY <1>0, <1>1, StartTickSteps, UnmutedOnce, OwnOnce
<1>2. ASSUME NEW p \in Runtime, DrainOne(p)
      PROVE  AllOnce'
  <2>1. UNCHANGED <<saved, quotes>>
    BY <1>2 DEF DrainOne
  <2>2. PICK c \in Command : mem'[p].snap = Apply(mem[p].snap, c) /\ Others(p)
    BY <1>2, DrainSteps
  <2>3. Once(mem[p].snap, Len(quotes)) => Once(mem'[p].snap, Len(quotes))
    BY <1>0, <2>2, ApplyOnce
  <2> QED
    BY <1>0, <2>1, <2>2, <2>3, OwnOnce
<1>3. ASSUME NEW p \in Runtime, Judge(p)
      PROVE  AllOnce'
  <2>1. PICK q \in Nat, side \in Side :
          /\ Evaluate(p, q, side)
          /\ q = 0 \/ q = Len(quotes')
          /\ Len(quotes') = Len(quotes) \/ Len(quotes') = Len(quotes) + 1
    BY <1>3, JudgesLast
  <2>2. Others(p) /\ UNCHANGED saved
    BY <2>1, EvaluateSteps
  <2> QED
    BY <2>1, <2>2, EvaluateOnce, OwnOnce
<1>4. ASSUME NEW p \in Runtime, Save(p) \/ SaveFails(p)
      PROVE  AllOnce'
  BY <1>4, SaveSteps, SaveFailsSteps, CopiedOnce DEF Others
<1>5. ASSUME NEW p \in Runtime, Stops(p), UNCHANGED <<saved, quotes>>
      PROVE  AllOnce'
  BY <1>0, <1>5, StopsSteps, CopiedOnce DEF Others
<1>6. ASSUME Reload, UNCHANGED <<saved, quotes>>
      PROVE  AllOnce'
  BY <1>0, <1>6, ReloadSteps, CopiedOnce DEF Others
<1>7. ASSUME NEW p \in Runtime, mem' = [mem EXCEPT ![p] = Loaded], UNCHANGED <<saved, quotes>>
      PROVE  AllOnce'
  BY <1>0, <1>7, LoadedTyped, OneMemory, CopiedOnce DEF Others
<1>8. CASE UNCHANGED <<saved, mem, quotes>>
  BY <1>8 DEF AllOnce
<1>9. CASE Commit \/ Ask
  BY <1>8, <1>9, CommitSteps, AskSteps
<1>10. CASE AgentStarts \/ OpenApp
  BY <1>0, <1>7, <1>10 DEF AgentStarts, OpenApp
<1>11. CASE AgentTicks \/ AppTicks
  BY <1>0, <1>1, <1>11 DEF AgentTicks, AppTicks
<1>12. CASE AppYields \/ AppReads
  BY <1>6, <1>12 DEF AppYields, AppReads
<1>13. CASE Disable
  BY <1>0, <1>5, <1>8, <1>13 DEF Disable
<1>14. ASSUME NEW p \in Runtime, Crash(p)
       PROVE  AllOnce'
  BY <1>5, <1>14 DEF Crash
<1>15. CASE (\E a \in Alert : Switch(a)) \/ (\E row \in rows : Send(row)) \/ UNCHANGED vars
  BY <1>8, <1>15 DEF Switch, Send, vars
<1> QED
  BY <1>2, <1>3, <1>4, <1>9, <1>10, <1>11, <1>12, <1>13, <1>14, <1>15 DEF Next

-----------------------------------------------------------------------------
(* Values keep their types, and the lease stays with a running process.     *)
THEOREM Typed == Spec => []TypeOK
<1>1. AllReady => TypeOK
  BY DEF AllReady
<1> QED
  BY <1>1, InitReady, NextReady, PTL DEF Spec

(* An alert last seen on the far side of its target is armed, so that the   *)
(* next crossing fires: for every history of edits, quotes, restarts and    *)
(* changes of owner.                                                        *)
THEOREM StaysArmed == Spec => []ArmedWhenFar
<1>1. AllReady => ArmedWhenFar
  BY DEF AllReady, Ready, ArmedWhenFar
<1> QED
  BY <1>1, InitReady, NextReady, PTL DEF Spec

(* What a process that may save has in memory is the saved snapshot with    *)
(* the commands it has marked, as long as no takeover goes unseen and no    *)
(* unsaved snapshot is given up.                                            *)
THEOREM Invariance ==
    ASSUME Unseen = FALSE, Unsaved = FALSE
    PROVE  Spec => []IInv
<1>1. TypeOK /\ IInv /\ TypeOK' /\ [Next]_vars => IInv'
  <2> SUFFICES ASSUME IInv, TypeOK', [Next]_vars PROVE IInv'
    OBVIOUS
  <2>1. CASE Next
    BY <2>1, OwnedNext, QueueNext DEF IInv
  <2>2. CASE UNCHANGED vars
    BY <2>2 DEF vars, IInv, Owned, InStep, Numbered, NoneLost, Ids
  <2> QED
    BY <2>1, <2>2
<1> QED
  BY <1>1, InitInv, Typed, PTL DEF Spec

(* No command the user queued is lost, by a crash, a failed save or a       *)
(* change of owner: it is queued or in the saved snapshot, never in both.   *)
THEOREM NoCommandLost ==
    ASSUME Unseen = FALSE, Unsaved = FALSE
    PROVE  Spec => []NoneLost
<1>1. IInv => NoneLost
  BY DEF IInv
<1> QED
  BY <1>1, Invariance, PTL

(* A trigger leaves the saved history only in the save that removes the     *)
(* user's command to clear it.                                              *)
THEOREM NoTriggerLost ==
    ASSUME Unseen = FALSE, Unsaved = FALSE
    PROVE  Spec => HistoryKept
<1>1. IInv /\ [Next]_vars =>
        [\A t \in saved.history \ saved'.history : \E c \in queue \ queue' : c.op = "clear"]_vars
  BY QueueNext
<1> QED
  BY <1>1, Invariance, PTL DEF Spec, HistoryKept

(* Between two commands that set it going an alert fires at most once for a *)
(* quote, and a "once" alert at most once, as the saved history tells:      *)
(* through any failed save, crash or change of owner, those included that   *)
(* lose a snapshot, as long as no owner judges a quote older than one       *)
(* already judged.                                                          *)
THEOREM FiresOnlyOnce ==
    ASSUME Lagging = FALSE
    PROVE  Spec => []FiresOnce
<1>1. TypeOK /\ AllOnce /\ [Next]_vars => AllOnce'
  BY NextOnce
<1>2. AllOnce => FiresOnce
  BY DEF AllOnce, Once, OneEach, FiresOnce
<1> QED
  BY <1>1, <1>2, InitOnce, Typed, PTL DEF Spec
=============================================================================
