------------------------- MODULE SyncSessionProofs -------------------------
(***************************************************************************)
(* Proofs about SyncSession, for every set of accounts, items and choices  *)
(* and every bound: each variable has its type, and, if the account does   *)
(* not change while Coordinator.stage waits for its answer, the data of an *)
(* account never reaches another one, however hasty the user is and        *)
(* whatever the engine still carries out after a change (NoCrossing).      *)
(*                                                                         *)
(* The argument: what is local and not linked was agreed for the bound     *)
(* account (Owed); so is what a stage command carries for its account      *)
(* (Sound); so is what is staged, for the account signed in; and what was  *)
(* agreed is never taken back (Grows).                                     *)
(***************************************************************************)
EXTENDS SyncSession, TLAPS, SequenceTheorems

Event ==
  [type : {"start", "stop", "restart", "clear_pause", "tick", "applied", "delete",
           "complete", "send_failed", "zone_deleted"}]
  \cup [type : {"account", "change"}, account : Account \cup {None}]
  \cup [type : {"fetched", "sent"}, items : SUBSET Item]
  \cup [type : {"state"}, at : Position]
  \cup [type : {"error"}, refused : BOOLEAN]

Command ==
  [type : {"start"}, at : Position \cup {None}]
  \cup [type : {"check", "send", "stop"}]
  \cup [type : {"fetch", "delete"}, for : Account]
  \cup [type : {"stage"}, for : Account, items : SUBSET Item]

Effects == [confirm : Account \cup {None}, mismatch : Account \cup {None},
            batches : Seq(SUBSET Item)]
Phases == {"off", "account", "checking", "waiting", "setup", "working", "join"}
Hosts == [confirm : Account \cup {None}, mismatch : Account \cup {None}, effects : Effects,
          phase : Phases, deleted : BOOLEAN, choice : Choices \cup {None}]
Bridges == [running : BOOLEAN, at : Position \cup {None}, staged : SUBSET Item]
Grants == [Account -> SUBSET Item]
Users == [agreed : Grants, asked : SUBSET (Account \cup {None}), declined : SUBSET Item,
          late : SUBSET {"data", "deletion"}]
Bounds == [choices : Nat, switches : Nat, fresh : SUBSET Item, troubles : Nat]

Types ==
  /\ db \in Database /\ core \in Core /\ host \in Hosts
  /\ mail \in Seq(Event) /\ cmds \in Seq(Command)
  /\ bridge \in Bridges /\ signedIn \in Account \cup {None} /\ cloud \in Grants
  /\ user \in Users /\ left \in Bounds

Worlds == [db : Database, core : Core, cmds : Seq(Command), effects : Effects]
Apps == [db : Database, host : Hosts, mail : Seq(Event), user : Users]

(* What was agreed is never taken back.                                    *)
Grows(g, h) == \A a \in Account : g[a] \subseteq h[a]

(* What is still to be uploaded was agreed for the bound account.          *)
Owed(d, g) == d.joined /\ d.bound \in Account => d.local \ d.linked \subseteq g[d.bound]

(* A stage command carries what was agreed for its account.                *)
Sound(g) == {c \in Command : c.type = "stage" => c.items \subseteq g[c.for]}

(* What a step of the core may do to the database and the commands.        *)
Fine(g, w, v) ==
  /\ v \in Worlds
  /\ v.db.local = w.db.local /\ v.db.bound = w.db.bound /\ v.db.joined = w.db.joined
  /\ w.db.linked \subseteq v.db.linked
  /\ w.cmds \in Seq(Sound(g)) /\ Owed(w.db, g) => v.cmds \in Seq(Sound(g))

(* What a step of the app thread may do.                                   *)
Kind(v, u) ==
  /\ u \in Apps
  /\ Grows(v.user.agreed, u.user.agreed)
  /\ Owed(v.db, v.user.agreed) => Owed(u.db, u.user.agreed)
  /\ u.user.asked = v.user.asked /\ u.user.late = v.user.late
  /\ u.host.choice = v.host.choice
  /\ Has(u.mail, "delete") => Has(v.mail, "delete")

-----------------------------------------------------------------------------
(*                              The core                                   *)

(* Steps of the core compose.                                              *)
LEMMA FineChain ==
  ASSUME NEW g \in Grants, NEW u \in Worlds, NEW v, NEW w, Fine(g, u, v), Fine(g, v, w)
  PROVE  Fine(g, u, w)
<1>1. Owed(u.db, g) => Owed(v.db, g) BY DEF Fine, Owed
<1> QED BY <1>1 DEF Fine

(* A step that leaves the commands alone, and of the database what matters. *)
LEMMA FineQuiet ==
  ASSUME NEW g \in Grants, NEW w \in Worlds, NEW v \in Worlds,
         v.db.local = w.db.local, v.db.bound = w.db.bound, v.db.joined = w.db.joined,
         w.db.linked \subseteq v.db.linked, v.cmds = w.cmds
  PROVE  Fine(g, w, v)
BY DEF Fine

LEMMA FineSame == ASSUME NEW g \in Grants, NEW w \in Worlds PROVE Fine(g, w, w)
BY FineQuiet

LEMMA FineSends ==
  ASSUME NEW g \in Grants, NEW w \in Worlds, NEW c \in Command,
         Owed(w.db, g) => c \in Sound(g)
  PROVE  Fine(g, w, Sends(w, c)) /\ Sends(w, c).core = w.core /\ Sends(w, c).db = w.db
<1>1. Append(w.cmds, c) \in Seq(Command) BY DEF Worlds
<1>2. w.cmds \in Seq(Sound(g)) /\ Owed(w.db, g) => Append(w.cmds, c) \in Seq(Sound(g)) OBVIOUS
<1>3. /\ Sends(w, c) \in Worlds /\ Sends(w, c).core = w.core /\ Sends(w, c).db = w.db
      /\ Sends(w, c).cmds = Append(w.cmds, c)
  BY <1>1, Zenon DEF Worlds, Sends
<1> QED BY <1>2, <1>3 DEF Fine

(* A command that stages nothing.                                          *)
LEMMA FineSendsOther ==
  ASSUME NEW g \in Grants, NEW w \in Worlds, NEW c \in Command, c.type # "stage"
  PROVE  Fine(g, w, Sends(w, c)) /\ Sends(w, c).core = w.core /\ Sends(w, c).db = w.db
BY FineSends DEF Sound

LEMMA FineStartFetch ==
  ASSUME NEW g \in Grants, NEW w \in Worlds PROVE Fine(g, w, StartFetch(w))
<1>1. CASE CanSync(w) /\ ~w.core.fetching
  <2> DEFINE v == [w EXCEPT !.core.fetching = TRUE]
             c == [type |-> "fetch", for |-> w.core.account]
  <2>1. v \in Worlds /\ v.db = w.db /\ v.cmds = w.cmds BY Zenon DEF Worlds, Core
  <2>2. w.core.account \in Account BY <1>1 DEF CanSync, BoundAccount
  <2>3. c \in Command /\ c.type # "stage" BY <2>2 DEF Command
  <2>4. StartFetch(w) = Sends(v, c) BY <1>1, Zenon DEF StartFetch
  <2> HIDE DEF v, c
  <2>5. Fine(g, v, Sends(v, c)) BY <2>1, <2>3, FineSendsOther
  <2>6. Fine(g, w, v) BY <2>1, FineQuiet
  <2> QED BY <2>4, <2>5, <2>6, FineChain
<1>2. CASE ~(CanSync(w) /\ ~w.core.fetching)
  BY <1>2, FineSame DEF StartFetch
<1> QED BY <1>1, <1>2

LEMMA FinePump ==
  ASSUME NEW g \in Grants, NEW w \in Worlds PROVE Fine(g, w, Pump(w))
<1> DEFINE due == (w.db.local \ w.db.linked) \ w.core.inflight
<1>1. CASE CanUpload(w) /\ due # {}
  <2> DEFINE v == [w EXCEPT !.core.inflight = w.core.inflight \cup due]
             c == [type |-> "stage", for |-> w.core.account, items |-> due]
             s == [type |-> "send"]
  <2>0. due \in SUBSET Item BY DEF Worlds, Database
  <2>1. v \in Worlds /\ v.db = w.db /\ v.cmds = w.cmds BY <2>0, Zenon DEF Worlds, Core
  <2>2. w.core.account \in Account /\ w.core.account = w.db.bound /\ w.db.joined
    BY <1>1 DEF CanUpload, CanSync, BoundAccount
  <2>3. c \in Command /\ s \in Command /\ s.type # "stage" BY <2>0, <2>2 DEF Command
  <2>4. Owed(v.db, g) => c \in Sound(g) BY <2>1, <2>2, <2>3 DEF Owed, Sound
  <2>5. Pump(w) = Sends(Sends(v, c), s) BY <1>1, Zenon DEF Pump
  <2> HIDE DEF v, c, s
  <2>6. Fine(g, w, v) BY <2>1, FineQuiet
  <2>7. Fine(g, v, Sends(v, c)) BY <2>1, <2>3, <2>4, FineSends
  <2>8. Sends(v, c) \in Worlds BY <2>7 DEF Fine
  <2>9. Fine(g, Sends(v, c), Sends(Sends(v, c), s)) BY <2>8, <2>3, FineSendsOther
  <2>10. Fine(g, w, Sends(v, c)) BY <2>1, <2>6, <2>7, FineChain
  <2> QED BY <2>5, <2>9, <2>10, FineChain
<1>2. CASE ~(CanUpload(w) /\ due # {})
  BY <1>2, FineSame DEF Pump
<1> QED BY <1>1, <1>2

LEMMA FineFlush ==
  ASSUME NEW g \in Grants, NEW w \in Worlds PROVE Fine(g, w, FlushState(w))
<1>1. Known(w) \in Account \cup {None} BY DEF Known
<1>2. CASE w.core.pending = None
  <2> DEFINE v == [w EXCEPT !.core.caught = w.core.caught \/ w.core.completed]
  <2>1. v \in Worlds /\ v.db = w.db /\ v.cmds = w.cmds BY Zenon DEF Worlds, Core
  <2>2. FlushState(w) = v \/ FlushState(w) = w BY <1>2, Zenon DEF FlushState, SavePosition
  <2> HIDE DEF v
  <2> QED BY <2>1, <2>2, FineQuiet, FineSame
<1>3. CASE w.core.pending # None
  <2> DEFINE v == [w EXCEPT !.core.caught = TRUE, !.core.pending = None,
                            !.db.ckpt = w.core.pending, !.db.owner = Known(w)]
  <2>1. /\ v \in Worlds /\ v.cmds = w.cmds /\ v.db.local = w.db.local
        /\ v.db.bound = w.db.bound /\ v.db.joined = w.db.joined /\ v.db.linked = w.db.linked
    BY <1>1, Zenon DEF Worlds, Core, Database
  <2>2. FlushState(w) = v \/ FlushState(w) = w BY <1>3, Zenon DEF FlushState, SavePosition
  <2> HIDE DEF v
  <2> QED BY <2>1, <2>2, FineQuiet, FineSame
<1> QED BY <1>2, <1>3

(* A position saved and then a pump.                                       *)
LEMMA FineFlushPump ==
  ASSUME NEW g \in Grants, NEW w \in Worlds, NEW v \in Worlds, Fine(g, w, v)
  PROVE  Fine(g, w, Pump(FlushState(v)))
<1>1. Fine(g, v, FlushState(v)) BY FineFlush
<1>2. FlushState(v) \in Worlds BY <1>1 DEF Fine
<1>3. Fine(g, FlushState(v), Pump(FlushState(v))) BY <1>2, FinePump
<1>4. Fine(g, w, FlushState(v)) BY <1>1, FineChain
<1> QED BY <1>3, <1>4, FineChain

LEMMA FineThenPump ==
  ASSUME NEW g \in Grants, NEW w \in Worlds, NEW v, Fine(g, w, v)
  PROVE  Fine(g, w, Pump(v))
<1>1. v \in Worlds BY DEF Fine
<1>2. Fine(g, v, Pump(v)) BY <1>1, FinePump
<1> QED BY <1>2, FineChain

LEMMA FineStart ==
  ASSUME NEW g \in Grants, NEW w \in Worlds PROVE Fine(g, w, Start(w))
<1>1. CASE w.db.enabled /\ ~w.core.started
  <2> DEFINE v == [w EXCEPT !.core.started = TRUE]
             at == IF w.db.owner # None /\ w.db.owner = w.db.bound THEN w.db.ckpt ELSE None
             c == [type |-> "start", at |-> at]
             k == [type |-> "check"]
  <2>1. v \in Worlds /\ v.db = w.db /\ v.cmds = w.cmds BY Zenon DEF Worlds, Core
  <2>2. at \in Position \cup {None} BY DEF Worlds, Database
  <2>3. c \in Command /\ c.type # "stage" /\ k \in Command /\ k.type # "stage"
    <3> HIDE DEF at
    <3> QED BY <2>2 DEF Command
  <2>4. Start(w) = Sends(Sends(v, c), k) BY <1>1, Zenon DEF Start
  <2> HIDE DEF v, c, k, at
  <2>5. Fine(g, w, v) BY <2>1, FineQuiet
  <2>6. Fine(g, v, Sends(v, c)) BY <2>1, <2>3, FineSendsOther
  <2>7. Sends(v, c) \in Worlds BY <2>6 DEF Fine
  <2>8. Fine(g, Sends(v, c), Sends(Sends(v, c), k)) BY <2>7, <2>3, FineSendsOther
  <2>9. Fine(g, w, Sends(v, c)) BY <2>5, <2>6, <2>1, FineChain
  <2> QED BY <2>4, <2>8, <2>9, FineChain
<1>2. CASE ~(w.db.enabled /\ ~w.core.started)
  BY <1>2, FineSame DEF Start
<1> QED BY <1>1, <1>2

LEMMA FineStop ==
  ASSUME NEW g \in Grants, NEW w \in Worlds PROVE Fine(g, w, Stop(w))
<1> DEFINE v == [w EXCEPT !.core.started = FALSE, !.core.account = "unknown",
                          !.core.inflight = {}, !.core.fetching = FALSE,
                          !.core.deleting = "idle"]
           c == [type |-> "stop"]
<1>1. v \in Worlds /\ v.db = w.db /\ v.cmds = w.cmds BY ZenonT(30) DEF Worlds, Core
<1>2. c \in Command /\ c.type # "stage" BY DEF Command
<1>3. Stop(w) = Sends(v, c) \/ Stop(w) = v BY Zenon DEF Stop
<1> HIDE DEF v, c
<1>4. Fine(g, v, Sends(v, c)) BY <1>1, <1>2, FineSendsOther
<1>5. Fine(g, w, v) BY <1>1, FineQuiet
<1>6. Fine(g, w, Sends(v, c)) BY <1>1, <1>4, <1>5, FineChain
<1> QED BY <1>3, <1>5, <1>6

LEMMA FineAccount ==
  ASSUME NEW g \in Grants, NEW w \in Worlds, NEW a \in Account \cup {None}
  PROVE  Fine(g, w, OnAccount(w, a))
<1>1. CASE a = None
  <2> DEFINE v == [w EXCEPT !.core.account = "unavailable"]
  <2>1. v \in Worlds /\ v.db = w.db /\ v.cmds = w.cmds BY Zenon DEF Worlds, Core
  <2>2. OnAccount(w, a) = v BY <1>1, Zenon DEF OnAccount
  <2> QED BY <2>1, <2>2, FineQuiet
<1>2. CASE a # None
  <2> DEFINE known == [w EXCEPT !.core.account = a]
             asked == [known EXCEPT !.effects.confirm = a]
             paused == [known EXCEPT !.core.paused = TRUE, !.effects.mismatch = a]
  <2>1. a \in Account BY <1>2
  <2>2. known \in Worlds /\ known.db = w.db /\ known.cmds = w.cmds BY <2>1, Zenon DEF Worlds, Core
  <2>3. OnAccount(w, a) \in {asked, StartFetch(known), paused}
    BY <1>2, Zenon DEF OnAccount, OnAvailable
  <2> HIDE DEF known
  <2>4. asked \in Worlds /\ asked.db = w.db /\ asked.cmds = w.cmds
    BY <2>1, <2>2, Zenon DEF Worlds, Effects
  <2>5. paused \in Worlds /\ paused.db = w.db /\ paused.cmds = w.cmds
    BY <2>1, <2>2, Zenon DEF Worlds, Effects, Core
  <2> HIDE DEF asked, paused
  <2>6. Fine(g, known, StartFetch(known)) BY <2>2, FineStartFetch
  <2>7. Fine(g, w, known) BY <2>2, FineQuiet
  <2>8. Fine(g, w, StartFetch(known)) BY <2>2, <2>6, <2>7, FineChain
  <2>9. Fine(g, w, asked) /\ Fine(g, w, paused) BY <2>4, <2>5, FineQuiet
  <2> QED BY <2>3, <2>8, <2>9
<1> QED BY <1>1, <1>2

LEMMA FineAccountChange ==
  ASSUME NEW g \in Grants, NEW w \in Worlds, NEW a \in Account \cup {None}
  PROVE  Fine(g, w, OnAccountChange(w, a))
<1> DEFINE v == [w EXCEPT !.core.inflight = {}, !.core.fetching = FALSE]
<1>1. v \in Worlds /\ v.db = w.db /\ v.cmds = w.cmds BY Zenon DEF Worlds, Core
<1>2. OnAccountChange(w, a) = OnAccount(v, a) BY Zenon DEF OnAccountChange
<1> HIDE DEF v
<1>3. Fine(g, w, v) /\ Fine(g, v, OnAccount(v, a)) BY <1>1, FineQuiet, FineAccount
<1> QED BY <1>1, <1>2, <1>3, FineChain

LEMMA FineFetched ==
  ASSUME NEW g \in Grants, NEW w \in Worlds, NEW items \in SUBSET Item, NEW kept \in BOOLEAN
  PROVE  Fine(g, w, OnFetched(w, items, kept))
<1> DEFINE new == items \ w.db.linked
           over == [w EXCEPT !.core.fetching = FALSE]
           inbox == [over EXCEPT !.db.inbox = w.db.inbox \cup new]
           hold == [over EXCEPT !.core.held = TRUE]
           batch == [over EXCEPT !.core.unapplied = w.core.unapplied + 1,
                                 !.effects.batches = Append(w.effects.batches, new)]
<1>1. over \in Worlds /\ over.db = w.db /\ over.cmds = w.cmds BY Zenon DEF Worlds, Core
<1>2. OnFetched(w, items, kept) \in {over, inbox, hold, batch} BY Zenon DEF OnFetched
<1>3. w.core.unapplied + 1 \in Nat BY DEF Worlds, Core
<1>4. w.db.inbox \cup new \in SUBSET Item /\ new \in SUBSET Item BY DEF Worlds, Database
<1>5. Append(w.effects.batches, new) \in Seq(SUBSET Item) BY <1>4 DEF Worlds, Effects
<1> HIDE DEF over, new
<1>6. /\ inbox \in Worlds /\ inbox.cmds = w.cmds /\ inbox.db.local = w.db.local
      /\ inbox.db.bound = w.db.bound /\ inbox.db.joined = w.db.joined
      /\ inbox.db.linked = w.db.linked
  BY <1>1, <1>4, Zenon DEF Worlds, Database
<1>7. hold \in Worlds /\ hold.db = w.db /\ hold.cmds = w.cmds BY <1>1, Zenon DEF Worlds, Core
<1>8. batch \in Worlds /\ batch.db = w.db /\ batch.cmds = w.cmds
  BY <1>1, <1>3, <1>5, Zenon DEF Worlds, Core, Effects
<1> HIDE DEF inbox, hold, batch
<1>9. /\ Fine(g, w, over) /\ Fine(g, w, inbox) /\ Fine(g, w, hold) /\ Fine(g, w, batch)
  BY <1>1, <1>6, <1>7, <1>8, FineQuiet
<1> QED BY <1>2, <1>9

LEMMA FineState ==
  ASSUME NEW g \in Grants, NEW w \in Worlds, NEW p \in Position
  PROVE  Fine(g, w, Pump(OnState(w, p)))
<1> DEFINE v == [w EXCEPT !.core.fetching = FALSE, !.core.pending = p]
<1>1. v \in Worlds /\ v.db = w.db /\ v.cmds = w.cmds BY Zenon DEF Worlds, Core
<1>2. OnState(w, p) = FlushState(v) BY Zenon DEF OnState
<1> HIDE DEF v
<1>3. Fine(g, w, v) BY <1>1, FineQuiet
<1> QED BY <1>1, <1>2, <1>3, FineFlushPump

LEMMA FineComplete ==
  ASSUME NEW g \in Grants, NEW w \in Worlds PROVE Fine(g, w, Pump(OnFetchComplete(w)))
<1> DEFINE v == [w EXCEPT !.core.fetching = FALSE, !.core.completed = TRUE]
<1>1. v \in Worlds /\ v.db = w.db /\ v.cmds = w.cmds BY Zenon DEF Worlds, Core
<1>2. OnFetchComplete(w) = FlushState(v) BY Zenon DEF OnFetchComplete
<1> HIDE DEF v
<1>3. Fine(g, w, v) BY <1>1, FineQuiet
<1> QED BY <1>1, <1>2, <1>3, FineFlushPump

LEMMA FineApplied ==
  ASSUME NEW g \in Grants, NEW w \in Worlds PROVE Fine(g, w, RemoteApplied(w))
<1> DEFINE n == IF w.core.unapplied = 0 THEN 0 ELSE w.core.unapplied - 1
           v == [w EXCEPT !.core.unapplied = n]
<1>1. n \in Nat BY DEF Worlds, Core
<1>2. RemoteApplied(w) = Pump(FlushState(v)) BY Zenon DEF RemoteApplied
<1> HIDE DEF n
<1>3. v \in Worlds /\ v.db = w.db /\ v.cmds = w.cmds BY <1>1, Zenon DEF Worlds, Core
<1> HIDE DEF v
<1>4. Fine(g, w, v) BY <1>3, FineQuiet
<1> QED BY <1>2, <1>3, <1>4, FineFlushPump

LEMMA FineSent ==
  ASSUME NEW g \in Grants, NEW w \in Worlds, NEW items \in SUBSET Item
  PROVE  Fine(g, w, OnSent(w, items))
<1> DEFINE known == w.db.linked \cup IF w.db.joined THEN items \cap w.core.inflight ELSE {}
           rest == w.core.inflight \ items
           v == [w EXCEPT !.db.linked = known, !.core.inflight = rest]
<1>1. known \in SUBSET Item /\ w.db.linked \subseteq known /\ rest \in SUBSET Item
  BY DEF Worlds, Database, Core
<1>2. OnSent(w, items) = v BY Zenon DEF OnSent
<1> HIDE DEF known, rest
<1>3. /\ v \in Worlds /\ v.cmds = w.cmds /\ v.db.local = w.db.local
      /\ v.db.bound = w.db.bound /\ v.db.joined = w.db.joined
      /\ w.db.linked \subseteq v.db.linked
  BY <1>1, Zenon DEF Worlds, Core, Database
<1> HIDE DEF v
<1> QED BY <1>2, <1>3, FineQuiet

LEMMA FineError ==
  ASSUME NEW g \in Grants, NEW w \in Worlds, NEW refused \in BOOLEAN
  PROVE  Fine(g, w, OnError(w, refused))
<1> DEFINE v == OnError(w, refused)
<1>1. v \in Worlds /\ v.db = w.db /\ v.cmds = w.cmds
  BY Zenon DEF OnError, Worlds, Core
<1> HIDE DEF v
<1>2. Fine(g, w, v) BY <1>1, FineQuiet
<1> QED BY <1>2 DEF v

LEMMA FineSendFailed ==
  ASSUME NEW g \in Grants, NEW w \in Worlds PROVE Fine(g, w, OnSendFailed(w))
<1> DEFINE e == OnError(w, FALSE)
           v == [e EXCEPT !.core.inflight = {}]
<1>1. Fine(g, w, e) BY FineError
<1>2. e \in Worlds BY <1>1 DEF Fine
<1> HIDE DEF e
<1>3. v \in Worlds /\ v.db = e.db /\ v.cmds = e.cmds BY <1>2, Zenon DEF Worlds, Core
<1>4. Fine(g, e, v) BY <1>2, <1>3, FineQuiet
<1>5. OnSendFailed(w) = v BY Zenon DEF OnSendFailed, e
<1> QED BY <1>1, <1>4, <1>5, FineChain

LEMMA FineZoneDeleted ==
  ASSUME NEW g \in Grants, NEW w \in Worlds PROVE Fine(g, w, OnZoneDeleted(w))
<1> DEFINE v == [w EXCEPT !.core.deleting = "confirmed"]
<1>1. v \in Worlds /\ v.db = w.db /\ v.cmds = w.cmds BY Zenon DEF Worlds, Core
<1>2. OnZoneDeleted(w) = v \/ OnZoneDeleted(w) = w BY Zenon DEF OnZoneDeleted
<1> HIDE DEF v
<1> QED BY <1>1, <1>2, FineQuiet, FineSame

LEMMA FineClearPause ==
  ASSUME NEW g \in Grants, NEW w \in Worlds PROVE Fine(g, w, [w EXCEPT !.core.paused = FALSE])
<1> DEFINE v == [w EXCEPT !.core.paused = FALSE]
<1>1. v \in Worlds /\ v.db = w.db /\ v.cmds = w.cmds BY Zenon DEF Worlds, Core
<1> HIDE DEF v
<1>2. Fine(g, w, v) BY <1>1, FineQuiet
<1> QED BY <1>2 DEF v

LEMMA FineDelete ==
  ASSUME NEW g \in Grants, NEW w \in Worlds PROVE Fine(g, w, DeleteCloudData(w))
<1>1. CASE w.core.started /\ BoundAccount(w)
  <2> DEFINE v == [w EXCEPT !.core.deleting = "requested"]
             c == [type |-> "delete", for |-> w.core.account]
  <2>1. v \in Worlds /\ v.db = w.db /\ v.cmds = w.cmds BY Zenon DEF Worlds, Core
  <2>2. w.core.account \in Account BY <1>1 DEF BoundAccount
  <2>3. c \in Command /\ c.type # "stage" BY <2>2 DEF Command
  <2>4. DeleteCloudData(w) = Sends(v, c) BY <1>1, Zenon DEF DeleteCloudData
  <2> HIDE DEF v, c
  <2>5. Fine(g, v, Sends(v, c)) BY <2>1, <2>3, FineSendsOther
  <2>6. Fine(g, w, v) BY <2>1, FineQuiet
  <2> QED BY <2>1, <2>4, <2>5, <2>6, FineChain
<1>2. CASE ~(w.core.started /\ BoundAccount(w))
  BY <1>2, FineSame DEF DeleteCloudData
<1> QED BY <1>1, <1>2
-----------------------------------------------------------------------------
(*                             The worker                                  *)

Staged ==
  /\ bridge.staged # {} => signedIn \in Account /\ bridge.staged \subseteq user.agreed[signedIn]
  /\ ~bridge.running => bridge.staged = {}

Safe == /\ cmds \in Seq(Sound(user.agreed)) /\ Owed(db, user.agreed)
        /\ Staged /\ NoCrossing

LEMMA PhaseType == ASSUME NEW w PROVE Phase(w) \in Phases
BY Zenon DEF Phase, Phases

LEMMA WorldType == ASSUME Types PROVE World \in Worlds /\ user.agreed \in Grants
BY Zenon DEF Types, World, Worlds, Hosts, Users

(* A message handled by a step of the core.                                *)
LEMMA Becoming ==
  ASSUME Types, NEW v, Fine(user.agreed, World, v), Becomes(v),
         mail' \in Seq(Event), user' = user, left' \in Bounds
  PROVE  Types' /\ (Safe => Safe')
<1>1. v \in Worlds BY DEF Fine
<1>2. /\ v.db \in Database /\ v.core \in Core /\ v.cmds \in Seq(Command)
      /\ v.effects \in Effects
  BY <1>1, Zenon DEF Worlds
<1>3. host' \in Hosts
  <2>1. Phase(v) \in Phases BY PhaseType
  <2>2. host' = [host EXCEPT !.effects = v.effects, !.phase = Phase(v),
                             !.deleted = v.core.deleting = "confirmed"]
    BY DEF Becomes
  <2>3. host \in Hosts BY DEF Types
  <2>4. (v.core.deleting = "confirmed") \in BOOLEAN OBVIOUS
  <2> QED BY <1>2, <2>1, <2>2, <2>3, <2>4, Zenon DEF Hosts
<1>4. /\ db' = v.db /\ core' = v.core /\ cmds' = v.cmds
      /\ bridge' = bridge /\ signedIn' = signedIn /\ cloud' = cloud
  BY DEF Becomes
<1>5. Types' BY <1>2, <1>3, <1>4 DEF Types
<1>6. World.db = db /\ World.cmds = cmds BY DEF World
<1>7. ASSUME Safe PROVE Safe'
  <2>1. v.cmds \in Seq(Sound(user.agreed)) BY <1>6, <1>7 DEF Safe, Fine
  <2>2. Owed(v.db, user.agreed) BY <1>6, <1>7 DEF Safe, Fine, Owed
  <2>3. Staged' /\ NoCrossing' BY <1>4, <1>7 DEF Safe, Staged, NoCrossing
  <2> QED BY <1>4, <2>1, <2>2, <2>3 DEF Safe
<1> QED BY <1>5, <1>7

LEMMA MailTail ==
  ASSUME Types, NEW type, Takes(type)
  PROVE  mail' \in Seq(Event) /\ Head(mail) \in Event /\ Head(mail).type = type
BY DEF Types, Takes

LEMMA EventFields ==
  ASSUME NEW e \in Event
  PROVE  /\ e.type \in {"account", "change"} => e.account \in Account \cup {None}
         /\ e.type \in {"fetched", "sent"} => e.items \in SUBSET Item
         /\ e.type = "state" => e.at \in Position
         /\ e.type = "error" => e.refused \in BOOLEAN
BY DEF Event

(* Every handler keeps types and safety.                                   *)
LEMMA Handling ==
  ASSUME Types, Handles PROVE Types' /\ (Safe => Safe')
<1> DEFINE g == user.agreed
           m == Head(mail)
<1>0. World \in Worlds /\ g \in Grants /\ left \in Bounds BY WorldType DEF Types
<1>1. CASE HandleStart
  <2>1. Fine(g, World, Start(World)) BY <1>0, FineStart
  <2> QED BY <1>0, <1>1, <2>1, MailTail, Becoming DEF HandleStart
<1>2. CASE HandleStop
  <2>1. Fine(g, World, Stop(World)) BY <1>0, FineStop
  <2> QED BY <1>0, <1>2, <2>1, MailTail, Becoming DEF HandleStop
<1>3. CASE HandleRestart
  <2>1. Fine(g, World, Stop(World)) BY <1>0, FineStop
  <2>2. Stop(World) \in Worlds BY <2>1 DEF Fine
  <2>3. Fine(g, Stop(World), Start(Stop(World))) BY <1>0, <2>2, FineStart
  <2>4. Fine(g, World, Start(Stop(World))) BY <1>0, <2>1, <2>2, <2>3, FineChain
  <2> QED BY <1>0, <1>3, <2>4, MailTail, Becoming DEF HandleRestart
<1>4. CASE HandleClearPause
  <2>1. Fine(g, World, [World EXCEPT !.core.paused = FALSE]) BY <1>0, FineClearPause
  <2> QED BY <1>0, <1>4, <2>1, MailTail, Becoming DEF HandleClearPause
<1>5. CASE HandleTick
  <2>1. Fine(g, World, Pump(World)) BY <1>0, FinePump
  <2> QED BY <1>0, <1>5, <2>1, MailTail, Becoming DEF HandleTick
<1>6. CASE HandleApplied
  <2>1. Fine(g, World, RemoteApplied(World)) BY <1>0, FineApplied
  <2> QED BY <1>0, <1>6, <2>1, MailTail, Becoming DEF HandleApplied
<1>7. CASE HandleDelete
  <2>1. Fine(g, World, DeleteCloudData(World)) BY <1>0, FineDelete
  <2> QED BY <1>0, <1>7, <2>1, MailTail, Becoming DEF HandleDelete
<1>8. CASE HandleAccount
  <2>1. m.account \in Account \cup {None} BY <1>8, MailTail, EventFields DEF HandleAccount
  <2>2. Fine(g, World, OnAccount(World, m.account)) BY <1>0, <2>1, FineAccount
  <2>3. Fine(g, World, Pump(OnAccount(World, m.account))) BY <1>0, <2>2, FineThenPump
  <2> QED BY <1>0, <1>8, <2>3, MailTail, Becoming DEF HandleAccount
<1>9. CASE HandleChange
  <2>1. m.account \in Account \cup {None} BY <1>9, MailTail, EventFields DEF HandleChange
  <2>2. Fine(g, World, OnAccountChange(World, m.account)) BY <1>0, <2>1, FineAccountChange
  <2>3. Fine(g, World, Pump(OnAccountChange(World, m.account))) BY <1>0, <2>2, FineThenPump
  <2> QED BY <1>0, <1>9, <2>3, MailTail, Becoming DEF HandleChange
<1>10. CASE HandleFetched
  <2>1. m.items \in SUBSET Item BY <1>10, MailTail, EventFields DEF HandleFetched
  <2>2. PICK kept \in BOOLEAN : Becomes(Pump(OnFetched(World, m.items, kept)))
    BY <1>10 DEF HandleFetched
  <2>3. left' \in Bounds
    <3>1. left' = left \/ Trouble BY <1>10 DEF HandleFetched
    <3>2. ASSUME Trouble PROVE left' \in Bounds
      <4>1. left.troubles - 1 \in Nat BY <1>0, <3>2 DEF Trouble, Bounds
      <4> QED BY <1>0, <3>2, <4>1, Zenon DEF Trouble, Bounds
    <3> QED BY <1>0, <3>1, <3>2
  <2>4. Fine(g, World, OnFetched(World, m.items, kept)) BY <1>0, <2>1, FineFetched
  <2>5. Fine(g, World, Pump(OnFetched(World, m.items, kept))) BY <1>0, <2>4, FineThenPump
  <2> QED BY <1>10, <2>2, <2>3, <2>5, MailTail, Becoming DEF HandleFetched
<1>11. CASE HandleState
  <2>1. m.at \in Position BY <1>11, MailTail, EventFields DEF HandleState
  <2>2. Fine(g, World, Pump(OnState(World, m.at))) BY <1>0, <2>1, FineState
  <2> QED BY <1>0, <1>11, <2>2, MailTail, Becoming DEF HandleState
<1>12. CASE HandleComplete
  <2>1. Fine(g, World, Pump(OnFetchComplete(World))) BY <1>0, FineComplete
  <2> QED BY <1>0, <1>12, <2>1, MailTail, Becoming DEF HandleComplete
<1>13. CASE HandleSent
  <2>1. m.items \in SUBSET Item BY <1>13, MailTail, EventFields DEF HandleSent
  <2>2. Fine(g, World, OnSent(World, m.items)) BY <1>0, <2>1, FineSent
  <2>3. Fine(g, World, Pump(OnSent(World, m.items))) BY <1>0, <2>2, FineThenPump
  <2> QED BY <1>0, <1>13, <2>3, MailTail, Becoming DEF HandleSent
<1>14. CASE HandleError
  <2>1. m.refused \in BOOLEAN BY <1>14, MailTail, EventFields DEF HandleError
  <2>2. Fine(g, World, OnError(World, m.refused)) BY <1>0, <2>1, FineError
  <2>3. Fine(g, World, Pump(OnError(World, m.refused))) BY <1>0, <2>2, FineThenPump
  <2> QED BY <1>0, <1>14, <2>3, MailTail, Becoming DEF HandleError
<1>15. CASE HandleSendFailed
  <2>1. Fine(g, World, OnSendFailed(World)) BY <1>0, FineSendFailed
  <2> QED BY <1>0, <1>15, <2>1, MailTail, Becoming DEF HandleSendFailed
<1>16. CASE HandleZoneDeleted
  <2>1. Fine(g, World, OnZoneDeleted(World)) BY <1>0, FineZoneDeleted
  <2>2. Fine(g, World, Pump(OnZoneDeleted(World))) BY <1>0, <2>1, FineThenPump
  <2> QED BY <1>0, <1>16, <2>2, MailTail, Becoming DEF HandleZoneDeleted
<1> QED BY <1>1, <1>2, <1>3, <1>4, <1>5, <1>6, <1>7, <1>8, <1>9, <1>10, <1>11, <1>12,
           <1>13, <1>14, <1>15, <1>16 DEF Handles

LEMMA Timing ==
  ASSUME Types, Ticks \/ Polls PROVE Types' /\ (Safe => Safe')
<1>1. /\ World \in Worlds /\ user.agreed \in Grants /\ left \in Bounds /\ mail \in Seq(Event)
  BY WorldType DEF Types
<1>2. Fine(user.agreed, World, Pump(World)) /\ Fine(user.agreed, World, StartFetch(World))
  BY <1>1, FinePump, FineStartFetch
<1> QED BY <1>1, <1>2, Becoming DEF Ticks, Polls

-----------------------------------------------------------------------------
(*                           The app thread                                *)

LEMMA KindChain ==
  ASSUME NEW v, NEW u, NEW w, v.user.agreed \in Grants, u.user.agreed \in Grants,
         w.user.agreed \in Grants, Kind(v, u), Kind(u, w)
  PROVE  Kind(v, w)
BY DEF Kind, Grows, Grants

(* A note of what came out of turn leaves everything else alone.           *)
LEMMA Noting ==
  ASSUME NEW u \in Users, NEW late \in SUBSET {"data", "deletion"}
  PROVE  /\ Noted(u, late) \in Users /\ Noted(u, late).agreed = u.agreed
         /\ Noted(u, late).asked = u.asked /\ Noted(u, late).declined = u.declined
         /\ Noted(u, late).late = u.late \cup late
<1> DEFINE all == u.late \cup late
<1>1. all \in SUBSET {"data", "deletion"} BY DEF Users
<1> HIDE DEF all
<1>2. LET n == [u EXCEPT !.late = all]
      IN  /\ n \in Users /\ n.agreed = u.agreed /\ n.asked = u.asked
          /\ n.declined = u.declined /\ n.late = all
  BY <1>1, Zenon DEF Users
<1>3. Noted(u, late) = [u EXCEPT !.late = all] BY DEF Noted, all
<1> QED BY <1>2, <1>3 DEF all

LEMMA OutOfTurnType == \A c, bound : OutOfTurn(c, bound) \in SUBSET {"data", "deletion"}
BY DEF OutOfTurn

LEMMA AppGrants == ASSUME NEW v \in Apps PROVE v.user.agreed \in Grants
BY DEF Apps, Users

(* Steps of the app thread that leave what was agreed alone.               *)
LEMMA KindQuiet ==
  ASSUME NEW v \in Apps, NEW u \in Apps, u.user.agreed = v.user.agreed,
         u.user.asked = v.user.asked, u.user.late = v.user.late, u.host.choice = v.host.choice,
         Has(u.mail, "delete") => Has(v.mail, "delete"),
         Owed(v.db, v.user.agreed) => Owed(u.db, v.user.agreed)
  PROVE  Kind(v, u)
BY AppGrants DEF Kind, Grows, Grants

LEMMA KindSame == ASSUME NEW v \in Apps PROVE Kind(v, v)
BY KindQuiet

Messages == {"start", "stop", "restart", "clear_pause", "tick", "applied", "delete"}

(* Telling the worker one thing more.                                      *)
LEMMA TellType ==
  ASSUME NEW u \in Apps, NEW type \in Messages
  PROVE  /\ Tell(u, type) \in Apps /\ Tell(u, type).db = u.db /\ Tell(u, type).user = u.user
         /\ Tell(u, type).host = u.host
         /\ type # "delete" /\ Has(Tell(u, type).mail, "delete") => Has(u.mail, "delete")
<1> DEFINE w == Tell(u, type)
           e == [type |-> type]
           q == Append(u.mail, e)
<1>1. e \in Event /\ e.type = type BY DEF Event, Messages
<1>2. u.mail \in Seq(Event) BY DEF Apps
<1>3. w = [u EXCEPT !.mail = q] BY DEF Tell
<1> HIDE DEF e
<1>4. q \in Seq(Event) /\ (type # "delete" /\ Has(q, "delete") => Has(u.mail, "delete"))
  BY <1>1, <1>2 DEF Has
<1> HIDE DEF q, w
<1>5. w \in Apps /\ w.db = u.db /\ w.user = u.user /\ w.host = u.host /\ w.mail = q
  BY <1>3, <1>4, Zenon DEF Apps
<1> QED BY <1>4, <1>5 DEF w

LEMMA KindTell ==
  ASSUME NEW v \in Apps, NEW u \in Apps, Kind(v, u), NEW type \in Messages \ {"delete"}
  PROVE  Tell(u, type) \in Apps /\ Kind(v, Tell(u, type))
<1> DEFINE w == Tell(u, type)
<1>1. /\ w \in Apps /\ w.db = u.db /\ w.user = u.user /\ w.host = u.host
      /\ Has(w.mail, "delete") => Has(u.mail, "delete")
  BY TellType
<1> HIDE DEF w
<1>2. Kind(v, w) BY <1>1 DEF Kind
<1> QED BY <1>1, <1>2 DEF w

(* The database after the operations that take the binding away.           *)
LEMMA ForgetType ==
  ASSUME NEW d \in Database, NEW a \in Account \cup {None}
  PROVE  /\ Bind(d, a) \in Database /\ ~Bind(d, a).joined
         /\ ResetSyncData(d) \in Database
         /\ Unbind(d) \in Database /\ ~Unbind(d).joined /\ Unbind(d).bound = None
<1>1. \A e \in Database, b \in Account \cup {None} :
        Bind(e, b) \in Database /\ ~Bind(e, b).joined /\ Bind(e, b).bound = b
  BY Zenon DEF Bind, Forget, Database
<1>2. \A e \in Database :
        /\ ResetSyncData(e) \in Database /\ ResetSyncData(e).joined = e.joined
        /\ ResetSyncData(e).bound = e.bound
  BY Zenon DEF ResetSyncData, Database
<1> DEFINE e == [Bind(d, None) EXCEPT !.enabled = FALSE]
<1>3. e \in Database /\ ~e.joined /\ e.bound = None
  <2>1. Bind(d, None) \in Database /\ ~Bind(d, None).joined /\ Bind(d, None).bound = None
    BY <1>1
  <2> QED BY <2>1, Zenon DEF Database
<1>4. Unbind(d) = ResetSyncData(e) BY Zenon DEF Unbind
<1> HIDE DEF e
<1> QED BY <1>1, <1>2, <1>3, <1>4

(* A database that is not joined owes nothing.                             *)
LEMMA KindUnjoined ==
  ASSUME NEW v \in Apps, NEW d \in Database, ~d.joined,
         NEW h \in Hosts, h.choice = v.host.choice
  PROVE  LET u == [v EXCEPT !.db = d, !.host = h]
         IN  u \in Apps /\ Kind(v, u) /\ Kind(v, NotDeclined(u)) /\ NotDeclined(u) \in Apps
<1> DEFINE u == [v EXCEPT !.db = d, !.host = h]
           w == [u EXCEPT !.user.declined = {}]
<1>1. u \in Apps /\ u.db = d /\ u.user = v.user /\ u.mail = v.mail /\ u.host = h
  BY Zenon DEF Apps
<1> HIDE DEF u
<1>2. /\ w \in Apps /\ w.db = d /\ w.user.agreed = v.user.agreed /\ w.mail = v.mail
      /\ w.host = h
      /\ w.user.asked = v.user.asked /\ w.user.late = v.user.late
  BY <1>1, Zenon DEF Apps, Users
<1>3. NotDeclined(u) = w BY Zenon DEF NotDeclined
<1> HIDE DEF w
<1>4. Kind(v, u) /\ Kind(v, w) BY <1>1, <1>2, KindQuiet DEF Owed
<1> QED BY <1>1, <1>2, <1>3, <1>4 DEF u

LEMMA KindEnable ==
  ASSUME NEW v \in Apps PROVE Kind(v, Enable(v)) /\ Kind(v, Disable(v))
<1>1. \A on \in BOOLEAN : LET u == [v EXCEPT !.db.enabled = on] IN
        u \in Apps /\ u.user = v.user /\ u.mail = v.mail /\ u.host = v.host
        /\ u.db.local = v.db.local /\ u.db.linked = v.db.linked
        /\ u.db.joined = v.db.joined /\ u.db.bound = v.db.bound
  BY Zenon DEF Apps, Database
<1>2. \A on \in BOOLEAN : Kind(v, [v EXCEPT !.db.enabled = on])
  BY <1>1, KindQuiet DEF Owed
<1>3. {"start", "stop"} \subseteq Messages \ {"delete"} BY DEF Messages
<1> QED BY <1>1, <1>2, <1>3, KindTell DEF Enable, Disable

LEMMA KindConfirm ==
  ASSUME NEW v \in Apps PROVE Kind(v, ConfirmAccount(v))
<1>1. CASE v.host.confirm = None BY <1>1, KindSame DEF ConfirmAccount
<1>2. CASE v.host.confirm # None
  <2> DEFINE d == Bind(v.db, v.host.confirm)
             h == [v.host EXCEPT !.confirm = None]
             u == [v EXCEPT !.db = d, !.host = h]
  <2>1. v.db \in Database /\ v.host \in Hosts BY DEF Apps
  <2>2. v.host.confirm \in Account \cup {None} /\ h \in Hosts /\ h.choice = v.host.choice
    BY <2>1, Zenon DEF Hosts
  <2>3. d \in Database /\ ~d.joined BY <2>1, <2>2, ForgetType
  <2>4. ConfirmAccount(v) = Tell(NotDeclined(u), "restart")
    BY <1>2, Zenon DEF ConfirmAccount
  <2> HIDE DEF d, h
  <2>5. NotDeclined(u) \in Apps /\ Kind(v, NotDeclined(u)) BY <2>2, <2>3, KindUnjoined
  <2> QED BY <2>4, <2>5, KindTell DEF Messages
<1> QED BY <1>1, <1>2

LEMMA KindResolve ==
  ASSUME NEW v \in Apps, NEW c \in {"keep", "use", "merge"}
  PROVE  Kind(v, ResolveAccount(v, c))
<1>1. CASE v.host.mismatch = None BY <1>1, KindSame DEF ResolveAccount
<1>2. CASE v.host.mismatch # None
  <2> DEFINE a == v.host.mismatch
             h == [v.host EXCEPT !.mismatch = None]
             answered == NotDeclined([v EXCEPT !.host.mismatch = None])
             moved == Bind(ResetSyncData(v.db), a)
             bare == [moved EXCEPT !.local = {}]
  <2>1. v.db \in Database /\ v.host \in Hosts BY DEF Apps
  <2>2. a \in Account \cup {None} /\ h \in Hosts /\ h.choice = v.host.choice
    BY <2>1, Zenon DEF Hosts
  <2>3. moved \in Database /\ ~moved.joined BY <2>1, <2>2, ForgetType
  <2>4. bare \in Database /\ ~bare.joined
    <3> HIDE DEF moved
    <3> QED BY <2>3, Zenon DEF Database
  <2>5. Unbind(v.db) \in Database /\ ~Unbind(v.db).joined BY <2>1, <2>2, ForgetType
  <2>6. \A d \in Database :
          [answered EXCEPT !.db = d] = NotDeclined([v EXCEPT !.db = d, !.host = h])
    BY Zenon DEF NotDeclined, Apps
  <2>7. ASSUME NEW d \in Database, ~d.joined
        PROVE  [answered EXCEPT !.db = d] \in Apps /\ Kind(v, [answered EXCEPT !.db = d])
    <3> HIDE DEF answered, h
    <3>1. [answered EXCEPT !.db = d] = NotDeclined([v EXCEPT !.db = d, !.host = h]) BY <2>6
    <3> DEFINE w == NotDeclined([v EXCEPT !.db = d, !.host = h])
    <3>2. w \in Apps /\ Kind(v, w) BY <2>2, <2>7, KindUnjoined
    <3> HIDE DEF w
    <3>3. [answered EXCEPT !.db = d] = w BY <3>1, Zenon DEF w
    <3> QED BY <3>2, <3>3, Zenon
  <2>8. ResolveAccount(v, c) \in
          {Tell([answered EXCEPT !.db = Unbind(v.db)], "stop"),
           Tell(Tell([answered EXCEPT !.db = bare], "clear_pause"), "restart"),
           Tell(Tell([answered EXCEPT !.db = moved], "clear_pause"), "restart")}
    BY <1>2, Zenon DEF ResolveAccount
  <2> HIDE DEF answered, moved, bare
  <2>9. {"stop", "clear_pause", "restart"} \subseteq Messages \ {"delete"} BY DEF Messages
  <2> QED BY <2>3, <2>4, <2>5, <2>7, <2>8, <2>9, KindTell
<1> QED BY <1>1, <1>2

(* What is agreed grows.                                                   *)
LEMMA AgreedGrows ==
  ASSUME NEW u \in Users, NEW a, NEW S \in SUBSET Item
  PROVE  /\ Agreed(u, a, S) \in Users /\ Grows(u.agreed, Agreed(u, a, S).agreed)
         /\ Agreed(u, a, S).asked = u.asked /\ Agreed(u, a, S).late = u.late
         /\ a \in Account => Agreed(u, a, S).agreed[a] = u.agreed[a] \cup S
<1> DEFINE g == [b \in Account |-> u.agreed[b] \cup IF b = a THEN S ELSE {}]
<1>1. u.agreed \in Grants BY DEF Users
<1>2. g \in Grants /\ Grows(u.agreed, g) /\ (a \in Account => g[a] = u.agreed[a] \cup S)
  BY <1>1 DEF Grants, Grows
<1>3. Agreed(u, a, S) = [u EXCEPT !.agreed = g] BY DEF Agreed
<1> HIDE DEF g
<1>4. LET n == [u EXCEPT !.agreed = g]
      IN  n \in Users /\ n.agreed = g /\ n.asked = u.asked /\ n.late = u.late
  BY <1>2, Zenon DEF Users
<1> QED BY <1>2, <1>3, <1>4

LEMMA KindJoin ==
  ASSUME NEW v \in Apps, NEW useCloud \in BOOLEAN
  PROVE  Kind(v, Join(v, useCloud))
<1> DEFINE here == v.db.inbox \cup IF useCloud THEN {} ELSE v.db.local
           known == v.db.linked \cup v.db.inbox
           d == [v.db EXCEPT !.local = here, !.linked = known, !.inbox = {}, !.joined = TRUE]
           z == Agreed(v.user, v.db.bound, here)
           u == [v EXCEPT !.db = d, !.user = z]
<1>1. v.db \in Database /\ v.user \in Users BY DEF Apps
<1>2. here \in SUBSET Item /\ known \in SUBSET Item BY <1>1 DEF Database
<1>3. Join(v, useCloud) = Tell(u, "tick") BY Zenon DEF Join
<1> HIDE DEF here, known
<1>4. /\ z \in Users /\ Grows(v.user.agreed, z.agreed)
      /\ z.asked = v.user.asked /\ z.late = v.user.late
      /\ v.db.bound \in Account => here \subseteq z.agreed[v.db.bound]
  BY <1>1, <1>2, AgreedGrows
<1> HIDE DEF z
<1>5. d \in Database /\ d.local = here /\ d.bound = v.db.bound
  BY <1>1, <1>2, Zenon DEF Database
<1> HIDE DEF d
<1>6. u \in Apps /\ u.db = d /\ u.user = z /\ u.mail = v.mail /\ u.host = v.host
  BY <1>4, <1>5, Zenon DEF Apps
<1> HIDE DEF u
<1>7. Kind(v, u) BY <1>4, <1>5, <1>6 DEF Kind, Owed
<1> QED BY <1>3, <1>6, <1>7, KindTell DEF Messages

LEMMA KindDecline ==
  ASSUME NEW v \in Apps PROVE Kind(v, Decline(v))
<1> DEFINE d == [v.db EXCEPT !.inbox = {}, !.enabled = FALSE]
           s == v.user.declined \cup v.db.inbox
           u == [v EXCEPT !.db = d, !.user.declined = s]
<1>1. v.db \in Database /\ v.user \in Users BY DEF Apps
<1>2. s \in SUBSET Item BY <1>1 DEF Database, Users
<1>3. Decline(v) = Tell(u, "stop") BY Zenon DEF Decline
<1> HIDE DEF s
<1>4. /\ d \in Database /\ d.local = v.db.local /\ d.linked = v.db.linked
      /\ d.joined = v.db.joined /\ d.bound = v.db.bound
  BY <1>1, Zenon DEF Database
<1> HIDE DEF d
<1>5. /\ u \in Apps /\ u.db = d /\ u.user.agreed = v.user.agreed /\ u.mail = v.mail
      /\ u.host = v.host
      /\ u.user.asked = v.user.asked /\ u.user.late = v.user.late
  BY <1>2, <1>4, Zenon DEF Apps, Users
<1> HIDE DEF u
<1>6. Kind(v, u) BY <1>4, <1>5, KindQuiet DEF Owed
<1> QED BY <1>3, <1>5, <1>6, KindTell DEF Messages

(* Only one choice asks for a deletion.                                    *)
LEMMA KindRun ==
  ASSUME NEW v \in Apps, NEW c
  PROVE  /\ c # "delete" => Kind(v, Run(v, c))
         /\ c = "delete" => Run(v, c) = Tell(v, "delete")
<1>1. c # "delete" =>
        \/ Run(v, c) = Enable(v) \/ Run(v, c) = Disable(v) \/ Run(v, c) = ConfirmAccount(v)
        \/ c \in {"keep", "use", "merge"} /\ Run(v, c) = ResolveAccount(v, c)
        \/ Run(v, c) = Join(v, c = "cloud") \/ Run(v, c) = Decline(v) \/ Run(v, c) = v
  BY Zenon DEF Run
<1>2. c = "delete" => Run(v, c) = Tell(v, "delete") BY DEF Run
<1>3. (c = "cloud") \in BOOLEAN OBVIOUS
<1> QED BY <1>1, <1>2, <1>3, KindEnable, KindConfirm, KindResolve, KindJoin, KindDecline, KindSame

LEMMA AcksType ==
  ASSUME NEW T, NEW s \in Seq(T), NEW e \in Event
  PROVE  [i \in DOMAIN s |-> e] \in Seq(Event)
<1>1. DOMAIN s = 1 .. Len(s) /\ Len(s) \in Nat OBVIOUS
<1>2. [i \in 1 .. Len(s) |-> e] \in [1 .. Len(s) -> Event] OBVIOUS
<1> QED BY <1>1, <1>2, SeqDef

LEMMA KindTake ==
  ASSUME NEW v \in Apps
  PROVE  LET u == TakeEffects(v)
         IN  Kind(v, u) /\ u.host.effects = NoEffects /\ u.db.bound = v.db.bound
<1> DEFINE batches == v.host.effects.batches
           items == UNION {batches[i] : i \in DOMAIN batches}
           e == v.host.effects
           q1 == IF e.confirm = None THEN v.host.confirm ELSE e.confirm
           q2 == IF e.mismatch = None THEN v.host.mismatch ELSE e.mismatch
           h == [v.host EXCEPT !.effects = NoEffects, !.confirm = q1, !.mismatch = q2]
           d == [v.db EXCEPT !.local = v.db.local \cup items,
                             !.linked = v.db.linked \cup items]
           m == v.mail \o [i \in DOMAIN batches |-> [type |-> "applied"]]
           u == [v EXCEPT !.host = h, !.db = d, !.mail = m]
<1>1. v.db \in Database /\ v.host \in Hosts /\ v.mail \in Seq(Event) BY DEF Apps
<1>2. e \in Effects /\ batches \in Seq(SUBSET Item) BY <1>1, Zenon DEF Hosts, Effects
<1>3. items \in SUBSET Item
  <2>1. \A i \in DOMAIN batches : batches[i] \in SUBSET Item BY <1>2
  <2> QED BY <2>1, Zenon
<1>4. q1 \in Account \cup {None} /\ q2 \in Account \cup {None}
  BY <1>1, <1>2, Zenon DEF Hosts, Effects
<1>5. NoEffects \in Effects BY DEF NoEffects, Effects
<1>6. m \in Seq(Event) /\ (Has(m, "delete") => Has(v.mail, "delete"))
  <2> DEFINE told == [i \in DOMAIN batches |-> [type |-> "applied"]]
  <2>1. [type |-> "applied"] \in Event BY DEF Event
  <2>2. told \in Seq(Event) BY <1>2, <2>1, AcksType
  <2>3. \A i \in DOMAIN told : told[i].type = "applied" OBVIOUS
  <2>4. m = v.mail \o told OBVIOUS
  <2> HIDE DEF told, m
  <2> QED BY <1>1, <2>2, <2>3, <2>4 DEF Has
<1>7. TakeEffects(v) = u BY Zenon DEF TakeEffects
<1> HIDE DEF items, m, q1, q2
<1>8. h \in Hosts /\ h.choice = v.host.choice /\ h.effects = NoEffects
  BY <1>1, <1>4, <1>5, Zenon DEF Hosts
<1>9. v.db.local \cup items \in SUBSET Item /\ v.db.linked \cup items \in SUBSET Item
  BY <1>1, <1>3 DEF Database
<1>10. /\ d \in Database /\ d.local = v.db.local \cup items /\ d.linked = v.db.linked \cup items
       /\ d.joined = v.db.joined /\ d.bound = v.db.bound
  BY <1>1, <1>9, Zenon DEF Database
<1> HIDE DEF h, d
<1>11. u \in Apps /\ u.db = d /\ u.user = v.user /\ u.mail = m /\ u.host = h
  BY <1>6, <1>8, <1>10, Zenon DEF Apps
<1> HIDE DEF u
<1>12. Kind(v, u) BY <1>6, <1>8, <1>10, <1>11, KindQuiet DEF Owed
<1> QED BY <1>7, <1>8, <1>10, <1>11, <1>12

LEMMA KindFinish ==
  ASSUME NEW v \in Apps
  PROVE  LET u == FinishDeletion(v)
         IN  /\ Kind(v, u) /\ u.host.effects = v.host.effects
             /\ u.db.bound \in {v.db.bound, None}
<1>1. CASE ~v.host.deleted BY <1>1, KindSame DEF FinishDeletion
<1>2. CASE v.host.deleted
  <2> DEFINE h == [v.host EXCEPT !.deleted = FALSE]
             u == [v EXCEPT !.db = Unbind(v.db), !.host = h]
  <2>1. v.db \in Database /\ v.host \in Hosts BY DEF Apps
  <2>2. h \in Hosts /\ h.choice = v.host.choice /\ h.effects = v.host.effects
    BY <2>1, Zenon DEF Hosts
  <2>3. Unbind(v.db) \in Database /\ ~Unbind(v.db).joined /\ Unbind(v.db).bound = None
    BY <2>1, ForgetType
  <2>4. FinishDeletion(v) = Tell(u, "stop") BY <1>2, Zenon DEF FinishDeletion
  <2> HIDE DEF h
  <2>5. u \in Apps /\ Kind(v, u) BY <2>2, <2>3, KindUnjoined
  <2>6. u.host = h /\ u.db = Unbind(v.db) BY Zenon DEF Apps
  <2> HIDE DEF u
  <2>7. "stop" \in Messages \ {"delete"} BY DEF Messages
  <2>8. Tell(u, "stop").host = u.host /\ Tell(u, "stop").db = u.db BY <2>5, <2>7, TellType
  <2> QED BY <2>2, <2>3, <2>4, <2>5, <2>6, <2>7, <2>8, KindTell
<1> QED BY <1>1, <1>2

(* What was sound stays sound when more is agreed.                         *)
LEMMA SoundGrows ==
  ASSUME NEW g \in Grants, NEW h \in Grants, Grows(g, h), cmds \in Seq(Command),
         cmds \in Seq(Sound(g))
  PROVE  cmds \in Seq(Sound(h))
<1>1. Sound(g) \subseteq Sound(h)
  <2> SUFFICES ASSUME NEW c \in Sound(g), c.type = "stage" PROVE c.items \subseteq h[c.for]
    BY DEF Sound
  <2>1. c.for \in Account BY DEF Sound, Command
  <2> QED BY <2>1 DEF Sound, Grows
<1> QED BY <1>1

(* What matters of a step that leaves the commands, the bridge, the        *)
(* account and the zones alone.                                            *)
LEMMA SafeGrows ==
  ASSUME Types, Safe, user' \in Users, Grows(user.agreed, user'.agreed),
         Owed(db', user'.agreed), UNCHANGED <<cmds, bridge, signedIn, cloud>>
  PROVE  Safe'
<1>1. user.agreed \in Grants /\ user'.agreed \in Grants /\ cmds \in Seq(Command)
  BY DEF Types, Users
<1>2. cmds \in Seq(Sound(user'.agreed)) BY <1>1, SoundGrows DEF Safe
<1>3. Staged' BY DEF Staged, Safe, Grows
<1>4. NoCrossing' BY DEF NoCrossing, Safe, Grows
<1> QED BY <1>2, <1>3, <1>4 DEF Safe

(* A tick; and what it does to the deletions asked for, and to the note of *)
(* what came out of turn.                                                  *)
LEMMA Ticking ==
  ASSUME Types, Tick
  PROVE  /\ Types' /\ (Safe => Safe')
         /\ user'.asked = user.asked
         /\ user'.late = user.late \cup OutOfTurn(host.choice, db'.bound)
         /\ Has(mail', "delete") => Has(mail, "delete") \/ host.choice = "delete"
         /\ host'.effects = NoEffects /\ host'.choice = None
         /\ host.choice = "delete" => db'.bound \in {db.bound, None}
<1> DEFINE begun == [App EXCEPT !.host.choice = None]
           asked == IF host.choice = "delete" THEN Tell(begun, "delete") ELSE begun
           r == Run(begun, host.choice)
           t == TakeEffects(r)
           v == FinishDeletion(t)
           late == OutOfTurn(host.choice, v.db.bound)
<1>1. App \in Apps /\ App.db = db /\ App.user = user /\ App.mail = mail
  BY Zenon DEF App, Apps, Types
<1>2. None \in Choices \cup {None} OBVIOUS
<1>3. /\ begun \in Apps /\ begun.db = db /\ begun.user = user /\ begun.mail = mail
      /\ begun.host.choice = None
  BY <1>1, <1>2, Zenon DEF Apps, Hosts
<1> HIDE DEF begun
<1>4. /\ asked \in Apps /\ asked.db = db /\ asked.user = user /\ asked.host.choice = None
      /\ Has(asked.mail, "delete") => Has(mail, "delete") \/ host.choice = "delete"
  <2>1. "delete" \in Messages BY DEF Messages
  <2> QED BY <1>3, <2>1, TellType
<1>5. r \in Apps /\ Kind(asked, r) /\ (host.choice = "delete" => r = asked)
  <2>1. CASE host.choice # "delete"
    <3>1. Kind(begun, r) BY <1>3, <2>1, KindRun
    <3> HIDE DEF r
    <3> QED BY <2>1, <3>1 DEF Kind
  <2>2. CASE host.choice = "delete"
    <3>1. r = asked BY <1>3, <2>2, KindRun
    <3> HIDE DEF r, asked
    <3> QED BY <1>4, <3>1, KindSame
  <2> QED BY <2>1, <2>2
<1> HIDE DEF r, asked
<1>6. Kind(r, t) /\ t.host.effects = NoEffects /\ t.db.bound = r.db.bound BY <1>5, KindTake
<1>7. t \in Apps BY <1>6 DEF Kind
<1> HIDE DEF t
<1>8. Kind(t, v) /\ v.host.effects = t.host.effects /\ v.db.bound \in {t.db.bound, None}
  BY <1>7, KindFinish
<1>9. v \in Apps BY <1>8 DEF Kind
<1>10. /\ db' = v.db /\ mail' = v.mail /\ user' = Noted(v.user, late)
       /\ host' = [v.host EXCEPT !.phase = IF v.db.enabled THEN v.host.phase ELSE "off"]
       /\ UNCHANGED <<core, cmds, bridge, signedIn, cloud, left>>
  BY Zenon DEF Tick, v, t, r, begun, late
<1> HIDE DEF v, late
<1>11. Kind(asked, v)
  <2>1. Kind(asked, t) BY <1>4, <1>5, <1>6, <1>7, AppGrants, KindChain
  <2> QED BY <1>4, <1>7, <1>8, <1>9, <2>1, AppGrants, KindChain
<1>12. host' \in Hosts /\ host'.effects = v.host.effects /\ host'.choice = v.host.choice
  <2>1. v.host \in Hosts BY <1>9 DEF Apps
  <2>2. (IF v.db.enabled THEN v.host.phase ELSE "off") \in Phases
    BY <2>1, Zenon DEF Hosts, Phases
  <2> QED BY <1>10, <2>1, <2>2, Zenon DEF Hosts
<1>13. /\ v.db \in Database /\ v.mail \in Seq(Event)
       /\ user' \in Users /\ user'.agreed = v.user.agreed
       /\ user'.asked = v.user.asked /\ user'.late = v.user.late \cup late
  <2>1. v.user \in Users /\ v.db \in Database /\ v.mail \in Seq(Event) BY <1>9 DEF Apps
  <2>2. late \in SUBSET {"data", "deletion"} BY OutOfTurnType DEF late
  <2> QED BY <1>10, <2>1, <2>2, Noting
<1>14. Types' BY <1>10, <1>12, <1>13 DEF Types
<1>15. ASSUME Safe PROVE Safe'
  <2>1. Grows(user.agreed, user'.agreed) /\ Owed(db', user'.agreed)
    BY <1>4, <1>10, <1>11, <1>13, <1>15 DEF Kind, Safe
  <2> QED BY <1>10, <1>13, <1>15, <2>1, SafeGrows
<1>16. v.user.asked = user.asked /\ v.user.late = user.late BY <1>4, <1>11 DEF Kind
<1>17. Has(mail', "delete") => Has(mail, "delete") \/ host.choice = "delete"
  BY <1>4, <1>10, <1>11 DEF Kind
<1>18. user'.late = user.late \cup OutOfTurn(host.choice, db'.bound)
  BY <1>10, <1>13, <1>16 DEF late
<1>19. host'.effects = NoEffects BY <1>6, <1>8, <1>12
<1>20. host'.choice = None BY <1>4, <1>11, <1>12 DEF Kind
<1>21. host.choice = "delete" => db'.bound \in {db.bound, None}
  BY <1>4, <1>5, <1>6, <1>8, <1>10
<1> QED BY <1>13, <1>14, <1>15, <1>16, <1>17, <1>18, <1>19, <1>20, <1>21

LEMMA Choosing ==
  ASSUME Types, NEW c \in Choices, Choose(c) PROVE Types' /\ (Safe => Safe')
<1>1. host' \in Hosts BY Zenon DEF Choose, Types, Hosts
<1>2. user' \in Users /\ user'.agreed = user.agreed
  <2> DEFINE s == user.asked \cup {db.bound}
             u == [user EXCEPT !.asked = s]
  <2>1. user \in Users /\ db \in Database BY DEF Types
  <2>2. s \in SUBSET (Account \cup {None}) BY <2>1 DEF Users, Database
  <2> HIDE DEF s
  <2>3. u \in Users /\ u.agreed = user.agreed BY <2>1, <2>2, Zenon DEF Users
  <2>4. user' = u \/ user' = user BY DEF Choose, s
  <2> QED BY <2>1, <2>3, <2>4
<1>3. left' \in Bounds
  <2>1. left \in Bounds /\ left.choices - 1 \in Nat BY DEF Choose, Types, Bounds
  <2>2. left' = [left EXCEPT !.choices = left.choices - 1] BY DEF Choose
  <2> QED BY <2>1, <2>2, Zenon DEF Bounds
<1>4. UNCHANGED <<db, core, mail, cmds, bridge, signedIn, cloud>> BY DEF Choose
<1>5. Types' BY <1>1, <1>2, <1>3, <1>4 DEF Types
<1>6. Grows(user.agreed, user'.agreed) BY <1>2 DEF Grows
<1>7. Safe => Owed(db', user'.agreed) BY <1>2, <1>4 DEF Safe
<1> QED BY <1>2, <1>4, <1>5, <1>6, <1>7, SafeGrows

LEMMA Creating ==
  ASSUME Types, NEW i \in Item, Create(i) PROVE Types' /\ (Safe => Safe')
<1>0. /\ db \in Database /\ user \in Users /\ left \in Bounds
      /\ UNCHANGED <<core, host, mail, cmds, bridge, signedIn, cloud>>
      /\ db' = [db EXCEPT !.local = db.local \cup {i}]
      /\ user' = IF db.joined THEN Agreed(user, db.bound, {i}) ELSE user
      /\ left' = [left EXCEPT !.fresh = left.fresh \ {i}]
  BY DEF Types, Create
<1>1. db.local \cup {i} \in SUBSET Item /\ left.fresh \ {i} \in SUBSET Item
  BY <1>0 DEF Database, Bounds
<1>2. /\ db' \in Database /\ db'.local = db.local \cup {i} /\ db'.linked = db.linked
      /\ db'.joined = db.joined /\ db'.bound = db.bound
  BY <1>0, <1>1, Zenon DEF Database
<1>3. left' \in Bounds BY <1>0, <1>1, Zenon DEF Bounds
<1>4. {i} \in SUBSET Item OBVIOUS
<1>5. /\ user' \in Users /\ Grows(user.agreed, user'.agreed)
      /\ db.joined /\ db.bound \in Account => i \in user'.agreed[db.bound]
  <2>1. CASE db.joined BY <1>0, <1>4, <2>1, AgreedGrows
  <2>2. CASE ~db.joined BY <1>0, <2>2 DEF Grows
  <2> QED BY <2>1, <2>2
<1>6. Types' BY <1>0, <1>2, <1>3, <1>5 DEF Types
<1>7. Safe => Owed(db', user'.agreed) BY <1>2, <1>5 DEF Safe, Owed, Grows
<1> QED BY <1>0, <1>5, <1>6, <1>7, SafeGrows

-----------------------------------------------------------------------------
(*                     The bridge and the accounts                         *)

LEMMA Emitting ==
  ASSUME Types, NEW events \in Seq(Event), Emit(events) PROVE mail' \in Seq(Event)
BY DEF Types, Emit

LEMMA OneEvent == \A e \in Event : <<e>> \in Seq(Event)
OBVIOUS

(* The events of the bridge.                                               *)
LEMMA BridgeEvents ==
  /\ \A a \in Account \cup {None} :
       /\ <<[type |-> "account", account |-> a]>> \in Seq(Event)
       /\ <<[type |-> "change", account |-> a]>> \in Seq(Event)
  /\ \A refused \in BOOLEAN : Failed(refused) \in Seq(Event)
  /\ \A S \in SUBSET Item :
       /\ <<[type |-> "sent", items |-> S]>> \in Seq(Event)
       /\ <<[type |-> "fetched", items |-> S]>> \in Seq(Event)
  /\ \A p \in Position :
       <<[type |-> "state", at |-> p], [type |-> "complete"]>> \in Seq(Event)
  /\ <<[type |-> "send_failed"]>> \in Seq(Event)
  /\ <<[type |-> "zone_deleted"]>> \in Seq(Event)
<1>1. \A a \in Account \cup {None} :
        [type |-> "account", account |-> a] \in Event /\ [type |-> "change", account |-> a] \in Event
  BY DEF Event
<1>2. \A refused \in BOOLEAN : [type |-> "error", refused |-> refused] \in Event BY DEF Event
<1>3. \A S \in SUBSET Item :
        [type |-> "sent", items |-> S] \in Event /\ [type |-> "fetched", items |-> S] \in Event
  BY DEF Event
<1>4. \A p \in Position : [type |-> "state", at |-> p] \in Event BY DEF Event
<1>5. [type |-> "complete"] \in Event /\ [type |-> "send_failed"] \in Event
      /\ [type |-> "zone_deleted"] \in Event
  BY DEF Event
<1>6. \A e, f \in Event : <<e, f>> \in Seq(Event) OBVIOUS
<1> QED BY <1>1, <1>2, <1>3, <1>4, <1>5, <1>6, OneEvent DEF Failed

LEMMA CommandTaken ==
  ASSUME Types, NEW type, Heads(type)
  PROVE  /\ cmds' \in Seq(Command) /\ Head(cmds) \in Command /\ Head(cmds).type = type
         /\ db' = db /\ core' = core /\ host' = host
         /\ Safe => Head(cmds) \in Sound(user.agreed) /\ cmds' \in Seq(Sound(user.agreed))
<1>1. cmds \in Seq(Command) /\ cmds # <<>> /\ cmds' = Tail(cmds) BY DEF Types, Heads
<1>2. cmds' \in Seq(Command) /\ Head(cmds) \in Command BY <1>1
<1>3. ASSUME Safe
      PROVE  Head(cmds) \in Sound(user.agreed) /\ cmds' \in Seq(Sound(user.agreed))
  BY <1>1, <1>3 DEF Safe
<1> QED BY <1>2, <1>3 DEF Heads

LEMMA CommandTail ==
  ASSUME Types, NEW type, Runs(type)
  PROVE  /\ cmds' \in Seq(Command) /\ Head(cmds) \in Command /\ Head(cmds).type = type
         /\ db' = db /\ core' = core /\ host' = host /\ user' = user
         /\ Safe => Head(cmds) \in Sound(user.agreed) /\ cmds' \in Seq(Sound(user.agreed))
BY CommandTaken DEF Runs

LEMMA CommandFields ==
  ASSUME NEW c \in Command
  PROVE  /\ c.type = "start" => c.at \in Position \cup {None}
         /\ c.type = "stage" => c.for \in Account /\ c.items \in SUBSET Item
BY DEF Command

(* What a command of the bridge has to keep.                               *)
LEMMA Taking ==
  ASSUME Types, NEW type, Heads(type), user' \in Users, user'.agreed = user.agreed,
         mail' \in Seq(Event), bridge' \in Bridges,
         signedIn' \in Account \cup {None}, cloud' \in Grants, left' \in Bounds,
         Interrupted = FALSE /\ Safe => Staged' /\ NoCrossing'
  PROVE  Types' /\ (Interrupted = FALSE /\ Safe => Safe')
<1>1. Types' BY CommandTaken DEF Types
<1>2. Safe => cmds' \in Seq(Sound(user.agreed)) BY CommandTaken
<1>3. db' = db BY CommandTaken
<1> QED BY <1>1, <1>2, <1>3 DEF Safe

LEMMA Running ==
  ASSUME Types, NEW type, Runs(type), mail' \in Seq(Event), bridge' \in Bridges,
         signedIn' \in Account \cup {None}, cloud' \in Grants, left' \in Bounds,
         Interrupted = FALSE /\ Safe => Staged' /\ NoCrossing'
  PROVE  Types' /\ (Interrupted = FALSE /\ Safe => Safe')
<1>1. Heads(type) /\ user' = user BY DEF Runs
<1>2. user \in Users BY DEF Types
<1> QED BY <1>1, <1>2, Taking

LEMMA Troubling == ASSUME Types, Trouble PROVE left' \in Bounds
<1>1. left \in Bounds /\ left.troubles - 1 \in Nat BY DEF Trouble, Types, Bounds
<1>2. left' = [left EXCEPT !.troubles = left.troubles - 1] BY DEF Trouble
<1> QED BY <1>1, <1>2, Zenon DEF Bounds

LEMMA Switching == 
  ASSUME Types, left.switches > 0, left' = [left EXCEPT !.switches = left.switches - 1]
  PROVE  left' \in Bounds
<1>1. left \in Bounds /\ left.switches - 1 \in Nat BY DEF Types, Bounds
<1> QED BY <1>1, Zenon DEF Bounds

LEMMA Staging ==
  ASSUME Types, BridgeStage PROVE Types' /\ (Interrupted = FALSE /\ Safe => Safe')
<1>0. Runs("stage") /\ cloud' = cloud BY DEF BridgeStage
<1>1. /\ bridge \in Bridges /\ signedIn \in Account \cup {None} /\ cloud \in Grants
      /\ left \in Bounds /\ mail \in Seq(Event)
  BY DEF Types
<1> DEFINE c == Head(cmds)
<1>2. c \in Command /\ c.type = "stage" /\ c.for \in Account /\ c.items \in SUBSET Item
  BY <1>0, CommandTail, CommandFields
<1>3. CASE ~bridge.running \/ c.for # signedIn
  <2>1. UNCHANGED <<bridge, signedIn, left>> BY <1>3 DEF BridgeStage
  <2>2. mail' \in Seq(Event)
    <3>1. Emit(Failed(TRUE)) \/ Nothing BY <1>3 DEF BridgeStage
    <3> QED BY <1>1, <3>1, BridgeEvents, Emitting DEF Nothing
  <2>3. Safe => Staged' /\ NoCrossing'
    BY <1>0, <2>1, CommandTail DEF Safe, Staged, NoCrossing
  <2> QED BY <1>0, <1>1, <2>1, <2>2, <2>3, Running
<1>4. CASE bridge.running /\ c.for = signedIn
  <2>1. PICK b \in {signedIn} \cup IF Interrupted /\ left.switches > 0 THEN Account ELSE {} :
          StageUnder(b)
    BY <1>4 DEF BridgeStage
  <2>2. CASE b = signedIn
    <3>1. /\ bridge' = [bridge EXCEPT !.staged = bridge.staged \cup c.items]
          /\ UNCHANGED <<mail, signedIn, left>>
      BY <2>1, <2>2 DEF StageUnder, Nothing
    <3>2. bridge.staged \cup c.items \in SUBSET Item BY <1>1, <1>2 DEF Bridges
    <3>3. /\ bridge' \in Bridges /\ bridge'.staged = bridge.staged \cup c.items
          /\ bridge'.running = bridge.running
      BY <1>1, <3>1, <3>2, Zenon DEF Bridges
    <3>4. ASSUME Safe PROVE Staged' /\ NoCrossing'
      <4>1. c.items \subseteq user.agreed[c.for]
        BY <1>0, <1>2, <3>4, CommandTail DEF Sound
      <4> QED BY <1>0, <1>2, <1>4, <3>1, <3>3, <3>4, <4>1, CommandTail
           DEF Safe, Staged, NoCrossing
    <3> QED BY <1>0, <1>1, <3>1, <3>3, <3>4, Running
  <2>3. CASE b # signedIn
    <3>1. /\ bridge' = [bridge EXCEPT !.at = None, !.staged = c.items]
          /\ Emit(<<[type |-> "change", account |-> b]>>)
          /\ signedIn' = b /\ left' = [left EXCEPT !.switches = left.switches - 1]
      BY <2>1, <2>3 DEF StageUnder
    <3>2. Interrupted /\ left.switches > 0 /\ b \in Account BY <2>1, <2>3
    <3>3. bridge' \in Bridges BY <1>1, <1>2, <3>1, Zenon DEF Bridges
    <3>4. left' \in Bounds BY <3>1, <3>2, Switching
    <3>5. mail' \in Seq(Event) BY <3>1, <3>2, BridgeEvents, Emitting
    <3> QED BY <1>0, <1>1, <3>1, <3>2, <3>3, <3>4, <3>5, Running
  <2> QED BY <2>2, <2>3
<1> QED BY <1>3, <1>4

LEMMA Sending ==
  ASSUME Types, BridgeSend PROVE Types' /\ (Interrupted = FALSE /\ Safe => Safe')
<1>0. /\ Runs("send") /\ signedIn # None /\ UNCHANGED <<signedIn, left>>
      /\ bridge' = [bridge EXCEPT !.staged = {}]
      /\ cloud' = [cloud EXCEPT ![signedIn] = cloud[signedIn] \cup bridge.staged]
      /\ Nothing \/ Emit(<<[type |-> "sent", items |-> bridge.staged]>>)
  BY DEF BridgeSend
<1>1. /\ bridge \in Bridges /\ signedIn \in Account /\ cloud \in Grants
      /\ left \in Bounds /\ mail \in Seq(Event)
  BY <1>0 DEF Types
<1>2. bridge' \in Bridges /\ bridge'.staged = {} /\ bridge'.running = bridge.running
  BY <1>0, <1>1, Zenon DEF Bridges
<1>3. bridge.staged \in SUBSET Item BY <1>1 DEF Bridges
<1>4. cloud' \in Grants BY <1>0, <1>1, <1>3 DEF Grants
<1>5. mail' \in Seq(Event) BY <1>0, <1>1, <1>3, BridgeEvents, Emitting DEF Nothing
<1>6. ASSUME Safe PROVE Staged' /\ NoCrossing'
  <2>1. Staged' BY <1>2 DEF Staged
  <2>2. bridge.staged \subseteq user.agreed[signedIn] BY <1>6 DEF Safe, Staged
  <2>3. \A a \in Account : cloud'[a] \subseteq cloud[a] \cup
                             IF a = signedIn THEN bridge.staged ELSE {}
    BY <1>0, <1>1 DEF Grants
  <2>4. user' = user BY <1>0, CommandTail
  <2> QED BY <1>6, <2>1, <2>2, <2>3, <2>4 DEF Safe, NoCrossing
<1> QED BY <1>0, <1>1, <1>2, <1>4, <1>5, <1>6, Running

LEMMA Fetching ==
  ASSUME Types, BridgeFetch PROVE Types' /\ (Interrupted = FALSE /\ Safe => Safe')
<1> DEFINE now == [of |-> signedIn, seen |-> cloud[signedIn]]
           new == cloud[signedIn] \ IF bridge.at = None THEN {} ELSE bridge.at.seen
           first == IF new = {} THEN <<>> ELSE <<[type |-> "fetched", items |-> new]>>
           last == <<[type |-> "state", at |-> now], [type |-> "complete"]>>
<1>0. /\ Heads("fetch") /\ signedIn # None /\ UNCHANGED <<signedIn, cloud, left>>
      /\ bridge' = [bridge EXCEPT !.at = now] /\ Emit(first \o last)
      /\ user' = user \/ user' = Noted(user, {"data"})
  BY DEF BridgeFetch
<1>1. /\ bridge \in Bridges /\ signedIn \in Account /\ cloud \in Grants /\ left \in Bounds
  BY <1>0 DEF Types
<1>2. cloud[signedIn] \in SUBSET Item BY <1>1 DEF Grants
<1>3. now \in Position /\ new \in SUBSET Item BY <1>1, <1>2 DEF Position
<1> HIDE DEF now, new
<1>4. first \in Seq(Event) /\ last \in Seq(Event)
  <2>1. last \in Seq(Event) BY <1>3, BridgeEvents
  <2>2. <<[type |-> "fetched", items |-> new]>> \in Seq(Event) BY <1>3, BridgeEvents
  <2>3. <<>> \in Seq(Event) OBVIOUS
  <2> QED BY <2>1, <2>2, <2>3, Zenon
<1>5. first \o last \in Seq(Event)
  <2> HIDE DEF first, last
  <2> QED BY <1>4
<1>6. mail' \in Seq(Event)
  <2> HIDE DEF first, last
  <2> QED BY <1>0, <1>5, Emitting
<1>7. bridge' \in Bridges /\ bridge'.staged = bridge.staged /\ bridge'.running = bridge.running
  BY <1>0, <1>1, <1>3, Zenon DEF Bridges
<1>8. user' \in Users /\ user'.agreed = user.agreed
  <2>1. user \in Users /\ {"data"} \in SUBSET {"data", "deletion"} BY DEF Types
  <2> QED BY <1>0, <2>1, Noting
<1>9. Safe => Staged' /\ NoCrossing' BY <1>0, <1>7, <1>8 DEF Safe, Staged, NoCrossing
<1> QED BY <1>0, <1>1, <1>6, <1>7, <1>8, <1>9, Taking

LEMMA Deleting ==
  ASSUME Types, BridgeDelete PROVE Types' /\ (Interrupted = FALSE /\ Safe => Safe')
<1>0. /\ Runs("delete") /\ UNCHANGED <<bridge, signedIn, left>>
      /\ cloud' = [cloud EXCEPT ![signedIn] = {}] /\ Emit(<<[type |-> "zone_deleted"]>>)
  BY DEF BridgeDelete
<1>1. /\ bridge \in Bridges /\ signedIn \in Account \cup {None} /\ cloud \in Grants
      /\ left \in Bounds
  BY DEF Types
<1>2. cloud' \in Grants /\ \A a \in Account : cloud'[a] \subseteq cloud[a]
  BY <1>0, <1>1 DEF Grants
<1>3. mail' \in Seq(Event) BY <1>0, BridgeEvents, Emitting
<1>4. Safe => Staged' /\ NoCrossing'
  BY <1>0, <1>2, CommandTail DEF Safe, Staged, NoCrossing
<1> QED BY <1>0, <1>1, <1>2, <1>3, <1>4, Running

(* Every command of the bridge keeps types and safety.                     *)
LEMMA Bridging ==
  ASSUME Types, BridgeRuns PROVE Types' /\ (Interrupted = FALSE /\ Safe => Safe')
<1>0. /\ bridge \in Bridges /\ signedIn \in Account \cup {None} /\ cloud \in Grants
      /\ left \in Bounds /\ mail \in Seq(Event)
  BY DEF Types
<1>1. CASE BridgeStart
  <2>1. Head(cmds).at \in Position \cup {None}
    BY <1>1, CommandTail, CommandFields DEF BridgeStart
  <2>2. bridge' \in Bridges /\ bridge'.staged = {} BY <1>1, <2>1 DEF BridgeStart, Bridges
  <2>3. Safe => Staged' /\ NoCrossing'
    BY <1>1, <2>2, CommandTail DEF BridgeStart, Safe, Staged, NoCrossing
  <2> QED BY <1>0, <1>1, <2>2, <2>3, Running DEF BridgeStart, Nothing
<1>2. CASE BridgeCheck
  <2>1. mail' \in Seq(Event) BY <1>0, <1>2, BridgeEvents, Emitting DEF BridgeCheck
  <2>2. Safe => Staged' /\ NoCrossing'
    BY <1>2, CommandTail DEF BridgeCheck, Safe, Staged, NoCrossing
  <2> QED BY <1>0, <1>2, <2>1, <2>2, Running DEF BridgeCheck
<1>3. CASE BridgeSendFails
  <2>1. mail' \in Seq(Event) BY <1>0, <1>3, BridgeEvents, Emitting DEF BridgeSendFails
  <2>2. left' \in Bounds BY <1>0, <1>3, Troubling DEF BridgeSendFails, Fails
  <2>3. Safe => Staged' /\ NoCrossing'
    BY <1>3, CommandTail DEF BridgeSendFails, Safe, Staged, NoCrossing
  <2> QED BY <1>0, <1>3, <2>1, <2>2, <2>3, Running DEF BridgeSendFails
<1>4. CASE BridgeFails
  <2>1. PICK type \in {"fetch", "delete"} : Runs(type) BY <1>4 DEF BridgeFails
  <2>2. mail' \in Seq(Event) BY <1>0, <1>4, BridgeEvents, Emitting DEF BridgeFails
  <2>3. left' \in Bounds BY <1>0, <1>4, Troubling DEF BridgeFails, Fails
  <2>4. Safe => Staged' /\ NoCrossing'
    BY <1>4, <2>1, CommandTail DEF BridgeFails, Safe, Staged, NoCrossing
  <2> QED BY <1>0, <1>4, <2>1, <2>2, <2>3, <2>4, Running DEF BridgeFails
<1>5. CASE BridgeStop
  <2>1. bridge' = [bridge EXCEPT !.running = FALSE, !.staged = {}] BY <1>5 DEF BridgeStop
  <2>2. bridge' \in Bridges /\ bridge'.staged = {} BY <1>0, <2>1, Zenon DEF Bridges
  <2>3. Safe => Staged' /\ NoCrossing'
    BY <1>5, <2>2, CommandTail DEF BridgeStop, Safe, Staged, NoCrossing
  <2> QED BY <1>0, <1>5, <2>2, <2>3, Running DEF BridgeStop, Nothing
<1> QED BY <1>1, <1>2, <1>3, <1>4, <1>5, Staging, Sending, Fetching, Deleting DEF BridgeRuns

LEMMA Switches ==
  ASSUME Types, NEW a \in Account \cup {None}, Switch(a) PROVE Types' /\ (Safe => Safe')
<1>0. /\ bridge \in Bridges /\ mail \in Seq(Event) BY DEF Types
<1>1. left' \in Bounds BY Switching DEF Switch
<1>2. /\ signedIn' = a /\ UNCHANGED <<db, core, host, cmds, cloud, user>> BY DEF Switch
<1>3. bridge' \in Bridges /\ ((bridge' = bridge /\ ~bridge.running) \/ bridge'.staged = {})
      /\ bridge'.running = bridge.running
  <2>1. CASE bridge.running
    <3>1. bridge' = [bridge EXCEPT !.at = None, !.staged = {}] BY <2>1 DEF Switch
    <3> QED BY <1>0, <3>1, Zenon DEF Bridges
  <2>2. CASE ~bridge.running BY <1>0, <2>2 DEF Switch
  <2> QED BY <2>1, <2>2
<1>4. mail' \in Seq(Event) BY <1>0, BridgeEvents, Emitting DEF Switch, Nothing
<1>5. Types' BY <1>1, <1>2, <1>3, <1>4 DEF Types
<1>6. Safe => Safe' BY <1>2, <1>3 DEF Safe, Staged, NoCrossing
<1> QED BY <1>5, <1>6

LEMMA PeerSaving ==
  ASSUME Types, NEW a \in Account, NEW i \in Item, PeerSaves(a, i)
  PROVE  Types' /\ (Safe => Safe')
<1>0. /\ user \in Users /\ left \in Bounds /\ cloud \in Grants
      /\ user' = Agreed(user, a, {i}) /\ cloud' = [cloud EXCEPT ![a] = cloud[a] \cup {i}]
      /\ left' = [left EXCEPT !.fresh = left.fresh \ {i}]
      /\ UNCHANGED <<db, core, host, mail, cmds, bridge, signedIn>>
  BY DEF Types, PeerSaves
<1>1. {i} \in SUBSET Item OBVIOUS
<1>2. /\ user' \in Users /\ Grows(user.agreed, user'.agreed)
      /\ user'.agreed[a] = user.agreed[a] \cup {i}
  BY <1>0, <1>1, AgreedGrows
<1>3. left' \in Bounds
  <2>1. left.fresh \ {i} \in SUBSET Item BY <1>0 DEF Bounds
  <2> QED BY <1>0, <2>1, Zenon DEF Bounds
<1>4. cloud' \in Grants BY <1>0 DEF Grants
<1>5. Types' BY <1>0, <1>2, <1>3, <1>4 DEF Types
<1>6. ASSUME Safe PROVE Safe'
  <2>1. cmds' \in Seq(Sound(user'.agreed))
    <3>1. user.agreed \in Grants /\ user'.agreed \in Grants /\ cmds \in Seq(Command)
      BY <1>0, <1>2 DEF Types, Users
    <3> QED BY <1>0, <1>2, <1>6, <3>1, SoundGrows DEF Safe
  <2>2. Owed(db', user'.agreed) BY <1>0, <1>2, <1>6 DEF Safe, Owed, Grows
  <2>3. Staged' BY <1>0, <1>2, <1>6 DEF Safe, Staged, Grows
  <2>4. NoCrossing'
    <3>1. \A b \in Account : cloud'[b] \subseteq cloud[b] \cup IF b = a THEN {i} ELSE {}
      BY <1>0 DEF Grants
    <3> QED BY <1>2, <1>6, <3>1 DEF Safe, NoCrossing, Grows
  <2> QED BY <2>1, <2>2, <2>3, <2>4 DEF Safe
<1> QED BY <1>5, <1>6

LEMMA NewTypes ==
  ASSUME SessionAssumption
  PROVE  NewCore \in Core /\ NewHost \in Hosts /\ NewBridge \in Bridges
<1>1. NewCore \in Core BY DEF NewCore, Core
<1>2. NoEffects \in Effects BY DEF NoEffects, Effects
<1>3. NewHost \in Hosts BY <1>2 DEF NewHost, Hosts, Phases
<1>4. NewBridge \in Bridges BY DEF NewBridge, Bridges
<1> QED BY <1>1, <1>3, <1>4

LEMMA LaunchedType == Launched \in Seq(Event)
<1>1. [type |-> "start"] \in Event BY DEF Event
<1> QED BY <1>1 DEF Launched

LEMMA Crashing ==
  ASSUME Types, Crash PROVE Types' /\ (Safe => Safe')
<1>1. left' \in Bounds BY Troubling DEF Crash
<1>2. Types' BY <1>1, NewTypes, LaunchedType, SessionAssumption DEF Types, Crash
<1>3. bridge'.staged = {} BY DEF Crash, NewBridge
<1>4. Safe => Safe' BY <1>3 DEF Crash, Safe, Staged, NoCrossing
<1> QED BY <1>2, <1>4

-----------------------------------------------------------------------------

LEMMA Initial == Init => Types /\ Safe
<1> SUFFICES ASSUME Init PROVE Types /\ Safe OBVIOUS
<1>1. PICK joined \in BOOLEAN :
        /\ signedIn = Home
        /\ db = [enabled |-> joined, bound |-> IF joined THEN Home ELSE None, joined |-> joined,
                 ckpt |-> IF joined THEN [of |-> Home, seen |-> {}] ELSE None,
                 owner |-> IF joined THEN Home ELSE None,
                 local |-> {}, linked |-> {}, inbox |-> {}]
        /\ core = NewCore /\ host = NewHost /\ bridge = NewBridge
        /\ cmds = <<>> /\ mail = Launched
        /\ cloud = [b \in Account |-> {}]
        /\ user = [agreed |-> [b \in Account |-> {}], asked |-> {}, declined |-> {},
                 late |-> {}]
        /\ left = [choices |-> IF joined THEN MaxChoices - 1 ELSE MaxChoices,
                   switches |-> MaxSwitches, fresh |-> Item, troubles |-> MaxTroubles]
  BY DEF Init
<1>2. db \in Database BY <1>1, SessionAssumption DEF Database, Position
<1>3. cloud \in Grants /\ user \in Users BY <1>1 DEF Grants, Users
<1>4. left \in Bounds BY <1>1, SessionAssumption DEF Bounds
<1>5. Types BY <1>1, <1>2, <1>3, <1>4, NewTypes, LaunchedType, SessionAssumption DEF Types
<1>6. cmds \in Seq(Sound(user.agreed)) BY <1>1
<1>7. Owed(db, user.agreed) BY <1>1 DEF Owed
<1>8. Staged BY <1>1 DEF Staged, NewBridge
<1>9. NoCrossing BY <1>1 DEF NoCrossing
<1> QED BY <1>5, <1>6, <1>7, <1>8, <1>9 DEF Safe

LEMMA Stepping ==
  Types /\ [Next]_vars => Types' /\ (Interrupted = FALSE /\ Safe => Safe')
<1> SUFFICES ASSUME Types, [Next]_vars
             PROVE  Types' /\ (Interrupted = FALSE /\ Safe => Safe')
  OBVIOUS
<1>1. CASE UNCHANGED vars BY <1>1 DEF vars, Types, Safe, Staged, NoCrossing
<1>2. CASE Next
  <2>1. ASSUME NEW c \in Choices, Choose(c) PROVE Types' /\ (Safe => Safe') BY <2>1, Choosing
  <2>2. ASSUME NEW i \in Item, Create(i) PROVE Types' /\ (Safe => Safe') BY <2>2, Creating
  <2>3. ASSUME NEW a \in Account, NEW i \in Item, PeerSaves(a, i)
        PROVE  Types' /\ (Safe => Safe')
    BY <2>3, PeerSaving
  <2>4. ASSUME NEW a \in Account \cup {None}, Switch(a) PROVE Types' /\ (Safe => Safe')
    BY <2>4, Switches
  <2> QED BY <1>2, <2>1, <2>2, <2>3, <2>4, Handling, Timing, Ticking, Bridging, Crashing DEF Next
<1> QED BY <1>1, <1>2

(* Every variable has its type, whatever the constants.                    *)
THEOREM Typed == Spec => []TypeOK
<1>1. Init => Types BY Initial
<1>2. Types /\ [Next]_vars => Types' BY Stepping
<1>3. Types => TypeOK BY DEF Types, TypeOK, Grants, Bridges
<1> QED BY <1>1, <1>2, <1>3, PTL DEF Spec

(* If the account does not change while stage waits for the bridge's       *)
(* answer, an account's zone only ever holds what was agreed for it, for   *)
(* any number of accounts, items, choices, switches and troubles, and      *)
(* whatever overtakes what.                                                *)
THEOREM DataStaysHome ==
  ASSUME Interrupted = FALSE PROVE Spec => []NoCrossing
<1>1. Init => Types /\ Safe BY Initial
<1>2. Types /\ Safe /\ [Next]_vars => (Types /\ Safe)' BY Stepping
<1>3. Types /\ Safe => NoCrossing BY DEF Safe
<1> QED BY <1>1, <1>2, <1>3, PTL DEF Spec
=============================================================================
