------------------------------ MODULE McpBridge ------------------------------
(***************************************************************************)
(* Tool calls from MCP clients and the app thread that runs them            *)
(* (src/mcp/bridge.rs, mod.rs, tools.rs; src/host/mcp_host.rs; tick_mcp of  *)
(* src/app.rs).  A call waits on the server's thread while its request      *)
(* waits in a bounded queue for a frame of the app.  The caller may time    *)
(* out or leave, the client may lose its permission, and the server may be  *)
(* stopped, each while the app takes the request up: an atomic switch of    *)
(* three positions decides whether the command runs.                        *)
(*                                                                          *)
(* The command of every call here places a paper order under a request_id,  *)
(* which is to make a retry harmless (OrderMemory).                         *)
(***************************************************************************)
EXTENDS Integers, Sequences, FiniteSets

CONSTANTS
    Call,          \* the calls: records of client, key (the request_id) and order
    Client,        \* the credentials
    None,          \* no request_id
    QueueCapacity, \* QUEUE_CAPACITY
    MaxConcurrent, \* MAX_CONCURRENT_REQUESTS
    PerFrame,      \* REQUESTS_PER_FRAME
    MemoryLimit,   \* OrderMemory::CAPACITY
    Slow,          \* may a command run for longer than STARTED_GRACE?
    Recreates,     \* may the user delete the newest paper account and make another?
    MaxChanges     \* bound: how often the user changes something

ASSUME BridgeAssumption ==
    /\ IsFiniteSet(Call)
    /\ \A c \in Call : c.client \in Client
    /\ {QueueCapacity, MaxConcurrent, PerFrame, MemoryLimit} \subseteq Nat \ {0}
    /\ {Slow, Recreates} \subseteq BOOLEAN
    /\ MaxChanges \in Nat

VARIABLES
    server,      \* "off", "running" or "stopping"
    enabled,     \* McpSettings.enabled
    generation,  \* McpShared: one more with each stop
    allowed,     \* McpShared: the clients that may place orders
    caller,      \* on the server's thread: where each call is
    told,        \* what its client heard
    switch,      \* of its request: PENDING, STARTED or CANCELLED, as if there never is one
    since,       \* of its request: the generation when it was queued
    answer,      \* of its request: what the app sent back
    queue,       \* requests waiting for a frame, oldest first
    awake,       \* a frame was asked for
    batch,       \* those this frame took, oldest first
    step,        \* how far the app is with the first of them
    orders,      \* the account's orders: [id, by], by the call that placed it
    lastId,      \* the highest id in use
    memory,      \* OrderMemory: [key, order, id], oldest first
    left         \* bound: changes the user may still make

serverVars == <<server, enabled, generation, allowed>>
callVars == <<caller, told, switch, since, answer>>
frameVars == <<queue, awake, batch, step>>
paperVars == <<orders, lastId, memory>>
vars == <<serverVars, callVars, frameVars, paperVars, left>>

Live == {c \in Call : caller[c] \in {"arrived", "waiting", "grace"}}

Key == {c.key : c \in Call}
Entry == [key : Key, order : {c.order : c \in Call}, id : Nat]

TypeOK ==
    /\ server \in {"off", "running", "stopping"}
    /\ enabled \in BOOLEAN /\ awake \in BOOLEAN
    /\ generation \in Nat /\ lastId \in Nat
    /\ allowed \subseteq Client
    /\ caller \in [Call -> {"new", "arrived", "waiting", "grace", "ended"}]
    /\ told \in [Call -> {"none", "result", "refused"}]
    /\ switch \in [Call -> {"pending", "started", "cancelled"}]
    /\ since \in [Call -> Nat]
    /\ answer \in [Call -> {"none", "placed", "already", "failed", "refused"}]
    /\ queue \in Seq(Call) /\ Len(queue) <= QueueCapacity
    /\ batch \in Seq(Call) /\ Len(batch) <= PerFrame
    /\ step \in {"next", "judged", "refusing", "running"}
    /\ step # "next" => batch # <<>>
    /\ orders \subseteq [id : Nat, by : Call]
    /\ memory \in Seq(Entry)
    /\ left \in Nat

Init ==
    /\ server = "running" /\ enabled = TRUE /\ generation = 0
    /\ allowed = Client
    /\ caller = [c \in Call |-> "new"]
    /\ told = [c \in Call |-> "none"]
    /\ switch = [c \in Call |-> "pending"]
    /\ since = [c \in Call |-> 0]
    /\ answer = [c \in Call |-> "none"]
    /\ queue = <<>> /\ batch = <<>> /\ step = "next" /\ awake = FALSE
    /\ orders = {} /\ lastId = 1 /\ memory = <<>>
    /\ left = MaxChanges

-----------------------------------------------------------------------------
(* The server's thread: `run_tool` and `BridgeClient::call`.                *)

(* compare_exchange(PENDING, CANCELLED)                                     *)
Cancelled(c) == IF switch[c] = "pending" THEN "cancelled" ELSE switch[c]

(* The call ends, and with it what would cancel its request (CancelOnDrop). *)
Ends(c, word) ==
    /\ caller' = [caller EXCEPT ![c] = "ended"]
    /\ told' = [told EXCEPT ![c] = word]
    /\ switch' = [switch EXCEPT ![c] = Cancelled(c)]

(* `run_tool` checks the permission; a client without it gets an error.     *)
Arrive(c) ==
    /\ server # "off" /\ caller[c] = "new"
    /\ Cardinality(Live) < MaxConcurrent
    /\ IF c.client \in allowed
       THEN caller' = [caller EXCEPT ![c] = "arrived"] /\ UNCHANGED <<told, switch>>
       ELSE Ends(c, "refused")
    /\ UNCHANGED <<serverVars, since, answer, frameVars, paperVars, left>>

(* The mistake: the queue takes whatever comes.                             *)
QueuesAnyway(c) ==
    /\ caller[c] = "arrived"
    /\ queue' = Append(queue, c) /\ awake' = TRUE
    /\ caller' = [caller EXCEPT ![c] = "waiting"]
    /\ since' = [since EXCEPT ![c] = generation]
    /\ UNCHANGED <<serverVars, told, switch, answer, batch, step, paperVars, left>>

(* `call` queues the request and asks for a frame (`wake`), or answers that *)
(* the app is busy.                                                         *)
Queues(c) ==
    /\ caller[c] = "arrived"
    /\ IF Len(queue) < QueueCapacity
       THEN /\ queue' = Append(queue, c) /\ awake' = TRUE
            /\ caller' = [caller EXCEPT ![c] = "waiting"]
            /\ since' = [since EXCEPT ![c] = generation]
            /\ UNCHANGED <<told, switch>>
       ELSE Ends(c, "refused") /\ UNCHANGED <<since, queue, awake>>
    /\ UNCHANGED <<serverVars, answer, batch, step, paperVars, left>>

(* The mistake: a call that timed out is given up without the switch.       *)
TimesOutUnasked(c) ==
    /\ caller[c] = "waiting" /\ answer[c] = "none"
    /\ Ends(c, "refused")
    /\ UNCHANGED <<serverVars, since, answer, frameVars, paperVars, left>>

(* REQUEST_TIMEOUT has passed: the caller cancels the request or, when the  *)
(* app was first at the switch, waits on until STARTED_GRACE is over too.   *)
TimesOut(c) ==
    /\ caller[c] \in {"waiting", "grace"} /\ answer[c] = "none"
    /\ IF caller[c] = "waiting" /\ switch[c] # "pending"
       THEN caller' = [caller EXCEPT ![c] = "grace"] /\ UNCHANGED <<told, switch>>
       ELSE (caller[c] = "grace" => Slow) /\ Ends(c, "refused")
    /\ UNCHANGED <<serverVars, since, answer, frameVars, paperVars, left>>

Heard(c) == IF answer[c] = "refused" THEN "refused" ELSE "result"

(* The mistake: an answer after the timeout is not waited for any more.     *)
HearsInTime(c) ==
    /\ caller[c] = "waiting" /\ answer[c] # "none"
    /\ Ends(c, Heard(c))
    /\ UNCHANGED <<serverVars, since, answer, frameVars, paperVars, left>>

Hears(c) ==
    /\ caller[c] \in {"waiting", "grace"} /\ answer[c] # "none"
    /\ Ends(c, Heard(c))
    /\ UNCHANGED <<serverVars, since, answer, frameVars, paperVars, left>>

(* The client hangs up or cancels, or the stopping server drops the call.   *)
Leaves(c) ==
    /\ c \in Live
    /\ Ends(c, "none")
    /\ UNCHANGED <<serverVars, since, answer, frameVars, paperVars, left>>

-----------------------------------------------------------------------------
(* The app thread: what `tick_mcp` runs, `Request::run` step by step.       *)

Idle == batch = <<>> /\ server # "stopping"

Least(m, n) == IF m < n THEN m ELSE n

(* The mistake: a frame that took all it may does not ask for another.      *)
FrameOnce ==
    LET taken == Least(Len(queue), PerFrame)
    IN  /\ Idle
        /\ batch' = SubSeq(queue, 1, taken)
        /\ queue' = SubSeq(queue, taken + 1, Len(queue))
        /\ awake' = FALSE
        /\ UNCHANGED <<serverVars, callVars, step, paperVars, left>>

Frame ==
    LET taken == Least(Len(queue), PerFrame)
    IN  /\ Idle
        /\ batch' = SubSeq(queue, 1, taken)
        /\ queue' = SubSeq(queue, taken + 1, Len(queue))
        /\ awake' = (taken = PerFrame)
        /\ UNCHANGED <<serverVars, callVars, step, paperVars, left>>

Unwanted(c) ==
    \/ caller[c] = "ended"
    \/ since[c] # generation
    \/ c.client \notin allowed

(* past: its deadline, a moment before the caller wakes from its timeout.   *)
Judge(past) ==
    LET c == Head(batch)
    IN  /\ batch # <<>> /\ step = "next"
        /\ IF past \/ Unwanted(c)
           THEN step' = "refusing" /\ switch' = [switch EXCEPT ![c] = Cancelled(c)]
           ELSE step' = "judged" /\ UNCHANGED switch
        /\ UNCHANGED <<serverVars, caller, told, since, answer, queue, awake, batch,
                       paperVars, left>>

(* The mistake: the app does not look who was first at the switch.          *)
StartAnyway ==
    LET c == Head(batch)
    IN  /\ step = "judged"
        /\ step' = "running" /\ switch' = [switch EXCEPT ![c] = "started"]
        /\ UNCHANGED <<serverVars, caller, told, since, answer, queue, awake, batch,
                       paperVars, left>>

Start ==
    LET c == Head(batch)
    IN  /\ step = "judged"
        /\ IF switch[c] = "pending"
           THEN step' = "running" /\ switch' = [switch EXCEPT ![c] = "started"]
           ELSE step' = "refusing" /\ UNCHANGED switch
        /\ UNCHANGED <<serverVars, caller, told, since, answer, queue, awake, batch,
                       paperVars, left>>

Answers(word) ==
    /\ answer' = [answer EXCEPT ![Head(batch)] = word]
    /\ batch' = Tail(batch) /\ step' = "next"

Refuse ==
    /\ step = "refusing"
    /\ Answers("refused")
    /\ UNCHANGED <<serverVars, caller, told, switch, since, queue, awake, paperVars, left>>

-----------------------------------------------------------------------------
(* `place_paper_order` and its memory of request_ids.                       *)

(* A request_id has one entry at most.                                      *)
Forget(key) ==
    LET without(k) == SubSeq(memory, 1, k - 1) \o SubSeq(memory, k + 1, Len(memory))
    IN  IF \E k \in DOMAIN memory : memory[k].key = key
        THEN without(CHOOSE k \in DOMAIN memory : memory[k].key = key)
        ELSE memory

Remember(c, id) ==
    LET kept == Forget(c.key)
    IN  Append(IF Len(kept) >= MemoryLimit THEN Tail(kept) ELSE kept,
               [key |-> c.key, order |-> c.order, id |-> id])

(* The entries for this call's request_id whose order still exists.         *)
Recalled(c) ==
    {k \in DOMAIN memory : /\ c.key # None /\ memory[k].key = c.key
                           /\ \E o \in orders : o.id = memory[k].id}

(* The mistake: the same request_id is taken for the same order.            *)
RepeatsByKey(c) == Recalled(c) # {}

Repeats(c) == \E k \in Recalled(c) : memory[k].order = c.order

(* The mistake: a record that is there is not looked for.                   *)
PlaceAgain(c) ==
    /\ step = "running" /\ c = Head(batch)
    /\ orders' = orders \cup {[id |-> lastId + 1, by |-> c]}
    /\ lastId' = lastId + 1
    /\ memory' = IF c.key = None THEN memory ELSE Remember(c, lastId + 1)
    /\ Answers("placed")
    /\ UNCHANGED <<serverVars, caller, told, switch, since, queue, awake, left>>

Place(c) ==
    /\ step = "running" /\ c = Head(batch)
    /\ Recalled(c) = {}
    /\ orders' = orders \cup {[id |-> lastId + 1, by |-> c]}
    /\ lastId' = lastId + 1
    /\ memory' = IF c.key = None THEN memory ELSE Remember(c, lastId + 1)
    /\ Answers("placed")
    /\ UNCHANGED <<serverVars, caller, told, switch, since, queue, awake, left>>

(* The order is there already.                                              *)
PlacedBefore(c) ==
    /\ step = "running" /\ c = Head(batch)
    /\ Repeats(c)
    /\ Answers("already")
    /\ UNCHANGED <<serverVars, caller, told, switch, since, queue, awake, paperVars, left>>

(* No trading on that account, or the request_id names another order: the   *)
(* record stays.  The order itself is refused: a stale one is gone.         *)
Fails(c) ==
    /\ step = "running" /\ c = Head(batch)
    /\ \/ UNCHANGED memory
       \/ Recalled(c) = {} /\ c.key # None /\ memory' = Forget(c.key)
    /\ Answers("failed")
    /\ UNCHANGED <<serverVars, caller, told, switch, since, queue, awake, orders,
                   lastId, left>>

-----------------------------------------------------------------------------
(* The user, whose actions `tick` carries out before it takes requests.     *)

Changes == Idle /\ left > 0 /\ left' = left - 1

(* Saving the permissions failed, or they are published.                    *)
Permit(clients) ==
    /\ Changes
    /\ allowed' = clients
    /\ UNCHANGED <<server, enabled, generation, callVars, frameVars, paperVars>>

(* `set_enabled` and `set_port` stop the server and perhaps start another,  *)
(* which can fail.  The stop waits, on the app thread, for the server's.    *)
Switches(on) ==
    /\ Changes
    /\ enabled' = on
    /\ generation' = generation + 1
    /\ IF server = "running" THEN server' = "stopping"
       ELSE server' \in IF on THEN {"running", "off"} ELSE {"off"}
    /\ UNCHANGED <<allowed, callVars, frameVars, paperVars>>

Joined(starts) ==
    /\ server = "stopping" /\ Live = {}
    /\ starts => enabled
    /\ server' = IF starts THEN "running" ELSE "off"
    /\ UNCHANGED <<enabled, generation, allowed, callVars, frameVars, paperVars, left>>

(* `reset_account` keeps a note of it, so that ids go on; a deleted account *)
(* takes its ids with it.                                                   *)
Resets(again) ==
    /\ Changes
    /\ again => Recreates
    /\ orders' = {}
    /\ lastId' = IF again THEN 1 ELSE lastId + 1
    /\ UNCHANGED <<serverVars, callVars, frameVars, memory>>

-----------------------------------------------------------------------------
Server ==
    \E c \in Call :
        Arrive(c) \/ Queues(c) \/ TimesOut(c) \/ Hears(c) \/ Leaves(c)

Runs == \E c \in Call : Place(c) \/ PlacedBefore(c) \/ Fails(c)

Handling == (\E past \in BOOLEAN : Judge(past)) \/ Start \/ Refuse \/ Runs

User ==
    \/ \E clients \in SUBSET Client : Permit(clients)
    \/ \E on \in BOOLEAN : Switches(on)
    \/ \E again \in BOOLEAN : Resets(again)

Next ==
    \/ Server
    \/ Frame
    \/ Handling
    \/ \E starts \in BOOLEAN : Joined(starts)
    \/ User

Spec == Init /\ [][Next]_vars

(* Both threads go on as long as they have something to do: the server's    *)
(* also when time has passed or a stop drops its calls, the app's with what *)
(* it began or a frame that was asked for.                                  *)
ServerThread ==
    \E c \in Call :
        \/ Queues(c) \/ TimesOut(c) \/ Hears(c)
        \/ server = "stopping" /\ Leaves(c)

AppThread ==
    \/ awake /\ Frame
    \/ Handling
    \/ \E starts \in BOOLEAN : Joined(starts)

FairSpec == Spec /\ WF_vars(ServerThread) /\ WF_vars(AppThread)

-----------------------------------------------------------------------------
(* Properties *)

(* Every call is run at most once and is told what became of it: whoever is *)
(* first at the switch, the caller that gives up or the app that starts,    *)
(* both agree ("Cancel if the app has not started it: then it is certain    *)
(* not to run", `call`).                                                    *)
Fate(c) ==
    IF switch[c] = "started" THEN "ran"
    ELSE IF switch[c] = "cancelled" THEN "void" ELSE "open"

Once == INSTANCE CallOnce WITH fate <- [c \in Call |-> Fate(c)]

Truthful == Once!Spec

(* A command starts only while its caller still waits for it, its client    *)
(* may have it run, and the server that took the call is not being stopped  *)
(* ("executes what is still wanted", bridge.rs).                            *)
StartsWanted ==
    [][\A c \in Call :
        switch'[c] = "started" /\ switch[c] # "started" =>
            /\ caller[c] = "waiting"
            /\ server = "running"
            /\ c.client \in allowed]_vars

(* Two orders that exist were not placed under one request_id: a retry, on  *)
(* its own or beside the call it repeats, places nothing ("so a retry of a  *)
(* call that timed out does not place a second order", OrderMemory).        *)
PlacedOnce ==
    \A o, p \in orders : o.by.key # None /\ o.by.key = p.by.key => o = p

(* A call that hears that its order was placed before finds the very order  *)
(* that it asked for, placed under its request_id (`recall`).               *)
NamesItsOrder ==
    [][\A c \in Call :
        answer'[c] = "already" /\ answer[c] # "already" =>
            \E o \in orders : o.by.key = c.key /\ o.by.order = c.order]_vars

(* Calls that were accepted end, all of the finitely many here, and so does *)
(* the stop of the server, although the app's thread and the callers wait   *)
(* for each other.                                                          *)
EachEnds == Live # {} ~> Live = {} /\ server # "stopping"

(* Queued requests are taken by frames sooner or later: none is forgotten   *)
(* because the frame asked for came too early or was full already.          *)
Served == queue # <<>> ~> queue = <<>>
=============================================================================
