---------------------------- MODULE SelfUpdate ----------------------------
(***************************************************************************)
(* How a running DegenView replaces itself: the checks that find a newer   *)
(* release (host/update_host.rs), the download staged beside the app and   *)
(* the two renames that put it in place (service/self_update), the quit a  *)
(* restart asks for, which a script with unsaved edits may call off        *)
(* (app.rs, pine_studio), and the helper that opens the new version once   *)
(* the old process is gone.                                                *)
(*                                                                         *)
(* Versions are numbers, in order; 0 stands for no version.  The files are *)
(* three: the app where the user keeps it, and `new` and `old` in the      *)
(* staging folder.  The bundle of macOS and the executable of Windows and  *)
(* Linux differ in one point only, a rename onto a copy already there,     *)
(* which either fails or replaces it.                                      *)
(***************************************************************************)
EXTENDS Naturals, Sequences

CONSTANTS Process,        \* names of the processes that may run at a time
          MaxVersion,     \* the newest version ever published
          Candidates,     \* the versions that are release candidates
          MaxTroubles, MaxSwitches,
          LateCleanup,    \* may the clean-up at start run after the first download?
          SecondCopy,     \* may the user open the app while it runs or restarts?
          CloseWhileAsked \* may the user close the tab that asks about the quit?

Version == 1..MaxVersion

ASSUME SelfUpdateAssumption ==
  /\ MaxVersion \in Nat \ {0} /\ Candidates \subseteq Version
  /\ {MaxTroubles, MaxSwitches} \subseteq Nat
  /\ {LateCleanup, SecondCopy, CloseWhileAsked} \subseteq BOOLEAN

VARIABLES disk,       \* which version each of the three files holds
          published,  \* the releases on GitHub
          saved,      \* the setting update.channel
          procs,      \* the processes and their UpdateHost
          helpers,    \* the processes a relaunch helper waits for
          proven,     \* the versions that have started in place
          left        \* the troubles and switches that may still happen

vars == <<disk, published, saved, procs, helpers, proven, left>>

Channel == {"stable", "candidate"}

Job == [does : {"check", "clear", "unpack"}, channel : Channel, version : 0..MaxVersion]

(* One process.  offer is the release the last answer offered (0 for any   *)
(* other answer), at and target are Install, clean is the clean-up still   *)
(* to run, dirty and asked the edits in Pine Studio and its open question. *)
Running == [status : {"off", "running", "exiting"}, version : 0..MaxVersion,
            channel : Channel, offer : 0..MaxVersion, checking : BOOLEAN,
            at : {"idle", "working", "ready", "failed"}, target : 0..MaxVersion,
            applied : BOOLEAN, armed : BOOLEAN, swapping : BOOLEAN, clean : BOOLEAN,
            dirty : BOOLEAN, asked : {"no", "quit", "close"}, jobs : Seq(Job)]

Off == [status |-> "off", version |-> 0, channel |-> "stable", offer |-> 0,
        checking |-> FALSE, at |-> "idle", target |-> 0, applied |-> FALSE,
        armed |-> FALSE, swapping |-> FALSE, clean |-> FALSE, dirty |-> FALSE,
        asked |-> "no", jobs |-> <<>>]

OwnChannel(v) == IF v \in Candidates THEN "candidate" ELSE "stable"

Live(p) == procs[p].status # "off"

(* The thread that draws: nothing else happens on it during a swap.        *)
Free(p) == procs[p].status = "running" /\ ~procs[p].swapping

Put(p, r) == procs' = [procs EXCEPT ![p] = r]

Troubles(n) == left.troubles >= n /\ left' = [left EXCEPT !.troubles = left.troubles - n]

Trouble == Troubles(1)

(* What it costs that a rename fails: nothing when its source is missing.  *)
Cost(source) == IF source = 0 THEN 0 ELSE 1

-----------------------------------------------------------------------------
(* Finding a release                                                       *)

Accepts(channel, v) == v \notin Candidates \/ channel = "candidate"

Newer(channel, running) == {v \in published : v > running /\ Accepts(channel, v)}

Pick(channel, running) ==
  IF Newer(channel, running) = {} THEN 0
  ELSE CHOOSE v \in Newer(channel, running) : \A w \in Newer(channel, running) : w <= v

StartCheckTwice(r, manual) ==
  [r EXCEPT !.checking = TRUE,
            !.jobs = Append(r.jobs, [does |-> "check", channel |-> r.channel, version |-> 0])]

StartCheck(r, manual) ==
  IF r.checking \/ r.at = "working" THEN r
  ELSE [r EXCEPT !.checking = TRUE,
                 !.at = IF manual /\ r.at = "failed" THEN "idle" ELSE r.at,
                 !.target = IF manual /\ r.at = "failed" THEN 0 ELSE r.target,
                 !.jobs = Append(r.jobs, [does |-> "check", channel |-> r.channel, version |-> 0])]

(* The answer to a check asked of a channel; 0 when it offers nothing.     *)
FinishCheckOfAny(r, channel, answer, failed) ==
  LET moot == r.at = "failed" /\ answer # r.target IN
  IF failed /\ r.offer # 0 THEN [r EXCEPT !.checking = FALSE]
  ELSE [r EXCEPT !.checking = FALSE, !.offer = answer,
                 !.at = IF moot THEN "idle" ELSE r.at,
                 !.target = IF moot THEN 0 ELSE r.target]

FinishCheck(r, channel, answer, failed) ==
  IF channel # r.channel THEN [r EXCEPT !.checking = FALSE]
  ELSE FinishCheckOfAny(r, channel, answer, failed)

CheckDueUnlessFailed(r) == ~r.checking /\ r.at = "idle"

CheckDue(r) == ~r.checking /\ r.at \notin {"working", "ready"}

(* Time is not modelled: a check falls due whenever the schedule allows it. *)
Tick(p) ==
  /\ Free(p) /\ CheckDue(procs[p])
  /\ Put(p, StartCheck(procs[p], FALSE))
  /\ UNCHANGED <<disk, published, saved, helpers, proven, left>>

CheckNow(p) ==
  /\ Free(p) /\ ~procs[p].checking /\ procs[p].at \notin {"working", "ready"}
  /\ Put(p, StartCheck(procs[p], TRUE))
  /\ UNCHANGED <<disk, published, saved, helpers, proven, left>>

(* Settings offers the choice until an install starts.                     *)
SetChannel(p, c) ==
  LET r == procs[p]
      stale == r.offer # 0 IN
  /\ Free(p) /\ r.at \notin {"working", "ready"} /\ c # r.channel /\ left.switches > 0
  /\ Put(p, StartCheck([r EXCEPT !.channel = c,
                                 !.offer = IF stale THEN 0 ELSE r.offer,
                                 !.at = IF stale THEN "idle" ELSE r.at,
                                 !.target = IF stale THEN 0 ELSE r.target], TRUE))
  /\ saved' = c
  /\ left' = [left EXCEPT !.switches = left.switches - 1]
  /\ UNCHANGED <<disk, published, helpers, proven>>

-----------------------------------------------------------------------------
(* The update worker                                                       *)

(* Available or InstallFailed, and the mark or the button is clicked.      *)
Install(p) ==
  LET r == procs[p] IN
  /\ Free(p) /\ r.at \notin {"working", "ready"} /\ r.offer # 0
  /\ Put(p, [r EXCEPT !.at = "working", !.target = r.offer,
                      !.jobs = Append(r.jobs, [does |-> "clear", channel |-> r.channel,
                                               version |-> r.offer])])
  /\ UNCHANGED <<disk, published, saved, helpers, proven, left>>

Working(p, does) ==
  Live(p) /\ procs[p].jobs # <<>> /\ Head(procs[p].jobs).does = does

Done(r) == [r EXCEPT !.jobs = Tail(r.jobs)]

InstallFailed(p) == Put(p, [Done(procs[p]) EXCEPT !.at = "failed"])

Answer(p) ==
  LET r == procs[p]
      asked == Head(r.jobs).channel IN
  /\ Working(p, "check")
  /\ \/ Put(p, FinishCheck(Done(r), asked, Pick(asked, r.version), FALSE)) /\ UNCHANGED left
     \/ Put(p, FinishCheck(Done(r), asked, 0, TRUE)) /\ Trouble
  /\ UNCHANGED <<disk, published, saved, helpers, proven>>

OnlyCopyUnguarded == FALSE

OnlyCopy == disk.app = 0 /\ disk.old # 0

Cleared == [disk EXCEPT !.new = 0, !.old = 0]

(* The first half of prepare: the staging folder is made anew.  It may     *)
(* fail before it is cleared (the tag's signature) or after.               *)
Clear(p) ==
  LET r == procs[p] IN
  /\ Working(p, "clear") /\ (LateCleanup \/ ~r.clean)
  /\ \/ OnlyCopy /\ InstallFailed(p) /\ UNCHANGED <<disk, left>>
     \/ ~OnlyCopy /\ disk' = Cleared /\ UNCHANGED left
        /\ Put(p, [r EXCEPT !.jobs = <<[Head(r.jobs) EXCEPT !.does = "unpack"]>> \o Tail(r.jobs)])
     \/ ~OnlyCopy /\ disk' \in {disk, Cleared} /\ InstallFailed(p) /\ Trouble
  /\ UNCHANGED <<published, saved, helpers, proven>>

(* The rest of it: the download is checked and unpacked, or what there is  *)
(* of it is removed with its folder.                                       *)
Unpack(p) ==
  LET r == procs[p] IN
  /\ Working(p, "unpack")
  /\ \/ /\ disk' = [disk EXCEPT !.new = Head(r.jobs).version]
        /\ Put(p, [Done(r) EXCEPT !.at = "ready", !.applied = FALSE])
        /\ UNCHANGED left
     \/ disk' = Cleared /\ InstallFailed(p) /\ Trouble
  /\ UNCHANGED <<published, saved, helpers, proven>>

-----------------------------------------------------------------------------
(* The quit                                                                *)

(* begin_exit: does Pine Studio ask?                                       *)
Asks(r) == r.dirty \/ r.asked # "no"

(* The app exits; on_exit starts the helper when a restart was asked for.  *)
Exit(p, r) ==
  /\ Put(p, [r EXCEPT !.status = "exiting"])
  /\ \/ r.armed /\ r.at = "ready" /\ helpers' = helpers \cup {p} /\ UNCHANGED left
     \/ r.armed /\ r.at = "ready" /\ UNCHANGED helpers /\ Trouble
     \/ ~(r.armed /\ r.at = "ready") /\ UNCHANGED <<helpers, left>>

RequestQuit(p, r) ==
  \/ Asks(r) /\ Put(p, [r EXCEPT !.asked = "quit"]) /\ UNCHANGED <<helpers, left>>
  \/ ~Asks(r) /\ Exit(p, r)

CallOffQuitArmed(r) == [r EXCEPT !.asked = "no"]

CallOffQuit(r) == [r EXCEPT !.asked = "no", !.armed = FALSE]

Quit(p) ==
  /\ Free(p) /\ RequestQuit(p, procs[p])
  /\ UNCHANGED <<disk, published, saved, proven>>

Edit(p) ==
  /\ Free(p) /\ procs[p].asked = "no"
  /\ \E dirty \in BOOLEAN : dirty # procs[p].dirty /\ Put(p, [procs[p] EXCEPT !.dirty = dirty])
  /\ UNCHANGED <<disk, published, saved, helpers, proven, left>>

(* Closing the Pine Studio tab asks too, under the question already open.  *)
AskClose(p) ==
  /\ Free(p) /\ Asks(procs[p])
  /\ (CloseWhileAsked \/ procs[p].asked # "quit")
  /\ Put(p, [procs[p] EXCEPT !.asked = "close"])
  /\ UNCHANGED <<disk, published, saved, helpers, proven, left>>

(* Saved or given up, and the quit or the close goes on.  Where the app    *)
(* quits with its last tab, closing that tab is an exit.                   *)
Proceed(p) ==
  LET r == [procs[p] EXCEPT !.asked = "no", !.dirty = FALSE] IN
  /\ Free(p)
  /\ \/ procs[p].asked = "quit" /\ RequestQuit(p, r)
     \/ procs[p].asked = "close" /\ Put(p, r) /\ UNCHANGED <<helpers, left>>
     \/ procs[p].asked = "close" /\ Exit(p, r)
  /\ UNCHANGED <<disk, published, saved, proven>>

(* Cancel, or a script that could not be saved.                            *)
Cancel(p) ==
  /\ Free(p)
  /\ \/ procs[p].asked = "quit" /\ Put(p, CallOffQuit(procs[p]))
     \/ procs[p].asked = "close" /\ Put(p, [procs[p] EXCEPT !.asked = "no"])
  /\ UNCHANGED <<disk, published, saved, helpers, proven, left>>

-----------------------------------------------------------------------------
(* The swap                                                                *)

SwapFailed(p) == Put(p, [procs[p] EXCEPT !.at = "failed", !.swapping = FALSE])

(* "Restart Now": the first rename moves the app aside.                    *)
Restart(p) ==
  /\ Free(p) /\ procs[p].at = "ready" /\ ~procs[p].applied
  /\ \/ /\ disk.app # 0
        /\ disk' = [disk EXCEPT !.app = 0, !.old = disk.app]
        /\ Put(p, [procs[p] EXCEPT !.swapping = TRUE]) /\ UNCHANGED left
     \/ /\ SwapFailed(p) /\ UNCHANGED disk
        /\ Troubles(IF disk.old # 0 THEN 0 ELSE Cost(disk.app))
  /\ UNCHANGED <<published, saved, helpers, proven>>

PlacedUnmarked(r) == [r EXCEPT !.swapping = FALSE, !.armed = TRUE]

Placed(r) == [r EXCEPT !.swapping = FALSE, !.applied = TRUE, !.armed = TRUE]

(* The second rename puts the new version in place, and the app is asked   *)
(* to quit; or it fails and the first is undone, when that does not fail.  *)
PutInPlace(p) ==
  /\ procs[p].status = "running" /\ procs[p].swapping
  /\ \/ /\ disk.new # 0
        /\ disk' = [disk EXCEPT !.app = disk.new, !.new = 0]
        /\ RequestQuit(p, Placed(procs[p]))
     \/ /\ disk.old # 0 /\ Troubles(Cost(disk.new))
        /\ disk' = [disk EXCEPT !.app = disk.old, !.old = 0]
        /\ SwapFailed(p) /\ UNCHANGED helpers
     \/ /\ Troubles(Cost(disk.new) + Cost(disk.old))
        /\ SwapFailed(p) /\ UNCHANGED <<disk, helpers>>
  /\ UNCHANGED <<published, saved, proven>>

(* Asked for again after a quit that was called off: no second swap.       *)
RestartAgain(p) ==
  /\ Free(p) /\ procs[p].at = "ready" /\ procs[p].applied
  /\ RequestQuit(p, [procs[p] EXCEPT !.armed = TRUE])
  /\ UNCHANGED <<disk, published, saved, proven>>

-----------------------------------------------------------------------------
(* Processes                                                               *)

(* The database is open: the clean-up is queued and the version has shown  *)
(* that it starts.                                                         *)
Begin(p) ==
  /\ procs[p] = Off /\ disk.app # 0
  /\ Put(p, [Off EXCEPT !.status = "running", !.version = disk.app, !.clean = TRUE,
                        !.channel = IF saved = "none" THEN OwnChannel(disk.app) ELSE saved])
  /\ proven' = proven \cup {disk.app}

Open(p) ==
  /\ \/ SecondCopy
     \/ helpers = {} /\ \A q \in Process : ~Live(q)
  /\ Begin(p)
  /\ UNCHANGED <<disk, published, saved, helpers, left>>

CleanUp(p) ==
  /\ Live(p) /\ procs[p].clean
  /\ Put(p, [procs[p] EXCEPT !.clean = FALSE])
  /\ \/ disk' = Cleared /\ UNCHANGED left
     \/ UNCHANGED disk /\ Trouble
  /\ UNCHANGED <<published, saved, helpers, proven>>

Gone(p) ==
  /\ procs[p].status = "exiting" /\ Put(p, Off)
  /\ UNCHANGED <<disk, published, saved, helpers, proven, left>>

Crash(p) ==
  /\ Live(p) /\ Put(p, Off) /\ Trouble
  /\ UNCHANGED <<disk, published, saved, helpers, proven>>

MayOpenAnyway(p) == TRUE

MayOpen(p) == ~Live(p)

(* The helper that waited for p opens whatever is in the app's place.      *)
Relaunch(p, q) ==
  /\ p \in helpers /\ MayOpen(p) /\ Begin(q)
  /\ helpers' = helpers \ {p}
  /\ UNCHANGED <<disk, published, saved, left>>

(* It gives up on a process that will not go, and a build may not start.   *)
GiveUp(p) ==
  /\ p \in helpers
  /\ Troubles(IF Live(p) THEN 0 ELSE Cost(disk.app))
  /\ helpers' = helpers \ {p}
  /\ UNCHANGED <<disk, published, saved, procs, proven>>

(* What the error asks of the user; or a build that never starts is taken  *)
(* back.                                                                   *)
PutBack ==
  /\ disk.old # 0 /\ helpers = {}
  /\ \/ disk.app = 0 /\ \A p \in Process : ~procs[p].swapping
     \/ disk.app \notin proven /\ \A p \in Process : ~Live(p)
  /\ disk' = [disk EXCEPT !.app = disk.old, !.old = 0]
  /\ UNCHANGED <<published, saved, procs, helpers, proven, left>>

Publish(v) ==
  /\ v \notin published /\ published' = published \cup {v}
  /\ UNCHANGED <<disk, saved, procs, helpers, proven, left>>

Runs(p) ==
  \/ Tick(p) \/ CheckNow(p) \/ (\E c \in Channel : SetChannel(p, c)) \/ Install(p)
  \/ Answer(p) \/ Clear(p) \/ Unpack(p)
  \/ Quit(p) \/ Edit(p) \/ AskClose(p) \/ Proceed(p) \/ Cancel(p)
  \/ Restart(p) \/ PutInPlace(p) \/ RestartAgain(p)
  \/ Open(p) \/ CleanUp(p) \/ Gone(p) \/ Crash(p) \/ GiveUp(p)
  \/ \E q \in Process : Relaunch(p, q)

Init ==
  /\ disk = [app |-> 1, new |-> 0, old |-> 0]
  /\ published = {} /\ saved = "none"
  /\ procs = [p \in Process |-> Off]
  /\ helpers = {} /\ proven = {1}
  /\ left = [troubles |-> MaxTroubles, switches |-> MaxSwitches]

Next == PutBack \/ (\E v \in Version : Publish(v)) \/ \E p \in Process : Runs(p)

Spec == Init /\ [][Next]_vars

(* The worker and the queues run, a swap that began ends, and a check that *)
(* fell due starts at the first frame that finds no install under way.     *)
Fairness ==
  \A p \in Process :
    /\ WF_vars(Answer(p)) /\ WF_vars(Clear(p)) /\ WF_vars(Unpack(p))
    /\ WF_vars(CleanUp(p)) /\ WF_vars(PutInPlace(p)) /\ SF_vars(Tick(p))

FairSpec == Spec /\ Fairness

-----------------------------------------------------------------------------
(* Properties                                                              *)

(* Every variable keeps its type, and the update worker never has more to  *)
(* do than one check and one install (start_check, install).               *)
TypeOK ==
  /\ disk \in [app : 0..MaxVersion, new : 0..MaxVersion, old : 0..MaxVersion]
  /\ published \subseteq Version /\ saved \in Channel \cup {"none"}
  /\ procs \in [Process -> Running] /\ \A p \in Process : Len(procs[p].jobs) <= 2
  /\ helpers \subseteq Process /\ proven \subseteq Version
  /\ left \in [troubles : Nat, switches : Nat]

(* No failed rename, crash or retry leaves the user without an app: a copy *)
(* is in its place or set aside (swap_paths, keep_only_copy).              *)
OneCopyLeft == disk.app # 0 \/ disk.old # 0

(* Until a version put in place has started once, the one it replaced is   *)
(* kept beside it, so that a build that never launches can be taken back   *)
(* (the header of self_update/mod.rs; restart_with swaps only once).       *)
PreviousKept == disk.app # 0 /\ disk.app \notin proven => disk.old \in proven

(* Two processes never have the database open (the helper's wait).         *)
OneDatabase == \A p, q \in Process : Live(p) /\ Live(q) => p = q

(* A relaunch stays armed only while the quit it belongs to goes on: it is *)
(* being asked about, or the app is exiting (restart_with, call_off_quit,  *)
(* disarm_relaunch).                                                       *)
ArmedWhileQuitting ==
  \A p \in Process : procs[p].armed => procs[p].asked # "no" \/ procs[p].status = "exiting"

(* What is offered, and not being installed yet, is newer than what runs   *)
(* and belongs to the channel chosen now, however answers and switches     *)
(* cross (set_channel, finish_check).                                      *)
OfferFits ==
  \A p \in Process :
    procs[p].offer # 0 =>
      procs[p].offer > procs[p].version /\ Accepts(procs[p].channel, procs[p].offer)

(* The newest release for the chosen channel is offered in the end,        *)
(* whatever install failed before it, unless an update already waits for   *)
(* its restart (check_due).                                                *)
Noticed ==
  \A p \in Process, v \in Version :
    procs[p].status = "running" /\ Pick(procs[p].channel, procs[p].version) = v
      ~> \/ procs[p].status # "running" \/ procs[p].at = "ready" \/ procs[p].offer = v
         \/ Pick(procs[p].channel, procs[p].version) # v
=============================================================================
