----------------------------- MODULE HerdWatch ------------------------------
(***************************************************************************)
(* How the bridge watches the herd: the polling engine                     *)
(* (bridge/state-engine.ts), the event stream that pokes it                *)
(* (EventPoker), the notifications its transitions drive (Notifications)   *)
(* and the wiring of the three (bridge/index.ts).                          *)
(*                                                                         *)
(* Herdr is the variable `world`: the status it reports for each pane, and *)
(* `card`: a dialog on the screen that its status does not tell.           *)
(***************************************************************************)
EXTENDS Integers, FiniteSets

CONSTANTS
  Panes,
  SniffSets,   \* what a harness's sniffer may be: the raw statuses it reads the screen at
  MaxChanges,  \* bound on changes of the world
  MaxFaults    \* bound on failed and partial polls, failed reads, lost streams

ASSUME WatchAssumption == MaxChanges \in Nat /\ MaxFaults \in Nat

INSTANCE EventPoker
INSTANCE Notifications

Status == {"working", "blocked", "done"}
Seen == Status \cup {"gone"}

VARIABLES
  sniffAt,                     \* per pane, the raw statuses at which its screen is read
  world, card,                 \* Herdr
  phase,                       \* the poll: "idle", "fetch", "read", "enrich"
  queued,                      \* queuedPoll
  got,                         \* what the poll in flight has: raw statuses, then published ones
  prev, hold, sniff,           \* prevStatus, statusHold, dialogSniffs
  agents, link,                \* the published herd and the state of the link
  slow, retryTimer, cadence,   \* transientFailures, the short retry, the poll interval
  pk, ev, debounce,            \* the poker, an event under way, its debounce
  al, prefs, saving,           \* the alerts; the kinds that push; a preference being saved
  \* History.
  changes,
  owe, covers,                 \* a poke is not answered yet; the poll in flight read after it
  entered, cut, unapplied, faults

engine == <<phase, queued, got, prev, hold, sniff, agents, link, slow, retryTimer, cadence>>
vars == <<sniffAt, world, card, engine, pk, ev, debounce, al, prefs, saving,
          changes, owe, covers, entered, cut, unapplied, faults>>

\* Every variable keeps its type.
TypeOK ==
  /\ sniffAt \in [Panes -> SniffSets]
  /\ world \in [Panes -> Seen] /\ card \in [Panes -> BOOLEAN]
  /\ phase \in {"idle", "fetch", "read", "enrich"} /\ queued \in BOOLEAN
  /\ got \in [Panes -> Seen] /\ prev \in [Panes -> Seen] /\ agents \in [Panes -> Seen]
  /\ hold \in [Panes -> {"no", "young", "ripe"}]
  /\ sniff \in [Panes -> {"none", "clean", "stale", "dialog"}]
  /\ link \in BOOLEAN /\ slow \in 0..1 /\ retryTimer \in BOOLEAN
  /\ cadence \in {"fast", "idle"}
  /\ pk \in Poker /\ ev \in BOOLEAN /\ debounce \in BOOLEAN
  /\ al \in Alerts /\ prefs \subseteq Notifiable /\ saving \in BOOLEAN
  /\ changes \in 0..MaxChanges /\ owe \in BOOLEAN /\ covers \in BOOLEAN
  /\ entered \subseteq Panes
  /\ cut \subseteq Panes /\ unapplied \subseteq Panes /\ faults \in 0..MaxFaults

Live(f) == {p \in Panes : f[p] # "gone"}

-----------------------------------------------------------------------------
\* engineCadence: relaxed only while the stream is healthy and every agent rests.
EngineCadence(healthy, herd) ==
  IF healthy /\ \A p \in Panes : herd[p] \notin {"working", "blocked"} THEN "idle" ELSE "fast"

Init ==
  /\ sniffAt \in [Panes -> SniffSets]
  /\ world = [p \in Panes |-> "working"] /\ card = [p \in Panes |-> FALSE]
  /\ phase = "fetch" /\ queued = FALSE /\ got = [p \in Panes |-> "gone"]
  /\ prev = got /\ agents = got
  /\ hold = [p \in Panes |-> "no"] /\ sniff = [p \in Panes |-> "none"]
  /\ link = FALSE /\ slow = 0 /\ retryTimer = FALSE /\ cadence = "fast"
  /\ pk = Connect([stream |-> 0, open |-> {}, up |-> FALSE, healthy |-> FALSE,
                   backedOff |-> FALSE, stable |-> FALSE, timer |-> FALSE, panes |-> {},
                   subs |-> {}, droppedPanes |-> {}, droppedType |-> FALSE])
  /\ ev = FALSE /\ debounce = FALSE
  /\ al = NoAlerts /\ prefs = Notifiable /\ saving = FALSE
  /\ changes = 0 /\ owe = FALSE /\ covers = FALSE /\ entered = {} /\ cut = {} /\ unapplied = {} /\ faults = 0

Fault == faults < MaxFaults /\ faults' = faults + 1

-----------------------------------------------------------------------------
(* Herdr. *)

\* A pane changes: an event goes out when the stream has a subscription for it, of the
\* pane for its status, of the global types for its coming and going.
Change(p, s) ==
  /\ changes < MaxChanges /\ world[p] # s
  /\ changes' = changes + 1
  /\ world' = [world EXCEPT ![p] = s] /\ card' = [card EXCEPT ![p] = FALSE]
  /\ ev' = (ev \/ /\ pk.up
                  /\ IF "gone" \in {s, world[p]} THEN ~pk.droppedType ELSE p \in pk.subs)
  /\ UNCHANGED <<sniffAt, engine, pk, debounce, al, prefs, saving, owe, covers, entered, cut, unapplied, faults>>

\* A dialog appears or is answered, and Herdr's status does not follow.
Card(p) ==
  /\ changes < MaxChanges /\ world[p] \in sniffAt[p]
  /\ changes' = changes + 1 /\ card' = [card EXCEPT ![p] = ~@]
  /\ UNCHANGED <<sniffAt, world, engine, pk, ev, debounce, al, prefs, saving,
                 owe, covers, entered, cut, unapplied, faults>>

-----------------------------------------------------------------------------
(* The engine. *)

\* As PokeNow, dropping a poke that meets a poll in flight.
PokeNowNoQueue ==
  IF phase = "idle" THEN phase' = "fetch" /\ UNCHANGED queued ELSE UNCHANGED <<phase, queued>>

\* pokeNow: a poke during a poll asks for one more.
PokeNow ==
  IF phase = "idle"
  THEN phase' = "fetch" /\ UNCHANGED queued
  ELSE queued' = TRUE /\ UNCHANGED phase

\* The interval or the short retry: skipped while a poll runs.
Tick ==
  /\ phase = "idle" /\ phase' = "fetch"
  /\ UNCHANGED <<sniffAt, world, card, queued, got, prev, hold, sniff, agents, link, slow, retryTimer,
                 cadence, pk, ev, debounce, al, prefs, saving,
                 changes, owe, covers, entered, cut, unapplied, faults>>

\* fetchWire answers; a partial answer misses the panes of `missing`.
Fetched(missing) ==
  /\ phase = "fetch" /\ phase' = "read"
  /\ IF missing = {} THEN UNCHANGED faults ELSE Fault /\ missing \subseteq Live(world)
  /\ got' = [p \in Panes |-> IF p \in missing THEN "gone" ELSE world[p]]
  /\ covers' = TRUE
  /\ UNCHANGED <<sniffAt, world, card, queued, prev, hold, sniff, agents, link, slow, retryTimer, cadence,
                 pk, ev, debounce, al, prefs, saving, changes, owe, entered, cut, unapplied>>

Candidate(p) == got[p] \in sniffAt[p]

\* The candidates whose screen is read now: no verdict, a dialog, a working pane, or a
\* verdict whose revision moved or whose TTL is over.
ToRead == {p \in Panes : Candidate(p) /\ (sniff[p] # "clean" \/ got[p] = "working")}

\* sniffDialogs: the reads of `failed` do not come back, and their verdicts stand.
Sniffed(failed) ==
  [p \in Panes |-> IF ~Candidate(p) THEN "none"
                   ELSE IF p \in ToRead \ failed THEN IF card[p] THEN "dialog" ELSE "clean"
                   ELSE sniff[p]]

\* As Held, with the wait started anew by every poll.
HeldRestarts(raw) ==
  [p \in Panes |-> IF prev[p] = "working" /\ raw[p] = "done"
                   THEN [status |-> "working", hold |-> "young"]
                   ELSE [status |-> raw[p], hold |-> "no"]]

\* applyStatusHold: `working` is published until a rest has lasted.
Held(raw) ==
  [p \in Panes |->
     IF prev[p] = "working" /\ raw[p] = "done"
     THEN IF hold[p] = "ripe" THEN [status |-> "done", hold |-> "no"]
          ELSE [status |-> "working", hold |-> "young"]
     ELSE [status |-> raw[p], hold |-> "no"]]

\* The screens are read, then holds, transitions and removals, in one step: the
\* listeners hear of each transition before the new herd is published.
Compare(failed) ==
  /\ phase = "read" /\ phase' = "enrich"
  /\ IF failed = {} THEN UNCHANGED faults ELSE Fault /\ failed \subseteq ToRead
  /\ LET verdict == Sniffed(failed)
         raw == [p \in Panes |-> IF verdict[p] = "dialog" THEN "blocked" ELSE got[p]]
         held == Held(raw)
         new == [p \in Panes |-> held[p].status]
         moved == {p \in Panes : prev[p] # "gone" /\ new[p] \notin {"gone", prev[p]}}
         removed == {p \in Panes : prev[p] # "gone" /\ new[p] = "gone"}
     IN /\ sniff' = [p \in Panes |-> IF p \in removed THEN "none" ELSE verdict[p]]
        /\ hold' = [p \in Panes |-> held[p].hold]
        /\ got' = new /\ prev' = new
        /\ al' = Resolved(Transitioned(al, prefs, moved, new), removed)
        /\ entered' = (entered \ (moved \cup removed)) \cup {p \in moved : new[p] \in prefs}
        /\ cut' = cut \ (moved \cup removed)
        /\ unapplied' = unapplied \ (removed \cup {p \in moved : new[p] \notin prefs})
  /\ UNCHANGED <<sniffAt, world, card, queued, agents, link, slow, retryTimer, cadence, pk, ev, debounce,
                 prefs, saving, changes, owe, covers>>

\* The `finally` of a poll: the follow-up a poke asked for.
PollEnds ==
  /\ phase' = IF queued THEN "fetch" ELSE "idle"
  /\ queued' = FALSE

\* The names are read; the herd is published; the poker follows it, then the cadence.
Publish ==
  /\ phase = "enrich" /\ PollEnds
  /\ agents' = got /\ link' = TRUE /\ slow' = 0 /\ retryTimer' = FALSE
  /\ pk' = SetAgentPanes(pk, Live(got))
  /\ ev' = (ev /\ pk'.up)
  /\ cadence' = EngineCadence(pk'.healthy, got)
  /\ owe' = (owe /\ ~covers) /\ covers' = FALSE
  /\ got' = [p \in Panes |-> "gone"]
  /\ UNCHANGED <<sniffAt, world, card, prev, hold, sniff, debounce, al, prefs, saving,
                 changes, entered, cut, unapplied, faults>>

\* Herdr answers late while the link is up: the first time is absorbed.
Absorbed(transient) == link /\ transient /\ slow = 0

\* The poll fails, with a timeout or for good.
PollFails(transient) ==
  /\ phase = "fetch" /\ Fault /\ PollEnds
  /\ link' = (link /\ Absorbed(transient))
  /\ slow' = IF Absorbed(transient) THEN slow + 1 ELSE 0
  /\ retryTimer' = (Absorbed(transient) /\ (retryTimer \/ cadence = "idle"))
  /\ owe' = (owe /\ queued) /\ covers' = FALSE
  /\ UNCHANGED <<sniffAt, world, card, got, prev, hold, sniff, agents, cadence, pk, ev, debounce, al,
                 prefs, saving, changes, entered, cut, unapplied>>

\* Time: a rest has lasted 3 s; a clean verdict is past its TTL, or the revision moved.
Ripen(p) ==
  /\ hold[p] = "young" /\ hold' = [hold EXCEPT ![p] = "ripe"]
  /\ UNCHANGED <<sniffAt, world, card, phase, queued, got, prev, sniff, agents, link, slow, retryTimer,
                 cadence, pk, ev, debounce, al, prefs, saving,
                 changes, owe, covers, entered, cut, unapplied, faults>>

Expire(p) ==
  /\ sniff[p] = "clean" /\ sniff' = [sniff EXCEPT ![p] = "stale"]
  /\ UNCHANGED <<sniffAt, world, card, phase, queued, got, prev, hold, agents, link, slow, retryTimer,
                 cadence, pk, ev, debounce, al, prefs, saving,
                 changes, owe, covers, entered, cut, unapplied, faults>>

-----------------------------------------------------------------------------
(* The event stream. *)

\* onHealth: the cadence follows the stream.
Stream(new) ==
  /\ pk' = new
  /\ ev' = (ev /\ new.up)
  /\ cadence' = IF new.healthy = pk.healthy THEN cadence ELSE EngineCadence(new.healthy, agents)
  /\ UNCHANGED <<sniffAt, world, card, phase, queued, got, prev, hold, sniff, agents, link, slow,
                 retryTimer, debounce, al, prefs, saving, changes, owe, covers, entered, cut, unapplied>>

StreamUp == pk.stream # 0 /\ ~pk.up /\ Stream(OnUp(pk)) /\ UNCHANGED faults

\* The stream is lost, or a server refuses what it does not know.
StreamDown(why) ==
  /\ pk.stream # 0 /\ Fault
  /\ why.t # "lost" => ~pk.up
  /\ Stream(OnDown(pk, pk.stream, why))

ReconnectTimer == pk.timer /\ Stream(OnReconnectTimer(pk)) /\ UNCHANGED faults

StableTimer == pk.stable /\ Stream(OnStable(pk)) /\ UNCHANGED faults

\* An event (re)starts the debounce ...
Event ==
  /\ ev /\ ev' = FALSE /\ debounce' = TRUE
  /\ UNCHANGED <<sniffAt, world, card, engine, pk, al, prefs, saving,
                 changes, owe, covers, entered, cut, unapplied, faults>>

\* ... whose end pokes the engine.
Poke ==
  /\ debounce /\ debounce' = FALSE
  /\ PokeNow /\ owe' = TRUE /\ covers' = FALSE
  /\ UNCHANGED <<sniffAt, world, card, got, prev, hold, sniff, agents, link, slow, retryTimer, cadence,
                 pk, ev, al, prefs, saving, changes, entered, cut, unapplied, faults>>

-----------------------------------------------------------------------------
(* The notifications. *)

\* The debounce of an alert ends.
Alert(p) ==
  /\ al.pend[p] # "none" /\ al' = Fired(al, p)
  /\ unapplied' = IF al.pend[p] \in prefs THEN unapplied \ {p} ELSE unapplied
  /\ UNCHANGED <<sniffAt, world, card, engine, pk, ev, debounce, prefs, saving,
                 changes, owe, covers, entered, cut, faults>>

\* notifyPrefsRoute: the store changes at once, perhaps to what it is already, and is saved
\* (one save at a time) ...
SetPrefs(new) ==
  /\ ~saving /\ saving' = TRUE /\ Fault
  /\ prefs' = new
  /\ entered' = {p \in entered : prev[p] \in new}
  /\ UNCHANGED <<sniffAt, world, card, engine, pk, ev, debounce, al, changes, owe, covers, cut, unapplied>>

\* ... then the alerts follow ...
PrefsSaved ==
  /\ saving /\ saving' = FALSE
  /\ al' = AppliedPrefs(al, prefs)
  /\ cut' = cut \cup {p \in Panes : al.pend[p] \in Notifiable \ prefs /\ al.out[p] # "none"}
  /\ unapplied' = {}
  /\ UNCHANGED <<sniffAt, world, card, engine, pk, ev, debounce, prefs,
                 changes, owe, covers, entered, faults>>

OfKindsOn(p) == {al.pend[p], al.out[p]} \subseteq prefs \cup {"none"}

\* ... or the write throws: the store keeps the change and the alerts hear nothing of it.
PrefsLost ==
  /\ saving /\ saving' = FALSE
  /\ unapplied' = {p \in Panes : ~OfKindsOn(p)}
  /\ UNCHANGED <<sniffAt, world, card, engine, pk, ev, debounce, al, prefs,
                 changes, owe, covers, entered, cut, faults>>

-----------------------------------------------------------------------------
Refusals == {Lost, [t |-> "type", panes |-> {}]} \cup {[t |-> "panes", panes |-> S] : S \in {pk.panes} \cup {{p} : p \in pk.panes}}

Next ==
  \/ \E p \in Panes, s \in Seen : Change(p, s)
  \/ \E p \in Panes : Card(p) \/ Ripen(p) \/ Expire(p) \/ Alert(p)
  \/ Tick \/ Publish
  \/ \E S \in SUBSET Panes : Fetched(S) \/ Compare(S)
  \/ \E transient \in BOOLEAN : PollFails(transient)
  \/ StreamUp \/ ReconnectTimer \/ StableTimer \/ Event \/ Poke
  \/ \E why \in Refusals : StreamDown(why)
  \/ \E new \in SUBSET Notifiable : SetPrefs(new)
  \/ PrefsSaved \/ PrefsLost

Spec == Init /\ [][Next]_vars

\* Timers fire and calls come back; Herdr and the operator need do nothing.
FairSpec ==
  /\ Spec
  /\ WF_vars(Tick) /\ WF_vars(Fetched({})) /\ WF_vars(Compare({})) /\ WF_vars(Publish)
  /\ \A p \in Panes : WF_vars(Ripen(p)) /\ WF_vars(Expire(p)) /\ WF_vars(Alert(p))

-----------------------------------------------------------------------------
(* Properties. *)

\* A poke is never lost: the world it was about is published, or a poll that has read
\* it, or will, is on its way, whatever poll it met.  A poll that fails owes nothing:
\* the interval comes again.
PokeIsAnswered ==
  owe => queued \/ phase = "fetch" \/ (phase \in {"read", "enrich"} /\ covers)

\* One event stream at a time, and a reconnect is scheduled only while there is none:
\* however re-subscribing, losing the stream and refusals interleave, no socket is left
\* behind and none is missing for good.  The polls slow down only while that stream is
\* marked healthy (as it stays through a re-subscribing) and nothing is at work, and only
\* while it is may the backoff be forgiven.
OneStream ==
  /\ pk.open = {pk.stream} \ {0}
  /\ pk.timer <=> pk.stream = 0
  /\ pk.stable => pk.healthy
  /\ cadence = "idle" => pk.healthy /\ \A p \in Panes : agents[p] \in {"done", "gone"}

\* No alert lingers: what is shown, or is about to be, is of a pane whose last published
\* status it names, or is about to be replaced by one; and of a kind that is on, unless
\* the preference that turned it off is still being saved.  Two kinds of panes are
\* excluded: `cut`, whose newer alert a preference dropped (the older one stays out, of a
\* status its pane has left, until the next transition), and, from the last clause,
\* `unapplied`, with an alert of a kind whose turning off could not be saved
\* (notify-routes.ts:32-33: it stays until a save succeeds, or its pane moves on).
NoAlertLingers ==
  \A p \in Panes :
    /\ al.pend[p] # "none" => al.pend[p] = prev[p]
    /\ al.out[p] # "none" /\ p \notin cut => prev[p] \in {al.out[p], al.pend[p]}
    /\ ~saving /\ p \notin unapplied => OfKindsOn(p)

\* No alert is missed: a pane that came to a notifiable status, and stayed, is in the
\* summary or in its debounce.
NoAlertMissed ==
  \A p \in entered : prev[p] \in prefs => prev[p] \in {al.out[p], al.pend[p]}

\* The herd settles: once Herdr rests and nothing fails, what is published is what Herdr
\* says, with a dialog on the screen read as blocked, and every alert is out.
TrueStatus(p) == IF card[p] /\ world[p] \in sniffAt[p] THEN "blocked" ELSE world[p]
HerdSettles ==
  <>[]( /\ link
        /\ \A p \in Panes : agents[p] = TrueStatus(p) /\ al.pend[p] = "none")
=============================================================================
