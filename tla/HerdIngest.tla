----------------------------- MODULE HerdIngest -----------------------------
(***************************************************************************)
(* Panes become threads: the herd ingest (bridge/threads/herd-ingest.ts),  *)
(* the spawn that makes a pane and its thread ahead of the ingest          *)
(* (bridge/threads/spawn.ts), the shelf commands (bridge/threads/decide.ts *)
(* and auto-settle.ts), and the projection all three write.                *)
(*                                                                         *)
(* Herdr is `world`: per pane its terminal (0: not open), whether an agent *)
(* runs in it, and the status it reports.  A pane id is never used again;  *)
(* a pane may get a new terminal.  All panes are in one workspace.         *)
(***************************************************************************)
EXTENDS Integers, Sequences, FiniteSets, SequencesExt

CONSTANTS
  Panes,
  Turns,        \* statuses an agent turns to
  Shelves,      \* where the operator puts a thread: a subset of the shelves
  MaxTerms,     \* bound on terminals made
  MaxChanges,   \* bound on changes of the world
  MaxFaults,    \* bound on failed and partial polls, failed spawns and restarts of the bridge
  MaxActs,      \* bound on the operator's commands
  MaxLate       \* bound on branch lookups that outlive a poll

ASSUME IngestAssumption ==
  /\ IsFiniteSet(Panes)
  /\ Turns \subseteq {"working", "blocked", "rest"}
  /\ Shelves \subseteq {"pinned", "snoozed", "settled", "archived"}
  /\ {MaxTerms, MaxChanges, MaxFaults, MaxActs, MaxLate} \subseteq Nat /\ MaxTerms # 0

VARIABLES
  world, born, terms,        \* Herdr: the panes, those it ever had, terminals made
  wire,                      \* the poll in flight: what it read
  snap, link,                \* the engine's published herd and its link
  lookup,                    \* the branch lookup in flight: the snapshot it was asked with
  threads,                   \* the store's threads, by creation
  proj,                      \* the store's project
  first, missing, missingProject,   \* the ingestor's memory
  job,                       \* per pane, the spawn at work
  closing,                   \* the thread.pane.close at work: its thread, and its shelf when read
  \* History.
  changes, faults, acts, late,
  orphans                    \* threads whose spawn died with the bridge, or ended while they
                             \* were archived

herd == <<world, born, terms>>
engine == <<wire, snap, link, lookup>>
store == <<threads, proj>>
memory == <<first, missing, missingProject>>
hist == <<changes, faults, acts, late, orphans>>
vars == <<herd, engine, store, memory, job, closing, hist>>

Pane == [term : 0..MaxTerms, agent : BOOLEAN, st : {"working", "blocked", "rest"}]
NoPane == [term |-> 0, agent |-> FALSE, st |-> "rest"]

Status == {"starting", "working", "input", "failed", "idle"}
Shelf == {"active", "pinned", "snoozed", "due", "settled", "archived", "deleted"}
Reason == {"none", "user", "pane-closed", "closed-while-down", "terminal-replaced", "spawn-failed"}
\* `term` 0: no terminal yet.  Shelf "due": snoozed, and its time has come.  "deleted":
\* the row is gone.  `young`: updated within STARTING_GRACE_MS.
Thread == [pane : Panes, term : 0..MaxTerms, status : Status, shelf : Shelf,
           why : Reason, alive : BOOLEAN, young : BOOLEAN]
Job == [at : {"none", "asked", "prompt", "start", "wait", "failed", "closed"},
        term : 0..MaxTerms, of : Nat]
NoJob == [at |-> "none", term |-> 0, of |-> 0]
NoClosing == [of |-> 0, archived |-> FALSE]

\* Every variable keeps its type, and a reason goes with the archived shelf.
TypeOK ==
  /\ world \in [Panes -> Pane] /\ born \subseteq Panes /\ terms \in 0..MaxTerms
  /\ snap \in [Panes -> Pane] /\ link \in BOOLEAN
  /\ wire \in Seq([Panes -> Pane]) /\ Len(wire) <= 1
  /\ lookup \in Seq([Panes -> Pane]) /\ Len(lookup) <= 1
  /\ threads \in Seq(Thread)
  /\ proj \in [known : BOOLEAN, open : BOOLEAN, status : Status]
  /\ first \in BOOLEAN /\ missing \subseteq DOMAIN threads /\ missingProject \in BOOLEAN
  /\ job \in [Panes -> Job] /\ closing \in [of : Nat, archived : BOOLEAN] /\ orphans \subseteq DOMAIN threads
  /\ \A i \in DOMAIN threads :
        threads[i].shelf # "deleted" => (threads[i].shelf = "archived") = (threads[i].why # "none")

-----------------------------------------------------------------------------
(* The diff. *)

Open(t) == t.shelf \notin {"archived", "deleted"}

\* threadStatusFor; approval and input are one here, as are done and idle.
ThreadStatusFor(st, previous) ==
  CASE st = "working" -> "working"
    [] st = "blocked" -> "input"
    [] OTHER -> IF previous = "failed" THEN "failed" ELSE "idle"

\* As ClaimOf, with the archived threads left out.
ClaimOfOpen(ts, s, p) ==
  LET here == {i \in DOMAIN ts : ts[i].pane = p /\ Open(ts[i])}
      loose == {i \in here : ts[i].term = 0}
      exact == {i \in here : ts[i].term = s[p].term}
  IN IF s[p].term = 0 THEN 0
     ELSE IF exact # {} THEN CHOOSE i \in exact : TRUE
     ELSE IF loose # {} THEN CHOOSE i \in loose : \A k \in loose : i <= k
     ELSE 0

\* The thread of a listed pane: the one with its terminal, archived or not, else one
\* that a spawn made before the terminal was known.  0: none.
ClaimOf(ts, s, p) ==
  LET here == {i \in DOMAIN ts : ts[i].pane = p /\ ts[i].shelf # "deleted"}
      loose == {i \in here : ts[i].term = 0 /\ Open(ts[i])}
      exact == {i \in here : ts[i].term = s[p].term}
  IN IF s[p].term = 0 THEN 0
     ELSE IF exact # {} THEN CHOOSE i \in exact : TRUE
     ELSE IF loose # {} THEN CHOOSE i \in loose : \A k \in loose : i <= k
     ELSE 0

\* An update of a row; only the age of a starting one is ever read.
Updated(t) == [t EXCEPT !.young = (t.status = "starting")]

Archived(t, reason) ==
  Updated([t EXCEPT !.shelf = "archived", !.why = reason, !.alive = FALSE])

\* As Claimed, whatever the reason.
ClaimedRevivesAll(t, s) ==
  LET revive == t.shelf = "archived"
      spawning == t.status = "starting" /\ ~s.agent
      status == IF spawning THEN "starting" ELSE ThreadStatusFor(s.st, t.status)
      finished == t.shelf \in {"snoozed", "due", "settled"} /\ t.status = "working" /\ status # "working"
      new == [t EXCEPT !.term = s.term, !.alive = TRUE, !.status = status,
                       !.shelf = IF revive \/ finished THEN "active" ELSE @,
                       !.why = "none"]
  IN IF revive /\ t.why = "none"
     THEN [t EXCEPT !.alive = TRUE]
     ELSE IF new = t THEN t ELSE Updated(new)

\* A thread whose pane the ingest gave up on too early comes back with its pane; one
\* archived for another reason stays.  A snoozed or settled one that ends its work
\* returns to the active list.
Claimed(t, s) ==
  LET revive == t.shelf = "archived"
      spawning == t.status = "starting" /\ ~s.agent
      status == IF spawning THEN "starting" ELSE ThreadStatusFor(s.st, t.status)
      finished == t.shelf \in {"snoozed", "due", "settled"} /\ t.status = "working" /\ status # "working"
      new == [t EXCEPT !.term = s.term, !.alive = TRUE, !.status = status,
                       !.shelf = IF revive \/ finished THEN "active" ELSE @,
                       !.why = "none"]
  IN IF revive /\ t.why \notin {"pane-closed", "closed-while-down"}
     THEN [t EXCEPT !.alive = TRUE]
     ELSE IF new = t THEN t ELSE Updated(new)

\* A thread whose pane is not listed.
Unlisted(t, i) ==
  CASE ~Open(t) -> IF t.why = "user" THEN [t EXCEPT !.alive = FALSE] ELSE t
    [] Open(t) /\ first -> Archived(t, "closed-while-down")
    [] Open(t) /\ ~first /\ i \in missing /\ ~(t.status = "starting" /\ t.young)
          -> Archived(t, "pane-closed")
    [] OTHER -> t

\* The threads found missing for the first time.
Missing(ts, s) ==
  {i \in DOMAIN ts \ missing :
      LET t == ts[i]
      IN /\ s[t.pane].term = 0 /\ Open(t) /\ ~first
         /\ ~(t.status = "starting" /\ t.young)}

Awake(t) == IF t.shelf = "due" THEN Updated([t EXCEPT !.shelf = "active"]) ELSE t

\* As Looked, taking an agent's exit for the end of its terminal.
LookedExit(ts, s, claim, i) ==
  LET t == ts[i]
      p == t.pane
  IN Awake(CASE s[p].term = 0 -> Unlisted(t, i)
             [] s[p].term # 0 /\ i = claim[p] /\ (s[p].agent \/ ~Open(t)) -> Claimed(t, s[p])
             [] s[p].term # 0 /\ (i # claim[p] \/ ~s[p].agent) /\ Open(t)
                   -> Archived(t, "terminal-replaced")
             [] OTHER -> t)

\* What a look at `s`, with the claims of its panes, makes of thread i.
Looked(ts, s, claim, i) ==
  LET t == ts[i]
      p == t.pane
  IN Awake(CASE s[p].term = 0 -> Unlisted(t, i)
             [] s[p].term # 0 /\ i = claim[p] -> Claimed(t, s[p])
             [] s[p].term # 0 /\ i # claim[p] /\ Open(t) -> Archived(t, "terminal-replaced")
             [] OTHER -> t)

Created(s, p) ==
  [pane |-> p, term |-> s[p].term, status |-> ThreadStatusFor(s[p].st, "idle"),
   shelf |-> "active", why |-> "none", alive |-> TRUE, young |-> FALSE]

\* worstStatus over the threads of the active list.
Worst(ts) ==
  LET on == {ts[i].status : i \in {k \in DOMAIN ts : ts[k].shelf \in {"active", "pinned"}}}
      rank == <<"input", "failed", "working", "idle", "starting">>
  IN IF on = {} THEN "idle"
     ELSE rank[CHOOSE k \in 1..5 : rank[k] \in on /\ \A j \in 1..(k - 1) : rank[j] \notin on]

\* The project: upserted while it is listed, closed at the second look without it.
Project(listed, ts) ==
  [known |-> proj.known \/ listed,
   open |-> listed \/ (proj.open /\ ~first /\ ~missingProject),
   status |-> IF proj.known \/ listed THEN Worst(ts) ELSE proj.status]

\* reconcile: diffHerd against the store (`ts`, what it holds by now), one append, and what was missing is kept for
\* the next look.
Reconcile(ts, s) ==
  LET claim == [p \in Panes |-> ClaimOf(ts, s, p)]
      fresh == {p \in Panes : s[p].term # 0 /\ claim[p] = 0}
      new == [i \in DOMAIN ts |-> Looked(ts, s, claim, i)]
               \o SetToSeq({Created(s, p) : p \in fresh})
      listed == \E p \in Panes : s[p].term # 0
  IN /\ threads' = new
     /\ missing' = Missing(ts, s)
     /\ proj' = Project(listed, new)
     /\ missingProject' = (~listed /\ proj.open /\ ~first /\ ~missingProject)
     /\ first' = FALSE

-----------------------------------------------------------------------------
Init ==
  \* The herd may have had panes before the bridge.
  /\ \E old \in {{}, Panes} :
        /\ world = [p \in Panes |-> IF p \in old THEN [NoPane EXCEPT !.term = 1, !.agent = TRUE]
                                    ELSE NoPane]
        /\ born = old /\ terms = IF old = {} THEN 0 ELSE 1
  /\ wire = <<>> /\ snap = [p \in Panes |-> NoPane] /\ link = FALSE /\ lookup = <<>>
  /\ threads = <<>> /\ proj = [known |-> FALSE, open |-> FALSE, status |-> "idle"]
  /\ first = TRUE /\ missing = {} /\ missingProject = FALSE
  /\ job = [p \in Panes |-> NoJob] /\ closing = NoClosing
  /\ changes = 0 /\ faults = 0 /\ acts = 0 /\ late = 0 /\ orphans = {}

-----------------------------------------------------------------------------
(* Herdr and the operator at the desk. *)

Change == changes < MaxChanges /\ changes' = changes + 1
         /\ UNCHANGED <<engine, store, memory, job, closing, faults, acts, late, orphans>>

\* A pane is opened, or gets a new terminal.
NewTerminal(p) ==
  /\ Change
  /\ world[p].term # 0 \/ p \notin born
  /\ terms < MaxTerms /\ terms' = terms + 1
  /\ world' = [world EXCEPT ![p] = [term |-> terms + 1, agent |-> TRUE, st |-> "rest"]]
  /\ born' = born \cup {p}

PaneCloses(p) ==
  /\ Change /\ world[p].term # 0
  /\ world' = [world EXCEPT ![p] = NoPane]
  /\ UNCHANGED <<born, terms>>

\* An agent works, waits, rests, or exits and leaves the shell.
AgentTurns(p, st, agent) ==
  /\ Change /\ world[p].agent
  /\ world' = [world EXCEPT ![p].agent = agent, ![p].st = IF agent THEN st ELSE "rest"]
  /\ world' # world
  /\ UNCHANGED <<born, terms>>

-----------------------------------------------------------------------------
(* The engine, as the ingest sees it. *)

\* The fetch: a partial snapshot leaves out `lost`.
PollRead(lost) ==
  /\ wire = <<>>
  /\ lost # {} => faults < MaxFaults
  /\ faults' = IF lost = {} THEN faults ELSE faults + 1
  /\ wire' = <<[p \in Panes |-> IF p \in lost THEN NoPane ELSE world[p]]>>
  /\ UNCHANGED <<herd, snap, link, lookup, store, memory, job, closing, changes, acts, late, orphans>>

\* onUpdate: reconcile, then ask for the branches unless a lookup is under way.  At
\* most MaxLate lookups outlive a poll: past that the answer came before, unchanged.
PollPublish ==
  /\ wire # <<>> /\ wire' = <<>>
  /\ snap' = wire[1] /\ link' = TRUE
  /\ Reconcile(threads, wire[1])
  /\ lookup' = IF lookup = <<>> \/ late = MaxLate THEN wire ELSE lookup
  /\ late' = IF lookup = <<>> \/ late = MaxLate THEN late ELSE late + 1
  /\ UNCHANGED <<herd, job, closing, changes, faults, acts, orphans>>

PollFails ==
  /\ wire # <<>> /\ faults < MaxFaults /\ faults' = faults + 1
  /\ wire' = <<>> /\ link' = FALSE
  /\ UNCHANGED <<herd, snap, lookup, store, memory, job, closing, changes, acts, late, orphans>>

\* A branch changed: reconcile on the snapshot that asked.
BranchesResolved(changed) ==
  /\ lookup # <<>> /\ lookup' = <<>>
  /\ IF changed THEN Reconcile(threads, lookup[1]) ELSE UNCHANGED <<store, memory>>
  /\ UNCHANGED <<herd, wire, snap, link, job, closing, hist>>

\* A thread was opened or marked read: the route reconciles the current snapshot.
Seen ==
  /\ link /\ \E i \in DOMAIN threads : threads[i].shelf # "deleted"
  /\ Reconcile(threads, snap)
  /\ UNCHANGED <<herd, engine, job, closing, hist>>

\* The 60 s of grace of a starting thread pass.
GraceOver(i) ==
  /\ i \in DOMAIN threads /\ threads[i].young /\ threads[i].status = "starting"
  /\ threads' = [threads EXCEPT ![i].young = FALSE]
  /\ UNCHANGED <<herd, engine, proj, memory, job, closing, hist>>

\* The bridge restarts; the store stays, spawns at work are forgotten.
Restart ==
  /\ faults < MaxFaults /\ faults' = faults + 1
  /\ wire' = <<>> /\ snap' = [p \in Panes |-> NoPane] /\ link' = FALSE /\ lookup' = <<>>
  /\ first' = TRUE /\ missing' = {} /\ missingProject' = FALSE
  /\ orphans' = orphans \cup {job[p].of : p \in {q \in Panes : job[q].of # 0}}
  /\ job' = [p \in Panes |-> NoJob] /\ closing' = NoClosing
  /\ UNCHANGED <<herd, store, changes, acts, late>>

-----------------------------------------------------------------------------
(* The operator's commands (decide.ts, auto-settle.ts). *)

Act == acts < MaxActs /\ acts' = acts + 1
       /\ UNCHANGED <<herd, engine, proj, memory, job, closing, changes, faults, late, orphans>>

\* paneAlive of the routes: what the published herd says, nothing when the link is down.
PaneAlive(t) ==
  link /\ snap[t.pane].term # 0 /\ (t.term = 0 \/ snap[t.pane].term = t.term)

\* thread.pin, .snooze, .settle (and the auto-settler), .archive, and their undoing.
Shelve(i, shelf) ==
  /\ Act /\ i \in DOMAIN threads
  /\ Open(threads[i]) /\ threads[i].shelf # shelf
  /\ threads' = [threads EXCEPT ![i] =
        Updated([@ EXCEPT !.shelf = shelf, !.why = IF shelf = "archived" THEN "user" ELSE "none"])]

Unarchive(i) ==
  /\ Act /\ i \in DOMAIN threads
  /\ threads[i].shelf = "archived" /\ PaneAlive(threads[i])
  /\ threads' = [threads EXCEPT ![i] = Updated([@ EXCEPT !.shelf = "active", !.why = "none"])]

Delete(i) ==
  /\ Act /\ i \in DOMAIN threads
  /\ threads[i].shelf = "archived" /\ ~PaneAlive(threads[i])
  /\ threads' = [threads EXCEPT ![i] = [@ EXCEPT !.shelf = "deleted", !.why = "none", !.alive = FALSE, !.young = FALSE, !.status = "idle"]]

\* thread.pane.close, in a turn of the pane queue: Herdr closes the pane.
ClosePane(i) ==
  /\ acts < MaxActs /\ acts' = acts + 1 /\ closing = NoClosing
  /\ i \in DOMAIN threads /\ threads[i].shelf # "deleted" /\ PaneAlive(threads[i])
  /\ closing' = [of |-> i, archived |-> threads[i].shelf = "archived"]
  /\ world' = [world EXCEPT ![threads[i].pane] = NoPane]
  /\ UNCHANGED <<born, terms, engine, store, memory, job, changes, faults, late, orphans>>

\* ... and when it answers, the thread is archived and the current snapshot reconciled. The append
\* refuses a row that was deleted meanwhile, and the command fails.
PaneClosed ==
  /\ closing # NoClosing /\ closing' = NoClosing
  /\ LET t == threads[closing.of]
         ts == [threads EXCEPT ![closing.of] =
                  IF closing.archived THEN [t EXCEPT !.alive = FALSE] ELSE Archived(t, "pane-closed")]
     IN IF t.shelf = "deleted" THEN UNCHANGED <<store, memory>>
        ELSE IF link THEN Reconcile(ts, snap) ELSE threads' = ts /\ UNCHANGED <<proj, memory>>
  /\ UNCHANGED <<herd, engine, job, hist>>

SnoozeDue(i) ==
  /\ i \in DOMAIN threads /\ threads[i].shelf = "snoozed"
  /\ threads' = [threads EXCEPT ![i].shelf = "due"]
  /\ UNCHANGED <<herd, engine, proj, memory, job, closing, hist>>

-----------------------------------------------------------------------------
(* thread.create (spawn.ts). *)

Spawning == UNCHANGED <<engine, memory, proj, closing, acts, late>>

\* Herdr makes the pane; its answer is under way.
SpawnAsk(p) ==
  /\ Spawning /\ changes < MaxChanges /\ changes' = changes + 1
  /\ p \notin born /\ terms < MaxTerms
  /\ born' = born \cup {p} /\ terms' = terms + 1
  /\ world' = [world EXCEPT ![p] = [NoPane EXCEPT !.term = terms + 1]]
  /\ job' = [job EXCEPT ![p] = [NoJob EXCEPT !.at = "asked", !.term = terms + 1]]
  /\ UNCHANGED <<threads, faults, orphans>>

\* The answer, with or without the terminal.  A thread the ingest has already made of
\* the pane is taken over; the table's UNIQUE (pane, terminal) refuses a twin, and the
\* command then fails.
SpawnReply(p, t) ==
  LET seen == {i \in DOMAIN threads :
                  /\ threads[i].pane = p /\ Open(threads[i])
                  /\ t = 0 \/ threads[i].term \in {0, t}}
      fresh == [pane |-> p, term |-> t, status |-> "starting", shelf |-> "active",
                why |-> "none", alive |-> FALSE, young |-> TRUE]
      twin == \E i \in DOMAIN threads :
                 threads[i].pane = p /\ threads[i].term = t /\ threads[i].shelf # "deleted"
      i == CHOOSE i \in seen : \A k \in seen : i <= k
  IN /\ Spawning /\ job[p].at = "asked" /\ t \in {0, job[p].term}
     /\ CASE seen # {} ->
               /\ threads' = [threads EXCEPT ![i].status = "starting", ![i].young = TRUE,
                                             ![i].term = IF @ = 0 THEN t ELSE @]
               /\ job' = [job EXCEPT ![p].at = "prompt", ![p].term = t, ![p].of = i]
          [] seen = {} /\ twin -> job' = [job EXCEPT ![p] = NoJob] /\ UNCHANGED threads
          [] OTHER ->
               /\ threads' = Append(threads, fresh)
               /\ job' = [job EXCEPT ![p].at = "prompt", ![p].term = t, ![p].of = Len(threads) + 1]
     /\ UNCHANGED <<herd, faults, orphans, changes>>

\* The spawn of pane p ends.
Done(p) ==
  /\ job' = [job EXCEPT ![p] = NoJob]
  /\ orphans' = IF Open(threads[job[p].of]) THEN orphans ELSE orphans \cup {job[p].of}

Go(p, at) == job' = [job EXCEPT ![p].at = at] /\ UNCHANGED orphans

\* The shell's prompt shows; a thread archived meanwhile has no agent started.
Prompt(p) ==
  /\ Spawning /\ job[p].at = "prompt" /\ world[p].term # 0
  /\ IF threads[job[p].of].shelf = "archived" THEN Done(p) ELSE Go(p, "start")
  /\ UNCHANGED <<herd, threads, faults, changes>>

\* agent.start types the command: Herdr sees an agent before it answers.
AgentStarts(p) ==
  /\ Spawning /\ job[p].at = "start" /\ world[p].term # 0 /\ ~world[p].agent
  /\ world' = [world EXCEPT ![p].agent = TRUE]
  /\ UNCHANGED <<born, terms, threads, job, faults, orphans, changes>>

\* ... and it answers, or the last look after its time-out sees the agent.
StartReturns(p) ==
  /\ Spawning /\ job[p].at = "start"
  /\ world[p].agent /\ (job[p].term = 0 \/ world[p].term = job[p].term)
  /\ Go(p, "wait")
  /\ UNCHANGED <<herd, threads, faults, changes>>

\* The wait for the prompt, or the start, fails: what is safely ours is closed.
SpawnFails(p) ==
  /\ Spawning /\ job[p].at \in {"prompt", "start"}
  /\ world[p].term # 0 => faults < MaxFaults
  /\ faults' = IF world[p].term # 0 THEN faults + 1 ELSE faults
  /\ LET ours == job[p].term # 0 /\ world[p].term = job[p].term /\ ~world[p].agent
     IN /\ world' = IF ours THEN [world EXCEPT ![p] = NoPane] ELSE world
        /\ Go(p, IF ours \/ world[p].term = 0 THEN "closed" ELSE "failed")
  /\ UNCHANGED <<born, terms, threads, changes>>

\* A thread the spawn is done with.
Ended(t, status) == IF Open(t) /\ t.status = "starting" THEN Updated([t EXCEPT !.status = status]) ELSE t

\* As SpawnEnds, leaving a thread that never saw its agent as it is.
SpawnEndsQuietly(p) ==
  /\ Spawning /\ job[p].at \in {"wait", "failed", "closed"}
  /\ Done(p)
  /\ UNCHANGED <<herd, threads, faults, changes>>

\* The end of a spawn: the thread of a closed pane is archived, any other is handed
\* back to the ingest.
SpawnEnds(p) ==
  /\ Spawning /\ job[p].at \in {"wait", "failed", "closed"}
  /\ LET t == threads[job[p].of]
     IN threads' = [threads EXCEPT ![job[p].of] =
                      IF job[p].at = "closed" /\ Open(t)
                      THEN Updated([t EXCEPT !.shelf = "archived", !.why = "spawn-failed"])
                      ELSE Ended(t, "idle")]
  /\ Done(p)
  /\ UNCHANGED <<herd, faults, changes>>

\* The start timed out with no agent in sight: giveUp; the pane stays.
GiveUp(p) ==
  /\ Spawning /\ job[p].at = "start"
  /\ ~(world[p].agent /\ (job[p].term = 0 \/ world[p].term = job[p].term))
  /\ threads' = [threads EXCEPT ![job[p].of] = Ended(@, "failed")]
  /\ Done(p)
  /\ UNCHANGED <<herd, faults, changes>>

-----------------------------------------------------------------------------
JobStep(p) ==
  \/ \E t \in 0..MaxTerms : SpawnReply(p, t)
  \/ Prompt(p) \/ StartReturns(p) \/ SpawnFails(p) \/ SpawnEnds(p) \/ GiveUp(p)

Next ==
  \/ \E p \in Panes : NewTerminal(p) \/ PaneCloses(p)
  \/ \E p \in Panes, st \in Turns, agent \in BOOLEAN : AgentTurns(p, st, agent)
  \/ \E lost \in SUBSET Panes : PollRead(lost)
  \/ PollPublish \/ PollFails
  \/ \E changed \in BOOLEAN : BranchesResolved(changed)
  \/ Seen \/ Restart \/ PaneClosed
  \/ \E i \in 1..Len(threads) :
        \/ GraceOver(i) \/ SnoozeDue(i) \/ Unarchive(i) \/ Delete(i) \/ ClosePane(i)
        \/ \E shelf \in Shelves \cup {"active"} : Shelve(i, shelf)
  \/ \E p \in Panes : SpawnAsk(p) \/ AgentStarts(p) \/ JobStep(p)

Spec == Init /\ [][Next]_vars

\* A poll in flight is over.
PollEnds == wire # <<>> /\ wire' = <<>>

\* The engine polls, every poll ends, and a spawn's waits all have their time-outs.
FairSpec ==
  /\ Spec
  /\ WF_vars(PollRead({})) /\ WF_wire(PollEnds)
  /\ WF_vars(\E i \in 1..Len(threads) : GraceOver(i))
  /\ \A p \in Panes : WF_vars(JobStep(p))
  /\ WF_closing(closing # NoClosing /\ closing' = NoClosing)

-----------------------------------------------------------------------------
(* Properties. *)

\* A pane and a terminal have one thread, whatever the ingest, a spawn and a restart
\* made of them: the ingest never asks the table for a twin, which would fail every
\* reconcile from then on.
NoTwins ==
  \A i, k \in DOMAIN threads :
     i # k /\ threads[i].pane = threads[k].pane /\ threads[i].term = threads[k].term
       => "deleted" \in {threads[i].shelf, threads[k].shelf}

\* An archive for a replaced terminal is never undone by the ingest, so it must be
\* right: the terminal is not the one its pane has (never because the agent exited),
\* although the look that decides is older than the world, and spawns and commands come
\* between.
ReplacedRightly ==
  [][\A i \in DOMAIN threads :
       Open(threads[i]) /\ threads[i].term # 0 /\ threads'[i].why = "terminal-replaced"
         => world[threads[i].pane].term # threads[i].term]_vars

\* A thread the operator archived stays on that shelf until the operator takes it off:
\* no look, restart or spawn brings it back, and none makes it forget who archived it.
\* Only the close of its own pane, asked for before, archives it once more at its end.
UserArchiveStands ==
  [][\A i \in DOMAIN threads :
       threads[i].shelf = "archived" /\ threads[i].why = "user" /\ acts' = acts
         /\ (closing.of = i => closing' = closing)
         => threads'[i].shelf = "archived" /\ threads'[i].why = "user"]_vars

\* What the store should say of pane p.
Follows(p) ==
  LET here == {i \in DOMAIN threads : threads[i].pane = p /\ Open(threads[i])}
  IN IF world[p].term = 0
     THEN /\ here = {}
          /\ \A i \in DOMAIN threads :
                threads[i].pane = p /\ threads[i].why = "user" => threads[i].shelf = "deleted" \/ ~threads[i].alive
     ELSE \E i \in DOMAIN threads :
            LET t == threads[i]
            IN /\ t.pane = p /\ t.term = world[p].term /\ t.alive /\ t.shelf # "deleted"
               /\ here \subseteq {i}
               /\ here = {} => t.why = "user"
               /\ here = {i} => \/ t.status = ThreadStatusFor(world[p].st, t.status)
                                \/ t.status = "starting" /\ i \in orphans

\* Once the herd, the operator and the faults rest, every open pane has its one live
\* thread with the status of the pane (or the operator archived it), no closed pane has
\* one, and the project rolls up what is on the list.
HerdMirrored ==
  <>[](/\ \A p \in Panes : Follows(p)
       /\ proj.known => /\ proj.status = Worst(threads)
                        /\ proj.open = (\E p \in Panes : world[p].term # 0))

\* "an active thread archives as `pane-closed`", "at once instead of waiting for the next
\* herd poll": the command that closes a pane leaves its thread archived.
ClosedAtOnce ==
  [][closing # NoClosing /\ closing' = NoClosing /\ faults' = faults
       => ~Open(threads'[closing.of])]_vars
=============================================================================
