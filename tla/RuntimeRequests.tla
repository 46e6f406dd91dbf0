-------------------------- MODULE RuntimeRequests ---------------------------
(***************************************************************************)
(* The dialogs of one thread as runtime requests: the ingest that reads    *)
(* the screen of a waiting thread (bridge/threads/request-ingest.ts), the  *)
(* handlers that answer or walk a dialog by typing keys                    *)
(* (bridge/threads/respond.ts and its recipes), and the herd ingest's      *)
(* statuses that drive both.                                               *)
(*                                                                         *)
(* A dialog is a number, in the order the dialogs appear; it stands for    *)
(* its bound text and its hash.  Keys that reach the agent take effect     *)
(* when it redraws.                                                        *)
(***************************************************************************)
EXTENDS Integers, Sequences, FiniteSets, SequencesExt

CONSTANTS
  Devices,     \* clients that may answer
  Permission,  \* the dialogs that ask for a permission or trust
  MaxDialogs,  \* bound on dialogs
  MaxTaps,     \* bound on answers and steps asked for
  MaxFaults    \* bound on failed reads and sends, answers at the desk, keys that do not
               \* take, restarts, and the end of the pane

ASSUME RequestsAssumption ==
  /\ Devices \cap {"free", "ingest"} = {}
  /\ MaxDialogs \in Nat /\ MaxTaps \in Nat /\ MaxFaults \in Nat

VARIABLES
  screen, shown,   \* the dialog on the screen, 0 when none; how many there were
  keyed,           \* the agent has been given an answer and has not redrawn
  status,          \* the thread's status: "working", "input", "approval"
  archived,
  reqs,            \* the requests, oldest first: dialog and status
  turn,            \* who has the pane's turn: "free", "ingest", or a device
  pass, again,     \* the ingest's pass: "idle", "wait", "read"; another one is queued
  text,            \* what the pass read off the screen
  recent,          \* resolvedAt: the dialog just answered, 0 past its grace
  rsp,             \* per device, the handler at work
  drift,           \* the screen changed since the handler's last look
  \* History.
  misfired,        \* a key went to another dialog than the one looked at
  excused,         \* dialogs whose grace was over, or forgotten by a restart
  taps, faults

vars == <<screen, shown, keyed, status, archived, reqs, turn, pass, again, text, recent,
          rsp, drift, misfired, excused, taps, faults>>
world == <<screen, shown, keyed>>
ingest == <<pass, again, text>>
bounds == <<taps, faults>>

Requesting == {"input", "approval"}
Idle == [phase |-> "idle", q |-> 0, left |-> 0, kind |-> "keys"]
Kinds == {"keys", "recipe", "walk"}

\* Every variable keeps its type.
TypeOK ==
  /\ screen \in 0..MaxDialogs /\ shown \in 0..MaxDialogs /\ keyed \in BOOLEAN
  /\ status \in Requesting \cup {"working"} /\ archived \in BOOLEAN
  /\ reqs \in Seq([d : 1..MaxDialogs, status : {"pending", "resolved", "expired"}])
  /\ turn \in {"free", "ingest"} \cup Devices
  /\ pass \in {"idle", "wait", "read"} /\ again \in BOOLEAN
  /\ text \in 0..MaxDialogs /\ recent \in 0..MaxDialogs
  /\ rsp \in [Devices -> [phase : {"idle", "wait", "bind", "keys", "commit"},
                          q : 0..Len(reqs), left : 0..2, kind : Kinds]]
  /\ drift \in BOOLEAN /\ misfired \in BOOLEAN /\ excused \subseteq 1..MaxDialogs
  /\ taps \in 0..MaxTaps /\ faults \in 0..MaxFaults

Pending == {q \in DOMAIN reqs : reqs[q].status = "pending"}

\* requestEvents with a new status, for a set of requests.
Marked(rs, S, new) == [q \in DOMAIN rs |-> IF q \in S THEN [rs[q] EXCEPT !.status = new] ELSE rs[q]]

\* requestingStatus, threadStatusFor: a permission or trust decision is an approval.
RequestingStatus(ds) == IF ds \cap Permission # {} THEN "approval" ELSE "input"

Init ==
  /\ screen = 0 /\ shown = 0 /\ keyed = FALSE
  /\ status = "working" /\ archived = FALSE /\ reqs = <<>>
  /\ turn = "free" /\ pass = "idle" /\ again = FALSE /\ text = 0 /\ recent = 0
  /\ rsp = [r \in Devices |-> Idle] /\ drift = FALSE
  /\ misfired = FALSE /\ excused = {} /\ taps = 0 /\ faults = 0

Fault == faults < MaxFaults /\ faults' = faults + 1

-----------------------------------------------------------------------------
(* The agent and the desk. *)

Shows(d) == screen' = d /\ shown' = (IF d > shown THEN d ELSE shown) /\ keyed' = FALSE
NextDialogs == {0} \cup {d \in {shown + 1} : d <= MaxDialogs}

\* The agent asks.
Ask ==
  /\ screen = 0 /\ shown < MaxDialogs
  /\ Shows(shown + 1) /\ drift' = TRUE
  /\ UNCHANGED <<status, archived, reqs, turn, ingest, recent, rsp, misfired, excused, bounds>>

\* A dialog is answered at the desk, or the agent acts on the keys: the next dialog may
\* follow at once.
Answered(d) ==
  /\ screen # 0 /\ d \in NextDialogs
  /\ IF keyed THEN UNCHANGED faults ELSE Fault
  /\ Shows(d) /\ drift' = TRUE
  /\ UNCHANGED <<status, archived, reqs, turn, ingest, recent, rsp, misfired, excused, taps>>

\* The keys did not take.
Ignored ==
  /\ keyed /\ Fault /\ keyed' = FALSE
  /\ UNCHANGED <<screen, shown, status, archived, reqs, turn, ingest, recent, rsp, drift,
                 misfired, excused, taps>>

-----------------------------------------------------------------------------
(* The herd ingest, and the ingest of requests (request-ingest.ts). *)

\* One update of the engine: diffHerd sets the status, then poll() schedules a pass for a
\* thread that waits or has a request open.
HerdPoll ==
  LET new == IF screen = 0 THEN "working" ELSE RequestingStatus({reqs[q].d : q \in Pending})
  IN /\ ~archived
     /\ status' = new
     /\ again' = (again \/ new \in Requesting \/ Pending # {})
     /\ UNCHANGED <<world, archived, reqs, turn, pass, text, recent, rsp, drift,
                    misfired, excused, bounds>>

\* The pane is gone: the thread is archived and its requests expire.
HerdGone ==
  /\ ~archived /\ Fault /\ archived' = TRUE
  /\ reqs' = Marked(reqs, Pending, "expired")
  /\ UNCHANGED <<world, status, turn, ingest, recent, rsp, drift, misfired, excused, taps>>

\* `commit`: what is stale expires, what is new opens, the status follows what stays open.
Commit(stale, fresh, kept) ==
  /\ reqs' = Marked(reqs, stale, "expired")
             \o (IF fresh = {} THEN <<>> ELSE <<[d |-> text, status |-> "pending"]>>)
  /\ status' = IF status \in Requesting THEN RequestingStatus(fresh \cup kept) ELSE status

\* As PassStart, leaving the requests of a thread that no longer waits.
PassStartKeeps ==
  /\ pass = "idle" /\ again
  /\ again' = FALSE
  /\ pass' = IF archived \/ status \notin Requesting THEN "idle" ELSE "wait"
  /\ UNCHANGED <<reqs, status, recent>>
  /\ UNCHANGED <<world, archived, turn, text, rsp, drift, misfired, excused, bounds>>

\* The start of a pass: a thread that no longer waits has its requests expired at once.
PassStart ==
  /\ pass = "idle" /\ again
  /\ again' = FALSE
  /\ CASE archived -> UNCHANGED <<pass, reqs, status, recent>>
       [] ~archived /\ status \notin Requesting ->
            Commit(Pending, {}, {}) /\ recent' = 0 /\ UNCHANGED pass
       [] OTHER -> pass' = "wait" /\ UNCHANGED <<reqs, status, recent>>
  /\ UNCHANGED <<world, archived, turn, text, rsp, drift, misfired, excused, bounds>>

\* In its turn of the pane's queue the pass reads the screen ...
PassRead ==
  /\ pass = "wait" /\ turn = "free"
  /\ turn' = "ingest" /\ pass' = "read" /\ text' = screen
  /\ UNCHANGED <<world, status, archived, reqs, again, recent, rsp, drift, misfired, excused, bounds>>

\* ... or the queue is full, or the read fails: everything stays.
PassFails ==
  /\ pass \in {"wait", "read"} /\ Fault
  /\ pass' = "idle" /\ text' = 0 /\ turn' = IF turn = "ingest" THEN "free" ELSE turn
  /\ UNCHANGED <<world, status, archived, reqs, again, recent, rsp, drift, misfired, excused, taps>>

\* As PassEnds, with the thread as it was before the read.
PassEndsUnchecked ==
  /\ pass = "read" /\ pass' = "idle" /\ turn' = "free" /\ text' = 0
  /\ LET same == {q \in Pending : reqs[q].d = text}
     IN Commit(Pending \ same, IF same = {} /\ text # 0 THEN {text} ELSE {}, {reqs[q].d : q \in same})
  /\ UNCHANGED <<world, archived, again, recent, rsp, drift, misfired, excused, bounds>>

\* As PassEnds, with no grace for a dialog that was just answered.
PassEndsNoGrace ==
  /\ pass = "read" /\ pass' = "idle" /\ turn' = "free" /\ text' = 0
  /\ LET same == {q \in Pending : reqs[q].d = text}
     IN CASE archived -> UNCHANGED <<reqs, status>>
          [] ~archived /\ (status \notin Requesting \/ text = 0) -> Commit(Pending, {}, {})
          [] ~archived /\ status \in Requesting /\ text # 0 /\ same # {} ->
               Commit(Pending \ same, {}, {text})
          [] OTHER -> Commit(Pending, {text}, {})
  /\ UNCHANGED <<world, archived, again, recent, rsp, drift, misfired, excused, bounds>>

\* The read comes back: the store may have moved, so it is asked again.  The same dialog
\* keeps its request; another one expires it and opens a new one, but not one that was
\* answered a moment ago.
PassEnds ==
  /\ pass = "read" /\ pass' = "idle" /\ turn' = "free" /\ text' = 0
  /\ LET same == {q \in Pending : reqs[q].d = text}
     IN CASE archived -> UNCHANGED <<reqs, status>>
          [] ~archived /\ (status \notin Requesting \/ text = 0) -> Commit(Pending, {}, {})
          [] ~archived /\ status \in Requesting /\ text # 0 /\ same # {} ->
               Commit(Pending \ same, {}, {text})
          [] OTHER ->
               IF Pending = {} /\ recent = text
               THEN UNCHANGED <<reqs, status>>
               ELSE Commit(Pending, {text}, {})
  /\ UNCHANGED <<world, archived, again, recent, rsp, drift, misfired, excused, bounds>>

\* RESOLVED_GRACE_MS is over.
GraceOver ==
  /\ recent # 0 /\ recent' = 0 /\ excused' = excused \cup {recent}
  /\ UNCHANGED <<world, status, archived, reqs, turn, ingest, rsp, drift, misfired, bounds>>

-----------------------------------------------------------------------------
(* The handlers (respond.ts). *)

\* An answer or a step is asked for; what is not pending or archived is refused.  An
\* answer is one key list, or a recipe of several keys, each after a look.
Tap(r, kind) ==
  /\ rsp[r].phase = "idle" /\ taps < MaxTaps /\ ~archived
  /\ \E q \in Pending :
       rsp' = [rsp EXCEPT ![r] = [phase |-> "wait", q |-> q, kind |-> kind,
                                  left |-> IF kind = "recipe" THEN 2 ELSE 1]]
  /\ taps' = taps + 1
  /\ UNCHANGED <<world, status, archived, reqs, turn, ingest, recent, drift, misfired, excused, faults>>

Done(r) == rsp' = [rsp EXCEPT ![r] = Idle] /\ turn' = "free"

\* As Turn, without asking again whether the request is pending.
TurnUnchecked(r) ==
  /\ rsp[r].phase = "wait" /\ turn = "free"
  /\ rsp' = [rsp EXCEPT ![r].phase = "bind"] /\ turn' = r
  /\ UNCHANGED <<world, status, archived, reqs, ingest, recent, drift, misfired, excused, bounds>>

\* The pane's turn: the request may have gone while it was waited for.
Turn(r) ==
  /\ rsp[r].phase = "wait" /\ turn = "free"
  /\ IF rsp[r].q \in Pending
     THEN rsp' = [rsp EXCEPT ![r].phase = "bind"] /\ turn' = r
     ELSE Done(r)
  /\ UNCHANGED <<world, status, archived, reqs, ingest, recent, drift, misfired, excused, bounds>>

\* As Matches, whatever is on the screen.
MatchesAny(d) == TRUE

\* checkPromptBinding, and the identity checks of the recipes: the screen shows d.
Matches(d) == screen = d

\* A fresh look at the screen before a key: another dialog expires the request.
Bind(r) ==
  LET d == reqs[rsp[r].q].d
  IN /\ rsp[r].phase = "bind"
     /\ IF Matches(d)
        THEN /\ rsp' = [rsp EXCEPT ![r].phase = "keys"] /\ drift' = FALSE
             /\ UNCHANGED <<reqs, turn>>
        ELSE /\ reqs' = Marked(reqs, {rsp[r].q}, "expired")
             /\ Done(r) /\ UNCHANGED drift
     /\ UNCHANGED <<world, status, archived, ingest, recent, misfired, excused, bounds>>

\* A key goes out.  The last one answers the dialog; a recipe looks again before the next.
Key(r) ==
  LET d == reqs[rsp[r].q].d
      left == rsp[r].left - 1
  IN /\ rsp[r].phase = "keys"
     /\ misfired' = (misfired \/ (screen # d /\ ~drift))
     /\ rsp' = [rsp EXCEPT ![r].left = left, ![r].phase = IF left = 0 THEN "commit" ELSE "bind"]
     /\ keyed' = (keyed \/ (left = 0 /\ screen # 0))
     /\ UNCHANGED <<screen, shown, status, archived, reqs, turn, ingest, recent, drift,
                    excused, bounds>>

\* A read or a send fails: nothing is committed.
RespondFails(r) ==
  /\ rsp[r].phase \in {"wait", "bind", "keys"} /\ Fault
  /\ rsp' = [rsp EXCEPT ![r] = Idle] /\ turn' = IF turn = r THEN "free" ELSE turn
  /\ UNCHANGED <<world, status, archived, reqs, ingest, recent, drift, misfired, excused, taps>>

\* The keys are out: an answer resolves the request, a step expires it and looks at once.
Resolve(r) ==
  LET q == rsp[r].q
      walk == rsp[r].kind = "walk"
  IN /\ rsp[r].phase = "commit"
     /\ reqs' = Marked(reqs, {q}, IF walk THEN "expired" ELSE "resolved")
     /\ recent' = reqs[q].d
     /\ again' = (again \/ walk)
     /\ Done(r)
     /\ UNCHANGED <<world, status, archived, pass, text, drift, misfired, excused, bounds>>

\* The bridge restarts: the store stays, everything at work is gone.
Restart ==
  /\ Fault
  /\ rsp' = [r \in Devices |-> Idle] /\ turn' = "free" /\ pass' = "idle" /\ again' = FALSE
  /\ text' = 0 /\ recent' = 0
  /\ excused' = excused \cup ({recent} \ {0})
  /\ UNCHANGED <<world, status, archived, reqs, drift, misfired, taps>>

-----------------------------------------------------------------------------
Next ==
  \/ Ask \/ Ignored \/ \E d \in 0..MaxDialogs : Answered(d)
  \/ HerdPoll \/ HerdGone \/ PassStart \/ PassRead \/ PassFails \/ PassEnds \/ GraceOver
  \/ \E r \in Devices : \/ \E kind \in Kinds : Tap(r, kind)
                        \/ Turn(r) \/ Bind(r) \/ Key(r) \/ RespondFails(r) \/ Resolve(r)
  \/ Restart

Spec == Init /\ [][Next]_vars

\* Polls recur, reads and writes come back, the pane's queue is served in order, and the
\* agent acts on its keys.
FairSpec ==
  /\ Spec
  /\ WF_vars(HerdPoll) /\ WF_vars(PassStart) /\ SF_vars(PassRead) /\ WF_vars(PassEnds)
  /\ WF_vars(GraceOver) /\ WF_vars(keyed /\ Answered(0))
  /\ \A r \in Devices : SF_vars(Turn(r)) /\ WF_vars(Bind(r)) /\ WF_vars(Key(r)) /\ WF_vars(Resolve(r))

-----------------------------------------------------------------------------
(* Properties. *)

\* A thread has one question open at most, and none once its pane is gone.
OneOpen == Cardinality(Pending) <= (IF archived THEN 0 ELSE 1)

\* No key of a handler goes to a dialog it did not look at: only the agent or the desk,
\* between the look and the key, can put another one there.
KeysMeetTheirDialog == ~misfired

\* Two devices, or one that taps twice, do not answer a dialog twice: a dialog with an
\* answered request has no other one open or answered, until its grace is over.
AnsweredOnce ==
  \A a, b \in DOMAIN reqs :
    a # b /\ reqs[a].d = reqs[b].d /\ reqs[a].status = "resolved" /\ reqs[b].status # "expired"
    => reqs[a].d \in excused

\* An answer stands: no later pass, archive or step takes it back.
AnswersStand ==
  [][\A q \in DOMAIN reqs : reqs[q].status = "resolved" => reqs'[q].status = "resolved"]_vars

\* The requests follow the screen: in the end the dialog that waits, and only it, has its
\* request open, and the thread says what it waits for.
RequestsFollow ==
  <>[](~archived =>
         /\ {reqs[q].d : q \in Pending} = {screen} \ {0}
         /\ status = IF screen = 0 THEN "working" ELSE RequestingStatus({screen}))
=============================================================================
