---------------------------- MODULE CommandRoute ----------------------------
(***************************************************************************)
(* POST /api/v2/command: the route (bridge/threads/v2-routes.ts), the      *)
(* receipts it keeps in the store (store.ts) and the client that retries   *)
(* (web2/src/stream/commands.ts).                                          *)
(*                                                                         *)
(* A command is its id and its body.  The bodies stand for the three paths *)
(* of the route: "pure" is decided in a turn of the pane queue, "close"    *)
(* closes the pane, "effect" is any other handler: it works in Herdr and   *)
(* commits its outcome with the receipt.  All are about one pane.          *)
(***************************************************************************)
EXTENDS Integers, Sequences, FiniteSets, SequencesExt

CONSTANTS
  Clients,
  Ids,        \* command ids
  Bodies,     \* a subset of {"pure", "close", "effect"}
  MaxLost,    \* bound on requests and answers the network loses
  MaxFaults   \* bound on restarts, failed Herdr calls, refusals and missed turns

ASSUME CommandAssumption ==
  /\ Bodies \subseteq {"pure", "close", "effect"}
  /\ MaxLost \in Nat /\ MaxFaults \in Nat

\* A request: the first or the second try of a client.
Posts == Clients \X {1, 2}
None == <<>>

VARIABLES
  cmd,       \* per client, its command: [id, body]
  cl,        \* per client: "idle", "first" or "second" (the try under way), "again"
             \* (before the second), "ok", "error", "lost"
  pc,        \* per request: "none", "wait", "line", "turn", "acted", "done"
  before,    \* per request, the one it waits for
  inflight,  \* per id, the latest request under way
  line,      \* the pane queue
  reply,     \* per request, its answer
  receipt,   \* per id, the stored receipt
  last,      \* the store's last sequence
  open,      \* the pane is open in Herdr
  listed,    \* ... and in the herd the engine has published
  \* History.
  done,      \* per id, how often its work was done
  unsure,    \* ids whose work was done and not committed: a restart or a failure came between
  losses, faults

vars == <<cmd, cl, pc, before, inflight, line, reply, receipt, last, open, listed,
          done, unsure, losses, faults>>

Command == [id : Ids, body : Bodies]
NoReceipt == [body |-> "none", code |-> "none", seq |-> 0]
Codes == {"none", "ok", "rejected", "conflict", "refused", "busy", "failed"}
Reply == [code : Codes, seq : Nat]

\* Every variable keeps its type; a receipt is of a command some client sent, and the
\* requests at work hold their place in the pane queue.
TypeOK ==
  /\ cmd \in [Clients -> Command]
  /\ cl \in [Clients -> {"idle", "first", "again", "second", "ok", "error", "lost"}]
  /\ pc \in [Posts -> {"none", "wait", "line", "turn", "acted", "done"}]
  /\ before \in [Posts -> Posts \cup {None}] /\ inflight \in [Ids -> Posts \cup {None}]
  /\ line \in Seq(Posts) /\ reply \in [Posts -> Reply]
  /\ last \in Nat /\ open \in BOOLEAN /\ listed \in BOOLEAN /\ unsure \subseteq Ids /\ done \in [Ids -> Nat]
  /\ \A i \in Ids : receipt[i] = NoReceipt \/ \E k \in Clients :
        cmd[k] = [id |-> i, body |-> receipt[i].body] /\ receipt[i].seq <= last
  /\ \A p \in Posts : (pc[p] \in {"line", "turn", "acted"}) = (p \in ToSet(line))
  /\ \A p \in Posts : pc[p] \in {"turn", "acted"} => p = Head(line)

-----------------------------------------------------------------------------
Id(p) == cmd[p[1]].id
Body(p) == cmd[p[1]].body

NoReply == [code |-> "none", seq |-> 0]
Bare(code) == [code |-> code, seq |-> 0]

\* As FromReceipt, without a look at the body.
FromReceiptAny(p) == [code |-> receipt[Id(p)].code, seq |-> receipt[Id(p)].seq]

\* As FromReceipt, with the sequence of now.
FromReceiptNow(p) ==
  IF receipt[Id(p)].body # Body(p) THEN Bare("conflict")
  ELSE [code |-> receipt[Id(p)].code, seq |-> last]

\* fromReceipt: the stored answer, or a conflict when the id was another command's.
FromReceipt(p) ==
  IF receipt[Id(p)].body # Body(p) THEN Bare("conflict")
  ELSE [code |-> receipt[Id(p)].code, seq |-> receipt[Id(p)].seq]

Receipted(p) == receipt[Id(p)] # NoReceipt

-----------------------------------------------------------------------------
Init ==
  /\ cmd \in [Clients -> Command]
  /\ cl = [k \in Clients |-> "idle"]
  /\ pc = [p \in Posts |-> "none"] /\ before = [p \in Posts |-> None]
  /\ inflight = [i \in Ids |-> None] /\ line = <<>> /\ reply = [p \in Posts |-> NoReply]
  /\ receipt = [i \in Ids |-> NoReceipt] /\ last = 0 /\ open = TRUE /\ listed = TRUE
  /\ done = [i \in Ids |-> 0] /\ unsure = {} /\ losses = 0 /\ faults = 0

-----------------------------------------------------------------------------
(* The client. *)

\* As Arrive, with the map written before it is read.
ArriveLate(p) ==
  /\ pc' = [pc EXCEPT ![p] = "wait"]
  /\ before' = [before EXCEPT ![p] = p]
  /\ inflight' = [inflight EXCEPT ![Id(p)] = p]

\* As Arrive, waiting for nobody.
ArriveAlone(p) ==
  /\ pc' = [pc EXCEPT ![p] = "wait"]
  /\ UNCHANGED before
  /\ inflight' = [inflight EXCEPT ![Id(p)] = p]

\* commandRoute: the request waits for the one in flight with its id.
Arrive(p) ==
  /\ pc' = [pc EXCEPT ![p] = "wait"]
  /\ before' = [before EXCEPT ![p] = inflight[Id(p)]]
  /\ inflight' = [inflight EXCEPT ![Id(p)] = p]

\* sendCommand: the first try, or after a network failure the second with the same id.
Post(k) ==
  /\ cl[k] \in {"idle", "again"}
  /\ IF cl[k] = "idle"
     THEN cl' = [cl EXCEPT ![k] = "first"] /\ Arrive(<<k, 1>>)
     ELSE cl' = [cl EXCEPT ![k] = "second"] /\ Arrive(<<k, 2>>)
  /\ UNCHANGED <<cmd, line, reply, receipt, last, open, listed, done, unsure, losses, faults>>

\* The network fails: before the request reached the bridge, while it is at work there,
\* or with the answer under way.  The client tries once more, then gives up.
Lose(k) ==
  /\ cl[k] \in {"idle", "again", "first", "second"} /\ losses < MaxLost /\ losses' = losses + 1
  /\ cl' = [cl EXCEPT ![k] = IF @ \in {"idle", "first"} THEN "again" ELSE "lost"]
  /\ UNCHANGED <<cmd, pc, before, inflight, line, reply, receipt, last, open, listed,
                 done, unsure, faults>>

Try(k) == IF cl[k] = "first" THEN <<k, 1>> ELSE <<k, 2>>

\* The answer arrives.
Hear(k) ==
  /\ cl[k] \in {"first", "second"} /\ pc[Try(k)] = "done"
  /\ cl' = [cl EXCEPT ![k] = IF reply[Try(k)].code = "ok" THEN "ok" ELSE "error"]
  /\ UNCHANGED <<cmd, pc, before, inflight, line, reply, receipt, last, open, listed,
                 done, unsure, losses, faults>>

-----------------------------------------------------------------------------
(* The route. *)

\* The `finally` of the route: only the latest request takes its id off the map.
Leave(p) == inflight' = IF inflight[Id(p)] = p THEN [inflight EXCEPT ![Id(p)] = None] ELSE inflight

\* The request is answered; if it was in the pane queue it leaves it.
Answer(p, r) ==
  /\ pc' = [pc EXCEPT ![p] = "done"]
  /\ reply' = [reply EXCEPT ![p] = r]
  /\ line' = SelectSeq(line, LAMBDA q : q # p)
  /\ Leave(p)

\* append with a receipt: the events (`n` of them) and the receipt in one transaction,
\* which fails as a whole when the id has a receipt already.
Commit(p, code, n) ==
  IF Receipted(p)
  THEN Answer(p, Bare("failed")) /\ UNCHANGED <<receipt, last>>
  ELSE /\ last' = last + n
       /\ receipt' = [receipt EXCEPT ![Id(p)] = [body |-> Body(p), code |-> code, seq |-> last + n]]
       /\ Answer(p, [code |-> code, seq |-> last + n])

\* execute: after the request before it ended, the receipt answers or the work queues.
Execute(p) ==
  /\ pc[p] = "wait" /\ (before[p] # None => pc[before[p]] = "done")
  /\ IF Receipted(p)
     THEN Answer(p, FromReceipt(p))
     ELSE /\ pc' = [pc EXCEPT ![p] = "line"]
          /\ line' = Append(line, p)
          /\ UNCHANGED <<inflight, reply>>
  /\ UNCHANGED <<cmd, cl, before, receipt, last, open, listed, done, unsure, losses, faults>>

Fault == faults < MaxFaults /\ faults' = faults + 1

\* PaneBusyError: 503, and nothing is kept.
Busy(p) ==
  /\ pc[p] = "line" /\ p # Head(line) /\ Fault
  /\ Answer(p, Bare("busy"))
  /\ UNCHANGED <<cmd, cl, before, receipt, last, open, listed, done, unsure, losses>>

\* The turn of a pure command: the receipt again, then decide, which may refuse.
Decide(p, accept) ==
  /\ pc[p] = "line" /\ p = Head(line) /\ Body(p) = "pure"
  /\ IF Receipted(p) \/ accept
     THEN UNCHANGED faults
     ELSE Fault
  /\ CASE Receipted(p) -> Answer(p, FromReceipt(p)) /\ UNCHANGED <<receipt, last, done>>
       [] ~Receipted(p) /\ accept -> Commit(p, "ok", 1) /\ done' = [done EXCEPT ![Id(p)] = @ + 1]
       [] OTHER -> Answer(p, Bare("refused")) /\ UNCHANGED <<receipt, last, done>>
  /\ UNCHANGED <<cmd, cl, before, open, listed, unsure, losses>>

\* The turn of a handler that works in Herdr.  A pane that is not listed is taken for
\* gone and needs no closing.
Turn(p) ==
  /\ pc[p] = "line" /\ p = Head(line) /\ Body(p) # "pure"
  /\ CASE Body(p) = "close" /\ Receipted(p) ->
            Answer(p, FromReceipt(p)) /\ UNCHANGED <<receipt, last>>
       [] Body(p) = "close" /\ ~Receipted(p) /\ ~listed -> Commit(p, "ok", 0)
       [] OTHER -> /\ pc' = [pc EXCEPT ![p] = "turn"]
                   /\ UNCHANGED <<line, reply, inflight, receipt, last>>
  /\ UNCHANGED <<cmd, cl, before, open, listed, done, unsure, losses, faults>>

\* Herdr does the work.
Work(p) ==
  /\ pc[p] = "turn" /\ (Body(p) = "close" => open)
  /\ pc' = [pc EXCEPT ![p] = "acted"]
  /\ open' = (open /\ Body(p) # "close")
  /\ done' = [done EXCEPT ![Id(p)] = @ + 1]
  /\ UNCHANGED <<cmd, cl, before, inflight, line, reply, receipt, last, listed, unsure, losses, faults>>

\* The outcome is committed with the receipt: done, or refused after work had started
\* (command.rejected), unless a receipt raced it.
Finish(p, ok) ==
  /\ pc[p] = "acted"
  /\ ok \/ (Body(p) = "effect" /\ faults < MaxFaults)
  /\ faults' = IF ok THEN faults ELSE faults + 1
  /\ IF ~ok /\ Receipted(p)
     THEN Answer(p, FromReceipt(p)) /\ UNCHANGED <<receipt, last>>
     ELSE Commit(p, IF ok THEN "ok" ELSE "rejected", 1)
  /\ UNCHANGED <<cmd, cl, before, open, listed, done, unsure, losses>>

\* The Herdr call throws, before or after it had its effect, or as the pane to close is
\* gone and the published herd has not followed: 500 or 502, no receipt.
Throws(p) ==
  /\ pc[p] \in {"turn", "acted"}
  /\ IF pc[p] = "turn" /\ Body(p) = "close" /\ ~open THEN UNCHANGED faults ELSE Fault
  /\ Answer(p, Bare("failed"))
  /\ unsure' = IF pc[p] = "acted" THEN unsure \cup {Id(p)} ELSE unsure
  /\ UNCHANGED <<cmd, cl, before, receipt, last, open, listed, done, losses>>

\* The engine polls.
Polled ==
  /\ listed # open /\ listed' = open
  /\ UNCHANGED <<cmd, cl, pc, before, inflight, line, reply, receipt, last, open,
                 done, unsure, losses, faults>>

\* The bridge restarts: every request under way is cut off, the store stays.  A client
\* on its first try posts again.
Restart ==
  /\ Fault /\ \E p \in Posts : pc[p] \notin {"none", "done"}
  /\ LET again == {k \in Clients : cl[k] = "first" /\ pc[<<k, 1>>] # "done"}
         cut == {k \in Clients : cl[k] = "second" /\ pc[<<k, 2>>] # "done"}
     IN /\ cl' = [k \in Clients |-> IF k \in again THEN "again" ELSE IF k \in cut THEN "lost" ELSE cl[k]]
        /\ unsure' = unsure \cup {Id(p) : p \in {q \in Posts : pc[q] = "acted"}}
        /\ pc' = [p \in Posts |-> IF pc[p] = "none" THEN "none" ELSE "done"]
  /\ inflight' = [i \in Ids |-> None] /\ before' = [p \in Posts |-> None] /\ line' = <<>>
  /\ listed' = FALSE
  /\ UNCHANGED <<cmd, reply, receipt, last, open, done, losses>>

-----------------------------------------------------------------------------
Step(p) ==
  \/ Execute(p) \/ Turn(p) \/ Work(p)
  \/ Decide(p, TRUE) \/ Finish(p, TRUE)
  \/ ~open /\ Throws(p)

Next ==
  \/ \E k \in Clients : Post(k) \/ Lose(k) \/ Hear(k)
  \/ \E p \in Posts : \/ Step(p) \/ Busy(p) \/ Throws(p)
                      \/ Decide(p, FALSE) \/ Finish(p, FALSE)
  \/ Polled \/ Restart

Spec == Init /\ [][Next]_vars

\* Clients send and hear, the route goes on, Herdr answers.
FairSpec ==
  /\ Spec
  /\ \A k \in Clients : WF_vars(Post(k)) /\ WF_vars(Hear(k))
  /\ \A p \in Posts : WF_vars(Step(p))

-----------------------------------------------------------------------------
(* Properties. *)

\* "a request whose response was lost is applied once": whatever is retried, sent twice
\* or lost, and however duplicates wait for each other, the work of an id is done at most
\* once.  Excluded is an id whose work was done and never committed, as a restart or a
\* failing Herdr call came between.
AppliedOnce == \A i \in Ids \ unsure : done[i] <= 1

\* A client that is told its command succeeded can rely on it: the store holds the
\* receipt of that very command, and no restart or later request takes it away.
OkIsDurable ==
  \A k \in Clients :
     cl[k] = "ok" => /\ receipt[cmd[k].id].body = cmd[k].body
                     /\ receipt[cmd[k].id].code = "ok"

\* Once a command has an outcome every request for it gets that outcome, with the same
\* sequence: a retry is never told that refused work succeeded, or the reverse.
SameAnswer ==
  \A p, q \in Posts :
     /\ cmd[p[1]] = cmd[q[1]]
     /\ {reply[p].code, reply[q].code} \subseteq {"ok", "rejected"}
     => reply[p] = reply[q]

\* Every client hears the end of its command, or gives up after two lost tries: no
\* request waits for itself, for one that never ends, or for a turn that is not freed.
Answered == \A k \in Clients : <>(cl[k] \in {"ok", "error", "lost"})
=============================================================================
