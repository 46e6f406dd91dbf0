------------------------- MODULE CommandRouteProofs -------------------------
(***************************************************************************)
(* The command route applies a command once and answers it the same way    *)
(* every time, for any clients, ids, commands and bounds.                  *)
(*                                                                         *)
(* The answers need one fact: a reply that tells an outcome is a copy of   *)
(* the receipt.  "Once" needs more: of the requests with one id only one   *)
(* is past its wait.  The route keeps for each request only the one before *)
(* it, so the invariant says that an order of the requests under way       *)
(* exists (InOrder) which these links and the latest one on the map agree  *)
(* with.                                                                   *)
(***************************************************************************)
EXTENDS CommandRoute, TLAPS

Receipt == {NoReceipt} \cup [body : Bodies, code : {"ok", "rejected"}, seq : Nat]

\* The types of what the proofs speak of.
RouteType ==
  /\ cmd \in [Clients -> Command]
  /\ cl \in [Clients -> {"idle", "first", "again", "second", "ok", "error", "lost"}]
  /\ pc \in [Posts -> {"none", "wait", "line", "turn", "acted", "done"}]
  /\ before \in [Posts -> Posts \cup {None}] /\ inflight \in [Ids -> Posts \cup {None}]
  /\ reply \in [Posts -> Reply] /\ receipt \in [Ids -> Receipt] /\ last \in Nat
  /\ done \in [Ids -> Nat] /\ unsure \subseteq Ids

\* A try that the client has not made has not arrived, and nobody waits for it.
TriesInTurn ==
  /\ \A k \in Clients :
       /\ cl[k] = "idle" => pc[<<k, 1>>] = "none"
       /\ cl[k] \in {"idle", "first", "again"} => pc[<<k, 2>>] = "none"
  /\ \A p \in Posts : before[p] = None \/ pc[before[p]] # "none"

\* A reply that tells an outcome is a copy of the receipt of its command.
RepliesAreReceipts ==
  \A p \in Posts :
    reply[p].code \in {"ok", "rejected"} =>
      /\ receipt[Id(p)].body = Body(p)
      /\ reply[p] = [code |-> receipt[Id(p)].code, seq |-> receipt[Id(p)].seq]

AnswerInv == RouteType /\ RepliesAreReceipts /\ OkIsDurable

\* The requests under way, those past their wait, and the ids of all.
Active == {p \in Posts : pc[p] \notin {"none", "done"}}
Running == {p \in Posts : pc[p] \in {"line", "turn", "acted"}}
IdOf == [p \in Posts |-> Id(p)]

\* `ahead` orders the requests A under way, R of them past their wait, by their arrival: a request
\* is behind the one it waits for (bef) and all ahead of that one; one past its wait is the first of
\* its id, and the one on the map (latest) the last.
InOrder(ahead, id, A, R, bef, latest) ==
  /\ \A c \in A : \A d \in ahead[c] : d \in A /\ id[d] = id[c]
  /\ \A c, d \in A : id[c] = id[d] /\ c # d => c \in ahead[d] \/ d \in ahead[c]
  /\ \A c \in A : ahead[c] = IF bef[c] \in A THEN ahead[bef[c]] \cup {bef[c]} ELSE {}
  /\ \A c \in R : ahead[c] = {}
  /\ \A i \in Ids : latest[i] # None => latest[i] \in A /\ id[latest[i]] = i
  /\ \A c \in A : latest[id[c]] # None /\ (c # latest[id[c]] => c \in ahead[latest[id[c]]])

OrderInv ==
  \E ahead \in [Posts -> SUBSET Posts] : InOrder(ahead, IdOf, Active, Running, before, inflight)

\* The work of an id: nobody is at it once it has its receipt, and it is not done before one acts.
WorkInv ==
  /\ \A p \in Running : ~Receipted(p)
  /\ \A i \in Ids \ unsure :
       receipt[i] = NoReceipt /\ (\A p \in Posts : pc[p] = "acted" => Id(p) # i) => done[i] = 0

RouteInv == TriesInTurn /\ OrderInv /\ WorkInv /\ AppliedOnce

-----------------------------------------------------------------------------
(* The ways a request ends. *)

\* It leaves the route, told `r`.
Told(p, r) ==
  /\ pc' = [pc EXCEPT ![p] = "done"] /\ reply' = [reply EXCEPT ![p] = r]
  /\ Leave(p) /\ UNCHANGED <<cmd, cl, before>>

\* It is told that there is no outcome, or that another command has the id ...
EndsBare(p) ==
  \E code \in Codes \ {"ok", "rejected"} :
    Told(p, Bare(code)) /\ UNCHANGED <<receipt, last, done>>

\* ... or the outcome that was stored before it ...
EndsStored(p) ==
  /\ Receipted(p) /\ receipt[Id(p)].body = Body(p)
  /\ Told(p, [code |-> receipt[Id(p)].code, seq |-> receipt[Id(p)].seq])
  /\ UNCHANGED <<receipt, last, done>>

\* ... or its own, with `n` events and the receipt.
EndsCommitted(p, code, n) ==
  /\ ~Receipted(p) /\ last' = last + n
  /\ receipt' = [receipt EXCEPT ![Id(p)] = [body |-> Body(p), code |-> code, seq |-> last + n]]
  /\ Told(p, [code |-> code, seq |-> last + n])

\* The types of a request's parts.
LEMMA PostType ==
  ASSUME RouteType, NEW p \in Posts
  PROVE  /\ Id(p) \in Ids /\ Body(p) \in Bodies /\ p # None
         /\ reply[p] \in Reply /\ receipt[Id(p)] \in Receipt
         /\ before[p] \in Posts \cup {None} /\ inflight[Id(p)] \in Posts \cup {None}
         /\ pc[p] \in {"none", "wait", "line", "turn", "acted", "done"}
<1>1. p[1] \in Clients /\ p # None
  BY DEF Posts, None
<1>2. cmd[p[1]] \in Command
  BY <1>1 DEF RouteType
<1>3. Id(p) \in Ids /\ Body(p) \in Bodies
  BY <1>2 DEF Id, Body, Command
<1> QED
  BY <1>1, <1>3 DEF RouteType

\* The stored answer is a copy of the receipt, or a conflict.
LEMMA FromReceiptEnds ==
  ASSUME NEW p \in Posts, Receipted(p), Answer(p, FromReceipt(p)),
         UNCHANGED <<cmd, cl, before, receipt, last, done>>
  PROVE  EndsBare(p) \/ EndsStored(p)
  BY DEF Answer, FromReceipt, EndsBare, EndsStored, Told, Codes

\* A commit stores the outcome, or fails as a receipt was there.
LEMMA CommitEnds ==
  ASSUME NEW p \in Posts, NEW code, NEW n, Commit(p, code, n), UNCHANGED <<cmd, cl, before>>,
         Receipted(p) => UNCHANGED done
  PROVE  EndsBare(p) \/ EndsCommitted(p, code, n)
  BY DEF Commit, Answer, EndsBare, EndsCommitted, Told, Codes

\* A request goes on to the next place of the route.
Moves(p, to) ==
  /\ pc' = [pc EXCEPT ![p] = to]
  /\ UNCHANGED <<cmd, cl, before, inflight, reply, receipt, last>>

\* After its wait a request is answered from the receipt or gets in line.
LEMMA ExecuteEnds ==
  ASSUME NEW p \in Posts, Execute(p)
  PROVE  /\ pc[p] = "wait" /\ (before[p] # None => pc[before[p]] = "done") /\ UNCHANGED <<done, unsure>>
         /\ EndsBare(p) \/ EndsStored(p) \/ (~Receipted(p) /\ Moves(p, "line"))
<1>1. CASE Receipted(p)
  BY <1>1, FromReceiptEnds DEF Execute
<1>2. CASE ~Receipted(p)
  BY <1>2 DEF Execute, Moves
<1> QED
  BY <1>1, <1>2 DEF Execute

\* A refused place in the queue, and a throw, tell nothing; the throw may leave work uncommitted.
LEMMA BusyEnds ==
  ASSUME NEW p \in Posts, Busy(p)
  PROVE  pc[p] = "line" /\ EndsBare(p) /\ UNCHANGED unsure
  BY DEF Busy, Answer, EndsBare, Told, Codes

\* As above, for the Herdr call that throws.
LEMMA ThrowsEnds ==
  ASSUME NEW p \in Posts, Throws(p)
  PROVE  /\ pc[p] \in {"turn", "acted"} /\ EndsBare(p)
         /\ unsure' = IF pc[p] = "acted" THEN unsure \cup {Id(p)} ELSE unsure
  BY DEF Throws, Answer, EndsBare, Told, Codes

\* Deciding ends the request; its work counts when it is committed.
LEMMA DecideEnds ==
  ASSUME NEW p \in Posts, NEW accept \in BOOLEAN, Decide(p, accept)
  PROVE  /\ pc[p] = "line" /\ UNCHANGED unsure
         /\ \/ EndsBare(p) \/ EndsStored(p)
            \/ EndsCommitted(p, "ok", 1) /\ done' = [done EXCEPT ![Id(p)] = @ + 1]
<1>1. CASE Receipted(p)
  <2>1. Answer(p, FromReceipt(p)) /\ UNCHANGED <<receipt, last, done>>
    BY <1>1 DEF Decide
  <2> QED
    BY <1>1, <2>1, FromReceiptEnds DEF Decide
<1>2. CASE ~Receipted(p) /\ accept
  <2>1. Commit(p, "ok", 1) /\ done' = [done EXCEPT ![Id(p)] = @ + 1]
    BY <1>2 DEF Decide
  <2> QED
    BY <1>2, <2>1 DEF Decide, Commit, Answer, EndsCommitted, Told
<1>3. CASE ~Receipted(p) /\ ~accept
  <2>1. Answer(p, Bare("refused")) /\ UNCHANGED <<receipt, last, done>>
    BY <1>3 DEF Decide
  <2> QED
    BY <2>1 DEF Decide, Answer, EndsBare, Told, Codes
<1> QED
  BY <1>1, <1>2, <1>3

\* A turn answers from the receipt, finds the pane gone, or goes to work.
LEMMA TurnEnds ==
  ASSUME NEW p \in Posts, Turn(p)
  PROVE  /\ pc[p] = "line" /\ UNCHANGED <<done, unsure>>
         /\ EndsBare(p) \/ EndsStored(p) \/ EndsCommitted(p, "ok", 0) \/ Moves(p, "turn")
<1>1. CASE Body(p) = "close" /\ Receipted(p)
  <2>1. Answer(p, FromReceipt(p)) /\ UNCHANGED <<receipt, last>>
    BY <1>1 DEF Turn
  <2> QED
    BY <1>1, <2>1, FromReceiptEnds DEF Turn
<1>2. CASE Body(p) = "close" /\ ~Receipted(p) /\ ~listed
  <2>1. Commit(p, "ok", 0)
    BY <1>2 DEF Turn
  <2> QED
    BY <1>2, <2>1 DEF Turn, Commit, Answer, EndsCommitted, Told
<1>3. CASE ~(Body(p) = "close" /\ Receipted(p)) /\ ~(Body(p) = "close" /\ ~Receipted(p) /\ ~listed)
  <2>1. /\ pc' = [pc EXCEPT ![p] = "turn"]
        /\ UNCHANGED <<line, reply, inflight, receipt, last>>
    BY <1>3 DEF Turn
  <2> QED
    BY <2>1 DEF Turn, Moves
<1> QED
  BY <1>1, <1>2, <1>3

\* The end of the work is committed, unless a receipt raced it.
LEMMA FinishEnds ==
  ASSUME NEW p \in Posts, NEW ok \in BOOLEAN, Finish(p, ok)
  PROVE  /\ pc[p] = "acted" /\ UNCHANGED <<done, unsure>>
         /\ \/ Receipted(p) /\ (EndsBare(p) \/ EndsStored(p))
            \/ \E code \in {"ok", "rejected"} : EndsCommitted(p, code, 1)
<1>1. CASE ~ok /\ Receipted(p)
  BY <1>1, FromReceiptEnds DEF Finish
<1>2. CASE ~(~ok /\ Receipted(p))
  <2>1. Commit(p, IF ok THEN "ok" ELSE "rejected", 1)
    BY <1>2 DEF Finish
  <2>2. (IF ok THEN "ok" ELSE "rejected") \in {"ok", "rejected"}
    OBVIOUS
  <2>3. CASE Receipted(p)
    BY <2>1, <2>3 DEF Finish, Commit, Answer, EndsBare, Told, Codes
  <2>4. CASE ~Receipted(p)
    BY <2>1, <2>2, <2>4 DEF Finish, Commit, Answer, EndsCommitted, Told
  <2> QED
    BY <2>3, <2>4 DEF Finish
<1> QED
  BY <1>1, <1>2 DEF Finish

-----------------------------------------------------------------------------
(* The answers. *)

\* A request that ends without an outcome leaves the outcomes alone.
LEMMA BareKeepsAnswers ==
  ASSUME AnswerInv, NEW p \in Posts, EndsBare(p)
  PROVE  RepliesAreReceipts' /\ OkIsDurable' /\ reply' \in [Posts -> Reply]
<1>1. PICK code \in Codes \ {"ok", "rejected"} : Told(p, Bare(code)) /\ UNCHANGED <<receipt, last, done>>
  BY DEF EndsBare
<1>2. Bare(code) \in Reply /\ Bare(code).code = code
  BY DEF Bare, Reply
<1>3. reply' \in [Posts -> Reply] /\ reply'[p].code \notin {"ok", "rejected"}
      /\ \A q \in Posts : q # p => reply'[q] = reply[q]
  BY <1>1, <1>2 DEF Told, AnswerInv, RouteType
<1>4. UNCHANGED <<cmd, cl, receipt>>
  BY <1>1 DEF Told
<1> QED
  BY <1>3, <1>4 DEF AnswerInv, RepliesAreReceipts, OkIsDurable, Id, Body

\* An answer from the receipt is a copy of it.
LEMMA StoredKeepsAnswers ==
  ASSUME AnswerInv, NEW p \in Posts, EndsStored(p)
  PROVE  RepliesAreReceipts' /\ OkIsDurable' /\ reply' \in [Posts -> Reply]
<1> DEFINE r == [code |-> receipt[Id(p)].code, seq |-> receipt[Id(p)].seq]
<1>1. r \in Reply
  BY PostType DEF AnswerInv, Receipt, NoReceipt, Reply, Codes
<1>2. reply' \in [Posts -> Reply] /\ reply'[p] = r /\ \A q \in Posts : q # p => reply'[q] = reply[q]
  BY <1>1 DEF EndsStored, Told, AnswerInv, RouteType
<1>3. UNCHANGED <<cmd, cl, receipt>> /\ receipt[Id(p)].body = Body(p)
  BY DEF EndsStored, Told
<1> QED
  BY <1>2, <1>3 DEF AnswerInv, RepliesAreReceipts, OkIsDurable, Id, Body

\* A commit gives the id its first receipt and the request a copy; nobody had been told an outcome.
LEMMA CommitKeepsAnswers ==
  ASSUME AnswerInv, NEW p \in Posts, NEW code \in {"ok", "rejected"}, NEW n \in Nat, EndsCommitted(p, code, n)
  PROVE  /\ RepliesAreReceipts' /\ OkIsDurable' /\ reply' \in [Posts -> Reply]
         /\ receipt' \in [Ids -> Receipt] /\ last' \in Nat
<1> DEFINE new == [body |-> Body(p), code |-> code, seq |-> last + n]
           r == [code |-> code, seq |-> last + n]
<1>1. last + n \in Nat /\ Id(p) \in Ids /\ Body(p) \in Bodies
  BY PostType DEF AnswerInv, RouteType
<1>2. new \in Receipt /\ r \in Reply
  BY <1>1 DEF Receipt, Reply, Codes
<1>3. /\ receipt' \in [Ids -> Receipt] /\ receipt'[Id(p)] = new
      /\ \A i \in Ids : i # Id(p) => receipt'[i] = receipt[i]
  BY <1>1, <1>2 DEF EndsCommitted, AnswerInv, RouteType
<1>4. /\ reply' \in [Posts -> Reply] /\ reply'[p] = r
      /\ \A q \in Posts : q # p => reply'[q] = reply[q]
  BY <1>2 DEF EndsCommitted, Told, AnswerInv, RouteType
<1>5. receipt[Id(p)] = NoReceipt /\ UNCHANGED <<cmd, cl>> /\ last' = last + n
  BY DEF EndsCommitted, Told, Receipted
<1>6. \A q \in Posts : Id(q) = Id(p) => reply[q].code \notin {"ok", "rejected"}
  <2>1. \A q \in Posts : Body(q) # "none"
    BY PostType, CommandAssumption DEF AnswerInv
  <2>2. NoReceipt.body = "none"
    BY DEF NoReceipt
  <2> QED
    BY <1>5, <2>1, <2>2 DEF AnswerInv, RepliesAreReceipts
<1>7. \A k \in Clients : cl[k] = "ok" => cmd[k].id # Id(p)
  BY <1>5 DEF AnswerInv, OkIsDurable, NoReceipt
<1>8. RepliesAreReceipts'
  <2> SUFFICES ASSUME NEW q \in Posts, reply'[q].code \in {"ok", "rejected"}
               PROVE  /\ receipt'[Id(q)].body = Body(q)
                      /\ reply'[q] = [code |-> receipt'[Id(q)].code, seq |-> receipt'[Id(q)].seq]
    BY <1>5 DEF RepliesAreReceipts, Id, Body
  <2>1. CASE q = p
    BY <2>1, <1>3, <1>4
  <2>2. CASE q # p
    <3>1. Id(q) # Id(p) /\ Id(q) \in Ids
      BY <2>2, <1>4, <1>6, PostType DEF AnswerInv
    <3> QED
      BY <2>2, <3>1, <1>3, <1>4 DEF AnswerInv, RepliesAreReceipts
  <2> QED
    BY <2>1, <2>2
<1>9. OkIsDurable'
  <2>1. \A k \in Clients : cmd[k].id \in Ids
    BY DEF AnswerInv, RouteType, Command
  <2> QED
    BY <1>3, <1>5, <1>7, <2>1 DEF AnswerInv, OkIsDurable
<1> QED
  BY <1>1, <1>3, <1>4, <1>5, <1>8, <1>9

\* The types, for a request that ends or goes on.
LEMMA EndsTyped ==
  ASSUME RouteType, NEW p \in Posts, NEW to \in {"line", "turn", "acted", "done"},
         pc' = [pc EXCEPT ![p] = to], Leave(p) \/ UNCHANGED inflight, UNCHANGED <<cmd, cl, before>>,
         reply' \in [Posts -> Reply], receipt' \in [Ids -> Receipt], last' \in Nat,
         done' \in [Ids -> Nat], unsure' \subseteq Ids
  PROVE  RouteType'
<1>1. pc' \in [Posts -> {"none", "wait", "line", "turn", "acted", "done"}]
  BY DEF RouteType
<1>2. inflight' \in [Ids -> Posts \cup {None}]
  BY PostType DEF RouteType, Leave
<1> QED
  BY <1>1, <1>2 DEF RouteType

\* A step of the route on a request.
LEMMA PostKeepsAnswers ==
  ASSUME AnswerInv, NEW p \in Posts,
         Step(p) \/ Busy(p) \/ Throws(p) \/ Decide(p, FALSE) \/ Finish(p, FALSE)
  PROVE  AnswerInv'
<1> USE DEF AnswerInv
<1>0. Id(p) \in Ids
  BY PostType
<1>1. ASSUME EndsBare(p), unsure' \subseteq Ids PROVE AnswerInv'
  <2>1. /\ pc' = [pc EXCEPT ![p] = "done"] /\ Leave(p) /\ UNCHANGED <<cmd, cl, before, receipt, last, done>>
    BY <1>1 DEF EndsBare, Told
  <2>2. receipt' \in [Ids -> Receipt] /\ last' \in Nat /\ done' \in [Ids -> Nat]
    BY <2>1 DEF RouteType
  <2> QED
    BY <1>1, <2>1, <2>2, BareKeepsAnswers, EndsTyped
<1>2. ASSUME EndsStored(p), unsure' \subseteq Ids PROVE AnswerInv'
  <2>1. /\ pc' = [pc EXCEPT ![p] = "done"] /\ Leave(p) /\ UNCHANGED <<cmd, cl, before, receipt, last, done>>
    BY <1>2 DEF EndsStored, Told
  <2>2. receipt' \in [Ids -> Receipt] /\ last' \in Nat /\ done' \in [Ids -> Nat]
    BY <2>1 DEF RouteType
  <2> QED
    BY <1>2, <2>1, <2>2, StoredKeepsAnswers, EndsTyped
<1>3. ASSUME NEW code \in {"ok", "rejected"}, NEW n \in Nat, EndsCommitted(p, code, n),
             unsure' \subseteq Ids, done' \in [Ids -> Nat]
      PROVE  AnswerInv'
  <2>1. /\ pc' = [pc EXCEPT ![p] = "done"] /\ Leave(p) /\ UNCHANGED <<cmd, cl, before>>
    BY <1>3 DEF EndsCommitted, Told
  <2> QED
    BY <1>3, <2>1, CommitKeepsAnswers, EndsTyped
<1>4. ASSUME NEW to \in {"line", "turn", "acted"}, Moves(p, to), unsure' \subseteq Ids, done' \in [Ids -> Nat]
      PROVE  AnswerInv'
  <2>1. reply' \in [Posts -> Reply] /\ receipt' \in [Ids -> Receipt] /\ last' \in Nat
    BY <1>4 DEF Moves, RouteType
  <2>2. RouteType'
    BY <1>4, <2>1, EndsTyped DEF Moves
  <2> QED
    BY <1>4, <2>2 DEF Moves, RepliesAreReceipts, OkIsDurable, Id, Body
<1>5. UNCHANGED unsure => unsure' \subseteq Ids
  BY DEF RouteType
<1>6. UNCHANGED done \/ done' = [done EXCEPT ![Id(p)] = @ + 1] => done' \in [Ids -> Nat]
  BY <1>0 DEF RouteType
<1>7. CASE Execute(p)
  BY <1>7, <1>1, <1>2, <1>4, <1>5, <1>6, ExecuteEnds
<1>8. CASE Turn(p)
  BY <1>8, <1>1, <1>2, <1>3, <1>4, <1>5, <1>6, TurnEnds
<1>9. CASE Work(p)
  <2>1. Moves(p, "acted") /\ UNCHANGED unsure /\ done' = [done EXCEPT ![Id(p)] = @ + 1]
    BY <1>9 DEF Work, Moves
  <2> QED
    BY <2>1, <1>4, <1>5, <1>6
<1>10. ASSUME NEW b \in BOOLEAN, Decide(p, b) PROVE AnswerInv'
  BY <1>10, <1>1, <1>2, <1>3, <1>5, <1>6, DecideEnds
<1>11. ASSUME NEW b \in BOOLEAN, Finish(p, b) PROVE AnswerInv'
  BY <1>11, <1>1, <1>2, <1>3, <1>5, <1>6, FinishEnds
<1>12. CASE Busy(p)
  BY <1>12, <1>1, <1>5, BusyEnds
<1>13. CASE Throws(p)
  <2>1. unsure' \subseteq Ids
    BY <1>0, <1>13, ThrowsEnds DEF RouteType
  <2> QED
    BY <1>1, <1>13, <2>1, ThrowsEnds
<1> QED
  BY <1>7, <1>8, <1>9, <1>10, <1>11, <1>12, <1>13 DEF Step

\* What the client does, and what happens to the bridge.
LEMMA ClientKeepsAnswers ==
  ASSUME AnswerInv, \/ \E k \in Clients : Post(k) \/ Lose(k) \/ Hear(k)
                    \/ Polled \/ Restart \/ UNCHANGED vars
  PROVE  AnswerInv'
<1> USE DEF AnswerInv
<1>0. ASSUME NEW p \in Posts, Arrive(p), UNCHANGED cmd
      PROVE  /\ pc' \in [Posts -> {"none", "wait", "line", "turn", "acted", "done"}]
             /\ before' \in [Posts -> Posts \cup {None}] /\ inflight' \in [Ids -> Posts \cup {None}]
  BY <1>0, PostType DEF Arrive, RouteType
<1>1. ASSUME NEW k \in Clients, Post(k) PROVE AnswerInv'
  <2>1. <<k, 1>> \in Posts /\ <<k, 2>> \in Posts
    BY DEF Posts
  <2>2. /\ pc' \in [Posts -> {"none", "wait", "line", "turn", "acted", "done"}]
        /\ before' \in [Posts -> Posts \cup {None}] /\ inflight' \in [Ids -> Posts \cup {None}]
    BY <1>0, <1>1, <2>1 DEF Post
  <2>3. /\ cl' \in [Clients -> {"idle", "first", "again", "second", "ok", "error", "lost"}]
        /\ \A j \in Clients : cl'[j] = "ok" => cl[j] = "ok"
        /\ UNCHANGED <<cmd, reply, receipt, last, done, unsure>>
    BY <1>1 DEF Post, RouteType
  <2> QED
    BY <2>2, <2>3 DEF RouteType, RepliesAreReceipts, OkIsDurable, Id, Body
<1>2. ASSUME NEW k \in Clients, Lose(k) PROVE AnswerInv'
  <2>1. /\ cl' \in [Clients -> {"idle", "first", "again", "second", "ok", "error", "lost"}]
        /\ \A j \in Clients : cl'[j] = "ok" => cl[j] = "ok"
        /\ UNCHANGED <<cmd, pc, before, inflight, reply, receipt, last, done, unsure>>
    BY <1>2 DEF Lose, RouteType
  <2> QED
    BY <2>1 DEF RouteType, RepliesAreReceipts, OkIsDurable, Id, Body
<1>3. ASSUME NEW k \in Clients, Hear(k) PROVE AnswerInv'
  <2>1. /\ cl' \in [Clients -> {"idle", "first", "again", "second", "ok", "error", "lost"}]
        /\ \A j \in Clients : cl'[j] = "ok" => cl[j] = "ok" \/ (j = k /\ reply[Try(k)].code = "ok")
        /\ UNCHANGED <<cmd, pc, before, inflight, reply, receipt, last, done, unsure>>
    BY <1>3 DEF Hear, RouteType
  <2>2. Try(k) \in Posts /\ Try(k)[1] = k
    BY DEF Try, Posts
  <2>3. reply[Try(k)].code = "ok" => receipt[cmd[k].id].body = cmd[k].body /\ receipt[cmd[k].id].code = "ok"
    <3>1. reply[Try(k)].code = "ok" =>
            /\ receipt[Id(Try(k))].body = Body(Try(k))
            /\ reply[Try(k)] = [code |-> receipt[Id(Try(k))].code, seq |-> receipt[Id(Try(k))].seq]
      BY <2>2 DEF RepliesAreReceipts
    <3>2. Id(Try(k)) = cmd[k].id /\ Body(Try(k)) = cmd[k].body
      BY <2>2 DEF Id, Body
    <3> QED
      BY <3>1, <3>2
  <2>4. OkIsDurable'
    BY <2>1, <2>3 DEF OkIsDurable
  <2> QED
    BY <2>1, <2>4 DEF RouteType, RepliesAreReceipts, Id, Body
<1>4. CASE Polled \/ UNCHANGED vars
  BY <1>4 DEF Polled, vars, RouteType, RepliesAreReceipts, OkIsDurable, Id, Body
<1>5. CASE Restart
  <2>1. /\ cl' \in [Clients -> {"idle", "first", "again", "second", "ok", "error", "lost"}]
        /\ \A j \in Clients : cl'[j] = "ok" => cl[j] = "ok"
    BY <1>5 DEF Restart, RouteType
  <2>2. /\ pc' \in [Posts -> {"none", "wait", "line", "turn", "acted", "done"}]
        /\ before' \in [Posts -> Posts \cup {None}] /\ inflight' \in [Ids -> Posts \cup {None}]
        /\ UNCHANGED <<cmd, reply, receipt, last, done>>
    BY <1>5 DEF Restart
  <2>3. unsure' \subseteq Ids
    BY <1>5, PostType DEF Restart, RouteType
  <2> QED
    BY <2>1, <2>2, <2>3 DEF RouteType, RepliesAreReceipts, OkIsDurable, Id, Body
<1> QED
  BY <1>1, <1>2, <1>3, <1>4, <1>5

\* The answers' invariant holds throughout.
LEMMA AnswersHold == Spec => []AnswerInv
<1>1. Init => AnswerInv
  <2> SUFFICES ASSUME Init PROVE AnswerInv
      OBVIOUS
  <2>1. NoReply \in Reply /\ NoReply.code = "none" /\ NoReceipt \in Receipt
    BY DEF NoReply, Reply, Codes, Receipt
  <2> QED
    BY <2>1 DEF Init, AnswerInv, RouteType, RepliesAreReceipts, OkIsDurable
<1>2. AnswerInv /\ [Next]_vars => AnswerInv'
  BY PostKeepsAnswers, ClientKeepsAnswers DEF Next
<1> QED
  BY <1>1, <1>2, PTL DEF Spec

\* A client that was told "ok" finds its receipt in the store, whatever is lost, retried or restarted
\* (commandRoute and fromReceipt, bridge/threads/v2-routes.ts; append with a receipt, store.ts).
THEOREM OkStaysDurable == Spec => []OkIsDurable
<1>1. AnswerInv => OkIsDurable
  BY DEF AnswerInv
<1> QED
  BY <1>1, AnswersHold, PTL

\* All requests for a command that has an outcome are told the same one, with the same sequence.  This
\* rests on the receipts alone, not on the order in which the requests run.
THEOREM AnswersAgree == Spec => []SameAnswer
<1>1. AnswerInv => SameAnswer
  BY DEF AnswerInv, RepliesAreReceipts, SameAnswer, Id, Body
<1> QED
  BY <1>1, AnswersHold, PTL

-----------------------------------------------------------------------------
(* The order of the requests with one id. *)

\* Of the requests with one id only one is past its wait.
LEMMA OneRuns ==
  ASSUME OrderInv, NEW p \in Running, NEW q \in Running, Id(p) = Id(q)
  PROVE  p = q
<1>1. PICK ahead \in [Posts -> SUBSET Posts] : InOrder(ahead, IdOf, Active, Running, before, inflight)
  BY DEF OrderInv
<1>2. p \in Active /\ q \in Active /\ IdOf[p] = IdOf[q]
  BY DEF Running, Active, IdOf
<1>3. ahead[p] = {} /\ ahead[q] = {}
  BY <1>1 DEF InOrder
<1> QED
  BY <1>1, <1>2, <1>3 DEF InOrder

\* The order and the map without a request that ended.
Without(ahead, p) == [c \in Posts |-> ahead[c] \ {p}]
Left(latest, i, p) == IF latest[i] = p THEN [latest EXCEPT ![i] = None] ELSE latest

\* The end of the first request of its id keeps the order of the others.
LEMMA EndKeepsOrder ==
  ASSUME NEW ahead \in [Posts -> SUBSET Posts], NEW id \in [Posts -> Ids], NEW A \in SUBSET Posts,
         NEW R \in SUBSET A, NEW bef, NEW latest \in [Ids -> Posts \cup {None}],
         InOrder(ahead, id, A, R, bef, latest), NEW p \in A, ahead[p] = {}
  PROVE  InOrder(Without(ahead, p), id, A \ {p}, R \ {p}, bef, Left(latest, id[p], p))
<1> DEFINE new == Without(ahead, p)
           lat == Left(latest, id[p], p)
<1>1. \A c \in Posts : new[c] = ahead[c] \ {p}
  BY DEF Without
<1>2. \A i \in Ids : lat[i] = IF latest[i] = p THEN None ELSE latest[i]
  BY DEF InOrder, Left
<1> HIDE DEF new, lat
<1>3. ASSUME NEW c \in A \ {p}
      PROVE  new[c] = IF bef[c] \in A \ {p} THEN new[bef[c]] \cup {bef[c]} ELSE {}
  <2>1. ahead[c] = IF bef[c] \in A THEN ahead[bef[c]] \cup {bef[c]} ELSE {}
    BY DEF InOrder
  <2>2. CASE bef[c] \notin A
    BY <1>1, <2>1, <2>2
  <2>3. CASE bef[c] = p
    BY <1>1, <2>1, <2>3
  <2>4. CASE bef[c] \in A \ {p}
    BY <1>1, <2>1, <2>4
  <2> QED
    BY <2>2, <2>3, <2>4
<1>4. \A i \in Ids : lat[i] # None => lat[i] \in A \ {p} /\ id[lat[i]] = i
  BY <1>2 DEF InOrder
<1>5. ASSUME NEW c \in A \ {p}
      PROVE  lat[id[c]] # None /\ (c # lat[id[c]] => c \in new[lat[id[c]]])
  <2>1. latest[id[c]] # None /\ (c # latest[id[c]] => c \in ahead[latest[id[c]]])
    BY DEF InOrder
  <2>2. latest[id[c]] # p /\ id[c] \in Ids
    BY <2>1
  <2>3. lat[id[c]] = latest[id[c]] /\ latest[id[c]] \in Posts
    BY <1>2, <2>1, <2>2
  <2> QED
    BY <1>1, <2>1, <2>3
<1>6. \A c \in A \ {p} : \A d \in new[c] : d \in A \ {p} /\ id[d] = id[c]
  BY <1>1 DEF InOrder
<1>7. \A c, d \in A \ {p} : id[c] = id[d] /\ c # d => c \in new[d] \/ d \in new[c]
  BY <1>1 DEF InOrder
<1>8. \A c \in R \ {p} : new[c] = {}
  BY <1>1 DEF InOrder
<1>9. InOrder(new, id, A \ {p}, R \ {p}, bef, lat)
  BY <1>3, <1>4, <1>5, <1>6, <1>7, <1>8 DEF InOrder
<1> QED
  BY <1>9 DEF new, lat

\* A request that arrives is the last of its id: it waits for the one on the map.
LEMMA ArrivalKeepsOrder ==
  ASSUME NEW ahead \in [Posts -> SUBSET Posts], NEW id \in [Posts -> Ids], NEW A \in SUBSET Posts,
         NEW R \in SUBSET A, NEW bef \in [Posts -> Posts \cup {None}],
         NEW latest \in [Ids -> Posts \cup {None}],
         InOrder(ahead, id, A, R, bef, latest), NEW p \in Posts \ A, None \notin Posts,
         \A c \in Posts : bef[c] # p
  PROVE  \E new \in [Posts -> SUBSET Posts] :
           InOrder(new, id, A \cup {p}, R, [bef EXCEPT ![p] = latest[id[p]]], [latest EXCEPT ![id[p]] = p])
<1> DEFINE q == latest[id[p]]
           mine == IF q = None THEN {} ELSE ahead[q] \cup {q}
           new == [ahead EXCEPT ![p] = mine]
           b2 == [bef EXCEPT ![p] = q]
           l2 == [latest EXCEPT ![id[p]] = p]
<1>0. q \in Posts \cup {None} /\ id[p] \in Ids
  OBVIOUS
<1>1. mine \in SUBSET Posts /\ (q # None => q \in A /\ id[q] = id[p])
  BY <1>0 DEF InOrder
<1>2. \A c \in Posts : new[c] = (IF c = p THEN mine ELSE ahead[c]) /\ b2[c] = (IF c = p THEN q ELSE bef[c])
  OBVIOUS
<1>3. \A i \in Ids : l2[i] = IF i = id[p] THEN p ELSE latest[i]
  OBVIOUS
<1>4. new \in [Posts -> SUBSET Posts]
  BY <1>1
<1>5. \A d \in mine : d \in A /\ id[d] = id[p]
  BY <1>1 DEF InOrder
<1>6. \A d \in A : id[d] = id[p] => d \in mine
  BY <1>0, <1>1 DEF InOrder
<1> HIDE DEF mine, new, b2, l2, q
<1>7. \A c \in A \cup {p} : \A d \in new[c] : d \in A \cup {p} /\ id[d] = id[c]
  BY <1>2, <1>5 DEF InOrder
<1>8. \A c, d \in A \cup {p} : id[c] = id[d] /\ c # d => c \in new[d] \/ d \in new[c]
  BY <1>2, <1>6 DEF InOrder
<1>9. ASSUME NEW c \in A \cup {p}
      PROVE  new[c] = IF b2[c] \in A \cup {p} THEN new[b2[c]] \cup {b2[c]} ELSE {}
  <2>1. CASE c = p
    <3>1. new[c] = mine /\ b2[c] = q /\ q # p
      BY <1>1, <1>2, <2>1
    <3>2. CASE q = None
      BY <1>1, <3>1, <3>2 DEF mine
    <3>3. CASE q # None
      BY <1>1, <1>2, <3>1, <3>3 DEF mine
    <3> QED
      BY <3>2, <3>3
  <2>2. CASE c # p
    <3>1. new[c] = ahead[c] /\ b2[c] = bef[c] /\ c \in A
      BY <1>2, <2>2
    <3>2. ahead[c] = IF bef[c] \in A THEN ahead[bef[c]] \cup {bef[c]} ELSE {}
      BY <3>1 DEF InOrder
    <3> QED
      BY <1>2, <3>1, <3>2
  <2> QED
    BY <2>1, <2>2
<1>10. \A c \in R : new[c] = {}
  BY <1>2 DEF InOrder
<1>11. \A i \in Ids : l2[i] # None => l2[i] \in A \cup {p} /\ id[l2[i]] = i
  BY <1>3 DEF InOrder
<1>12. ASSUME NEW c \in A \cup {p}
       PROVE  l2[id[c]] # None /\ (c # l2[id[c]] => c \in new[l2[id[c]]])
  <2>1. CASE id[c] = id[p]
    BY <1>0, <1>2, <1>3, <1>6, <2>1
  <2>2. CASE id[c] # id[p]
    <3>1. c \in A /\ l2[id[c]] = latest[id[c]] /\ id[c] \in Ids
      BY <1>3, <2>2
    <3>2. latest[id[c]] # None /\ (c # latest[id[c]] => c \in ahead[latest[id[c]]])
      BY <3>1 DEF InOrder
    <3>3. latest[id[c]] \in A
      BY <3>1, <3>2 DEF InOrder
    <3> QED
      BY <1>2, <3>1, <3>2, <3>3
  <2> QED
    BY <2>1, <2>2
<1>13. InOrder(new, id, A \cup {p}, R, b2, l2)
  BY <1>7, <1>8, <1>9, <1>10, <1>11, <1>12 DEF InOrder
<1> QED
  BY <1>4, <1>13 DEF b2, l2, q

-----------------------------------------------------------------------------
(* Once. *)

\* The types of the sets the order is about.
LEMMA OrderType ==
  ASSUME RouteType
  PROVE  /\ IdOf \in [Posts -> Ids] /\ None \notin Posts
         /\ Running \subseteq Active /\ Active \subseteq Posts
         /\ before \in [Posts -> Posts \cup {None}] /\ inflight \in [Ids -> Posts \cup {None}]
  BY PostType DEF IdOf, Running, Active, RouteType

\* A request that ends, past its wait or at the end of it.
LEMMA EndsInOrder ==
  ASSUME RouteType, OrderInv, TriesInTurn, NEW p \in Posts,
         p \in Running \/ (pc[p] = "wait" /\ (before[p] # None => pc[before[p]] = "done")),
         pc' = [pc EXCEPT ![p] = "done"], Leave(p), UNCHANGED <<cmd, cl, before>>
  PROVE  OrderInv' /\ TriesInTurn' /\ Running' = Running \ {p}
<1>1. PICK ahead \in [Posts -> SUBSET Posts] : InOrder(ahead, IdOf, Active, Running, before, inflight)
  BY DEF OrderInv
<1>2. p \in Active /\ ahead[p] = {}
  <2>1. CASE p \in Running
    BY <1>1, <2>1, OrderType DEF InOrder
  <2>2. CASE pc[p] = "wait" /\ (before[p] # None => pc[before[p]] = "done")
    <3>1. p \in Active /\ before[p] \notin Active
      BY <2>2, OrderType DEF Active
    <3> QED
      BY <1>1, <3>1 DEF InOrder
  <2> QED
    BY <2>1, <2>2
<1>3. Active' = Active \ {p} /\ Running' = Running \ {p} /\ IdOf' = IdOf
  BY DEF RouteType, Active, Running, IdOf, Id
<1>4. inflight' = Left(inflight, IdOf[p], p)
  BY DEF Leave, IdOf, Left
<1>5. InOrder(Without(ahead, p), IdOf', Active', Running', before', inflight')
  <2>1. /\ IdOf \in [Posts -> Ids] /\ Active \in SUBSET Posts /\ Running \in SUBSET Active
        /\ inflight \in [Ids -> Posts \cup {None}] /\ p \in Active
    BY <1>2, OrderType
  <2>2. InOrder(Without(ahead, p), IdOf, Active \ {p}, Running \ {p}, before, Left(inflight, IdOf[p], p))
    BY <1>1, <1>2, <2>1, EndKeepsOrder
  <2> QED
    BY <1>3, <1>4, <2>2
<1>6. Without(ahead, p) \in [Posts -> SUBSET Posts]
  BY DEF Without
<1>7. TriesInTurn'
  <2>1. \A q \in Posts : pc'[q] = "none" <=> pc[q] = "none"
    BY <1>2 DEF RouteType, Active
  <2>2. \A k \in Clients : <<k, 1>> \in Posts /\ <<k, 2>> \in Posts
    BY DEF Posts
  <2> QED
    BY <2>1, <2>2, OrderType DEF TriesInTurn
<1> QED
  BY <1>3, <1>5, <1>6, <1>7 DEF OrderInv

\* A request that goes on: the first of its id.
LEMMA MovesInOrder ==
  ASSUME RouteType, OrderInv, TriesInTurn, NEW p \in Posts, NEW to \in {"line", "turn", "acted"},
         p \in Running \/ (pc[p] = "wait" /\ (before[p] # None => pc[before[p]] = "done")),
         Moves(p, to)
  PROVE  OrderInv' /\ TriesInTurn' /\ Running' = Running \cup {p}
<1>1. PICK ahead \in [Posts -> SUBSET Posts] : InOrder(ahead, IdOf, Active, Running, before, inflight)
  BY DEF OrderInv
<1>2. p \in Active /\ ahead[p] = {}
  <2>1. CASE p \in Running
    BY <1>1, <2>1, OrderType DEF InOrder
  <2>2. CASE pc[p] = "wait" /\ (before[p] # None => pc[before[p]] = "done")
    <3>1. p \in Active /\ before[p] \notin Active
      BY <2>2, OrderType DEF Active
    <3> QED
      BY <1>1, <3>1 DEF InOrder
  <2> QED
    BY <2>1, <2>2
<1>3. Active' = Active /\ Running' = Running \cup {p} /\ IdOf' = IdOf
  BY <1>2 DEF RouteType, Active, Running, IdOf, Id, Moves
<1>4. InOrder(ahead, IdOf, Active, Running \cup {p}, before, inflight)
  BY <1>1, <1>2 DEF InOrder
<1>5. InOrder(ahead, IdOf', Active', Running', before', inflight')
  BY <1>3, <1>4 DEF Moves
<1>6. TriesInTurn'
  <2>1. \A q \in Posts : pc'[q] = "none" <=> pc[q] = "none"
    BY <1>2 DEF RouteType, Active, Moves
  <2>2. \A k \in Clients : <<k, 1>> \in Posts /\ <<k, 2>> \in Posts
    BY DEF Posts
  <2> QED
    BY <2>1, <2>2, OrderType DEF TriesInTurn, Moves
<1> QED
  BY <1>3, <1>5, <1>6 DEF OrderInv

\* A request that arrives.
LEMMA PostInOrder ==
  ASSUME RouteType, RouteInv, NEW k \in Clients, Post(k)
  PROVE  RouteInv'
<1>0. <<k, 1>> \in Posts /\ <<k, 2>> \in Posts /\ <<k, 1>> # <<k, 2>>
  BY DEF Posts
<1>1. PICK p \in Posts : /\ p \in {<<k, 1>>, <<k, 2>>} /\ pc[p] = "none" /\ Arrive(p)
                         /\ cl' = [cl EXCEPT ![k] = IF p = <<k, 1>> THEN "first" ELSE "second"]
                         /\ p = <<k, 2>> \/ cl[k] = "idle"
  BY <1>0 DEF Post, RouteInv, TriesInTurn
<1>2. UNCHANGED <<cmd, receipt, done, unsure>>
  BY DEF Post
<1>3. /\ \A q \in Posts : pc'[q] = (IF q = p THEN "wait" ELSE pc[q])
                         /\ before'[q] = (IF q = p THEN inflight[Id(p)] ELSE before[q])
      /\ Active' = Active \cup {p} /\ Running' = Running /\ IdOf' = IdOf /\ p \in Posts \ Active
  BY <1>1, <1>2 DEF Arrive, RouteType, Active, Running, IdOf, Id
<1>4. OrderInv'
  <2>1. PICK ahead \in [Posts -> SUBSET Posts] : InOrder(ahead, IdOf, Active, Running, before, inflight)
    BY DEF RouteInv, OrderInv
  <2>2. \A c \in Posts : before[c] # p
    BY <1>1, PostType DEF RouteInv, TriesInTurn
  <2>3. /\ before' = [before EXCEPT ![p] = inflight[IdOf[p]]]
        /\ inflight' = [inflight EXCEPT ![IdOf[p]] = p]
    BY <1>1 DEF Arrive, IdOf
  <2>4. \E new \in [Posts -> SUBSET Posts] : InOrder(new, IdOf', Active', Running', before', inflight')
    BY <1>3, <2>1, <2>2, <2>3, OrderType, ArrivalKeepsOrder
  <2> QED
    BY <2>4 DEF OrderInv
<1>5. TriesInTurn'
  <2>1. \A q \in Posts : pc'[q] = "none" <=> pc[q] = "none" /\ q # p
    BY <1>3
  <2>2. inflight[Id(p)] # None => inflight[Id(p)] \in Active /\ pc[inflight[Id(p)]] # "none"
    <3>1. PICK ahead \in [Posts -> SUBSET Posts] : InOrder(ahead, IdOf, Active, Running, before, inflight)
      BY DEF RouteInv, OrderInv
    <3> QED
      BY <3>1, PostType DEF InOrder, Active
  <2>3. ASSUME NEW q \in Posts PROVE before'[q] = None \/ pc'[before'[q]] # "none"
    BY <1>3, <2>1, <2>2, PostType DEF RouteInv, TriesInTurn
  <2>4. ASSUME NEW j \in Clients
        PROVE  /\ cl'[j] = "idle" => pc'[<<j, 1>>] = "none"
               /\ cl'[j] \in {"idle", "first", "again"} => pc'[<<j, 2>>] = "none"
    <3>1. <<j, 1>> \in Posts /\ <<j, 2>> \in Posts /\ (j # k => <<j, 1>> # p /\ <<j, 2>> # p)
      BY <1>1 DEF Posts
    <3>2. CASE j # k
      <4>1. cl'[j] = cl[j]
        BY <1>1, <3>2 DEF RouteType
      <4> QED
        BY <2>1, <3>1, <3>2, <4>1 DEF RouteInv, TriesInTurn
    <3>3. CASE j = k
      <4>1. cl'[k] = IF p = <<k, 1>> THEN "first" ELSE "second"
        BY <1>1 DEF RouteType
      <4>2. p = <<k, 1>> => cl[k] = "idle" /\ pc[<<k, 2>>] = "none"
        BY <1>0, <1>1 DEF RouteInv, TriesInTurn
      <4> QED
        BY <1>0, <1>1, <1>3, <3>3, <4>1, <4>2
    <3> QED
      BY <3>2, <3>3
  <2> QED
    BY <2>3, <2>4 DEF TriesInTurn
<1>6. WorkInv'
  <2>1. \A q \in Posts : Receipted(q)' = Receipted(q) /\ Id(q)' = Id(q) /\ (pc'[q] = "acted" <=> pc[q] = "acted")
    BY <1>1, <1>2, <1>3 DEF Receipted, Id
  <2> QED
    BY <1>2, <1>3, <2>1, OrderType DEF RouteInv, WorkInv
<1>7. AppliedOnce'
  BY <1>2 DEF RouteInv, AppliedOnce
<1> QED
  BY <1>4, <1>5, <1>6, <1>7 DEF RouteInv

\* A request that is past its wait, and has not acted, finds the work of its id not done.
LEMMA NotDoneYet ==
  ASSUME RouteType, RouteInv, NEW p \in Running, pc[p] # "acted", Id(p) \notin unsure
  PROVE  done[Id(p)] = 0
<1>1. p \in Posts /\ Id(p) \in Ids /\ receipt[Id(p)] = NoReceipt
  BY PostType DEF RouteInv, WorkInv, Receipted, Running
<1>2. \A q \in Posts : pc[q] = "acted" => Id(q) # Id(p)
  BY OneRuns DEF RouteInv, Running
<1> QED
  BY <1>1, <1>2 DEF RouteInv, WorkInv

\* A request that ends with no receipt of its own leaves the work as it is.
LEMMA EndKeepsWork ==
  ASSUME RouteType, RouteInv, NEW p \in Posts, Running' = Running \ {p},
         pc' = [pc EXCEPT ![p] = "done"], UNCHANGED <<cmd, receipt, done>>,
         unsure' = IF pc[p] = "acted" THEN unsure \cup {Id(p)} ELSE unsure
  PROVE  WorkInv' /\ AppliedOnce'
<1>1. \A q \in Posts : /\ Receipted(q)' = Receipted(q) /\ Id(q)' = Id(q)
                       /\ (pc'[q] = "acted" <=> pc[q] = "acted" /\ q # p)
  BY DEF Receipted, Id, RouteType
<1>2. \A q \in Running' : ~Receipted(q)'
  BY <1>1, OrderType DEF RouteInv, WorkInv, Running
<1>3. ASSUME NEW i \in Ids \ unsure',
             receipt'[i] = NoReceipt, \A q \in Posts : pc'[q] = "acted" => Id(q)' # i
      PROVE  done'[i] = 0
  <2>1. i \notin unsure /\ (pc[p] = "acted" => Id(p) # i)
    OBVIOUS
  <2>2. \A q \in Posts : pc[q] = "acted" => Id(q) # i
    BY <1>1, <1>3, <2>1
  <2> QED
    BY <1>3, <2>1, <2>2 DEF RouteInv, WorkInv
<1>4. AppliedOnce'
  BY DEF RouteInv, AppliedOnce
<1>5. WorkInv'
  BY <1>2, <1>3 DEF WorkInv
<1> QED
  BY <1>4, <1>5

\* A request that commits is the only one at work on its id, and the id has its receipt.
LEMMA CommitKeepsWork ==
  ASSUME RouteType, RouteInv, NEW p \in Running, Running' = Running \ {p}, NEW code \in {"ok", "rejected"},
         NEW n, EndsCommitted(p, code, n), UNCHANGED unsure,
         UNCHANGED done \/ (pc[p] # "acted" /\ done' = [done EXCEPT ![Id(p)] = @ + 1])
  PROVE  WorkInv' /\ AppliedOnce'
<1>0. p \in Posts /\ Id(p) \in Ids
  BY PostType DEF Running
<1>1. /\ receipt'[Id(p)] # NoReceipt
      /\ \A i \in Ids : i # Id(p) => receipt'[i] = receipt[i]
  BY <1>0 DEF EndsCommitted, RouteType, NoReceipt
<1>2. \A q \in Posts : Id(q)' = Id(q) /\ Id(q) \in Ids /\ (q # p => pc'[q] = pc[q])
  BY PostType DEF EndsCommitted, Told, Id, RouteType
<1>3. \A q \in Running' : ~Receipted(q)'
  <2> SUFFICES ASSUME NEW q \in Running' PROVE ~Receipted(q)'
    OBVIOUS
  <2>1. q \in Running /\ q # p /\ q \in Posts
    BY OrderType DEF Running
  <2>2. Id(q) # Id(p)
    BY <2>1, OneRuns DEF RouteInv
  <2>3. ~Receipted(q) /\ receipt'[Id(q)] = receipt[Id(q)]
    BY <1>1, <1>2, <2>1, <2>2 DEF RouteInv, WorkInv
  <2> QED
    BY <1>2, <2>1, <2>3 DEF Receipted
<1>4. ASSUME NEW i \in Ids \ unsure,
             receipt'[i] = NoReceipt, \A q \in Posts : pc'[q] = "acted" => Id(q)' # i
      PROVE  done'[i] = 0
  <2>1. i # Id(p) /\ receipt[i] = NoReceipt
    BY <1>1, <1>4
  <2>2. \A q \in Posts : pc[q] = "acted" => Id(q) # i
    BY <1>2, <1>4, <2>1
  <2>3. done[i] = 0
    BY <2>1, <2>2 DEF RouteInv, WorkInv
  <2> QED
    BY <2>1, <2>3 DEF RouteType
<1>5. AppliedOnce'
  <2>1. CASE UNCHANGED done
    BY <2>1 DEF RouteInv, AppliedOnce
  <2>2. CASE pc[p] # "acted" /\ done' = [done EXCEPT ![Id(p)] = @ + 1]
    <3>1. Id(p) \notin unsure => done[Id(p)] = 0
      BY <2>2, NotDoneYet
    <3> QED
      BY <1>0, <2>2, <3>1 DEF RouteInv, AppliedOnce, RouteType
  <2> QED
    BY <2>1, <2>2
<1>6. WorkInv'
  BY <1>3, <1>4 DEF WorkInv
<1> QED
  BY <1>5, <1>6

\* A step of the route on a request.
LEMMA PostKeepsRoute ==
  ASSUME RouteType, RouteInv, NEW p \in Posts,
         Step(p) \/ Busy(p) \/ Throws(p) \/ Decide(p, FALSE) \/ Finish(p, FALSE)
  PROVE  RouteInv'
<1> DEFINE Due == pc[p] = "wait" /\ (before[p] # None => pc[before[p]] = "done")
<1>0. (p \in Running <=> pc[p] \in {"line", "turn", "acted"}) /\ (p \in Running => ~Receipted(p))
  BY DEF Running, RouteInv, WorkInv
<1>1. ASSUME p \in Running \/ Due, EndsBare(p) \/ EndsStored(p),
             unsure' = IF pc[p] = "acted" THEN unsure \cup {Id(p)} ELSE unsure
      PROVE  RouteInv'
  <2>1. /\ pc' = [pc EXCEPT ![p] = "done"] /\ Leave(p) /\ UNCHANGED <<cmd, cl, before, receipt, done>>
    BY <1>1 DEF EndsBare, EndsStored, Told
  <2>2. OrderInv' /\ TriesInTurn' /\ Running' = Running \ {p}
    BY <1>1, <2>1, EndsInOrder DEF RouteInv
  <2> QED
    BY <1>1, <2>1, <2>2, EndKeepsWork DEF RouteInv
<1>2. ASSUME p \in Running, NEW code \in {"ok", "rejected"}, NEW n, EndsCommitted(p, code, n), UNCHANGED unsure,
             UNCHANGED done \/ (pc[p] # "acted" /\ done' = [done EXCEPT ![Id(p)] = @ + 1])
      PROVE  RouteInv'
  <2>1. /\ pc' = [pc EXCEPT ![p] = "done"] /\ Leave(p) /\ UNCHANGED <<cmd, cl, before>>
    BY <1>2 DEF EndsCommitted, Told
  <2>2. OrderInv' /\ TriesInTurn' /\ Running' = Running \ {p}
    BY <1>2, <2>1, EndsInOrder DEF RouteInv
  <2> QED
    BY <1>2, <2>2, CommitKeepsWork DEF RouteInv
<1>3. ASSUME p \in Running \/ Due, ~Receipted(p), pc[p] # "acted", NEW to \in {"line", "turn"}, Moves(p, to),
             UNCHANGED <<done, unsure>>
      PROVE  RouteInv'
  <2>1. OrderInv' /\ TriesInTurn' /\ Running' = Running \cup {p}
    BY <1>3, MovesInOrder DEF RouteInv
  <2>2. \A q \in Posts : /\ Receipted(q)' = Receipted(q) /\ Id(q)' = Id(q)
                         /\ (pc'[q] = "acted" <=> pc[q] = "acted")
    BY <1>3 DEF Receipted, Id, RouteType, Moves
  <2>3. WorkInv'
    BY <1>3, <2>1, <2>2, OrderType DEF RouteInv, WorkInv, Moves
  <2>4. AppliedOnce'
    BY <1>3 DEF RouteInv, AppliedOnce
  <2> QED
    BY <2>1, <2>3, <2>4 DEF RouteInv
<1>4. CASE Execute(p)
  <2>1. Due /\ UNCHANGED <<done, unsure>>
    BY <1>4, ExecuteEnds
  <2> QED
    BY <1>1, <1>3, <1>4, <2>1, ExecuteEnds
<1>5. CASE Turn(p)
  BY <1>0, <1>1, <1>2, <1>3, <1>5, TurnEnds
<1>6. CASE Work(p)
  <2>1. /\ pc[p] = "turn" /\ Moves(p, "acted") /\ UNCHANGED unsure
        /\ done' = [done EXCEPT ![Id(p)] = @ + 1]
    BY <1>6 DEF Work, Moves
  <2>2. OrderInv' /\ TriesInTurn' /\ Running' = Running
    BY <1>0, <2>1, MovesInOrder DEF RouteInv
  <2>3. \A q \in Posts : /\ Receipted(q)' = Receipted(q) /\ Id(q)' = Id(q) /\ Id(q) \in Ids
                         /\ (pc'[q] = "acted" <=> pc[q] = "acted" \/ q = p)
    BY <2>1, PostType DEF Receipted, Id, RouteType, Moves
  <2>4. Id(p) \notin unsure => done[Id(p)] = 0
    BY <1>0, <2>1, NotDoneYet
  <2>5. AppliedOnce'
    BY <2>1, <2>3, <2>4 DEF RouteInv, AppliedOnce, RouteType
  <2>6. ASSUME NEW i \in Ids \ unsure', receipt'[i] = NoReceipt, \A q \in Posts : pc'[q] = "acted" => Id(q)' # i
        PROVE  done'[i] = 0
    <3>1. i # Id(p) /\ i \notin unsure /\ receipt[i] = NoReceipt /\ \A q \in Posts : pc[q] = "acted" => Id(q) # i
      BY <2>1, <2>3, <2>6 DEF Moves
    <3>2. done[i] = 0
      BY <3>1 DEF RouteInv, WorkInv
    <3> QED
      BY <2>1, <3>1, <3>2 DEF RouteType
  <2>7. \A q \in Running' : ~Receipted(q)'
    BY <2>2, <2>3, OrderType DEF RouteInv, WorkInv
  <2>8. WorkInv'
    BY <2>6, <2>7 DEF WorkInv
  <2> QED
    BY <2>2, <2>5, <2>8 DEF RouteInv
<1>7. ASSUME NEW b \in BOOLEAN, Decide(p, b) PROVE RouteInv'
  BY <1>0, <1>1, <1>2, <1>7, DecideEnds
<1>8. ASSUME NEW b \in BOOLEAN, Finish(p, b) PROVE RouteInv'
  BY <1>0, <1>2, <1>8, FinishEnds
<1>9. CASE Busy(p)
  BY <1>0, <1>1, <1>9, BusyEnds
<1>10. CASE Throws(p)
  BY <1>0, <1>1, <1>10, ThrowsEnds
<1> QED
  BY <1>4, <1>5, <1>6, <1>7, <1>8, <1>9, <1>10 DEF Step

\* A loss, an answer heard and a poll of the engine leave the requests alone.
LEMMA ClientKeepsRoute ==
  ASSUME RouteType, RouteInv,
         (\E k \in Clients : Lose(k) \/ Hear(k)) \/ Polled \/ UNCHANGED vars
  PROVE  RouteInv'
<1>1. UNCHANGED <<cmd, pc, before, inflight, receipt, done, unsure>>
  BY DEF Lose, Hear, Polled, vars
<1>2. ASSUME NEW k \in Clients
      PROVE  /\ cl'[k] = "idle" => cl[k] = "idle"
             /\ cl'[k] \in {"idle", "first", "again"} => cl[k] \in {"idle", "first", "again"}
  <2>1. ASSUME NEW j \in Clients, Lose(j) PROVE cl' = [cl EXCEPT ![j] = IF cl[j] \in {"idle", "first"} THEN "again" ELSE "lost"]
    BY <2>1 DEF Lose
  <2>2. ASSUME NEW j \in Clients, Hear(j) PROVE \E x \in {"ok", "error"} : cl' = [cl EXCEPT ![j] = x]
    BY <2>2 DEF Hear
  <2>3. Polled \/ UNCHANGED vars => cl' = cl
    BY DEF Polled, vars
  <2>4. ASSUME NEW j \in Clients, Lose(j) PROVE cl[j] \in {"again", "idle", "first", "second"}
    BY <2>4 DEF Lose
  <2> QED
    BY <2>1, <2>2, <2>3, <2>4 DEF RouteType
<1>3. OrderInv' /\ WorkInv' /\ AppliedOnce'
  <2>1. UNCHANGED <<IdOf, Active, Running>>
    BY <1>1 DEF IdOf, Active, Running, Id
  <2>2. OrderInv'
    BY <1>1, <2>1 DEF RouteInv, OrderInv
  <2>3. WorkInv' /\ AppliedOnce'
    BY <1>1, <2>1 DEF RouteInv, WorkInv, AppliedOnce, Receipted, Id
  <2> QED
    BY <2>2, <2>3
<1>4. TriesInTurn'
  BY <1>1, <1>2 DEF RouteInv, TriesInTurn
<1> QED
  BY <1>3, <1>4 DEF RouteInv

\* A restart ends every request; work that was not committed is unsure.
LEMMA RestartKeepsRoute ==
  ASSUME RouteType, RouteInv, Restart
  PROVE  RouteInv'
<1>1. /\ \A p \in Posts : pc'[p] = (IF pc[p] = "none" THEN "none" ELSE "done") /\ before'[p] = None
      /\ \A i \in Ids : inflight'[i] = None
      /\ UNCHANGED <<cmd, receipt, done>>
      /\ unsure' = unsure \cup {Id(p) : p \in {q \in Posts : pc[q] = "acted"}}
  BY DEF Restart
<1>2. \A k \in Clients : /\ cl'[k] = "idle" => cl[k] = "idle"
                         /\ cl'[k] \in {"idle", "first", "again"} => cl[k] \in {"idle", "first", "again"}
  BY DEF Restart
<1>3. Active' = {} /\ Running' = {}
  BY <1>1 DEF Active, Running
<1>4. OrderInv'
  <2> DEFINE new == [p \in Posts |-> {}]
  <2>1. InOrder(new, IdOf', {}, {}, before', inflight')
    BY <1>1 DEF InOrder
  <2>2. new \in [Posts -> SUBSET Posts]
    OBVIOUS
  <2> HIDE DEF new
  <2> QED
    BY <1>3, <2>1, <2>2 DEF OrderInv
<1>5. TriesInTurn'
  <2>1. \A k \in Clients : <<k, 1>> \in Posts /\ <<k, 2>> \in Posts
    BY DEF Posts
  <2>2. \A p \in Posts : before'[p] = None /\ (pc[p] = "none" => pc'[p] = "none")
    BY <1>1
  <2>3. \A k \in Clients : /\ cl[k] = "idle" => pc[<<k, 1>>] = "none"
                           /\ cl[k] \in {"idle", "first", "again"} => pc[<<k, 2>>] = "none"
    BY DEF RouteInv, TriesInTurn
  <2>4. \A k \in Clients : /\ cl'[k] = "idle" => pc'[<<k, 1>>] = "none"
                           /\ cl'[k] \in {"idle", "first", "again"} => pc'[<<k, 2>>] = "none"
    BY <1>2, <2>1, <2>2, <2>3
  <2> QED
    BY <2>2, <2>4 DEF TriesInTurn
<1>6. AppliedOnce'
  BY <1>1 DEF RouteInv, AppliedOnce
<1>7. WorkInv'
  <2>1. ASSUME NEW i \in Ids \ unsure', receipt'[i] = NoReceipt PROVE done'[i] = 0
    <3>1. i \notin unsure /\ \A p \in Posts : pc[p] = "acted" => Id(p) # i
      BY <1>1, <2>1
    <3> QED
      BY <1>1, <2>1, <3>1 DEF RouteInv, WorkInv
  <2> QED
    BY <1>3, <2>1 DEF WorkInv
<1> QED
  BY <1>4, <1>5, <1>6, <1>7 DEF RouteInv

\* A request whose response was lost is applied once (inflight and execute,
\* bridge/threads/v2-routes.ts), for any clients, ids, losses and restarts.
THEOREM CommandsApplyOnce == Spec => []AppliedOnce
<1>1. Init => RouteInv
  <2> SUFFICES ASSUME Init PROVE RouteInv
      OBVIOUS
  <2>1. Active = {} /\ Running = {} /\ \A i \in Ids : inflight[i] = None /\ done[i] = 0
    BY DEF Init, Active, Running
  <2>2. OrderInv
    <3> DEFINE new == [p \in Posts |-> {}]
    <3>1. InOrder(new, IdOf, Active, Running, before, inflight)
      BY <2>1 DEF InOrder
    <3>2. new \in [Posts -> SUBSET Posts]
      OBVIOUS
    <3> HIDE DEF new
    <3> QED
      BY <3>1, <3>2 DEF OrderInv
  <2>3. TriesInTurn
    <3>1. \A k \in Clients : <<k, 1>> \in Posts /\ <<k, 2>> \in Posts
      BY DEF Posts
    <3> QED
      BY <3>1 DEF Init, TriesInTurn
  <2>4. WorkInv /\ AppliedOnce
    BY <2>1 DEF WorkInv, AppliedOnce
  <2> QED
    BY <2>2, <2>3, <2>4 DEF RouteInv
<1>2. AnswerInv => RouteType
  BY DEF AnswerInv
<1>3. RouteType /\ RouteInv /\ [Next]_vars => RouteInv'
  BY PostInOrder, PostKeepsRoute, ClientKeepsRoute, RestartKeepsRoute DEF Next
<1>4. RouteInv => AppliedOnce
  BY DEF RouteInv
<1> QED
  BY <1>1, <1>2, <1>3, <1>4, AnswersHold, PTL DEF Spec
=============================================================================
