-------------------------- MODULE HerdIngestProofs --------------------------
(***************************************************************************)
(* Proofs about the herd ingest, for every value of the constants.         *)
(*                                                                         *)
(* The induction goes over the table of threads.  `Reconciled` says what   *)
(* one reconcile makes of any table and snapshot; `Moves` that every step  *)
(* rewrites rows (`Carried`), reconciles after it, or adds a spawn's row;  *)
(* `GrownBy` what the table may then say of a terminal.  `IngestInv` adds  *)
(* to the types and NoTwins why a spawn makes no twin: its pane was never  *)
(* seen before it asked (`BornOnly`), so no thread of it waits for a       *)
(* terminal when the answer comes (`AskedFresh`).  `LookInv` says that no  *)
(* snapshot at hand shows a terminal its pane had before the one that the  *)
(* table, the engine or a spawn already knows; it needs MaxLate = 0.       *)
(***************************************************************************)
EXTENDS HerdIngest, FiniteSetTheorems, SequenceTheorems, WellFoundedInduction, TLAPS

-----------------------------------------------------------------------------
(* A look at a snapshot *)

Look == [Panes -> Pane]

\* No two threads that are there have the pane and the terminal in common.
NoTwinsIn(ts) ==
  \A i, k \in DOMAIN ts :
     i # k /\ ts[i].pane = ts[k].pane /\ ts[i].term = ts[k].term
       => "deleted" \in {ts[i].shelf, ts[k].shelf}

\* No thread that is there has the pane's terminal.
Unseen(ts, p, term) ==
  \A k \in DOMAIN ts : ts[k].pane = p /\ ts[k].shelf # "deleted" => ts[k].term # term

\* A non-empty set of indices has a least one.
LEMMA Least ==
    ASSUME NEW Q \in SUBSET Nat, Q # {}
    PROVE  \E i \in Q : \A j \in Q : i <= j
<1> DEFINE R == {ss \in Nat \X Nat : ss[1] < ss[2]}
<1>1. PICK i \in Q : \A j \in Q : ~(<<j, i>> \in R)
  <2>1. IsWellFoundedOn(R, Nat)
    BY NatLessThanWellFounded DEF OpToRel
  <2> HIDE DEF R
  <2> QED
    BY <2>1, WFMin
<1>2. \A j \in Q : ~(j < i)
  BY <1>1
<1> QED
  BY <1>2

\* The thread that claims a listed pane has its terminal, or has none yet and no other thread has it.
LEMMA ClaimIs ==
    ASSUME NEW ts \in Seq(Thread), NEW s \in Look, NEW p \in Panes
    PROVE  LET c == ClaimOf(ts, s, p)
           IN  /\ s[p].term = 0 => c = 0
               /\ c # 0 => /\ c \in 1..Len(ts) /\ ts[c].pane = p /\ ts[c].shelf # "deleted"
                           /\ ts[c].term # s[p].term => ts[c].term = 0 /\ Open(ts[c]) /\ Unseen(ts, p, s[p].term)
               /\ s[p].term # 0 /\ c = 0 => Unseen(ts, p, s[p].term)
<1> DEFINE here == {i \in DOMAIN ts : ts[i].pane = p /\ ts[i].shelf # "deleted"}
           loose == {i \in here : ts[i].term = 0 /\ Open(ts[i])}
           exact == {i \in here : ts[i].term = s[p].term}
<1>1. DOMAIN ts = 1..Len(ts) /\ Len(ts) \in Nat /\ 0 \notin DOMAIN ts
  BY LenProperties
<1>3. CASE s[p].term = 0
  <2>1. ClaimOf(ts, s, p) = 0
    BY <1>3 DEF ClaimOf
  <2> QED
    BY <1>3, <2>1
<1>4. CASE s[p].term # 0 /\ exact # {}
  <2> DEFINE c == CHOOSE i \in exact : TRUE
  <2>1. c \in exact
    BY <1>4
  <2>2. ClaimOf(ts, s, p) = c
    BY <1>4 DEF ClaimOf
  <2> QED
    BY <1>1, <1>4, <2>1, <2>2
<1>5. CASE s[p].term # 0 /\ exact = {} /\ loose # {}
  <2> DEFINE c == CHOOSE i \in loose : \A k \in loose : i <= k
  <2>1. loose \in SUBSET Nat
    BY <1>1
  <2>2. \E i \in loose : \A k \in loose : i <= k
    <3> HIDE DEF loose
    <3> QED
      BY <1>5, <2>1, Least
  <2>3. c \in loose
    <3> HIDE DEF loose
    <3> QED
      BY <2>2
  <2>4. ClaimOf(ts, s, p) = c
    BY <1>5 DEF ClaimOf
  <2>5. Unseen(ts, p, s[p].term)
    BY <1>5 DEF Unseen
  <2> QED
    BY <1>1, <1>5, <2>3, <2>4, <2>5
<1>6. CASE s[p].term # 0 /\ exact = {} /\ loose = {}
  <2>1. ClaimOf(ts, s, p) = 0
    BY <1>6 DEF ClaimOf
  <2> QED
    BY <1>6, <2>1 DEF Unseen
<1> QED
  BY <1>3, <1>4, <1>5, <1>6

\* SetToSeq lists a finite set, each element once.
LEMMA SetListed ==
    ASSUME NEW S, IsFiniteSet(S)
    PROVE  /\ SetToSeq(S) \in Seq(S) /\ Len(SetToSeq(S)) = Cardinality(S)
           /\ \A i, j \in 1..Len(SetToSeq(S)) : SetToSeq(S)[i] = SetToSeq(S)[j] => i = j
<1>1. Cardinality(S) \in Nat /\ \E f \in [1..Cardinality(S) -> S] : IsInjective(f)
  BY FS_CardinalityType DEF ExistsBijection, Bijection, Injection
<1>2. SetToSeq(S) \in [1..Cardinality(S) -> S] /\ IsInjective(SetToSeq(S))
  BY <1>1 DEF SetToSeq
<1> QED
  BY <1>1, <1>2, SeqDef DEF IsInjective

\* A reason goes with the archived shelf.
Fits(t) == t.shelf = "archived" <=> t.why # "none"

ByUser(t) == t.shelf = "archived" /\ t.why = "user"

\* What a look may make of thread t: it keeps its pane, its row and the operator's archive, and its
\* terminal unless it had none.
Stands(t, n) ==
  /\ n \in Thread /\ Fits(n) /\ n.pane = t.pane
  /\ n.shelf = "deleted" <=> t.shelf = "deleted"
  /\ ByUser(t) => ByUser(n)

\* The row of t with new values.
With(t, term, alive, status, shelf, why) ==
  [t EXCEPT !.term = term, !.alive = alive, !.status = status, !.shelf = shelf, !.why = why]

\* An update of a thread.
LEMMA UpdatedStands ==
    ASSUME NEW t \in Thread, NEW term \in 0..MaxTerms, NEW alive \in BOOLEAN, NEW status \in Status,
           NEW shelf \in Shelf \ {"deleted"}, NEW why \in Reason,
           t.shelf # "deleted", shelf = "archived" <=> why # "none",
           ByUser(t) => shelf = "archived" /\ why = "user"
    PROVE  LET n == Updated(With(t, term, alive, status, shelf, why))
           IN  Stands(t, n) /\ n.term = term /\ n.shelf = shelf /\ n.why = why
<1> DEFINE m == With(t, term, alive, status, shelf, why)
<1>1. m \in Thread /\ m.pane = t.pane /\ m.term = term /\ m.shelf = shelf /\ m.why = why
  BY DEF Thread, With
<1> HIDE DEF m
<1>2. /\ Updated(m) \in Thread /\ Updated(m).pane = m.pane /\ Updated(m).term = m.term
      /\ Updated(m).shelf = m.shelf /\ Updated(m).why = m.why
  BY <1>1 DEF Thread, Updated
<1>3. Stands(t, Updated(m)) /\ Updated(m).term = term /\ Updated(m).shelf = shelf /\ Updated(m).why = why
  BY <1>1, <1>2 DEF Stands, Fits, ByUser
<1> QED
  BY <1>3 DEF m

\* A claimed thread.
LEMMA ClaimedStands ==
    ASSUME NEW t \in Thread, Fits(t), t.shelf # "deleted", NEW s \in Pane
    PROVE  LET n == Claimed(t, s)
           IN  /\ Stands(t, n)
               /\ n.term = s.term \/ (t.shelf = "archived" /\ n.term = t.term)
               /\ n.why \in {t.why, "none"}
<1>0. PICK yes \in BOOLEAN : yes = TRUE
  OBVIOUS
<1> DEFINE revive == t.shelf = "archived"
           spawning == t.status = "starting" /\ ~s.agent
           status == IF spawning THEN "starting" ELSE ThreadStatusFor(s.st, t.status)
           finished == t.shelf \in {"snoozed", "due", "settled"} /\ t.status = "working" /\ status # "working"
           shelf == IF revive \/ finished THEN "active" ELSE t.shelf
           new == With(t, s.term, yes, status, shelf, "none")
<1>1. Claimed(t, s) = IF revive /\ t.why \notin {"pane-closed", "closed-while-down"} THEN [t EXCEPT !.alive = TRUE]
                      ELSE IF new = t THEN t ELSE Updated(new)
  BY <1>0 DEF Claimed, With
<1>2. status \in Status /\ s.term \in 0..MaxTerms
  BY DEF ThreadStatusFor, Status, Pane
<1>3. shelf \in Shelf \ {"deleted", "archived"} /\ "none" \in Reason
  BY DEF Shelf, Reason, Thread
<1> HIDE DEF status, shelf
<1>4. CASE revive /\ t.why \notin {"pane-closed", "closed-while-down"}
  BY <1>1, <1>4 DEF Stands, Fits, ByUser, Thread
<1>5. CASE ~(revive /\ t.why \notin {"pane-closed", "closed-while-down"})
  <2>1. ~ByUser(t)
    BY <1>5 DEF ByUser
  <2>2. Stands(t, Updated(new)) /\ Updated(new).term = s.term /\ Updated(new).why = "none"
    <3>1. ByUser(t) => shelf = "archived" /\ "none" = "user"
      BY <2>1
    <3>2. shelf = "archived" <=> "none" # "none"
      BY <1>3
    <3>3. shelf \in Shelf \ {"deleted"} /\ TRUE \in BOOLEAN
      BY <1>3
    <3> HIDE DEF revive, spawning, finished
    <3> QED
      BY <1>2, <1>3, <3>1, <3>2, <3>3, UpdatedStands
  <2>3. new = t => t.term = s.term
    BY DEF Thread, With
  <2>4. Stands(t, t)
    BY DEF Stands
  <2> HIDE DEF new
  <2> QED
    BY <1>1, <1>3, <1>5, <2>2, <2>3, <2>4
<1> QED
  BY <1>4, <1>5

\* An archived thread, for a reason.
LEMMA ArchivedStands ==
    ASSUME NEW t \in Thread, Fits(t), t.shelf # "deleted", NEW reason \in Reason \ {"none"}, ~ByUser(t)
    PROVE  LET n == Archived(t, reason)
           IN  Stands(t, n) /\ n.term = t.term /\ n.shelf = "archived" /\ n.why = reason
<1>1. t.term \in 0..MaxTerms /\ t.status \in Status /\ "archived" \in Shelf \ {"deleted"}
  BY DEF Thread, Shelf
<1>2. [t EXCEPT !.shelf = "archived", !.why = reason, !.alive = FALSE]
        = With(t, t.term, FALSE, t.status, "archived", reason)
  BY DEF Thread, With
<1>3. /\ ByUser(t) => "archived" = "archived" /\ reason = "user"
      /\ ("archived" = "archived" <=> reason # "none") /\ FALSE \in BOOLEAN /\ reason \in Reason
  OBVIOUS
<1>4. PICK no \in BOOLEAN : no = FALSE
  OBVIOUS
<1>5. [t EXCEPT !.shelf = "archived", !.why = reason, !.alive = FALSE]
        = With(t, t.term, no, t.status, "archived", reason)
  BY <1>2, <1>4
<1>6. LET n == Updated(With(t, t.term, no, t.status, "archived", reason))
      IN  Stands(t, n) /\ n.term = t.term /\ n.shelf = "archived" /\ n.why = reason
  BY <1>1, <1>3, UpdatedStands
<1> QED
  BY <1>5, <1>6 DEF Archived

\* A thread whose pane is not listed is left alone, or archived because it is gone.
LEMMA UnlistedStands ==
    ASSUME NEW t \in Thread, Fits(t), NEW i
    PROVE  LET n == Unlisted(t, i)
           IN  Stands(t, n) /\ n.term = t.term
               /\ n.why \in {t.why, "pane-closed", "closed-while-down"}
<1>1. CASE Unlisted(t, i) = t
  BY <1>1 DEF Stands
<1>2. CASE Unlisted(t, i) = [t EXCEPT !.alive = FALSE]
  BY <1>2 DEF Stands, Fits, ByUser, Thread
<1>3. ASSUME NEW reason \in {"pane-closed", "closed-while-down"}, Open(t), Unlisted(t, i) = Archived(t, reason)
      PROVE  /\ Stands(t, Unlisted(t, i)) /\ Unlisted(t, i).term = t.term
             /\ Unlisted(t, i).why \in {t.why, "pane-closed", "closed-while-down"} /\ Unlisted(t, i).shelf # "due"
  <2>1. reason \in Reason \ {"none"} /\ t.shelf # "deleted" /\ ~ByUser(t)
    BY <1>3 DEF Reason, Open, ByUser
  <2> QED
    BY <1>3, <2>1, ArchivedStands
<1>4. \/ Unlisted(t, i) = t \/ Unlisted(t, i) = [t EXCEPT !.alive = FALSE]
      \/ Open(t) /\ \E reason \in {"pane-closed", "closed-while-down"} : Unlisted(t, i) = Archived(t, reason)
  <2>1. CASE ~Open(t)
    BY <2>1 DEF Unlisted
  <2>2. CASE Open(t) /\ first
    BY <2>2 DEF Unlisted
  <2>3. CASE Open(t) /\ ~first /\ i \in missing /\ ~(t.status = "starting" /\ t.young)
    BY <2>3 DEF Unlisted
  <2>4. CASE Open(t) /\ ~first /\ ~(i \in missing /\ ~(t.status = "starting" /\ t.young))
    BY <2>4 DEF Unlisted
  <2> QED
    BY <2>1, <2>2, <2>3, <2>4
<1>5. [t EXCEPT !.alive = FALSE].term = t.term /\ [t EXCEPT !.alive = FALSE].why = t.why
      /\ [t EXCEPT !.alive = FALSE].shelf = t.shelf
  BY DEF Thread
<1> QED
  BY <1>1, <1>2, <1>3, <1>4, <1>5

\* A snooze that fell due puts its thread back on the list.
LEMMA AwakeStands ==
    ASSUME NEW t \in Thread, NEW n, Stands(t, n)
    PROVE  Stands(t, Awake(n)) /\ Awake(n).term = n.term /\ Awake(n).why = n.why
<1>1. CASE n.shelf = "due"
  <2>1. Awake(n) = [n EXCEPT !.shelf = "active", !.young = (n.status = "starting")]
    BY <1>1 DEF Awake, Updated, Stands, Thread
  <2> QED
    BY <1>1, <2>1 DEF Stands, Fits, ByUser, Thread, Shelf
<1>2. CASE n.shelf # "due"
  BY <1>2 DEF Awake
<1> QED
  BY <1>1, <1>2

\* What a look makes of a thread: only the claim of its listed pane gives it a terminal, and only
\* another thread's claim of it takes the terminal away.
LEMMA LookedStands ==
    ASSUME NEW ts \in Seq(Thread), NEW i \in DOMAIN ts, NEW s \in Look, NEW claim, Fits(ts[i]),
           claim[ts[i].pane] = i /\ s[ts[i].pane].term # 0 => ts[i].shelf # "deleted"
    PROVE  LET t == ts[i]
               n == Looked(ts, s, claim, i)
               mine == s[t.pane].term # 0 /\ claim[t.pane] = i
           IN  /\ Stands(t, n)
               /\ n.term = t.term \/ (mine /\ n.term = s[t.pane].term)
               /\ n.why = "terminal-replaced" /\ t.why # "terminal-replaced"
                    => Open(t) /\ s[t.pane].term # 0 /\ ~mine
<1> DEFINE p == ts[i].pane
<1>1. PICK t : t = ts[i] /\ t \in Thread
  BY ElementOfSeq, LenProperties
<1>2. p \in Panes /\ s[p] \in Pane
  BY <1>1 DEF Thread, Look
<1> DEFINE n(m) == Awake(m)
<1>3. ASSUME s[p].term = 0
      PROVE  LET m == Unlisted(t, i)
             IN  Looked(ts, s, claim, i) = Awake(m) /\ Stands(t, m) /\ m.term = t.term
                 /\ m.why \in {t.why, "pane-closed", "closed-while-down"}
  <2>1. Looked(ts, s, claim, i) = Awake(Unlisted(t, i))
    BY <1>1, <1>3 DEF Looked
  <2>2. Fits(t)
    BY <1>1
  <2> QED
    BY <1>1, <2>1, <2>2, UnlistedStands
<1>4. ASSUME s[p].term # 0, claim[p] = i
      PROVE  LET m == Claimed(t, s[p])
             IN  Looked(ts, s, claim, i) = Awake(m) /\ Stands(t, m) /\ m.term \in {t.term, s[p].term}
                 /\ m.why \in {t.why, "none"}
  <2>1. Looked(ts, s, claim, i) = Awake(Claimed(t, s[p]))
    BY <1>1, <1>4 DEF Looked
  <2>2. t.shelf # "deleted" /\ Fits(t)
    BY <1>1, <1>4
  <2> HIDE DEF p
  <2> QED
    BY <1>1, <1>2, <2>1, <2>2, ClaimedStands
<1>5. ASSUME s[p].term # 0, claim[p] # i, Open(t)
      PROVE  LET m == Archived(t, "terminal-replaced")
             IN  Looked(ts, s, claim, i) = Awake(m) /\ Stands(t, m) /\ m.term = t.term
  <2>1. Looked(ts, s, claim, i) = Awake(Archived(t, "terminal-replaced"))
    BY <1>1, <1>5 DEF Looked
  <2>2. "terminal-replaced" \in Reason \ {"none"} /\ t.shelf # "deleted" /\ ~ByUser(t) /\ Fits(t)
    BY <1>1, <1>5 DEF Reason, Open, ByUser
  <2> QED
    BY <1>1, <2>1, <2>2, ArchivedStands
<1>6. ASSUME s[p].term # 0, claim[p] # i, ~Open(t)
      PROVE  Looked(ts, s, claim, i) = Awake(t) /\ Stands(t, t)
  <2>1. Looked(ts, s, claim, i) = Awake(t)
    BY <1>1, <1>6 DEF Looked
  <2> QED
    BY <1>1, <2>1 DEF Stands
<1> QED
  <2>1. CASE s[p].term = 0
    BY <1>1, <1>3, <2>1, AwakeStands
  <2>2. CASE s[p].term # 0 /\ claim[p] = i
    BY <1>1, <1>4, <2>2, AwakeStands
  <2>3. CASE s[p].term # 0 /\ claim[p] # i /\ Open(t)
    BY <1>1, <1>5, <2>3, AwakeStands
  <2>4. CASE s[p].term # 0 /\ claim[p] # i /\ ~Open(t)
    BY <1>1, <1>6, <2>4, AwakeStands
  <2> QED
    BY <2>1, <2>2, <2>3, <2>4

\* A thread made of a listed pane.
LEMMA CreatedFits ==
    ASSUME NEW s \in Look, NEW p \in Panes
    PROVE  LET n == Created(s, p)
           IN  n \in Thread /\ Fits(n) /\ n.pane = p /\ n.term = s[p].term /\ n.why = "none"
BY DEF Created, Look, Pane, Thread, Fits, ThreadStatusFor, Status, Shelf, Reason

\* What a reconcile makes of the threads `ts` with the snapshot `s`.
Kept(ts, s, i) ==
  LET t == ts[i]
      n == threads'[i]
  IN  /\ Stands(t, n)
      /\ n.term = t.term \/ (s[t.pane].term # 0 /\ n.term = s[t.pane].term)
      /\ n.why = "terminal-replaced" /\ t.why # "terminal-replaced"
           => Open(t) /\ s[t.pane].term \notin {0, t.term}

Made(s, i) ==
  LET n == threads'[i]
  IN  n \in Thread /\ Fits(n) /\ s[n.pane].term # 0 /\ n.term = s[n.pane].term /\ n.why = "none"

\* A reconcile keeps the threads, adds those of the panes nobody claims, and makes no twin.
LEMMA Reconciled ==
    ASSUME NEW ts \in Seq(Thread), NEW s \in Look, \A i \in DOMAIN ts : Fits(ts[i]), NoTwinsIn(ts),
           Reconcile(ts, s)
    PROVE  /\ threads' \in Seq(Thread) /\ Len(ts) <= Len(threads') /\ NoTwinsIn(threads')
           /\ \A i \in 1..Len(ts) : Kept(ts, s, i)
           /\ \A i \in Len(ts) + 1..Len(threads') : Made(s, i)
<1> DEFINE claim == [p \in Panes |-> ClaimOf(ts, s, p)]
           fresh == {p \in Panes : s[p].term # 0 /\ claim[p] = 0}
           made == {Created(s, p) : p \in fresh}
           old == [i \in DOMAIN ts |-> Looked(ts, s, claim, i)]
           more == SetToSeq(made)
<1>1. threads' = old \o more
  BY DEF Reconcile
<1>2. DOMAIN ts = 1..Len(ts) /\ Len(ts) \in Nat /\ \A i \in DOMAIN ts : ts[i] \in Thread /\ ts[i].pane \in Panes
  <2>1. DOMAIN ts = 1..Len(ts) /\ Len(ts) \in Nat
    BY LenProperties
  <2>2. \A i \in DOMAIN ts : ts[i] \in Thread
    BY <2>1, ElementOfSeq
  <2> QED
    BY <2>1, <2>2 DEF Thread
<1>3. \A p \in Panes : LET c == claim[p]
                       IN  /\ c # 0 => /\ ts[c].pane = p /\ ts[c].shelf # "deleted" /\ c \in 1..Len(ts)
                                       /\ ts[c].term # s[p].term => Unseen(ts, p, s[p].term)
                           /\ s[p].term # 0 /\ c = 0 => Unseen(ts, p, s[p].term)
  BY ClaimIs
<1> HIDE DEF claim
<1>4. \A i \in DOMAIN ts : LET t == ts[i]
                               mine == s[t.pane].term # 0 /\ claim[t.pane] = i
                           IN  /\ Stands(t, old[i])
                               /\ old[i].term = t.term \/ (mine /\ old[i].term = s[t.pane].term)
                               /\ old[i].why = "terminal-replaced" /\ t.why # "terminal-replaced"
                                    => Open(t) /\ s[t.pane].term # 0 /\ ~mine
  <2> SUFFICES ASSUME NEW i \in DOMAIN ts
               PROVE  LET t == ts[i]
                          n == Looked(ts, s, claim, i)
                          mine == s[t.pane].term # 0 /\ claim[t.pane] = i
                      IN  /\ Stands(t, n)
                          /\ n.term = t.term \/ (mine /\ n.term = s[t.pane].term)
                          /\ n.why = "terminal-replaced" /\ t.why # "terminal-replaced"
                               => Open(t) /\ s[t.pane].term # 0 /\ ~mine
    OBVIOUS
  <2>1. claim[ts[i].pane] = i /\ s[ts[i].pane].term # 0 => ts[i].shelf # "deleted"
    BY <1>2, <1>3
  <2> QED
    BY <1>2, <2>1, LookedStands
<1>5. IsFiniteSet(made)
  <2>1. IsFiniteSet(fresh)
    BY FS_Subset, IngestAssumption DEF IngestAssumption
  <2> DEFINE f == [p \in fresh |-> Created(s, p)]
  <2>2. f \in Surjection(fresh, made)
    <3>1. f \in [fresh -> made] /\ \A m \in made : \E p \in fresh : f[p] = m
      OBVIOUS
    <3> HIDE DEF f, fresh, made
    <3> QED
      BY <3>1 DEF Surjection
  <2> HIDE DEF f, fresh, made
  <2> QED
    BY <2>1, <2>2, FS_Surjection
<1>6. /\ more \in Seq(made)
      /\ \A i, j \in 1..Len(more) : more[i] = more[j] => i = j
  <2> HIDE DEF made
  <2> QED
    BY <1>5, SetListed
<1>7. \A i \in 1..Len(more) : \E p \in fresh : more[i] = Created(s, p)
  <2> SUFFICES ASSUME NEW i \in 1..Len(more)
               PROVE  \E p \in fresh : more[i] = Created(s, p)
    OBVIOUS
  <2>1. more[i] \in made
    <3> HIDE DEF made
    <3> QED
      BY <1>6, ElementOfSeq
  <2> QED
    BY <2>1
<1>8. \A i \in DOMAIN ts : old[i] \in Thread
  BY <1>4 DEF Stands
<1>9. old \in Seq(Thread) /\ Len(old) = Len(ts)
  <2>1. old \in [1..Len(ts) -> Thread]
    BY <1>2, <1>8
  <2> HIDE DEF old
  <2> QED
    BY <1>2, <2>1, SeqDef, LenProperties
<1>10. more \in Seq(Thread)
  <2>1. made \subseteq Thread
    BY CreatedFits
  <2> HIDE DEF made
  <2> QED
    BY <1>6, <2>1, SeqDef
<1>11. /\ threads' \in Seq(Thread) /\ Len(threads') = Len(ts) + Len(more) /\ Len(more) \in Nat
       /\ \A i \in 1..Len(ts) : threads'[i] = old[i]
       /\ \A i \in 1..Len(more) : threads'[Len(ts) + i] = more[i]
  <2> HIDE DEF old, more
  <2> QED
    <3>1. /\ threads' \in Seq(Thread) /\ Len(threads') = Len(old) + Len(more)
          /\ \A i \in 1..Len(old) + Len(more) : threads'[i] = IF i <= Len(old) THEN old[i] ELSE more[i - Len(old)]
      BY <1>1, <1>9, <1>10, ConcatProperties
    <3>2. Len(more) \in Nat
      BY <1>10, LenProperties
    <3> QED
      <4>1. \A i \in 1..Len(ts) : threads'[i] = old[i]
        BY <1>2, <1>9, <3>1, <3>2
      <4>2. ASSUME NEW i \in 1..Len(more)
            PROVE  threads'[Len(ts) + i] = more[i]
        <5>1. Len(ts) + i \in 1..Len(old) + Len(more) /\ ~(Len(ts) + i <= Len(old)) /\ (Len(ts) + i) - Len(old) = i
          BY <1>2, <1>9, <3>2
        <5> QED
          BY <3>1, <5>1
      <4> QED
        BY <1>2, <1>9, <3>1, <3>2, <4>1, <4>2
<1> HIDE DEF old, more, made
<1>12. \A i \in Len(ts) + 1..Len(threads') : \E p \in fresh : threads'[i] = Created(s, p)
  <2> SUFFICES ASSUME NEW i \in Len(ts) + 1..Len(threads')
               PROVE  \E p \in fresh : threads'[i] = Created(s, p)
    OBVIOUS
  <2>1. i - Len(ts) \in 1..Len(more) /\ i = Len(ts) + (i - Len(ts))
    BY <1>2, <1>11
  <2> QED
    BY <1>7, <1>11, <2>1
<1>13. \A i \in 1..Len(ts) : Kept(ts, s, i)
  <2> SUFFICES ASSUME NEW i \in 1..Len(ts), threads'[i].why = "terminal-replaced", ts[i].why # "terminal-replaced"
               PROVE  ts[i].term # s[ts[i].pane].term
    BY <1>2, <1>4, <1>11 DEF Kept
  <2>1. Open(ts[i]) /\ s[ts[i].pane].term # 0 /\ claim[ts[i].pane] # i
    BY <1>2, <1>4, <1>11
  <2>2. ts[i].shelf # "deleted" /\ ts[i].pane \in Panes
    BY <1>2, <2>1 DEF Open
  <2>3. CASE Unseen(ts, ts[i].pane, s[ts[i].pane].term)
    BY <1>2, <2>2, <2>3 DEF Unseen
  <2>4. CASE claim[ts[i].pane] # 0 /\ ts[claim[ts[i].pane]].term = s[ts[i].pane].term
    BY <1>2, <1>3, <2>1, <2>2, <2>4 DEF NoTwinsIn
  <2> QED
    BY <1>3, <2>1, <2>2, <2>3, <2>4
<1>14. \A i \in Len(ts) + 1..Len(threads') : Made(s, i)
  <2> SUFFICES ASSUME NEW i \in Len(ts) + 1..Len(threads')
               PROVE  Made(s, i)
    OBVIOUS
  <2>1. PICK p \in fresh : threads'[i] = Created(s, p)
    BY <1>12
  <2> QED
    BY <2>1, CreatedFits DEF Made
<1>15. NoTwinsIn(threads')
  <2> SUFFICES ASSUME NEW i \in DOMAIN threads', NEW k \in DOMAIN threads', i < k,
                      threads'[i].pane = threads'[k].pane, threads'[i].term = threads'[k].term
               PROVE  "deleted" \in {threads'[i].shelf, threads'[k].shelf}
    <3>1. DOMAIN threads' \subseteq Nat
      BY <1>11, LenProperties
    <3> QED
      BY <3>1 DEF NoTwinsIn
  <2>1. DOMAIN threads' = 1..Len(threads') /\ i \in Nat /\ k \in Nat
    BY <1>11, LenProperties
  <2>2. CASE k <= Len(ts)
    <3>1. i \in DOMAIN ts /\ k \in DOMAIN ts /\ i # k /\ threads'[i] = old[i] /\ threads'[k] = old[k]
      BY <1>2, <1>11, <2>1, <2>2
    <3>2. ts[i].pane = ts[k].pane /\ ts[i].pane \in Panes
      BY <1>2, <1>4, <3>1 DEF Stands
    <3>3. CASE ts[i].term = ts[k].term
      BY <1>4, <3>1, <3>2, <3>3 DEF NoTwinsIn, Stands
    <3>4. CASE old[i].term # ts[i].term
      <4>1. claim[ts[i].pane] = i /\ old[k].term = ts[k].term /\ ts[k].term = s[ts[i].pane].term
        BY <1>4, <3>1, <3>2, <3>4
      <4>2. Unseen(ts, ts[i].pane, s[ts[i].pane].term)
        BY <1>2, <1>3, <1>4, <3>1, <3>2, <3>4, <4>1
      <4>3. ts[k].shelf = "deleted"
        BY <3>1, <3>2, <4>1, <4>2 DEF Unseen
      <4> QED
        BY <1>4, <3>1, <4>3 DEF Stands
    <3>5. CASE old[k].term # ts[k].term
      <4>1. claim[ts[k].pane] = k /\ old[i].term = ts[i].term /\ ts[i].term = s[ts[i].pane].term
        BY <1>4, <3>1, <3>2, <3>5
      <4>2. Unseen(ts, ts[i].pane, s[ts[i].pane].term)
        BY <1>2, <1>3, <1>4, <3>1, <3>2, <3>5, <4>1
      <4>3. ts[i].shelf = "deleted"
        BY <3>1, <3>2, <4>1, <4>2 DEF Unseen
      <4> QED
        BY <1>4, <3>1, <4>3 DEF Stands
    <3> QED
      BY <3>1, <3>3, <3>4, <3>5
  <2>3. CASE i <= Len(ts) /\ k > Len(ts)
    <3>1. i \in DOMAIN ts /\ threads'[i] = old[i] /\ k \in Len(ts) + 1..Len(threads')
      BY <1>2, <1>11, <2>1, <2>3
    <3>2. PICK p \in fresh : threads'[k] = Created(s, p)
      BY <1>12, <3>1
    <3>3. threads'[k].pane = p /\ threads'[k].term = s[p].term /\ p \in Panes /\ claim[p] = 0 /\ s[p].term # 0
      BY <3>2, CreatedFits
    <3>4. ts[i].pane = p /\ old[i].term = s[p].term
      BY <1>4, <3>1, <3>3 DEF Stands
    <3>5. old[i].term = ts[i].term
      BY <1>2, <1>4, <3>1, <3>3, <3>4
    <3>7. Unseen(ts, p, s[p].term)
      BY <1>3, <3>3
    <3>6. ts[i].shelf = "deleted"
      BY <3>7, <3>1, <3>3, <3>4, <3>5 DEF Unseen
    <3> QED
      BY <1>4, <3>1, <3>6 DEF Stands
  <2>4. CASE i > Len(ts)
    <3>1. i \in Len(ts) + 1..Len(threads') /\ k \in Len(ts) + 1..Len(threads')
      BY <1>2, <1>11, <2>1, <2>4
    <3>2. PICK p \in fresh : threads'[i] = Created(s, p)
      BY <1>12, <3>1
    <3>3. PICK q \in fresh : threads'[k] = Created(s, q)
      BY <1>12, <3>1
    <3>4. p = q
      BY <3>2, <3>3, CreatedFits
    <3>5. threads'[i] = threads'[k]
      BY <3>2, <3>3, <3>4
    <3>6. i - Len(ts) \in 1..Len(more) /\ k - Len(ts) \in 1..Len(more) /\ i = Len(ts) + (i - Len(ts))
          /\ k = Len(ts) + (k - Len(ts))
      BY <1>2, <1>11, <2>1, <3>1
    <3>7. more[i - Len(ts)] = more[k - Len(ts)]
      BY <1>11, <3>5, <3>6
    <3>8. i - Len(ts) = k - Len(ts)
      BY <1>6, <3>6, <3>7
    <3> QED
      BY <1>2, <2>1, <3>8
  <2> QED
    BY <1>2, <2>1, <2>2, <2>3, <2>4
<1> QED
  BY <1>2, <1>11, <1>13, <1>14, <1>15

-----------------------------------------------------------------------------
(* How the table of threads grows *)

RowTypes == threads \in Seq(Thread) /\ \A i \in DOMAIN threads : Fits(threads[i])

\* A row that says the same thread of its pane and terminal, stays deleted, and is not archived
\* for a replaced terminal.
SameThread(t, row) ==
  /\ row \in Thread /\ Fits(row) /\ row.pane = t.pane /\ row.term = t.term
  /\ t.shelf = "deleted" => row.shelf = "deleted"
  /\ row.why = "terminal-replaced" => t.why = "terminal-replaced"

\* The same threads, with rows rewritten.
Carried(ts) ==
  ts \in Seq(Thread) /\ Len(ts) = Len(threads)
  /\ \A i \in 1..Len(threads) : SameThread(threads[i], ts[i])

\* A snapshot of S shows the terminal.
ShownBy(S, n) == \E s \in S : s[n.pane].term # 0 /\ n.term = s[n.pane].term

\* The answer to a spawn names the terminal.
Spawned(n) == job[n.pane].at = "asked" /\ n.term \in {0, job[n.pane].term} /\ job'[n.pane].at # "asked"

\* Threads keep their row and their pane; their terminal comes from a look at a snapshot of S, or
\* with a spawn.
GrownBy(S) ==
  /\ threads' \in Seq(Thread) /\ Len(threads) <= Len(threads') /\ NoTwinsIn(threads')
  /\ \A i \in 1..Len(threads') : Fits(threads'[i])
  /\ \A i \in 1..Len(threads) :
        LET t == threads[i]
            n == threads'[i]
        IN  n.pane = t.pane /\ (t.shelf = "deleted" => n.shelf = "deleted") /\ (n.term = t.term \/ ShownBy(S, n))
  /\ \A i \in Len(threads) + 1..Len(threads') : ShownBy(S, threads'[i]) \/ Spawned(threads'[i])

\* The threads are numbered from one, and each is a well-formed row.
LEMMA RowsOf ==
    ASSUME RowTypes
    PROVE  /\ DOMAIN threads = 1..Len(threads) /\ Len(threads) \in Nat
           /\ \A i \in DOMAIN threads : threads[i] \in Thread /\ Fits(threads[i]) /\ threads[i].pane \in Panes
<1>1. DOMAIN threads = 1..Len(threads) /\ Len(threads) \in Nat
  BY LenProperties DEF RowTypes
<1>2. \A i \in DOMAIN threads : threads[i] \in Thread
  BY <1>1, ElementOfSeq DEF RowTypes
<1> QED
  BY <1>1, <1>2 DEF RowTypes, Thread

\* One row rewritten.
LEMMA RowCarried ==
    ASSUME RowTypes, NEW i \in DOMAIN threads, NEW row, SameThread(threads[i], row)
    PROVE  Carried([threads EXCEPT ![i] = row])
<1> DEFINE ts == [threads EXCEPT ![i] = row]
<1>1. ts \in Seq(Thread) /\ Len(ts) = Len(threads)
  BY ExceptSeq DEF RowTypes, SameThread
<1>2. \A k \in 1..Len(threads) : ts[k] = IF k = i THEN row ELSE threads[k]
  BY RowsOf
<1>3. \A k \in 1..Len(threads) : SameThread(threads[k], threads[k])
  BY RowsOf DEF SameThread
<1> HIDE DEF ts
<1>4. \A k \in 1..Len(threads) : SameThread(threads[k], ts[k])
  BY <1>2, <1>3
<1> QED
  BY <1>1, <1>4 DEF Carried, ts

\* No row rewritten.
LEMMA AllCarried ==
    ASSUME RowTypes
    PROVE  Carried(threads)
BY RowsOf DEF Carried, SameThread, RowTypes

\* Rows rewritten make no twin.
LEMMA CarriedApart ==
    ASSUME RowTypes, NoTwins, NEW ts, Carried(ts)
    PROVE  /\ NoTwinsIn(ts) /\ DOMAIN ts = 1..Len(threads)
           /\ \A i \in DOMAIN ts : Fits(ts[i])
<1>1. DOMAIN ts = 1..Len(threads) /\ DOMAIN threads = 1..Len(threads)
  BY RowsOf, LenProperties DEF Carried
<1>2. \A i \in DOMAIN ts : SameThread(threads[i], ts[i])
  BY <1>1 DEF Carried
<1>3. NoTwinsIn(ts)
  <2> SUFFICES ASSUME NEW i \in DOMAIN ts, NEW k \in DOMAIN ts, i # k,
                      ts[i].pane = ts[k].pane, ts[i].term = ts[k].term
               PROVE  "deleted" \in {ts[i].shelf, ts[k].shelf}
    BY DEF NoTwinsIn
  <2>1. threads[i].pane = threads[k].pane /\ threads[i].term = threads[k].term
    BY <1>2 DEF SameThread
  <2>2. "deleted" \in {threads[i].shelf, threads[k].shelf}
    BY <1>1, <2>1 DEF NoTwins
  <2> QED
    BY <1>2, <2>2 DEF SameThread
<1> QED
  BY <1>1, <1>2, <1>3 DEF SameThread

\* Rewriting rows is a growth of the table, by no look.
LEMMA CarriedGrows ==
    ASSUME RowTypes, NoTwins, Carried(threads'), NEW S
    PROVE  GrownBy(S)
<1>1. Len(threads') = Len(threads) /\ threads' \in Seq(Thread) /\ DOMAIN threads' = 1..Len(threads)
      /\ Len(threads) \in Nat /\ NoTwinsIn(threads') /\ \A i \in DOMAIN threads' : Fits(threads'[i])
  <2> DEFINE ts == threads'
  <2>1. Carried(ts)
    OBVIOUS
  <2> HIDE DEF ts
  <2>2. NoTwinsIn(ts) /\ DOMAIN ts = 1..Len(threads) /\ \A i \in DOMAIN ts : Fits(ts[i])
    BY <2>1, CarriedApart
  <2> QED
    BY <2>1, <2>2, RowsOf DEF Carried, ts
<1>2. \A i \in 1..Len(threads) : SameThread(threads[i], threads'[i])
  BY DEF Carried
<1> QED
  BY <1>1, <1>2 DEF GrownBy, SameThread

\* Rewriting rows and reconciling them with a snapshot is a growth by that snapshot.
LEMMA ReconcileGrows ==
    ASSUME RowTypes, NoTwins, NEW ts, Carried(ts), NEW s \in Look, Reconcile(ts, s)
    PROVE  GrownBy({s}) /\ \A i \in 1..Len(threads) : Kept(ts, s, i)
<1>1. ts \in Seq(Thread) /\ Len(ts) = Len(threads) /\ Len(threads) \in Nat
      /\ \A i \in 1..Len(threads) : SameThread(threads[i], ts[i])
  BY RowsOf DEF Carried
<1>2. /\ threads' \in Seq(Thread) /\ Len(ts) <= Len(threads') /\ NoTwinsIn(threads')
      /\ \A i \in 1..Len(ts) : Kept(ts, s, i)
      /\ \A i \in Len(ts) + 1..Len(threads') : Made(s, i)
  BY <1>1, CarriedApart, Reconciled
<1>3. ASSUME NEW i \in 1..Len(threads)
      PROVE  LET t == threads[i]
                 n == threads'[i]
             IN  /\ Fits(n) /\ n.pane = t.pane /\ (t.shelf = "deleted" => n.shelf = "deleted")
                 /\ n.term = t.term \/ ShownBy({s}, n)
  <2>1. Kept(ts, s, i) /\ SameThread(threads[i], ts[i])
    BY <1>1, <1>2
  <2> QED
    BY <2>1 DEF Kept, SameThread, Stands, ShownBy
<1>4. ASSUME NEW i \in Len(threads) + 1..Len(threads')
      PROVE  Fits(threads'[i]) /\ ShownBy({s}, threads'[i])
  BY <1>1, <1>2 DEF Made, ShownBy
<1>5. Len(threads') \in Nat /\ \A i \in 1..Len(threads') : i \in 1..Len(threads) \/ i \in Len(threads) + 1..Len(threads')
  BY <1>1, <1>2, LenProperties
<1> QED
  BY <1>1, <1>2, <1>3, <1>4, <1>5 DEF GrownBy

-----------------------------------------------------------------------------
(* Types *)

HerdTypes == world \in Look /\ born \subseteq Panes /\ terms \in 0..MaxTerms

OneLook == {<<>>} \cup {<<s>> : s \in Look}

EngineTypes == snap \in Look /\ link \in BOOLEAN /\ wire \in OneLook /\ lookup \in OneLook

StoreTypes ==
  /\ proj \in [known : BOOLEAN, open : BOOLEAN, status : Status]
  /\ first \in BOOLEAN /\ missingProject \in BOOLEAN
  /\ missing \subseteq DOMAIN threads /\ orphans \subseteq DOMAIN threads

\* A spawn that was answered, and a close at work, have their thread.
JobTypes ==
  /\ job \in [Panes -> Job]
  /\ \A p \in Panes : /\ job[p].of # 0 => job[p].of \in DOMAIN threads
                      /\ job[p].at \notin {"none", "asked"} => job[p].of # 0
  /\ closing \in [of : Nat, archived : BOOLEAN]
  /\ closing # NoClosing => closing.of \in DOMAIN threads

TypesInv == HerdTypes /\ EngineTypes /\ RowTypes /\ StoreTypes /\ JobTypes

\* A spawn's pane is new: no thread of it lacks its terminal before the spawn is answered.
AskedFresh ==
  \A p \in Panes : job[p].at = "asked" => \A i \in DOMAIN threads : threads[i].pane = p => threads[i].term # 0

\* The worst status is a status.
LEMMA WorstIs ==
    ASSUME NEW ts \in Seq(Thread)
    PROVE  Worst(ts) \in Status
<1> DEFINE on == {ts[i].status : i \in {k \in DOMAIN ts : ts[k].shelf \in {"active", "pinned"}}}
           rank == <<"input", "failed", "working", "idle", "starting">>
           Q == {k \in 1..5 : rank[k] \in on}
<1>1. on \subseteq Status
  <2>1. DOMAIN ts = 1..Len(ts) /\ \A i \in DOMAIN ts : ts[i] \in Thread
    BY LenProperties, ElementOfSeq
  <2> QED
    BY <2>1 DEF Thread
<1>2. CASE on = {}
  BY <1>2 DEF Worst, Status
<1>3. CASE on # {}
  <2> HIDE DEF on
  <2>1. Q \in SUBSET Nat /\ Q # {}
    <3>1. PICK x : x \in on
      BY <1>3
    <3>2. x \in {rank[k] : k \in 1..5}
      BY <1>1, <3>1 DEF Status
    <3> QED
      BY <3>1, <3>2
  <2> DEFINE ok(k) == rank[k] \in on /\ \A j \in 1..(k - 1) : rank[j] \notin on
  <2>2. \E k \in 1..5 : ok(k)
    <3>1. PICK k \in Q : \A j \in Q : k <= j
      <4> HIDE DEF Q
      <4> QED
        BY <2>1, Least
    <3>2. k \in 1..5 /\ rank[k] \in on /\ \A j \in 1..(k - 1) : j \in 1..5 /\ ~(k <= j)
      OBVIOUS
    <3> QED
      BY <3>1, <3>2
  <2>3. (CHOOSE k \in 1..5 : ok(k)) \in 1..5
    <3> HIDE DEF ok
    <3> QED
      BY <2>2
  <2>4. Worst(ts) = rank[CHOOSE k \in 1..5 : ok(k)]
    BY <1>3 DEF Worst, on
  <2>5. \A k \in 1..5 : rank[k] \in Status
    BY DEF Status
  <2> HIDE DEF ok, rank
  <2> QED
    BY <2>3, <2>4, <2>5
<1> QED
  BY <1>2, <1>3

\* A table that grew has its types, its rows at their places, and no twins.
LEMMA GrownRows ==
    ASSUME RowTypes, NEW S, GrownBy(S)
    PROVE  /\ RowTypes' /\ NoTwins' /\ DOMAIN threads \subseteq DOMAIN threads'
           /\ DOMAIN threads = 1..Len(threads) /\ DOMAIN threads' = 1..Len(threads')
<1>1. DOMAIN threads = 1..Len(threads) /\ Len(threads) \in Nat
  BY RowsOf
<1>2. DOMAIN threads' = 1..Len(threads') /\ Len(threads') \in Nat
  BY LenProperties DEF GrownBy
<1> QED
  BY <1>1, <1>2 DEF GrownBy, RowTypes, NoTwinsIn, NoTwins

\* A reconcile keeps the types of the project and of the ingestor's memory.
LEMMA ReconcileStore ==
    ASSUME RowTypes, NoTwins, StoreTypes, NEW ts, Carried(ts), NEW s \in Look, Reconcile(ts, s),
           UNCHANGED orphans
    PROVE  StoreTypes'
<1>1. RowTypes' /\ DOMAIN threads \subseteq DOMAIN threads' /\ threads' \in Seq(Thread)
  BY ReconcileGrows, GrownRows DEF RowTypes
<1>2. DOMAIN ts = DOMAIN threads
  BY CarriedApart, RowsOf
<1>3. missing' \subseteq DOMAIN ts /\ first' = FALSE /\ missingProject' \in BOOLEAN
  BY DEF Reconcile, Missing
<1>4. proj' = Project(\E p \in Panes : s[p].term # 0, threads')
  BY DEF Reconcile
<1>5. Worst(threads') \in Status
  BY <1>1, WorstIs
<1>6. proj' \in [known : BOOLEAN, open : BOOLEAN, status : Status]
  BY <1>4, <1>5 DEF Project, StoreTypes
<1> QED
  BY <1>1, <1>2, <1>3, <1>6 DEF StoreTypes

\* The actions that change Herdr.
LEMMA HerdKept ==
    ASSUME Next
    PROVE  \/ UNCHANGED herd
           \/ \E p \in Panes : NewTerminal(p) \/ PaneCloses(p) \/ SpawnAsk(p) \/ AgentStarts(p) \/ SpawnFails(p)
           \/ \E p \in Panes, st \in Turns, agent \in BOOLEAN : AgentTurns(p, st, agent)
           \/ \E i \in 1..Len(threads) : ClosePane(i)
<1>1. ASSUME NEW lost, PollRead(lost)
      PROVE  UNCHANGED herd
  BY <1>1 DEF PollRead
<1>2. PollPublish \/ PollFails \/ Seen \/ Restart \/ PaneClosed => UNCHANGED herd
  BY DEF PollPublish, PollFails, Seen, Restart, PaneClosed
<1>3. ASSUME NEW changed, BranchesResolved(changed)
      PROVE  UNCHANGED herd
  BY <1>3 DEF BranchesResolved
<1>4. ASSUME NEW i, NEW shelf, GraceOver(i) \/ SnoozeDue(i) \/ Unarchive(i) \/ Delete(i) \/ Shelve(i, shelf)
      PROVE  UNCHANGED herd
  BY <1>4 DEF GraceOver, SnoozeDue, Unarchive, Delete, Shelve, Act
<1>5. ASSUME NEW p, NEW t, SpawnReply(p, t)
      PROVE  UNCHANGED herd
  BY <1>5 DEF SpawnReply
<1>6. ASSUME NEW p, Prompt(p) \/ StartReturns(p) \/ SpawnEnds(p) \/ GiveUp(p)
      PROVE  UNCHANGED herd
  BY <1>6 DEF Prompt, StartReturns, SpawnEnds, GiveUp
<1> QED
  BY <1>1, <1>2, <1>3, <1>4, <1>5, <1>6 DEF Next, JobStep

\* The actions that change what the engine holds.
LEMMA EngineKept ==
    ASSUME Next
    PROVE  \/ UNCHANGED engine
           \/ \E lost \in SUBSET Panes : PollRead(lost)
           \/ PollPublish \/ PollFails \/ Restart
           \/ \E changed \in BOOLEAN : BranchesResolved(changed)
<1>1. ASSUME NEW p, NEW st, NEW agent, NewTerminal(p) \/ PaneCloses(p) \/ AgentTurns(p, st, agent)
      PROVE  UNCHANGED engine
  BY <1>1 DEF NewTerminal, PaneCloses, AgentTurns, Change
<1>2. Seen \/ PaneClosed => UNCHANGED engine
  BY DEF Seen, PaneClosed
<1>4. ASSUME NEW i, NEW shelf, GraceOver(i) \/ SnoozeDue(i) \/ Unarchive(i) \/ Delete(i) \/ Shelve(i, shelf)
      PROVE  UNCHANGED engine
  BY <1>4 DEF GraceOver, SnoozeDue, Unarchive, Delete, Shelve, Act
<1>5. ASSUME NEW i, ClosePane(i)
      PROVE  UNCHANGED engine
  BY <1>5 DEF ClosePane
<1>6. ASSUME NEW p, JobStep(p) \/ SpawnAsk(p) \/ AgentStarts(p)
      PROVE  UNCHANGED engine
  BY <1>6 DEF JobStep, SpawnAsk, AgentStarts, SpawnReply, Prompt, StartReturns, SpawnFails, SpawnEnds, GiveUp, Spawning
<1> QED
  BY <1>1, <1>2, <1>4, <1>5, <1>6 DEF Next

\* The actions that change the threads.
LEMMA ThreadsKept ==
    ASSUME Next
    PROVE  \/ UNCHANGED threads
           \/ PollPublish \/ Seen \/ PaneClosed \/ BranchesResolved(TRUE)
           \/ \E i \in 1..Len(threads) :
                \/ GraceOver(i) \/ SnoozeDue(i) \/ Unarchive(i) \/ Delete(i)
                \/ \E shelf \in Shelves \cup {"active"} : Shelve(i, shelf)
           \/ \E p \in Panes : SpawnEnds(p) \/ GiveUp(p) \/ \E t \in 0..MaxTerms : SpawnReply(p, t)
BY DEF Next, JobStep, NewTerminal, PaneCloses, AgentTurns, Change, ClosePane, PollRead, PollFails, Restart, store,
       BranchesResolved, SpawnAsk, AgentStarts, Prompt, StartReturns, SpawnFails

\* The actions that change the spawns, the close at work and the orphans.
LEMMA JobsKept ==
    ASSUME Next
    PROVE  \/ UNCHANGED <<job, closing, orphans>>
           \/ Restart \/ PaneClosed
           \/ \E i \in 1..Len(threads) : ClosePane(i)
           \/ \E p \in Panes : SpawnAsk(p) \/ JobStep(p)
BY DEF Next, NewTerminal, PaneCloses, AgentTurns, Change, Spawning, PollRead, PollFails, PollPublish, Seen, hist,
       BranchesResolved, GraceOver, SnoozeDue, Unarchive, Delete, Shelve, Act, AgentStarts

\* Every step keeps the types of Herdr, and no pane is unmade.
LEMMA HerdTyped ==
    ASSUME TypesInv, Next
    PROVE  HerdTypes' /\ born \subseteq born'
<1>0. HerdTypes /\ MaxTerms \in Nat /\ \A p \in Panes : world[p] \in Pane
  BY IngestAssumption DEF IngestAssumption, TypesInv, HerdTypes, Look
<1>1. CASE UNCHANGED herd
  BY <1>0, <1>1 DEF HerdTypes, herd
<1>2. ASSUME NEW p \in Panes, NewTerminal(p)
      PROVE  HerdTypes' /\ born \subseteq born'
  <2>1. [term |-> terms + 1, agent |-> TRUE, st |-> "rest"] \in Pane /\ terms + 1 \in 0..MaxTerms
    BY <1>0, <1>2 DEF NewTerminal, Pane, HerdTypes
  <2> QED
    BY <1>0, <1>2, <2>1 DEF NewTerminal, HerdTypes, Look
<1>3. NoPane \in Pane
  BY <1>0 DEF NoPane, Pane
<1>4. ASSUME NEW p \in Panes, PaneCloses(p)
      PROVE  HerdTypes' /\ born \subseteq born'
  BY <1>0, <1>3, <1>4 DEF PaneCloses, HerdTypes, Look
<1>5. ASSUME NEW p \in Panes, SpawnAsk(p)
      PROVE  HerdTypes' /\ born \subseteq born'
  <2>1. [NoPane EXCEPT !.term = terms + 1] \in Pane /\ terms + 1 \in 0..MaxTerms
    <3>1. terms + 1 \in 0..MaxTerms
      BY <1>0, <1>5 DEF SpawnAsk, HerdTypes
    <3> QED
      BY <1>3, <3>1 DEF Pane
  <2> QED
    BY <1>0, <1>5, <2>1 DEF SpawnAsk, HerdTypes, Look
<1>6. ASSUME NEW p \in Panes, AgentStarts(p)
      PROVE  HerdTypes' /\ born \subseteq born'
  <2>1. [world[p] EXCEPT !.agent = TRUE] \in Pane
    BY <1>0 DEF Pane
  <2> QED
    BY <1>0, <1>6, <2>1 DEF AgentStarts, HerdTypes, Look
<1>7. ASSUME NEW p \in Panes, SpawnFails(p)
      PROVE  HerdTypes' /\ born \subseteq born'
  BY <1>0, <1>3, <1>7 DEF SpawnFails, HerdTypes, Look
<1>8. ASSUME NEW p \in Panes, NEW st \in Turns, NEW agent \in BOOLEAN, AgentTurns(p, st, agent)
      PROVE  HerdTypes' /\ born \subseteq born'
  <2>1. [world[p] EXCEPT !.agent = agent, !.st = IF agent THEN st ELSE "rest"] \in Pane
    BY <1>0, IngestAssumption DEF Pane, IngestAssumption
  <2>2. world' = [world EXCEPT ![p] = [world[p] EXCEPT !.agent = agent, !.st = IF agent THEN st ELSE "rest"]]
    BY <1>0, <1>8 DEF AgentTurns, HerdTypes, Look
  <2> QED
    BY <1>0, <1>8, <2>1, <2>2 DEF AgentTurns, HerdTypes, Look
<1>9. ASSUME NEW i \in 1..Len(threads), ClosePane(i)
      PROVE  HerdTypes' /\ born \subseteq born'
  BY <1>0, <1>3, <1>9 DEF ClosePane, HerdTypes, Look
<1> QED
  BY <1>1, <1>2, <1>4, <1>5, <1>6, <1>7, <1>8, <1>9, HerdKept

\* Every step keeps the types of the engine.
LEMMA EngineTyped ==
    ASSUME TypesInv, Next
    PROVE  EngineTypes'
<1>0. EngineTypes /\ HerdTypes /\ (wire # <<>> => wire[1] \in Look /\ wire = <<wire[1]>>)
      /\ (lookup # <<>> => lookup[1] \in Look /\ lookup = <<lookup[1]>>)
  BY DEF TypesInv, EngineTypes, OneLook
<1>1. NoPane \in Pane
  BY IngestAssumption DEF NoPane, Pane, IngestAssumption
<1>2. CASE UNCHANGED engine
  BY <1>0, <1>2 DEF EngineTypes, engine
<1>3. ASSUME NEW lost \in SUBSET Panes, PollRead(lost)
      PROVE  EngineTypes'
  <2>1. [p \in Panes |-> IF p \in lost THEN NoPane ELSE world[p]] \in Look
    BY <1>0, <1>1 DEF Look, HerdTypes
  <2> QED
    BY <1>0, <1>3, <2>1 DEF PollRead, EngineTypes, OneLook
<1>4. CASE PollPublish
  BY <1>0, <1>4 DEF PollPublish, EngineTypes, OneLook
<1>5. CASE PollFails
  BY <1>0, <1>5 DEF PollFails, EngineTypes, OneLook
<1>6. CASE Restart
  BY <1>0, <1>1, <1>6 DEF Restart, EngineTypes, OneLook, Look
<1>7. ASSUME NEW changed \in BOOLEAN, BranchesResolved(changed)
      PROVE  EngineTypes'
  BY <1>0, <1>7 DEF BranchesResolved, EngineTypes, OneLook
<1> QED
  BY <1>2, <1>3, <1>4, <1>5, <1>6, <1>7, EngineKept

-----------------------------------------------------------------------------
(* The rows each action rewrites *)

\* A rewritten row that also keeps the operator's archive.
Keeps(t, row) == SameThread(t, row) /\ (ByUser(t) => ByUser(row))

\* Two rewritings that keep the operator's archive: a grace that is over, a pane that is gone.
LEMMA GraceKeeps ==
    ASSUME NEW t \in Thread, Fits(t)
    PROVE  Keeps(t, [t EXCEPT !.young = FALSE]) /\ Keeps(t, [t EXCEPT !.alive = FALSE])
BY DEF Keeps, SameThread, ByUser, Fits, Thread

\* ... and a snooze that fell due.
LEMMA DueKeeps ==
    ASSUME NEW t \in Thread, Fits(t), t.shelf = "snoozed"
    PROVE  Keeps(t, [t EXCEPT !.shelf = "due"])
BY DEF Keeps, SameThread, ByUser, Fits, Thread, Shelf

\* The operator's commands.
LEMMA ShelvedSame ==
    ASSUME NEW t \in Thread, Fits(t), t.shelf # "deleted", NEW shelf \in Shelves \cup {"active"}
    PROVE  SameThread(t, Updated([t EXCEPT !.shelf = shelf, !.why = IF shelf = "archived" THEN "user" ELSE "none"]))
<1>1. shelf \in Shelf /\ {"user", "none"} \subseteq Reason
  BY IngestAssumption DEF IngestAssumption, Shelf, Reason
<1> DEFINE m == [t EXCEPT !.shelf = shelf, !.why = IF shelf = "archived" THEN "user" ELSE "none"]
<1>2. m \in Thread /\ Fits(m) /\ m.pane = t.pane /\ m.term = t.term /\ m.why \in {"user", "none"}
  BY <1>1 DEF Thread, Fits
<1> HIDE DEF m
<1>3. /\ Updated(m) \in Thread /\ Updated(m).pane = m.pane /\ Updated(m).term = m.term
      /\ Updated(m).shelf = m.shelf /\ Updated(m).why = m.why
  BY <1>2 DEF Thread, Updated
<1>4. SameThread(t, Updated(m))
  BY <1>2, <1>3 DEF SameThread, Fits
<1> QED
  BY <1>4 DEF m

\* A deleted row.
LEMMA DeletedSame ==
    ASSUME NEW t \in Thread
    PROVE  SameThread(t, [t EXCEPT !.shelf = "deleted", !.why = "none", !.alive = FALSE, !.young = FALSE,
                                   !.status = "idle"])
BY DEF SameThread, Thread, Shelf, Reason, Status, Fits

\* The ends of a spawn.
LEMMA EndedKeeps ==
    ASSUME NEW t \in Thread, Fits(t), NEW status \in Status
    PROVE  Keeps(t, Ended(t, status))
<1>1. CASE Ended(t, status) = t
  BY <1>1 DEF Keeps, SameThread
<1>2. CASE Ended(t, status) = Updated([t EXCEPT !.status = status])
  <2> DEFINE m == [t EXCEPT !.status = status]
  <2>1. m \in Thread /\ m.pane = t.pane /\ m.term = t.term /\ m.shelf = t.shelf /\ m.why = t.why
    BY DEF Thread
  <2> HIDE DEF m
  <2>2. /\ Updated(m) \in Thread /\ Updated(m).pane = m.pane /\ Updated(m).term = m.term
        /\ Updated(m).shelf = m.shelf /\ Updated(m).why = m.why
    BY <2>1 DEF Thread, Updated
  <2>3. Keeps(t, Updated(m))
    BY <2>1, <2>2 DEF Keeps, SameThread, Fits, ByUser
  <2> QED
    BY <1>2, <2>3 DEF m
<1> QED
  BY <1>1, <1>2 DEF Ended

\* ... and of one whose pane was closed.
LEMMA FailedKeeps ==
    ASSUME NEW t \in Thread, Open(t)
    PROVE  Fits(t) => Keeps(t, Updated([t EXCEPT !.shelf = "archived", !.why = "spawn-failed"]))
<1> DEFINE m == [t EXCEPT !.shelf = "archived", !.why = "spawn-failed"]
<1>1. m \in Thread /\ m.pane = t.pane /\ m.term = t.term /\ m.shelf = "archived" /\ m.why = "spawn-failed"
  BY DEF Thread, Shelf, Reason
<1> HIDE DEF m
<1>2. /\ Updated(m) \in Thread /\ Updated(m).pane = m.pane /\ Updated(m).term = m.term
      /\ Updated(m).shelf = m.shelf /\ Updated(m).why = m.why
  BY <1>1 DEF Thread, Updated
<1>3. Keeps(t, Updated(m))
  BY <1>1, <1>2 DEF Keeps, SameThread, Fits, ByUser, Open
<1> QED
  BY <1>3 DEF m

\* A pane closed by command.
LEMMA ClosedSame ==
    ASSUME NEW t \in Thread, Fits(t), t.shelf # "deleted"
    PROVE  SameThread(t, Archived(t, "pane-closed"))
<1> DEFINE m == [t EXCEPT !.shelf = "archived", !.why = "pane-closed", !.alive = FALSE]
<1>1. m \in Thread /\ m.pane = t.pane /\ m.term = t.term /\ m.shelf = "archived" /\ m.why = "pane-closed"
  BY DEF Thread, Shelf, Reason
<1> HIDE DEF m
<1>2. /\ Updated(m) \in Thread /\ Updated(m).pane = m.pane /\ Updated(m).term = m.term
      /\ Updated(m).shelf = m.shelf /\ Updated(m).why = m.why
  BY <1>1 DEF Thread, Updated
<1>3. SameThread(t, Updated(m))
  BY <1>1, <1>2 DEF SameThread, Fits
<1> QED
  BY <1>3 DEF m, Archived

\* A thread is a well-formed row.
LEMMA RowAt ==
    ASSUME TypesInv, NEW i \in DOMAIN threads
    PROVE  threads[i] \in Thread /\ Fits(threads[i]) /\ threads[i].pane \in Panes /\ RowTypes
BY RowsOf DEF TypesInv

\* The commands, and what time does, rewrite one row.
LEMMA CommandsCarry ==
    ASSUME TypesInv, NEW i \in 1..Len(threads), NEW shelf \in Shelves \cup {"active"},
           GraceOver(i) \/ SnoozeDue(i) \/ Unarchive(i) \/ Delete(i) \/ Shelve(i, shelf)
    PROVE  Carried(threads')
<1>1. i \in DOMAIN threads /\ DOMAIN threads = 1..Len(threads)
  BY RowsOf DEF TypesInv
<1>2. threads[i] \in Thread /\ Fits(threads[i]) /\ RowTypes
  BY <1>1, RowAt
<1> DEFINE t == threads[i]
<1>3. CASE GraceOver(i)
  <2>1. threads' = [threads EXCEPT ![i] = [t EXCEPT !.young = FALSE]]
    BY <1>1, <1>3 DEF GraceOver
  <2>2. SameThread(t, [t EXCEPT !.young = FALSE])
    BY <1>2, GraceKeeps DEF Keeps
  <2> HIDE DEF t
  <2>3. Carried([threads EXCEPT ![i] = [t EXCEPT !.young = FALSE]])
    BY <1>1, <1>2, <2>2, RowCarried DEF t
  <2> QED
    BY <2>1, <2>3
<1>4. CASE SnoozeDue(i)
  <2>1. threads' = [threads EXCEPT ![i] = [t EXCEPT !.shelf = "due"]] /\ t.shelf = "snoozed"
    BY <1>1, <1>4 DEF SnoozeDue
  <2>2. SameThread(t, [t EXCEPT !.shelf = "due"])
    BY <1>2, <2>1, DueKeeps DEF Keeps
  <2>3. Carried([threads EXCEPT ![i] = [t EXCEPT !.shelf = "due"]])
    BY <1>1, <1>2, <2>2, RowCarried
  <2> QED
    BY <2>1, <2>3
<1>5. CASE Unarchive(i)
  <2> DEFINE row == Updated([t EXCEPT !.shelf = "active", !.why = "none"])
  <2>1. threads' = [threads EXCEPT ![i] = row] /\ t.shelf # "deleted"
    BY <1>1, <1>5 DEF Unarchive
  <2>2. SameThread(t, row)
    <3>1. SameThread(t, Updated([t EXCEPT !.shelf = "active", !.why = IF "active" = "archived" THEN "user" ELSE "none"]))
      <4> HIDE DEF t, row
      <4> QED
        BY <1>2, <2>1, ShelvedSame DEF t
    <3> QED
      BY <3>1
  <2> HIDE DEF row
  <2>3. Carried([threads EXCEPT ![i] = row])
    BY <1>1, <1>2, <2>2, RowCarried
  <2> QED
    BY <2>1, <2>3
<1>6. CASE Delete(i)
  <2> DEFINE row == [t EXCEPT !.shelf = "deleted", !.why = "none", !.alive = FALSE, !.young = FALSE, !.status = "idle"]
  <2>1. threads' = [threads EXCEPT ![i] = row]
    BY <1>1, <1>6 DEF Delete
  <2>2. SameThread(t, row)
    BY <1>2, DeletedSame
  <2> HIDE DEF row
  <2>3. Carried([threads EXCEPT ![i] = row])
    BY <1>1, <1>2, <2>2, RowCarried
  <2> QED
    BY <2>1, <2>3
<1>7. CASE Shelve(i, shelf)
  <2> DEFINE row == Updated([t EXCEPT !.shelf = shelf, !.why = IF shelf = "archived" THEN "user" ELSE "none"])
  <2>1. threads' = [threads EXCEPT ![i] = row] /\ t.shelf # "deleted"
    BY <1>1, <1>7 DEF Shelve, Open
  <2>2. SameThread(t, row)
    BY <1>2, <2>1, ShelvedSame
  <2> HIDE DEF row
  <2>3. Carried([threads EXCEPT ![i] = row])
    BY <1>1, <1>2, <2>2, RowCarried
  <2> QED
    BY <2>1, <2>3
<1> QED
  BY <1>3, <1>4, <1>5, <1>6, <1>7

\* The end of a spawn rewrites its thread, and keeps the operator's archive of it.
LEMMA EndsKeep ==
    ASSUME TypesInv, NEW p \in Panes, SpawnEnds(p) \/ GiveUp(p)
    PROVE  \E i \in DOMAIN threads : \E row : threads' = [threads EXCEPT ![i] = row] /\ Keeps(threads[i], row)
<1> DEFINE i == job[p].of
           t == threads[i]
<1>1. i \in DOMAIN threads
  BY DEF SpawnEnds, GiveUp, TypesInv, JobTypes
<1>2. t \in Thread /\ Fits(t)
  BY <1>1, RowAt
<1>3. "idle" \in Status /\ "failed" \in Status
  BY DEF Status
<1>4. CASE GiveUp(p)
  <2>1. threads' = [threads EXCEPT ![i] = Ended(t, "failed")]
    BY <1>1, <1>4 DEF GiveUp
  <2> HIDE DEF t, i
  <2>2. Keeps(t, Ended(t, "failed"))
    BY <1>2, <1>3, EndedKeeps
  <2> QED
    BY <1>1, <2>1, <2>2 DEF t
<1>5. CASE SpawnEnds(p)
  <2> DEFINE new == IF job[p].at = "closed" /\ Open(t)
                    THEN Updated([t EXCEPT !.shelf = "archived", !.why = "spawn-failed"])
                    ELSE Ended(t, "idle")
  <2>1. threads' = [threads EXCEPT ![i] = new]
    BY <1>1, <1>5 DEF SpawnEnds
  <2> HIDE DEF t, i
  <2>2. Keeps(t, Ended(t, "idle"))
    BY <1>2, <1>3, EndedKeeps
  <2>3. Open(t) => Keeps(t, Updated([t EXCEPT !.shelf = "archived", !.why = "spawn-failed"]))
    BY <1>2, FailedKeeps
  <2>4. Keeps(t, new)
    BY <2>2, <2>3
  <2> HIDE DEF new
  <2> QED
    BY <1>1, <2>1, <2>4 DEF t
<1> QED
  BY <1>4, <1>5

\* The end of a spawn rewrites one row.
LEMMA EndsCarry ==
    ASSUME TypesInv, NEW p \in Panes, SpawnEnds(p) \/ GiveUp(p)
    PROVE  Carried(threads')
<1>1. PICK i \in DOMAIN threads : \E row : threads' = [threads EXCEPT ![i] = row] /\ Keeps(threads[i], row)
  BY EndsKeep
<1>2. PICK row : threads' = [threads EXCEPT ![i] = row] /\ Keeps(threads[i], row)
  BY <1>1
<1>3. Carried([threads EXCEPT ![i] = row])
  BY <1>2, RowCarried DEF Keeps, TypesInv
<1> QED
  BY <1>2, <1>3

\* The closed pane's thread, as the close leaves it before the look.
AtClose ==
  LET t == threads[closing.of]
  IN  [threads EXCEPT ![closing.of] =
         IF closing.archived THEN [t EXCEPT !.alive = FALSE] ELSE Archived(t, "pane-closed")]

\* The close of a pane rewrites the row of its thread.
LEMMA ClosedCarries ==
    ASSUME TypesInv, closing # NoClosing, threads[closing.of].shelf # "deleted"
    PROVE  Carried(AtClose)
<1> DEFINE i == closing.of
           t == threads[i]
           row == IF closing.archived THEN [t EXCEPT !.alive = FALSE] ELSE Archived(t, "pane-closed")
<1>1. i \in DOMAIN threads
  BY DEF TypesInv, JobTypes
<1>2. t \in Thread /\ Fits(t) /\ t.shelf # "deleted" /\ RowTypes
  BY <1>1, RowAt
<1>3. AtClose = [threads EXCEPT ![i] = row]
  BY DEF AtClose
<1>4. SameThread(t, row)
  <2> HIDE DEF t
  <2> QED
    BY <1>2, GraceKeeps, ClosedSame DEF Keeps
<1> HIDE DEF row, i
<1>5. Carried([threads EXCEPT ![i] = row])
  BY <1>1, <1>2, <1>4, RowCarried
<1> QED
  BY <1>3, <1>5

\* The ways a close ends.
LEMMA ClosedIs ==
    ASSUME TypesInv, PaneClosed
    PROVE  /\ closing # NoClosing /\ closing.of \in DOMAIN threads
           /\ \/ UNCHANGED <<store, memory>>
              \/ /\ threads[closing.of].shelf # "deleted" /\ Carried(AtClose)
                 /\ \/ Reconcile(AtClose, snap)
                    \/ threads' = AtClose /\ UNCHANGED <<proj, memory>>
<1>1. closing # NoClosing /\ closing.of \in DOMAIN threads
  BY DEF PaneClosed, TypesInv, JobTypes
<1>2. CASE threads[closing.of].shelf = "deleted"
  BY <1>1, <1>2 DEF PaneClosed
<1>3. CASE threads[closing.of].shelf # "deleted"
  <2>1. Carried(AtClose)
    BY <1>1, <1>3, ClosedCarries
  <2>2. Reconcile(AtClose, snap) \/ (threads' = AtClose /\ UNCHANGED <<proj, memory>>)
    BY <1>3 DEF PaneClosed, AtClose
  <2> QED
    BY <1>1, <1>3, <2>1, <2>2
<1> QED
  BY <1>2, <1>3

\* A spawn that takes over the thread the ingest made of its pane.
SpawnTakes(p, t) ==
  \E i \in DOMAIN threads :
     /\ threads[i].pane = p /\ Open(threads[i])
     /\ \E row : threads' = [threads EXCEPT ![i] = row] /\ Keeps(threads[i], row)
     /\ job' = [job EXCEPT ![p].at = "prompt", ![p].term = t, ![p].of = i]

\* A spawn that makes its thread.
SpawnMakes(p, t) ==
  /\ \A i \in DOMAIN threads :
        threads[i].pane = p /\ threads[i].term = t => threads[i].shelf = "deleted"
  /\ \E n \in Thread : /\ n.pane = p /\ n.term = t /\ Fits(n)
                       /\ threads' = Append(threads, n)
  /\ job' = [job EXCEPT ![p].at = "prompt", ![p].term = t, ![p].of = Len(threads) + 1]

\* The answer to a spawn takes a thread over, makes one, or finds its twin.
LEMMA SpawnIs ==
    ASSUME TypesInv, AskedFresh, NEW p \in Panes, NEW t \in 0..MaxTerms, SpawnReply(p, t)
    PROVE  \/ SpawnTakes(p, t) \/ SpawnMakes(p, t)
           \/ job' = [job EXCEPT ![p] = NoJob] /\ UNCHANGED threads
<1> DEFINE seen == {i \in DOMAIN threads :
                       /\ threads[i].pane = p /\ Open(threads[i])
                       /\ t = 0 \/ threads[i].term \in {0, t}}
           fresh == [pane |-> p, term |-> t, status |-> "starting", shelf |-> "active",
                     why |-> "none", alive |-> FALSE, young |-> TRUE]
           twin == \E i \in DOMAIN threads :
                      threads[i].pane = p /\ threads[i].term = t /\ threads[i].shelf # "deleted"
           i == CHOOSE i \in seen : \A k \in seen : i <= k
<1>1. job[p].at = "asked"
  BY DEF SpawnReply
<1>2. \A k \in DOMAIN threads : threads[k] \in Thread /\ Fits(threads[k])
  BY RowAt
<1>3. CASE seen # {}
  <2>1. seen \in SUBSET Nat
    BY RowsOf DEF TypesInv
  <2>2. \E k \in seen : \A j \in seen : k <= j
    <3> HIDE DEF seen
    <3> QED
      BY <1>3, <2>1, Least
  <2>3. i \in seen
    <3> HIDE DEF seen
    <3> QED
      BY <2>2
  <2>4. /\ threads' = [threads EXCEPT ![i].status = "starting", ![i].young = TRUE,
                                      ![i].term = IF @ = 0 THEN t ELSE @]
        /\ job' = [job EXCEPT ![p].at = "prompt", ![p].term = t, ![p].of = i]
    BY <1>3 DEF SpawnReply
  <2>5. PICK k \in DOMAIN threads : k = i /\ threads[k].pane = p /\ Open(threads[k])
    BY <2>3
  <2> HIDE DEF i, seen
  <2>6. PICK row : row = [threads[k] EXCEPT !.status = "starting", !.young = TRUE,
                                            !.term = IF threads[k].term = 0 THEN t ELSE threads[k].term]
    OBVIOUS
  <2>7. threads' = [threads EXCEPT ![k] = row]
    BY <2>4, <2>5, <2>6
  <2>8. threads[k].term # 0
    BY <1>1, <2>5 DEF AskedFresh
  <2>9. Keeps(threads[k], row)
    <3>1. PICK m : m = threads[k] /\ m \in Thread /\ Fits(m)
      BY <1>2
    <3>2. row = [m EXCEPT !.status = "starting", !.young = TRUE, !.term = m.term]
      BY <2>6, <2>8, <3>1
    <3>3. row \in Thread /\ row.pane = m.pane /\ row.term = m.term /\ row.shelf = m.shelf /\ row.why = m.why
      BY <3>1, <3>2 DEF Thread, Status
    <3>4. Keeps(m, row)
      BY <3>1, <3>3 DEF Keeps, SameThread, Fits, ByUser
    <3> QED
      BY <3>1, <3>4
  <2> QED
    BY <2>4, <2>5, <2>7, <2>9 DEF SpawnTakes
<1>4. CASE seen = {} /\ twin
  BY <1>4 DEF SpawnReply
<1>5. CASE seen = {} /\ ~twin
  <2>1. /\ threads' = Append(threads, fresh)
        /\ job' = [job EXCEPT ![p].at = "prompt", ![p].term = t, ![p].of = Len(threads) + 1]
    BY <1>5 DEF SpawnReply
  <2>2. fresh \in Thread /\ fresh.pane = p /\ fresh.term = t /\ Fits(fresh)
    BY DEF Thread, Status, Shelf, Reason, Fits
  <2> HIDE DEF fresh, seen
  <2> QED
    BY <1>5, <2>1, <2>2 DEF SpawnMakes
<1> QED
  BY <1>3, <1>4, <1>5

\* A thread taken over keeps its terminal: a spawn's pane is new.
LEMMA TakesCarry ==
    ASSUME TypesInv, NEW p \in Panes, NEW t \in 0..MaxTerms, SpawnTakes(p, t)
    PROVE  Carried(threads')
<1>1. PICK i \in DOMAIN threads : \E row : threads' = [threads EXCEPT ![i] = row] /\ Keeps(threads[i], row)
  BY DEF SpawnTakes
<1>2. PICK row : threads' = [threads EXCEPT ![i] = row] /\ Keeps(threads[i], row)
  BY <1>1
<1>3. Carried([threads EXCEPT ![i] = row])
  BY <1>2, RowCarried DEF Keeps, TypesInv
<1> QED
  BY <1>2, <1>3

\* A thread that a spawn makes has no twin.
LEMMA MakesGrow ==
    ASSUME TypesInv, NoTwins, NEW p \in Panes, NEW t \in 0..MaxTerms, SpawnReply(p, t), SpawnMakes(p, t), NEW S
    PROVE  GrownBy(S) /\ \A i \in DOMAIN threads : threads'[i] = threads[i]
<1>0. RowTypes /\ DOMAIN threads = 1..Len(threads) /\ Len(threads) \in Nat
  BY RowsOf DEF TypesInv
<1>1. PICK n \in Thread : n.pane = p /\ n.term = t /\ Fits(n) /\ threads' = Append(threads, n)
  BY DEF SpawnMakes
<1>2. /\ threads' \in Seq(Thread) /\ Len(threads') = Len(threads) + 1
      /\ \A i \in 1..Len(threads) : threads'[i] = threads[i]
      /\ threads'[Len(threads) + 1] = n
  BY <1>0, <1>1, AppendProperties DEF RowTypes
<1>3. DOMAIN threads' = 1..(Len(threads) + 1)
  BY <1>0, <1>2, LenProperties
<1>4. \A i \in DOMAIN threads : threads[i].pane = p /\ threads[i].term = t => threads[i].shelf = "deleted"
  BY DEF SpawnMakes
<1>5. NoTwinsIn(threads')
  <2> SUFFICES ASSUME NEW i \in DOMAIN threads', NEW k \in DOMAIN threads', i < k,
                      threads'[i].pane = threads'[k].pane, threads'[i].term = threads'[k].term
               PROVE  "deleted" \in {threads'[i].shelf, threads'[k].shelf}
    <3>1. DOMAIN threads' \subseteq Nat
      BY <1>0, <1>3
    <3> QED
      BY <3>1 DEF NoTwinsIn
  <2>1. i \in 1..Len(threads)
    BY <1>0, <1>3
  <2>2. CASE k \in 1..Len(threads)
    BY <1>0, <1>2, <2>1, <2>2 DEF NoTwins
  <2>3. CASE k = Len(threads) + 1
    BY <1>0, <1>1, <1>2, <1>4, <2>1, <2>3
  <2> QED
    BY <1>0, <1>3, <2>2, <2>3
<1>6. Spawned(n)
  <2>1. job[p].at = "asked" /\ t \in {0, job[p].term} /\ job \in [Panes -> Job]
    BY DEF SpawnReply, TypesInv, JobTypes
  <2>2. job'[p].at = "prompt"
    BY <2>1 DEF SpawnMakes, Job
  <2> QED
    BY <1>1, <2>1, <2>2 DEF Spawned
<1> QED
  BY <1>0, <1>1, <1>2, <1>3, <1>5, <1>6 DEF GrownBy, RowTypes

\* A reconcile of the threads ts, with the snapshot its handler has.
Looking(ts) ==
  \/ Reconcile(ts, snap) /\ ~PollPublish
  \/ Reconcile(ts, wire[1]) /\ PollPublish
  \/ Reconcile(ts, lookup[1]) /\ BranchesResolved(TRUE)

\* What a step does to the threads: it rewrites rows, and may then look at a snapshot at hand; or
\* a spawn makes one.
LEMMA Moves ==
    ASSUME TypesInv, AskedFresh, Next
    PROVE  \/ Carried(threads')
           \/ \E ts : Carried(ts) /\ Looking(ts)
           \/ \E p \in Panes, t \in 0..MaxTerms : SpawnReply(p, t) /\ SpawnMakes(p, t)
<1>1. Carried(threads)
  BY AllCarried DEF TypesInv
<1>2. CASE UNCHANGED threads
  BY <1>1, <1>2
<1>3. CASE PollPublish
  BY <1>1, <1>3 DEF PollPublish, Looking
<1>4. CASE Seen
  <2>1. ~PollPublish
    BY <1>4 DEF PollPublish, Seen, engine
  <2> QED
    BY <1>1, <1>4, <2>1 DEF Seen, Looking
<1>5. CASE BranchesResolved(TRUE)
  BY <1>1, <1>5 DEF BranchesResolved, Looking
<1>6. CASE PaneClosed
  <2>0. ~PollPublish
    BY <1>6 DEF PollPublish, PaneClosed, engine
  <2>1. CASE UNCHANGED <<store, memory>>
    BY <1>2, <2>1 DEF store
  <2>2. CASE Carried(AtClose) /\ Reconcile(AtClose, snap)
    BY <2>0, <2>2 DEF Looking
  <2>3. CASE Carried(AtClose) /\ threads' = AtClose
    BY <2>3
  <2> QED
    BY <1>6, <2>1, <2>2, <2>3, ClosedIs
<1>7. ASSUME NEW i \in 1..Len(threads), NEW shelf \in Shelves \cup {"active"},
             GraceOver(i) \/ SnoozeDue(i) \/ Unarchive(i) \/ Delete(i) \/ Shelve(i, shelf)
      PROVE  Carried(threads')
  BY <1>7, CommandsCarry
<1>8. ASSUME NEW p \in Panes, SpawnEnds(p) \/ GiveUp(p)
      PROVE  Carried(threads')
  BY <1>8, EndsCarry
<1>9. ASSUME NEW p \in Panes, NEW t \in 0..MaxTerms, SpawnReply(p, t)
      PROVE  Carried(threads') \/ SpawnMakes(p, t)
  BY <1>1, <1>9, SpawnIs, TakesCarry
<1> QED
  BY <1>2, <1>3, <1>4, <1>5, <1>6, <1>7, <1>8, <1>9, ThreadsKept

\* The snapshots a step looks at.
LEMMA Grows ==
    ASSUME TypesInv, NoTwins, AskedFresh, Next
    PROVE  \/ GrownBy({snap})
           \/ PollPublish /\ wire[1] \in Look /\ wire = <<wire[1]>> /\ GrownBy({wire[1]})
           \/ BranchesResolved(TRUE) /\ lookup[1] \in Look /\ lookup = <<lookup[1]>> /\ GrownBy({lookup[1]})
<1>0. RowTypes /\ snap \in Look /\ (wire # <<>> => wire[1] \in Look /\ wire = <<wire[1]>>)
      /\ (lookup # <<>> => lookup[1] \in Look /\ lookup = <<lookup[1]>>)
  BY DEF TypesInv, EngineTypes, OneLook
<1>1. CASE Carried(threads')
  BY <1>0, <1>1, CarriedGrows
<1>2. ASSUME NEW ts, Carried(ts), Reconcile(ts, snap), ~PollPublish
      PROVE  GrownBy({snap})
  BY <1>0, <1>2, ReconcileGrows
<1>3. ASSUME NEW ts, Carried(ts), Reconcile(ts, wire[1]), PollPublish
      PROVE  wire[1] \in Look /\ wire = <<wire[1]>> /\ GrownBy({wire[1]})
  BY <1>0, <1>3, ReconcileGrows DEF PollPublish
<1>4. ASSUME NEW ts, Carried(ts), Reconcile(ts, lookup[1]), BranchesResolved(TRUE)
      PROVE  lookup[1] \in Look /\ lookup = <<lookup[1]>> /\ GrownBy({lookup[1]})
  BY <1>0, <1>4, ReconcileGrows DEF BranchesResolved
<1>5. ASSUME NEW p \in Panes, NEW t \in 0..MaxTerms, SpawnReply(p, t), SpawnMakes(p, t)
      PROVE  GrownBy({snap})
  BY <1>5, MakesGrow
<1> QED
  BY <1>1, <1>2, <1>3, <1>4, <1>5, Moves DEF Looking

\* The actions that change the project, the ingestor's memory and the orphans.
LEMMA StoreKept ==
    ASSUME Next
    PROVE  \/ UNCHANGED <<proj, memory, orphans>>
           \/ PollPublish \/ Seen \/ PaneClosed \/ BranchesResolved(TRUE) \/ Restart
           \/ \E p \in Panes : Prompt(p) \/ SpawnEnds(p) \/ GiveUp(p)
<1>1. ASSUME NEW p, NEW st, NEW agent, NewTerminal(p) \/ PaneCloses(p) \/ AgentTurns(p, st, agent)
      PROVE  UNCHANGED <<proj, memory, orphans>>
  BY <1>1 DEF NewTerminal, PaneCloses, AgentTurns, Change, store
<1>2. ASSUME NEW lost, PollRead(lost) \/ PollFails \/ BranchesResolved(FALSE)
      PROVE  UNCHANGED <<proj, memory, orphans>>
  BY <1>2 DEF PollRead, PollFails, BranchesResolved, store, hist
<1>4. ASSUME NEW i, NEW shelf, GraceOver(i) \/ SnoozeDue(i) \/ Unarchive(i) \/ Delete(i) \/ Shelve(i, shelf)
      PROVE  UNCHANGED <<proj, memory, orphans>>
  BY <1>4 DEF GraceOver, SnoozeDue, Unarchive, Delete, Shelve, Act, hist
<1>5. ASSUME NEW i, ClosePane(i)
      PROVE  UNCHANGED <<proj, memory, orphans>>
  BY <1>5 DEF ClosePane, store
<1>6. ASSUME NEW p, StartReturns(p) \/ SpawnFails(p) \/ SpawnAsk(p) \/ AgentStarts(p)
      PROVE  UNCHANGED <<proj, memory, orphans>>
  BY <1>6 DEF StartReturns, SpawnFails, SpawnAsk, AgentStarts, Spawning, Go
<1>7. ASSUME NEW p, NEW t, SpawnReply(p, t)
      PROVE  UNCHANGED <<proj, memory, orphans>>
  BY <1>7 DEF SpawnReply, Spawning
<1> QED
  BY <1>1, <1>2, <1>4, <1>5, <1>6, <1>7 DEF Next, JobStep

\* Every step keeps the types of the project and of the memory.
LEMMA StoreTyped ==
    ASSUME TypesInv, NoTwins, AskedFresh, Next
    PROVE  StoreTypes'
<1>0. RowTypes /\ StoreTypes /\ DOMAIN threads \subseteq DOMAIN threads' /\ JobTypes
      /\ snap \in Look /\ (wire # <<>> => wire[1] \in Look) /\ (lookup # <<>> => lookup[1] \in Look)
  <2>1. RowTypes /\ StoreTypes /\ JobTypes /\ EngineTypes
    BY DEF TypesInv
  <2>2. DOMAIN threads \subseteq DOMAIN threads'
    BY <2>1, Grows, GrownRows
  <2> QED
    BY <2>1, <2>2 DEF EngineTypes, OneLook
<1>1. Carried(threads)
  BY <1>0, AllCarried
<1>2. CASE UNCHANGED <<proj, memory, orphans>>
  BY <1>0, <1>2 DEF StoreTypes, memory
<1>3. CASE PollPublish
  BY <1>0, <1>1, <1>3, ReconcileStore DEF PollPublish
<1>4. CASE Seen
  BY <1>0, <1>1, <1>4, ReconcileStore DEF Seen, hist
<1>5. CASE BranchesResolved(TRUE)
  BY <1>0, <1>1, <1>5, ReconcileStore DEF BranchesResolved, hist
<1>6. CASE PaneClosed
  <2>0. UNCHANGED orphans
    BY <1>6 DEF PaneClosed, hist
  <2>1. CASE UNCHANGED <<store, memory>>
    BY <1>2, <2>0, <2>1 DEF store
  <2>2. CASE Carried(AtClose) /\ Reconcile(AtClose, snap)
    BY <1>0, <2>0, <2>2, ReconcileStore
  <2>3. CASE UNCHANGED <<proj, memory>>
    BY <1>2, <2>0, <2>3
  <2> QED
    BY <1>6, <2>1, <2>2, <2>3, ClosedIs
<1>7. CASE Restart
  <2>1. {job[p].of : p \in {q \in Panes : job[q].of # 0}} \subseteq DOMAIN threads
    BY <1>0 DEF JobTypes
  <2> QED
    BY <1>0, <1>7, <2>1 DEF Restart, StoreTypes, store
<1>8. ASSUME NEW p \in Panes, Prompt(p) \/ SpawnEnds(p) \/ GiveUp(p)
      PROVE  StoreTypes'
  <2>1. \/ orphans' \subseteq orphans \cup {job[p].of} /\ job[p].of \in DOMAIN threads
        \/ orphans' = orphans
    BY <1>0, <1>8 DEF Prompt, SpawnEnds, GiveUp, Done, Go, JobTypes
  <2>2. UNCHANGED <<proj, memory>>
    BY <1>8 DEF Prompt, SpawnEnds, GiveUp, Spawning
  <2> QED
    BY <1>0, <2>1, <2>2 DEF StoreTypes, memory
<1> QED
  BY <1>2, <1>3, <1>4, <1>5, <1>6, <1>7, <1>8, StoreKept

\* Every step keeps the types of the spawns, and only SpawnAsk makes one ask.
LEMMA JobTyped ==
    ASSUME TypesInv, NoTwins, AskedFresh, Next
    PROVE  /\ JobTypes'
           /\ \A p \in Panes : job'[p].at = "asked" => job[p] = job'[p] \/ SpawnAsk(p)
<1> DEFINE Goal == /\ JobTypes'
                   /\ \A p \in Panes : job'[p].at = "asked" => job[p] = job'[p] \/ SpawnAsk(p)
<1>0. RowTypes /\ JobTypes /\ DOMAIN threads \subseteq DOMAIN threads' /\ MaxTerms \in Nat
  BY Grows, GrownRows, IngestAssumption DEF TypesInv, IngestAssumption
<1>1. NoJob \in Job /\ NoJob.of = 0 /\ NoJob.at = "none"
  BY <1>0 DEF NoJob, Job
<1>2. NoClosing \in [of : Nat, archived : BOOLEAN]
  BY DEF NoClosing
<1>3. \A p \in Panes : job[p] \in Job /\ DOMAIN threads \subseteq Nat \ {0}
  <2>1. DOMAIN threads \subseteq Nat \ {0}
    BY <1>0, RowsOf
  <2> QED
    BY <1>0, <2>1 DEF JobTypes
<1>4. CASE UNCHANGED <<job, closing, orphans>>
  BY <1>0, <1>4 DEF JobTypes
<1>5. CASE Restart
  BY <1>0, <1>1, <1>2, <1>5 DEF Restart, JobTypes
<1>6. CASE PaneClosed
  BY <1>0, <1>2, <1>6 DEF PaneClosed, JobTypes
<1>7. ASSUME NEW i \in 1..Len(threads), ClosePane(i)
      PROVE  Goal
  <2>1. i \in DOMAIN threads' /\ i \in Nat
    BY <1>0, RowsOf
  <2> QED
    BY <1>0, <1>7, <2>1 DEF ClosePane, JobTypes
\* One pane's job rewritten.
<1>8. ASSUME NEW p \in Panes, NEW j \in Job, job' = [job EXCEPT ![p] = j], UNCHANGED closing,
             j.of # 0 => j.of \in DOMAIN threads', j.at \notin {"none", "asked"} => j.of # 0,
             j.at = "asked" => SpawnAsk(p)
      PROVE  Goal
  BY <1>0, <1>8 DEF JobTypes
<1> HIDE DEF Goal
<1>9. ASSUME NEW p \in Panes, SpawnAsk(p)
      PROVE  Goal
  <2> DEFINE j == [NoJob EXCEPT !.at = "asked", !.term = terms + 1]
  <2>1. terms + 1 \in 0..MaxTerms
    BY <1>0, <1>9 DEF SpawnAsk, TypesInv, HerdTypes
  <2>2. j \in Job /\ j.of = NoJob.of /\ j.at = "asked"
    BY <1>1, <2>1 DEF Job
  <2>3. job' = [job EXCEPT ![p] = j] /\ UNCHANGED closing
    BY <1>9 DEF SpawnAsk, Spawning
  <2> HIDE DEF j
  <2> QED
    BY <1>1, <1>8, <1>9, <2>2, <2>3
<1>10. ASSUME NEW p \in Panes, UNCHANGED closing, job' = [job EXCEPT ![p] = NoJob]
       PROVE  Goal
  BY <1>1, <1>8, <1>10
<1>11. ASSUME NEW p \in Panes, UNCHANGED closing, NEW at \in {"start", "wait", "closed", "failed"},
              job' = [job EXCEPT ![p].at = at], job[p].at \notin {"none", "asked"}
       PROVE  Goal
  <2> DEFINE j == [job[p] EXCEPT !.at = at]
  <2>1. job' = [job EXCEPT ![p] = j]
    BY <1>0, <1>11 DEF JobTypes
  <2>2. j \in Job /\ j.of = job[p].of /\ j.at = at
    BY <1>3 DEF Job
  <2>3. job[p].of # 0 /\ job[p].of \in DOMAIN threads'
    BY <1>0, <1>11 DEF JobTypes
  <2> HIDE DEF j
  <2> QED
    BY <1>8, <1>11, <2>1, <2>2, <2>3
<1>12. ASSUME NEW p \in Panes, NEW t \in 0..MaxTerms, SpawnReply(p, t)
       PROVE  Goal
  <2>1. UNCHANGED closing
    BY <1>12 DEF SpawnReply, Spawning
  <2>2. ASSUME NEW i \in DOMAIN threads', i \in Nat \ {0}, job' = [job EXCEPT ![p].at = "prompt", ![p].term = t, ![p].of = i]
        PROVE  Goal
    <3> DEFINE j == [job[p] EXCEPT !.at = "prompt", !.term = t, !.of = i]
    <3>1. job' = [job EXCEPT ![p] = j]
      BY <1>0, <2>2 DEF JobTypes
    <3>2. j \in Job /\ j.of = i /\ j.at = "prompt"
      BY <1>3, <2>2 DEF Job
    <3> HIDE DEF j
    <3> QED
      BY <1>8, <2>1, <2>2, <3>1, <3>2
  <2>3. CASE SpawnTakes(p, t)
    BY <1>0, <1>3, <2>2, <2>3 DEF SpawnTakes
  <2>4. CASE SpawnMakes(p, t)
    <3>1. Len(threads') = Len(threads) + 1 /\ threads' \in Seq(Thread) /\ Len(threads) \in Nat
      BY <1>0, <2>4, AppendProperties, LenProperties DEF SpawnMakes, RowTypes
    <3>2. Len(threads) + 1 \in DOMAIN threads' /\ Len(threads) + 1 \in Nat \ {0}
      BY <3>1, LenProperties
    <3> QED
      BY <2>2, <2>4, <3>2 DEF SpawnMakes
  <2> QED
    BY <1>10, <1>12, <2>1, <2>3, <2>4, SpawnIs
<1>13. ASSUME NEW p \in Panes, Prompt(p)
       PROVE  Goal
  <2>1. UNCHANGED closing /\ job[p].at = "prompt"
        /\ (job' = [job EXCEPT ![p] = NoJob] \/ job' = [job EXCEPT ![p].at = "start"])
    BY <1>13 DEF Prompt, Spawning, Done, Go
  <2> QED
    BY <1>10, <1>11, <2>1
<1>14. ASSUME NEW p \in Panes, StartReturns(p) \/ SpawnFails(p)
       PROVE  Goal
  <2>1. UNCHANGED closing /\ job[p].at \in {"prompt", "start"}
        /\ \E at \in {"wait", "closed", "failed"} : job' = [job EXCEPT ![p].at = at]
    BY <1>14 DEF StartReturns, SpawnFails, Spawning, Go
  <2> QED
    BY <1>11, <2>1
<1>15. ASSUME NEW p \in Panes, SpawnEnds(p) \/ GiveUp(p)
       PROVE  Goal
  BY <1>10, <1>15 DEF SpawnEnds, GiveUp, Spawning, Done
<1> QED
  BY <1>4, <1>5, <1>6, <1>7, <1>9, <1>12, <1>13, <1>14, <1>15, JobsKept DEF JobStep, Goal

-----------------------------------------------------------------------------
(* No twins *)

\* The snapshots at hand.
Looks == {s \in Look : s = snap \/ wire = <<s>> \/ lookup = <<s>>}

\* What is known of a pane is of a pane that was made.
BornOnly ==
  /\ \A p \in Panes : world[p].term # 0 \/ job[p].at = "asked" => p \in born
  /\ \A s \in Looks, p \in Panes : s[p].term # 0 => p \in born
  /\ \A i \in DOMAIN threads : threads[i].pane \in born

IngestInv == TypesInv /\ NoTwins /\ AskedFresh /\ BornOnly

\* A pane with a terminal was made.
LEMMA WorldBorn ==
    ASSUME TypesInv, BornOnly, Next, NEW q \in Panes, world'[q].term # 0
    PROVE  q \in born'
<1>0. HerdTypes /\ MaxTerms \in Nat /\ \A p \in Panes : world[p] \in Pane
  BY IngestAssumption DEF IngestAssumption, TypesInv, HerdTypes, Look
<1>1. NoPane \in Pane /\ NoPane.term = 0
  BY <1>0 DEF NoPane, Pane
<1>2. CASE UNCHANGED herd
  BY <1>2 DEF BornOnly, herd
<1>3. ASSUME NEW p \in Panes, NewTerminal(p) \/ SpawnAsk(p)
      PROVE  q \in born'
  <2>1. p \in born' /\ (q # p => world'[q] = world[q]) /\ born \subseteq born'
    BY <1>0, <1>3 DEF NewTerminal, SpawnAsk, HerdTypes, Look
  <2> QED
    BY <2>1 DEF BornOnly
<1>4. ASSUME NEW p \in Panes, PaneCloses(p) \/ SpawnFails(p)
      PROVE  q \in born'
  <2>1. (world'[q] = NoPane \/ world'[q] = world[q]) /\ born' = born
    BY <1>0, <1>4 DEF PaneCloses, SpawnFails, HerdTypes, Look
  <2> QED
    BY <1>1, <2>1 DEF BornOnly
<1>5. ASSUME NEW i \in 1..Len(threads), ClosePane(i)
      PROVE  q \in born'
  <2>1. (world'[q] = NoPane \/ world'[q] = world[q]) /\ born' = born
    BY <1>0, <1>5 DEF ClosePane, HerdTypes, Look
  <2> QED
    BY <1>1, <2>1 DEF BornOnly
<1>6. ASSUME NEW p \in Panes, AgentStarts(p)
      PROVE  q \in born'
  <2>1. world'[q].term = world[q].term /\ born' = born
    BY <1>0, <1>6 DEF AgentStarts, HerdTypes, Look, Pane
  <2> QED
    BY <2>1 DEF BornOnly
<1>7. ASSUME NEW p \in Panes, NEW st \in Turns, NEW agent \in BOOLEAN, AgentTurns(p, st, agent)
      PROVE  q \in born'
  <2>1. world'[q].term = world[q].term /\ born' = born
    BY <1>0, <1>7 DEF AgentTurns, HerdTypes, Look, Pane
  <2> QED
    BY <2>1 DEF BornOnly
<1> QED
  BY <1>2, <1>3, <1>4, <1>5, <1>6, <1>7, HerdKept

\* A poll reads the world, or less of it.
LEMMA LooksFrom ==
    ASSUME TypesInv, Next, NEW s \in Looks'
    PROVE  \/ s \in Looks \/ \A p \in Panes : s[p].term = 0
           \/ \E lost \in SUBSET Panes : PollRead(lost) /\ \A p \in Panes : s[p].term \in {0, world[p].term}
<1>0. snap \in Look /\ wire \in OneLook /\ lookup \in OneLook /\ s \in Look
      /\ (s = snap' \/ wire' = <<s>> \/ lookup' = <<s>>)
  BY DEF TypesInv, EngineTypes, Looks
<1>1. CASE UNCHANGED engine
  BY <1>0, <1>1 DEF Looks, engine
<1>2. ASSUME NEW lost \in SUBSET Panes, PollRead(lost)
      PROVE  s \in Looks \/ \A p \in Panes : s[p].term \in {0, world[p].term}
  <2>1. CASE wire' = <<s>>
    <3>1. s = [p \in Panes |-> IF p \in lost THEN NoPane ELSE world[p]]
      BY <1>2, <2>1 DEF PollRead
    <3> QED
      BY <3>1 DEF NoPane
  <2>2. CASE s = snap' \/ lookup' = <<s>>
    BY <1>0, <1>2, <2>2 DEF PollRead, Looks
  <2> QED
    BY <1>0, <2>1, <2>2
<1>3. CASE PollPublish
  <2>1. snap' = wire[1] /\ wire' = <<>> /\ wire # <<>> /\ lookup' \in {wire, lookup} /\ wire = <<wire[1]>>
    BY <1>0, <1>3 DEF PollPublish, OneLook
  <2> QED
    BY <1>0, <2>1 DEF Looks
<1>4. CASE PollFails
  BY <1>0, <1>4 DEF PollFails, Looks
<1>5. CASE Restart
  <2>1. s = [p \in Panes |-> NoPane]
    BY <1>0, <1>5 DEF Restart
  <2> QED
    BY <2>1 DEF NoPane
<1>6. ASSUME NEW changed \in BOOLEAN, BranchesResolved(changed)
      PROVE  s \in Looks
  BY <1>0, <1>6 DEF BranchesResolved, Looks
<1> QED
  BY <1>1, <1>2, <1>3, <1>4, <1>5, <1>6, EngineKept

\* The table grows by the snapshots at hand.
LEMMA GrowsByLooks ==
    ASSUME TypesInv, NoTwins, AskedFresh, Next
    PROVE  \E S \in SUBSET Looks : GrownBy(S)
<1>1. snap \in Looks
  BY DEF TypesInv, EngineTypes, Looks
<1>2. CASE GrownBy({snap})
  BY <1>1, <1>2
<1>3. CASE wire[1] \in Look /\ wire = <<wire[1]>> /\ GrownBy({wire[1]})
  <2>1. wire[1] \in Looks
    BY <1>3 DEF Looks
  <2> QED
    BY <1>3, <2>1
<1>4. CASE lookup[1] \in Look /\ lookup = <<lookup[1]>> /\ GrownBy({lookup[1]})
  <2>1. lookup[1] \in Looks
    BY <1>4 DEF Looks
  <2> QED
    BY <1>4, <2>1
<1> QED
  BY <1>2, <1>3, <1>4, Grows

\* The invariant holds at first and every step keeps it.
LEMMA IngestInit ==
    ASSUME Init
    PROVE  IngestInv
<1>1. MaxTerms \in Nat /\ MaxTerms # 0
  BY IngestAssumption DEF IngestAssumption
<1>2. PICK old \in {{}, Panes} :
         /\ world = [p \in Panes |-> IF p \in old THEN [NoPane EXCEPT !.term = 1, !.agent = TRUE] ELSE NoPane]
         /\ born = old /\ terms = IF old = {} THEN 0 ELSE 1
  BY DEF Init
<1>3. NoPane \in Pane /\ NoPane.term = 0
  BY <1>1 DEF NoPane, Pane
<1>4. 1 \in 0..MaxTerms /\ 0 \in 0..MaxTerms
  BY <1>1
<1>5. [NoPane EXCEPT !.term = 1, !.agent = TRUE] \in Pane
  BY <1>3, <1>4 DEF Pane
<1>6. HerdTypes
  BY <1>2, <1>3, <1>4, <1>5 DEF HerdTypes, Look
<1>7. snap = [p \in Panes |-> NoPane] /\ wire = <<>> /\ lookup = <<>> /\ link = FALSE
  BY DEF Init
<1>8. EngineTypes
  BY <1>3, <1>7 DEF EngineTypes, OneLook, Look
<1>9. threads = <<>> /\ DOMAIN threads = {}
  BY DEF Init
<1>10. RowTypes /\ NoTwins /\ AskedFresh
  BY <1>9 DEF RowTypes, NoTwins, AskedFresh
<1>11. StoreTypes
  BY <1>9 DEF Init, StoreTypes, Status
<1>12. JobTypes
  <2>1. NoJob \in Job /\ NoJob.of = 0 /\ NoJob.at = "none"
    BY <1>4 DEF NoJob, Job
  <2>2. NoClosing \in [of : Nat, archived : BOOLEAN]
    BY DEF NoClosing
  <2>3. job = [p \in Panes |-> NoJob] /\ closing = NoClosing
    BY DEF Init
  <2> QED
    BY <2>1, <2>2, <2>3 DEF JobTypes
<1>13. BornOnly
  <2>1. \A p \in Panes : world[p].term # 0 => p \in born
    BY <1>2, <1>3
  <2>2. \A p \in Panes : job[p].at = "none"
    BY DEF Init, NoJob
  <2>3. \A s \in Looks, p \in Panes : s[p].term = 0
    BY <1>3, <1>7 DEF Looks
  <2> QED
    BY <1>9, <2>1, <2>2, <2>3 DEF BornOnly
<1> QED
  BY <1>6, <1>8, <1>10, <1>11, <1>12, <1>13 DEF IngestInv, TypesInv

\* Every step keeps the invariant.
LEMMA IngestStep ==
    ASSUME IngestInv, [Next]_vars
    PROVE  IngestInv'
<1>1. CASE UNCHANGED vars
  <2>1. UNCHANGED <<world, born, terms, wire, snap, link, lookup, threads, proj, first, missing, missingProject,
                    job, closing, orphans>>
    BY <1>1 DEF vars, herd, engine, store, memory, hist
  <2>2. Looks' = Looks
    BY <2>1 DEF Looks
  <2>3. TypesInv'
    BY <2>1 DEF IngestInv, TypesInv, HerdTypes, EngineTypes, RowTypes, StoreTypes, JobTypes
  <2>4. NoTwins' /\ AskedFresh'
    BY <2>1 DEF IngestInv, NoTwins, AskedFresh
  <2>5. BornOnly'
    BY <2>1, <2>2 DEF IngestInv, BornOnly
  <2> QED
    BY <2>3, <2>4, <2>5 DEF IngestInv
<1>2. CASE Next
  <2>0. TypesInv /\ NoTwins /\ AskedFresh /\ BornOnly /\ RowTypes
    BY DEF IngestInv, TypesInv
  <2>1. PICK S \in SUBSET Looks : GrownBy(S)
    BY <1>2, <2>0, GrowsByLooks
  <2>2. /\ RowTypes' /\ NoTwins' /\ DOMAIN threads = 1..Len(threads) /\ DOMAIN threads' = 1..Len(threads')
        /\ Len(threads) \in Nat /\ Len(threads') \in Nat
    BY <2>0, <2>1, GrownRows, RowsOf, LenProperties DEF GrownBy
  <2>3. HerdTypes' /\ born \subseteq born' /\ EngineTypes' /\ StoreTypes' /\ JobTypes'
    BY <1>2, <2>0, HerdTyped, EngineTyped, StoreTyped, JobTyped
  <2>4. \A i \in DOMAIN threads' : \/ i \in DOMAIN threads
                                   \/ i \in Len(threads) + 1..Len(threads')
    BY <2>2
  <2>5. \A i \in DOMAIN threads : threads[i].pane \in Panes
    BY <2>0, RowsOf
  <2>6. \A i \in DOMAIN threads' : threads'[i].pane \in Panes
    <3>1. \A i \in DOMAIN threads' : threads'[i] \in Thread
      BY <2>2, ElementOfSeq DEF GrownBy, RowTypes
    <3> QED
      BY <3>1 DEF Thread
  \* A thread that gets a terminal from a snapshot is of a pane that was made.
  <2>7. \A i \in DOMAIN threads' : ShownBy(S, threads'[i]) => threads'[i].pane \in born /\ threads'[i].term # 0
    BY <2>0, <2>1, <2>6 DEF ShownBy, BornOnly
  <2>8. AskedFresh'
    <3> SUFFICES ASSUME NEW p \in Panes, job'[p].at = "asked", NEW i \in DOMAIN threads', threads'[i].pane = p
                 PROVE  threads'[i].term # 0
      BY DEF AskedFresh
    <3>1. CASE ShownBy(S, threads'[i])
      BY <2>7, <3>1
    <3>2. CASE i \in DOMAIN threads /\ threads'[i].term = threads[i].term
      <4>1. threads[i].pane = p
        BY <2>1, <2>2, <3>2 DEF GrownBy
      <4>2. CASE SpawnAsk(p)
        BY <2>0, <3>2, <4>1, <4>2 DEF SpawnAsk, BornOnly
      <4>3. CASE job[p] = job'[p]
        BY <2>0, <3>2, <4>1, <4>3 DEF AskedFresh
      <4> QED
        BY <1>2, <2>0, <4>2, <4>3, JobTyped
    <3>3. ~Spawned(threads'[i])
      BY DEF Spawned
    <3> QED
      BY <2>1, <2>2, <2>4, <3>1, <3>2, <3>3 DEF GrownBy
  <2>9. BornOnly'
    <3>1. \A p \in Panes : world'[p].term # 0 => p \in born'
      BY <1>2, <2>0, WorldBorn
    <3>2. \A p \in Panes : job'[p].at = "asked" => p \in born'
      <4> SUFFICES ASSUME NEW p \in Panes, job'[p].at = "asked"
                   PROVE  p \in born'
        OBVIOUS
      <4>1. job[p] = job'[p] \/ SpawnAsk(p)
        BY <1>2, <2>0, JobTyped
      <4> QED
        BY <2>0, <2>3, <4>1 DEF SpawnAsk, BornOnly
    <3>3. ASSUME NEW s \in Looks', NEW p \in Panes, s[p].term # 0
          PROVE  p \in born'
      <4>1. s[p].term # 0 => (\E q \in Looks : q[p].term # 0) \/ world[p].term # 0
        BY <1>2, <2>0, LooksFrom
      <4> QED
        BY <2>0, <2>3, <3>3, <4>1 DEF BornOnly
    <3>4. ASSUME NEW i \in DOMAIN threads'
          PROVE  threads'[i].pane \in born'
      <4>1. CASE ShownBy(S, threads'[i])
        BY <2>3, <2>7, <4>1
      <4>2. CASE i \in DOMAIN threads
        BY <2>0, <2>1, <2>2, <2>3, <4>2 DEF GrownBy, BornOnly
      <4>3. CASE Spawned(threads'[i])
        BY <2>0, <2>3, <2>6, <4>3 DEF Spawned, BornOnly
      <4> QED
        BY <2>1, <2>2, <2>4, <4>1, <4>2, <4>3 DEF GrownBy
    <3> QED
      BY <3>1, <3>2, <3>3, <3>4 DEF BornOnly
  <2> QED
    BY <2>2, <2>3, <2>8, <2>9 DEF IngestInv, TypesInv
<1> QED
  BY <1>1, <1>2

\* The inductive invariant of the herd ingest holds in every behaviour, for every value of the constants.
THEOREM IngestInvariance == Spec => []IngestInv
<1>1. Init => IngestInv
  BY IngestInit
<1>2. IngestInv /\ [Next]_vars => IngestInv'
  BY IngestStep
<1> QED
  BY <1>1, <1>2, PTL DEF Spec

\* A pane and a terminal have one thread, whatever order looks, spawns, restarts and the operator's
\* commands come in: the table never refuses the append of a reconcile (bridge/threads/herd-ingest.ts).
THEOREM NoTwinsEver == Spec => []NoTwins
<1>1. IngestInv => NoTwins
  BY DEF IngestInv
<1> QED
  BY <1>1, IngestInvariance, PTL

\* Every variable of the herd ingest keeps its type, and a reason goes with the archived shelf.
THEOREM TypesCorrect == Spec => []TypeOK
<1>1. IngestInv => TypeOK
  <2> SUFFICES ASSUME IngestInv
               PROVE  TypeOK
    OBVIOUS
  <2>1. HerdTypes /\ EngineTypes /\ RowTypes /\ StoreTypes /\ JobTypes
    BY DEF IngestInv, TypesInv
  <2>2. \A q \in OneLook : q \in Seq([Panes -> Pane]) /\ Len(q) <= 1
    <3>1. ASSUME NEW s \in Look
          PROVE  <<s>> \in Seq(Look) /\ Len(<<s>>) <= 1
      <4> HIDE DEF Look
      <4> QED
        OBVIOUS
    <3>2. <<>> \in Seq(Look) /\ Len(<<>>) <= 1
      OBVIOUS
    <3> QED
      BY <3>1, <3>2 DEF OneLook, Look
  <2>3. /\ wire \in Seq([Panes -> Pane]) /\ Len(wire) <= 1
        /\ lookup \in Seq([Panes -> Pane]) /\ Len(lookup) <= 1
        /\ snap \in [Panes -> Pane] /\ link \in BOOLEAN
    BY <2>1, <2>2 DEF EngineTypes, Look
  <2>4. world \in [Panes -> Pane] /\ born \subseteq Panes /\ terms \in 0..MaxTerms
    BY <2>1 DEF HerdTypes, Look
  <2>5. threads \in Seq(Thread)
        /\ \A i \in DOMAIN threads :
              threads[i].shelf # "deleted" => (threads[i].shelf = "archived") = (threads[i].why # "none")
    BY <2>1 DEF RowTypes, Fits
  <2>6. job \in [Panes -> Job] /\ closing \in [of : Nat, archived : BOOLEAN]
    BY <2>1 DEF JobTypes
  <2> QED
    BY <2>1, <2>3, <2>4, <2>5, <2>6 DEF TypeOK, StoreTypes
<1> QED
  BY <1>1, IngestInvariance, PTL

-----------------------------------------------------------------------------
(* The operator's archive stands *)

\* The counters.
LEMMA ActsKept ==
    ASSUME Next
    PROVE  UNCHANGED acts \/ acts' = acts + 1
<1>1. ASSUME NEW p, NEW st, NEW agent, NewTerminal(p) \/ PaneCloses(p) \/ AgentTurns(p, st, agent)
      PROVE  UNCHANGED acts
  BY <1>1 DEF NewTerminal, PaneCloses, AgentTurns, Change
<1>2. ASSUME NEW lost, PollRead(lost) \/ PollFails \/ PollPublish \/ Seen \/ PaneClosed \/ Restart
      PROVE  UNCHANGED acts
  BY <1>2 DEF PollRead, PollFails, PollPublish, Seen, PaneClosed, Restart, hist
<1>3. ASSUME NEW changed, BranchesResolved(changed)
      PROVE  UNCHANGED acts
  BY <1>3 DEF BranchesResolved, hist
<1>4. ASSUME NEW i, GraceOver(i) \/ SnoozeDue(i)
      PROVE  UNCHANGED acts
  BY <1>4 DEF GraceOver, SnoozeDue, hist
<1>5. ASSUME NEW i, NEW shelf, Unarchive(i) \/ Delete(i) \/ Shelve(i, shelf) \/ ClosePane(i)
      PROVE  acts' = acts + 1
  BY <1>5 DEF ClosePane, Unarchive, Delete, Shelve, Act
<1>6. ASSUME NEW p, JobStep(p) \/ SpawnAsk(p) \/ AgentStarts(p)
      PROVE  UNCHANGED acts
  BY <1>6 DEF JobStep, SpawnAsk, AgentStarts, SpawnReply, Prompt, StartReturns, SpawnFails, SpawnEnds, GiveUp, Spawning
<1> QED
  BY <1>1, <1>2, <1>3, <1>4, <1>5, <1>6 DEF Next

\* A step that is no command of the operator leaves the operator's archives.
LEMMA ArchiveStep ==
    ASSUME IngestInv, acts \in Nat, Next, NEW i \in DOMAIN threads, ByUser(threads[i]), acts' = acts,
           closing.of = i => closing' = closing
    PROVE  ByUser(threads'[i])
<1>0. /\ TypesInv /\ NoTwins /\ AskedFresh /\ RowTypes /\ DOMAIN threads = 1..Len(threads)
      /\ threads[i] \in Thread /\ Fits(threads[i])
      /\ snap \in Look /\ (wire # <<>> => wire[1] \in Look) /\ (lookup # <<>> => lookup[1] \in Look)
  <2>1. TypesInv /\ NoTwins /\ AskedFresh /\ RowTypes
    BY DEF IngestInv, TypesInv
  <2> QED
    BY <2>1, RowsOf DEF TypesInv, EngineTypes, OneLook
<1>1. Carried(threads)
  BY <1>0, AllCarried
<1>2. ASSUME NEW ts, Carried(ts), NEW s \in Look, Reconcile(ts, s), ts[i] = threads[i]
      PROVE  ByUser(threads'[i])
  <2>1. Kept(ts, s, i)
    BY <1>0, <1>2, ReconcileGrows
  <2> QED
    BY <1>2, <2>1 DEF Kept, Stands
<1>3. CASE UNCHANGED threads
  BY <1>3
<1>4. CASE PollPublish
  BY <1>0, <1>1, <1>2, <1>4 DEF PollPublish
<1>5. CASE Seen
  BY <1>0, <1>1, <1>2, <1>5 DEF Seen
<1>6. CASE BranchesResolved(TRUE)
  BY <1>0, <1>1, <1>2, <1>6 DEF BranchesResolved
<1>7. CASE PaneClosed
  <2>1. closing.of # i
    BY <1>7 DEF PaneClosed
  <2>2. AtClose[i] = threads[i]
    BY <1>0, <2>1 DEF AtClose
  <2>3. CASE UNCHANGED <<store, memory>>
    BY <1>3, <2>3 DEF store
  <2>4. CASE Carried(AtClose) /\ Reconcile(AtClose, snap)
    BY <1>0, <1>2, <2>2, <2>4
  <2>5. CASE threads' = AtClose
    BY <2>2, <2>5
  <2> QED
    BY <1>0, <1>7, <2>3, <2>4, <2>5, ClosedIs
<1>8. ASSUME NEW k \in 1..Len(threads), GraceOver(k)
      PROVE  ByUser(threads'[i])
  <2>1. threads'[i] \in {threads[i], [threads[i] EXCEPT !.young = FALSE]}
    BY <1>0, <1>8 DEF GraceOver
  <2> QED
    BY <1>0, <2>1, GraceKeeps DEF Keeps
<1>9. ASSUME NEW k \in 1..Len(threads), SnoozeDue(k)
      PROVE  ByUser(threads'[i])
  <2>1. k # i
    BY <1>9 DEF SnoozeDue, ByUser
  <2> QED
    BY <1>0, <1>9, <2>1 DEF SnoozeDue
<1>10. ASSUME NEW k \in 1..Len(threads), NEW shelf, Unarchive(k) \/ Delete(k) \/ Shelve(k, shelf)
       PROVE  FALSE
  BY <1>10 DEF Unarchive, Delete, Shelve, Act
<1>11. ASSUME NEW k \in DOMAIN threads, NEW row, threads' = [threads EXCEPT ![k] = row], Keeps(threads[k], row)
       PROVE  ByUser(threads'[i])
  BY <1>0, <1>11 DEF Keeps
<1>12. ASSUME NEW p \in Panes, SpawnEnds(p) \/ GiveUp(p)
       PROVE  ByUser(threads'[i])
  BY <1>0, <1>11, <1>12, EndsKeep
<1>13. ASSUME NEW p \in Panes, NEW t \in 0..MaxTerms, SpawnReply(p, t)
       PROVE  ByUser(threads'[i])
  <2>1. CASE SpawnTakes(p, t)
    BY <1>11, <2>1 DEF SpawnTakes
  <2>2. CASE SpawnMakes(p, t)
    BY <1>0, <1>13, <2>2, MakesGrow
  <2> QED
    BY <1>0, <1>3, <1>13, <2>1, <2>2, SpawnIs
<1> QED
  BY <1>3, <1>4, <1>5, <1>6, <1>7, <1>8, <1>9, <1>10, <1>12, <1>13, ThreadsKept

\* A thread the operator archived stays archived by the operator through every look at the herd, restart
\* and spawn, until the operator takes it off the shelf or closes its pane (bridge/threads/decide.ts).
THEOREM ArchiveStands == Spec => UserArchiveStands
<1>1. Init => acts \in Nat
  BY DEF Init
<1>2. acts \in Nat /\ [Next]_vars => (acts \in Nat)'
  BY ActsKept DEF vars, hist
<1>3. Spec => [](acts \in Nat)
  BY <1>1, <1>2, PTL DEF Spec
<1>4. IngestInv /\ acts \in Nat /\ [Next]_vars
        => [\A i \in DOMAIN threads :
              threads[i].shelf = "archived" /\ threads[i].why = "user" /\ acts' = acts
                /\ (closing.of = i => closing' = closing)
                => threads'[i].shelf = "archived" /\ threads'[i].why = "user"]_vars
  BY ArchiveStep DEF ByUser
<1> QED
  BY <1>3, <1>4, IngestInvariance, PTL DEF Spec, UserArchiveStands

-----------------------------------------------------------------------------
(* A replaced terminal is replaced *)

\* What is known of a pane was true of it: nothing is ahead of the terminals made, and no snapshot at
\* hand shows another terminal of a pane whose present one the table, the engine or a spawn knows.
AtMost ==
  /\ terms \in Nat
  /\ \A p \in Panes : world[p].term <= terms /\ job[p].term <= terms
  /\ \A s \in Looks, p \in Panes : s[p].term <= terms
  /\ \A i \in DOMAIN threads : threads[i].term <= terms

\* No snapshot at hand has another terminal of p than the one it has now.
NoOther(p, s) == s[p].term \in {0, world[p].term}

Current ==
  \A p \in Panes : world[p].term # 0 =>
     /\ snap[p].term = world[p].term => \A s \in Look : wire = <<s>> => NoOther(p, s)
     /\ (\/ \E i \in DOMAIN threads : threads[i].pane = p /\ threads[i].term = world[p].term
         \/ job[p].at = "asked" /\ job[p].term = world[p].term)
        => NoOther(p, snap) /\ \A s \in Look : wire = <<s>> => NoOther(p, s)

\* With no lookup outliving a poll, the lookup was asked with the published herd.
OnTime == late = 0 /\ lookup \in {<<>>, <<snap>>}

LookInv == AtMost /\ Current /\ OnTime

\* Without late lookups, the lookup is asked with the herd as published.
LEMMA LateKept ==
    ASSUME Next, MaxLate = 0, TypesInv, OnTime
    PROVE  OnTime'
<1>0. snap \in Look /\ (wire # <<>> => wire = <<wire[1]>>)
  BY DEF TypesInv, EngineTypes, OneLook
<1>1. ASSUME NEW p, NEW st, NEW agent, NewTerminal(p) \/ PaneCloses(p) \/ AgentTurns(p, st, agent)
      PROVE  UNCHANGED <<late, lookup, snap>>
  BY <1>1 DEF NewTerminal, PaneCloses, AgentTurns, Change, engine
<1>2. ASSUME NEW lost, PollRead(lost) \/ PollFails \/ Seen \/ PaneClosed
      PROVE  UNCHANGED <<late, lookup, snap>>
  BY <1>2 DEF PollRead, PollFails, Seen, PaneClosed, hist, engine
<1>3. CASE PollPublish
  BY <1>0, <1>3 DEF PollPublish, OnTime
<1>4. CASE Restart
  BY <1>4 DEF Restart, OnTime
<1>5. ASSUME NEW changed, BranchesResolved(changed)
      PROVE  OnTime'
  BY <1>5 DEF BranchesResolved, OnTime, hist
<1>6. ASSUME NEW i, NEW shelf, GraceOver(i) \/ SnoozeDue(i) \/ Unarchive(i) \/ Delete(i) \/ Shelve(i, shelf) \/ ClosePane(i)
      PROVE  UNCHANGED <<late, lookup, snap>>
  BY <1>6 DEF GraceOver, SnoozeDue, Unarchive, Delete, Shelve, Act, ClosePane, hist, engine
<1>7. ASSUME NEW p, JobStep(p) \/ SpawnAsk(p) \/ AgentStarts(p)
      PROVE  UNCHANGED <<late, lookup, snap>>
  BY <1>7 DEF JobStep, SpawnAsk, AgentStarts, SpawnReply, Prompt, StartReturns, SpawnFails, SpawnEnds, GiveUp, Spawning,
              engine
<1>8. UNCHANGED <<late, lookup, snap>> => OnTime'
  BY DEF OnTime
<1> QED
  BY <1>1, <1>2, <1>3, <1>4, <1>5, <1>6, <1>7, <1>8 DEF Next

\* A pane keeps its terminal, loses it, or gets a new one that nobody but its spawn knows.
LEMMA WorldMoves ==
    ASSUME TypesInv, Next
    PROVE  /\ terms' \in {terms, terms + 1}
           /\ \A q \in Panes : \/ world'[q].term \in {0, world[q].term}
                               \/ /\ world'[q].term = terms + 1 /\ terms' = terms + 1 /\ UNCHANGED <<engine, threads>>
                                  /\ UNCHANGED job \/ q \notin born
<1>0. HerdTypes /\ MaxTerms \in Nat /\ \A p \in Panes : world[p] \in Pane
  BY IngestAssumption DEF IngestAssumption, TypesInv, HerdTypes, Look
<1>1. NoPane \in Pane /\ NoPane.term = 0
  BY <1>0 DEF NoPane, Pane
<1> DEFINE Goal == /\ terms' \in {terms, terms + 1}
                   /\ \A q \in Panes : \/ world'[q].term \in {0, world[q].term}
                                       \/ /\ world'[q].term = terms + 1 /\ terms' = terms + 1
                                          /\ UNCHANGED <<engine, threads>>
                                          /\ UNCHANGED job \/ q \notin born
<1>2. CASE UNCHANGED herd
  BY <1>2 DEF herd
<1>3. ASSUME NEW p \in Panes, NewTerminal(p)
      PROVE  Goal
  BY <1>0, <1>3 DEF NewTerminal, Change, store, HerdTypes, Look
<1>4. ASSUME NEW p \in Panes, SpawnAsk(p)
      PROVE  Goal
  <2>1. [NoPane EXCEPT !.term = terms + 1].term = terms + 1
    BY <1>1 DEF Pane
  <2>2. UNCHANGED <<engine, threads>> /\ p \notin born /\ terms' = terms + 1
        /\ world' = [world EXCEPT ![p] = [NoPane EXCEPT !.term = terms + 1]]
    BY <1>4 DEF SpawnAsk, Spawning
  <2> QED
    BY <1>0, <2>1, <2>2 DEF HerdTypes, Look
<1>5. ASSUME NEW p \in Panes, PaneCloses(p) \/ SpawnFails(p)
      PROVE  Goal
  <2>1. terms' = terms /\ \A q \in Panes : world'[q] = NoPane \/ world'[q] = world[q]
    BY <1>0, <1>5 DEF PaneCloses, SpawnFails, HerdTypes, Look
  <2> QED
    BY <1>1, <2>1
<1>6. ASSUME NEW i \in 1..Len(threads), ClosePane(i)
      PROVE  Goal
  <2>1. terms' = terms /\ \A q \in Panes : world'[q] = NoPane \/ world'[q] = world[q]
    BY <1>0, <1>6 DEF ClosePane, HerdTypes, Look
  <2> QED
    BY <1>1, <2>1
<1>7. ASSUME NEW p \in Panes, AgentStarts(p)
      PROVE  Goal
  <2>1. terms' = terms /\ \A q \in Panes : world'[q].term = world[q].term
    BY <1>0, <1>7 DEF AgentStarts, HerdTypes, Look, Pane
  <2> QED
    BY <2>1
<1>8. ASSUME NEW p \in Panes, NEW st \in Turns, NEW agent \in BOOLEAN, AgentTurns(p, st, agent)
      PROVE  Goal
  <2>1. terms' = terms /\ \A q \in Panes : world'[q].term = world[q].term
    BY <1>0, <1>8 DEF AgentTurns, HerdTypes, Look, Pane
  <2> QED
    BY <2>1
<1>9. UNCHANGED herd => Goal
  BY <1>2
<1>10. Goal
  <2> HIDE DEF Goal
  <2> QED
    BY <1>3, <1>4, <1>5, <1>6, <1>7, <1>8, <1>9, HerdKept
<1> QED
  BY <1>10

\* A spawn knows the terminal that was made for it, or none.
LEMMA JobMoves ==
    ASSUME TypesInv, AskedFresh, Next, NEW q \in Panes
    PROVE  job'[q].term \in {0, job[q].term} \/ (job'[q].term = terms + 1 /\ terms' = terms + 1)
<1>0. job \in [Panes -> Job] /\ job[q] \in Job /\ NoJob.term = 0
  BY DEF TypesInv, JobTypes, NoJob
<1>1. CASE UNCHANGED <<job, closing, orphans>>
  BY <1>1
<1>2. CASE Restart
  BY <1>0, <1>2 DEF Restart
<1>3. CASE PaneClosed
  BY <1>3 DEF PaneClosed
<1>4. ASSUME NEW i \in 1..Len(threads), ClosePane(i)
      PROVE  UNCHANGED job
  BY <1>4 DEF ClosePane
<1>5. ASSUME NEW p \in Panes, SpawnAsk(p)
      PROVE  job'[q] = job[q] \/ (job'[q].term = terms + 1 /\ terms' = terms + 1)
  <2>1. NoJob \in Job
    BY IngestAssumption DEF IngestAssumption, NoJob, Job
  <2>2. [NoJob EXCEPT !.at = "asked", !.term = terms + 1].term = terms + 1
    BY <2>1 DEF Job
  <2>3. job' = [job EXCEPT ![p] = [NoJob EXCEPT !.at = "asked", !.term = terms + 1]] /\ terms' = terms + 1
    BY <1>5 DEF SpawnAsk
  <2> QED
    BY <1>0, <2>2, <2>3
<1>6. ASSUME NEW p \in Panes, NEW t \in 0..MaxTerms, SpawnReply(p, t)
      PROVE  job'[q].term \in {0, job[q].term}
  <2>1. t \in {0, job[p].term}
    BY <1>6 DEF SpawnReply
  <2>2. \/ job' = [job EXCEPT ![p] = NoJob]
        \/ \E i : job' = [job EXCEPT ![p].at = "prompt", ![p].term = t, ![p].of = i]
    <3>1. SpawnTakes(p, t) => \E i : job' = [job EXCEPT ![p].at = "prompt", ![p].term = t, ![p].of = i]
      BY DEF SpawnTakes
    <3>2. SpawnMakes(p, t) => \E i : job' = [job EXCEPT ![p].at = "prompt", ![p].term = t, ![p].of = i]
      BY DEF SpawnMakes
    <3> QED
      BY <1>6, <3>1, <3>2, SpawnIs
  <2>3. ASSUME NEW i, job' = [job EXCEPT ![p].at = "prompt", ![p].term = t, ![p].of = i]
        PROVE  job'[q].term \in {0, job[q].term}
    <3>1. job'[q] = IF q = p THEN [job[q] EXCEPT !.at = "prompt", !.term = t, !.of = i] ELSE job[q]
      BY <1>0, <2>3
    <3>2. [job[q] EXCEPT !.at = "prompt", !.term = t, !.of = i].term = t
      BY <1>0 DEF Job
    <3> QED
      BY <2>1, <3>1, <3>2
  <2>4. job' = [job EXCEPT ![p] = NoJob] => job'[q].term \in {0, job[q].term}
    BY <1>0
  <2> QED
    BY <2>2, <2>3, <2>4
<1>7. ASSUME NEW p \in Panes, Prompt(p) \/ StartReturns(p) \/ SpawnFails(p) \/ SpawnEnds(p) \/ GiveUp(p)
      PROVE  job'[q].term \in {0, job[q].term}
  <2>1. job' = [job EXCEPT ![p] = NoJob] \/ \E at : job' = [job EXCEPT ![p].at = at]
    BY <1>7 DEF Prompt, StartReturns, SpawnFails, SpawnEnds, GiveUp, Done, Go
  <2> QED
    BY <1>0, <2>1 DEF Job
<1> QED
  BY <1>1, <1>2, <1>3, <1>4, <1>5, <1>6, <1>7, JobsKept DEF JobStep

\* Every step keeps AtMost.
LEMMA AtMostStep ==
    ASSUME IngestInv, AtMost, Next
    PROVE  AtMost'
<1>0. TypesInv /\ NoTwins /\ AskedFresh /\ BornOnly /\ RowTypes /\ HerdTypes
  BY DEF IngestInv, TypesInv
<1>1. PICK S \in SUBSET Looks : GrownBy(S)
  BY <1>0, GrowsByLooks
<1>2. terms \in Nat /\ terms' \in Nat /\ terms <= terms'
  BY <1>0, WorldMoves DEF AtMost
<1>3. /\ RowTypes' /\ DOMAIN threads = 1..Len(threads) /\ DOMAIN threads' = 1..Len(threads')
      /\ Len(threads) \in Nat /\ Len(threads') \in Nat
      /\ \A i \in DOMAIN threads' : threads'[i] \in Thread /\ threads'[i].pane \in Panes
  <2>1. RowTypes' /\ DOMAIN threads = 1..Len(threads) /\ DOMAIN threads' = 1..Len(threads')
        /\ Len(threads) \in Nat /\ Len(threads') \in Nat
    BY <1>0, <1>1, GrownRows, RowsOf, LenProperties DEF GrownBy
  <2>2. \A i \in DOMAIN threads' : threads'[i] \in Thread
    BY <2>1, ElementOfSeq DEF GrownBy, RowTypes
  <2> QED
    BY <2>1, <2>2 DEF Thread
<1>4. \A p \in Panes : world[p].term \in Nat /\ job[p].term \in Nat
  <2>1. MaxTerms \in Nat /\ \A p \in Panes : world[p] \in Pane /\ job[p] \in Job
    BY <1>0, IngestAssumption DEF IngestAssumption, TypesInv, HerdTypes, JobTypes, Look
  <2> QED
    BY <2>1 DEF Pane, Job
<1>5. \A p \in Panes : world'[p].term <= terms'
  BY <1>0, <1>2, <1>4, WorldMoves DEF AtMost
<1>6. \A p \in Panes : job'[p].term <= terms'
  BY <1>0, <1>2, <1>4, JobMoves DEF AtMost
<1>7. ASSUME NEW s \in Looks', NEW p \in Panes
      PROVE  s[p].term <= terms'
  <2>1. \/ s \in Looks \/ s[p].term = 0 \/ s[p].term \in {0, world[p].term}
    BY <1>0, LooksFrom
  <2>2. s[p].term \in Nat
    <3>1. s \in Look /\ MaxTerms \in Nat
      BY IngestAssumption DEF Looks, IngestAssumption
    <3> QED
      BY <3>1 DEF Look, Pane
  <2> QED
    BY <1>2, <1>4, <2>1, <2>2 DEF AtMost
<1>8. ASSUME NEW i \in DOMAIN threads'
      PROVE  threads'[i].term <= terms'
  <2>1. threads'[i].term \in Nat
    BY <1>3, IngestAssumption DEF Thread, IngestAssumption
  <2>2. CASE ShownBy(S, threads'[i])
    BY <1>1, <1>2, <1>3, <2>1, <2>2 DEF ShownBy, AtMost
  <2>3. CASE i \in DOMAIN threads /\ threads'[i].term = threads[i].term
    BY <1>2, <2>1, <2>3 DEF AtMost
  <2>4. CASE Spawned(threads'[i])
    BY <1>2, <1>3, <1>4, <2>1, <2>4 DEF Spawned, AtMost
  <2>5. i \in 1..Len(threads) \/ i \in Len(threads) + 1..Len(threads')
    BY <1>3
  <2> QED
    BY <1>1, <1>3, <2>2, <2>3, <2>4, <2>5 DEF GrownBy
<1> QED
  BY <1>2, <1>5, <1>6, <1>7, <1>8 DEF AtMost

\* The published herd, or what is published now.
LEMMA CurrentStep ==
    ASSUME IngestInv, LookInv, Next
    PROVE  Current'
<1>0. TypesInv /\ NoTwins /\ AskedFresh /\ BornOnly /\ RowTypes /\ HerdTypes /\ EngineTypes /\ AtMost /\ Current /\ OnTime
  BY DEF IngestInv, TypesInv, LookInv
<1> SUFFICES ASSUME NEW q \in Panes, world'[q].term # 0
             PROVE  /\ snap'[q].term = world'[q].term => \A s \in Look : wire' = <<s>> => NoOther(q, s)'
                    /\ (\/ \E i \in DOMAIN threads' : threads'[i].pane = q /\ threads'[i].term = world'[q].term
                        \/ job'[q].at = "asked" /\ job'[q].term = world'[q].term)
                       => NoOther(q, snap)' /\ \A s \in Look : wire' = <<s>> => NoOther(q, s)'
  BY DEF Current
<1> DEFINE w == world[q].term
           w1 == world'[q].term
<1>1. \A s \in Looks : s[q].term \in Nat /\ s[q].term <= terms
  <2>1. \A s \in Look : s[q].term \in Nat
    BY IngestAssumption DEF Look, Pane, IngestAssumption
  <2> QED
    BY <1>0, <2>1 DEF AtMost, Looks
<1>2. snap \in Looks /\ \A s \in Look : wire = <<s>> => s \in Looks
  BY <1>0 DEF Looks, EngineTypes
<1>3. \A i \in DOMAIN threads : threads[i].term \in Nat /\ threads[i].term <= terms
  <2>1. \A i \in DOMAIN threads : threads[i] \in Thread
    BY <1>0, RowsOf
  <2> QED
    BY <1>0, <2>1, IngestAssumption DEF AtMost, Thread, IngestAssumption
<1>4. job[q].term \in Nat /\ job[q].term <= terms /\ terms \in Nat
  <2>1. job[q] \in Job
    BY <1>0 DEF TypesInv, JobTypes
  <2> QED
    BY <1>0, <2>1, IngestAssumption DEF AtMost, Job, IngestAssumption
\* A new terminal: nobody knows it, but the spawn that has just asked for it.
<1>5. CASE /\ w1 = terms + 1 /\ UNCHANGED <<engine, threads>>
           /\ UNCHANGED job \/ q \notin born
  <2>1. UNCHANGED <<snap, wire, threads>>
    BY <1>5 DEF engine
  <2>2. snap'[q].term # w1 /\ \A i \in DOMAIN threads' : threads'[i].term # w1
    BY <1>1, <1>2, <1>3, <1>4, <1>5, <2>1
  <2>3. CASE UNCHANGED job
    BY <1>4, <1>5, <2>2, <2>3
  <2>4. CASE q \notin born
    <3>1. snap[q].term = 0 /\ \A s \in Look : wire = <<s>> => s[q].term = 0
      BY <1>0, <1>2, <2>4 DEF BornOnly
    <3> QED
      BY <2>1, <2>2, <3>1 DEF NoOther
  <2> QED
    BY <1>5, <2>3, <2>4
<1>6. CASE w1 = w /\ w # 0
  <2> DEFINE Sure == NoOther(q, snap) /\ \A s \in Look : wire = <<s>> => NoOther(q, s)
  <2>1. /\ snap[q].term = w => \A s \in Look : wire = <<s>> => NoOther(q, s)
        /\ (\E i \in DOMAIN threads : threads[i].pane = q /\ threads[i].term = w) => Sure
        /\ job[q].at = "asked" /\ job[q].term = w => Sure
    BY <1>0, <1>6 DEF Current
  <2>2. ASSUME NEW s, NoOther(q, s)
        PROVE  NoOther(q, s)'
    BY <1>6, <2>2 DEF NoOther
  <2>3. job'[q].at = "asked" => job[q] = job'[q]
    <3>1. ~SpawnAsk(q)
      BY <1>0, <1>6 DEF SpawnAsk, BornOnly
    <3> QED
      BY <1>0, <3>1, JobTyped
  \* Who has the terminal now had it, was told by the spawn, or saw it in a snapshot of S.
  <2>4. ASSUME NEW S, GrownBy(S), \A s \in S : s[q].term = w => Sure
        PROVE  (\/ \E i \in DOMAIN threads' : threads'[i].pane = q /\ threads'[i].term = w1
                \/ job'[q].at = "asked" /\ job'[q].term = w1) => Sure
    <3>1. CASE job'[q].at = "asked" /\ job'[q].term = w1
      BY <1>6, <2>1, <2>3, <3>1
    <3>2. ASSUME NEW i \in DOMAIN threads', threads'[i].pane = q, threads'[i].term = w1
          PROVE  Sure
      <4>1. DOMAIN threads' = 1..Len(threads') /\ DOMAIN threads = 1..Len(threads) /\ Len(threads) \in Nat
            /\ Len(threads') \in Nat
        BY <1>0, <2>4, GrownRows, RowsOf, LenProperties DEF GrownBy
      <4>2. i \in 1..Len(threads) \/ i \in Len(threads) + 1..Len(threads')
        BY <4>1
      <4>3. CASE ShownBy(S, threads'[i])
        BY <1>6, <2>4, <3>2, <4>3 DEF ShownBy
      <4>4. CASE i \in DOMAIN threads /\ threads'[i].term = threads[i].term
        <5>1. threads[i].pane = q
          BY <2>4, <3>2, <4>1, <4>4 DEF GrownBy
        <5> QED
          BY <1>6, <2>1, <3>2, <4>4, <5>1
      <4>5. CASE Spawned(threads'[i])
        BY <1>6, <2>1, <3>2, <4>5 DEF Spawned
      <4> QED
        BY <2>4, <4>1, <4>2, <4>3, <4>4, <4>5 DEF GrownBy
    <3> QED
      BY <3>1, <3>2
  <2>5. snap[q].term = w => Sure
    BY <2>1 DEF NoOther
  <2>6. lookup # <<>> => lookup[1] = snap
    BY <1>0 DEF OnTime
  <2>7. CASE PollPublish
    <3>1. wire # <<>> /\ wire[1] \in Look /\ wire = <<wire[1]>> /\ snap' = wire[1] /\ wire' = <<>> /\ Reconcile(threads, wire[1])
          /\ UNCHANGED job
      BY <1>0, <2>7 DEF PollPublish, EngineTypes, OneLook
    <3>2. GrownBy({wire[1]})
      BY <1>0, <3>1, AllCarried, ReconcileGrows
    <3>3. CASE wire[1][q].term = w
      <4>1. NoOther(q, snap)'
        BY <1>6, <3>1, <3>3 DEF NoOther
      <4> QED
        BY <3>1, <4>1
    <3>4. CASE wire[1][q].term # w
      <4>1. (\/ \E i \in DOMAIN threads' : threads'[i].pane = q /\ threads'[i].term = w1
             \/ job'[q].at = "asked" /\ job'[q].term = w1) => Sure
        BY <2>4, <3>2, <3>4
      <4>2. Sure => NoOther(q, wire[1])
        BY <3>1
      <4>3. NoOther(q, wire[1]) => NoOther(q, snap)'
        BY <1>6, <3>1 DEF NoOther
      <4> QED
        BY <1>6, <3>1, <3>4, <4>1, <4>2, <4>3
    <3> QED
      BY <3>3, <3>4
  <2>8. CASE ~PollPublish
    <3>1. GrownBy({snap})
      <4>1. lookup = <<lookup[1]>> => lookup[1] = snap
        BY <2>6
      <4> QED
        BY <1>0, <2>8, <4>1, Grows
    <3>2. (\/ \E i \in DOMAIN threads' : threads'[i].pane = q /\ threads'[i].term = w1
           \/ job'[q].at = "asked" /\ job'[q].term = w1) => Sure
      BY <2>4, <2>5, <3>1
    <3>3. ASSUME NEW lost \in SUBSET Panes, PollRead(lost)
          PROVE  snap' = snap /\ \A s \in Look : wire' = <<s>> => NoOther(q, s)'
      <4>1. snap' = snap /\ wire' = <<[p \in Panes |-> IF p \in lost THEN NoPane ELSE world[p]]>> /\ world' = world
        BY <3>3 DEF PollRead, herd
      <4>2. ASSUME NEW s \in Look, wire' = <<s>>
            PROVE  s[q].term \in {0, world'[q].term}
        <5>1. s = [p \in Panes |-> IF p \in lost THEN NoPane ELSE world[p]]
          BY <4>1, <4>2
        <5> QED
          BY <4>1, <5>1 DEF NoPane
      <4> QED
        BY <4>1, <4>2 DEF NoOther
    <3>4. CASE Restart
      <4>1. snap'[q].term = 0 /\ wire' = <<>>
        BY <3>4 DEF Restart, NoPane
      <4> QED
        BY <4>1 DEF NoOther
    <3>5. ASSUME \/ UNCHANGED engine \/ PollFails \/ \E changed \in BOOLEAN : BranchesResolved(changed)
          PROVE  snap' = snap /\ \A s \in Look : wire' = <<s>> => wire = <<s>>
      BY <3>5 DEF engine, PollFails, BranchesResolved
    <3>6. NoOther(q, snap) /\ snap' = snap => NoOther(q, snap)'
      BY <1>6 DEF NoOther
    <3>7. CASE \E lost \in SUBSET Panes : PollRead(lost)
      BY <3>2, <3>3, <3>6, <3>7
    <3>8. CASE \/ UNCHANGED engine \/ PollFails \/ \E changed \in BOOLEAN : BranchesResolved(changed)
      <4>1. snap' = snap /\ \A s \in Look : wire' = <<s>> => wire = <<s>>
        BY <3>5, <3>8
      <4>2. snap'[q].term = w1 => snap[q].term = w
        BY <1>6, <4>1
      <4>3. Sure => \A s \in Look : wire' = <<s>> => NoOther(q, s)'
        BY <2>2, <4>1
      <4> QED
        BY <2>5, <3>2, <3>6, <4>1, <4>2, <4>3
    <3> QED
      BY <2>8, <3>4, <3>7, <3>8, EngineKept
  <2> QED
    BY <2>7, <2>8
<1> QED
  BY <1>0, <1>5, <1>6, WorldMoves

\* The look invariant holds at first.
LEMMA LookInit ==
    ASSUME Init
    PROVE  LookInv
<1>0. MaxTerms \in Nat /\ NoPane \in Pane /\ NoPane.term = 0
  BY IngestAssumption DEF IngestAssumption, NoPane, Pane
<1>1. PICK old \in {{}, Panes} :
         /\ world = [p \in Panes |-> IF p \in old THEN [NoPane EXCEPT !.term = 1, !.agent = TRUE] ELSE NoPane]
         /\ terms = IF old = {} THEN 0 ELSE 1
  BY DEF Init
<1>2. [NoPane EXCEPT !.term = 1, !.agent = TRUE].term = 1
  BY <1>0 DEF Pane
<1>3. \A p \in Panes : world[p].term <= terms /\ terms \in Nat
  <2>1. CASE old = {}
    BY <1>0, <1>1, <2>1
  <2>2. CASE old # {}
    BY <1>0, <1>1, <1>2, <2>2
  <2> QED
    BY <2>1, <2>2
<1>4. threads = <<>> /\ wire = <<>> /\ lookup = <<>> /\ late = 0 /\ DOMAIN threads = {} /\ terms \in Nat
      /\ (\A p \in Panes : snap[p].term = 0 /\ job[p].term = 0 /\ job[p].at = "none")
  BY <1>0, <1>1 DEF Init, NoJob
<1>5. \A s \in Looks : s = snap
  BY <1>4 DEF Looks
<1>6. AtMost
  BY <1>3, <1>4, <1>5 DEF AtMost
<1>7. Current
  BY <1>4 DEF Current, NoOther
<1> QED
  BY <1>4, <1>6, <1>7 DEF LookInv, OnTime

\* Every step keeps the look invariant when no lookup outlives a poll.
LEMMA LookStep ==
    ASSUME MaxLate = 0, IngestInv, LookInv, [Next]_vars
    PROVE  LookInv'
<1>1. CASE UNCHANGED vars
  <2>1. UNCHANGED <<world, terms, wire, snap, lookup, threads, job, late>>
    BY <1>1 DEF vars, herd, engine, store, memory, hist
  <2>2. Looks' = Looks
    BY <2>1 DEF Looks
  <2>3. AtMost'
    BY <2>1, <2>2 DEF LookInv, AtMost
  <2>4. Current' /\ OnTime'
    BY <2>1 DEF LookInv, Current, NoOther, OnTime
  <2> QED
    BY <2>3, <2>4 DEF LookInv
<1>2. CASE Next
  BY <1>2, AtMostStep, CurrentStep, LateKept DEF LookInv, IngestInv
<1> QED
  BY <1>1, <1>2

\* A thread with a terminal is archived as replaced only when its pane has another terminal.
LEMMA ReplacedStep ==
    ASSUME IngestInv, LookInv, Next, NEW i \in DOMAIN threads, Open(threads[i]), threads[i].term # 0,
           threads'[i].why = "terminal-replaced"
    PROVE  world[threads[i].pane].term # threads[i].term
<1>0. TypesInv /\ NoTwins /\ AskedFresh /\ RowTypes /\ EngineTypes /\ DOMAIN threads = 1..Len(threads)
      /\ threads[i] \in Thread /\ Fits(threads[i]) /\ threads[i].pane \in Panes
  BY RowsOf DEF IngestInv, TypesInv
<1>1. threads[i].why = "none"
  BY <1>0 DEF Fits, Open
<1>2. ~Carried(threads')
  BY <1>0, <1>1 DEF Carried, SameThread
<1>3. ASSUME NEW p \in Panes, NEW t \in 0..MaxTerms, SpawnReply(p, t), SpawnMakes(p, t)
      PROVE  FALSE
  BY <1>0, <1>1, <1>3, MakesGrow
<1>4. ASSUME NEW ts, Carried(ts), NEW s \in Look, Reconcile(ts, s), s = snap \/ wire = <<s>>
      PROVE  world[threads[i].pane].term # threads[i].term
  <2>1. Kept(ts, s, i) /\ SameThread(threads[i], ts[i])
    BY <1>0, <1>4, ReconcileGrows DEF Carried
  <2>2. s[threads[i].pane].term \notin {0, threads[i].term}
    BY <1>1, <2>1 DEF Kept, SameThread
  <2>3. world[threads[i].pane].term = threads[i].term => NoOther(threads[i].pane, s)
    BY <1>0, <1>4 DEF LookInv, Current
  <2> QED
    BY <2>2, <2>3 DEF NoOther
<1>5. PICK ts : Carried(ts) /\ Looking(ts)
  BY <1>0, <1>2, <1>3, Moves
<1>6. CASE Reconcile(ts, snap)
  BY <1>0, <1>4, <1>5, <1>6 DEF EngineTypes
<1>7. CASE Reconcile(ts, wire[1]) /\ PollPublish
  <2>1. wire[1] \in Look /\ wire = <<wire[1]>>
    BY <1>0, <1>7 DEF PollPublish, EngineTypes, OneLook
  <2> QED
    BY <1>4, <1>5, <1>7, <2>1
<1>8. CASE Reconcile(ts, lookup[1]) /\ BranchesResolved(TRUE)
  <2>1. lookup[1] = snap
    BY <1>8 DEF BranchesResolved, LookInv, OnTime
  <2> QED
    BY <1>0, <1>4, <1>5, <1>8, <2>1 DEF EngineTypes
<1> QED
  BY <1>5, <1>6, <1>7, <1>8 DEF Looking

\* When every branch lookup is answered before the next poll is published, an archive for a replaced
\* terminal is right: the pane has another terminal, or none, at the moment of the archive.  A lookup that
\* outlives a poll makes it wrong (bridge/threads/herd-ingest.ts, onUpdate).
THEOREM RightlyReplaced ==
    ASSUME MaxLate = 0
    PROVE  Spec => ReplacedRightly
<1>1. Init => LookInv
  BY LookInit
<1>2. IngestInv /\ LookInv /\ [Next]_vars => LookInv'
  BY LookStep
<1>3. Spec => []LookInv
  BY <1>1, <1>2, IngestInvariance, PTL DEF Spec
<1>4. IngestInv /\ LookInv /\ [Next]_vars
        => [\A i \in DOMAIN threads :
              Open(threads[i]) /\ threads[i].term # 0 /\ threads'[i].why = "terminal-replaced"
                => world[threads[i].pane].term # threads[i].term]_vars
  BY ReplacedStep
<1> QED
  BY <1>3, <1>4, IngestInvariance, PTL DEF Spec, ReplacedRightly
=============================================================================
