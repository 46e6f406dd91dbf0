-------------------------- MODULE ThreadStreamProofs --------------------------
(***************************************************************************)
(* What a page that follows a stream may rely on, for every log, cursor,   *)
(* retention and replay limit: nothing it shows was skipped, in sync means *)
(* caught up, and what it shows never goes back.                           *)
(*                                                                         *)
(* The invariant has six parts.  Types and places say which frames and     *)
(* decodes there can be; bounds, that nothing runs ahead of the log;       *)
(* pending, that a page waits for one decode at most, and for one ahead of *)
(* what it shows; view, that what it shows is the projection at its        *)
(* sequence; flow, that each change the page is without is kept back or    *)
(* under way, before anything later.  View and flow hold until a seen mark *)
(* (seen # 0) is committed between a catch-up and its listener: no frame   *)
(* carries what such a mark committed.                                     *)
(***************************************************************************)
EXTENDS ThreadStream, WellFoundedInduction, SequenceTheorems, TLAPS

-----------------------------------------------------------------------------
(* The invariants. *)

Logged == Classes \cup {"change", "notice"}

TypesInv ==
  /\ TypeOK
  /\ opens \in 1..MaxTroubles + 1 /\ troubles \in 0..MaxTroubles /\ seen \in 0..MaxSeen
  /\ cur <= opens
  /\ \A i \in 1..MaxTroubles + 1 :
        /\ cl[i].gen <= troubles
        /\ ~cl[i].awaiting => cl[i].buffered = <<>>
        /\ i > opens => cl[i] = FreshClosure
  /\ \A k \in DOMAIN decodes : decodes[k].i <= opens /\ decodes[k].gen <= cl[decodes[k].i].gen
  /\ \A k \in DOMAIN wire : wire[k].t = "event" => wire[k].n # 0

\* Where each kind of page may be.
PlacesInv ==
  /\ kind = "shell" => cur = 1 /\ decodes = <<>> /\ \A i \in DOMAIN cl : ~cl[i].awaiting
  /\ source # "live" => wire = <<>> /\ ~served
  /\ cur = 0 => source = "none"
  /\ \A k \in DOMAIN wire : wire[k].t = "snapshot" => k = 1

\* Nothing the page has or waits for is above n.
Within(n) ==
  /\ st.seq <= n /\ cursor <= n
  /\ \A k \in DOMAIN decodes : decodes[k].n <= n
  /\ \A i \in DOMAIN cl : \A j \in DOMAIN cl[i].buffered : cl[i].buffered[j] <= n

BoundsInv ==
  /\ Within(last)
  /\ after <= last /\ lastSent <= last /\ cache.seq <= last
  /\ \A k \in DOMAIN wire : wire[k].n <= last
  /\ \A k \in DOMAIN wire : wire[k].t = "snapshot" => Within(wire[k].n)

Pending(k) == decodes[k].i = cur /\ decodes[k].gen = cl[cur].gen

PendingInv ==
  ~raced =>
    /\ \A j, k \in DOMAIN decodes : Current(decodes[j]) /\ Current(decodes[k]) => j = k
    /\ cur # 0 => (cl[cur].awaiting <=> \E k \in DOMAIN decodes : Pending(k))
    /\ \A k \in DOMAIN decodes : cur # 0 /\ Pending(k) => st.seq <= decodes[k].n

Change(c) == c \in 1..last /\ log[c] = "change"

Clear(a, b) == \A c \in 1..last : log[c] = "change" /\ c <= b => c <= a

Base(b) ==
  \/ ~cl[cur].awaiting /\ b = st.seq
  \/ cl[cur].awaiting /\ \E k \in DOMAIN decodes : Pending(k) /\ b = decodes[k].n

Buffered(c, k) == \E j \in 1..k : cl[cur].buffered[j] = c

Got(b, c) == c <= b \/ Buffered(c, Len(cl[cur].buffered))

Shipped(c, k) ==
  \E j \in 1..k : \/ wire[j].t = "event" /\ wire[j].n = c
                  \/ wire[j].t = "snapshot" /\ c <= wire[j].n

ViewInv ==
  ~bad /\ ~raced =>
    /\ st.view = Mirrored(st.seq)
    /\ cache.view = Mirrored(cache.seq)
    /\ kind = "shell" => st.seq <= cursor /\ Clear(st.seq, cursor)
    /\ source = "asked" => Clear(st.seq, after)

FlowInv ==
  ~bad /\ ~raced /\ cur # 0 => \A b \in 0..last : Base(b) =>
    /\ \A k \in DOMAIN cl[cur].buffered :
          \A c \in 1..last : log[c] = "change" /\ c <= cl[cur].buffered[k]
             => c <= b \/ Buffered(c, k)
    /\ \A k \in DOMAIN wire : wire[k].t # "reset" =>
          \A c \in 1..last : log[c] = "change" /\ c <= wire[k].n
             => Got(b, c) \/ Shipped(c, k)
    /\ served => \A c \in 1..last : log[c] = "change" => Got(b, c) \/ Shipped(c, Len(wire))

StreamInv == TypesInv /\ PlacesInv /\ BoundsInv /\ PendingInv /\ ViewInv /\ FlowInv

-----------------------------------------------------------------------------
(* What the functions of the model compute. *)

\* Every set of naturals that has a member has a least one.
LEMMA Least ==
  ASSUME NEW T, T \subseteq Nat, T # {}
  PROVE  \E x \in T : \A y \in T : x <= y
<1>1. PICK R : R = OpToRel(<, Nat)
  OBVIOUS
<1>2. \A x \in Nat : \A y \in Nat : y < x => <<y, x>> \in R
  BY <1>1 DEF OpToRel
<1>3. IsWellFoundedOn(R, Nat)
  BY <1>1, NatLessThanWellFounded
<1>4. PICK x \in T : \A y \in T : ~(<<y, x>> \in R)
  BY <1>3, WFMin
<1>5. \A y \in T : ~(y < x)
  BY <1>2, <1>4
<1> QED
  BY <1>5

\* Induction up to n, for a set: a set with 0 in it, and with k if k - 1 is in it, has all
\* of 0..n in it.
LEMMA UpTo ==
  ASSUME NEW n \in Nat, NEW S, 0 \in S, \A k \in 1..n : k - 1 \in S => k \in S
  PROVE  \A k \in 0..n : k \in S
<1> SUFFICES ASSUME NEW k \in 0..n, k \notin S PROVE FALSE
  OBVIOUS
<1>1. PICK x \in (0..n) \ S : \A y \in (0..n) \ S : x <= y
  <2> (0..n) \ S \subseteq Nat /\ (0..n) \ S # {}
    OBVIOUS
  <2> QED
    BY Least
<1>2. x - 1 \in S
  BY <1>1
<1> QED
  BY <1>1, <1>2

\* The functions that begin with s and go on with g.
Walks(n, X, s, g) ==
  {f \in [0..n -> X] : f[0] = s /\ \A k \in 1..n : f[k] = g[k][f[k - 1]]}

\* A function may be defined by what comes first and how each value follows from the last.
LEMMA StepByStep ==
  ASSUME NEW n \in Nat, NEW X, NEW s \in X, NEW g \in [1..n -> [X -> X]]
  PROVE  Walks(n, X, s, g) # {}
<1> DEFINE Part(m, f) == /\ f \in [0..m -> X] /\ f[0] = s
                         /\ \A k \in 1..m : f[k] = g[k][f[k - 1]]
<1>1. PICK S : S = {m \in 0..n : \E f : Part(m, f)}
  OBVIOUS
<1>2. 0 \in S
  <2>1. PICK f : f = [k \in 0..0 |-> s]
    OBVIOUS
  <2>2. f \in [0..0 -> X] /\ f[0] = s
    BY <2>1
  <2> QED
    BY <2>2, <1>1
<1>3. ASSUME NEW m \in 1..n, m - 1 \in S
      PROVE  m \in S
  <2>1. PICK f : Part(m - 1, f)
    BY <1>3, <1>1
  <2>2. PICK h : h = [k \in 0..m |-> IF k = m THEN g[m][f[m - 1]] ELSE f[k]]
    OBVIOUS
  <2>3. f[m - 1] \in X /\ g[m][f[m - 1]] \in X
    BY <2>1
  <2>4. h \in [0..m -> X] /\ h[0] = s
    BY <2>1, <2>2, <2>3
  <2>5. ASSUME NEW k \in 1..m PROVE h[k] = g[k][h[k - 1]]
    <3>1. CASE k = m
      BY <2>2, <3>1
    <3>2. CASE k # m
      <4>1. k \in 1..(m - 1) /\ h[k] = f[k] /\ h[k - 1] = f[k - 1]
        BY <2>2, <3>2
      <4> QED
        BY <2>1, <4>1
    <3> QED
      BY <3>1, <3>2
  <2> QED
    BY <2>4, <2>5, <1>1
<1>4. n \in S
  <2>1. \A m \in 1..n : m - 1 \in S => m \in S
    BY <1>3
  <2>2. \A m \in 0..n : m \in S
    BY <1>2, <2>1, UpTo, Zenon
  <2> QED
    BY <2>2
<1>5. PICK f : Part(n, f)
  BY <1>4, <1>1
<1> QED
  BY <1>5 DEF Walks

\* What ApplyAll comes to: a function with its first value and its steps.
LEMMA AppliedInTurn ==
  ASSUME NEW s \in State, NEW q \in Seq(1..MaxSeq)
  PROVE  \E f \in [0..Len(q) -> State] :
            /\ f[0] = s /\ \A k \in 1..Len(q) : f[k] = ApplyEvent(f[k - 1], q[k])
            /\ ApplyAll(s, q) = f[Len(q)]
<1> DEFINE n == Len(q)
<1> n \in Nat /\ MaxSeq \in Nat
  BY StreamAssumption
<1>1. ASSUME NEW x \in State, NEW i \in 1..MaxSeq
      PROVE  ApplyEvent(x, i) \in State
  BY <1>1 DEF ApplyEvent, State
<1>2. PICK g : g = [k \in 1..n |-> [x \in State |-> ApplyEvent(x, q[k])]]
  OBVIOUS
<1>3. \A k \in 1..n : q[k] \in 1..MaxSeq
  OBVIOUS
<1>4. g \in [1..n -> [State -> State]]
  BY <1>1, <1>2, <1>3
<1>5. \A k \in 1..n : \A x \in State : g[k][x] = ApplyEvent(x, q[k])
  BY <1>2
<1>6. PICK f \in [0..n -> State] : f[0] = s /\ \A k \in 1..n : f[k] = g[k][f[k - 1]]
  <2>1. Walks(n, State, s, g) # {}
    <3> HIDE DEF n
    <3> QED
      BY <1>4, StepByStep
  <2> QED
    BY <2>1 DEF Walks
<1>7. \A k \in 1..n : f[k] = ApplyEvent(f[k - 1], q[k])
  <2> SUFFICES ASSUME NEW k \in 1..n PROVE f[k] = ApplyEvent(f[k - 1], q[k])
    OBVIOUS
  <2> f[k - 1] \in State
    BY <1>6
  <2> QED
    BY <1>5, <1>6
<1> DEFINE Def(h) == [k \in 0..n |-> IF k = 0 THEN s ELSE ApplyEvent(h[k - 1], q[k])]
<1>8. f = Def(f)
  BY <1>6, <1>7
<1> DEFINE c == CHOOSE h : h = Def(h)
<1>9. c = Def(c)
  <2> HIDE DEF Def
  <2> QED
    BY <1>8
<1>10. ApplyAll(s, q) = c[n]
  BY Zenon DEF ApplyAll
<1> HIDE DEF c
<1>11. c[0] = s
  BY <1>9
<1>12. ASSUME NEW k \in 1..n PROVE c[k] = ApplyEvent(c[k - 1], q[k])
  <2> k \in 0..n /\ k # 0
    OBVIOUS
  <2> QED
    BY <1>9
<1>13. PICK S : S = {k \in 0..n : c[k] \in State}
  OBVIOUS
<1>14. 0 \in S
  BY <1>11, <1>13
<1>15. ASSUME NEW k \in 1..n, k - 1 \in S PROVE k \in S
  <2>1. c[k - 1] \in State /\ q[k] \in 1..MaxSeq
    BY <1>13, <1>15, <1>3
  <2>2. ApplyEvent(c[k - 1], q[k]) \in State
    BY <2>1, <1>1
  <2> QED
    BY <2>2, <1>12, <1>13
<1>16. \A k \in 0..n : k \in S
  <2>1. \A k \in 1..n : k - 1 \in S => k \in S
    BY <1>15
  <2> HIDE DEF n
  <2> QED
    BY <1>14, <2>1, UpTo, Zenon
<1>17. c \in [0..n -> State]
  <2>1. \A k \in 0..n : c[k] \in State
    BY <1>16, <1>13
  <2>2. c = [k \in 0..n |-> c[k]]
    BY <1>9
  <2> QED
    BY <2>1, <2>2
<1> QED
  BY <1>10, <1>11, <1>12, <1>17

\* What a fold of events does to a state: it moves up to one of them, it takes in every
\* change among them that is not below it, and if they leave no gap what is shown stays
\* the projection.
LEMMA Folded ==
  ASSUME NEW s \in State, NEW q \in Seq(1..MaxSeq), NEW r, r = ApplyAll(s, q)
  PROVE  /\ r \in State /\ r.syncing = s.syncing /\ s.seq <= r.seq
         /\ r.seq = s.seq \/ \E j \in 1..Len(q) : r.seq = q[j]
         /\ \A j \in 1..Len(q) : log[q[j]] = "change" => q[j] <= r.seq
         /\ (/\ s.view = Mirrored(s.seq)
             /\ \A k \in 1..Len(q) : \A c \in 1..q[k] :
                   log[c] = "change" => c <= s.seq \/ \E j \in 1..k : q[j] = c)
            => r.view = Mirrored(r.seq)
<1> MaxSeq \in Nat
  BY StreamAssumption
<1> DEFINE n == Len(q)
<1> n \in Nat
  OBVIOUS
<1>1. PICK f \in [0..n -> State] :
         /\ f[0] = s /\ \A k \in 1..n : f[k] = ApplyEvent(f[k - 1], q[k])
         /\ r = f[n]
  BY AppliedInTurn
<1> \A k \in 1..n : q[k] \in 1..MaxSeq
  OBVIOUS
<1> HIDE DEF n
<1>2. ASSUME NEW k \in 1..n
      PROVE  /\ k - 1 \in 0..n /\ k \in 0..n
             /\ f[k - 1].seq \in Nat /\ f[k].seq \in Nat
             /\ f[k - 1].seq <= f[k].seq /\ f[k].syncing = f[k - 1].syncing
             /\ \/ f[k].seq = f[k - 1].seq /\ f[k].view = f[k - 1].view
                \/ /\ f[k].seq = q[k] /\ log[q[k]] = "change" /\ q[k] > f[k - 1].seq
                   /\ f[k].view = f[k - 1].view \cup {q[k]}
             /\ log[q[k]] = "change" => q[k] <= f[k].seq
  <2> k - 1 \in 0..n /\ k \in 0..n
    OBVIOUS
  <2> f[k - 1] \in State /\ f[k] \in State
    BY <1>1
  <2>1. f[k - 1].seq \in Nat /\ f[k].seq \in Nat /\ q[k] \in Nat
    BY DEF State
  <2>2. CASE q[k] > f[k - 1].seq /\ log[q[k]] = "change"
    <3>1. f[k] = [seq |-> q[k], view |-> f[k - 1].view \cup {q[k]}, syncing |-> f[k - 1].syncing]
      BY <1>1, <2>2 DEF ApplyEvent
    <3>2. f[k].seq = q[k] /\ f[k].view = f[k - 1].view \cup {q[k]} /\ f[k].syncing = f[k - 1].syncing
      BY <3>1
    <3> QED
      BY <3>2, <2>1, <2>2
  <2>3. CASE ~(q[k] > f[k - 1].seq /\ log[q[k]] = "change")
    <3>1. f[k] = f[k - 1]
      BY <1>1, <2>3 DEF ApplyEvent
    <3> QED
      BY <3>1, <2>1, <2>3
  <2> QED
    BY <2>2, <2>3
<1>3. PICK S : S = {k \in 0..n : /\ s.seq <= f[k].seq /\ f[k].syncing = s.syncing
                                 /\ f[k].seq = s.seq \/ \E j \in 1..k : f[k].seq = q[j]
                                 /\ \A j \in 1..k : log[q[j]] = "change" => q[j] <= f[k].seq}
  OBVIOUS
<1>4. 0 \in S
  BY <1>1, <1>3 DEF State
<1>5. ASSUME NEW k \in 1..n, k - 1 \in S PROVE k \in S
  <2>1. s.seq <= f[k].seq /\ f[k].syncing = s.syncing
    <3>1. s.seq <= f[k - 1].seq /\ f[k - 1].syncing = s.syncing
      BY <1>3, <1>5
    <3>2. s.seq \in Nat
      BY DEF State
    <3>3. f[k - 1].seq \in Nat /\ f[k].seq \in Nat
      BY <1>2
    <3>4. f[k - 1].seq <= f[k].seq /\ f[k].syncing = f[k - 1].syncing
      BY <1>2
    <3> QED
      BY <3>1, <3>2, <3>3, <3>4
  <2>2. f[k].seq = s.seq \/ \E j \in 1..k : f[k].seq = q[j]
    <3>1. f[k - 1].seq = s.seq \/ \E j \in 1..k - 1 : f[k - 1].seq = q[j]
      BY <1>3, <1>5
    <3>2. f[k].seq = f[k - 1].seq \/ f[k].seq = q[k]
      BY <1>2
    <3>3. 1..k - 1 \subseteq 1..k /\ k \in 1..k
      OBVIOUS
    <3> QED
      BY <3>1, <3>2, <3>3
  <2>3. ASSUME NEW j \in 1..k, log[q[j]] = "change" PROVE q[j] <= f[k].seq
    <3>1. CASE j = k
      BY <1>2, <2>3, <3>1
    <3>2. CASE j # k
      <4>1. j \in 1..k - 1 /\ k - 1 \in S /\ q[j] \in Nat
        BY <1>5, <3>2
      <4>2. q[j] <= f[k - 1].seq
        BY <1>3, <2>3, <4>1
      <4>3. f[k - 1].seq \in Nat /\ f[k].seq \in Nat /\ f[k - 1].seq <= f[k].seq
        BY <1>2
      <4> QED
        BY <4>1, <4>2, <4>3
    <3> QED
      BY <3>1, <3>2
  <2> QED
    BY <2>1, <2>2, <2>3, <1>3
<1>6. n \in S
  <2>1. \A k \in 1..n : k - 1 \in S => k \in S
    BY <1>5
  <2>2. \A k \in 0..n : k \in S
    BY <1>4, <2>1, UpTo, Zenon
  <2> QED
    BY <2>2
<1>7. ASSUME s.view = Mirrored(s.seq),
             \A k \in 1..n : \A c \in 1..q[k] :
                log[c] = "change" => c <= s.seq \/ \E j \in 1..k : q[j] = c
      PROVE  r.view = Mirrored(r.seq)
  <2>1. PICK V : V = {k \in 0..n : k \in S /\ f[k].view = Mirrored(f[k].seq)}
    OBVIOUS
  <2>2. 0 \in V
    BY <1>1, <1>4, <1>7, <2>1
  <2>3. ASSUME NEW k \in 1..n, k - 1 \in V PROVE k \in V
    <3>1. k \in S /\ k - 1 \in S
      BY <1>5, <2>1, <2>3
    <3>2. CASE f[k].seq = f[k - 1].seq /\ f[k].view = f[k - 1].view
      BY <2>1, <2>3, <3>1, <3>2
    <3>3. CASE /\ f[k].seq = q[k] /\ log[q[k]] = "change" /\ q[k] > f[k - 1].seq
               /\ f[k].view = f[k - 1].view \cup {q[k]}
      <4>1. f[k - 1].view = Mirrored(f[k - 1].seq)
        BY <2>1, <2>3
      <4>2. ASSUME NEW c \in 1..q[k], log[c] = "change", c # q[k]
            PROVE  c <= f[k - 1].seq
        <5>1. c <= s.seq \/ \E j \in 1..k : q[j] = c
          BY <1>7, <4>2
        <5>2. CASE c <= s.seq
          BY <3>1, <5>2, <1>2, <1>3 DEF State
        <5>3. ASSUME NEW j \in 1..k, q[j] = c PROVE c <= f[k - 1].seq
          <6>1. j \in 1..k - 1 /\ log[q[j]] = "change"
            BY <4>2, <5>3
          <6>2. \A i \in 1..k - 1 : log[q[i]] = "change" => q[i] <= f[k - 1].seq
            BY <3>1, <1>3
          <6> QED
            BY <6>1, <6>2, <5>3
        <5> QED
          BY <5>1, <5>2, <5>3
      <4>3. Mirrored(q[k]) = Mirrored(f[k - 1].seq) \cup {q[k]}
        BY <4>2, <3>3, <1>2 DEF Mirrored
      <4> QED
        <5>1. f[k].view = Mirrored(f[k].seq)
          BY <4>1, <4>3, <3>3, Zenon
        <5> QED
          BY <5>1, <3>1, <2>1, <1>2
    <3> QED
      BY <3>2, <3>3, <1>2
  <2>4. n \in V
    <3>1. \A k \in 1..n : k - 1 \in V => k \in V
      BY <2>3
    <3>2. \A k \in 0..n : k \in V
      BY <2>2, <3>1, UpTo, Zenon
    <3> QED
      BY <3>2
  <2> QED
    BY <2>1, <2>4, <1>1
<1>8. r \in State
  BY <1>1
<1>9. /\ r.syncing = s.syncing /\ s.seq <= r.seq
      /\ r.seq = s.seq \/ \E j \in 1..n : r.seq = q[j]
      /\ \A j \in 1..n : log[q[j]] = "change" => q[j] <= r.seq
  BY <1>6, <1>3, <1>1
<1> QED
  BY <1>7, <1>8, <1>9 DEF n

\* The log's events above n that the stream carries, those up to k.
Kept(n, k) == {c \in 1..k : c > n /\ log[c] # "other" /\ c >= minSeq}

\* A list of all of them, in order.
Listed(e, n, k) ==
  /\ e \in Seq(Kept(n, k))
  /\ \A i, j \in 1..Len(e) : i < j => e[i] < e[j]
  /\ \A c \in Kept(n, k) : \E j \in 1..Len(e) : e[j] = c

\* EventsAfter finds all of them, in order.
LEMMA AfterInOrder ==
  ASSUME last \in Nat, minSeq \in Nat, NEW n \in Nat, NEW e, e = EventsAfter(n)
  PROVE  Listed(e, n, last)
<1>1. PICK m : m = last
  OBVIOUS
<1> m \in Nat
  BY <1>1
<1>2. PICK X : X = Seq(1..m)
  OBVIOUS
<1> DEFINE Next1(k, x) == IF k > n /\ log[k] # "other" /\ k >= minSeq THEN Append(x, k) ELSE x
<1>3. ASSUME NEW x \in X, NEW k \in 1..m PROVE Next1(k, x) \in X
  <2>1. x \in Seq(1..m) /\ Append(x, k) \in Seq(1..m)
    BY <1>2
  <2>2. x \in X /\ Append(x, k) \in X
    BY <2>1, <1>2
  <2> QED
    BY <2>2
<1>4. PICK g : g = [k \in 1..m |-> [x \in X |-> Next1(k, x)]]
  OBVIOUS
<1>5. g \in [1..m -> [X -> X]]
  BY <1>3, <1>4
<1>6. \A k \in 1..m : \A x \in X : g[k][x] = Next1(k, x)
  BY <1>4
<1>7. <<>> \in X
  BY <1>2
<1> HIDE DEF Next1
<1>8. PICK f \in [0..m -> X] : f[0] = <<>> /\ \A k \in 1..m : f[k] = g[k][f[k - 1]]
  <2>1. Walks(m, X, <<>>, g) # {}
    BY <1>5, <1>7, StepByStep
  <2> QED
    BY <2>1 DEF Walks
<1>9. \A k \in 1..m : f[k] = Next1(k, f[k - 1])
  <2> SUFFICES ASSUME NEW k \in 1..m PROVE f[k] = Next1(k, f[k - 1])
    OBVIOUS
  <2> f[k - 1] \in X
    BY <1>8
  <2> QED
    BY <1>6, <1>8
<1> DEFINE Def(h) == [k \in 0..m |-> IF k = 0 THEN <<>> ELSE Next1(k, h[k - 1])]
<1>10. f = Def(f)
  BY <1>8, <1>9
<1> DEFINE c == CHOOSE h : h = Def(h)
<1>11. c = Def(c)
  <2> HIDE DEF Def
  <2> QED
    BY <1>10
<1>12. e = c[m]
  <2>1. e = (CHOOSE h : h = [k \in 0..last |-> IF k = 0 THEN <<>> ELSE
               IF k > n /\ log[k] # "other" /\ k >= minSeq THEN Append(h[k - 1], k) ELSE h[k - 1]])[last]
    BY Zenon DEF EventsAfter
  <2> QED
    BY <1>1, <2>1, Zenon DEF Next1
<1> HIDE DEF c
<1>13. c[0] = <<>>
  BY <1>11
<1>14. ASSUME NEW k \in 1..m PROVE c[k] = Next1(k, c[k - 1])
  <2> k \in 0..m /\ k # 0
    OBVIOUS
  <2> QED
    BY <1>11
<1>15. Listed(<<>>, n, 0)
  <2> Kept(n, 0) = {}
    BY DEF Kept
  <2> QED
    BY DEF Listed
<1>16. ASSUME NEW k \in 1..m, NEW q, Listed(q, n, k - 1) PROVE Listed(Next1(k, q), n, k)
  <2>1. CASE k > n /\ log[k] # "other" /\ k >= minSeq
    <3>1. Next1(k, q) = Append(q, k)
      BY <2>1 DEF Next1
    <3>2. Kept(n, k) = Kept(n, k - 1) \cup {k}
      BY <2>1 DEF Kept
    <3>3. \A x \in Kept(n, k - 1) : x \in Nat /\ x < k
      BY DEF Kept
    <3>4. PICK A : A = Kept(n, k - 1)
      OBVIOUS
    <3>5. q \in Seq(A) /\ \A j \in 1..Len(q) : q[j] \in Nat /\ q[j] < k
      BY <1>16, <3>3, <3>4 DEF Listed
    <3>6. PICK p : p = Append(q, k)
      OBVIOUS
    <3>7. /\ Len(p) = Len(q) + 1 /\ Len(q) \in Nat /\ p[Len(q) + 1] = k
          /\ \A j \in 1..Len(q) : p[j] = q[j]
          /\ p \in Seq(A \cup {k})
      BY <3>5, <3>6
    <3>8. p \in Seq(Kept(n, k))
      BY <3>7, <3>4, <3>2
    <3>9. \A i, j \in 1..Len(p) : i < j => p[i] < p[j]
      <4> SUFFICES ASSUME NEW i \in 1..Len(p), NEW j \in 1..Len(p), i < j PROVE p[i] < p[j]
        OBVIOUS
      <4>1. i \in 1..Len(q) /\ p[i] = q[i]
        BY <3>7
      <4>2. CASE j = Len(q) + 1
        BY <4>1, <4>2, <3>7, <3>5
      <4>3. CASE j \in 1..Len(q)
        BY <4>1, <4>3, <3>7, <1>16 DEF Listed
      <4> QED
        BY <4>2, <4>3, <3>7
    <3>10. ASSUME NEW x \in Kept(n, k) PROVE \E j \in 1..Len(p) : p[j] = x
      <4>1. CASE x = k
        BY <4>1, <3>7
      <4>2. CASE x \in Kept(n, k - 1)
        <5>1. PICK j \in 1..Len(q) : q[j] = x
          BY <4>2, <1>16 DEF Listed
        <5> QED
          BY <5>1, <3>7
      <4> QED
        BY <4>1, <4>2, <3>2
    <3> QED
      BY <3>1, <3>6, <3>8, <3>9, <3>10 DEF Listed
  <2>2. CASE ~(k > n /\ log[k] # "other" /\ k >= minSeq)
    <3>1. Next1(k, q) = q
      BY <2>2 DEF Next1
    <3>2. Kept(n, k) = Kept(n, k - 1)
      BY <2>2 DEF Kept
    <3> QED
      BY <3>1, <3>2, <1>16 DEF Listed
  <2> QED
    BY <2>1, <2>2
<1>17. PICK S : S = {k \in 0..m : Listed(c[k], n, k)}
  OBVIOUS
<1>18. 0 \in S
  BY <1>13, <1>15, <1>17
<1>19. ASSUME NEW k \in 1..m, k - 1 \in S PROVE k \in S
  BY <1>14, <1>16, <1>17, <1>19
<1>20. m \in S
  <2>1. \A k \in 1..m : k - 1 \in S => k \in S
    BY <1>19
  <2>2. \A k \in 0..m : k \in S
    BY <1>18, <2>1, UpTo, Zenon
  <2> QED
    BY <2>2
<1>21. Listed(e, n, m)
  BY <1>20, <1>17, <1>12
<1> QED
  BY <1>21, <1>1

-----------------------------------------------------------------------------
(* Types, and what each operation does to them. *)

BridgeTypes ==
  /\ log \in Seq(Logged) /\ Len(log) <= MaxSeq
  /\ minSeq \in 0..MaxSeq + 1 /\ exists \in BOOLEAN /\ served \in BOOLEAN
  /\ lastSent \in 0..MaxSeq /\ hwm \in Nat /\ wire \in Seq(Frame)
  /\ served => Len(wire) <= hwm

LinkTypes ==
  /\ kind \in Kinds
  /\ source \in {"none", "asked", "live"} /\ after \in 0..MaxSeq /\ retry \in BOOLEAN

PageTypes ==
  /\ st \in State /\ cursor \in 0..MaxSeq /\ cache \in State
  /\ cur \in 0..MaxTroubles + 1 /\ cl \in [1..MaxTroubles + 1 -> Closure]
  /\ decodes \in Seq(Decode)
  /\ bad \in BOOLEAN /\ raced \in BOOLEAN

\* What opens and generations are bounded by.
CountTypes ==
  /\ opens \in 1..MaxTroubles + 1 /\ troubles \in 0..MaxTroubles /\ seen \in 0..MaxSeen
  /\ cur <= opens
  /\ \A i \in 1..MaxTroubles + 1 :
        /\ cl[i].gen <= troubles
        /\ ~cl[i].awaiting => cl[i].buffered = <<>>
        /\ i > opens => cl[i] = FreshClosure
  /\ \A k \in DOMAIN decodes : decodes[k].i <= opens /\ decodes[k].gen <= cl[decodes[k].i].gen
  /\ \A k \in DOMAIN wire : wire[k].t = "event" => wire[k].n # 0

LEMMA TypesAre == TypesInv <=> BridgeTypes /\ LinkTypes /\ PageTypes /\ CountTypes
BY DEF TypesInv, TypeOK, BridgeTypes, LinkTypes, PageTypes, CountTypes, Logged

\* What a commit adds to the wire of a stream that is served.
Wrote(c) ==
  \/ UNCHANGED <<wire, served, lastSent>> /\ (served => c = "other" \/ last + 1 <= lastSent)
  \/ /\ served /\ wire' \in Seq(Frame)
     /\ Len(wire') >= Len(wire) + 1
     /\ \A k \in 1..Len(wire) : wire'[k] = wire[k]
     /\ wire'[Len(wire) + 1] = [t |-> "event", n |-> last + 1]
     /\ \A k \in 1..Len(wire') : k > Len(wire) + 1 => wire'[k] = [t |-> "reset", n |-> lastSent]
     /\ lastSent' \in {lastSent, last + 1} /\ served' \in BOOLEAN
     /\ served' => Len(wire') <= hwm

LEMMA Written ==
  ASSUME BridgeTypes, NEW c \in Logged, Append1(c), MaxSeq \in Nat
  PROVE  /\ log' \in Seq(Logged) /\ last' = last + 1 /\ last + 1 \in 1..MaxSeq
         /\ log'[last + 1] = c /\ \A k \in 1..last : log'[k] = log[k]
         /\ Wrote(c)
<1>1. /\ log' \in Seq(Logged) /\ last' = last + 1 /\ last + 1 \in 1..MaxSeq
      /\ log'[last + 1] = c /\ \A k \in 1..last : log'[k] = log[k]
  BY DEF Append1, BridgeTypes, last
<1>2. ASSUME ~(served /\ c # "other" /\ last + 1 > lastSent) PROVE Wrote(c)
  <2>1. UNCHANGED <<wire, served, lastSent>>
    BY <1>2 DEF Append1
  <2>2. served => c = "other" \/ last + 1 <= lastSent
    BY <1>2, <1>1 DEF BridgeTypes
  <2> QED
    BY <2>1, <2>2 DEF Wrote
<1>3. ASSUME served, c # "other", last + 1 > lastSent PROVE Wrote(c)
  <2>1. PICK f : f = [t |-> "event", n |-> last + 1]
    OBVIOUS
  <2>2. PICK r : r = [t |-> "reset", n |-> lastSent]
    OBVIOUS
  <2>3. f \in Frame /\ r \in Frame /\ f.n = last + 1
    BY <1>1, <2>1, <2>2 DEF BridgeTypes, Frame
  <2>4. Write(f)
    BY <1>3, <2>1 DEF Append1
  <2>5. PICK w : w = Append(wire, f)
    OBVIOUS
  <2>6. /\ w \in Seq(Frame) /\ Len(w) = Len(wire) + 1 /\ w[Len(wire) + 1] = f /\ Len(wire) \in Nat
        /\ \A k \in 1..Len(wire) : w[k] = wire[k]
    BY <2>3, <2>5 DEF BridgeTypes
  <2>7. CASE Len(w) > hwm
    <3>1. wire' = Append(w, r) /\ served' = FALSE /\ lastSent' = lastSent
      BY <2>4, <2>5, <2>7, <2>2 DEF Write
    <3>2. /\ wire' \in Seq(Frame) /\ Len(wire') = Len(wire) + 2
          /\ wire'[Len(wire) + 2] = r
          /\ \A k \in 1..Len(wire) + 1 : wire'[k] = w[k]
      BY <3>1, <2>6, <2>3
    <3>3. \A k \in 1..Len(wire) : wire'[k] = wire[k]
      BY <2>6, <3>2
    <3>4. wire'[Len(wire) + 1] = f
      BY <2>6, <3>2
    <3>5. \A k \in 1..Len(wire') : k > Len(wire) + 1 => wire'[k] = r
      BY <2>6, <3>2
    <3>6. Len(wire') >= Len(wire) + 1
      BY <2>6, <3>2
    <3>7. lastSent' \in {lastSent, last + 1} /\ served' \in BOOLEAN /\ ~served'
      BY <3>1
    <3> QED
      BY <1>3, <2>1, <2>2, <3>2, <3>3, <3>4, <3>5, <3>6, <3>7 DEF Wrote
  <2>8. CASE ~(Len(w) > hwm)
    <3>1. wire' = w /\ lastSent' = last + 1 /\ served' = served
      BY <2>4, <2>5, <2>8, <2>3 DEF Write
    <3>2. \A k \in 1..Len(wire') : ~(k > Len(wire) + 1)
      BY <2>6, <3>1
    <3>3. Len(wire') >= Len(wire) + 1 /\ served' \in BOOLEAN /\ Len(wire') <= hwm
      BY <2>6, <2>8, <3>1 DEF BridgeTypes
    <3> QED
      BY <1>3, <2>1, <2>6, <3>1, <3>2, <3>3 DEF Wrote
  <2> QED
    BY <2>7, <2>8
<1> QED
  BY <1>1, <1>2, <1>3

\* What the route sends first: it is in order, and covers every change above the cursor.
Catching(w) ==
  /\ w \in Seq(Frame)
  /\ \A k \in 1..Len(w) : w[k].n <= last
  /\ \/ Len(w) = 1 /\ w[1] = [t |-> "snapshot", n |-> last]
     \/ /\ after <= last
        /\ \A k \in 1..Len(w) : w[k].t = "event" /\ w[k].n > after
        /\ \A i, j \in 1..Len(w) : i < j => w[i].n < w[j].n
        /\ \A c \in 1..last : c > after /\ log[c] = "change"
              => \E j \in 1..Len(w) : w[j].n = c

LEMMA Caught ==
  ASSUME BridgeTypes, LinkTypes, MaxSeq \in Nat, NEW w, w = CatchUp
  PROVE  Catching(w)
<1> last \in Nat /\ last <= MaxSeq /\ minSeq \in Nat /\ after \in Nat
  BY DEF BridgeTypes, LinkTypes, last
<1>1. CASE ~Replayable
  <2>1. w = <<[t |-> "snapshot", n |-> last]>>
    BY <1>1 DEF CatchUp
  <2>2. [t |-> "snapshot", n |-> last] \in Frame
    BY DEF Frame
  <2>3. Len(w) = 1 /\ w[1] = [t |-> "snapshot", n |-> last]
    BY <2>1
  <2>4. w \in Seq(Frame) /\ \A k \in 1..Len(w) : w[k].n <= last
    BY <2>1, <2>2
  <2> QED
    BY <2>3, <2>4 DEF Catching
<1>2. CASE Replayable
  <2>1. PICK e : e = EventsAfter(after)
    OBVIOUS
  <2>2. w = [k \in 1..Len(e) |-> [t |-> "event", n |-> e[k]]]
    BY <1>2, <2>1 DEF CatchUp
  <2>3. /\ e \in Seq(Kept(after, last))
        /\ \A i, j \in 1..Len(e) : i < j => e[i] < e[j]
        /\ \A c \in Kept(after, last) : \E j \in 1..Len(e) : e[j] = c
    <3>1. Listed(e, after, last)
      BY <2>1, AfterInOrder
    <3> QED
      BY <3>1 DEF Listed
  <2>4. Len(e) \in Nat /\ \A k \in 1..Len(e) : e[k] \in 1..last /\ e[k] > after
    BY <2>3 DEF Kept
  <2>5. \A k \in 1..Len(e) : w[k] = [t |-> "event", n |-> e[k]] /\ w[k] \in Frame
    BY <2>2, <2>4 DEF Frame
  <2>6. w \in Seq(Frame) /\ Len(w) = Len(e)
    BY <2>2, <2>4, <2>5
  <2>7. after <= last /\ after >= minSeq
    BY <1>2 DEF Replayable
  <2>8. \A c \in 1..last : c > after /\ log[c] = "change" => c \in Kept(after, last)
    BY <2>7 DEF Kept
  <2>9. ASSUME NEW k \in 1..Len(w) PROVE w[k].t = "event" /\ w[k].n = e[k]
    <3>1. w[k] = [t |-> "event", n |-> e[k]]
      BY <2>5, <2>6
    <3> QED
      BY <3>1
  <2>10. \A k \in 1..Len(w) : w[k].n <= last /\ w[k].n > after
    BY <2>4, <2>6, <2>9
  <2>11. \A i, j \in 1..Len(w) : i < j => w[i].n < w[j].n
    BY <2>3, <2>6, <2>9
  <2>12. ASSUME NEW c \in 1..last, c > after, log[c] = "change"
         PROVE  \E j \in 1..Len(w) : w[j].n = c
    <3>1. PICK j \in 1..Len(e) : e[j] = c
      BY <2>3, <2>8, <2>12
    <3> QED
      BY <3>1, <2>6, <2>9
  <2> QED
    BY <2>6, <2>7, <2>9, <2>10, <2>11, <2>12 DEF Catching
<1> QED
  BY <1>1, <1>2

\* A snapshot or a replay, and then word that it is complete.
LEMMA ServedIs ==
  ASSUME BridgeTypes, LinkTypes, MaxSeq \in Nat, MaxBehind \in Nat \ {0},
         NEW marked \in BOOLEAN, Serve(marked), NEW w, w = CatchUp
  PROVE  /\ log' \in Seq(Logged) /\ last' \in {last, last + 1} /\ last' <= MaxSeq
         /\ ~marked => log' = log
         /\ \A k \in 1..last : log'[k] = log[k]
         /\ wire' \in Seq(Frame) /\ Len(wire') = Len(w) + 1 /\ Len(wire') <= hwm'
         /\ hwm' \in Nat
         /\ \A k \in 1..Len(w) : wire'[k] = w[k]
         /\ wire'[Len(w) + 1] = [t |-> "synchronized", n |-> last]
<1>1. w \in Seq(Frame) /\ last \in 0..MaxSeq /\ log \in Seq(Logged) /\ last = Len(log)
  BY Caught DEF Catching, BridgeTypes, last
<1>2. [t |-> "synchronized", n |-> last] \in Frame
  BY <1>1 DEF Frame
<1>3. wire' = Append(w, [t |-> "synchronized", n |-> last]) /\ hwm' = MaxBehind + Len(w)
  BY DEF Serve
<1>4. /\ log' \in Seq(Logged) /\ last' \in {last, last + 1} /\ last' <= MaxSeq
      /\ ~marked => log' = log
      /\ \A k \in 1..last : log'[k] = log[k]
  <2>1. CASE marked
    <3>1. log' = Append(log, "change") /\ last < MaxSeq
      BY <2>1 DEF Serve
    <3>2. "change" \in Logged
      BY DEF Logged
    <3>3. log' \in Seq(Logged) /\ Len(log') = last + 1 /\ \A k \in 1..last : log'[k] = log[k]
      BY <1>1, <3>1, <3>2
    <3> QED
      BY <2>1, <3>1, <3>3, <1>1 DEF last
  <2>2. CASE ~marked
    <3>1. log' = log
      BY <2>2 DEF Serve
    <3> QED
      BY <3>1, <1>1 DEF last
  <2> QED
    BY <2>1, <2>2
<1> QED
  BY <1>1, <1>2, <1>3, <1>4

Cleared(S, f, i, a, w, g) ==
  /\ g \in [S -> Closure] /\ \A j \in S : j # i => g[j] = f[j]
  /\ g[i].gen = f[i].gen /\ g[i].saw = f[i].saw
  /\ g[i].applied = a /\ g[i].awaiting = w /\ g[i].buffered = <<>>

\* The closure of one open() after a snapshot begins or ends to be decompressed.
LEMMA ClosureReset ==
  ASSUME NEW S, NEW f \in [S -> Closure], NEW i \in S, NEW a \in BOOLEAN, NEW w \in BOOLEAN,
         NEW g, g = [f EXCEPT ![i].applied = a, ![i].awaiting = w, ![i].buffered = <<>>]
  PROVE  Cleared(S, f, i, a, w, g)
<1>1. g[i] = [f[i] EXCEPT !.applied = a, !.awaiting = w, !.buffered = <<>>]
  BY Zenon
<1>2. DOMAIN g = S /\ \A j \in S : j # i => g[j] = f[j]
  BY Zenon
<1>3. PICK c \in Closure : c = f[i]
  OBVIOUS
<1>4. PICK c1 : c1 = [c EXCEPT !.applied = a]
  OBVIOUS
<1>5. c1 \in Closure /\ c1.gen = c.gen /\ c1.saw = c.saw /\ c1.applied = a
  BY <1>4 DEF Closure
<1>6. PICK c2 : c2 = [c1 EXCEPT !.awaiting = w]
  OBVIOUS
<1>7. c2 \in Closure /\ c2.gen = c.gen /\ c2.saw = c.saw /\ c2.applied = a /\ c2.awaiting = w
  BY <1>5, <1>6 DEF Closure
<1>8. PICK e : e = <<>>
  OBVIOUS
<1>9. e \in Seq(1..MaxSeq)
  BY <1>8
<1>10. PICK c3 : c3 = [c2 EXCEPT !.buffered = e]
  OBVIOUS
<1>11. /\ c3 \in Closure /\ c3.gen = c.gen /\ c3.saw = c.saw /\ c3.applied = a /\ c3.awaiting = w
       /\ c3.buffered = e
  BY <1>7, <1>9, <1>10 DEF Closure
<1>12. g[i] = c3
  BY <1>1, <1>3, <1>4, <1>6, <1>8, <1>10, Zenon
<1>13. g \in [S -> Closure]
  <2>1. g = [j \in S |-> g[j]]
    BY <1>2, Zenon
  <2>2. \A j \in S : g[j] \in Closure
    BY <1>2, <1>11, <1>12
  <2> QED
    BY <2>1, <2>2
<1> QED
  BY <1>2, <1>3, <1>8, <1>11, <1>12, <1>13 DEF Cleared

Keeping(S, f, i, n, g) ==
  /\ g \in [S -> Closure] /\ \A j \in S : j # i => g[j] = f[j]
  /\ g[i].gen = f[i].gen /\ g[i].awaiting = f[i].awaiting
  /\ g[i].buffered = Append(f[i].buffered, n)

\* ... after one more event is kept back.
LEMMA ClosureKeeps ==
  ASSUME NEW S, NEW f \in [S -> Closure], NEW i \in S, NEW n \in 1..MaxSeq,
         NEW g, g = [f EXCEPT ![i].buffered = Append(@, n)]
  PROVE  Keeping(S, f, i, n, g)
<1>1. g[i] = [f[i] EXCEPT !.buffered = Append(f[i].buffered, n)]
  BY Zenon
<1>2. DOMAIN g = S /\ \A j \in S : j # i => g[j] = f[j]
  BY Zenon
<1>3. PICK c \in Closure : c = f[i]
  OBVIOUS
<1>4. PICK b : b = Append(c.buffered, n)
  OBVIOUS
<1>5. b \in Seq(1..MaxSeq)
  BY <1>4 DEF Closure
<1>6. PICK c1 : c1 = [c EXCEPT !.buffered = b]
  OBVIOUS
<1>7. c1 \in Closure /\ c1.gen = c.gen /\ c1.awaiting = c.awaiting /\ c1.buffered = b
  BY <1>5, <1>6 DEF Closure
<1>8. g[i] = c1
  BY <1>1, <1>3, <1>4, <1>6, Zenon
<1>9. g \in [S -> Closure]
  <2>1. g = [j \in S |-> g[j]]
    BY <1>2, Zenon
  <2>2. \A j \in S : g[j] \in Closure
    BY <1>2, <1>7, <1>8
  <2> QED
    BY <2>1, <2>2
<1> QED
  BY <1>2, <1>3, <1>4, <1>7, <1>8, <1>9 DEF Keeping

Seeing(S, f, i, g) ==
  /\ g \in [S -> Closure] /\ \A j \in S : j # i => g[j] = f[j]
  /\ g[i].gen = f[i].gen /\ g[i].awaiting = f[i].awaiting
  /\ g[i].buffered = f[i].buffered

\* ... after it is told that the stream is complete.
LEMMA ClosureSaw ==
  ASSUME NEW S, NEW f \in [S -> Closure], NEW i \in S, NEW g, g = [f EXCEPT ![i].saw = TRUE]
  PROVE  Seeing(S, f, i, g)
<1>1. g[i] = [f[i] EXCEPT !.saw = TRUE]
  BY Zenon
<1>2. DOMAIN g = S /\ \A j \in S : j # i => g[j] = f[j]
  BY Zenon
<1>3. PICK c \in Closure : c = f[i]
  OBVIOUS
<1>4. PICK c1 : c1 = [c EXCEPT !.saw = TRUE]
  OBVIOUS
<1>5. c1 \in Closure /\ c1.gen = c.gen /\ c1.awaiting = c.awaiting /\ c1.buffered = c.buffered
  BY <1>4 DEF Closure
<1>6. g[i] = c1
  BY <1>1, <1>3, <1>4, Zenon
<1>7. g \in [S -> Closure]
  <2>1. g = [j \in S |-> g[j]]
    BY <1>2, Zenon
  <2>2. \A j \in S : g[j] \in Closure
    BY <1>2, <1>5, <1>6
  <2> QED
    BY <2>1, <2>2
<1> QED
  BY <1>2, <1>3, <1>5, <1>6, <1>7 DEF Seeing

Anew(S, f, i, g) ==
  /\ g \in [S -> Closure] /\ \A j \in S : j # i => g[j] = f[j]
  /\ g[i].gen = f[i].gen + 1 /\ g[i].awaiting = FALSE /\ g[i].buffered = <<>>

\* ... after onDown starts a new generation.
LEMMA ClosureAnew ==
  ASSUME NEW S, NEW f \in [S -> Closure], NEW i \in S, f[i].gen + 1 \in 0..MaxTroubles,
         NEW g, g = [f EXCEPT ![i] = [FreshClosure EXCEPT !.gen = f[i].gen + 1]]
  PROVE  Anew(S, f, i, g)
<1>1. FreshClosure.gen = 0
  BY DEF FreshClosure
<1>2. PICK m \in 0..MaxTroubles : m = f[i].gen + 1
  OBVIOUS
<1>3. PICK c : c = [FreshClosure EXCEPT !.gen = m]
  OBVIOUS
<1>4. c = [gen |-> m, applied |-> TRUE, saw |-> FALSE, awaiting |-> FALSE, buffered |-> <<>>]
  BY <1>3 DEF FreshClosure
<1>5. c \in Closure /\ c.gen = m /\ c.awaiting = FALSE /\ c.buffered = <<>>
  BY <1>4 DEF Closure
<1>6. g = [f EXCEPT ![i] = c]
  BY <1>2, <1>3, Zenon
<1> QED
  BY <1>2, <1>5, <1>6 DEF Anew

LEMMA FreshIs ==
  /\ FreshClosure.gen = 0 /\ FreshClosure.awaiting = FALSE /\ FreshClosure.buffered = <<>>
  /\ FreshClosure \in Closure
BY StreamAssumption DEF FreshClosure, Closure

\* States the page may be given.
LEMMA StateIs ==
  ASSUME NEW s \in State, NEW n \in 0..MaxSeq
  PROVE  /\ EmptyState \in State /\ EmptyState.seq = 0 /\ EmptyState.view = {}
         /\ FromSnapshot(n) \in State /\ FromSnapshot(n).seq = n
         /\ FromSnapshot(n).view = Mirrored(n)
         /\ [s EXCEPT !.syncing = TRUE] \in State /\ [s EXCEPT !.syncing = TRUE].seq = s.seq
         /\ [s EXCEPT !.syncing = TRUE].view = s.view
<1> MaxSeq \in Nat
  BY StreamAssumption
<1>1. EmptyState \in State /\ EmptyState.seq = 0 /\ EmptyState.view = {}
  BY DEF EmptyState, State
<1>2. Mirrored(n) \subseteq 1..MaxSeq
  BY DEF Mirrored
<1>3. FromSnapshot(n) \in State /\ FromSnapshot(n).seq = n /\ FromSnapshot(n).view = Mirrored(n)
  BY <1>2 DEF FromSnapshot, State
<1>4. /\ [s EXCEPT !.syncing = TRUE] \in State /\ [s EXCEPT !.syncing = TRUE].seq = s.seq
      /\ [s EXCEPT !.syncing = TRUE].view = s.view
  BY DEF State
<1> QED
  BY <1>1, <1>3, <1>4

\* Settling says only that the sync is over.
LEMMA Settled ==
  ASSUME NEW s \in State, NEW c, NEW r, r = Settle(s, c)
  PROVE  r \in State /\ r.seq = s.seq /\ r.view = s.view
<1>1. CASE c.applied /\ c.saw
  <2>1. r = [s EXCEPT !.syncing = FALSE]
    BY <1>1 DEF Settle
  <2> QED
    BY <2>1 DEF State
<1>2. CASE ~(c.applied /\ c.saw)
  BY <1>2 DEF Settle
<1> QED
  BY <1>1, <1>2

\* The rest of the wire, once its first frame is taken.
Rest ==
  /\ wire' \in Seq(Frame) /\ Len(wire') = Len(wire) - 1
  /\ \A k \in 1..Len(wire') : wire'[k] = wire[k + 1]
  /\ UNCHANGED <<source, after, retry, served, lastSent, hwm>>

\* What the page does with a frame.
Taking(f) ==
  \/ f.t = "reset" /\ Close /\ Open(st) /\ UNCHANGED <<st, cursor, cl, decodes, raced>>
  \/ f.t = "snapshot" /\ Rest /\ TakeSnapshot(f.n)
  \/ f.t = "event" /\ Rest /\ TakeEvent(f.n)
  \/ f.t = "synchronized" /\ Rest /\ TakeSynchronized(f.n)

LEMMA DeliverIs ==
  ASSUME BridgeTypes, Deliver, NEW f, f = wire[1]
  PROVE  /\ Len(wire) \in Nat /\ Len(wire) >= 1 /\ f \in Frame /\ source = "live"
         /\ UNCHANGED <<kind, log, minSeq, exists, cur, cache, opens, troubles, seen, bad>>
         /\ Taking(f)
<1>1. /\ wire \in Seq(Frame) /\ wire # <<>> /\ source = "live"
      /\ UNCHANGED <<kind, log, minSeq, exists, cur, cache, opens, troubles, seen, bad>>
  BY DEF Deliver, BridgeTypes
<1>2. Len(wire) \in Nat /\ Len(wire) >= 1 /\ f \in Frame /\ f = Head(wire)
  BY <1>1
<1>3. f.t \in {"snapshot", "event", "synchronized", "reset"}
  BY <1>2 DEF Frame
<1>4. CASE f.t = "reset"
  BY <1>1, <1>2, <1>4, Zenon DEF Deliver, Taking
<1>5. CASE f.t # "reset"
  <2>1. /\ wire' = Tail(wire) /\ UNCHANGED <<source, after, retry, served, lastSent, hwm>>
        /\ CASE f.t = "snapshot" -> TakeSnapshot(f.n)
             [] f.t = "event" -> TakeEvent(f.n)
             [] f.t = "synchronized" -> TakeSynchronized(f.n)
    BY <1>2, <1>5, Zenon DEF Deliver
  <2>2. Rest
    BY <1>1, <1>2, <2>1 DEF Rest
  <2>3. \/ f.t = "snapshot" /\ TakeSnapshot(f.n)
        \/ f.t = "event" /\ TakeEvent(f.n)
        \/ f.t = "synchronized" /\ TakeSynchronized(f.n)
    <3>1. CASE f.t = "snapshot"
      BY <2>1, <3>1
    <3>2. CASE f.t = "event"
      BY <2>1, <3>2
    <3>3. CASE f.t = "synchronized"
      BY <2>1, <3>3
    <3> QED
      BY <3>1, <3>2, <3>3, <1>3, <1>5
  <2> QED
    BY <1>1, <1>2, <2>2, <2>3, Zenon DEF Taking
<1> QED
  BY <1>1, <1>2, <1>4, <1>5

\* What is left of the decodes when the k-th has ended.
Others(k) ==
  /\ decodes' \in Seq(Decode) /\ Len(decodes') = Len(decodes) - 1
  /\ \A j \in 1..Len(decodes') : decodes'[j] = decodes[IF j < k THEN j ELSE j + 1]

\* A snapshot taken in, or its failure, and what was kept back behind it.
Taking1(d, ok) ==
  /\ Taken(d) /\ raced' = (raced \/ d.i # cur)
  /\ st' \in State
  /\ \E r : /\ r = ApplyAll(IF ok THEN FromSnapshot(d.n) ELSE st, cl[d.i].buffered)
            /\ st'.seq = r.seq /\ st'.view = r.view
  /\ cl' \in [1..MaxTroubles + 1 -> Closure]
  /\ \A j \in 1..MaxTroubles + 1 : j # d.i => cl'[j] = cl[j]
  /\ cl'[d.i].gen = cl[d.i].gen /\ cl'[d.i].awaiting = FALSE /\ cl'[d.i].buffered = <<>>

LEMMA LandIs ==
  ASSUME PageTypes, NEW k, NEW ok \in BOOLEAN, Land(k, ok), NEW d, d = decodes[k]
  PROVE  /\ k \in 1..Len(decodes) /\ Len(decodes) \in Nat /\ d \in Decode /\ Others(k)
         /\ ok \/ troubles < MaxTroubles
         /\ troubles' = IF ok THEN troubles ELSE troubles + 1
         /\ bad' = (bad \/ ~ok)
         /\ UNCHANGED <<kind, server, conn, cursor, cur, cache, opens, seen>>
         /\ Taking1(d, ok) \/ (~Taken(d) /\ UNCHANGED <<st, cl, raced>>)
<1>0. MaxSeq \in Nat /\ MaxTroubles \in Nat
  BY StreamAssumption
<1>1. /\ k \in DOMAIN decodes
      /\ ok \/ troubles < MaxTroubles
      /\ troubles' = IF ok THEN troubles ELSE troubles + 1
      /\ bad' = (bad \/ ~ok) /\ decodes' = RemoveAt(decodes, k)
      /\ UNCHANGED <<kind, server, conn, cursor, cur, cache, opens, seen>>
  BY DEF Land
<1>2. k \in 1..Len(decodes) /\ Len(decodes) \in Nat /\ d \in Decode
  <2>1. decodes \in Seq(Decode)
    BY DEF PageTypes
  <2> QED
    BY <1>1, <2>1
<1>3. Others(k)
  <2>1. decodes \in Seq(Decode)
    BY DEF PageTypes
  <2>2. PICK s : s = decodes
    OBVIOUS
  <2>3. decodes' = SubSeq(s, 1, k - 1) \o SubSeq(s, k + 1, Len(s))
    BY <1>1, <2>2 DEF RemoveAt
  <2>4. /\ SubSeq(s, 1, k - 1) \in Seq(Decode) /\ Len(SubSeq(s, 1, k - 1)) = k - 1
        /\ \A j \in 1..k - 1 : SubSeq(s, 1, k - 1)[j] = s[j]
    BY <1>2, <2>1, <2>2
  <2>5. /\ SubSeq(s, k + 1, Len(s)) \in Seq(Decode) /\ Len(SubSeq(s, k + 1, Len(s))) = Len(s) - k
        /\ \A j \in 1..Len(s) - k : SubSeq(s, k + 1, Len(s))[j] = s[k + j]
    BY <1>2, <2>1, <2>2
  <2>6. PICK a : a = SubSeq(s, 1, k - 1)
    OBVIOUS
  <2>7. PICK b : b = SubSeq(s, k + 1, Len(s))
    OBVIOUS
  <2>8. /\ decodes' = a \o b /\ a \in Seq(Decode) /\ b \in Seq(Decode)
        /\ Len(a) = k - 1 /\ Len(b) = Len(s) - k
        /\ \A j \in 1..k - 1 : a[j] = s[j]
        /\ \A j \in 1..Len(s) - k : b[j] = s[k + j]
    BY <2>3, <2>4, <2>5, <2>6, <2>7
  <2>9. /\ decodes' \in Seq(Decode) /\ Len(decodes') = Len(s) - 1
        /\ \A j \in 1..k - 1 : decodes'[j] = a[j]
        /\ \A j \in 1..Len(s) - 1 : j >= k => decodes'[j] = b[j - (k - 1)]
    <3>1. PICK u : u = a \o b
      OBVIOUS
    <3>2. PICK x \in Nat : x = Len(a)
      BY <2>8
    <3>3. PICK y \in Nat : y = Len(b)
      BY <2>8
    <3>4. /\ u \in Seq(Decode) /\ Len(u) = x + y
          /\ \A j \in 1..x : u[j] = a[j]
          /\ \A j \in 1..x + y : j > x => u[j] = b[j - x]
      BY <2>8, <3>1, <3>2, <3>3, ConcatProperties
    <3>5. x = k - 1 /\ y = Len(s) - k /\ x + y = Len(s) - 1 /\ decodes' = u
      BY <2>8, <3>1, <3>2, <3>3, <1>2, <2>2
    <3>6. decodes' \in Seq(Decode) /\ Len(decodes') = Len(s) - 1
      BY <3>4, <3>5
    <3>7. ASSUME NEW j \in 1..k - 1 PROVE decodes'[j] = a[j]
      BY <3>4, <3>5, <3>7
    <3>8. ASSUME NEW j \in 1..Len(s) - 1, j >= k PROVE decodes'[j] = b[j - (k - 1)]
      <4>1. j \in 1..x + y /\ j > x /\ j - x = j - (k - 1)
        BY <3>5, <3>8, <1>2, <2>2
      <4>2. u[j] = b[j - x]
        BY <4>1, <3>4
      <4> QED
        BY <4>1, <4>2, <3>5
    <3> QED
      BY <3>6, <3>7, <3>8
  <2>10. ASSUME NEW j \in 1..Len(decodes')
         PROVE  decodes'[j] = decodes[IF j < k THEN j ELSE j + 1]
    <3>1. CASE j < k
      BY <3>1, <2>8, <2>9, <2>2, <1>2
    <3>2. CASE j >= k
      <4>1. j - (k - 1) \in 1..Len(s) - k /\ decodes'[j] = b[j - (k - 1)]
        BY <3>2, <2>9, <1>2, <2>2
      <4>2. b[j - (k - 1)] = s[k + (j - (k - 1))] /\ k + (j - (k - 1)) = j + 1
        BY <4>1, <2>8, <1>2
      <4> QED
        BY <3>2, <4>1, <4>2, <2>2, <1>2
    <3> QED
      BY <3>1, <3>2, <1>2
  <2> QED
    BY <2>9, <2>10, <2>2 DEF Others
<1>4. ASSUME ~Taken(d) PROVE UNCHANGED <<st, cl, raced>>
  BY <1>4, Zenon DEF Land
<1>5. ASSUME Taken(d) PROVE Taking1(d, ok)
  <2>1. PICK s : s = IF ok THEN FromSnapshot(d.n) ELSE st
    OBVIOUS
  <2>2. PICK q : q = cl[d.i].buffered
    OBVIOUS
  <2>3. PICK r : r = ApplyAll(s, q)
    OBVIOUS
  <2>4. s \in State
    <3>1. d.n \in 0..MaxSeq /\ st \in State
      BY <1>2 DEF Decode, PageTypes
    <3> QED
      BY <2>1, <3>1, StateIs
  <2>5. d.i \in 1..MaxTroubles + 1 /\ q \in Seq(1..MaxSeq)
    BY <1>2, <2>2 DEF PageTypes, Decode, Closure
  <2>6. r \in State
    BY <2>3, <2>4, <2>5, Folded
  <2>7. st' = Settle(r, [cl[d.i] EXCEPT !.applied = TRUE])
    BY <1>5, <2>1, <2>2, <2>3, Zenon DEF Land, Landed
  <2>8. st' \in State /\ st'.seq = r.seq /\ st'.view = r.view
    BY <2>6, <2>7, Settled
  <2>9. /\ cl' = [cl EXCEPT ![d.i].applied = TRUE, ![d.i].awaiting = FALSE, ![d.i].buffered = <<>>]
        /\ raced' = (raced \/ d.i # cur)
    BY <1>5, Zenon DEF Land
  <2>10. /\ cl' \in [1..MaxTroubles + 1 -> Closure]
         /\ \A j \in 1..MaxTroubles + 1 : j # d.i => cl'[j] = cl[j]
         /\ cl'[d.i].gen = cl[d.i].gen /\ cl'[d.i].awaiting = FALSE /\ cl'[d.i].buffered = <<>>
    <3>1. PICK t \in BOOLEAN : t = TRUE
      OBVIOUS
    <3>2. PICK u \in BOOLEAN : u = FALSE
      OBVIOUS
    <3>3. cl' = [cl EXCEPT ![d.i].applied = t, ![d.i].awaiting = u, ![d.i].buffered = <<>>]
      BY <2>9, <3>1, <3>2
    <3> QED
      <4>1. cl \in [1..MaxTroubles + 1 -> Closure] /\ d.i \in 1..MaxTroubles + 1
        BY <2>5 DEF PageTypes
      <4>2. /\ cl' \in [1..MaxTroubles + 1 -> Closure]
            /\ \A j \in 1..MaxTroubles + 1 : j # d.i => cl'[j] = cl[j]
            /\ cl'[d.i].gen = cl[d.i].gen /\ cl'[d.i].awaiting = u /\ cl'[d.i].buffered = <<>>
        <5>1. Cleared(1..MaxTroubles + 1, cl, d.i, t, u, cl')
          BY <3>1, <3>2, <3>3, <4>1, ClosureReset, Zenon
        <5> QED
          BY <5>1 DEF Cleared
      <4> QED
        BY <4>2, <3>2
  <2>11. \E x : /\ x = ApplyAll(IF ok THEN FromSnapshot(d.n) ELSE st, cl[d.i].buffered)
                /\ st'.seq = x.seq /\ st'.view = x.view
    BY <2>1, <2>2, <2>3, <2>8, Zenon
  <2> QED
    BY <1>5, <2>8, <2>9, <2>10, <2>11 DEF Taking1
<1>6. Taking1(d, ok) \/ (~Taken(d) /\ UNCHANGED <<st, cl, raced>>)
  <2>1. CASE Taken(d)
    BY <2>1, <1>5
  <2>2. CASE ~Taken(d)
    BY <2>2, <1>4
  <2> QED
    BY <2>1, <2>2
<1> QED
  BY <1>1, <1>2, <1>3, <1>6, Zenon

\* One step of a stream.
LEMMA StepIs ==
  ASSUME [Next]_vars
  PROVE  \/ UNCHANGED vars
         \/ \E c \in Logged : Append1(c) /\ exists' \in {exists, FALSE}
         \/ Prune
         \/ \E marked \in BOOLEAN : Serve(marked)
         \/ Drop \/ Retry \/ Wake \/ Gone \/ Deliver
         \/ \E k \in 1..Len(decodes), ok \in BOOLEAN : Land(k, ok)
         \/ Leave
         \/ \E kept \in BOOLEAN : Return(kept)
<1>1. ASSUME NEW c \in Classes, Commit(c) PROVE \E x \in Logged : Append1(x) /\ exists' \in {exists, FALSE}
  BY <1>1 DEF Commit, Logged
<1>2. ASSUME DeleteThread PROVE \E x \in Logged : Append1(x) /\ exists' \in {exists, FALSE}
  BY <1>2 DEF DeleteThread, Logged
<1> QED
  BY <1>1, <1>2 DEF Next

LEMMA BridgeTyped ==
  ASSUME TypesInv, [Next]_vars
  PROVE  BridgeTypes'
<1>0. /\ BridgeTypes /\ LinkTypes /\ PageTypes /\ CountTypes
      /\ MaxSeq \in Nat /\ MaxBehind \in Nat \ {0} /\ RetainMin \in Nat
  BY TypesAre, StreamAssumption
<1>1. CASE UNCHANGED vars
  BY <1>0, <1>1 DEF BridgeTypes, vars, server, conn
<1>2. ASSUME NEW c \in Logged, Append1(c), exists' \in {exists, FALSE} PROVE BridgeTypes'
  <2>1. /\ log' \in Seq(Logged) /\ last' = last + 1 /\ last + 1 \in 1..MaxSeq /\ Wrote(c)
    BY <1>0, <1>2, Written
  <2>2. Len(log') <= MaxSeq /\ UNCHANGED <<minSeq, hwm>> /\ exists' \in BOOLEAN
    <3>1. Len(log') = last'
      BY DEF last
    <3>2. UNCHANGED <<minSeq, hwm>>
      BY <1>2 DEF Append1
    <3>3. exists' \in BOOLEAN
      BY <1>2, <1>0 DEF BridgeTypes
    <3> QED
      BY <2>1, <3>1, <3>2, <3>3, <1>0
  <2>3. /\ served' \in BOOLEAN /\ lastSent' \in 0..MaxSeq /\ wire' \in Seq(Frame)
        /\ served' => Len(wire') <= hwm'
    BY <2>1, <2>2, <1>0 DEF Wrote, BridgeTypes
  <2> QED
    BY <2>1, <2>2, <2>3, <1>0 DEF BridgeTypes
<1>3. CASE Prune
  <2>1. minSeq' \in 0..MaxSeq + 1
    BY <1>0, <1>3 DEF Prune, BridgeTypes, last
  <2>2. UNCHANGED <<log, exists, served, lastSent, hwm, wire>>
    BY <1>3 DEF Prune, conn
  <2> QED
    BY <1>0, <2>1, <2>2 DEF BridgeTypes
<1>4. ASSUME NEW marked \in BOOLEAN, Serve(marked) PROVE BridgeTypes'
  <2>1. PICK w : w = CatchUp
    OBVIOUS
  <2>2. /\ log' \in Seq(Logged) /\ last' <= MaxSeq /\ wire' \in Seq(Frame) /\ Len(wire') <= hwm'
        /\ hwm' \in Nat
    BY <1>0, <1>4, <2>1, ServedIs
  <2>3. lastSent' = last /\ served' = TRUE /\ UNCHANGED <<minSeq, exists>>
    BY <1>4 DEF Serve
  <2> QED
    BY <1>0, <2>2, <2>3 DEF BridgeTypes, last
<1>5. ASSUME Close, UNCHANGED <<log, minSeq, exists>> PROVE BridgeTypes'
  <2>1. Len(wire') = 0 /\ wire' \in Seq(Frame)
    BY <1>5 DEF Close
  <2>2. served' = FALSE /\ lastSent' = 0 /\ hwm' = 0
    BY <1>5 DEF Close
  <2> QED
    <3>1. served' \in BOOLEAN /\ ~served'
      BY <2>2
    <3>2. lastSent' \in 0..MaxSeq /\ hwm' \in Nat
      BY <2>2, <1>0
    <3> QED
      BY <1>0, <1>5, <2>1, <3>1, <3>2 DEF BridgeTypes
<1>6. ASSUME UNCHANGED <<server, wire>> PROVE BridgeTypes'
  BY <1>0, <1>6 DEF BridgeTypes, server
<1>7. CASE Drop
  BY <1>5, <1>7 DEF Drop
<1>8. CASE Retry
  BY <1>6, <1>8 DEF Retry
<1>9. CASE Wake
  BY <1>5, <1>9 DEF Wake
<1>10. CASE Gone
  BY <1>5, <1>10 DEF Gone
<1>11. CASE Deliver
  <2>1. PICK f : f = wire[1]
    OBVIOUS
  <2>2. UNCHANGED <<log, minSeq, exists>> /\ Taking(f) /\ Len(wire) \in Nat
    BY <1>0, <1>11, <2>1, DeliverIs
  <2>3. CASE Close
    BY <1>5, <2>2, <2>3
  <2>4. CASE Rest
    BY <1>0, <2>2, <2>4 DEF Rest, BridgeTypes
  <2> QED
    BY <2>2, <2>3, <2>4 DEF Taking
<1>12. ASSUME NEW k \in 1..Len(decodes), NEW ok \in BOOLEAN, Land(k, ok) PROVE BridgeTypes'
  <2>1. UNCHANGED <<server, wire>>
    BY <1>12 DEF Land, conn
  <2> QED
    BY <2>1, <1>6
<1>13. CASE Leave
  BY <1>5, <1>13 DEF Leave
<1>14. ASSUME NEW kept \in BOOLEAN, Return(kept) PROVE BridgeTypes'
  BY <1>6, <1>14 DEF Return
<1> QED
  BY <1>1, <1>2, <1>3, <1>4, <1>7, <1>8, <1>9, <1>10, <1>11, <1>12, <1>13, <1>14, StepIs

LEMMA LinkTyped ==
  ASSUME TypesInv, [Next]_vars
  PROVE  LinkTypes'
<1>0. LinkTypes /\ PageTypes /\ BridgeTypes /\ MaxSeq \in Nat
  BY TypesAre, StreamAssumption
<1>1. ASSUME UNCHANGED <<kind, source, after, retry>> PROVE LinkTypes'
  BY <1>0, <1>1 DEF LinkTypes
<1>2. ASSUME NEW s \in State, Open(s), UNCHANGED kind PROVE LinkTypes'
  <2>1. Cursor(s) \in 0..MaxSeq
    BY <1>0 DEF Cursor, State, PageTypes
  <2> QED
    BY <2>1, <1>0, <1>2 DEF Open, LinkTypes
<1>3. ASSUME source' \in {"none", "live"}, after' = 0, retry' \in BOOLEAN, UNCHANGED kind
      PROVE  LinkTypes'
  BY <1>0, <1>3 DEF LinkTypes
<1>4. st \in State /\ cache \in State
  BY <1>0 DEF PageTypes
<1>5. CASE UNCHANGED vars
  BY <1>1, <1>5 DEF vars, conn
<1>6. ASSUME NEW c \in Logged, Append1(c) PROVE LinkTypes'
  BY <1>1, <1>6 DEF Append1
<1>7. CASE Prune
  BY <1>1, <1>7 DEF Prune, conn
<1>8. ASSUME NEW marked \in BOOLEAN, Serve(marked) PROVE LinkTypes'
  BY <1>0, <1>3, <1>8 DEF Serve, LinkTypes
<1>9. CASE Drop
  BY <1>3, <1>9 DEF Drop
<1>10. CASE Retry
  BY <1>2, <1>4, <1>10 DEF Retry
<1>11. CASE Wake
  BY <1>2, <1>4, <1>11 DEF Wake
<1>12. CASE Gone
  BY <1>3, <1>12 DEF Gone
<1>13. CASE Deliver
  <2>1. PICK f : f = wire[1]
    OBVIOUS
  <2>2. UNCHANGED kind /\ Taking(f)
    BY <1>0, <1>13, <2>1, DeliverIs
  <2>3. CASE Open(st)
    BY <1>2, <1>4, <2>2, <2>3
  <2>4. CASE Rest
    BY <1>1, <2>2, <2>4 DEF Rest
  <2> QED
    BY <2>2, <2>3, <2>4 DEF Taking
<1>14. ASSUME NEW k \in 1..Len(decodes), NEW ok \in BOOLEAN, Land(k, ok) PROVE LinkTypes'
  BY <1>1, <1>14 DEF Land, conn
<1>15. CASE Leave
  BY <1>3, <1>15 DEF Leave
<1>16. ASSUME NEW kept \in BOOLEAN, Return(kept) PROVE LinkTypes'
  <2>1. PICK c : c = IF kept THEN cache ELSE EmptyState
    OBVIOUS
  <2>2. c \in State
    <3>1. EmptyState \in State
      BY <1>0 DEF EmptyState, State
    <3> QED
      BY <1>4, <2>1, <3>1
  <2>3. PICK s : s = [c EXCEPT !.syncing = TRUE]
    OBVIOUS
  <2>4. s \in State
    BY <2>2, <2>3 DEF State
  <2>5. Open(s) /\ UNCHANGED kind
    <3>1. cache' = c /\ st' = [cache' EXCEPT !.syncing = TRUE] /\ Open(st') /\ UNCHANGED kind
      BY <1>16, <2>1 DEF Return
    <3>2. st' = s
      BY <3>1, <2>3
    <3> QED
      BY <3>1, <3>2, Zenon DEF Open, Cursor
  <2> QED
    BY <2>4, <2>5, <1>2
<1> QED
  BY <1>5, <1>6, <1>7, <1>8, <1>9, <1>10, <1>11, <1>12, <1>13, <1>14, <1>15, <1>16, StepIs

\* What a drop does to the page: the thread's closure starts anew.
Dropped ==
  \/ kind = "shell" /\ UNCHANGED <<cl, st>>
  \/ /\ kind = "thread" /\ cur \in 1..MaxTroubles + 1
     /\ Anew(1..MaxTroubles + 1, cl, cur, cl')
     /\ st' \in State /\ st'.seq = st.seq /\ st'.view = st.view

LEMMA DropIs ==
  ASSUME TypesInv, Drop
  PROVE  /\ troubles < MaxTroubles /\ troubles' = troubles + 1 /\ Close
         /\ source' = "none" /\ after' = 0
         /\ UNCHANGED <<kind, log, minSeq, exists, cursor, cur, decodes, cache, opens, seen, bad, raced>>
         /\ Dropped
<1>0. LinkTypes /\ PageTypes /\ CountTypes /\ MaxTroubles \in Nat /\ Kinds \subseteq {"shell", "thread"}
  BY TypesAre, StreamAssumption
<1>1. /\ troubles < MaxTroubles /\ troubles' = troubles + 1 /\ Close /\ Running
      /\ source' = "none" /\ after' = 0
      /\ UNCHANGED <<kind, log, minSeq, exists, cursor, cur, decodes, cache, opens, seen, bad, raced>>
  BY DEF Drop
<1>2. kind \in {"shell", "thread"}
  BY <1>0 DEF LinkTypes
<1>3. CASE kind = "shell"
  BY <1>3 DEF Drop, Dropped
<1>4. CASE kind = "thread"
  <2>1. cur \in 1..MaxTroubles + 1
    BY <1>0, <1>1, <1>4 DEF Running, PageTypes
  <2>2. cl \in [1..MaxTroubles + 1 -> Closure] /\ st \in State
    BY <1>0 DEF PageTypes
  <2>3. cl[cur].gen + 1 \in 0..MaxTroubles
    <3>1. cl[cur].gen <= troubles /\ troubles \in 0..MaxTroubles
      BY <1>0, <2>1 DEF CountTypes
    <3>2. cl[cur].gen \in Nat
      BY <2>1, <2>2 DEF Closure
    <3> QED
      BY <3>1, <3>2, <1>0, <1>1
  <2>4. /\ cl' = [cl EXCEPT ![cur] = [FreshClosure EXCEPT !.gen = cl[cur].gen + 1]]
        /\ st' = [st EXCEPT !.syncing = TRUE]
    BY <1>4 DEF Drop
  <2>5. Anew(1..MaxTroubles + 1, cl, cur, cl')
    BY <2>1, <2>2, <2>3, <2>4, ClosureAnew
  <2>6. st' \in State /\ st'.seq = st.seq /\ st'.view = st.view
    BY <2>2, <2>4 DEF State
  <2>7. Dropped
    BY <1>4, <2>1, <2>5, <2>6 DEF Dropped
  <2> QED
    BY <2>7, <1>1
<1> QED
  BY <1>1, <1>2, <1>3, <1>4

\* What the page does with a snapshot, an event, and word that the stream is complete.
TookSnapshot(n) ==
  \/ /\ kind = "shell" /\ st' \in State /\ st'.seq = n /\ st'.view = Mirrored(n)
     /\ cursor' = n /\ UNCHANGED <<cl, decodes, raced>>
  \/ /\ kind = "thread" /\ UNCHANGED <<st, cursor>>
     /\ decodes' \in Seq(Decode) /\ Len(decodes') = Len(decodes) + 1
     /\ \A k \in 1..Len(decodes) : decodes'[k] = decodes[k]
     /\ decodes'[Len(decodes) + 1] = [i |-> cur, gen |-> cl[cur].gen, n |-> n]
     /\ Cleared(1..MaxTroubles + 1, cl, cur, FALSE, TRUE, cl')
     /\ raced' = (raced \/ \E k \in DOMAIN decodes : Current(decodes[k]))

TookEvent(n) ==
  \/ /\ kind = "thread" /\ cl[cur].awaiting /\ UNCHANGED <<st, cursor, decodes, raced>>
     /\ Keeping(1..MaxTroubles + 1, cl, cur, n, cl')
  \/ /\ ~(kind = "thread" /\ cl[cur].awaiting) /\ UNCHANGED <<cl, decodes, raced>>
     /\ st' \in State
     /\ \/ n > st.seq /\ log[n] = "change" /\ st'.seq = n /\ st'.view = st.view \cup {n}
        \/ ~(n > st.seq /\ log[n] = "change") /\ st'.seq = st.seq /\ st'.view = st.view
     /\ cursor' = IF kind = "shell" /\ n > cursor THEN n ELSE cursor

TookSynchronized(n) ==
  \/ /\ kind = "shell" /\ cursor' = (IF n > cursor THEN n ELSE cursor)
     /\ UNCHANGED <<st, cl, decodes, raced>>
  \/ /\ kind = "thread" /\ UNCHANGED <<cursor, decodes, raced>>
     /\ st' \in State /\ st'.seq = st.seq /\ st'.view = st.view
     /\ Seeing(1..MaxTroubles + 1, cl, cur, cl')

LEMMA TakingIs ==
  ASSUME LinkTypes, PageTypes, cur # 0, NEW n \in 0..MaxSeq, MaxSeq \in Nat, MaxTroubles \in Nat,
         Kinds \subseteq {"shell", "thread"}
  PROVE  /\ TakeSnapshot(n) => TookSnapshot(n)
         /\ TakeEvent(n) /\ n # 0 => TookEvent(n)
         /\ TakeSynchronized(n) => TookSynchronized(n)
<1>0. /\ kind \in {"shell", "thread"} /\ cur \in 1..MaxTroubles + 1 /\ st \in State
      /\ cl \in [1..MaxTroubles + 1 -> Closure] /\ decodes \in Seq(Decode)
      /\ bad \in BOOLEAN /\ raced \in BOOLEAN
  BY DEF LinkTypes, PageTypes
<1>1. ASSUME TakeSnapshot(n) PROVE TookSnapshot(n)
  <2>1. CASE kind = "shell"
    <3>1. st' = FromSnapshot(n) /\ cursor' = n /\ UNCHANGED <<cl, decodes, raced>>
      BY <1>1, <2>1 DEF TakeSnapshot
    <3>2. st' \in State /\ st'.seq = n /\ st'.view = Mirrored(n)
      BY <3>1, <1>0, StateIs
    <3> QED
      BY <2>1, <3>1, <3>2 DEF TookSnapshot
  <2>2. CASE kind = "thread"
    <3>1. PICK d : d = [i |-> cur, gen |-> cl[cur].gen, n |-> n]
      OBVIOUS
    <3>2. d \in Decode
      <4>1. cl[cur].gen \in 0..MaxTroubles
        BY <1>0 DEF Closure
      <4> QED
        BY <3>1, <4>1, <1>0 DEF Decode
    <3>3. decodes' = Append(decodes, d) /\ UNCHANGED <<st, cursor>>
      BY <1>1, <2>2, <3>1 DEF TakeSnapshot
    <3>4. /\ decodes' \in Seq(Decode) /\ Len(decodes') = Len(decodes) + 1
          /\ \A k \in 1..Len(decodes) : decodes'[k] = decodes[k]
          /\ decodes'[Len(decodes) + 1] = d
      BY <3>2, <3>3, <1>0
    <3>5. raced' = (raced \/ \E k \in DOMAIN decodes : Current(decodes[k]))
      BY <1>1, <2>2 DEF TakeSnapshot
    <3>6. Cleared(1..MaxTroubles + 1, cl, cur, FALSE, TRUE, cl')
      <4>1. PICK t \in BOOLEAN : t = TRUE
        OBVIOUS
      <4>2. PICK u \in BOOLEAN : u = FALSE
        OBVIOUS
      <4>3. cl' = [cl EXCEPT ![cur].applied = u, ![cur].awaiting = t, ![cur].buffered = <<>>]
        BY <1>1, <2>2, <4>1, <4>2 DEF TakeSnapshot
      <4>4. Cleared(1..MaxTroubles + 1, cl, cur, u, t, cl')
        BY <1>0, <4>1, <4>2, <4>3, ClosureReset, Zenon
      <4> QED
        BY <4>1, <4>2, <4>4
    <3> QED
      BY <2>2, <3>1, <3>3, <3>4, <3>5, <3>6 DEF TookSnapshot
  <2> QED
    BY <1>0, <2>1, <2>2
<1>2. ASSUME TakeEvent(n), n # 0 PROVE TookEvent(n)
  <2>1. CASE kind = "thread" /\ cl[cur].awaiting
    <3>1. cl' = [cl EXCEPT ![cur].buffered = Append(@, n)] /\ UNCHANGED <<st, cursor, decodes, raced>>
      BY <1>2, <2>1 DEF TakeEvent
    <3>2. n \in 1..MaxSeq
      BY <1>2
    <3>3. Keeping(1..MaxTroubles + 1, cl, cur, n, cl')
      BY <3>1, <3>2, <1>0, ClosureKeeps
    <3> QED
      BY <2>1, <3>1, <3>3 DEF TookEvent
  <2>2. CASE ~(kind = "thread" /\ cl[cur].awaiting)
    <3>1. /\ st' = ApplyEvent(st, n) /\ UNCHANGED <<cl, decodes, raced>>
          /\ cursor' = IF kind = "shell" /\ n > cursor THEN n ELSE cursor
      BY <1>2, <2>2 DEF TakeEvent
    <3>2. /\ st' \in State
          /\ \/ n > st.seq /\ log[n] = "change" /\ st'.seq = n /\ st'.view = st.view \cup {n}
             \/ ~(n > st.seq /\ log[n] = "change") /\ st'.seq = st.seq /\ st'.view = st.view
      BY <3>1, <1>0, <1>2 DEF ApplyEvent, State
    <3> QED
      BY <2>2, <3>1, <3>2 DEF TookEvent
  <2> QED
    BY <2>1, <2>2
<1>3. ASSUME TakeSynchronized(n) PROVE TookSynchronized(n)
  <2>1. CASE kind = "shell"
    BY <1>3, <2>1 DEF TakeSynchronized, TookSynchronized
  <2>2. CASE kind = "thread"
    <3>1. /\ cl' = [cl EXCEPT ![cur].saw = TRUE] /\ st' = Settle(st, cl'[cur])
          /\ UNCHANGED <<cursor, decodes, raced>>
      BY <1>3, <2>2 DEF TakeSynchronized
    <3>2. st' \in State /\ st'.seq = st.seq /\ st'.view = st.view
      BY <1>0, <3>1, Settled
    <3>3. Seeing(1..MaxTroubles + 1, cl, cur, cl')
      BY <1>0, <3>1, ClosureSaw
    <3> QED
      BY <2>2, <3>1, <3>2, <3>3 DEF TookSynchronized
  <2> QED
    BY <1>0, <2>1, <2>2
<1> QED
  BY <1>1, <1>2, <1>3

LEMMA PageTyped ==
  ASSUME TypesInv, PlacesInv, [Next]_vars
  PROVE  PageTypes'
<1>0. /\ LinkTypes /\ PageTypes /\ BridgeTypes /\ CountTypes /\ MaxSeq \in Nat /\ MaxTroubles \in Nat
      /\ Kinds \subseteq {"shell", "thread"}
  BY TypesAre, StreamAssumption
<1>1. ASSUME UNCHANGED <<st, cursor, cur, cl, decodes, cache, bad, raced>> PROVE PageTypes'
  BY <1>0, <1>1 DEF PageTypes
<1>2. CASE UNCHANGED vars
  BY <1>1, <1>2 DEF vars, page, hist
<1>3. ASSUME NEW c \in Logged, Append1(c) PROVE PageTypes'
  BY <1>1, <1>3 DEF Append1, page, hist
<1>4. CASE Prune
  BY <1>1, <1>4 DEF Prune, page, hist
<1>5. ASSUME NEW marked \in BOOLEAN, Serve(marked) PROVE PageTypes'
  BY <1>1, <1>5 DEF Serve, page
<1>6. CASE Drop
  <2>1. Dropped /\ UNCHANGED <<cursor, cur, decodes, cache, bad, raced>>
    BY <1>6, DropIs
  <2>2. st' \in State /\ cl' \in [1..MaxTroubles + 1 -> Closure]
    BY <2>1, <1>0 DEF Dropped, Anew, PageTypes
  <2> QED
    BY <2>1, <2>2, <1>0 DEF PageTypes
<1>7. CASE Retry
  BY <1>1, <1>7 DEF Retry, page, hist
<1>8. CASE Wake
  BY <1>1, <1>8 DEF Wake, page
<1>9. CASE Gone
  <2>1. /\ st' = EmptyState /\ cur' = 0 /\ cache' = EmptyState
        /\ UNCHANGED <<cursor, cl, decodes, bad, raced>>
    BY <1>9 DEF Gone, hist
  <2>2. EmptyState \in State
    BY <1>0 DEF EmptyState, State
  <2> QED
    BY <1>0, <2>1, <2>2 DEF PageTypes
<1>10. CASE Deliver
  <2>1. PICK f : f = wire[1]
    OBVIOUS
  <2>2. UNCHANGED <<kind, cur, cache, bad>> /\ Taking(f) /\ f \in Frame /\ source = "live" /\ Len(wire) >= 1
    BY <1>0, <1>10, <2>1, DeliverIs
  <2>3. cur # 0 /\ f.n \in 0..MaxSeq
    BY <2>2 DEF PlacesInv, Frame
  <2>4. f.t = "event" => f.n # 0
    BY <1>0, <2>1, <2>2 DEF CountTypes, BridgeTypes
  <2>5. CASE f.t = "reset" /\ UNCHANGED <<st, cursor, cl, decodes, raced>>
    BY <1>1, <2>2, <2>5
  <2>6. CASE TookSnapshot(f.n)
    <3>1. raced' \in BOOLEAN
      BY <2>6, <1>0 DEF TookSnapshot, PageTypes
    <3> QED
      BY <3>1, <2>2, <2>3, <2>6, <1>0 DEF TookSnapshot, Cleared, PageTypes
  <2>7. CASE TookEvent(f.n)
    <3>1. cursor' \in 0..MaxSeq
      BY <2>7, <2>3, <1>0 DEF TookEvent, PageTypes
    <3> QED
      BY <3>1, <2>2, <2>3, <2>7, <1>0 DEF TookEvent, Keeping, PageTypes
  <2>8. CASE TookSynchronized(f.n)
    <3>1. cursor' \in 0..MaxSeq
      BY <2>8, <2>3, <1>0 DEF TookSynchronized, PageTypes
    <3> QED
      BY <3>1, <2>2, <2>3, <2>8, <1>0 DEF TookSynchronized, Seeing, PageTypes
  <2> QED
    BY <2>2, <2>3, <2>4, <2>5, <2>6, <2>7, <2>8, <1>0, TakingIs DEF Taking
<1>11. ASSUME NEW k \in 1..Len(decodes), NEW ok \in BOOLEAN, Land(k, ok) PROVE PageTypes'
  <2>1. PICK d : d = decodes[k]
    OBVIOUS
  <2>2. /\ Others(k) /\ bad' = (bad \/ ~ok) /\ UNCHANGED <<kind, server, conn, cursor, cur, cache, opens, seen>>
        /\ Taking1(d, ok) \/ (~Taken(d) /\ UNCHANGED <<st, cl, raced>>)
    BY <1>0, <1>11, <2>1, LandIs
  <2>3. decodes' \in Seq(Decode) /\ bad' \in BOOLEAN
    BY <2>2, <1>0 DEF Others, PageTypes
  <2>4. st' \in State /\ cl' \in [1..MaxTroubles + 1 -> Closure] /\ raced' \in BOOLEAN
    <3>1. CASE Taking1(d, ok)
      BY <3>1, <1>0 DEF Taking1, PageTypes
    <3>2. CASE UNCHANGED <<st, cl, raced>>
      BY <3>2, <1>0 DEF PageTypes
    <3> QED
      BY <3>1, <3>2, <2>2
  <2> QED
    BY <2>2, <2>3, <2>4, <1>0 DEF PageTypes
<1>12. CASE Leave
  <2>1. /\ cache' \in {st, cache} /\ cur' = 0 /\ st' = EmptyState
        /\ UNCHANGED <<cursor, cl, decodes, bad, raced>>
    BY <1>12 DEF Leave
  <2>2. EmptyState \in State
    BY <1>0 DEF EmptyState, State
  <2>3. cache' \in State /\ cur' \in 0..MaxTroubles + 1
    BY <1>0, <2>1 DEF PageTypes
  <2> QED
    BY <1>0, <2>1, <2>2, <2>3 DEF PageTypes
<1>13. ASSUME NEW kept \in BOOLEAN, Return(kept) PROVE PageTypes'
  <2>1. /\ opens' = opens + 1 /\ cur' = opens + 1 /\ opens < MaxTroubles + 1
        /\ cache' \in {cache, EmptyState}
        /\ st' = [cache' EXCEPT !.syncing = TRUE]
        /\ UNCHANGED <<cursor, cl, decodes, bad, raced>>
    BY <1>13 DEF Return
  <2>2. EmptyState \in State
    BY <1>0 DEF EmptyState, State
  <2>3. cache' \in State
    BY <1>0, <2>1, <2>2 DEF PageTypes
  <2>4. st' \in State
    BY <2>1, <2>3 DEF State
  <2>5. cur' \in 0..MaxTroubles + 1
    BY <1>0, <2>1 DEF CountTypes
  <2> QED
    BY <1>0, <2>1, <2>3, <2>4, <2>5 DEF PageTypes
<1> QED
  BY <1>2, <1>3, <1>4, <1>5, <1>6, <1>7, <1>8, <1>9, <1>10, <1>11, <1>12, <1>13, StepIs

-----------------------------------------------------------------------------
(* Types are kept. *)

\* What was asked of each open() and each decode, in one place.
ClosuresCounted ==
  /\ \A i \in 1..MaxTroubles + 1 :
        /\ cl[i].gen <= troubles
        /\ ~cl[i].awaiting => cl[i].buffered = <<>>
        /\ i > opens => cl[i] = FreshClosure
  /\ \A k \in DOMAIN decodes : decodes[k].i <= opens /\ decodes[k].gen <= cl[decodes[k].i].gen

EventsNumbered == \A k \in DOMAIN wire : wire[k].t = "event" => wire[k].n # 0

Counted ==
  /\ opens \in 1..MaxTroubles + 1 /\ troubles \in 0..MaxTroubles /\ seen \in 0..MaxSeen
  /\ cur <= opens

LEMMA CountTypesAre == CountTypes <=> Counted /\ ClosuresCounted /\ EventsNumbered
BY DEF CountTypes, Counted, ClosuresCounted, EventsNumbered

LEMMA EventsStayNumbered ==
  ASSUME TypesInv, [Next]_vars
  PROVE  EventsNumbered'
<1>0. /\ BridgeTypes /\ LinkTypes /\ PageTypes /\ EventsNumbered
      /\ MaxSeq \in Nat /\ MaxBehind \in Nat \ {0}
  BY TypesAre, CountTypesAre, StreamAssumption
<1>1. ASSUME UNCHANGED wire PROVE EventsNumbered'
  BY <1>0, <1>1 DEF EventsNumbered
<1>2. ASSUME Close PROVE EventsNumbered'
  BY <1>2 DEF EventsNumbered, Close
<1>3. CASE UNCHANGED vars
  BY <1>1, <1>3 DEF vars, conn
<1>4. ASSUME NEW c \in Logged, Append1(c) PROVE EventsNumbered'
  <2>1. last + 1 \in 1..MaxSeq /\ Wrote(c)
    BY <1>0, <1>4, Written
  <2>2. CASE UNCHANGED wire
    BY <1>1, <2>2
  <2>3. CASE ~UNCHANGED wire
    <3>1. wire \in Seq(Frame) /\ wire' \in Seq(Frame)
      BY <2>1, <2>3, <1>0 DEF Wrote, BridgeTypes
    <3> SUFFICES ASSUME NEW k \in 1..Len(wire'), wire'[k].t = "event" PROVE wire'[k].n # 0
      BY <3>1 DEF EventsNumbered
    <3>2. CASE k \in 1..Len(wire)
      BY <3>1, <3>2, <2>1, <2>3, <1>0 DEF Wrote, EventsNumbered
    <3>3. CASE k = Len(wire) + 1
      BY <3>1, <3>3, <2>1, <2>3 DEF Wrote
    <3>4. CASE k > Len(wire) + 1
      BY <3>1, <3>4, <2>1, <2>3 DEF Wrote
    <3> QED
      BY <3>1, <3>2, <3>3, <3>4
  <2> QED
    BY <2>2, <2>3
<1>5. CASE Prune
  BY <1>1, <1>5 DEF Prune, conn
<1>6. ASSUME NEW marked \in BOOLEAN, Serve(marked) PROVE EventsNumbered'
  <2>1. PICK w : w = CatchUp
    OBVIOUS
  <2>2. /\ wire' \in Seq(Frame) /\ Len(wire') = Len(w) + 1
        /\ \A k \in 1..Len(w) : wire'[k] = w[k]
        /\ wire'[Len(w) + 1] = [t |-> "synchronized", n |-> last]
    BY <1>0, <1>6, <2>1, ServedIs
  <2>3. Catching(w)
    BY <1>0, <2>1, Caught
  <2>4. ASSUME NEW k \in 1..Len(w), w[k].t = "event" PROVE w[k].n # 0
    BY <2>3, <2>4, <1>0 DEF Catching, LinkTypes
  <2> SUFFICES ASSUME NEW k \in 1..Len(wire'), wire'[k].t = "event" PROVE wire'[k].n # 0
    BY <2>2 DEF EventsNumbered
  <2>5. Len(w) \in Nat
    BY <2>3 DEF Catching
  <2>6. CASE k \in 1..Len(w)
    BY <2>2, <2>4, <2>6
  <2>7. CASE k = Len(w) + 1
    BY <2>2, <2>7
  <2> QED
    BY <2>2, <2>5, <2>6, <2>7
<1>7. CASE Drop
  BY <1>2, <1>7 DEF Drop
<1>8. CASE Retry
  BY <1>1, <1>8 DEF Retry
<1>9. CASE Wake
  BY <1>2, <1>9 DEF Wake
<1>10. CASE Gone
  BY <1>2, <1>10 DEF Gone
<1>11. CASE Deliver
  <2>1. PICK f : f = wire[1]
    OBVIOUS
  <2>2. Taking(f) /\ Len(wire) \in Nat
    BY <1>0, <1>11, <2>1, DeliverIs
  <2>3. CASE Close
    BY <1>2, <2>3
  <2>4. CASE Rest
    <3>1. wire \in Seq(Frame)
      BY <1>0 DEF BridgeTypes
    <3> QED
      BY <3>1, <1>0, <2>2, <2>4 DEF Rest, EventsNumbered
  <2> QED
    BY <2>2, <2>3, <2>4 DEF Taking
<1>12. ASSUME NEW k \in 1..Len(decodes), NEW ok \in BOOLEAN, Land(k, ok) PROVE EventsNumbered'
  BY <1>1, <1>12 DEF Land, conn
<1>13. CASE Leave
  BY <1>2, <1>13 DEF Leave
<1>14. ASSUME NEW kept \in BOOLEAN, Return(kept) PROVE EventsNumbered'
  BY <1>1, <1>14 DEF Return
<1> QED
  BY <1>3, <1>4, <1>5, <1>6, <1>7, <1>8, <1>9, <1>10, <1>11, <1>12, <1>13, <1>14, StepIs

LEMMA CountsStay ==
  ASSUME TypesInv, PlacesInv, [Next]_vars
  PROVE  Counted'
<1>0. /\ BridgeTypes /\ LinkTypes /\ PageTypes /\ Counted /\ MaxTroubles \in Nat /\ MaxSeen \in Nat
  BY TypesAre, CountTypesAre, StreamAssumption
<1>1. ASSUME UNCHANGED <<opens, seen>>, cur' \in {cur, 0},
             troubles' = troubles \/ (troubles < MaxTroubles /\ troubles' = troubles + 1)
      PROVE Counted'
  BY <1>0, <1>1 DEF Counted, PageTypes
<1>3. CASE UNCHANGED vars
  BY <1>1, <1>3 DEF vars, page, hist
<1>4. ASSUME NEW c \in Logged, Append1(c) PROVE Counted'
  BY <1>1, <1>4 DEF Append1, page, hist
<1>5. CASE Prune
  BY <1>1, <1>5 DEF Prune, page, hist
<1>6. ASSUME NEW marked \in BOOLEAN, Serve(marked) PROVE Counted'
  <2>1. UNCHANGED <<opens, cur, troubles>> /\ seen' \in 0..MaxSeen
    BY <1>6, <1>0 DEF Serve, page, Counted
  <2> QED
    BY <2>1, <1>0 DEF Counted
<1>7. CASE Drop
  BY <1>1, <1>7 DEF Drop
<1>8. CASE Retry
  BY <1>1, <1>8 DEF Retry, page, hist
<1>9. CASE Wake
  BY <1>1, <1>9 DEF Wake, page
<1>10. CASE Gone
  BY <1>1, <1>10 DEF Gone, hist
<1>11. CASE Deliver
  BY <1>1, <1>11 DEF Deliver
<1>12. ASSUME NEW k \in 1..Len(decodes), NEW ok \in BOOLEAN, Land(k, ok) PROVE Counted'
  <2>1. PICK d : d = decodes[k]
    OBVIOUS
  <2>2. /\ ok \/ troubles < MaxTroubles
        /\ troubles' = IF ok THEN troubles ELSE troubles + 1
        /\ UNCHANGED <<cur, opens, seen>>
    BY <1>0, <1>12, <2>1, LandIs
  <2> QED
    BY <1>1, <2>2
<1>13. CASE Leave
  BY <1>1, <1>13 DEF Leave
<1>14. ASSUME NEW kept \in BOOLEAN, Return(kept) PROVE Counted'
  BY <1>0, <1>14 DEF Return, Counted
<1> QED
  BY <1>3, <1>4, <1>5, <1>6, <1>7, <1>8, <1>9, <1>10, <1>11, <1>12, <1>13, <1>14, StepIs

LEMMA ClosuresStayCounted ==
  ASSUME TypesInv, PlacesInv, [Next]_vars
  PROVE  ClosuresCounted'
<1>0. /\ BridgeTypes /\ LinkTypes /\ PageTypes /\ Counted /\ ClosuresCounted /\ MaxTroubles \in Nat /\ MaxSeen \in Nat
      /\ MaxSeq \in Nat /\ Kinds \subseteq {"shell", "thread"}
  BY TypesAre, CountTypesAre, StreamAssumption
<1>t. /\ cl \in [1..MaxTroubles + 1 -> Closure] /\ decodes \in Seq(Decode)
      /\ troubles \in Nat /\ opens \in Nat
      /\ \A i \in 1..MaxTroubles + 1 : cl[i].gen \in Nat
      /\ \A k \in DOMAIN decodes : decodes[k].i \in 1..MaxTroubles + 1 /\ decodes[k].gen \in Nat
  <2>1. /\ cl \in [1..MaxTroubles + 1 -> Closure] /\ decodes \in Seq(Decode)
        /\ troubles \in Nat /\ opens \in Nat
    BY <1>0 DEF PageTypes, Counted
  <2>2. \A i \in 1..MaxTroubles + 1 : cl[i].gen \in Nat
    BY <2>1 DEF Closure
  <2>3. \A d \in Decode : d.i \in 1..MaxTroubles + 1 /\ d.gen \in Nat
    BY DEF Decode
  <2>4. \A k \in DOMAIN decodes : decodes[k] \in Decode
    BY <2>1
  <2>5. \A k \in DOMAIN decodes : decodes[k].i \in 1..MaxTroubles + 1 /\ decodes[k].gen \in Nat
    BY <2>3, <2>4, Zenon
  <2> QED
    BY <2>1, <2>2, <2>5
<1>1. ASSUME UNCHANGED <<cl, decodes>>, opens' \in {opens, opens + 1}, troubles' \in {troubles, troubles + 1}
      PROVE ClosuresCounted'
  <2>1. troubles' \in Nat /\ troubles <= troubles' /\ opens' \in Nat /\ opens <= opens'
    BY <1>1, <1>t
  <2>2. ASSUME NEW i \in 1..MaxTroubles + 1
        PROVE /\ cl[i].gen <= troubles' /\ (~cl[i].awaiting => cl[i].buffered = <<>>)
              /\ i > opens' => cl[i] = FreshClosure
    BY <2>1, <1>0, <1>t DEF ClosuresCounted
  <2>3. ASSUME NEW k \in DOMAIN decodes
        PROVE decodes[k].i <= opens' /\ decodes[k].gen <= cl[decodes[k].i].gen
    BY <2>1, <1>0, <1>t DEF ClosuresCounted
  <2> QED
    BY <2>2, <2>3, <1>1 DEF ClosuresCounted
<1>3. CASE UNCHANGED vars
  BY <1>1, <1>t, <1>3 DEF vars, page, hist
<1>4. ASSUME NEW c \in Logged, Append1(c) PROVE ClosuresCounted'
  BY <1>1, <1>t, <1>4 DEF Append1, page, hist
<1>5. CASE Prune
  BY <1>1, <1>t, <1>5 DEF Prune, page, hist
<1>6. ASSUME NEW marked \in BOOLEAN, Serve(marked) PROVE ClosuresCounted'
  BY <1>1, <1>t, <1>6 DEF Serve, page
<1>7. CASE Drop
  <2>1. /\ troubles' = troubles + 1 /\ UNCHANGED <<cur, decodes, opens>> /\ Dropped
    BY <1>7, DropIs
  <2>2. CASE UNCHANGED cl
    BY <1>1, <1>t, <2>1, <2>2
  <2>3. CASE cur \in 1..MaxTroubles + 1 /\ Anew(1..MaxTroubles + 1, cl, cur, cl')
    <3>1. /\ \A j \in 1..MaxTroubles + 1 : j # cur => cl'[j] = cl[j]
          /\ cl'[cur].gen = cl[cur].gen + 1 /\ cl'[cur].awaiting = FALSE /\ cl'[cur].buffered = <<>>
      BY <2>3 DEF Anew
    <3>2. ASSUME NEW i \in 1..MaxTroubles + 1
          PROVE /\ cl'[i].gen <= troubles' /\ (~cl'[i].awaiting => cl'[i].buffered = <<>>)
                /\ i > opens' => cl'[i] = FreshClosure
                /\ cl[i].gen <= cl'[i].gen
      <4>1. CASE i = cur
        <5>1. cl'[i].gen <= troubles' /\ cl[i].gen <= cl'[i].gen
          BY <3>1, <4>1, <2>1, <1>0, <1>t DEF ClosuresCounted
        <5>2. ~(i > opens')
          BY <4>1, <2>1, <1>0, <1>t DEF Counted
        <5> QED
          BY <5>1, <5>2, <3>1, <4>1
      <4>2. CASE i # cur
        BY <3>1, <4>2, <2>1, <1>0, <1>t DEF ClosuresCounted
      <4> QED
        BY <4>1, <4>2
    <3>3. ASSUME NEW k \in DOMAIN decodes
          PROVE decodes[k].i <= opens' /\ decodes[k].gen <= cl'[decodes[k].i].gen
      <4>1. decodes[k].i \in 1..MaxTroubles + 1
        BY <1>t
      <4>2. decodes[k].i <= opens /\ decodes[k].gen <= cl[decodes[k].i].gen
        BY <1>0 DEF ClosuresCounted
      <4>3. cl[decodes[k].i].gen <= cl'[decodes[k].i].gen
        BY <4>1, <3>2
      <4>4. cl'[decodes[k].i].gen \in Nat
        BY <4>1, <3>1, <1>t, <2>3
      <4> QED
        BY <4>1, <4>2, <4>3, <4>4, <2>1, <1>t
    <3> QED
      BY <2>1, <3>2, <3>3 DEF ClosuresCounted
  <2> QED
    BY <2>1, <2>2, <2>3 DEF Dropped
<1>8. CASE Retry
  BY <1>1, <1>t, <1>8 DEF Retry, page, hist
<1>9. CASE Wake
  BY <1>1, <1>t, <1>9 DEF Wake, page
<1>10. CASE Gone
  BY <1>1, <1>t, <1>10 DEF Gone, hist
<1>11. CASE Deliver
  <2>1. PICK f : f = wire[1]
    OBVIOUS
  <2>2. UNCHANGED <<kind, cur, opens, troubles>> /\ Taking(f) /\ f \in Frame /\ source = "live" /\ Len(wire) >= 1
    BY <1>0, <1>11, <2>1, DeliverIs
  <2>3. cur # 0 /\ f.n \in 0..MaxSeq /\ cur \in 1..MaxTroubles + 1
    BY <2>2, <1>0 DEF PlacesInv, Frame, PageTypes
  <2>4. f.t = "event" => f.n # 0
    BY <1>0, <2>1, <2>2, CountTypesAre, TypesAre DEF EventsNumbered, BridgeTypes
  <2>5. CASE UNCHANGED <<cl, decodes>>
    BY <1>1, <1>t, <2>2, <2>5
  <2>6. ASSUME \A j \in 1..MaxTroubles + 1 : j # cur => cl'[j] = cl[j],
               cl'[cur].gen = cl[cur].gen,
               ~cl'[cur].awaiting => cl'[cur].buffered = <<>>
        PROVE /\ \A i \in 1..MaxTroubles + 1 :
                   /\ cl'[i].gen <= troubles' /\ (~cl'[i].awaiting => cl'[i].buffered = <<>>)
                   /\ i > opens' => cl'[i] = FreshClosure
              /\ \A i \in 1..MaxTroubles + 1 : cl'[i].gen = cl[i].gen
    <3> SUFFICES ASSUME NEW i \in 1..MaxTroubles + 1
                 PROVE /\ cl'[i].gen <= troubles' /\ (~cl'[i].awaiting => cl'[i].buffered = <<>>)
                       /\ i > opens' => cl'[i] = FreshClosure
                       /\ cl'[i].gen = cl[i].gen
      OBVIOUS
    <3>1. CASE i = cur
      <4>1. ~(i > opens')
        BY <3>1, <2>2, <1>0, <1>t DEF Counted
      <4>2. cl'[i].gen <= troubles'
        BY <3>1, <2>6, <2>2, <1>0, <1>t DEF ClosuresCounted
      <4> QED
        BY <4>1, <4>2, <2>6, <3>1
    <3>2. CASE i # cur
      BY <3>2, <2>6, <2>2, <1>0, <1>t DEF ClosuresCounted
    <3> QED
      BY <3>1, <3>2
  <2>7. ASSUME \A i \in 1..MaxTroubles + 1 : cl'[i].gen = cl[i].gen, UNCHANGED decodes
        PROVE  \A k \in DOMAIN decodes' : decodes'[k].i <= opens' /\ decodes'[k].gen <= cl'[decodes'[k].i].gen
    <3> SUFFICES ASSUME NEW k \in DOMAIN decodes
                 PROVE decodes[k].i <= opens /\ decodes[k].gen <= cl'[decodes[k].i].gen
      BY <2>7, <2>2
    <3> QED
      BY <2>7, <1>0, <1>t DEF ClosuresCounted
  <2>8. CASE TookSnapshot(f.n)
    <3>1. CASE UNCHANGED <<cl, decodes>>
      BY <2>5, <3>1
    <3>2. ASSUME /\ decodes' \in Seq(Decode) /\ Len(decodes') = Len(decodes) + 1
                 /\ \A k \in 1..Len(decodes) : decodes'[k] = decodes[k]
                 /\ decodes'[Len(decodes) + 1] = [i |-> cur, gen |-> cl[cur].gen, n |-> f.n],
                 Cleared(1..MaxTroubles + 1, cl, cur, FALSE, TRUE, cl')
          PROVE ClosuresCounted'
      <4>1. /\ \A i \in 1..MaxTroubles + 1 :
                   /\ cl'[i].gen <= troubles' /\ (~cl'[i].awaiting => cl'[i].buffered = <<>>)
                   /\ i > opens' => cl'[i] = FreshClosure
            /\ \A i \in 1..MaxTroubles + 1 : cl'[i].gen = cl[i].gen
        BY <3>2, <2>6 DEF Cleared
      <4>2. ASSUME NEW k \in DOMAIN decodes'
            PROVE  decodes'[k].i <= opens' /\ decodes'[k].gen <= cl'[decodes'[k].i].gen
        <5>1. k \in 1..Len(decodes) \/ k = Len(decodes) + 1
          BY <3>2, <1>t
        <5>2. CASE k \in 1..Len(decodes)
          <6>1. k \in DOMAIN decodes /\ decodes'[k] = decodes[k]
            BY <5>2, <3>2, <1>t
          <6> QED
            BY <6>1, <4>1, <2>2, <1>0, <1>t DEF ClosuresCounted
        <5>3. CASE k = Len(decodes) + 1
          <6>1. decodes'[k].i = cur /\ decodes'[k].gen = cl[cur].gen
            BY <3>2, <5>3
          <6> QED
            BY <6>1, <4>1, <2>2, <2>3, <1>0, <1>t DEF Counted
        <5> QED
          BY <5>1, <5>2, <5>3
      <4> QED
        BY <4>1, <4>2 DEF ClosuresCounted
    <3> QED
      BY <2>8, <3>1, <3>2 DEF TookSnapshot
  <2>9. CASE TookEvent(f.n)
    <3>1. CASE UNCHANGED <<cl, decodes>>
      BY <2>5, <3>1
    <3>2. ASSUME UNCHANGED decodes, cl[cur].awaiting, Keeping(1..MaxTroubles + 1, cl, cur, f.n, cl')
          PROVE ClosuresCounted'
      BY <3>2, <2>6, <2>7 DEF ClosuresCounted, Keeping
    <3> QED
      BY <2>9, <3>1, <3>2 DEF TookEvent
  <2>10. CASE TookSynchronized(f.n)
    <3>1. CASE UNCHANGED <<cl, decodes>>
      BY <2>5, <3>1
    <3>2. ASSUME UNCHANGED decodes, Seeing(1..MaxTroubles + 1, cl, cur, cl')
          PROVE ClosuresCounted'
      <4>1. ~cl[cur].awaiting => cl[cur].buffered = <<>>
        BY <1>0, <2>3 DEF ClosuresCounted
      <4> QED
        BY <4>1, <3>2, <2>6, <2>7 DEF ClosuresCounted, Seeing
    <3> QED
      BY <2>10, <3>1, <3>2 DEF TookSynchronized
  <2> QED
    BY <2>2, <2>3, <2>4, <2>5, <2>8, <2>9, <2>10, <1>0, TakingIs DEF Taking
<1>12. ASSUME NEW k \in 1..Len(decodes), NEW ok \in BOOLEAN, Land(k, ok) PROVE ClosuresCounted'
  <2>1. PICK d : d = decodes[k]
    OBVIOUS
  <2>2. /\ ok \/ troubles < MaxTroubles
        /\ troubles' = IF ok THEN troubles ELSE troubles + 1
        /\ UNCHANGED <<cur, opens, seen>>
        /\ Others(k) /\ d \in Decode
        /\ Taking1(d, ok) \/ (~Taken(d) /\ UNCHANGED <<st, cl, raced>>)
    BY <1>0, <1>12, <2>1, LandIs
  <2>3. troubles' \in Nat /\ troubles <= troubles' /\ opens' = opens
    BY <2>2, <1>t
  <2>4. d.i \in 1..MaxTroubles + 1 /\ d.i <= opens
    BY <2>1, <1>0, <1>t DEF ClosuresCounted
  <2>5. ASSUME NEW i \in 1..MaxTroubles + 1
        PROVE  /\ cl'[i].gen = cl[i].gen
               /\ ~cl'[i].awaiting => cl'[i].buffered = <<>>
               /\ i > opens => cl'[i] = FreshClosure
    <3>1. CASE UNCHANGED cl
      BY <3>1, <1>0 DEF ClosuresCounted
    <3>2. CASE Taking1(d, ok) /\ i = d.i
      BY <3>2, <2>4, <1>t DEF Taking1
    <3>3. CASE Taking1(d, ok) /\ i # d.i
      <4>1. cl'[i] = cl[i]
        BY <3>3 DEF Taking1
      <4> QED
        BY <4>1, <1>0 DEF ClosuresCounted
    <3> QED
      BY <2>2, <3>1, <3>2, <3>3
  <2>6. ASSUME NEW i \in 1..MaxTroubles + 1 PROVE cl'[i].gen <= troubles'
    <3>1. cl[i].gen <= troubles
      BY <1>0 DEF ClosuresCounted
    <3> QED
      BY <3>1, <2>3, <2>5, <1>t
  <2>7. ASSUME NEW j \in DOMAIN decodes'
        PROVE  decodes'[j].i <= opens /\ decodes'[j].gen <= cl'[decodes'[j].i].gen
    <3>1. PICK m : m = IF j < k THEN j ELSE j + 1
      OBVIOUS
    <3>2. decodes'[j] = decodes[m] /\ m \in DOMAIN decodes
      BY <3>1, <2>2, <1>t DEF Others
    <3>3. decodes[m].i <= opens /\ decodes[m].gen <= cl[decodes[m].i].gen /\ decodes[m].i \in 1..MaxTroubles + 1
      BY <3>2, <1>0, <1>t DEF ClosuresCounted
    <3>4. cl'[decodes[m].i].gen = cl[decodes[m].i].gen
      BY <3>3, <2>5
    <3> QED
      BY <3>2, <3>3, <3>4
  <2> QED
    BY <2>3, <2>5, <2>6, <2>7 DEF ClosuresCounted
<1>13. CASE Leave
  BY <1>1, <1>t, <1>13 DEF Leave
<1>14. ASSUME NEW kept \in BOOLEAN, Return(kept) PROVE ClosuresCounted'
  BY <1>1, <1>t, <1>14 DEF Return
<1> QED
  BY <1>3, <1>4, <1>5, <1>6, <1>7, <1>8, <1>9, <1>10, <1>11, <1>12, <1>13, <1>14, StepIs

\* The types are inductive once it is known where each kind of page may be.
LEMMA Typed ==
  ASSUME TypesInv, PlacesInv, [Next]_vars
  PROVE  TypesInv'
<1>1. BridgeTypes' /\ LinkTypes' /\ PageTypes'
  BY BridgeTyped, LinkTyped, PageTyped
<1>2. Counted' /\ ClosuresCounted' /\ EventsNumbered'
  BY CountsStay, ClosuresStayCounted, EventsStayNumbered
<1>3. CountTypes'
  BY <1>2 DEF CountTypes, Counted, ClosuresCounted, EventsNumbered
<1> QED
  BY <1>1, <1>3 DEF TypesInv, TypeOK, BridgeTypes, LinkTypes, PageTypes, CountTypes, Logged

-----------------------------------------------------------------------------
(* Places are kept. *)

ShellPlace ==
  kind = "shell" => cur = 1 /\ decodes = <<>> /\ \A i \in DOMAIN cl : ~cl[i].awaiting

LinkPlace ==
  /\ source # "live" => wire = <<>> /\ ~served
  /\ cur = 0 => source = "none"

SnapshotFirst == \A k \in DOMAIN wire : wire[k].t = "snapshot" => k = 1

LEMMA PlacesAre == PlacesInv <=> ShellPlace /\ LinkPlace /\ SnapshotFirst
BY DEF PlacesInv, ShellPlace, LinkPlace, SnapshotFirst

LEMMA ShellStays ==
  ASSUME TypesInv, PlacesInv, [Next]_vars
  PROVE  ShellPlace'
<1>0. /\ BridgeTypes /\ LinkTypes /\ PageTypes /\ CountTypes /\ MaxTroubles \in Nat /\ MaxSeq \in Nat
      /\ Kinds \subseteq {"shell", "thread"} /\ ShellPlace
  BY TypesAre, PlacesAre, StreamAssumption
<1>1. ASSUME UNCHANGED <<kind, cur, cl, decodes>> PROVE ShellPlace'
  BY <1>0, <1>1 DEF ShellPlace
<1>2. ASSUME kind = "thread", UNCHANGED kind PROVE ShellPlace'
  BY <1>2 DEF ShellPlace
<1>3. CASE UNCHANGED vars
  BY <1>1, <1>3 DEF vars, page
<1>4. ASSUME NEW c \in Logged, Append1(c) PROVE ShellPlace'
  BY <1>1, <1>4 DEF Append1, page
<1>5. CASE Prune
  BY <1>1, <1>5 DEF Prune, page
<1>6. ASSUME NEW marked \in BOOLEAN, Serve(marked) PROVE ShellPlace'
  BY <1>1, <1>6 DEF Serve, page
<1>7. CASE Drop
  <2>1. UNCHANGED <<kind, cur, decodes>> /\ Dropped
    BY <1>7, DropIs
  <2> QED
    BY <2>1, <1>1, <1>2 DEF Dropped
<1>8. CASE Retry
  BY <1>1, <1>8 DEF Retry, page
<1>9. CASE Wake
  BY <1>1, <1>9 DEF Wake, page
<1>10. CASE Gone
  BY <1>2, <1>10 DEF Gone
<1>11. CASE Deliver
  <2>1. PICK f : f = wire[1]
    OBVIOUS
  <2>2. UNCHANGED <<kind, cur, opens, troubles>> /\ Taking(f)
    BY <1>0, <1>11, <2>1, DeliverIs
  <2>3. CASE kind = "thread"
    BY <1>2, <2>2, <2>3
  <2>4. CASE kind = "shell"
    <3>1. UNCHANGED <<cl, decodes>>
      BY <2>2, <2>4 DEF Taking, TakeSnapshot, TakeEvent, TakeSynchronized
    <3> QED
      BY <3>1, <2>2, <1>1
  <2> QED
    BY <2>3, <2>4, <1>0 DEF LinkTypes
<1>12. ASSUME NEW k \in 1..Len(decodes), NEW ok \in BOOLEAN, Land(k, ok) PROVE ShellPlace'
  <2>1. kind # "shell"
    BY <1>0, <1>12 DEF ShellPlace
  <2>2. UNCHANGED kind
    BY <1>12 DEF Land
  <2> QED
    BY <2>1, <2>2, <1>2, <1>0 DEF LinkTypes
<1>13. CASE Leave
  BY <1>2, <1>13 DEF Leave
<1>14. ASSUME NEW kept \in BOOLEAN, Return(kept) PROVE ShellPlace'
  BY <1>2, <1>14 DEF Return
<1> QED
  BY <1>3, <1>4, <1>5, <1>6, <1>7, <1>8, <1>9, <1>10, <1>11, <1>12, <1>13, <1>14, StepIs

LEMMA LinkStays ==
  ASSUME TypesInv, PlacesInv, [Next]_vars
  PROVE  LinkPlace'
<1>0. /\ BridgeTypes /\ LinkTypes /\ PageTypes /\ CountTypes /\ MaxTroubles \in Nat /\ MaxSeq \in Nat
      /\ Kinds \subseteq {"shell", "thread"} /\ ShellPlace /\ LinkPlace
  BY TypesAre, PlacesAre, StreamAssumption
<1>1. ASSUME UNCHANGED <<cur, source, wire, served>> PROVE LinkPlace'
  BY <1>0, <1>1 DEF LinkPlace
<1>2. ASSUME Close, cur' = 0 => source' = "none" PROVE LinkPlace'
  <2>1. wire' = <<>> /\ served' = FALSE
    BY <1>2 DEF Close
  <2>2. ~served'
    BY <2>1
  <2> QED
    BY <2>1, <2>2, <1>2 DEF LinkPlace
<1>3. CASE UNCHANGED vars
  BY <1>1, <1>3 DEF vars, page, conn, server
<1>4. ASSUME NEW c \in Logged, Append1(c) PROVE LinkPlace'
  <2>1. Wrote(c)
    BY <1>0, <1>4, Written
  <2>2. UNCHANGED <<cur, source>>
    BY <1>4 DEF Append1, page
  <2>3. CASE served
    BY <2>2, <2>3, <1>0 DEF LinkPlace
  <2>4. CASE ~served
    BY <2>1, <2>2, <2>4, <1>0 DEF LinkPlace, Wrote
  <2> QED
    BY <2>3, <2>4
<1>5. CASE Prune
  BY <1>1, <1>5 DEF Prune, page, conn
<1>6. ASSUME NEW marked \in BOOLEAN, Serve(marked) PROVE LinkPlace'
  BY <1>0, <1>6 DEF Serve, page, LinkPlace
<1>7. CASE Drop
  BY <1>2, <1>7 DEF Drop
<1>8. CASE Retry
  <2>1. cur # 0
    BY <1>8, <1>0 DEF Retry, Running, ShellPlace
  <2>2. UNCHANGED <<cur, wire, served>> /\ source # "live"
    BY <1>8 DEF Retry, page, server
  <2> QED
    BY <2>1, <2>2, <1>0 DEF LinkPlace
<1>9. CASE Wake
  <2>1. cur # 0 /\ UNCHANGED cur
    BY <1>9, <1>0 DEF Wake, Running, ShellPlace, page
  <2> QED
    BY <2>1, <1>2, <1>9 DEF Wake
<1>10. CASE Gone
  BY <1>2, <1>10 DEF Gone
<1>11. CASE Deliver
  <2>1. PICK f : f = wire[1]
    OBVIOUS
  <2>2. UNCHANGED <<kind, cur, opens, troubles>> /\ Taking(f) /\ source = "live"
    BY <1>0, <1>11, <2>1, DeliverIs
  <2>3. CASE Close
    BY <2>2, <2>3, <1>2, <1>0 DEF LinkPlace
  <2>4. CASE Rest
    BY <2>2, <2>4, <1>0 DEF LinkPlace, Rest
  <2> QED
    BY <2>2, <2>3, <2>4 DEF Taking
<1>12. ASSUME NEW k \in 1..Len(decodes), NEW ok \in BOOLEAN, Land(k, ok) PROVE LinkPlace'
  BY <1>1, <1>12 DEF Land, conn, server
<1>13. CASE Leave
  BY <1>2, <1>13 DEF Leave
<1>14. ASSUME NEW kept \in BOOLEAN, Return(kept) PROVE LinkPlace'
  <2>1. cur = 0 /\ cur' = opens + 1 /\ opens \in Nat /\ UNCHANGED <<wire, served>>
    BY <1>14, <1>0 DEF Return, server, CountTypes
  <2> QED
    BY <2>1, <1>0 DEF LinkPlace
<1> QED
  BY <1>3, <1>4, <1>5, <1>6, <1>7, <1>8, <1>9, <1>10, <1>11, <1>12, <1>13, <1>14, StepIs

LEMMA SnapshotStaysFirst ==
  ASSUME TypesInv, PlacesInv, [Next]_vars
  PROVE  SnapshotFirst'
<1>0. /\ BridgeTypes /\ LinkTypes /\ PageTypes /\ SnapshotFirst
      /\ MaxSeq \in Nat /\ MaxBehind \in Nat \ {0}
  BY TypesAre, PlacesAre, StreamAssumption
<1>1. ASSUME UNCHANGED wire PROVE SnapshotFirst'
  BY <1>0, <1>1 DEF SnapshotFirst
<1>2. ASSUME Close PROVE SnapshotFirst'
  BY <1>2 DEF SnapshotFirst, Close
<1>3. CASE UNCHANGED vars
  BY <1>1, <1>3 DEF vars, conn
<1>4. ASSUME NEW c \in Logged, Append1(c) PROVE SnapshotFirst'
  <2>1. last + 1 \in 1..MaxSeq /\ Wrote(c)
    BY <1>0, <1>4, Written
  <2>2. CASE UNCHANGED wire
    BY <1>1, <2>2
  <2>3. CASE ~UNCHANGED wire
    <3>1. wire \in Seq(Frame) /\ wire' \in Seq(Frame)
      BY <2>1, <2>3, <1>0 DEF Wrote, BridgeTypes
    <3> SUFFICES ASSUME NEW k \in 1..Len(wire'), wire'[k].t = "snapshot" PROVE k = 1
      BY <3>1 DEF SnapshotFirst
    <3>2. CASE k \in 1..Len(wire)
      BY <3>1, <3>2, <2>1, <2>3, <1>0 DEF Wrote, SnapshotFirst
    <3>3. CASE k = Len(wire) + 1
      BY <3>1, <3>3, <2>1, <2>3 DEF Wrote
    <3>4. CASE k > Len(wire) + 1
      BY <3>1, <3>4, <2>1, <2>3 DEF Wrote
    <3> QED
      BY <3>1, <3>2, <3>3, <3>4
  <2> QED
    BY <2>2, <2>3
<1>5. CASE Prune
  BY <1>1, <1>5 DEF Prune, conn
<1>6. ASSUME NEW marked \in BOOLEAN, Serve(marked) PROVE SnapshotFirst'
  <2>1. PICK w : w = CatchUp
    OBVIOUS
  <2>2. /\ wire' \in Seq(Frame) /\ Len(wire') = Len(w) + 1
        /\ \A k \in 1..Len(w) : wire'[k] = w[k]
        /\ wire'[Len(w) + 1] = [t |-> "synchronized", n |-> last]
    BY <1>0, <1>6, <2>1, ServedIs
  <2>3. Catching(w)
    BY <1>0, <2>1, Caught
  <2>4. ASSUME NEW k \in 1..Len(w), w[k].t = "snapshot" PROVE k = 1
    BY <2>3, <2>4, <1>0 DEF Catching, LinkTypes
  <2> SUFFICES ASSUME NEW k \in 1..Len(wire'), wire'[k].t = "snapshot" PROVE k = 1
    BY <2>2 DEF SnapshotFirst
  <2>5. Len(w) \in Nat
    BY <2>3 DEF Catching
  <2>6. CASE k \in 1..Len(w)
    BY <2>2, <2>4, <2>6
  <2>7. CASE k = Len(w) + 1
    BY <2>2, <2>7
  <2> QED
    BY <2>2, <2>5, <2>6, <2>7
<1>7. CASE Drop
  BY <1>2, <1>7 DEF Drop
<1>8. CASE Retry
  BY <1>1, <1>8 DEF Retry
<1>9. CASE Wake
  BY <1>2, <1>9 DEF Wake
<1>10. CASE Gone
  BY <1>2, <1>10 DEF Gone
<1>11. CASE Deliver
  <2>1. PICK f : f = wire[1]
    OBVIOUS
  <2>2. Taking(f) /\ Len(wire) \in Nat
    BY <1>0, <1>11, <2>1, DeliverIs
  <2>3. CASE Close
    BY <1>2, <2>3
  <2>4. CASE Rest
    <3>1. wire \in Seq(Frame)
      BY <1>0 DEF BridgeTypes
    <3> QED
      BY <3>1, <1>0, <2>2, <2>4 DEF Rest, SnapshotFirst
  <2> QED
    BY <2>2, <2>3, <2>4 DEF Taking
<1>12. ASSUME NEW k \in 1..Len(decodes), NEW ok \in BOOLEAN, Land(k, ok) PROVE SnapshotFirst'
  BY <1>1, <1>12 DEF Land, conn
<1>13. CASE Leave
  BY <1>2, <1>13 DEF Leave
<1>14. ASSUME NEW kept \in BOOLEAN, Return(kept) PROVE SnapshotFirst'
  BY <1>1, <1>14 DEF Return
<1> QED
  BY <1>3, <1>4, <1>5, <1>6, <1>7, <1>8, <1>9, <1>10, <1>11, <1>12, <1>13, <1>14, StepIs

\* Each kind of page stays where it may be.
LEMMA Placed ==
  ASSUME TypesInv, PlacesInv, [Next]_vars
  PROVE  PlacesInv'
<1>1. ShellPlace' /\ LinkPlace' /\ SnapshotFirst'
  BY ShellStays, LinkStays, SnapshotStaysFirst
<1> QED
  BY <1>1 DEF PlacesInv, ShellPlace, LinkPlace, SnapshotFirst

-----------------------------------------------------------------------------
(* Bounds are kept. *)

\* The state and the cursor; the snapshots under way; what is kept back.
ShownIn(n) == st.seq <= n /\ cursor <= n
ComingIn(n) == \A k \in DOMAIN decodes : decodes[k].n <= n
KeptIn(n) == \A i \in DOMAIN cl : \A j \in DOMAIN cl[i].buffered : cl[i].buffered[j] <= n

LEMMA WithinIs ==
  ASSUME NEW n PROVE Within(n) <=> ShownIn(n) /\ ComingIn(n) /\ KeptIn(n)
BY DEF Within, ShownIn, ComingIn, KeptIn

\* Nothing goes above n that a step does not take from a frame or from the cache.
LEMMA ShownStaysIn ==
  ASSUME TypesInv, PlacesInv, [Next]_vars, NEW n \in Nat, Within(n),
         Deliver => wire[1].n <= n, cur = 0 => cache.seq <= n
  PROVE  ShownIn(n)'
<1>0. /\ BridgeTypes /\ LinkTypes /\ PageTypes /\ CountTypes /\ MaxTroubles \in Nat /\ MaxSeq \in Nat
      /\ Kinds \subseteq {"shell", "thread"} /\ LinkPlace
      /\ ShownIn(n) /\ ComingIn(n) /\ KeptIn(n)
  BY TypesAre, PlacesAre, WithinIs, StreamAssumption
<1>1. ASSUME st'.seq = st.seq \/ st'.seq = 0, UNCHANGED cursor PROVE ShownIn(n)'
  BY <1>0, <1>1 DEF ShownIn
<1>2. EmptyState.seq = 0
  BY DEF EmptyState
<1>3. CASE UNCHANGED vars
  BY <1>1, <1>3 DEF vars, page
<1>4. ASSUME NEW c \in Logged, Append1(c) PROVE ShownIn(n)'
  BY <1>1, <1>4 DEF Append1, page
<1>5. CASE Prune
  BY <1>1, <1>5 DEF Prune, page
<1>6. ASSUME NEW marked \in BOOLEAN, Serve(marked) PROVE ShownIn(n)'
  BY <1>1, <1>6 DEF Serve, page
<1>7. CASE Drop
  <2>1. UNCHANGED <<kind, cur, decodes, cursor>> /\ Dropped
    BY <1>7, DropIs
  <2>2. st'.seq = st.seq
    BY <2>1 DEF Dropped
  <2> QED
    BY <2>1, <2>2, <1>1
<1>8. CASE Retry
  BY <1>1, <1>8 DEF Retry, page
<1>9. CASE Wake
  BY <1>1, <1>9 DEF Wake, page
<1>10. CASE Gone
  BY <1>1, <1>2, <1>10 DEF Gone
<1>11. CASE Deliver
  <2>1. PICK f : f = wire[1]
    OBVIOUS
  <2>2. UNCHANGED <<kind, cur, opens, troubles>> /\ Taking(f) /\ f \in Frame /\ source = "live" /\ Len(wire) >= 1
    BY <1>0, <1>11, <2>1, DeliverIs
  <2>3. cur # 0 /\ f.n \in 0..MaxSeq /\ f.n <= n
    BY <2>1, <2>2, <1>0, <1>11 DEF LinkPlace, Frame
  <2>4. f.t = "event" => f.n # 0
    BY <1>0, <2>1, <2>2 DEF CountTypes, BridgeTypes
  <2>5. CASE UNCHANGED <<st, cursor>>
    BY <1>1, <2>2, <2>5
  <2>6. CASE TookSnapshot(f.n)
    BY <2>6, <2>3, <1>0 DEF TookSnapshot, ShownIn
  <2>7. CASE TookEvent(f.n)
    BY <2>7, <2>3, <1>0 DEF TookEvent, ShownIn
  <2>8. CASE TookSynchronized(f.n)
    <3>1. st'.seq = st.seq /\ cursor' \in {cursor, f.n}
      BY <2>8 DEF TookSynchronized
    <3> QED
      BY <3>1, <2>3, <1>0 DEF ShownIn
  <2> QED
    BY <2>2, <2>3, <2>4, <2>5, <2>6, <2>7, <2>8, <1>0, TakingIs DEF Taking
<1>12. ASSUME NEW k \in 1..Len(decodes), NEW ok \in BOOLEAN, Land(k, ok) PROVE ShownIn(n)'
  <2>1. PICK d : d = decodes[k]
    OBVIOUS
  <2>2. /\ UNCHANGED cursor /\ d \in Decode
        /\ Taking1(d, ok) \/ (~Taken(d) /\ UNCHANGED <<st, cl, raced>>)
    BY <1>0, <1>12, <2>1, LandIs
  <2>3. CASE Taking1(d, ok)
    <3>1. PICK s : s = IF ok THEN FromSnapshot(d.n) ELSE st
      OBVIOUS
    <3>2. PICK q : q = cl[d.i].buffered
      OBVIOUS
    <3>3. PICK r : r = ApplyAll(s, q) /\ st'.seq = r.seq
      BY <2>3, <3>1, <3>2 DEF Taking1
    <3>4. d.n \in 0..MaxSeq /\ d.i \in 1..MaxTroubles + 1 /\ st \in State
          /\ cl \in [1..MaxTroubles + 1 -> Closure]
      BY <2>2, <1>0 DEF Decode, PageTypes
    <3>5. s \in State /\ s.seq <= n
      <4>1. d.n <= n /\ st.seq <= n
        BY <2>1, <1>12, <1>0 DEF ComingIn, ShownIn, PageTypes
      <4> QED
        BY <4>1, <3>1, <3>4, StateIs
    <3>6. q \in Seq(1..MaxSeq) /\ \A j \in 1..Len(q) : q[j] <= n
      <4>1. q \in Seq(1..MaxSeq)
        BY <3>2, <3>4 DEF Closure
      <4> QED
        BY <4>1, <3>2, <3>4, <1>0 DEF KeptIn
    <3>7. r.seq = s.seq \/ \E j \in 1..Len(q) : r.seq = q[j]
      BY <3>3, <3>5, <3>6, Folded
    <3> QED
      BY <3>3, <3>5, <3>6, <3>7, <2>2, <1>0 DEF ShownIn
  <2>4. CASE UNCHANGED <<st, cl, raced>>
    BY <2>2, <2>4, <1>1
  <2> QED
    BY <2>2, <2>3, <2>4
<1>13. CASE Leave
  BY <1>1, <1>2, <1>13 DEF Leave
<1>14. ASSUME NEW kept \in BOOLEAN, Return(kept) PROVE ShownIn(n)'
  <2>1. /\ cache' = (IF kept THEN cache ELSE EmptyState) /\ cur = 0 /\ UNCHANGED cursor
        /\ st' = [cache' EXCEPT !.syncing = TRUE]
    BY <1>14 DEF Return
  <2>2. cache \in State /\ EmptyState \in State
    BY <1>0 DEF PageTypes, EmptyState, State
  <2>3. cache' \in State /\ cache'.seq <= n
    BY <2>1, <2>2, <1>2
  <2>4. st'.seq = cache'.seq
    BY <2>1, <2>3 DEF State
  <2> QED
    BY <2>1, <2>3, <2>4, <1>0 DEF ShownIn
<1> QED
  BY <1>3, <1>4, <1>5, <1>6, <1>7, <1>8, <1>9, <1>10, <1>11, <1>12, <1>13, <1>14, StepIs

LEMMA ComingStaysIn ==
  ASSUME TypesInv, PlacesInv, [Next]_vars, NEW n \in Nat, Within(n),
         Deliver => wire[1].n <= n
  PROVE  ComingIn(n)' /\ KeptIn(n)'
<1>0. /\ BridgeTypes /\ LinkTypes /\ PageTypes /\ CountTypes /\ MaxTroubles \in Nat /\ MaxSeq \in Nat
      /\ Kinds \subseteq {"shell", "thread"} /\ LinkPlace
      /\ ShownIn(n) /\ ComingIn(n) /\ KeptIn(n)
  BY TypesAre, PlacesAre, WithinIs, StreamAssumption
<1>t. cl \in [1..MaxTroubles + 1 -> Closure] /\ decodes \in Seq(Decode)
  BY <1>0 DEF PageTypes
<1>1. ASSUME UNCHANGED <<cl, decodes>> PROVE ComingIn(n)' /\ KeptIn(n)'
  BY <1>0, <1>1 DEF ComingIn, KeptIn
<1>2. ASSUME cl' \in [1..MaxTroubles + 1 -> Closure], NEW i,
             \A j \in 1..MaxTroubles + 1 : j # i => cl'[j] = cl[j],
             \A j \in DOMAIN cl'[i].buffered : cl'[i].buffered[j] <= n
      PROVE  KeptIn(n)'
  <2> SUFFICES ASSUME NEW x \in 1..MaxTroubles + 1, NEW j \in DOMAIN cl'[x].buffered
               PROVE  cl'[x].buffered[j] <= n
    BY <1>2 DEF KeptIn
  <2>1. CASE x = i
    BY <2>1, <1>2
  <2>2. CASE x # i
    BY <2>2, <1>2, <1>0, <1>t DEF KeptIn
  <2> QED
    BY <2>1, <2>2
<1>3. CASE UNCHANGED vars
  BY <1>1, <1>3 DEF vars, page
<1>4. ASSUME NEW c \in Logged, Append1(c) PROVE ComingIn(n)' /\ KeptIn(n)'
  BY <1>1, <1>4 DEF Append1, page
<1>5. CASE Prune
  BY <1>1, <1>5 DEF Prune, page
<1>6. ASSUME NEW marked \in BOOLEAN, Serve(marked) PROVE ComingIn(n)' /\ KeptIn(n)'
  BY <1>1, <1>6 DEF Serve, page
<1>7. CASE Drop
  <2>1. UNCHANGED <<kind, cur, decodes, cursor>> /\ Dropped
    BY <1>7, DropIs
  <2>2. CASE UNCHANGED cl
    BY <2>1, <2>2, <1>1
  <2>3. CASE Anew(1..MaxTroubles + 1, cl, cur, cl')
    <3>1. /\ cl' \in [1..MaxTroubles + 1 -> Closure]
          /\ \A j \in 1..MaxTroubles + 1 : j # cur => cl'[j] = cl[j]
          /\ cl'[cur].buffered = <<>>
      BY <2>3 DEF Anew
    <3>2. KeptIn(n)'
      BY <3>1, <1>2
    <3>3. ComingIn(n)'
      BY <2>1, <1>0 DEF ComingIn
    <3> QED
      BY <3>2, <3>3
  <2> QED
    BY <2>1, <2>2, <2>3 DEF Dropped
<1>8. CASE Retry
  BY <1>1, <1>8 DEF Retry, page
<1>9. CASE Wake
  BY <1>1, <1>9 DEF Wake, page
<1>10. CASE Gone
  BY <1>1, <1>10 DEF Gone
<1>11. CASE Deliver
  <2>1. PICK f : f = wire[1]
    OBVIOUS
  <2>2. UNCHANGED <<kind, cur, opens, troubles>> /\ Taking(f) /\ f \in Frame /\ source = "live" /\ Len(wire) >= 1
    BY <1>0, <1>11, <2>1, DeliverIs
  <2>3. cur # 0 /\ f.n \in 0..MaxSeq /\ f.n <= n /\ cur \in 1..MaxTroubles + 1
    BY <2>1, <2>2, <1>0, <1>11 DEF LinkPlace, Frame, PageTypes
  <2>4. f.t = "event" => f.n # 0
    BY <1>0, <2>1, <2>2 DEF CountTypes, BridgeTypes
  <2>5. CASE UNCHANGED <<cl, decodes>>
    BY <1>1, <2>2, <2>5
  <2>6. ASSUME TookSnapshot(f.n), ~UNCHANGED <<cl, decodes>> PROVE ComingIn(n)' /\ KeptIn(n)'
    <3>1. /\ decodes' \in Seq(Decode) /\ Len(decodes') = Len(decodes) + 1
          /\ \A k \in 1..Len(decodes) : decodes'[k] = decodes[k]
          /\ decodes'[Len(decodes) + 1] = [i |-> cur, gen |-> cl[cur].gen, n |-> f.n]
          /\ Cleared(1..MaxTroubles + 1, cl, cur, FALSE, TRUE, cl')
      BY <2>6 DEF TookSnapshot
    <3>2. KeptIn(n)'
      BY <3>1, <1>2 DEF Cleared
    <3>3. \A k \in 1..Len(decodes) : decodes[k].n <= n
      BY <1>0, <1>t DEF ComingIn
    <3>4. decodes'[Len(decodes) + 1].n = f.n
      BY <3>1
    <3>5. ASSUME NEW k \in DOMAIN decodes' PROVE decodes'[k].n <= n
      <4>1. k \in 1..Len(decodes) \/ k = Len(decodes) + 1
        BY <3>1, <1>t
      <4> QED
        BY <4>1, <3>1, <3>3, <3>4, <2>3
    <3> QED
      BY <3>2, <3>5 DEF ComingIn
  <2>7. ASSUME TookEvent(f.n), ~UNCHANGED <<cl, decodes>> PROVE ComingIn(n)' /\ KeptIn(n)'
    <3>1. UNCHANGED decodes /\ Keeping(1..MaxTroubles + 1, cl, cur, f.n, cl')
      BY <2>7 DEF TookEvent
    <3>2. PICK b : b = cl[cur].buffered
      OBVIOUS
    <3>3. cl'[cur].buffered = Append(b, f.n) /\ b \in Seq(1..MaxSeq) /\ \A j \in 1..Len(b) : b[j] <= n
      <4>1. b \in Seq(1..MaxSeq)
        BY <3>2, <2>3, <1>t DEF Closure
      <4>2. cl'[cur].buffered = Append(b, f.n)
        BY <3>1, <3>2 DEF Keeping
      <4>3. \A j \in DOMAIN b : b[j] <= n
        BY <3>2, <2>3, <1>t, <1>0 DEF KeptIn
      <4> QED
        BY <4>1, <4>2, <4>3
    <3>4. \A j \in DOMAIN cl'[cur].buffered : cl'[cur].buffered[j] <= n
      <4>1. ASSUME NEW j \in 1..Len(b) + 1 PROVE Append(b, f.n)[j] <= n
        BY <3>3, <2>3
      <4>2. DOMAIN Append(b, f.n) = 1..Len(b) + 1
        BY <3>3
      <4> QED
        BY <4>1, <4>2, <3>3
    <3>5. KeptIn(n)'
      BY <3>1, <3>4, <1>2 DEF Keeping
    <3> QED
      BY <3>1, <3>5, <1>0 DEF ComingIn
  <2>8. ASSUME TookSynchronized(f.n), ~UNCHANGED <<cl, decodes>> PROVE ComingIn(n)' /\ KeptIn(n)'
    <3>1. UNCHANGED decodes /\ Seeing(1..MaxTroubles + 1, cl, cur, cl')
      BY <2>8 DEF TookSynchronized
    <3>2. \A j \in DOMAIN cl'[cur].buffered : cl'[cur].buffered[j] <= n
      BY <3>1, <2>3, <1>t, <1>0 DEF Seeing, KeptIn
    <3>3. KeptIn(n)'
      BY <3>1, <3>2, <1>2 DEF Seeing
    <3> QED
      BY <3>1, <3>3, <1>0 DEF ComingIn
  <2> QED
    BY <2>2, <2>3, <2>4, <2>5, <2>6, <2>7, <2>8, <1>0, TakingIs DEF Taking
<1>12. ASSUME NEW k \in 1..Len(decodes), NEW ok \in BOOLEAN, Land(k, ok) PROVE ComingIn(n)' /\ KeptIn(n)'
  <2>1. PICK d : d = decodes[k]
    OBVIOUS
  <2>2. /\ Others(k)
        /\ Taking1(d, ok) \/ (~Taken(d) /\ UNCHANGED <<st, cl, raced>>)
    BY <1>0, <1>12, <2>1, LandIs
  <2>3. KeptIn(n)'
    <3>1. CASE UNCHANGED cl
      BY <3>1, <1>0 DEF KeptIn
    <3>2. CASE Taking1(d, ok)
      BY <3>2, <1>2 DEF Taking1
    <3> QED
      BY <2>2, <3>1, <3>2
  <2>4. ASSUME NEW j \in DOMAIN decodes' PROVE decodes'[j].n <= n
    <3>1. PICK m : m = IF j < k THEN j ELSE j + 1
      OBVIOUS
    <3>2. decodes'[j] = decodes[m] /\ m \in DOMAIN decodes
      BY <3>1, <2>2, <1>t DEF Others
    <3> QED
      BY <3>2, <1>0 DEF ComingIn
  <2> QED
    BY <2>3, <2>4 DEF ComingIn
<1>13. CASE Leave
  BY <1>1, <1>13 DEF Leave
<1>14. ASSUME NEW kept \in BOOLEAN, Return(kept) PROVE ComingIn(n)' /\ KeptIn(n)'
  BY <1>1, <1>14 DEF Return
<1> QED
  BY <1>3, <1>4, <1>5, <1>6, <1>7, <1>8, <1>9, <1>10, <1>11, <1>12, <1>13, <1>14, StepIs

LEMMA StaysWithin ==
  ASSUME TypesInv, PlacesInv, [Next]_vars, NEW n \in Nat, Within(n),
         Deliver => wire[1].n <= n, cur = 0 => cache.seq <= n
  PROVE  Within(n)'
<1>1. ShownIn(n)' /\ ComingIn(n)' /\ KeptIn(n)'
  BY ShownStaysIn, ComingStaysIn
<1> QED
  BY <1>1 DEF Within, ShownIn, ComingIn, KeptIn

\* The log only grows.
LogGrows ==
  /\ log' \in Seq(Logged) /\ last' \in Nat /\ last <= last' /\ last' <= MaxSeq
  /\ \A k \in 1..last : log'[k] = log[k]

LEMMA LogOnlyGrows ==
  ASSUME TypesInv, [Next]_vars
  PROVE  LogGrows
<1>0. BridgeTypes /\ LinkTypes /\ PageTypes /\ MaxSeq \in Nat /\ MaxBehind \in Nat \ {0}
  BY TypesAre, StreamAssumption
<1>1. last \in Nat /\ last <= MaxSeq /\ log \in Seq(Logged)
  BY <1>0 DEF BridgeTypes, last
<1>2. ASSUME UNCHANGED log PROVE LogGrows
  BY <1>1, <1>2 DEF LogGrows, last
<1>3. CASE UNCHANGED vars
  BY <1>2, <1>3 DEF vars, server
<1>4. ASSUME NEW c \in Logged, Append1(c) PROVE LogGrows
  <2>1. /\ log' \in Seq(Logged) /\ last' = last + 1 /\ last + 1 \in 1..MaxSeq
        /\ \A k \in 1..last : log'[k] = log[k]
    BY <1>0, <1>4, Written
  <2> QED
    BY <2>1, <1>1, <1>0 DEF LogGrows
<1>5. CASE Prune
  BY <1>2, <1>5 DEF Prune
<1>6. ASSUME NEW marked \in BOOLEAN, Serve(marked) PROVE LogGrows
  <2>1. /\ log' \in Seq(Logged) /\ last' \in {last, last + 1} /\ last' <= MaxSeq
        /\ \A k \in 1..last : log'[k] = log[k]
    BY <1>0, <1>6, ServedIs
  <2> QED
    BY <2>1, <1>1, <1>0 DEF LogGrows
<1>7. CASE Drop
  BY <1>2, <1>7 DEF Drop
<1>8. CASE Retry
  BY <1>2, <1>8 DEF Retry, server
<1>9. CASE Wake
  BY <1>2, <1>9 DEF Wake
<1>10. CASE Gone
  BY <1>2, <1>10 DEF Gone
<1>11. CASE Deliver
  BY <1>2, <1>11 DEF Deliver
<1>12. ASSUME NEW k \in 1..Len(decodes), NEW ok \in BOOLEAN, Land(k, ok) PROVE LogGrows
  BY <1>2, <1>12 DEF Land, server
<1>13. CASE Leave
  BY <1>2, <1>13 DEF Leave
<1>14. ASSUME NEW kept \in BOOLEAN, Return(kept) PROVE LogGrows
  BY <1>2, <1>14 DEF Return, server
<1> QED
  BY <1>3, <1>4, <1>5, <1>6, <1>7, <1>8, <1>9, <1>10, <1>11, <1>12, <1>13, <1>14, StepIs

LEMMA WithinMore ==
  ASSUME PageTypes, MaxSeq \in Nat, MaxTroubles \in Nat, NEW m \in Nat, NEW n \in Nat, m <= n, Within(m)
  PROVE  Within(n)
<1>1. st.seq \in Nat /\ cursor \in Nat
  BY DEF PageTypes, State
<1>2. \A k \in DOMAIN decodes : decodes[k].n \in Nat
  <2>1. \A d \in Decode : d.n \in Nat
    BY DEF Decode
  <2>2. \A k \in DOMAIN decodes : decodes[k] \in Decode
    BY DEF PageTypes
  <2> QED
    BY <2>1, <2>2, Zenon
<1>3. \A i \in DOMAIN cl : \A j \in DOMAIN cl[i].buffered : cl[i].buffered[j] \in Nat
  <2>1. \A c \in Closure : c.buffered \in Seq(1..MaxSeq)
    BY DEF Closure
  <2>2. \A i \in DOMAIN cl : cl[i] \in Closure
    BY DEF PageTypes
  <2>3. \A i \in DOMAIN cl : cl[i].buffered \in Seq(1..MaxSeq)
    BY <2>1, <2>2, Zenon
  <2> SUFFICES ASSUME NEW i \in DOMAIN cl, NEW j \in DOMAIN cl[i].buffered
               PROVE cl[i].buffered[j] \in Nat
    OBVIOUS
  <2>4. PICK b : b = cl[i].buffered
    OBVIOUS
  <2>5. b \in Seq(1..MaxSeq) /\ j \in DOMAIN b
    BY <2>3, <2>4
  <2>6. b[j] \in Nat
    BY <2>5
  <2> QED
    BY <2>4, <2>6
<1>4. st.seq <= n /\ cursor <= n
  BY <1>1 DEF Within
<1>5. \A k \in DOMAIN decodes : decodes[k].n <= n
  BY <1>2 DEF Within
<1>6. \A i \in DOMAIN cl : \A j \in DOMAIN cl[i].buffered : cl[i].buffered[j] <= n
  BY <1>3 DEF Within
<1> QED
  BY <1>4, <1>5, <1>6 DEF Within

\* Of what is on the wire nothing is beyond the log, and a snapshot is not behind the page.
WireIn ==
  /\ \A k \in DOMAIN wire : wire[k].n <= last
  /\ \A k \in DOMAIN wire : wire[k].t = "snapshot" => Within(wire[k].n)

LinkIn == after <= last /\ lastSent <= last /\ cache.seq <= last

LEMMA BoundsAre == BoundsInv <=> Within(last) /\ LinkIn /\ WireIn
BY DEF BoundsInv, LinkIn, WireIn

LEMMA AllStaysWithin ==
  ASSUME TypesInv, PlacesInv, BoundsInv, [Next]_vars
  PROVE  Within(last)'
<1>0. /\ BridgeTypes /\ PageTypes /\ MaxTroubles \in Nat /\ MaxSeq \in Nat
      /\ Within(last) /\ LinkIn /\ WireIn /\ LogGrows
  BY TypesAre, BoundsAre, LogOnlyGrows, StreamAssumption
<1>1. PICK m \in Nat : m = last'
  BY <1>0 DEF LogGrows
<1>2. last \in Nat /\ last <= m
  BY <1>0, <1>1 DEF LogGrows, BridgeTypes, last
<1>3. Within(m)
  BY <1>0, <1>2, WithinMore
<1>4. Deliver => wire[1].n <= m
  <2> SUFFICES ASSUME Deliver PROVE wire[1].n <= m
    OBVIOUS
  <2>1. Len(wire) \in Nat /\ Len(wire) >= 1 /\ wire[1] \in Frame
    BY <1>0, DeliverIs
  <2>2. wire[1].n \in Nat
    BY <2>1, <1>0 DEF Frame
  <2>3. wire[1].n <= last
    BY <2>1, <1>0 DEF WireIn, BridgeTypes
  <2> QED
    BY <2>2, <2>3, <1>2
<1>5. cache.seq <= m
  BY <1>0, <1>2 DEF LinkIn, PageTypes, State
<1>6. Within(m)'
  BY <1>3, <1>4, <1>5, StaysWithin
<1> QED
  BY <1>1, <1>6 DEF Within

LEMMA LinkStaysIn ==
  ASSUME TypesInv, PlacesInv, BoundsInv, [Next]_vars
  PROVE  LinkIn'
<1>0. /\ BridgeTypes /\ LinkTypes /\ PageTypes /\ MaxTroubles \in Nat /\ MaxSeq \in Nat
      /\ Within(last) /\ LinkIn /\ WireIn /\ LogGrows /\ MaxBehind \in Nat \ {0}
  BY TypesAre, BoundsAre, LogOnlyGrows, StreamAssumption
<1>1. /\ last \in Nat /\ last' \in Nat /\ last <= last' /\ after \in Nat /\ lastSent \in Nat
      /\ cache \in State /\ st \in State /\ cache.seq \in Nat /\ st.seq \in Nat /\ cursor \in Nat
  BY <1>0 DEF LogGrows, BridgeTypes, LinkTypes, PageTypes, State, last
<1>2. EmptyState.seq = 0
  BY DEF EmptyState
<1>3. /\ after <= last' /\ lastSent <= last' /\ cache.seq <= last'
      /\ st.seq <= last' /\ cursor <= last'
  BY <1>0, <1>1 DEF LinkIn, Within
<1>4. ASSUME after' = after \/ after' = 0, lastSent' = lastSent \/ lastSent' = 0,
             cache' = cache
      PROVE LinkIn'
  BY <1>4, <1>3, <1>1 DEF LinkIn
<1>5. ASSUME NEW s, s.seq <= last', Open(s) PROVE after' <= last'
  BY <1>5, <1>3 DEF Open, Cursor
<1>6. CASE UNCHANGED vars
  BY <1>4, <1>6 DEF vars, page, conn, server
<1>7. ASSUME NEW c \in Logged, Append1(c) PROVE LinkIn'
  <2>1. last' = last + 1 /\ Wrote(c)
    BY <1>0, <1>7, Written
  <2>2. UNCHANGED <<after, cache>>
    BY <1>7 DEF Append1, page
  <2>3. lastSent' <= last'
    BY <2>1, <1>1, <1>3 DEF Wrote
  <2> QED
    BY <2>2, <2>3, <1>3, <1>1 DEF LinkIn
<1>8. CASE Prune
  BY <1>4, <1>8 DEF Prune, page, conn
<1>9. ASSUME NEW marked \in BOOLEAN, Serve(marked) PROVE LinkIn'
  BY <1>9, <1>1, <1>3 DEF Serve, LinkIn, page
<1>10. CASE Drop
  BY <1>4, <1>10 DEF Drop, Close
<1>11. CASE Retry
  BY <1>5, <1>3, <1>11 DEF Retry, LinkIn, server, page
<1>12. CASE Wake
  BY <1>5, <1>3, <1>1, <1>12 DEF Wake, LinkIn, Close, page
<1>13. CASE Gone
  BY <1>2, <1>3, <1>1, <1>13 DEF Gone, Close, LinkIn
<1>14. CASE Deliver
  <2>1. PICK f : f = wire[1]
    OBVIOUS
  <2>2. UNCHANGED <<log, cache>> /\ Taking(f)
    BY <1>0, <1>14, <2>1, DeliverIs
  <2>3. CASE Close /\ Open(st)
    BY <1>5, <1>3, <1>1, <2>2, <2>3 DEF LinkIn, Close
  <2>4. CASE Rest
    BY <1>4, <2>2, <2>4 DEF Rest
  <2> QED
    BY <2>2, <2>3, <2>4 DEF Taking
<1>15. ASSUME NEW k \in 1..Len(decodes), NEW ok \in BOOLEAN, Land(k, ok) PROVE LinkIn'
  BY <1>4, <1>15 DEF Land, conn, server
<1>16. CASE Leave
  <2>1. cache' \in {st, cache} /\ after' = 0 /\ lastSent' = 0
    BY <1>16 DEF Leave, Close
  <2> QED
    BY <2>1, <1>3, <1>1 DEF LinkIn
<1>17. ASSUME NEW kept \in BOOLEAN, Return(kept) PROVE LinkIn'
  <2>1. /\ cache' = (IF kept THEN cache ELSE EmptyState) /\ UNCHANGED lastSent
        /\ st' = [cache' EXCEPT !.syncing = TRUE] /\ Open(st')
    BY <1>17 DEF Return, server
  <2>2. EmptyState \in State
    BY <1>0 DEF EmptyState, State
  <2>3. cache' \in State /\ cache'.seq <= last'
    BY <2>1, <2>2, <1>1, <1>2, <1>3
  <2>4. st'.seq = cache'.seq
    BY <2>1, <2>3 DEF State
  <2>5. after' <= last'
    <3>1. PICK s : s = st'
      OBVIOUS
    <3>2. s.seq <= last' /\ Open(s)
      BY <3>1, <2>1, <2>3, <2>4 DEF Open, Cursor
    <3> QED
      BY <3>2, <1>5
  <2> QED
    BY <2>1, <2>3, <2>5, <1>3 DEF LinkIn
<1> QED
  BY <1>6, <1>7, <1>8, <1>9, <1>10, <1>11, <1>12, <1>13, <1>14, <1>15, <1>16, <1>17, StepIs

LEMMA WireStaysIn ==
  ASSUME TypesInv, PlacesInv, BoundsInv, [Next]_vars
  PROVE  WireIn'
<1>0. /\ BridgeTypes /\ LinkTypes /\ PageTypes /\ MaxTroubles \in Nat /\ MaxSeq \in Nat
      /\ Within(last) /\ LinkIn /\ WireIn /\ LogGrows /\ MaxBehind \in Nat \ {0}
      /\ ShellPlace /\ LinkPlace /\ SnapshotFirst
  BY TypesAre, BoundsAre, PlacesAre, LogOnlyGrows, StreamAssumption
<1>1. last \in Nat /\ last' \in Nat /\ last <= last' /\ wire \in Seq(Frame)
  BY <1>0 DEF LogGrows, BridgeTypes, last
<1>2. \A f \in Frame : f.n \in Nat
  BY <1>0 DEF Frame
<1>3. \A k \in 1..Len(wire) : wire[k].n \in Nat /\ wire[k].n <= last'
  <2>1. \A k \in 1..Len(wire) : wire[k] \in Frame /\ wire[k].n <= last
    BY <1>0, <1>1 DEF WireIn
  <2> QED
    BY <2>1, <1>1, <1>2
<1>4. ASSUME wire' = <<>> PROVE WireIn'
  BY <1>4 DEF WireIn
<1>5. ASSUME UNCHANGED <<wire, page>> PROVE WireIn'
  <2>1. \A k \in DOMAIN wire : wire[k].t = "snapshot" => \A m : m = wire[k].n => Within(m)'
    BY <1>0, <1>5 DEF WireIn, Within, page
  <2> QED
    BY <2>1, <1>5, <1>3, <1>1 DEF WireIn, Within
<1>6. CASE UNCHANGED vars
  BY <1>5, <1>6 DEF vars, conn
<1>7. ASSUME NEW c \in Logged, Append1(c) PROVE WireIn'
  <2>1. last' = last + 1 /\ Wrote(c) /\ UNCHANGED page /\ lastSent <= last
    BY <1>0, <1>7, Written DEF Append1, LinkIn
  <2>2. CASE UNCHANGED wire
    BY <1>5, <2>1, <2>2
  <2>3. CASE ~UNCHANGED wire
    <3>1. /\ wire' \in Seq(Frame) /\ Len(wire') >= Len(wire) + 1
          /\ \A k \in 1..Len(wire) : wire'[k] = wire[k]
          /\ wire'[Len(wire) + 1] = [t |-> "event", n |-> last + 1]
          /\ \A k \in 1..Len(wire') : k > Len(wire) + 1 => wire'[k] = [t |-> "reset", n |-> lastSent]
      BY <2>1, <2>3 DEF Wrote
    <3>2. ASSUME NEW k \in 1..Len(wire), wire[k].t = "snapshot", NEW m, m = wire[k].n
          PROVE  Within(m)'
      <4>1. Within(m)
        BY <3>2, <1>0, <1>1 DEF WireIn
      <4> QED
        BY <4>1, <2>1 DEF Within, page
    <3>3. ASSUME NEW k \in 1..Len(wire')
          PROVE  wire'[k].n <= last' /\ (wire'[k].t = "snapshot" => k \in 1..Len(wire))
      <4>1. CASE k \in 1..Len(wire)
        BY <4>1, <3>1, <1>3
      <4>2. CASE k = Len(wire) + 1
        BY <4>2, <3>1, <2>1, <1>1
      <4>3. CASE k > Len(wire) + 1
        <5>1. wire'[k] = [t |-> "reset", n |-> lastSent]
          BY <4>3, <3>1
        <5> QED
          BY <5>1, <2>1, <1>1, <1>0 DEF BridgeTypes
      <4> QED
        BY <4>1, <4>2, <4>3, <1>1
    <3>4. ASSUME NEW k \in 1..Len(wire'), wire'[k].t = "snapshot"
          PROVE  Within(wire[k].n)'
      <4>1. k \in 1..Len(wire) /\ wire'[k] = wire[k]
        BY <3>1, <3>3, <3>4
      <4>2. PICK m : m = wire[k].n
        OBVIOUS
      <4>3. Within(m)'
        BY <3>2, <3>4, <4>1, <4>2
      <4> QED
        BY <4>1, <4>2, <4>3 DEF Within
    <3> QED
      <4>1. \A k \in DOMAIN wire' : wire'[k].n <= last'
        BY <3>1, <3>3
      <4>2. \A k \in DOMAIN wire' : wire'[k].t = "snapshot" => Within(wire[k].n)'
        BY <3>1, <3>4
      <4> QED
        BY <4>1, <4>2 DEF WireIn
  <2> QED
    BY <2>2, <2>3
<1>8. CASE Prune
  BY <1>5, <1>8 DEF Prune, conn
<1>9. ASSUME NEW marked \in BOOLEAN, Serve(marked) PROVE WireIn'
  <2>1. PICK w : w = CatchUp
    OBVIOUS
  <2>2. /\ wire' \in Seq(Frame) /\ Len(wire') = Len(w) + 1
        /\ \A k \in 1..Len(w) : wire'[k] = w[k]
        /\ wire'[Len(w) + 1] = [t |-> "synchronized", n |-> last]
    BY <1>0, <1>9, <2>1, ServedIs
  <2>3. Catching(w)
    BY <1>0, <2>1, Caught
  <2>4. UNCHANGED page
    BY <1>9 DEF Serve
  <2>5. PICK m : m = last
    OBVIOUS
  <2>6. Within(m)'
    BY <1>0, <2>4, <2>5 DEF Within, page
  <2>7. \A k \in 1..Len(w) : w[k].n \in Nat /\ w[k].n <= m /\ (w[k].t = "snapshot" => w[k].n = m)
    <3>1. \A k \in 1..Len(w) : w[k] \in Frame
      BY <2>3 DEF Catching
    <3>2. \A k \in 1..Len(w) : w[k].n <= m /\ (w[k].t = "snapshot" => w[k].n = m)
      BY <2>3, <2>5 DEF Catching
    <3> QED
      BY <3>1, <3>2, <1>2
  <2>8. ASSUME NEW k \in 1..Len(wire')
        PROVE  wire'[k].n <= last' /\ (wire'[k].t = "snapshot" => wire'[k].n = m)
    <3>1. Len(w) \in Nat
      BY <2>3 DEF Catching
    <3>2. CASE k \in 1..Len(w)
      BY <3>2, <2>2, <2>7, <2>5, <1>1
    <3>3. CASE k = Len(w) + 1
      BY <3>3, <2>2, <1>1
    <3> QED
      BY <3>1, <3>2, <3>3, <2>2
  <2>9. ASSUME NEW k \in 1..Len(wire'), wire'[k].t = "snapshot" PROVE Within(wire[k].n)'
    <3>1. wire'[k].n = m
      BY <2>8, <2>9
    <3> QED
      BY <3>1, <2>6 DEF Within
  <2> QED
    <3>1. \A k \in DOMAIN wire' : wire'[k].n <= last'
      BY <2>2, <2>8
    <3>2. \A k \in DOMAIN wire' : wire'[k].t = "snapshot" => Within(wire[k].n)'
      BY <2>2, <2>9
    <3> QED
      BY <3>1, <3>2 DEF WireIn
<1>10. CASE Drop
  BY <1>4, <1>10 DEF Drop, Close
<1>11. CASE Retry
  BY <1>5, <1>11 DEF Retry
<1>12. CASE Wake
  BY <1>4, <1>12 DEF Wake, Close
<1>13. CASE Gone
  BY <1>4, <1>13 DEF Gone, Close
<1>14. CASE Deliver
  <2>1. PICK f : f = wire[1]
    OBVIOUS
  <2>2. UNCHANGED <<log, cache>> /\ Taking(f) /\ Len(wire) \in Nat
    BY <1>0, <1>14, <2>1, DeliverIs
  <2>3. CASE Close
    BY <1>4, <2>3 DEF Close
  <2>4. CASE Rest
    <3>1. /\ wire' \in Seq(Frame) /\ Len(wire') = Len(wire) - 1
          /\ \A k \in 1..Len(wire') : wire'[k] = wire[k + 1]
      BY <2>4 DEF Rest
    <3>2. ASSUME NEW k \in 1..Len(wire') PROVE wire'[k].n <= last' /\ wire'[k].t # "snapshot"
      <4>1. k + 1 \in 1..Len(wire) /\ k + 1 # 1 /\ wire'[k] = wire[k + 1]
        BY <3>1, <2>2
      <4>2. wire[k + 1].t # "snapshot"
        BY <4>1, <1>0, <1>1 DEF SnapshotFirst
      <4> QED
        BY <4>1, <4>2, <1>3
    <3> QED
      BY <3>1, <3>2 DEF WireIn
  <2> QED
    BY <2>2, <2>3, <2>4 DEF Taking
<1>15. ASSUME NEW k \in 1..Len(decodes), NEW ok \in BOOLEAN, Land(k, ok) PROVE WireIn'
  <2>1. UNCHANGED <<wire, source, cur>>
    BY <1>15 DEF Land, conn
  <2>2. CASE cur = 0
    <3>1. wire = <<>>
      BY <2>2, <1>0 DEF LinkPlace
    <3> QED
      BY <3>1, <2>1, <1>4
  <2>3. CASE cur # 0
    <3>1. ~Deliver
      <4> SUFFICES ASSUME Deliver PROVE FALSE
        OBVIOUS
      <4>1. Len(wire) \in Nat /\ Len(wire) >= 1 /\ Taking(wire[1])
        BY <1>0, DeliverIs
      <4>2. Len(wire') = Len(wire)
        BY <2>1
      <4>3. wire' = <<>> \/ Len(wire') = Len(wire) - 1
        BY <4>1 DEF Taking, Rest, Close
      <4> QED
        BY <4>1, <4>2, <4>3
    <3>2. ASSUME NEW j \in 1..Len(wire), wire[j].t = "snapshot", NEW m \in Nat, m = wire[j].n
          PROVE Within(m)'
      <4>1. Within(m)
        BY <3>2, <1>0, <1>1 DEF WireIn
      <4> QED
        BY <4>1, <3>1, <2>3, StaysWithin
    <3>3. ASSUME NEW j \in 1..Len(wire), wire[j].t = "snapshot" PROVE Within(wire[j].n)'
      <4>1. PICK m \in Nat : m = wire[j].n
        BY <1>3
      <4>2. Within(m)'
        BY <4>1, <3>2, <3>3
      <4> QED
        BY <4>1, <4>2, <2>1 DEF Within
    <3>4. \A j \in DOMAIN wire' : wire'[j].n <= last'
      BY <2>1, <1>3, <1>1
    <3>5. \A j \in DOMAIN wire' : wire'[j].t = "snapshot" => Within(wire[j].n)'
      BY <2>1, <3>3, <1>1
    <3> QED
      BY <3>4, <3>5 DEF WireIn
  <2> QED
    BY <2>2, <2>3
<1>16. CASE Leave
  BY <1>4, <1>16 DEF Leave, Close
<1>17. ASSUME NEW kept \in BOOLEAN, Return(kept) PROVE WireIn'
  <2>1. wire = <<>>
    BY <1>17, <1>0 DEF Return, LinkPlace
  <2> QED
    BY <2>1, <1>4, <1>17 DEF Return
<1> QED
  BY <1>6, <1>7, <1>8, <1>9, <1>10, <1>11, <1>12, <1>13, <1>14, <1>15, <1>16, <1>17, StepIs

\* Nothing anywhere is beyond the log.
LEMMA Bounded ==
  ASSUME TypesInv, PlacesInv, BoundsInv, [Next]_vars
  PROVE  BoundsInv'
<1>1. Within(last)' /\ LinkIn' /\ WireIn'
  BY AllStaysWithin, LinkStaysIn, WireStaysIn
<1> QED
  BY <1>1 DEF BoundsInv, LinkIn, WireIn, Within

-----------------------------------------------------------------------------
(* At most one decode is waited for. *)

OneCurrent == \A j, k \in DOMAIN decodes : Current(decodes[j]) /\ Current(decodes[k]) => j = k
AwaitsOne == cur # 0 => (cl[cur].awaiting <=> \E k \in DOMAIN decodes : Pending(k))
OneAhead == \A k \in DOMAIN decodes : cur # 0 /\ Pending(k) => st.seq <= decodes[k].n

LEMMA PendingIs == PendingInv <=> (~raced => OneCurrent /\ AwaitsOne /\ OneAhead)
BY DEF PendingInv, OneCurrent, AwaitsOne, OneAhead

\* A new connection has asked for nothing yet.
LEMMA PendingAnew ==
  ASSUME TypesInv, OneCurrent, UNCHANGED <<cur, decodes>>, cur \in 1..MaxTroubles + 1,
         Anew(1..MaxTroubles + 1, cl, cur, cl')
  PROVE  OneCurrent' /\ AwaitsOne' /\ OneAhead'
<1>0. PageTypes /\ ClosuresCounted /\ MaxTroubles \in Nat
  BY TypesAre, CountTypesAre, StreamAssumption
<1>1. /\ \A j \in 1..MaxTroubles + 1 : j # cur => cl'[j] = cl[j]
      /\ cl'[cur].gen = cl[cur].gen + 1 /\ cl'[cur].awaiting = FALSE
  BY DEF Anew
<1>2. \A k \in DOMAIN decodes : /\ decodes[k].i \in 1..MaxTroubles + 1 /\ decodes[k].gen \in Nat
                                /\ decodes[k].gen <= cl[decodes[k].i].gen
  <2>1. \A d \in Decode : d.i \in 1..MaxTroubles + 1 /\ d.gen \in Nat
    BY DEF Decode
  <2>2. \A k \in DOMAIN decodes : decodes[k] \in Decode
    BY <1>0 DEF PageTypes
  <2>3. \A k \in DOMAIN decodes : decodes[k].i \in 1..MaxTroubles + 1 /\ decodes[k].gen \in Nat
    BY <2>1, <2>2, Zenon
  <2> QED
    BY <2>3, <1>0 DEF ClosuresCounted
<1>3. cl[cur].gen \in Nat
  BY <1>0 DEF PageTypes, Closure
<1>4. \A k \in DOMAIN decodes : ~(decodes[k].i = cur /\ decodes[k].gen = cl'[cur].gen)
  BY <1>1, <1>2, <1>3
<1>5. \A k \in DOMAIN decodes : ~Pending(k)'
  BY <1>4 DEF Pending
<1>6. \A k \in DOMAIN decodes : Current(decodes[k])' => Current(decodes[k])
  BY <1>1, <1>2, <1>4 DEF Current
<1>7. OneCurrent'
  BY <1>6 DEF OneCurrent
<1>8. ~cl'[cur].awaiting
  BY <1>1
<1> QED
  BY <1>5, <1>7, <1>8 DEF AwaitsOne, OneAhead

\* What the page waits for, when a step neither begins nor ends a decode.
LEMMA PendingSame ==
  ASSUME TypesInv, OneCurrent, AwaitsOne, OneAhead, UNCHANGED <<cur, decodes>>,
         \A i \in DOMAIN cl : cl'[i].gen = cl[i].gen,
         cur # 0 => cl'[cur].awaiting = cl[cur].awaiting,
         st'.seq = st.seq \/ (cur # 0 => ~cl[cur].awaiting)
  PROVE  OneCurrent' /\ AwaitsOne' /\ OneAhead'
<1>0. PageTypes
  BY TypesAre
<1>2. \A k \in DOMAIN decodes : decodes[k].i \in DOMAIN cl
  <2>1. \A d \in Decode : d.i \in DOMAIN cl
    BY <1>0 DEF Decode, PageTypes
  <2>2. \A k \in DOMAIN decodes : decodes[k] \in Decode
    BY <1>0 DEF PageTypes
  <2> QED
    BY <2>1, <2>2, Zenon
<1>3. \A k \in DOMAIN decodes : Current(decodes[k])' <=> Current(decodes[k])
  BY <1>2 DEF Current
<1>4. \A k \in DOMAIN decodes : Pending(k)' <=> Pending(k)
  BY <1>2 DEF Pending
<1>5. OneCurrent'
  BY <1>3 DEF OneCurrent
<1>6. AwaitsOne'
  BY <1>4 DEF AwaitsOne
<1>7. OneAhead'
  <2>1. CASE st'.seq = st.seq
    BY <1>4, <2>1 DEF OneAhead
  <2>2. CASE cur # 0 => ~cl[cur].awaiting
    BY <1>4, <2>2 DEF OneAhead, AwaitsOne
  <2> QED
    BY <2>1, <2>2
<1> QED
  BY <1>5, <1>6, <1>7

\* A snapshot begins to be decompressed, no other being waited for.
LEMMA PendingBegins ==
  ASSUME TypesInv, cur # 0, NEW n \in Nat, st.seq <= n,
         UNCHANGED <<cur, st>>,
         decodes' \in Seq(Decode), Len(decodes') = Len(decodes) + 1,
         \A k \in 1..Len(decodes) : decodes'[k] = decodes[k],
         decodes'[Len(decodes) + 1] = [i |-> cur, gen |-> cl[cur].gen, n |-> n],
         Cleared(1..MaxTroubles + 1, cl, cur, FALSE, TRUE, cl'),
         \A k \in DOMAIN decodes : ~Current(decodes[k])
  PROVE  OneCurrent' /\ AwaitsOne' /\ OneAhead'
<1>0. PageTypes /\ MaxTroubles \in Nat
  BY TypesAre, StreamAssumption
<1>1. /\ \A j \in 1..MaxTroubles + 1 : j # cur => cl'[j] = cl[j]
      /\ cl'[cur].gen = cl[cur].gen /\ cl'[cur].awaiting = TRUE
  BY DEF Cleared
<1>2. Len(decodes) \in Nat /\ DOMAIN decodes = 1..Len(decodes) /\ DOMAIN decodes' = 1..Len(decodes) + 1
  BY <1>0 DEF PageTypes
<1>3. PICK z : z = Len(decodes) + 1
  OBVIOUS
<1>4. decodes'[z].i = cur /\ decodes'[z].gen = cl[cur].gen /\ decodes'[z].n = n
  BY <1>3
<1>5. ASSUME NEW k \in 1..Len(decodes)
      PROVE  decodes'[k] = decodes[k] /\ decodes[k].i \in 1..MaxTroubles + 1 /\ ~(decodes[k].gen = cl[decodes[k].i].gen)
  <2>1. decodes[k] \in Decode
    BY <1>0 DEF PageTypes
  <2>2. decodes[k].i \in 1..MaxTroubles + 1
    BY <2>1 DEF Decode
  <2>3. ~Current(decodes[k])
    BY <1>2
  <2> QED
    BY <2>2, <2>3 DEF Current
<1>6. ASSUME NEW k \in 1..Len(decodes) PROVE ~(decodes'[k].gen = cl'[decodes'[k].i].gen)
  <2>1. PICK d : d = decodes[k]
    OBVIOUS
  <2>2. decodes'[k] = d /\ d.i \in 1..MaxTroubles + 1 /\ ~(d.gen = cl[d.i].gen)
    BY <1>5, <2>1
  <2>3. cl'[d.i].gen = cl[d.i].gen
    BY <1>1, <2>2
  <2> QED
    BY <2>2, <2>3
<1>7. OneCurrent'
  <2> SUFFICES ASSUME NEW j \in DOMAIN decodes', decodes'[j].gen = cl'[decodes'[j].i].gen
               PROVE  j = z
    BY DEF OneCurrent, Current
  <2> QED
    BY <1>2, <1>3, <1>6
<1>8. z \in DOMAIN decodes' /\ decodes'[z].i = cur' /\ decodes'[z].gen = cl'[cur'].gen
  BY <1>1, <1>2, <1>3, <1>4
<1>9. \E k \in DOMAIN decodes' : decodes'[k].i = cur' /\ decodes'[k].gen = cl'[cur'].gen
  BY <1>8
<1>10. AwaitsOne'
  <2>1. cl'[cur'].awaiting
    BY <1>1
  <2> QED
    BY <2>1, <1>9 DEF AwaitsOne, Pending
<1>11. ASSUME NEW k \in DOMAIN decodes', decodes'[k].i = cur', decodes'[k].gen = cl'[cur'].gen
       PROVE  st'.seq <= decodes'[k].n
  <2>1. k = z
    BY <1>11, <1>2, <1>3, <1>6
  <2> QED
    BY <2>1, <1>4
<1>12. OneAhead'
  BY <1>11 DEF OneAhead, Pending
<1> QED
  BY <1>7, <1>10, <1>12

\* A decode ends.
LEMMA PendingEnds ==
  ASSUME TypesInv, OneCurrent, AwaitsOne, OneAhead, NEW k \in 1..Len(decodes), NEW ok \in BOOLEAN,
         Land(k, ok), ~raced'
  PROVE  OneCurrent' /\ AwaitsOne' /\ OneAhead'
<1>0. PageTypes /\ MaxTroubles \in Nat
  BY TypesAre, StreamAssumption
<1>1. PICK d : d = decodes[k]
  OBVIOUS
<1>2. /\ UNCHANGED cur /\ Others(k) /\ d \in Decode /\ Len(decodes) \in Nat
      /\ Taking1(d, ok) \/ (~Taken(d) /\ UNCHANGED <<st, cl, raced>>)
  BY <1>0, <1>1, LandIs
<1>3. DOMAIN decodes = 1..Len(decodes) /\ DOMAIN decodes' = 1..Len(decodes) - 1
  BY <1>0, <1>2 DEF PageTypes, Others
<1>4. \A j \in 1..Len(decodes) - 1 : decodes'[j] = decodes[IF j < k THEN j ELSE j + 1]
  BY <1>2 DEF Others
<1>5. \A j \in 1..Len(decodes) : decodes[j].i \in 1..MaxTroubles + 1
  <2>1. \A x \in Decode : x.i \in 1..MaxTroubles + 1
    BY DEF Decode
  <2>2. \A j \in 1..Len(decodes) : decodes[j] \in Decode
    BY <1>0 DEF PageTypes
  <2> QED
    BY <2>1, <2>2, Zenon
<1>6. CASE Taking1(d, ok)
  <2>1. /\ d.i = cur /\ d.gen = cl[d.i].gen /\ cur # 0
        /\ \A j \in 1..MaxTroubles + 1 : cl'[j].gen = cl[j].gen
        /\ cl'[cur].awaiting = FALSE
    BY <1>6, <1>2 DEF Taking1, Taken, Current, Decode
  <2>2. ASSUME NEW j \in DOMAIN decodes', decodes'[j].gen = cl'[decodes'[j].i].gen
        PROVE  FALSE
    <3>1. PICK m : m = IF j < k THEN j ELSE j + 1
      OBVIOUS
    <3>2. m \in 1..Len(decodes) /\ m # k /\ decodes'[j] = decodes[m]
      BY <3>1, <1>2, <1>3, <1>4
    <3>3. decodes[m].gen = cl[decodes[m].i].gen
      BY <2>1, <2>2, <3>2, <1>5
    <3>4. Current(decodes[m]) /\ Current(decodes[k])
      BY <3>3, <2>1, <1>1 DEF Current
    <3> QED
      BY <3>2, <3>4, <1>3 DEF OneCurrent
  <2>3. OneCurrent'
    BY <2>2 DEF OneCurrent, Current
  <2>4. \A j \in DOMAIN decodes' : ~(decodes'[j].i = cur' /\ decodes'[j].gen = cl'[cur'].gen)
    BY <2>2
  <2>5. ~cl'[cur'].awaiting
    BY <2>1, <1>2
  <2>6. AwaitsOne' /\ OneAhead'
    BY <2>4, <2>5 DEF AwaitsOne, OneAhead, Pending
  <2> QED
    BY <2>3, <2>6
<1>7. CASE ~Taken(d) /\ UNCHANGED <<st, cl, raced>>
  <2>1. ASSUME NEW j \in DOMAIN decodes'
        PROVE  \E m \in DOMAIN decodes : /\ m = (IF j < k THEN j ELSE j + 1)
                                         /\ decodes'[j] = decodes[m]
    BY <1>2, <1>3, <1>4
  <2>2. OneCurrent'
    <3> SUFFICES ASSUME NEW i \in DOMAIN decodes', NEW j \in DOMAIN decodes',
                        decodes'[i].gen = cl[decodes'[i].i].gen,
                        decodes'[j].gen = cl[decodes'[j].i].gen
                 PROVE  i = j
      BY <1>7 DEF OneCurrent, Current
    <3>1. PICK x \in DOMAIN decodes : x = (IF i < k THEN i ELSE i + 1) /\ decodes'[i] = decodes[x]
      BY <2>1
    <3>2. PICK y \in DOMAIN decodes : y = (IF j < k THEN j ELSE j + 1) /\ decodes'[j] = decodes[y]
      BY <2>1
    <3>3. x = y
      BY <3>1, <3>2 DEF OneCurrent, Current
    <3> QED
      BY <3>1, <3>2, <3>3, <1>3, <1>2
  <2>3. \A j \in DOMAIN decodes' : decodes'[j].i = cur /\ decodes'[j].gen = cl[cur].gen
           => \E m \in DOMAIN decodes : Pending(m) /\ decodes'[j] = decodes[m]
    BY <2>1 DEF Pending
  <2>4. ASSUME cur # 0, NEW m \in DOMAIN decodes, Pending(m)
        PROVE  \E j \in DOMAIN decodes' : decodes'[j].i = cur /\ decodes'[j].gen = cl[cur].gen
    <3>1. m # k
      BY <1>1, <1>7, <2>4 DEF Pending, Taken, Current
    <3>2. PICK j : j = IF m < k THEN m ELSE m - 1
      OBVIOUS
    <3>3. j \in DOMAIN decodes' /\ decodes'[j] = decodes[m]
      BY <3>1, <3>2, <1>2, <1>3, <1>4
    <3> QED
      BY <3>3, <2>4 DEF Pending
  <2>5. AwaitsOne'
    <3>1. cur # 0 => ((\E j \in DOMAIN decodes' : decodes'[j].i = cur /\ decodes'[j].gen = cl[cur].gen)
                       <=> \E m \in DOMAIN decodes : Pending(m))
      BY <2>3, <2>4
    <3> QED
      BY <3>1, <1>2, <1>7 DEF AwaitsOne, Pending
  <2>6. OneAhead'
    <3>1. ASSUME cur # 0, NEW j \in DOMAIN decodes', decodes'[j].i = cur, decodes'[j].gen = cl[cur].gen
          PROVE  st.seq <= decodes'[j].n
      BY <2>3, <3>1 DEF OneAhead
    <3> QED
      BY <3>1, <1>2, <1>7 DEF OneAhead, Pending
  <2> QED
    BY <2>2, <2>5, <2>6
<1> QED
  BY <1>2, <1>6, <1>7

\* While there was no race, the page waits for one snapshot at most, and that one is
\* not behind what it shows.
LEMMA PendingStays ==
  ASSUME TypesInv, PlacesInv, BoundsInv, PendingInv, [Next]_vars
  PROVE  PendingInv'
<1>0. /\ BridgeTypes /\ LinkTypes /\ PageTypes /\ CountTypes /\ MaxTroubles \in Nat /\ MaxSeq \in Nat
      /\ ShellPlace /\ LinkPlace /\ WireIn
      /\ Kinds \subseteq {"shell", "thread"}
  BY TypesAre, BoundsAre, PlacesAre, StreamAssumption
<1>t. cl \in [1..MaxTroubles + 1 -> Closure] /\ raced \in BOOLEAN
  BY <1>0 DEF PageTypes
<1>1. ASSUME ~raced => OneCurrent' /\ AwaitsOne' /\ OneAhead', raced => raced' PROVE PendingInv'
  BY <1>1 DEF PendingInv, OneCurrent, AwaitsOne, OneAhead
<1>2. ASSUME UNCHANGED <<cur, cl, decodes, raced>>, st'.seq = st.seq PROVE PendingInv'
  <2>1. ~raced => OneCurrent' /\ AwaitsOne' /\ OneAhead'
    BY <1>2, PendingIs, PendingSame
  <2> QED
    BY <2>1, <1>1, <1>2
<1>3. ASSUME UNCHANGED <<cl, decodes, raced>>, cur' = 0 PROVE PendingInv'
  <2>1. ~raced => OneCurrent'
    BY <1>3, PendingIs DEF OneCurrent, Current
  <2>2. AwaitsOne' /\ OneAhead'
    BY <1>3 DEF AwaitsOne, OneAhead
  <2> QED
    BY <2>1, <2>2, <1>1, <1>3
<1>6. CASE UNCHANGED vars
  BY <1>2, <1>6 DEF vars, page, hist
<1>7. ASSUME NEW c \in Logged, Append1(c) PROVE PendingInv'
  BY <1>2, <1>7 DEF Append1, page, hist
<1>8. CASE Prune
  BY <1>2, <1>8 DEF Prune, page, hist
<1>9. ASSUME NEW marked \in BOOLEAN, Serve(marked) PROVE PendingInv'
  BY <1>2, <1>9 DEF Serve, page
<1>10. CASE Drop
  <2>1. UNCHANGED <<kind, cur, decodes, raced>> /\ Dropped
    BY <1>10, DropIs
  <2>2. CASE UNCHANGED <<cl, st>>
    BY <1>2, <2>1, <2>2
  <2>3. CASE cur \in 1..MaxTroubles + 1 /\ Anew(1..MaxTroubles + 1, cl, cur, cl')
    <3>1. ~raced => OneCurrent' /\ AwaitsOne' /\ OneAhead'
      BY <2>1, <2>3, PendingIs, PendingAnew
    <3> QED
      BY <3>1, <2>1, <1>1
  <2> QED
    BY <2>1, <2>2, <2>3 DEF Dropped
<1>11. CASE Retry
  BY <1>2, <1>11 DEF Retry, page, hist
<1>12. CASE Wake
  BY <1>2, <1>12 DEF Wake, page
<1>13. CASE Gone
  BY <1>3, <1>13 DEF Gone, hist
<1>14. CASE Deliver
  <2>1. PICK f : f = wire[1]
    OBVIOUS
  <2>2. UNCHANGED <<kind, cur, opens, troubles>> /\ Taking(f) /\ f \in Frame /\ source = "live" /\ Len(wire) >= 1
    BY <1>0, <1>14, <2>1, DeliverIs
  <2>3. cur # 0 /\ f.n \in 0..MaxSeq /\ cur \in 1..MaxTroubles + 1
    BY <2>2, <1>0 DEF LinkPlace, Frame, PageTypes
  <2>4. f.t = "event" => f.n # 0
    BY <1>0, <2>1, <2>2 DEF CountTypes, BridgeTypes
  <2>5. CASE UNCHANGED <<st, cl, decodes, raced>>
    BY <1>2, <2>2, <2>5
  <2>6. ASSUME f.t = "snapshot", TookSnapshot(f.n) PROVE PendingInv'
    <3>1. CASE kind = "shell" /\ UNCHANGED <<cl, decodes, raced>>
      <4>1. ~cl[cur].awaiting
        BY <3>1, <2>3, <1>0, <1>t DEF ShellPlace
      <4>2. ~raced => OneCurrent' /\ AwaitsOne' /\ OneAhead'
        BY <3>1, <4>1, <2>2, PendingIs, PendingSame
      <4> QED
        BY <4>2, <3>1, <1>1
    <3>2. ASSUME kind = "thread", ~raced' PROVE OneCurrent' /\ AwaitsOne' /\ OneAhead'
      <4>1. /\ UNCHANGED st
            /\ decodes' \in Seq(Decode) /\ Len(decodes') = Len(decodes) + 1
            /\ \A k \in 1..Len(decodes) : decodes'[k] = decodes[k]
            /\ decodes'[Len(decodes) + 1] = [i |-> cur, gen |-> cl[cur].gen, n |-> f.n]
            /\ Cleared(1..MaxTroubles + 1, cl, cur, FALSE, TRUE, cl')
            /\ \A k \in DOMAIN decodes : ~Current(decodes[k])
        BY <3>2, <2>6 DEF TookSnapshot
      <4>2. st.seq <= f.n
        <5>1. Within(f.n)
          BY <2>1, <2>2, <2>6, <1>0 DEF WireIn, BridgeTypes
        <5> QED
          BY <5>1 DEF Within
      <4>3. PICK n \in Nat : n = f.n
        BY <2>3, <1>0
      <4>4. UNCHANGED <<cur, st>> /\ cur # 0
        BY <4>1, <2>2, <2>3
      <4>5. decodes'[Len(decodes) + 1] = [i |-> cur, gen |-> cl[cur].gen, n |-> n] /\ st.seq <= n
        BY <4>1, <4>2, <4>3
      <4> HIDE DEF Cleared
      <4> QED
        BY <4>1, <4>3, <4>4, <4>5, PendingBegins
    <3>3. kind = "thread" => (raced => raced')
      BY <2>6 DEF TookSnapshot
    <3> QED
      BY <2>6, <3>1, <3>2, <3>3, <1>0 DEF TookSnapshot, PendingInv, OneCurrent, AwaitsOne, OneAhead
  <2>7. CASE TookEvent(f.n)
    <3>1. UNCHANGED <<decodes, raced>>
      BY <2>7 DEF TookEvent
    <3>2. \A i \in DOMAIN cl : cl'[i].gen = cl[i].gen
      BY <2>7, <1>t DEF TookEvent, Keeping
    <3>3. cl'[cur].awaiting = cl[cur].awaiting
      BY <2>7 DEF TookEvent, Keeping
    <3>4. st'.seq = st.seq \/ ~cl[cur].awaiting
      <4>1. kind = "shell" => ~cl[cur].awaiting
        BY <2>3, <1>0, <1>t DEF ShellPlace
      <4> QED
        BY <4>1, <2>7, <1>0 DEF TookEvent, LinkTypes
    <3>5. ~raced => OneCurrent' /\ AwaitsOne' /\ OneAhead'
      BY <3>1, <3>2, <3>3, <3>4, <2>2, PendingIs, PendingSame
    <3> QED
      BY <3>1, <3>5, <1>1
  <2>8. CASE TookSynchronized(f.n)
    <3>1. UNCHANGED <<decodes, raced>> /\ st'.seq = st.seq
      BY <2>8 DEF TookSynchronized
    <3>2. \A i \in DOMAIN cl : cl'[i].gen = cl[i].gen
      BY <2>8, <1>t DEF TookSynchronized, Seeing
    <3>3. cl'[cur].awaiting = cl[cur].awaiting
      BY <2>8 DEF TookSynchronized, Seeing
    <3>5. ~raced => OneCurrent' /\ AwaitsOne' /\ OneAhead'
      BY <3>1, <3>2, <3>3, <2>2, PendingIs, PendingSame
    <3> QED
      BY <3>1, <3>5, <1>1
  <2> QED
    BY <2>2, <2>3, <2>4, <2>5, <2>6, <2>7, <2>8, <1>0, TakingIs DEF Taking
<1>15. ASSUME NEW k \in 1..Len(decodes), NEW ok \in BOOLEAN, Land(k, ok) PROVE PendingInv'
  <2>1. raced => raced'
    <3>1. PICK d : d = decodes[k]
      OBVIOUS
    <3>2. Taking1(d, ok) \/ (~Taken(d) /\ UNCHANGED <<st, cl, raced>>)
      BY <1>0, <1>15, <3>1, LandIs
    <3> QED
      BY <3>2 DEF Taking1
  <2>2. ASSUME ~raced' PROVE OneCurrent' /\ AwaitsOne' /\ OneAhead'
    <3>1. OneCurrent /\ AwaitsOne /\ OneAhead
      BY <2>1, <2>2, PendingIs
    <3> QED
      BY <3>1, <2>2, <1>15, PendingEnds
  <2> QED
    BY <2>1, <2>2 DEF PendingInv, OneCurrent, AwaitsOne, OneAhead
<1>16. CASE Leave
  BY <1>3, <1>16 DEF Leave
<1>17. ASSUME NEW kept \in BOOLEAN, Return(kept) PROVE PendingInv'
  <2>1. cur' = opens + 1 /\ opens < MaxTroubles + 1 /\ UNCHANGED <<cl, decodes, raced>>
    BY <1>17 DEF Return
  <2>2. opens \in Nat /\ cur' \in 1..MaxTroubles + 1 /\ cur' > opens
    BY <2>1, <1>0 DEF CountTypes
  <2>3. cl[cur'].awaiting = FALSE
    BY <2>2, <1>0, FreshIs DEF CountTypes
  <2>4. ~cl'[cur'].awaiting
    BY <2>1, <2>3
  <2>5. \A k \in DOMAIN decodes : decodes[k].i # cur'
    <3>1. \A k \in DOMAIN decodes : decodes[k].i <= opens
      BY <1>0 DEF CountTypes
    <3> QED
      BY <3>1, <2>1, <2>2
  <2>6. AwaitsOne' /\ OneAhead'
    BY <2>1, <2>4, <2>5 DEF AwaitsOne, OneAhead, Pending
  <2>7. ~raced => OneCurrent'
    BY <2>1, PendingIs DEF OneCurrent, Current
  <2> QED
    BY <2>1, <2>6, <2>7, <1>1
<1> QED
  BY <1>6, <1>7, <1>8, <1>9, <1>10, <1>11, <1>12, <1>13, <1>14, <1>15, <1>16, <1>17, StepIs

-----------------------------------------------------------------------------
(* What is shown is the projection. *)

ShowsAll == st.view = Mirrored(st.seq)
CacheShows == cache.view = Mirrored(cache.seq)
CursorClear == kind = "shell" => st.seq <= cursor /\ Clear(st.seq, cursor)
AskedClear == source = "asked" => Clear(st.seq, after)

LEMMA ViewIs == ViewInv <=> (~bad /\ ~raced => ShowsAll /\ CacheShows /\ CursorClear /\ AskedClear)
BY DEF ViewInv, ShowsAll, CacheShows, CursorClear, AskedClear

\* What is known of the log up to last stays true as it grows.
LEMMA GrownSame ==
  ASSUME LogGrows, last \in Nat, NEW n \in Nat, n <= last, NEW a \in Nat
  PROVE  /\ Mirrored(n)' = Mirrored(n)
         /\ Clear(a, n) => Clear(a, n)'
<1>1. \A k \in 1..n : log'[k] = log[k]
  BY DEF LogGrows
<1>2. Mirrored(n)' = Mirrored(n)
  BY <1>1 DEF Mirrored
<1>3. ASSUME Clear(a, n) PROVE Clear(a, n)'
  <2> SUFFICES ASSUME NEW c \in 1..last', log'[c] = "change", c <= n PROVE c <= a
    BY DEF Clear
  <2>1. c \in 1..last
    OBVIOUS
  <2> QED
    BY <2>1, <1>1, <1>3 DEF Clear
<1> QED
  BY <1>2, <1>3

\* What comes off the wire first: every change up to it is already shown, or is it.
LEMMA NextInLine ==
  ASSUME TypesInv, PlacesInv, BoundsInv, FlowInv, ~bad, ~raced, cur # 0, ~cl[cur].awaiting,
         wire # <<>>, wire[1].t \in {"event", "synchronized"},
         NEW c \in 1..last, log[c] = "change", c <= wire[1].n
  PROVE  c <= st.seq \/ (wire[1].t = "event" /\ wire[1].n = c)
<1>0. PageTypes /\ BridgeTypes /\ CountTypes /\ Within(last) /\ MaxTroubles \in Nat /\ MaxSeq \in Nat
  BY TypesAre, BoundsAre, StreamAssumption
<1>1. cl[cur].buffered = <<>>
  BY <1>0 DEF PageTypes, CountTypes
<1>2. PICK b : b = st.seq
  OBVIOUS
<1>3. b \in 0..last /\ Base(b)
  BY <1>0, <1>2 DEF Within, PageTypes, State, Base, BridgeTypes, last
<1>4. 1 \in DOMAIN wire
  BY <1>0 DEF BridgeTypes
<1>5. Got(b, c) \/ Shipped(c, 1)
  BY <1>3, <1>4 DEF FlowInv
<1>6. Got(b, c) => c <= b
  <2>1. Len(cl[cur].buffered) = 0
    BY <1>1
  <2> QED
    BY <2>1 DEF Got, Buffered
<1>7. Shipped(c, 1) => wire[1].t = "event" /\ wire[1].n = c
  BY DEF Shipped
<1> QED
  BY <1>2, <1>5, <1>6, <1>7

\* A decode that is taken is the one that was waited for, when there is no race.
LEMMA TakenIsPending ==
  ASSUME TypesInv, PendingInv, NEW k \in 1..Len(decodes), NEW ok \in BOOLEAN, Land(k, ok), ~raced', ~raced,
         NEW d, d = decodes[k], Taking1(d, ok)
  PROVE  /\ cur # 0 /\ d.i = cur /\ Pending(k) /\ k \in DOMAIN decodes
         /\ cl[cur].awaiting /\ st.seq <= d.n /\ Base(d.n)
<1>0. PageTypes
  BY TypesAre
<1>1. k \in DOMAIN decodes /\ d.i = cur /\ Pending(k) /\ cur # 0
  <2>1. Taken(d) /\ raced' = (raced \/ d.i # cur)
    BY DEF Taking1
  <2>2. d.i = cur
    BY <2>1, Zenon
  <2>3. d.gen = cl[d.i].gen /\ cur # 0
    BY <2>1 DEF Taken, Current
  <2>4. k \in DOMAIN decodes
    BY <1>0 DEF PageTypes
  <2> QED
    BY <2>2, <2>3, <2>4 DEF Pending
<1>2. cl[cur].awaiting /\ st.seq <= d.n
  BY <1>1, PendingIs DEF AwaitsOne, OneAhead
<1>3. Base(d.n)
  BY <1>1, <1>2 DEF Base
<1> QED
  BY <1>1, <1>2, <1>3

\* What landing a snapshot, and what was kept back behind it, comes to.
LEMMA LandedIs ==
  ASSUME TypesInv, PlacesInv, BoundsInv, PendingInv, FlowInv,
         NEW k \in 1..Len(decodes), Land(k, TRUE), ~bad, ~raced', ~raced,
         NEW d, d = decodes[k], Taking1(d, TRUE)
  PROVE  /\ d.n \in Nat /\ d.n <= last /\ Base(d.n) /\ d.i = cur /\ cur \in 1..MaxTroubles + 1
         /\ st'.seq \in Nat /\ st.seq <= st'.seq /\ d.n <= st'.seq
         /\ st'.view = Mirrored(st'.seq)
         /\ \A j \in 1..Len(cl[cur].buffered) :
               log[cl[cur].buffered[j]] = "change" => cl[cur].buffered[j] <= st'.seq
<1>0. PageTypes /\ Within(last) /\ MaxSeq \in Nat /\ MaxTroubles \in Nat /\ last \in Nat /\ last <= MaxSeq
  BY TypesAre, BoundsAre, StreamAssumption DEF BridgeTypes, last
<1>1. PICK ok \in BOOLEAN : ok = TRUE
  OBVIOUS
<1>2. Land(k, ok) /\ Taking1(d, ok) /\ ok
  BY <1>1
<1>3. d \in Decode
  BY <1>0, <1>2, LandIs
<1>4. d.n \in 0..MaxSeq /\ d.i \in 1..MaxTroubles + 1
  BY <1>3 DEF Decode
<1>5. /\ cur # 0 /\ d.i = cur /\ Pending(k) /\ k \in DOMAIN decodes
      /\ cl[cur].awaiting /\ st.seq <= d.n /\ Base(d.n)
  BY <1>2, TakenIsPending
<1>6. PICK s : s = FromSnapshot(d.n)
  OBVIOUS
<1>7. PICK q : q = cl[cur].buffered
  OBVIOUS
<1>8. PICK r : r = ApplyAll(s, q) /\ st'.seq = r.seq /\ st'.view = r.view
  BY <1>2, <1>5, <1>6, <1>7 DEF Taking1
<1>9. s \in State /\ s.seq = d.n /\ s.view = Mirrored(s.seq)
  <2>1. st \in State
    BY <1>0 DEF PageTypes
  <2> QED
    BY <2>1, <1>4, <1>6, StateIs
<1>10. q \in Seq(1..MaxSeq) /\ \A j \in 1..Len(q) : q[j] <= last
  <2>1. q \in Seq(1..MaxSeq)
    BY <1>0, <1>4, <1>5, <1>7 DEF PageTypes, Closure
  <2>2. \A j \in DOMAIN q : q[j] <= last
    BY <1>0, <1>4, <1>5, <1>7 DEF Within, PageTypes
  <2> QED
    BY <2>1, <2>2
<1>11. d.n <= last
  BY <1>0, <1>5 DEF Within
<1>12. ASSUME NEW j \in 1..Len(q), NEW c \in 1..q[j], log[c] = "change"
       PROVE  c <= s.seq \/ \E i \in 1..j : q[i] = c
  <2>1. q[j] <= last /\ j \in DOMAIN q
    BY <1>10
  <2>2. q[j] \in 1..MaxSeq
    <3>1. PICK S : S = 1..MaxSeq
      OBVIOUS
    <3>2. q \in Seq(S)
      BY <1>10, <3>1
    <3>3. q[j] \in S
      BY <3>2, <2>1
    <3> QED
      BY <3>1, <3>3
  <2>3. c \in 1..last /\ c <= q[j]
    BY <2>1, <2>2, <1>0
  <2>4. j \in DOMAIN cl[cur].buffered
    BY <2>1, <1>7
  <2>5. d.n \in 0..last
    BY <1>0, <1>4, <1>11
  <2>6. c <= d.n \/ Buffered(c, j)
    <3>1. \A b \in 0..last : Base(b) =>
             \A m \in DOMAIN cl[cur].buffered :
               \A x \in 1..last : log[x] = "change" /\ x <= cl[cur].buffered[m]
                  => x <= b \/ Buffered(x, m)
      BY <1>5 DEF FlowInv
    <3> QED
      BY <3>1, <2>3, <2>4, <2>5, <1>5, <1>7, <1>12
  <2> QED
    BY <2>6, <1>7, <1>9 DEF Buffered
<1>13. /\ r \in State /\ s.seq <= r.seq
       /\ \A j \in 1..Len(q) : log[q[j]] = "change" => q[j] <= r.seq
       /\ r.view = Mirrored(r.seq)
  BY <1>8, <1>9, <1>10, <1>12, Folded
<1>14. r.seq \in Nat /\ st.seq \in Nat
  BY <1>13, <1>0 DEF State, PageTypes
<1>15. st'.seq \in Nat /\ st.seq <= st'.seq /\ d.n <= st'.seq
  BY <1>4, <1>5, <1>8, <1>9, <1>13, <1>14
<1>16. st'.view = Mirrored(st'.seq)
  BY <1>8, <1>13, Zenon
<1>17. \A j \in 1..Len(cl[cur].buffered) :
               log[cl[cur].buffered[j]] = "change" => cl[cur].buffered[j] <= st'.seq
  BY <1>7, <1>8, <1>13
<1>18. cur \in 1..MaxTroubles + 1 /\ d.n \in Nat
  BY <1>4, <1>5, <1>0
<1> QED
  BY <1>5, <1>11, <1>15, <1>16, <1>17, <1>18

\* A failed decode and a race are never forgotten.
LEMMA Lasting ==
  ASSUME TypesInv, PlacesInv, [Next]_vars
  PROVE  (bad => bad') /\ (raced => raced')
<1>0. /\ BridgeTypes /\ LinkTypes /\ PageTypes /\ CountTypes /\ MaxTroubles \in Nat /\ MaxSeq \in Nat
      /\ LinkPlace /\ Kinds \subseteq {"shell", "thread"}
  BY TypesAre, PlacesAre, StreamAssumption
<1>1. ASSUME UNCHANGED <<bad, raced>> PROVE (bad => bad') /\ (raced => raced')
  BY <1>1
<1>2. CASE UNCHANGED vars
  BY <1>1, <1>2 DEF vars, hist
<1>3. ASSUME NEW c \in Logged, Append1(c) PROVE (bad => bad') /\ (raced => raced')
  BY <1>1, <1>3 DEF Append1, hist
<1>4. CASE Prune
  BY <1>1, <1>4 DEF Prune, hist
<1>5. ASSUME NEW marked \in BOOLEAN, Serve(marked) PROVE (bad => bad') /\ (raced => raced')
  BY <1>1, <1>5 DEF Serve
<1>6. CASE Drop
  BY <1>1, <1>6 DEF Drop
<1>7. CASE Retry
  BY <1>1, <1>7 DEF Retry, hist
<1>8. CASE Wake
  BY <1>1, <1>8 DEF Wake
<1>9. CASE Gone
  BY <1>1, <1>9 DEF Gone, hist
<1>10. CASE Deliver
  <2>1. PICK f : f = wire[1]
    OBVIOUS
  <2>2. UNCHANGED <<kind, cur, bad>> /\ Taking(f) /\ f \in Frame /\ source = "live" /\ Len(wire) >= 1
    BY <1>0, <1>10, <2>1, DeliverIs
  <2>3. raced => raced'
    BY <2>2 DEF Taking, TakeSnapshot, TakeEvent, TakeSynchronized
  <2> QED
    BY <2>2, <2>3
<1>11. ASSUME NEW k \in 1..Len(decodes), NEW ok \in BOOLEAN, Land(k, ok)
       PROVE  (bad => bad') /\ (raced => raced')
  <2>1. PICK d : d = decodes[k]
    OBVIOUS
  <2>2. bad' = (bad \/ ~ok) /\ (Taking1(d, ok) \/ (~Taken(d) /\ UNCHANGED <<st, cl, raced>>))
    BY <1>0, <1>11, <2>1, LandIs
  <2>3. bad => bad'
    BY <2>2
  <2>4. CASE Taking1(d, ok)
    <3>1. raced' = (raced \/ d.i # cur)
      BY <2>4 DEF Taking1
    <3>2. raced => raced'
      BY <3>1
    <3> QED
      BY <3>2, <2>3
  <2>5. CASE UNCHANGED raced
    BY <2>3, <2>5
  <2> QED
    BY <2>2, <2>4, <2>5
<1>12. CASE Leave
  BY <1>1, <1>12 DEF Leave
<1>13. ASSUME NEW kept \in BOOLEAN, Return(kept) PROVE (bad => bad') /\ (raced => raced')
  BY <1>1, <1>13 DEF Return
<1> QED
  BY <1>2, <1>3, <1>4, <1>5, <1>6, <1>7, <1>8, <1>9, <1>10, <1>11, <1>12, <1>13, StepIs

\* A step that leaves what is shown, and asks for no more than what follows it.
LEMMA ViewSame ==
  ASSUME TypesInv, BoundsInv, LogGrows, ShowsAll, CacheShows, CursorClear, AskedClear,
         UNCHANGED <<kind, cache, cursor>>, st'.seq = st.seq, st'.view = st.view,
         source' = "asked" => (source = "asked" /\ after' = after) \/ after' = Cursor(st)
  PROVE  ShowsAll' /\ CacheShows' /\ CursorClear' /\ AskedClear'
<1>0. PageTypes /\ LinkTypes /\ BridgeTypes /\ MaxSeq \in Nat /\ Within(last) /\ LinkIn
      /\ Kinds \subseteq {"shell", "thread"}
  BY TypesAre, BoundsAre, StreamAssumption
<1>1. /\ last \in Nat /\ st.seq \in Nat /\ cache.seq \in Nat /\ cursor \in Nat /\ after \in Nat
      /\ st.seq <= last /\ cache.seq <= last /\ cursor <= last /\ after <= last
      /\ kind \in {"shell", "thread"}
  BY <1>0 DEF PageTypes, LinkTypes, BridgeTypes, Within, LinkIn, last, State
<1>2. PICK a \in Nat : a = st.seq
  BY <1>1
<1>3. PICK b \in Nat : b = cache.seq
  BY <1>1
<1>4. PICK c \in Nat : c = cursor
  BY <1>1
<1>5. PICK e \in Nat : e = after
  BY <1>1
<1>6. Mirrored(a)' = Mirrored(a) /\ Mirrored(b)' = Mirrored(b)
  BY <1>1, <1>2, <1>3, GrownSame
<1>7. (Clear(a, c) => Clear(a, c)') /\ (Clear(a, e) => Clear(a, e)')
  BY <1>1, <1>2, <1>4, <1>5, GrownSame
<1>8. ShowsAll'
  BY <1>6, <1>2 DEF ShowsAll, Mirrored
<1>9. CacheShows'
  BY <1>6, <1>3 DEF CacheShows, Mirrored
<1>10. ASSUME kind = "shell" PROVE st.seq <= cursor /\ Clear(a, c)'
  BY <1>7, <1>2, <1>4, <1>10 DEF CursorClear
<1>11. CursorClear'
  BY <1>10, <1>2, <1>4 DEF CursorClear, Clear
<1>12. AskedClear'
  <2> SUFFICES ASSUME source' = "asked" PROVE Clear(st.seq, after)'
    BY DEF AskedClear
  <2>1. CASE source = "asked" /\ after' = after
    <3>1. Clear(a, e)'
      BY <2>1, <1>2, <1>5, <1>7 DEF AskedClear
    <3> QED
      BY <3>1, <2>1, <1>2, <1>5 DEF Clear
  <2>2. CASE after' = Cursor(st)
    <3>1. CASE kind = "shell"
      <4>1. after' = c /\ Clear(a, c)'
        BY <2>2, <3>1, <1>4, <1>10 DEF Cursor
      <4> QED
        BY <4>1, <1>2 DEF Clear
    <3>2. CASE kind = "thread"
      <4>1. after' = a
        BY <2>2, <3>2, <1>2 DEF Cursor
      <4> QED
        BY <4>1, <1>2 DEF Clear
    <3> QED
      BY <3>1, <3>2, <1>1
  <2> QED
    BY <2>1, <2>2
<1> QED
  BY <1>8, <1>9, <1>11, <1>12

\* A step that empties what is shown, or brings the thread's state back.
LEMMA ViewMoved ==
  ASSUME TypesInv, LogGrows, UNCHANGED log, kind = "thread", UNCHANGED kind,
         st'.view = Mirrored(st'.seq), cache'.view = Mirrored(cache'.seq),
         source' = "asked" => after' = st'.seq
  PROVE  ShowsAll' /\ CacheShows' /\ CursorClear' /\ AskedClear'
<1>1. ShowsAll' /\ CacheShows'
  BY DEF ShowsAll, CacheShows, Mirrored
<1>2. CursorClear'
  BY DEF CursorClear
<1>3. AskedClear'
  BY DEF AskedClear, Clear
<1> QED
  BY <1>1, <1>2, <1>3

\* The shell page takes a frame; or the thread page, no snapshot being awaited.
LEMMA ViewTakes ==
  ASSUME TypesInv, PlacesInv, BoundsInv, FlowInv, ~bad, ~raced, ShowsAll, CacheShows, CursorClear,
         cur # 0, UNCHANGED <<log, kind, cache>>, source' # "asked", wire # <<>>, NEW f, f = wire[1],
         \/ f.t = "snapshot" /\ TookSnapshot(f.n)
         \/ f.t = "event" /\ TookEvent(f.n)
         \/ f.t = "synchronized" /\ TookSynchronized(f.n)
  PROVE  ShowsAll' /\ CacheShows' /\ CursorClear' /\ AskedClear'
<1>0. /\ PageTypes /\ LinkTypes /\ BridgeTypes /\ CountTypes /\ MaxSeq \in Nat /\ Within(last) /\ LinkIn /\ WireIn
      /\ Kinds \subseteq {"shell", "thread"} /\ ShellPlace /\ MaxTroubles \in Nat
  BY TypesAre, BoundsAre, PlacesAre, StreamAssumption
<1>1. /\ last \in Nat /\ st.seq \in Nat /\ cursor \in Nat
      /\ st.seq <= last /\ cursor <= last
      /\ kind \in {"shell", "thread"}
  BY <1>0 DEF PageTypes, LinkTypes, BridgeTypes, Within, last, State
<1>2. f \in Frame /\ f.n \in Nat /\ f.n <= last /\ 1 \in DOMAIN wire
  <2>1. f \in Frame /\ 1 \in DOMAIN wire
    BY <1>0 DEF BridgeTypes
  <2>2. f.n \in Nat
    BY <2>1, <1>0 DEF Frame
  <2> QED
    BY <2>1, <2>2, <1>0 DEF WireIn
<1>3. AskedClear' /\ CacheShows'
  BY DEF AskedClear, CacheShows, Mirrored
<1>4. ASSUME st'.seq = st.seq, st'.view = st.view PROVE ShowsAll'
  BY <1>4 DEF ShowsAll, Mirrored
<1>5. ASSUME kind = "shell", st.seq <= cursor', \A c \in 1..last : log[c] = "change" /\ c <= cursor' => c <= st'.seq,
             st'.seq <= cursor'
      PROVE  CursorClear'
  BY <1>5 DEF CursorClear, Clear, last
<1>6. ASSUME kind = "thread" PROVE CursorClear'
  BY <1>6 DEF CursorClear
<1>7. kind = "shell" => ~cl[cur].awaiting
  BY <1>0 DEF ShellPlace, PageTypes
<1>8. CASE f.t = "snapshot" /\ TookSnapshot(f.n)
  <2>1. CASE kind = "shell"
    <3>1. st'.seq = f.n /\ st'.view = Mirrored(f.n) /\ cursor' = f.n
      BY <1>8, <2>1 DEF TookSnapshot
    <3>2. ShowsAll'
      BY <3>1 DEF ShowsAll, Mirrored
    <3>3. st.seq <= f.n
      BY <1>2, <1>0, <1>8 DEF WireIn, Within
    <3>4. CursorClear'
      BY <3>1, <3>3, <2>1, <1>5, <1>2
    <3> QED
      BY <3>2, <3>4, <1>3
  <2>2. CASE kind = "thread"
    <3>1. UNCHANGED st
      BY <1>8, <2>2 DEF TookSnapshot
    <3> QED
      BY <3>1, <2>2, <1>3, <1>4, <1>6
  <2> QED
    BY <2>1, <2>2, <1>1
<1>9. CASE f.t = "event" /\ TookEvent(f.n)
  <2>1. CASE kind = "thread" /\ cl[cur].awaiting
    <3>1. UNCHANGED st
      BY <1>9, <2>1 DEF TookEvent
    <3> QED
      BY <3>1, <2>1, <1>3, <1>4, <1>6
  <2>2. CASE ~cl[cur].awaiting
    <3>1. ASSUME NEW c \in 1..last, log[c] = "change", c <= f.n PROVE c <= st.seq \/ c = f.n
      BY <3>1, <2>2, <1>9, NextInLine
    <3>2. /\ \/ f.n > st.seq /\ log[f.n] = "change" /\ st'.seq = f.n /\ st'.view = st.view \cup {f.n}
             \/ ~(f.n > st.seq /\ log[f.n] = "change") /\ st'.seq = st.seq /\ st'.view = st.view
          /\ cursor' = IF kind = "shell" /\ f.n > cursor THEN f.n ELSE cursor
      BY <1>9, <2>2 DEF TookEvent
    <3>3. CASE f.n > st.seq /\ log[f.n] = "change" /\ st'.seq = f.n /\ st'.view = st.view \cup {f.n}
      <4>1. f.n \in 1..last
        BY <3>3, <1>1, <1>2
      <4>2. Mirrored(f.n) = Mirrored(st.seq) \cup {f.n}
        BY <4>1, <3>1, <3>3, <1>1, <1>2 DEF Mirrored
      <4>3. ShowsAll'
        <5>1. st'.view = Mirrored(st'.seq)
          BY <4>2, <3>3 DEF ShowsAll
        <5> QED
          BY <5>1 DEF ShowsAll, Mirrored
      <4>4. kind = "shell" => cursor < f.n
        BY <4>1, <3>3, <1>1, <1>2 DEF CursorClear, Clear
      <4>5. kind = "shell" => cursor' = f.n
        BY <3>2, <4>4, <1>1, <1>2
      <4>6. CursorClear'
        BY <4>5, <3>3, <1>1, <1>2, <1>5, <1>6
      <4> QED
        BY <4>3, <4>6, <1>3
    <3>4. CASE ~(f.n > st.seq /\ log[f.n] = "change") /\ st'.seq = st.seq /\ st'.view = st.view
      <4>1. ASSUME kind = "shell" PROVE CursorClear'
        <5>1. st.seq <= cursor /\ Clear(st.seq, cursor)
          BY <4>1 DEF CursorClear
        <5>2. cursor' = IF f.n > cursor THEN f.n ELSE cursor
          BY <4>1, <3>2
        <5>3. st.seq <= cursor'
          BY <5>1, <5>2, <1>1, <1>2
        <5>4. ASSUME NEW c \in 1..last, log[c] = "change", c <= cursor' PROVE c <= st.seq
          <6>1. CASE c <= cursor
            BY <5>1, <5>4, <6>1 DEF Clear
          <6>2. CASE ~(c <= cursor)
            BY <5>2, <5>4, <6>2, <3>1, <3>4, <1>1, <1>2
          <6> QED
            BY <6>1, <6>2
        <5> QED
          BY <4>1, <5>3, <5>4, <3>4, <1>5
      <4> QED
        BY <4>1, <3>4, <1>1, <1>3, <1>4, <1>6
    <3> QED
      BY <3>2, <3>3, <3>4
  <2> QED
    BY <2>1, <2>2, <1>7, <1>1
<1>10. CASE f.t = "synchronized" /\ TookSynchronized(f.n)
  <2>1. CASE kind = "thread"
    <3>1. st'.seq = st.seq /\ st'.view = st.view
      BY <1>10, <2>1 DEF TookSynchronized
    <3> QED
      BY <3>1, <2>1, <1>3, <1>4, <1>6
  <2>2. CASE kind = "shell"
    <3>1. ASSUME NEW c \in 1..last, log[c] = "change", c <= f.n PROVE c <= st.seq
      BY <3>1, <2>2, <1>7, <1>10, NextInLine
    <3>2. UNCHANGED st /\ cursor' = IF f.n > cursor THEN f.n ELSE cursor
      BY <1>10, <2>2 DEF TookSynchronized
    <3>3. st.seq <= cursor /\ Clear(st.seq, cursor)
      BY <2>2 DEF CursorClear
    <3>4. ASSUME NEW c \in 1..last, log[c] = "change", c <= cursor' PROVE c <= st.seq
      BY <3>1, <3>2, <3>3, <3>4, <1>1, <1>2 DEF Clear
    <3>5. st.seq <= cursor'
      BY <3>2, <3>3, <1>1, <1>2
    <3>6. CursorClear'
      BY <3>2, <3>4, <3>5, <2>2, <1>5
    <3> QED
      BY <3>2, <3>6, <1>3, <1>4
  <2> QED
    BY <2>1, <2>2, <1>1
<1> QED
  BY <1>8, <1>9, <1>10

\* What is shown stays the projection at its sequence.
LEMMA ViewStays ==
  ASSUME TypesInv, PlacesInv, BoundsInv, PendingInv, ViewInv, FlowInv, [Next]_vars
  PROVE  ViewInv'
<1> SUFFICES ASSUME ~bad', ~raced' PROVE ShowsAll' /\ CacheShows' /\ CursorClear' /\ AskedClear'
  BY DEF ViewInv, ShowsAll, CacheShows, CursorClear, AskedClear
<1>0. /\ BridgeTypes /\ LinkTypes /\ PageTypes /\ CountTypes /\ MaxTroubles \in Nat /\ MaxSeq \in Nat
      /\ ShellPlace /\ LinkPlace /\ WireIn /\ LogGrows /\ MaxBehind \in Nat \ {0}
      /\ Kinds \subseteq {"shell", "thread"}
  BY TypesAre, BoundsAre, PlacesAre, LogOnlyGrows, StreamAssumption
<1>1. ~bad /\ ~raced
  BY Lasting
<1>2. ShowsAll /\ CacheShows /\ CursorClear /\ AskedClear
  BY <1>1, ViewIs
<1>3. ASSUME UNCHANGED <<kind, cache, cursor>>, st'.seq = st.seq, st'.view = st.view,
             source' = "asked" => (source = "asked" /\ after' = after) \/ after' = Cursor(st)
      PROVE  ShowsAll' /\ CacheShows' /\ CursorClear' /\ AskedClear'
  BY <1>0, <1>2, <1>3, ViewSame
<1>4. ASSUME kind = "thread", UNCHANGED <<log, kind>>,
             st'.view = Mirrored(st'.seq), cache'.view = Mirrored(cache'.seq),
             source' = "asked" => after' = st'.seq
      PROVE  ShowsAll' /\ CacheShows' /\ CursorClear' /\ AskedClear'
  BY <1>0, <1>4, ViewMoved
<1>5. EmptyState \in State /\ EmptyState.seq = 0 /\ EmptyState.view = Mirrored(0)
  BY <1>0 DEF EmptyState, State, Mirrored
<1>6. CASE UNCHANGED vars
  BY <1>3, <1>6 DEF vars, page, conn
<1>7. ASSUME NEW c \in Logged, Append1(c) PROVE ShowsAll' /\ CacheShows' /\ CursorClear' /\ AskedClear'
  BY <1>3, <1>7 DEF Append1, page
<1>8. CASE Prune
  BY <1>3, <1>8 DEF Prune, page, conn
<1>9. ASSUME NEW marked \in BOOLEAN, Serve(marked) PROVE ShowsAll' /\ CacheShows' /\ CursorClear' /\ AskedClear'
  BY <1>3, <1>9 DEF Serve, page
<1>10. CASE Drop
  <2>1. UNCHANGED <<kind, cache, cursor>> /\ Dropped /\ source' = "none"
    BY <1>10, DropIs
  <2>2. st'.seq = st.seq /\ st'.view = st.view
    BY <2>1 DEF Dropped
  <2> QED
    BY <2>1, <2>2, <1>3
<1>11. CASE Retry
  BY <1>3, <1>11 DEF Retry, page, Open
<1>12. CASE Wake
  BY <1>3, <1>12 DEF Wake, page, Open
<1>13. CASE Gone
  BY <1>4, <1>5, <1>13 DEF Gone
<1>14. CASE Deliver
  <2>1. PICK f : f = wire[1]
    OBVIOUS
  <2>2. /\ UNCHANGED <<log, kind, cur, cache>> /\ Taking(f) /\ f \in Frame /\ source = "live"
        /\ Len(wire) \in Nat /\ Len(wire) >= 1
    BY <1>0, <1>14, <2>1, DeliverIs
  <2>3. cur # 0 /\ f.n \in 0..MaxSeq /\ wire # <<>>
    BY <2>2, <1>0 DEF LinkPlace, Frame
  <2>4. f.t = "event" => f.n # 0
    BY <1>0, <2>1, <2>2 DEF CountTypes, BridgeTypes
  <2>5. CASE f.t = "reset" /\ Open(st) /\ UNCHANGED <<st, cursor, cl, decodes, raced>>
    BY <1>3, <2>2, <2>5 DEF Open
  <2>6. CASE f.t # "reset"
    <3>1. Rest
      BY <2>2, <2>6 DEF Taking
    <3>2. source' # "asked"
      BY <3>1, <2>2 DEF Rest
    <3>3. \/ f.t = "snapshot" /\ TookSnapshot(f.n)
          \/ f.t = "event" /\ TookEvent(f.n)
          \/ f.t = "synchronized" /\ TookSynchronized(f.n)
      BY <2>2, <2>3, <2>4, <2>6, <1>0, TakingIs DEF Taking
    <3> QED
      BY <1>1, <1>2, <2>1, <2>2, <2>3, <3>2, <3>3, ViewTakes
  <2> QED
    BY <2>2, <2>5, <2>6 DEF Taking
<1>15. ASSUME NEW k \in 1..Len(decodes), NEW ok \in BOOLEAN, Land(k, ok)
       PROVE  ShowsAll' /\ CacheShows' /\ CursorClear' /\ AskedClear'
  <2>1. PICK d : d = decodes[k]
    OBVIOUS
  <2>2. /\ UNCHANGED <<kind, server, conn, cursor, cur, cache>> /\ bad' = (bad \/ ~ok)
        /\ Taking1(d, ok) \/ (~Taken(d) /\ UNCHANGED <<st, cl, raced>>)
    BY <1>0, <1>15, <2>1, LandIs
  <2>3. CASE UNCHANGED st
    BY <1>3, <2>2, <2>3 DEF conn
  <2>4. CASE Taking1(d, ok)
    <3>1. ok = TRUE
      BY <2>2
    <3>2. Land(k, TRUE) /\ Taking1(d, TRUE)
      BY <3>1, <1>15, <2>4
    <3>3. st'.seq \in Nat /\ st.seq <= st'.seq /\ st'.view = Mirrored(st'.seq)
      BY <3>2, <1>1, <2>1, LandedIs
    <3>4. kind = "thread"
      BY <1>0, <1>15 DEF ShellPlace, LinkTypes
    <3>5. UNCHANGED <<log, kind, cache, source, after>>
      BY <2>2 DEF server, conn
    <3>6. ShowsAll' /\ CacheShows' /\ CursorClear'
      BY <3>3, <3>4, <3>5, <1>2 DEF ShowsAll, CacheShows, CursorClear, Mirrored
    <3>7. AskedClear'
      <4> SUFFICES ASSUME source = "asked", NEW c \in 1..last, log[c] = "change", c <= after
                   PROVE  c <= st'.seq
        BY <3>5 DEF AskedClear, Clear, last
      <4>1. c <= st.seq
        BY <1>2 DEF AskedClear, Clear
      <4> QED
        BY <4>1, <3>3, <1>0 DEF PageTypes, State
    <3> QED
      BY <3>6, <3>7
  <2> QED
    BY <2>2, <2>3, <2>4
<1>16. CASE Leave
  <2>1. /\ cache' \in {st, cache} /\ st' = EmptyState /\ source' = "none" /\ kind = "thread"
        /\ UNCHANGED <<log, kind>>
    BY <1>16 DEF Leave
  <2>2. cache'.view = Mirrored(cache'.seq)
    BY <2>1, <1>2 DEF ShowsAll, CacheShows
  <2> QED
    BY <2>1, <2>2, <1>4, <1>5
<1>17. ASSUME NEW kept \in BOOLEAN, Return(kept) PROVE ShowsAll' /\ CacheShows' /\ CursorClear' /\ AskedClear'
  <2>1. /\ cache' = (IF kept THEN cache ELSE EmptyState) /\ UNCHANGED <<log, kind>>
        /\ st' = [cache' EXCEPT !.syncing = TRUE] /\ kind = "thread" /\ Open(st')
    BY <1>17 DEF Return, server
  <2>2. cache' \in State /\ cache'.view = Mirrored(cache'.seq)
    BY <2>1, <1>0, <1>2, <1>5 DEF CacheShows, PageTypes
  <2>3. st'.seq = cache'.seq /\ st'.view = cache'.view
    BY <2>1, <2>2 DEF State
  <2>4. after' = st'.seq
    BY <2>1 DEF Open, Cursor
  <2>5. st'.view = Mirrored(st'.seq)
    BY <2>2, <2>3
  <2> QED
    BY <2>1, <2>2, <2>4, <2>5, <1>4
<1> QED
  BY <1>6, <1>7, <1>8, <1>9, <1>10, <1>11, <1>12, <1>13, <1>14, <1>15, <1>16, <1>17, StepIs

-----------------------------------------------------------------------------
(* What is under way covers the log. *)

BufferFlow(b) ==
  \A k \in DOMAIN cl[cur].buffered :
     \A c \in 1..last : log[c] = "change" /\ c <= cl[cur].buffered[k] => c <= b \/ Buffered(c, k)

WireFlow(b) ==
  \A k \in DOMAIN wire : wire[k].t # "reset" =>
     \A c \in 1..last : log[c] = "change" /\ c <= wire[k].n => Got(b, c) \/ Shipped(c, k)

LiveFlow(b) ==
  served => \A c \in 1..last : log[c] = "change" => Got(b, c) \/ Shipped(c, Len(wire))

Flow(b) == BufferFlow(b) /\ WireFlow(b) /\ LiveFlow(b)

LEMMA FlowIs == FlowInv <=> (~bad /\ ~raced /\ cur # 0 => \A b \in 0..last : Base(b) => Flow(b))
BY DEF FlowInv, Flow, BufferFlow, WireFlow, LiveFlow

\* What the page is at, or is about to be at, is in the log.
LEMMA BaseIn ==
  ASSUME TypesInv, BoundsInv, NEW b, Base(b)
  PROVE  b \in 0..last /\ b \in Nat
<1>0. PageTypes /\ Within(last) /\ last \in Nat
  BY TypesAre, BoundsAre DEF BridgeTypes, last
<1>1. st.seq \in Nat /\ \A k \in DOMAIN decodes : decodes[k].n \in Nat
  <2>1. \A d \in Decode : d.n \in Nat
    BY DEF Decode
  <2>2. \A k \in DOMAIN decodes : decodes[k] \in Decode
    BY <1>0 DEF PageTypes
  <2>3. \A k \in DOMAIN decodes : decodes[k].n \in Nat
    BY <2>1, <2>2, Zenon
  <2> QED
    BY <2>3, <1>0 DEF PageTypes, State
<1> QED
  BY <1>0, <1>1 DEF Base, Within

LEMMA BaseSame ==
  ASSUME UNCHANGED <<cur, decodes>>, cl'[cur].gen = cl[cur].gen, cl'[cur].awaiting = cl[cur].awaiting,
         st'.seq = st.seq, NEW b, Base(b)'
  PROVE  Base(b)
BY DEF Base, Pending

\* Nothing moved, or the stream was cut off.
LEMMA FlowSame ==
  ASSUME UNCHANGED <<log, cur>>, cl'[cur].buffered = cl[cur].buffered,
         UNCHANGED <<wire, served>> \/ (wire' = <<>> /\ ~served'), NEW b, Flow(b)
  PROVE  Flow(b)'
<1>1. BufferFlow(b)'
  BY DEF Flow, BufferFlow, Buffered, last
<1>2. WireFlow(b)' /\ LiveFlow(b)'
  <2>1. CASE UNCHANGED <<wire, served>>
    BY <2>1 DEF Flow, WireFlow, LiveFlow, Got, Buffered, Shipped, last
  <2>2. CASE wire' = <<>> /\ ~served'
    BY <2>2 DEF WireFlow, LiveFlow
  <2> QED
    BY <2>1, <2>2
<1> QED
  BY <1>1, <1>2 DEF Flow

\* A connection that has not begun.
LEMMA FlowAnew ==
  ASSUME cl'[cur'].buffered = <<>>, wire' = <<>>, ~served', NEW b
  PROVE  Flow(b)'
BY DEF Flow, BufferFlow, WireFlow, LiveFlow

\* A commit: a stream that is served gets the event, unless it is none of its own.
LEMMA FlowCommits ==
  ASSUME TypesInv, BoundsInv, NEW e \in Logged, Append1(e), cur # 0, NEW b \in Nat, b <= last, Flow(b)
  PROVE  Flow(b)'
<1>0. /\ BridgeTypes /\ PageTypes /\ MaxSeq \in Nat /\ LinkIn /\ WireIn /\ Within(last)
      /\ MaxTroubles \in Nat
  BY TypesAre, BoundsAre, StreamAssumption
<1>1. /\ last' = last + 1 /\ log'[last + 1] = e /\ \A k \in 1..last : log'[k] = log[k]
      /\ Wrote(e) /\ UNCHANGED page /\ last \in Nat
  BY <1>0, Written DEF Append1, BridgeTypes, last
<1>2. UNCHANGED <<cur, cl>>
  BY <1>1 DEF page
<1>3. /\ wire \in Seq(Frame) /\ Len(wire) \in Nat /\ DOMAIN wire = 1..Len(wire)
      /\ \A k \in DOMAIN wire : wire[k].n \in Nat /\ wire[k].n <= last
  <2>1. wire \in Seq(Frame) /\ Len(wire) \in Nat /\ DOMAIN wire = 1..Len(wire)
    BY <1>0 DEF BridgeTypes
  <2>2. \A f \in Frame : f.n \in Nat
    BY <1>0 DEF Frame
  <2>3. \A k \in DOMAIN wire : wire[k] \in Frame
    BY <2>1
  <2>4. \A k \in DOMAIN wire : wire[k].n \in Nat
    BY <2>2, <2>3, Zenon
  <2> QED
    BY <2>1, <2>4, <1>0 DEF WireIn
<1>4. ASSUME NEW c PROVE Got(b, c)' <=> Got(b, c)
  BY <1>2 DEF Got, Buffered
<1>5. BufferFlow(b)'
  <2>1. PICK q : q = cl[cur].buffered
    OBVIOUS
  <2>2. cur \in 1..MaxTroubles + 1 /\ cl \in [1..MaxTroubles + 1 -> Closure]
    BY <1>0 DEF PageTypes
  <2>3. q \in Seq(1..MaxSeq)
    BY <2>1, <2>2 DEF Closure
  <2>4. \A k \in DOMAIN q : q[k] \in Nat
    <3>1. PICK S : S = 1..MaxSeq
      OBVIOUS
    <3>2. q \in Seq(S)
      BY <2>3, <3>1
    <3>3. \A k \in DOMAIN q : q[k] \in S
      BY <3>2
    <3> QED
      BY <3>1, <3>3, <1>0
  <2>5. \A k \in DOMAIN q : q[k] <= last
    BY <2>1, <2>2, <1>0 DEF Within
  <2>6. ASSUME NEW k \in DOMAIN q, NEW c \in 1..last + 1, log'[c] = "change", c <= q[k]
        PROVE  c <= b \/ Buffered(c, k)'
    <3>1. c \in 1..last /\ log[c] = "change"
      BY <2>4, <2>5, <2>6, <1>1
    <3>2. c <= b \/ Buffered(c, k)
      BY <3>1, <2>6, <2>1 DEF Flow, BufferFlow
    <3> QED
      BY <3>2, <1>2 DEF Buffered
  <2> QED
    BY <2>1, <2>6, <1>1, <1>2 DEF BufferFlow
<1>6. PICK z : z = Len(wire)
  OBVIOUS
<1>7. CASE UNCHANGED <<wire, served, lastSent>> /\ (served => e = "other" \/ last + 1 <= lastSent)
  <2>1. served => e = "other"
    BY <1>7, <1>0, <1>1 DEF LinkIn, BridgeTypes
  <2>2. ASSUME NEW c, NEW k PROVE Shipped(c, k)' <=> Shipped(c, k)
    BY <1>7 DEF Shipped
  <2>3. ASSUME NEW k \in DOMAIN wire, wire[k].t # "reset",
               NEW c \in 1..last + 1, log'[c] = "change", c <= wire[k].n
        PROVE  Got(b, c)' \/ Shipped(c, k)'
    <3>1. c \in 1..last /\ log[c] = "change"
      BY <2>3, <1>1, <1>3
    <3> QED
      BY <3>1, <2>2, <2>3, <1>4 DEF Flow, WireFlow
  <2>4. WireFlow(b)'
    BY <2>3, <1>1, <1>7 DEF WireFlow
  <2>5. ASSUME served, NEW c \in 1..last + 1, log'[c] = "change"
        PROVE  Got(b, c)' \/ Shipped(c, z)'
    <3>1. c \in 1..last /\ log[c] = "change"
      BY <2>1, <2>5, <1>1
    <3> QED
      BY <3>1, <2>2, <2>5, <1>4, <1>6 DEF Flow, LiveFlow
  <2>6. LiveFlow(b)'
    BY <2>5, <1>1, <1>6, <1>7 DEF LiveFlow, Shipped
  <2> QED
    BY <1>5, <2>4, <2>6 DEF Flow
<1>8. CASE /\ served /\ wire' \in Seq(Frame)
           /\ Len(wire') >= Len(wire) + 1
           /\ \A k \in 1..Len(wire) : wire'[k] = wire[k]
           /\ wire'[Len(wire) + 1] = [t |-> "event", n |-> last + 1]
           /\ \A k \in 1..Len(wire') : k > Len(wire) + 1 => wire'[k] = [t |-> "reset", n |-> lastSent]
  <2>1. wire'[z + 1].t = "event" /\ wire'[z + 1].n = last + 1 /\ z \in Nat
    BY <1>8, <1>6, <1>3
  <2>2. ASSUME NEW c, NEW k \in Nat, k <= z, Shipped(c, k) PROVE Shipped(c, k)'
    <3>1. \A j \in 1..k : wire'[j] = wire[j]
      BY <2>2, <1>6, <1>8, <1>3
    <3> QED
      BY <3>1, <2>2 DEF Shipped
  <2>3. ASSUME NEW c, Shipped(c, z), NEW k \in Nat, k > z PROVE Shipped(c, k)'
    <3>1. \A j \in 1..z : wire'[j] = wire[j] /\ j \in 1..k
      BY <2>3, <2>1, <1>6, <1>8, <1>3
    <3> QED
      BY <3>1, <2>3 DEF Shipped
  <2>4. ASSUME NEW c, c = last + 1, NEW k \in Nat, k > z PROVE Shipped(c, k)'
    <3>1. z + 1 \in 1..k
      BY <2>1, <2>4
    <3> QED
      BY <3>1, <2>1, <2>4 DEF Shipped
  <2>5. ASSUME NEW c \in 1..last, log[c] = "change", NEW k \in Nat, k > z
        PROVE  Got(b, c)' \/ Shipped(c, k)'
    <3>1. Got(b, c) \/ Shipped(c, z)
      BY <2>5, <1>6, <1>8 DEF Flow, LiveFlow
    <3> QED
      BY <3>1, <2>3, <2>5, <1>4
  <2>6. ASSUME NEW c \in 1..last + 1, log'[c] = "change", NEW k \in Nat, k > z
        PROVE  Got(b, c)' \/ Shipped(c, k)'
    <3>1. CASE c = last + 1
      BY <3>1, <2>4, <2>6
    <3>2. CASE c # last + 1
      <4>1. c \in 1..last /\ log[c] = "change"
        BY <3>2, <2>6, <1>1
      <4> QED
        BY <4>1, <2>5, <2>6
    <3> QED
      BY <3>1, <3>2
  <2>7. ASSUME NEW k \in 1..Len(wire'), wire'[k].t # "reset",
               NEW c \in 1..last + 1, log'[c] = "change", c <= wire'[k].n
        PROVE  Got(b, c)' \/ Shipped(c, k)'
    <3>1. CASE k > z
      BY <3>1, <2>6, <2>7
    <3>2. CASE ~(k > z)
      <4>1. k \in DOMAIN wire /\ k <= z /\ wire'[k] = wire[k]
        BY <3>2, <1>3, <1>6, <1>8
      <4>2. c \in 1..last /\ log[c] = "change"
        BY <4>1, <2>7, <1>1, <1>3
      <4>3. Got(b, c) \/ Shipped(c, k)
        BY <4>1, <4>2, <2>7 DEF Flow, WireFlow
      <4> QED
        BY <4>1, <4>3, <2>2, <1>4
    <3> QED
      BY <3>1, <3>2
  <2>8. WireFlow(b)'
    <3>1. DOMAIN wire' = 1..Len(wire')
      BY <1>8
    <3> QED
      BY <3>1, <2>7, <1>1 DEF WireFlow
  <2>9. PICK y : y = Len(wire')
    OBVIOUS
  <2>10. y \in Nat /\ y > z
    BY <2>9, <2>1, <1>6, <1>8
  <2>11. LiveFlow(b)'
    <3>1. \A c \in 1..last + 1 : log'[c] = "change" => Got(b, c)' \/ Shipped(c, y)'
      BY <2>6, <2>10
    <3> QED
      BY <3>1, <2>9, <1>1 DEF LiveFlow, Shipped
  <2> QED
    BY <1>5, <2>8, <2>11 DEF Flow
<1> QED
  BY <1>1, <1>7, <1>8 DEF Wrote

\* Not to race, and to be at what one waits for.
LEMMA BaseAhead ==
  ASSUME TypesInv, PendingInv, ~raced, cur # 0, NEW b, Base(b)
  PROVE  st.seq <= b
<1>0. st.seq \in Nat
  BY TypesAre DEF PageTypes, State
<1> QED
  BY <1>0, PendingIs DEF Base, OneAhead

\* A stream begins: what it does not carry, the page has.
LEMMA FlowServes ==
  ASSUME TypesInv, PlacesInv, BoundsInv, PendingInv, ViewInv, FlowInv, ~bad, ~raced,
         Serve(FALSE), cur # 0, NEW b, Base(b)'
  PROVE  Flow(b)'
<1>0. /\ BridgeTypes /\ LinkTypes /\ PageTypes /\ MaxSeq \in Nat /\ MaxBehind \in Nat \ {0}
      /\ AskedClear /\ last \in Nat
  BY TypesAre, ViewIs, StreamAssumption DEF BridgeTypes, last
<1>1. UNCHANGED <<log, cur, cl, decodes, st>> /\ source = "asked"
  BY DEF Serve, page
<1>2. Base(b)
  BY <1>1 DEF Base, Pending
<1>3. Flow(b) /\ st.seq <= b /\ b \in Nat /\ st.seq \in Nat /\ b <= last
  BY <1>0, <1>2, FlowIs, BaseIn, BaseAhead DEF PageTypes, State
<1>4. BufferFlow(b)'
  BY <1>1, <1>3 DEF Flow, BufferFlow, Buffered, last
<1>5. PICK w : w = CatchUp
  OBVIOUS
<1>6. Catching(w)
  BY <1>0, <1>5, Caught
<1>7. PICK marked \in BOOLEAN : marked = FALSE
  OBVIOUS
<1>8. /\ wire' \in Seq(Frame) /\ Len(wire') = Len(w) + 1
      /\ \A k \in 1..Len(w) : wire'[k] = w[k]
      /\ wire'[Len(w) + 1] = [t |-> "synchronized", n |-> last]
  BY <1>0, <1>5, <1>7, ServedIs
<1>9. PICK z \in Nat : z = Len(w)
  BY <1>6 DEF Catching
<1>10. after \in Nat /\ \A k \in 1..z : w[k].n \in Nat /\ w[k].n <= last
  <2>1. \A f \in Frame : f.n \in Nat
    BY <1>0 DEF Frame
  <2>2. \A k \in 1..z : w[k] \in Frame
    BY <1>6, <1>9 DEF Catching
  <2>3. \A k \in 1..z : w[k].n \in Nat
    BY <2>1, <2>2, Zenon
  <2> QED
    BY <2>3, <1>0, <1>6, <1>9 DEF Catching, LinkTypes
<1>11. ASSUME NEW k \in 1..z + 1, NEW c \in 1..last, log[c] = "change",
              k = z + 1 \/ c <= w[k].n
       PROVE  c <= b \/ Shipped(c, k)'
  <2>1. CASE z = 1 /\ w[1] = [t |-> "snapshot", n |-> last]
    <3>1. 1 \in 1..k /\ 1 \in 1..Len(w)
      BY <2>1, <1>9
    <3>2. wire'[1] = w[1]
      BY <3>1, <1>8, Zenon
    <3>3. wire'[1].t = "snapshot" /\ wire'[1].n = last
      BY <3>2, <2>1
    <3> QED
      BY <3>1, <3>3 DEF Shipped
  <2>2. CASE /\ after <= last
             /\ \A i \in 1..z : w[i].t = "event" /\ w[i].n > after
             /\ \A i, j \in 1..z : i < j => w[i].n < w[j].n
             /\ \A x \in 1..last : x > after /\ log[x] = "change" => \E j \in 1..z : w[j].n = x
    <3>1. CASE c <= after
      <4>1. c <= st.seq
        BY <3>1, <1>11, <1>0, <1>1 DEF AskedClear, Clear
      <4> QED
        BY <4>1, <1>3
    <3>2. CASE c > after
      <4>1. PICK j \in 1..z : w[j].n = c
        BY <2>2, <3>2, <1>11
      <4>2. j <= k
        <5>1. CASE k = z + 1
          BY <5>1
        <5>2. CASE k \in 1..z /\ c <= w[k].n
          <6>1. j > k => w[k].n < w[j].n
            BY <2>2, <5>2
          <6> QED
            BY <6>1, <4>1, <5>2, <1>10
        <5> QED
          BY <5>1, <5>2, <1>11
      <4>3. wire'[j].t = "event" /\ wire'[j].n = c /\ j \in 1..k
        BY <4>1, <4>2, <2>2, <1>8, <1>9
      <4> QED
        BY <4>3 DEF Shipped
    <3> QED
      BY <3>1, <3>2, <1>10
  <2> QED
    BY <2>1, <2>2, <1>6, <1>9 DEF Catching
<1>12. WireFlow(b)'
  <2>1. DOMAIN wire' = 1..z + 1
    BY <1>8, <1>9
  <2> SUFFICES ASSUME NEW k \in 1..z + 1, NEW c \in 1..last, log[c] = "change", c <= wire'[k].n
               PROVE  Got(b, c)' \/ Shipped(c, k)'
    BY <2>1, <1>1 DEF WireFlow, last
  <2>2. k = z + 1 \/ c <= w[k].n
    BY <1>8, <1>9
  <2>3. c <= b \/ Shipped(c, k)'
    BY <2>2, <1>11
  <2> QED
    BY <2>3 DEF Got
<1>13. LiveFlow(b)'
  <2>1. \A c \in 1..last : log[c] = "change" => c <= b \/ Shipped(c, z + 1)'
    BY <1>11
  <2>2. Len(wire') = z + 1
    BY <1>8, <1>9
  <2> QED
    BY <2>1, <2>2, <1>1 DEF LiveFlow, Got, last, Shipped
<1> QED
  BY <1>4, <1>12, <1>13 DEF Flow

Carries(f, c) == (f.t = "event" /\ f.n = c) \/ (f.t = "snapshot" /\ c <= f.n)

\* A frame is read: whatever it carries, and whatever the page had, it has now.
LEMMA FlowTail ==
  ASSUME TypesInv, Rest, wire # <<>>, UNCHANGED <<log, cur>>, NEW a, NEW b, Flow(a), NEW f, f = wire[1],
         \A c \in 1..last : log[c] = "change" /\ (Got(a, c) \/ Carries(f, c)) => Got(b, c)'
  PROVE  WireFlow(b)' /\ LiveFlow(b)'
<1>0. wire \in Seq(Frame) /\ Len(wire) \in Nat /\ Len(wire) >= 1 /\ DOMAIN wire = 1..Len(wire)
  BY TypesAre DEF BridgeTypes
<1>1. PICK z \in Nat : z = Len(wire) - 1
  <2>1. Len(wire) - 1 \in Nat
    BY <1>0
  <2> QED
    BY <2>1
<1>2. /\ wire' \in Seq(Frame) /\ Len(wire') = z /\ DOMAIN wire' = 1..z
      /\ \A k \in 1..z : wire'[k] = wire[k + 1]
      /\ served' = served
  BY <1>1 DEF Rest
<1>3. ASSUME NEW c, NEW k \in 0..z, Shipped(c, k + 1)
      PROVE  Carries(f, c) \/ Shipped(c, k)'
  <2>1. PICK j \in 1..k + 1 : (wire[j].t = "event" /\ wire[j].n = c) \/ (wire[j].t = "snapshot" /\ c <= wire[j].n)
    BY <1>3 DEF Shipped
  <2>2. CASE j = 1
    BY <2>1, <2>2 DEF Carries
  <2>3. CASE j # 1
    <3>1. PICK i \in 1..k : j = i + 1
      BY <2>3
    <3>2. wire'[i] = wire[j]
      BY <3>1, <1>2
    <3> QED
      BY <3>1, <3>2, <2>1 DEF Shipped
  <2> QED
    BY <2>2, <2>3
<1>4. ASSUME NEW c \in 1..last, log[c] = "change", NEW k \in 0..z, Got(a, c) \/ Shipped(c, k + 1)
      PROVE  Got(b, c)' \/ Shipped(c, k)'
  <2>1. Got(a, c) \/ Carries(f, c) \/ Shipped(c, k)'
    BY <1>3, <1>4
  <2> QED
    BY <2>1, <1>4
<1>5. WireFlow(b)'
  <2> SUFFICES ASSUME NEW k \in 1..z, wire'[k].t # "reset", NEW c \in 1..last, log[c] = "change", c <= wire'[k].n
               PROVE  Got(b, c)' \/ Shipped(c, k)'
    BY <1>2 DEF WireFlow, last
  <2>1. k + 1 \in DOMAIN wire /\ wire[k + 1].t # "reset" /\ c <= wire[k + 1].n
    BY <1>0, <1>1, <1>2
  <2>2. Got(a, c) \/ Shipped(c, k + 1)
    BY <2>1 DEF Flow, WireFlow
  <2> QED
    BY <2>2, <1>4
<1>6. LiveFlow(b)'
  <2> SUFFICES ASSUME served, NEW c \in 1..last, log[c] = "change"
               PROVE  Got(b, c)' \/ Shipped(c, z)'
    BY <1>2 DEF LiveFlow, last, Shipped
  <2>1. Got(a, c) \/ Shipped(c, Len(wire))
    BY DEF Flow, LiveFlow
  <2>2. Len(wire) = z + 1
    BY <1>0, <1>1
  <2> QED
    BY <2>1, <2>2, <1>4
<1> QED
  BY <1>5, <1>6

\* Nothing is kept back by a page that waits for no snapshot.
LEMMA NothingKept ==
  ASSUME TypesInv, cur # 0, ~cl[cur].awaiting
  PROVE  /\ cl[cur].buffered = <<>> /\ \A b, c : Got(b, c) <=> c <= b
         /\ \A b : Base(b) <=> b = st.seq
<1>0. PageTypes /\ CountTypes /\ MaxTroubles \in Nat
  BY TypesAre, StreamAssumption
<1>1. cl[cur].buffered = <<>>
  BY <1>0 DEF PageTypes, CountTypes
<1>2. Len(cl[cur].buffered) = 0
  BY <1>1
<1>3. \A b, c : Got(b, c) <=> c <= b
  BY <1>2 DEF Got, Buffered
<1>4. \A b : Base(b) <=> b = st.seq
  BY DEF Base
<1> QED
  BY <1>1, <1>3, <1>4

\* A snapshot of the shell stream is taken in at once.
LEMMA FlowShellSnapshot ==
  ASSUME TypesInv, PlacesInv, BoundsInv, FlowInv, ~bad, ~raced, cur # 0, UNCHANGED <<log, cur>>,
         Rest, wire # <<>>, NEW f, f = wire[1], f.t = "snapshot",
         kind = "shell", TookSnapshot(f.n), NEW b, Base(b)'
  PROVE  Flow(b)'
<1>0. /\ PageTypes /\ BridgeTypes /\ ShellPlace /\ WireIn /\ MaxTroubles \in Nat /\ Within(last)
      /\ last \in Nat /\ st.seq \in Nat /\ MaxSeq \in Nat
  BY TypesAre, PlacesAre, BoundsAre, StreamAssumption DEF PageTypes, BridgeTypes, last, State
<1>1. ~cl[cur].awaiting /\ st'.seq = f.n /\ UNCHANGED <<cl, decodes>>
  BY <1>0 DEF ShellPlace, PageTypes, TookSnapshot
<1>2. b = f.n
  BY <1>1 DEF Base
<1>3. st.seq <= f.n /\ f.n \in Nat
  <2>1. 1 \in DOMAIN wire /\ f \in Frame
    BY <1>0 DEF BridgeTypes
  <2>2. f.n \in Nat
    BY <2>1, <1>0 DEF Frame
  <2>3. Within(f.n)
    BY <2>1, <1>0 DEF WireIn
  <2> QED
    BY <2>2, <2>3 DEF Within
<1>4. Flow(st.seq) /\ cl[cur].buffered = <<>> /\ \A c : Got(st.seq, c) <=> c <= st.seq
  BY <1>0, <1>1, NothingKept, FlowIs DEF Within
<1>5. ASSUME NEW c \in 1..last, Got(st.seq, c) \/ Carries(f, c) PROVE Got(b, c)'
  <2>1. c <= b
    BY <1>0, <1>2, <1>3, <1>4, <1>5 DEF Carries
  <2> QED
    BY <2>1 DEF Got
<1>6. WireFlow(b)' /\ LiveFlow(b)'
  BY <1>4, <1>5, FlowTail
<1>7. BufferFlow(b)'
  BY <1>1, <1>4 DEF BufferFlow
<1> QED
  BY <1>6, <1>7 DEF Flow

\* A snapshot of a thread is decoded first, what follows it is kept back meanwhile.
LEMMA FlowThreadSnapshot ==
  ASSUME TypesInv, PlacesInv, BoundsInv, PendingInv, FlowInv, ~bad, ~raced, ~raced', cur # 0, UNCHANGED <<log, cur>>,
         Rest, wire # <<>>, NEW f, f = wire[1], f.t = "snapshot",
         kind = "thread", TookSnapshot(f.n), NEW b, Base(b)'
  PROVE  Flow(b)'
<1>0. /\ PageTypes /\ BridgeTypes /\ WireIn /\ MaxTroubles \in Nat /\ Within(last)
      /\ last \in Nat /\ st.seq \in Nat /\ MaxSeq \in Nat /\ AwaitsOne
  <2>1. PageTypes /\ BridgeTypes
    BY TypesAre
  <2>2. WireIn /\ Within(last)
    BY BoundsAre
  <2>3. AwaitsOne
    BY PendingIs
  <2>4. last \in Nat /\ st.seq \in Nat
    BY <2>1, StreamAssumption DEF PageTypes, BridgeTypes, last, State
  <2> QED
    BY <2>1, <2>2, <2>3, <2>4, StreamAssumption
<1>1. /\ UNCHANGED <<st, cursor>>
      /\ decodes' \in Seq(Decode) /\ Len(decodes') = Len(decodes) + 1
      /\ \A k \in 1..Len(decodes) : decodes'[k] = decodes[k]
      /\ decodes'[Len(decodes) + 1] = [i |-> cur, gen |-> cl[cur].gen, n |-> f.n]
      /\ Cleared(1..MaxTroubles + 1, cl, cur, FALSE, TRUE, cl')
  BY DEF TookSnapshot
<1>2. \A k \in DOMAIN decodes : ~Current(decodes[k])
  <2>1. raced' = (raced \/ \E k \in DOMAIN decodes : Current(decodes[k]))
    BY DEF TookSnapshot
  <2> QED
    BY <2>1, Zenon
<1>3. ~cl[cur].awaiting
  <2>1. \A k \in DOMAIN decodes : ~Pending(k)
    BY <1>2 DEF Pending, Current
  <2> QED
    BY <2>1, <1>0 DEF AwaitsOne
<1>4. /\ cl'[cur].gen = cl[cur].gen /\ cl'[cur].awaiting = TRUE /\ cl'[cur].buffered = <<>>
  BY <1>1 DEF Cleared
<1>5. b = f.n
  <2>1. PICK k \in DOMAIN decodes' : Pending(k)' /\ b = decodes'[k].n
    BY <1>4 DEF Base
  <2>2. decodes'[k].i = cur /\ decodes'[k].gen = cl[cur].gen
    BY <2>1, <1>4 DEF Pending
  <2>3. PICK m : m = Len(decodes)
    OBVIOUS
  <2>4. m \in Nat /\ DOMAIN decodes = 1..m /\ k \in 1..m + 1
    BY <2>1, <2>3, <1>0, <1>1 DEF PageTypes
  <2>5. k \notin 1..m
    <3> SUFFICES ASSUME k \in 1..m PROVE FALSE
      OBVIOUS
    <3>1. decodes'[k] = decodes[k] /\ k \in DOMAIN decodes
      BY <1>1, <2>3, <2>4
    <3>2. Current(decodes[k])
      BY <3>1, <2>2 DEF Current
    <3> QED
      BY <3>1, <3>2, <1>2
  <2>6. k = m + 1
    BY <2>4, <2>5
  <2>7. decodes'[k].n = f.n
    BY <2>3, <2>6, <1>1
  <2> QED
    BY <2>1, <2>7
<1>6. st.seq <= f.n /\ f.n \in Nat
  <2>1. 1 \in DOMAIN wire /\ f \in Frame
    BY <1>0 DEF BridgeTypes
  <2>2. f.n \in Nat
    BY <2>1, <1>0 DEF Frame
  <2>3. Within(f.n)
    BY <2>1, <1>0 DEF WireIn
  <2> QED
    BY <2>2, <2>3 DEF Within
<1>7. Flow(st.seq) /\ \A c : Got(st.seq, c) <=> c <= st.seq
  BY <1>0, <1>3, NothingKept, FlowIs DEF Within
<1>8. ASSUME NEW c \in 1..last, Got(st.seq, c) \/ Carries(f, c) PROVE Got(b, c)'
  <2>1. c <= b
    BY <1>0, <1>5, <1>6, <1>7, <1>8 DEF Carries
  <2> QED
    BY <2>1 DEF Got
<1>9. WireFlow(b)' /\ LiveFlow(b)'
  BY <1>7, <1>8, FlowTail
<1>10. BufferFlow(b)'
  BY <1>4 DEF BufferFlow
<1> QED
  BY <1>9, <1>10 DEF Flow

\* An event behind a snapshot that is being decoded is kept back.
LEMMA FlowKeepsBack ==
  ASSUME TypesInv, BoundsInv, FlowInv, ~bad, ~raced, cur # 0, UNCHANGED <<log, cur>>,
         Rest, wire # <<>>, NEW f, f = wire[1], f.t = "event",
         kind = "thread", cl[cur].awaiting, TookEvent(f.n), NEW b, Base(b)'
  PROVE  Flow(b)'
<1>0. /\ PageTypes /\ BridgeTypes /\ MaxTroubles \in Nat
      /\ last \in Nat /\ MaxSeq \in Nat
  BY TypesAre, StreamAssumption DEF BridgeTypes, last
<1>1. UNCHANGED <<st, decodes>> /\ Keeping(1..MaxTroubles + 1, cl, cur, f.n, cl')
  BY DEF TookEvent
<1>2. /\ cl'[cur].gen = cl[cur].gen /\ cl'[cur].awaiting = cl[cur].awaiting
      /\ cl'[cur].buffered = Append(cl[cur].buffered, f.n)
  BY <1>1 DEF Keeping
<1>3. Base(b) /\ Flow(b)
  <2>1. Base(b)
    BY <1>1, <1>2 DEF Base, Pending
  <2> QED
    BY <2>1, BaseIn, FlowIs
<1>4. PICK q : q = cl[cur].buffered
  OBVIOUS
<1>5. q \in Seq(1..MaxSeq) /\ Len(q) \in Nat /\ DOMAIN q = 1..Len(q)
  <2>1. cur \in 1..MaxTroubles + 1 /\ cl \in [1..MaxTroubles + 1 -> Closure]
    BY <1>0 DEF PageTypes
  <2>2. q \in Seq(1..MaxSeq)
    BY <2>1, <1>4 DEF Closure
  <2> QED
    BY <2>2
<1>6. PICK p : p = cl'[cur].buffered
  OBVIOUS
<1>7. /\ Len(p) = Len(q) + 1 /\ \A j \in 1..Len(q) : p[j] = q[j]
      /\ p[Len(q) + 1] = f.n /\ DOMAIN p = 1..Len(q) + 1
  BY <1>2, <1>4, <1>5, <1>6
<1>8. PICK z \in Nat : z = Len(q)
  BY <1>5
<1>9. ASSUME NEW c, NEW k \in 0..z, Buffered(c, k), NEW m \in 0..z + 1, k <= m PROVE Buffered(c, m)'
  <2>1. PICK j \in 1..k : q[j] = c
    BY <1>4, <1>9 DEF Buffered
  <2>2. j \in 1..m /\ j \in 1..Len(q)
    BY <1>8, <1>9
  <2>3. p[j] = c
    BY <2>1, <2>2, <1>7
  <2> QED
    BY <2>2, <2>3, <1>6 DEF Buffered
<1>10. ASSUME NEW c \in 1..last, Got(b, c) \/ Carries(f, c) PROVE c <= b \/ Buffered(c, z + 1)'
  <2>1. CASE c <= b
    BY <2>1
  <2>2. CASE Buffered(c, z)
    BY <2>2, <1>8, <1>9
  <2>3. CASE Carries(f, c)
    <3>1. f.n = c
      BY <2>3 DEF Carries
    <3>2. p[z + 1] = c /\ z + 1 \in 1..z + 1
      BY <3>1, <1>7, <1>8
    <3> QED
      BY <3>2, <1>6 DEF Buffered
  <2> QED
    BY <2>1, <2>2, <2>3, <1>10, <1>4, <1>8 DEF Got
<1>11. \A c \in 1..last : Got(b, c) \/ Carries(f, c) => Got(b, c)'
  <2>1. Len(cl'[cur].buffered) = z + 1
    BY <1>6, <1>7, <1>8
  <2> QED
    BY <2>1, <1>10 DEF Got, Buffered
<1>12. WireFlow(b)' /\ LiveFlow(b)'
  BY <1>3, <1>11, FlowTail
<1>13. BufferFlow(b)'
  <2> SUFFICES ASSUME NEW k \in 1..z + 1, NEW c \in 1..last, log[c] = "change", c <= p[k]
               PROVE  c <= b \/ Buffered(c, k)'
    BY <1>6, <1>7, <1>8 DEF BufferFlow, last
  <2>1. CASE k \in 1..z
    <3>1. k \in DOMAIN q /\ c <= q[k]
      BY <2>1, <1>5, <1>7, <1>8
    <3>2. c <= b \/ Buffered(c, k)
      BY <3>1, <1>3, <1>4 DEF Flow, BufferFlow
    <3> QED
      BY <3>2, <1>9, <2>1
  <2>2. CASE k = z + 1
    <3>1. c <= f.n /\ 1 \in DOMAIN wire
      BY <2>2, <1>0, <1>7, <1>8 DEF BridgeTypes
    <3>2. Got(b, c) \/ Shipped(c, 1)
      BY <3>1, <1>3 DEF Flow, WireFlow
    <3>3. Shipped(c, 1) => Carries(f, c)
      BY DEF Shipped, Carries
    <3> QED
      BY <3>2, <3>3, <2>2, <1>10
  <2> QED
    BY <2>1, <2>2
<1> QED
  BY <1>12, <1>13 DEF Flow

\* Any other event is taken in at once.
LEMMA FlowTakesIn ==
  ASSUME TypesInv, BoundsInv, FlowInv, ~bad, ~raced, cur # 0, UNCHANGED <<log, cur>>,
         Rest, wire # <<>>, NEW f, f = wire[1], f.t = "event",
         ~cl[cur].awaiting, TookEvent(f.n), NEW b, Base(b)'
  PROVE  Flow(b)'
<1>0. /\ PageTypes /\ BridgeTypes /\ Within(last)
      /\ last \in Nat /\ MaxSeq \in Nat /\ st.seq \in Nat /\ f.n \in Nat
  <2>1. PageTypes /\ BridgeTypes /\ Within(last) /\ MaxSeq \in Nat
    BY TypesAre, BoundsAre, StreamAssumption
  <2>2. f \in Frame
    BY <2>1 DEF BridgeTypes
  <2> QED
    BY <2>1, <2>2 DEF Frame, PageTypes, State, BridgeTypes, last
<1>1. /\ UNCHANGED <<cl, decodes>>
      /\ \/ f.n > st.seq /\ log[f.n] = "change" /\ st'.seq = f.n
         \/ ~(f.n > st.seq /\ log[f.n] = "change") /\ st'.seq = st.seq
  BY DEF TookEvent
<1>2. b = st'.seq
  BY <1>1 DEF Base
<1>3. Flow(st.seq) /\ cl[cur].buffered = <<>> /\ \A c : Got(st.seq, c) <=> c <= st.seq
  BY <1>0, NothingKept, FlowIs DEF Within
<1>4. ASSUME NEW c \in 1..last, log[c] = "change", Got(st.seq, c) \/ Carries(f, c) PROVE Got(b, c)'
  <2>1. c <= st.seq \/ c = f.n
    BY <1>3, <1>4 DEF Carries
  <2>2. c <= b
    BY <2>1, <1>0, <1>1, <1>2, <1>4
  <2> QED
    BY <2>2 DEF Got
<1>5. WireFlow(b)' /\ LiveFlow(b)'
  BY <1>3, <1>4, FlowTail
<1>6. BufferFlow(b)'
  BY <1>1, <1>3 DEF BufferFlow
<1> QED
  BY <1>5, <1>6 DEF Flow

\* Word that the stream is complete moves nothing.
LEMMA FlowSynchronized ==
  ASSUME TypesInv, BoundsInv, FlowInv, ~bad, ~raced, cur # 0, UNCHANGED <<log, cur>>,
         Rest, wire # <<>>, NEW f, f = wire[1], f.t = "synchronized",
         TookSynchronized(f.n), NEW b, Base(b)'
  PROVE  Flow(b)'
<1>0. PageTypes /\ MaxTroubles \in Nat
  BY TypesAre, StreamAssumption
<1>1. /\ st'.seq = st.seq /\ UNCHANGED decodes
      /\ cl'[cur].gen = cl[cur].gen /\ cl'[cur].awaiting = cl[cur].awaiting
      /\ cl'[cur].buffered = cl[cur].buffered
  BY DEF TookSynchronized, Seeing
<1>2. Base(b) /\ Flow(b)
  <2>1. Base(b)
    BY <1>1, BaseSame
  <2> QED
    BY <2>1, BaseIn, FlowIs
<1>3. \A c : Got(b, c) \/ Carries(f, c) => Got(b, c)'
  BY <1>1 DEF Got, Buffered, Carries
<1>4. WireFlow(b)' /\ LiveFlow(b)'
  BY <1>2, <1>3, FlowTail
<1>5. BufferFlow(b)'
  BY <1>1, <1>2 DEF Flow, BufferFlow, Buffered, last
<1> QED
  BY <1>4, <1>5 DEF Flow

\* A frame is read.
LEMMA FlowReads ==
  ASSUME TypesInv, PlacesInv, BoundsInv, PendingInv, FlowInv, ~bad, ~raced, ~raced', cur # 0,
         Deliver, NEW b, Base(b)'
  PROVE  Flow(b)'
<1>0. /\ BridgeTypes /\ LinkTypes /\ PageTypes /\ CountTypes /\ MaxTroubles \in Nat /\ MaxSeq \in Nat
      /\ ShellPlace /\ Kinds \subseteq {"shell", "thread"}
  BY TypesAre, PlacesAre, StreamAssumption
<1>1. PICK f : f = wire[1]
  OBVIOUS
<1>2. /\ UNCHANGED <<log, kind, cur>> /\ Taking(f) /\ f \in Frame /\ Len(wire) \in Nat /\ Len(wire) >= 1
  BY <1>0, <1>1, DeliverIs
<1>3. f.n \in 0..MaxSeq /\ wire # <<>> /\ (f.t = "event" => f.n # 0) /\ kind \in {"shell", "thread"}
  BY <1>0, <1>1, <1>2 DEF CountTypes, BridgeTypes, Frame, LinkTypes
<1>4. CASE f.t = "reset" /\ Close /\ UNCHANGED <<st, cl, decodes>>
  <2>1. Base(b)
    BY <1>2, <1>4 DEF Base, Pending
  <2>2. Flow(b)
    BY <2>1, BaseIn, FlowIs
  <2> QED
    BY <2>2, <1>2, <1>4, FlowSame DEF Close
<1>5. CASE f.t # "reset"
  <2>1. Rest
    BY <1>2, <1>5 DEF Taking
  <2>2. \/ f.t = "snapshot" /\ TookSnapshot(f.n)
        \/ f.t = "event" /\ TookEvent(f.n)
        \/ f.t = "synchronized" /\ TookSynchronized(f.n)
    BY <1>2, <1>3, <1>5, <1>0, TakingIs DEF Taking
  <2>3. CASE f.t = "snapshot" /\ TookSnapshot(f.n)
    BY <1>1, <1>2, <1>3, <2>1, <2>3, FlowShellSnapshot, FlowThreadSnapshot
  <2>4. CASE f.t = "event" /\ TookEvent(f.n)
    <3>1. kind = "shell" => ~cl[cur].awaiting
      BY <1>0 DEF ShellPlace, PageTypes
    <3>2. CASE ~cl[cur].awaiting
      BY <1>1, <1>2, <1>3, <2>1, <2>4, <3>2, FlowTakesIn
    <3>3. CASE cl[cur].awaiting /\ kind = "thread"
      BY <1>1, <1>2, <1>3, <2>1, <2>4, <3>3, FlowKeepsBack
    <3> QED
      BY <3>1, <3>2, <3>3, <1>3
  <2>5. CASE f.t = "synchronized" /\ TookSynchronized(f.n)
    BY <1>1, <1>2, <1>3, <2>1, <2>5, FlowSynchronized
  <2> QED
    BY <2>2, <2>3, <2>4, <2>5
<1> QED
  BY <1>2, <1>4, <1>5 DEF Taking

\* A decode ends: what was kept back behind it has been applied, or nothing changes.
LEMMA FlowLands ==
  ASSUME TypesInv, PlacesInv, BoundsInv, PendingInv, FlowInv, ~bad, ~bad', ~raced, ~raced', cur # 0,
         NEW k \in 1..Len(decodes), NEW ok \in BOOLEAN, Land(k, ok), NEW b, Base(b)'
  PROVE  Flow(b)'
<1>0. PageTypes /\ CountTypes /\ BridgeTypes /\ MaxTroubles \in Nat /\ MaxSeq \in Nat
  BY TypesAre, StreamAssumption
<1>1. PICK d : d = decodes[k]
  OBVIOUS
<1>2. /\ UNCHANGED <<kind, server, conn, cur>> /\ bad' = (bad \/ ~ok) /\ Others(k)
      /\ Len(decodes) \in Nat
      /\ Taking1(d, ok) \/ (~Taken(d) /\ UNCHANGED <<st, cl, raced>>)
  BY <1>0, <1>1, LandIs
<1>3. UNCHANGED <<log, cur, wire, served>>
  BY <1>2 DEF server, conn
<1>4. CASE Taking1(d, ok)
  <2>1. ok = TRUE
    BY <1>2
  <2>2. Land(k, TRUE) /\ Taking1(d, TRUE)
    BY <2>1, <1>4
  <2>3. /\ d.n \in Nat /\ d.n <= last /\ Base(d.n) /\ d.i = cur /\ cur \in 1..MaxTroubles + 1
        /\ st'.seq \in Nat /\ d.n <= st'.seq
        /\ \A j \in 1..Len(cl[cur].buffered) :
              log[cl[cur].buffered[j]] = "change" => cl[cur].buffered[j] <= st'.seq
    BY <2>2, <1>1, LandedIs
  <2>4. Flow(d.n)
    BY <2>3, BaseIn, FlowIs
  <2>5. cl'[cur].awaiting = FALSE /\ cl'[cur].buffered = <<>>
    BY <1>4, <2>3 DEF Taking1
  <2>6. b = st'.seq
    BY <2>5, <1>3 DEF Base
  <2>7. ASSUME NEW c \in 1..last, log[c] = "change", Got(d.n, c) PROVE Got(b, c)'
    <3>1. c <= d.n \/ \E j \in 1..Len(cl[cur].buffered) : cl[cur].buffered[j] = c
      BY <2>7 DEF Got, Buffered
    <3>2. CASE c <= d.n
      BY <3>2, <2>3, <2>6, <1>0 DEF Got, BridgeTypes, last
    <3>3. CASE \E j \in 1..Len(cl[cur].buffered) : cl[cur].buffered[j] = c
      <4>1. c <= b
        BY <3>3, <2>3, <2>6, <2>7
      <4> QED
        BY <4>1 DEF Got
    <3> QED
      BY <3>1, <3>2, <3>3
  <2>8. WireFlow(b)'
    <3> SUFFICES ASSUME NEW i \in DOMAIN wire, wire[i].t # "reset",
                        NEW c \in 1..last, log[c] = "change", c <= wire[i].n
                 PROVE  Got(b, c)' \/ Shipped(c, i)'
      BY <1>3 DEF WireFlow, last
    <3>1. Got(d.n, c) \/ Shipped(c, i)
      BY <2>4 DEF Flow, WireFlow
    <3> QED
      BY <3>1, <2>7, <1>3 DEF Shipped
  <2>9. LiveFlow(b)'
    <3> SUFFICES ASSUME served, NEW c \in 1..last, log[c] = "change"
                 PROVE  Got(b, c)' \/ Shipped(c, Len(wire))'
      BY <1>3 DEF LiveFlow, last, Shipped
    <3>1. Got(d.n, c) \/ Shipped(c, Len(wire))
      BY <2>4 DEF Flow, LiveFlow
    <3> QED
      BY <3>1, <2>7, <1>3 DEF Shipped
  <2>10. BufferFlow(b)'
    BY <2>5, <1>3 DEF BufferFlow
  <2> QED
    BY <2>8, <2>9, <2>10 DEF Flow
<1>5. CASE ~Taken(d) /\ UNCHANGED <<st, cl, raced>>
  <2>1. ASSUME NEW j \in DOMAIN decodes', Pending(j)', b = decodes'[j].n
        PROVE  \E i \in DOMAIN decodes : Pending(i) /\ b = decodes[i].n
    <3>1. PICK m : m = Len(decodes)
      OBVIOUS
    <3>2. m \in Nat /\ DOMAIN decodes = 1..m /\ DOMAIN decodes' = 1..m - 1 /\ k \in 1..m
      BY <3>1, <1>2, <1>0 DEF Others, PageTypes
    <3>3. PICK i : i = IF j < k THEN j ELSE j + 1
      OBVIOUS
    <3>4. i \in DOMAIN decodes /\ decodes'[j] = decodes[i]
      BY <2>1, <3>1, <3>2, <3>3, <1>2 DEF Others
    <3>5. Pending(i)
      BY <2>1, <3>4, <1>3, <1>5 DEF Pending
    <3> QED
      BY <2>1, <3>4, <3>5
  <2>2. Base(b)
    BY <2>1, <1>3, <1>5 DEF Base
  <2>3. Flow(b)
    BY <2>2, BaseIn, FlowIs
  <2> QED
    BY <2>3, <1>3, <1>5, FlowSame
<1> QED
  BY <1>2, <1>4, <1>5

\* Nothing is skipped between what the page has, what it keeps back and what is
\* under way, as long as no seen mark was committed as a stream began.
LEMMA FlowStays ==
  ASSUME TypesInv, PlacesInv, BoundsInv, PendingInv, ViewInv, FlowInv, [Next]_vars, seen' = 0
  PROVE  FlowInv'
<1> SUFFICES ASSUME ~bad', ~raced', cur' # 0, NEW b \in 0..last', Base(b)' PROVE Flow(b)'
  BY DEF FlowInv, Flow, BufferFlow, WireFlow, LiveFlow
<1>0. /\ BridgeTypes /\ LinkTypes /\ PageTypes /\ CountTypes /\ MaxTroubles \in Nat /\ MaxSeq \in Nat
      /\ LinkPlace /\ last \in Nat /\ TypesInv' /\ BoundsInv'
      /\ Kinds \subseteq {"shell", "thread"}
  BY TypesAre, PlacesAre, Typed, Bounded, StreamAssumption DEF BridgeTypes, last
<1>1. ~bad /\ ~raced
  BY Lasting
<1>2. \A e : cur # 0 /\ Base(e) => Flow(e) /\ e \in Nat /\ e <= last
  BY <1>1, BaseIn, FlowIs
<1>3. ASSUME UNCHANGED <<log, cur, cl, decodes, st>>,
             UNCHANGED <<wire, served>> \/ (wire' = <<>> /\ ~served')
      PROVE  Flow(b)'
  <2>1. Base(b)
    BY <1>3 DEF Base, Pending
  <2> QED
    BY <2>1, <1>2, <1>3, FlowSame
<1>4. CASE UNCHANGED vars
  BY <1>3, <1>4 DEF vars, server, conn, page
<1>5. ASSUME NEW c \in Logged, Append1(c) PROVE Flow(b)'
  <2>1. UNCHANGED <<cur, cl, decodes, st>>
    BY <1>5 DEF Append1, page
  <2>2. Base(b)
    BY <2>1 DEF Base, Pending
  <2> QED
    BY <2>1, <2>2, <1>2, <1>5, FlowCommits
<1>6. CASE Prune
  BY <1>3, <1>6 DEF Prune, conn, page
<1>7. ASSUME NEW marked \in BOOLEAN, Serve(marked) PROVE Flow(b)'
  <2>1. marked = FALSE
    <3>1. seen' = (IF marked THEN seen + 1 ELSE seen) /\ seen \in Nat
      BY <1>0, <1>7, StreamAssumption DEF Serve, CountTypes
    <3> QED
      BY <3>1
  <2>2. Serve(FALSE) /\ cur' = cur
    BY <2>1, <1>7 DEF Serve, page
  <2> QED
    BY <2>2, <1>1, FlowServes
<1>8. CASE Drop
  <2>1. UNCHANGED <<log, cur, decodes>> /\ Dropped /\ Close
    BY <1>8, DropIs
  <2>2. CASE UNCHANGED <<cl, st>>
    BY <2>1, <2>2, <1>3 DEF Close
  <2>3. CASE Anew(1..MaxTroubles + 1, cl, cur, cl')
    <3>1. cl'[cur'].buffered = <<>>
      BY <2>1, <2>3 DEF Anew
    <3> QED
      BY <3>1, <2>1, FlowAnew DEF Close
  <2> QED
    BY <2>1, <2>2, <2>3 DEF Dropped
<1>9. CASE Retry
  BY <1>3, <1>9 DEF Retry, server, page
<1>10. CASE Wake
  BY <1>3, <1>10 DEF Wake, page, Close
<1>11. CASE Gone
  BY <1>11 DEF Gone
<1>12. CASE Deliver
  <2>1. cur' = cur
    BY <1>12 DEF Deliver
  <2> QED
    BY <2>1, <1>1, <1>12, FlowReads
<1>13. ASSUME NEW k \in 1..Len(decodes), NEW ok \in BOOLEAN, Land(k, ok) PROVE Flow(b)'
  <2>1. cur' = cur
    BY <1>13 DEF Land
  <2> QED
    BY <2>1, <1>1, <1>13, FlowLands
<1>14. CASE Leave
  BY <1>14 DEF Leave
<1>15. ASSUME NEW kept \in BOOLEAN, Return(kept) PROVE Flow(b)'
  <2>1. cur = 0 /\ cur' = opens + 1 /\ opens < MaxTroubles + 1 /\ UNCHANGED <<wire, served, cl>>
    BY <1>15 DEF Return, server
  <2>2. wire' = <<>> /\ ~served'
    BY <2>1, <1>0 DEF LinkPlace
  <2>3. cl'[cur'] = FreshClosure
    BY <2>1, <1>0 DEF CountTypes
  <2> QED
    BY <2>2, <2>3, FreshIs, FlowAnew
<1> QED
  BY <1>4, <1>5, <1>6, <1>7, <1>8, <1>9, <1>10, <1>11, <1>12, <1>13, <1>14, <1>15, StepIs

-----------------------------------------------------------------------------
(* The theorems. *)

\* A page that has just asked for its stream.
LEMMA StartTyped == Init => TypesInv /\ PlacesInv /\ BoundsInv
<1> SUFFICES ASSUME Init PROVE TypesInv /\ PlacesInv /\ BoundsInv
  OBVIOUS
<1>0. /\ MaxSeq \in Nat /\ MaxSeq >= 2 /\ MaxTroubles \in Nat /\ MaxSeen \in Nat
      /\ FreshClosure \in Closure /\ FreshClosure.gen = 0 /\ FreshClosure.awaiting = FALSE
      /\ FreshClosure.buffered = <<>>
  BY StreamAssumption, FreshIs
<1>1. log \in Seq(Logged) /\ last = 2
  BY DEF Init, Logged, last
<1>2. EmptyState \in State /\ EmptyState.seq = 0
  BY <1>0 DEF EmptyState, State
<1>3. cl \in [1..MaxTroubles + 1 -> Closure] /\ \A i \in 1..MaxTroubles + 1 : cl[i] = FreshClosure
  BY <1>0 DEF Init
<1>4. BridgeTypes /\ LinkTypes /\ PageTypes
  <2>1. Len(log) <= MaxSeq /\ minSeq \in 0..MaxSeq + 1 /\ lastSent \in 0..MaxSeq /\ hwm \in Nat
    <3>1. minSeq = 0 /\ lastSent = 0 /\ hwm = 0
      BY DEF Init
    <3> QED
      BY <3>1, <1>0, <1>1 DEF last
  <2>2. wire \in Seq(Frame) /\ decodes \in Seq(Decode)
    BY DEF Init
  <2>3. ~served
    BY DEF Init
  <2>4. exists \in BOOLEAN /\ served \in BOOLEAN /\ retry \in BOOLEAN /\ bad \in BOOLEAN /\ raced \in BOOLEAN
    <3>1. exists = TRUE /\ served = FALSE /\ retry = FALSE /\ bad = FALSE /\ raced = FALSE
      BY DEF Init
    <3> QED
      BY <3>1, Zenon
  <2>6. cursor \in 0..MaxSeq /\ cur \in 0..MaxTroubles + 1 /\ after \in 0..MaxSeq
    <3>1. cursor = 0 /\ cur = 1 /\ after = 0
      BY DEF Init
    <3> QED
      BY <3>1, <1>0
  <2>7. LinkTypes
    BY <2>4, <2>6 DEF Init, LinkTypes
  <2>5. st \in State /\ cache \in State
    BY <1>2 DEF Init
  <2> QED
    BY <2>1, <2>2, <2>3, <2>4, <2>5, <2>6, <2>7, <1>1, <1>3 DEF BridgeTypes, PageTypes
<1>5. CountTypes
  BY <1>0, <1>3 DEF Init, CountTypes
<1>6. ShellPlace /\ LinkPlace /\ SnapshotFirst
  BY <1>0, <1>3 DEF Init, ShellPlace, LinkPlace, SnapshotFirst
<1>7. Within(last)
  BY <1>0, <1>1, <1>2, <1>3 DEF Init, Within
<1>8. LinkIn /\ WireIn
  BY <1>1, <1>2 DEF Init, LinkIn, WireIn
<1> QED
  BY <1>4, <1>5, <1>6, <1>7, <1>8, TypesAre, PlacesAre, BoundsAre

LEMMA StartFlows == Init => PendingInv /\ ViewInv /\ FlowInv
<1> SUFFICES ASSUME Init PROVE PendingInv /\ ViewInv /\ FlowInv
  OBVIOUS
<1>0. /\ MaxTroubles \in Nat /\ FreshClosure.awaiting = FALSE /\ FreshClosure.buffered = <<>>
      /\ cur = 1 /\ cl[cur] = FreshClosure /\ decodes = <<>> /\ wire = <<>> /\ ~served
  BY StreamAssumption, FreshIs DEF Init
<1>1. EmptyState.seq = 0 /\ EmptyState.view = Mirrored(0)
  BY DEF EmptyState, Mirrored
<1>2. PendingInv
  <2>1. OneCurrent /\ AwaitsOne /\ OneAhead
    BY <1>0 DEF OneCurrent, AwaitsOne, OneAhead
  <2> QED
    BY <2>1, PendingIs
<1>3. ViewInv
  <2>1. ShowsAll /\ CacheShows /\ CursorClear /\ AskedClear
    BY <1>1 DEF Init, ShowsAll, CacheShows, CursorClear, AskedClear, Clear
  <2> QED
    BY <2>1, ViewIs
<1>4. FlowInv
  <2>1. \A b : Flow(b)
    BY <1>0 DEF Flow, BufferFlow, WireFlow, LiveFlow
  <2> QED
    BY <2>1, FlowIs
<1> QED
  BY <1>2, <1>3, <1>4

\* The part that holds whatever a reconcile adds.
SteadyInv == TypesInv /\ PlacesInv /\ BoundsInv /\ PendingInv

\* Every variable keeps its type, frames and decodes their place, and what the page
\* waits for is ahead of what it shows: for all constants.
THEOREM SteadyInvariance == Spec => []SteadyInv
<1>1. Init => SteadyInv
  BY StartTyped, StartFlows DEF SteadyInv
<1>2. SteadyInv /\ [Next]_vars => SteadyInv'
  BY Typed, Placed, Bounded, PendingStays DEF SteadyInv
<1> QED
  BY <1>1, <1>2, PTL DEF Spec

\* A seen mark is not undone.
LEMMA SeenLasts ==
  ASSUME TypesInv, [Next]_vars, seen' = 0
  PROVE  seen = 0
<1>0. seen \in Nat
  BY TypesAre, StreamAssumption DEF CountTypes
<1>1. ASSUME NEW marked \in BOOLEAN, Serve(marked) PROVE seen = 0
  <2>1. seen' = IF marked THEN seen + 1 ELSE seen
    BY <1>1 DEF Serve
  <2> QED
    BY <2>1, <1>0
<1> QED
  BY <1>1, StepIs DEF vars, hist, Append1, Prune, Drop, Retry, Wake, Gone, Deliver, Land, Leave, Return

\* Until a seen mark is committed between a catch-up and its listener, what the page
\* shows, keeps back and has under way covers the log: for all constants.
CoverInv == SteadyInv /\ (seen = 0 => StreamInv)

THEOREM StreamInvariance == Spec => []CoverInv
<1>1. Init => CoverInv
  BY StartTyped, StartFlows DEF CoverInv, SteadyInv, StreamInv
<1>2. CoverInv /\ [Next]_vars => CoverInv'
  <2> SUFFICES ASSUME CoverInv, [Next]_vars PROVE CoverInv'
    OBVIOUS
  <2>1. SteadyInv'
    BY Typed, Placed, Bounded, PendingStays DEF CoverInv, SteadyInv
  <2>2. ASSUME seen' = 0 PROVE StreamInv'
    <3>1. StreamInv
      BY <2>2, SeenLasts DEF CoverInv, SteadyInv
    <3>2. ViewInv' /\ FlowInv'
      BY <2>2, <3>1, ViewStays, FlowStays DEF StreamInv
    <3> QED
      BY <2>1, <3>2 DEF StreamInv, SteadyInv
  <2> QED
    BY <2>1, <2>2 DEF CoverInv
<1> QED
  BY <1>1, <1>2, PTL DEF Spec

\* Every variable keeps its type.
THEOREM TypesCorrect == Spec => []TypeOK
<1>1. SteadyInv => TypeOK
  BY DEF SteadyInv, TypesInv
<1> QED
  BY <1>1, SteadyInvariance, PTL

\* The page that shows a stream is in an open() of it.
LEMMA ShownIsOpen == ASSUME PlacesInv, Shown PROVE cur # 0
BY PlacesAre DEF ShellPlace, Shown

\* Where opening a thread commits nothing there is no seen mark.
LEMMA NoneSeen == ASSUME SteadyInv, MaxSeen = 0 PROVE seen = 0
BY TypesAre DEF SteadyInv, CountTypes

\* What the page shows is the projection at the sequence it claims, until a seen mark
\* is committed between a catch-up and its listener.
THEOREM NothingSkippedUnmarked == Spec => [](seen = 0 => NothingSkipped)
<1>1. CoverInv => (seen = 0 => NothingSkipped)
  BY ViewIs DEF CoverInv, StreamInv, NothingSkipped, ShowsAll
<1> QED
  BY <1>1, StreamInvariance, PTL

\* The same as an invariant, where opening a thread commits nothing.
THEOREM NothingSkippedEver == ASSUME MaxSeen = 0 PROVE Spec => []NothingSkipped
<1>1. SteadyInv /\ (seen = 0 => NothingSkipped) => NothingSkipped
  BY NoneSeen
<1> QED
  BY <1>1, SteadyInvariance, NothingSkippedUnmarked, PTL

\* A page that says it is in sync, with nothing under way, shows every change there is.
LEMMA CaughtUp == StreamInv => SyncedIsCaughtUp
<1> SUFFICES ASSUME StreamInv, Shown, ~bad, ~raced, served, wire = <<>>,
                    \A k \in DOMAIN decodes : ~Current(decodes[k])
             PROVE  st.view = Mirrored(last)
  BY DEF SyncedIsCaughtUp
<1>1. TypesInv /\ PlacesInv /\ BoundsInv /\ PendingInv /\ ViewInv /\ FlowInv
  BY DEF StreamInv
<1>2. cur # 0
  BY <1>1, ShownIsOpen
<1>3. ~cl[cur].awaiting
  BY <1>1, <1>2, PendingIs DEF AwaitsOne, Pending, Current
<1>4. Base(st.seq) /\ \A c : Got(st.seq, c) <=> c <= st.seq
  BY <1>1, <1>2, <1>3, NothingKept
<1>5. Flow(st.seq) /\ st.seq \in Nat /\ st.seq <= last /\ last \in Nat
  BY <1>1, <1>2, <1>4, BaseIn, FlowIs, TypesAre DEF BridgeTypes, last
<1>6. ASSUME NEW c \in 1..last, log[c] = "change" PROVE c <= st.seq
  <2>1. Got(st.seq, c) \/ Shipped(c, Len(wire))
    BY <1>5, <1>6 DEF Flow, LiveFlow
  <2>2. ~Shipped(c, Len(wire))
    BY DEF Shipped
  <2> QED
    BY <2>1, <2>2, <1>4
<1>7. Mirrored(last) = Mirrored(st.seq)
  BY <1>5, <1>6 DEF Mirrored
<1> QED
  BY <1>1, <1>7, ViewIs DEF ShowsAll

\* A page in sync is caught up, until a seen mark is committed between a catch-up and
\* its listener.
THEOREM SyncedCaughtUpUnmarked == Spec => [](seen = 0 => SyncedIsCaughtUp)
<1>1. CoverInv => (seen = 0 => SyncedIsCaughtUp)
  BY CaughtUp DEF CoverInv
<1> QED
  BY <1>1, StreamInvariance, PTL

\* The same as an invariant, where opening a thread commits nothing.
THEOREM SyncedCaughtUp == ASSUME MaxSeen = 0 PROVE Spec => []SyncedIsCaughtUp
<1>1. SteadyInv /\ (seen = 0 => SyncedIsCaughtUp) => SyncedIsCaughtUp
  BY NoneSeen
<1> QED
  BY <1>1, SteadyInvariance, SyncedCaughtUpUnmarked, PTL

\* Landing a decode never goes back.
LEMMA LandsAhead ==
  ASSUME SteadyInv, ~raced', ~raced, NEW k \in 1..Len(decodes), NEW ok \in BOOLEAN, Land(k, ok)
  PROVE  st'.seq >= st.seq
<1>0. /\ TypesInv /\ PendingInv /\ PageTypes /\ MaxSeq \in Nat /\ MaxTroubles \in Nat /\ st.seq \in Nat
  BY TypesAre, StreamAssumption DEF SteadyInv, PageTypes, State
<1>1. PICK d : d = decodes[k]
  OBVIOUS
<1>2. /\ d \in Decode
      /\ Taking1(d, ok) \/ (~Taken(d) /\ UNCHANGED <<st, cl, raced>>)
  BY <1>0, <1>1, LandIs
<1>3. CASE Taking1(d, ok)
  <2>1. st.seq <= d.n
    BY <1>0, <1>1, <1>3, TakenIsPending
  <2>2. PICK s : s = IF ok THEN FromSnapshot(d.n) ELSE st
    OBVIOUS
  <2>3. d.n \in 0..MaxSeq /\ d.i \in 1..MaxTroubles + 1
    BY <1>2 DEF Decode
  <2>4. s \in State /\ st.seq <= s.seq
    <3>1. FromSnapshot(d.n) \in State /\ FromSnapshot(d.n).seq = d.n /\ st \in State
      BY <2>3, <1>0, StateIs DEF PageTypes
    <3> QED
      BY <3>1, <2>1, <2>2, <1>0
  <2>5. PICK q : q = cl[d.i].buffered
    OBVIOUS
  <2>6. q \in Seq(1..MaxSeq)
    <3>1. cl[d.i] \in Closure
      BY <2>3, <1>0 DEF PageTypes
    <3> QED
      BY <3>1, <2>5 DEF Closure
  <2>7. PICK r : r = ApplyAll(s, q) /\ st'.seq = r.seq
    BY <1>3, <2>2, <2>5 DEF Taking1
  <2>8. r \in State /\ s.seq <= r.seq
    BY <2>4, <2>6, <2>7, Folded
  <2> QED
    BY <2>4, <2>7, <2>8, <1>0 DEF State
<1>4. CASE UNCHANGED st
  BY <1>4, <1>0
<1> QED
  BY <1>2, <1>3, <1>4

\* Taking a frame in never goes back.
LEMMA ReadsAhead ==
  ASSUME SteadyInv, Shown, Deliver
  PROVE  st'.seq >= st.seq
<1>0. /\ BridgeTypes /\ LinkTypes /\ PageTypes /\ CountTypes /\ MaxTroubles \in Nat /\ MaxSeq \in Nat
      /\ WireIn /\ PlacesInv /\ Kinds \subseteq {"shell", "thread"} /\ st.seq \in Nat
  BY TypesAre, BoundsAre, StreamAssumption DEF SteadyInv, PageTypes, State
<1>1. PICK f : f = wire[1]
  OBVIOUS
<1>2. Taking(f) /\ f \in Frame /\ Len(wire) \in Nat /\ Len(wire) >= 1
  BY <1>0, <1>1, DeliverIs
<1>3. /\ f.n \in 0..MaxSeq /\ 1 \in DOMAIN wire /\ (f.t = "event" => f.n # 0)
      /\ cur # 0
  BY <1>0, <1>1, <1>2, ShownIsOpen DEF CountTypes, BridgeTypes, Frame
<1>4. CASE UNCHANGED st
  BY <1>0, <1>4
<1>5. CASE f.t = "snapshot" /\ TookSnapshot(f.n)
  <2>1. st.seq <= f.n
    <3>1. Within(f.n)
      BY <1>0, <1>1, <1>3, <1>5 DEF WireIn
    <3> QED
      BY <3>1 DEF Within
  <2>2. st'.seq = f.n \/ UNCHANGED st
    BY <1>5 DEF TookSnapshot
  <2> QED
    BY <2>1, <2>2, <1>0, <1>3
<1>6. CASE TookEvent(f.n)
  BY <1>0, <1>3, <1>6 DEF TookEvent
<1>7. CASE TookSynchronized(f.n)
  BY <1>0, <1>7 DEF TookSynchronized
<1> QED
  BY <1>0, <1>2, <1>3, <1>4, <1>5, <1>6, <1>7, TakingIs DEF Taking

\* While the page stays on the stream what it shows never goes back in time.
THEOREM NeverGoesBack == Spec => NeverBack
<1>1. ASSUME SteadyInv, [Next]_vars, cur' = cur, Shown, ~raced' PROVE st'.seq >= st.seq
  <2>0. TypesInv /\ PlacesInv /\ PageTypes /\ st.seq \in Nat /\ cur # 0 /\ ~raced
    BY <1>1, TypesAre, ShownIsOpen, Lasting DEF SteadyInv, PageTypes, State
  <2>1. CASE UNCHANGED st
    BY <2>0, <2>1
  <2>2. ASSUME NEW c \in Logged, Append1(c) PROVE st'.seq >= st.seq
    BY <2>1, <2>2 DEF Append1, page
  <2>3. CASE Prune
    BY <2>1, <2>3 DEF Prune, page
  <2>4. ASSUME NEW marked \in BOOLEAN, Serve(marked) PROVE st'.seq >= st.seq
    BY <2>1, <2>4 DEF Serve, page
  <2>5. CASE Drop
    BY <2>0, <2>5, DropIs DEF Dropped
  <2>6. CASE Retry
    BY <2>1, <2>6 DEF Retry, page
  <2>7. CASE Wake
    BY <2>1, <2>7 DEF Wake, page
  <2>8. CASE Gone
    BY <2>0, <2>8, <1>1 DEF Gone
  <2>9. CASE Deliver
    BY <2>9, <1>1, ReadsAhead
  <2>10. ASSUME NEW k \in 1..Len(decodes), NEW ok \in BOOLEAN, Land(k, ok) PROVE st'.seq >= st.seq
    BY <2>0, <2>10, <1>1, LandsAhead
  <2>11. CASE Leave
    BY <2>0, <2>11, <1>1 DEF Leave
  <2>12. ASSUME NEW kept \in BOOLEAN, Return(kept) PROVE st'.seq >= st.seq
    BY <2>0, <2>12 DEF Return
  <2>13. CASE UNCHANGED vars
    BY <2>1, <2>13 DEF vars, page
  <2> QED
    BY <2>2, <2>3, <2>4, <2>5, <2>6, <2>7, <2>8, <2>9, <2>10, <2>11, <2>12, <2>13, <1>1, StepIs
<1>2. SteadyInv /\ [Next]_vars => [cur' = cur /\ Shown /\ ~raced' => st.seq' >= st.seq]_vars
  BY <1>1
<1> QED
  BY <1>2, SteadyInvariance, PTL DEF Spec, NeverBack
=============================================================================
