------------------------- MODULE GuardedSendProofs -------------------------
(***************************************************************************)
(* The pane queue excludes, and the guarded send stays within its turn of  *)
(* it: proofs for every set of calls, panes and kits, and all bounds.      *)
(*                                                                         *)
(* Of the queue alone, the inductive invariant says how the promise chain  *)
(* and the history of arrivals fit together: the tail of a pane is its     *)
(* last call, a call waits behind exactly the call before it, a resolved   *)
(* tail vouches for every call ahead of it, and a call that began found    *)
(* all of them resolved.                                                   *)
(*                                                                         *)
(* Every step of the composition is a step of the queue or leaves it       *)
(* alone, so what holds of the queue holds of the sends that run in it.    *)
(***************************************************************************)
EXTENDS GuardedSend, TLAPS

-----------------------------------------------------------------------------
(* The queue. *)

\* The history: what is ahead of a call arrived on its pane; of two calls one is ahead of the other.
AheadOK ==
    /\ \A c \in Calls : ahead[c] \subseteq Arrived(KeyOf[c])
    /\ \A c, d \in Calls :
        c # d /\ KeyOf[c] = KeyOf[d] /\ state[c] # "new" /\ state[d] # "new"
            => c \in ahead[d] \/ d \in ahead[c]

\* A call with no tail before it came when all ahead of it were resolved; any other one has, ahead of
\* it, the call it waits for and what is ahead of that one.
PrevOK ==
    \A c \in Calls : state[c] # "new" =>
        IF prev[c] = NoCall THEN ahead[c] \subseteq settled
        ELSE ahead[c] = ahead[prev[c]] \cup {prev[c]}

\* A resolved tail: its call is over, and so are those ahead of it.
SettledOK == \A c \in settled : Released(c) /\ ahead[c] \subseteq settled

\* A call that began had its turn.
BegunOK == \A c \in Calls : state[c] \in {"running", "ended"} => ahead[c] \subseteq settled

IInv == TypeOK /\ AheadOK /\ PrevOK /\ SettledOK /\ BegunOK /\ TailIsLast

\* When a call has its turn everything ahead of it is resolved.
LEMMA TurnMeansResolved ==
    ASSUME IInv, NEW c \in Calls, state[c] # "new", MyTurn(c)
    PROVE  ahead[c] \subseteq settled
  BY DEF IInv, PrevOK, SettledOK, MyTurn

\* The first state satisfies the invariant.
LEMMA InitIInv == Init => IInv
  BY CallsAssumption
  DEF Init, IInv, TypeOK, AheadOK, PrevOK, SettledOK, BegunOK, TailIsLast, Arrived, Released

\* Every step keeps it.
LEMMA NextIInv == IInv /\ [Next]_vars => IInv'
<1> SUFFICES ASSUME IInv, [Next]_vars PROVE IInv'
    OBVIOUS
<1> USE CallsAssumption
<1>1. ASSUME NEW c \in Calls, Arrive(c) PROVE IInv'
  <2> DEFINE k == KeyOf[c]
  <2>1. TypeOK'
    BY <1>1 DEF IInv, TypeOK, Arrive, Arrived
  <2>2. /\ Arrived(k)' = Arrived(k) \cup {c}
        /\ \A l \in Keys : l # k => Arrived(l)' = Arrived(l)
        /\ c \notin Arrived(k)
    BY <1>1 DEF IInv, TypeOK, Arrive, Arrived
  <2>3. /\ ahead'[c] = Arrived(k)
        /\ \A d \in Calls : d # c => ahead'[d] = ahead[d] /\ prev'[d] = prev[d] /\ state'[d] = state[d]
        /\ prev'[c] = tails[k] /\ state'[c] = "waiting"
        /\ tails'[k] = c /\ \A l \in Keys : l # k => tails'[l] = tails[l]
        /\ settled' = settled
    BY <1>1 DEF IInv, TypeOK, Arrive
  <2>4. AheadOK'
    BY <1>1, <2>1, <2>2, <2>3 DEF IInv, TypeOK, AheadOK, Arrive, Arrived
  <2>5. c \notin settled /\ \A d \in Calls : c \notin ahead[d]
    BY <1>1 DEF IInv, TypeOK, AheadOK, SettledOK, Released, Arrive, Arrived
  <2>6. PrevOK'
    <3>1. ASSUME NEW d \in Calls, d # c, state'[d] # "new"
          PROVE  IF prev'[d] = NoCall THEN ahead'[d] \subseteq settled'
                 ELSE ahead'[d] = ahead'[prev'[d]] \cup {prev'[d]}
      BY <2>3, <2>5, <3>1 DEF IInv, TypeOK, PrevOK
    <3>2. IF tails[k] = NoCall THEN Arrived(k) \subseteq settled
          ELSE tails[k] # c /\ tails[k] \in Calls /\ Arrived(k) = ahead[tails[k]] \cup {tails[k]}
      BY <2>2 DEF IInv, TypeOK, TailIsLast
    <3> QED
      BY <2>3, <3>1, <3>2 DEF PrevOK
  <2>7. SettledOK'
    BY <2>3, <2>5 DEF IInv, TypeOK, SettledOK, Released
  <2>8. BegunOK'
    BY <2>3 DEF IInv, TypeOK, BegunOK
  <2>9. TailIsLast'
    <3>1. ASSUME NEW l \in Keys, l # k
          PROVE  IF tails'[l] = NoCall THEN Arrived(l)' \subseteq settled'
                 ELSE tails'[l] \in Arrived(l)' \ settled' /\ Arrived(l)' = ahead'[tails'[l]] \cup {tails'[l]}
      BY <2>2, <2>3, <2>5, <3>1 DEF IInv, TypeOK, TailIsLast, Arrived
    <3> QED
      BY <2>2, <2>3, <2>5, <3>1 DEF TailIsLast
  <2> QED
    BY <2>1, <2>4, <2>6, <2>7, <2>8, <2>9 DEF IInv
<1>2. ASSUME NEW c \in Calls, Begin(c) PROVE IInv'
  <2>1. state[c] # "new" /\ ahead[c] \subseteq settled
    BY <1>2, TurnMeansResolved DEF Begin
  <2>2. \A d \in Calls : (state'[d] = "new") <=> (state[d] = "new")
    BY <1>2 DEF IInv, TypeOK, Begin
  <2>3. \A d \in Calls : Released(d) => Released(d)'
    BY <1>2 DEF IInv, TypeOK, Begin, Released
  <2>4. \A l \in Keys : Arrived(l)' = Arrived(l)
    BY <2>2 DEF Arrived
  <2>5. TypeOK' /\ BegunOK'
    BY <1>2, <2>1 DEF IInv, TypeOK, BegunOK, Begin
  <2>6. AheadOK' /\ PrevOK' /\ SettledOK' /\ TailIsLast'
    BY <1>2, <2>2, <2>3, <2>4 DEF IInv, TypeOK, AheadOK, PrevOK, SettledOK, TailIsLast, Begin
  <2> QED
    BY <2>5, <2>6 DEF IInv
<1>3. ASSUME NEW c \in Calls, GiveUp(c) \/ End(c) PROVE IInv'
  <2>1. \A d \in Calls : (state'[d] = "new") <=> (state[d] = "new")
    BY <1>3 DEF IInv, TypeOK, GiveUp, End
  <2>2. \A d \in Calls : Released(d) => Released(d)'
    BY <1>3 DEF IInv, TypeOK, GiveUp, End, Released
  <2>3. \A l \in Keys : Arrived(l)' = Arrived(l)
    BY <2>1 DEF Arrived
  <2>4. TypeOK' /\ BegunOK'
    BY <1>3 DEF IInv, TypeOK, BegunOK, GiveUp, End
  <2>5. AheadOK' /\ PrevOK' /\ SettledOK' /\ TailIsLast'
    BY <1>3, <2>1, <2>2, <2>3 DEF IInv, TypeOK, AheadOK, PrevOK, SettledOK, TailIsLast, GiveUp, End
  <2> QED
    BY <2>4, <2>5 DEF IInv
<1>4. ASSUME NEW c \in Calls, Settle(c) PROVE IInv'
  <2> DEFINE k == KeyOf[c]
  <2>1. state[c] # "new" /\ Released(c) /\ ahead[c] \subseteq settled
    BY <1>4, TurnMeansResolved DEF Settle, Released
  <2>2. TypeOK'
    BY <1>4 DEF IInv, TypeOK, Settle
  <2>3. \A l \in Keys : Arrived(l)' = Arrived(l)
    BY <1>4 DEF Settle, Arrived
  <2>4. AheadOK' /\ PrevOK' /\ BegunOK'
    BY <1>4, <2>3 DEF IInv, TypeOK, AheadOK, PrevOK, BegunOK, Settle
  <2>5. SettledOK'
    BY <1>4, <2>1 DEF IInv, TypeOK, SettledOK, Settle, Released
  <2>6. TailIsLast'
    <3>1. ASSUME NEW l \in Keys
          PROVE  IF tails'[l] = NoCall THEN Arrived(l) \subseteq settled \cup {c}
                 ELSE /\ tails'[l] \in Arrived(l) \ (settled \cup {c})
                      /\ Arrived(l) = ahead[tails'[l]] \cup {tails'[l]}
      <4>1. CASE l = k /\ tails[k] = c
        BY <1>4, <2>1, <4>1 DEF IInv, TypeOK, TailIsLast, Settle
      <4>2. CASE ~(l = k /\ tails[k] = c)
        BY <1>4, <4>2 DEF IInv, TypeOK, TailIsLast, Settle, Arrived
      <4> QED
        BY <4>1, <4>2
    <3> QED
      BY <1>4, <2>3, <3>1 DEF TailIsLast, Settle
  <2> QED
    BY <2>2, <2>4, <2>5, <2>6 DEF IInv
<1>5. CASE UNCHANGED vars
  BY <1>5 DEF IInv, TypeOK, AheadOK, PrevOK, SettledOK, BegunOK, TailIsLast, Arrived, Released, vars
<1> QED
  BY <1>1, <1>2, <1>3, <1>4, <1>5 DEF Next, Step

\* The invariant gives the three properties.
LEMMA IInvImplies == IInv => NoOvertaking /\ MutualExclusion
<1> SUFFICES ASSUME IInv PROVE NoOvertaking /\ MutualExclusion
    OBVIOUS
<1>1. NoOvertaking
  BY DEF IInv, TypeOK, SettledOK, BegunOK, NoOvertaking
<1>2. MutualExclusion
  BY <1>1 DEF IInv, TypeOK, AheadOK, NoOvertaking, MutualExclusion, Released
<1> QED
  BY <1>1, <1>2

\* The state of the queue has its type, and its invariant, in every reachable state.
THEOREM Invariance == Spec => []IInv
  BY InitIInv, NextIInv, PTL DEF Spec

\* The variables of pane-queue.ts keep their types, for any calls and panes.
THEOREM TypeCorrect == Spec => []TypeOK
<1>1. IInv => TypeOK
  BY DEF IInv
<1> QED
  BY <1>1, Invariance, PTL

\* No two writes ever run on one pane at once, for any number of calls and panes.
THEOREM Exclusion == Spec => []MutualExclusion
  BY IInvImplies, Invariance, PTL

\* No call ever runs before one that came earlier to the pane and is not over.
THEOREM Order == Spec => []NoOvertaking
  BY IInvImplies, Invariance, PTL

\* The tails map holds exactly the panes with an unresolved call, under the last of them.
THEOREM TailsMap == Spec => []TailIsLast
<1>1. IInv => TailIsLast
  BY DEF IInv
<1> QED
  BY <1>1, Invariance, PTL

-----------------------------------------------------------------------------
(* The sends in it. *)

\* A turn of the queue, with the guard's beginning and end around it, is a step of the queue.
LEMMA CallingIsStep ==
    ASSUME NEW c \in Calls, Calling(c)
    PROVE  Next
  BY DEF Calling, Arrives, Begins, GivesUp, Ends, Settles, Next, Step

\* No look of the guard touches the queue.
LEMMA ReadsLeaveQueue ==
    ASSUME NEW c \in Sends, NEW ok \in BOOLEAN, Reads(c, ok)
    PROVE  UNCHANGED vars
<1>1. ASSUME NEW force \in BOOLEAN, NEW popup \in BOOLEAN, Preflight(c, ok, force, popup)
      PROVE  UNCHANGED vars
  BY <1>1 DEF Preflight, Guard
<1>2. CASE Reconfirm(c, ok)
  BY <1>2 DEF Reconfirm, Guard
<1>3. CASE Verify(c, ok)
  BY <1>3 DEF Verify, Guard
<1>4. CASE Confirm(c, ok)
  BY <1>4 DEF Confirm, Guard
<1>5. CASE Hold(c, ok)
  BY <1>5 DEF Hold, Guard
<1>6. CASE HeldConfirm(c, ok)
  BY <1>6 DEF HeldConfirm, Guard
<1> QED
  BY <1>1, <1>2, <1>3, <1>4, <1>5, <1>6 DEF Reads

\* No write of the guard touches the queue.
LEMMA WritesLeaveQueue ==
    ASSUME NEW c \in Sends, NEW res, Writes(c, res)
    PROVE  UNCHANGED vars
  BY DEF Writes, Sweep, Type, Submit, Rescue, Press, Guard

\* What the terminal and the people at it do is not a step of the queue.
LEMMA PaneLeavesQueue ==
    ASSUME DialogOpens \/ DialogCloses \/ DeskTypes \/ StartupEnds \/ \E lost \in BOOLEAN : Consume(lost)
    PROVE  UNCHANGED vars
  BY DEF DialogOpens, DialogCloses, DeskTypes, StartupEnds, Consume, Pane

\* Every step of the composition is a step of the queue or none.
LEMMA StepSimulation == [WritesNext]_wvars => [Next]_vars
<1> SUFFICES ASSUME [WritesNext]_wvars PROVE [Next]_vars
    OBVIOUS
<1>1. ASSUME NEW c \in Calls, Calling(c) PROVE [Next]_vars
  BY <1>1, CallingIsStep
<1>2. ASSUME NEW c \in Sends, NEW ok \in BOOLEAN, Reads(c, ok) PROVE [Next]_vars
  BY <1>2, ReadsLeaveQueue
<1>3. ASSUME NEW c \in Sends, NEW res \in {"ok", "lost", "late"}, Writes(c, res) PROVE [Next]_vars
  BY <1>3, WritesLeaveQueue
<1>4. ASSUME NEW c \in Sends, Sweep(c, "short") PROVE [Next]_vars
  BY <1>4, WritesLeaveQueue DEF Writes
<1>5. ASSUME NEW c \in Sends, NEW n \in 0..2, OneShot(c, n) PROVE [Next]_vars
  BY <1>5 DEF OneShot, Guard
<1>6. CASE DialogOpens \/ DialogCloses \/ DeskTypes \/ StartupEnds \/ \E lost \in BOOLEAN : Consume(lost)
  BY <1>6, PaneLeavesQueue
<1>7. CASE UNCHANGED wvars
  BY <1>7 DEF wvars
<1> QED
  BY <1>1, <1>2, <1>3, <1>4, <1>5, <1>6, <1>7 DEF WritesNext

\* The pane writes implement the write queue: a guarded send gets its turn, works and ends
\* as any function given to `run` does (bridge/pane-queue.ts), whatever its steps are.
THEOREM WritesImplementQueue == WritesSpec => Spec
<1>1. WritesInit => Init
  BY DEF WritesInit
<1> QED
  BY <1>1, StepSimulation, PTL DEF WritesSpec, Spec

\* No second write runs on a pane while a guarded send is between its first look and its
\* last key: all that NeverBlind and NothingMixed rest on.
THEOREM SendsExclude == WritesSpec => []MutualExclusion
  BY WritesImplementQueue, Exclusion, PTL

\* Guarded sends of one pane run in the order they came.
THEOREM SendsInOrder == WritesSpec => []NoOvertaking
  BY WritesImplementQueue, Order, PTL

-----------------------------------------------------------------------------
(* Enter is never sent blind.  A look of another send could come between a *)
(* send's look and its key only if two sends were at work at once, so the  *)
(* invariant says who is at work and what the last look showed it.         *)

GRecord == [at : Places, draft : Nat, polls : 0..PollAttempts, budget : 0..HeldReads,
            pressed : 0..MaxPresses, last : BOOLEAN]

\* The places a send reaches only by a look that showed its text.
Shown == {"submit", "confirm", "rescue", "hold", "press", "heldConfirm"}

\* What a send counts: there is a draft to sweep, and a press left where one may follow.
CountsOK(r) ==
    /\ r.at = "sweep" => r.draft # 0
    /\ r.at \notin {"hold", "press", "heldConfirm"} => r.pressed = 0
    /\ r.at \in {"hold", "press"} => r.pressed < MaxPresses

\* Only the send that has its turn is at work, and the last look is its own.
SendOK(c) ==
    /\ CountsOK(g[c])
    /\ g[c].at \notin {"idle", "over"} => state[c] = "running"
    /\ g[c].at \in Shown => sight = c

ScreenOK ==
    /\ kit \in Kits /\ startup \in BOOLEAN /\ dialog \in BOOLEAN
    /\ box \in Seq(Sends \cup {Human}) /\ input \in Seq(KeyPress)
    /\ out \in [Sends -> Outcomes]
    /\ desk \in BOOLEAN /\ mixed \in BOOLEAN /\ sight \in Sends \cup {NoCall}
    /\ went \subseteq Sends /\ cleared \subseteq Sends /\ troubles \in 0..MaxTroubles

WInv ==
    /\ ScreenOK
    /\ g \in [Sends -> GRecord]
    /\ \A c \in Sends : SendOK(c)
    /\ blind = FALSE

\* A step of one send that has its turn keeps the invariant when what it leaves of the send does.
LEMMA OneSend ==
    ASSUME WInv, MutualExclusion, NEW c \in Sends, NEW r \in GRecord, UNCHANGED vars,
           state[c] = "running", g' = [g EXCEPT ![c] = r],
           ScreenOK', blind' = FALSE, CountsOK(r),
           r.at \in Shown => sight' = c
    PROVE  WInv'
<1> USE SendsAssumption, CallsAssumption
<1>1. g' \in [Sends -> GRecord]
  BY DEF WInv
<1>2. ASSUME NEW d \in Sends PROVE SendOK(d)'
  <2>1. CASE d = c
    <3>1. g'[d] = r
      BY <2>1 DEF WInv
    <3> QED
      BY <2>1, <3>1 DEF SendOK, vars, CountsOK
  <2>2. CASE d # c
    <3>1. g'[d] = g[d]
      BY <2>2 DEF WInv
    <3>2. g[d].at \notin Shown
      <4>1. g[d].at \notin {"idle", "over"} => state[d] = "running"
        BY DEF WInv, SendOK
      <4>2. state[d] # "running"
        BY <2>2 DEF MutualExclusion
      <4> QED
        BY <4>1, <4>2 DEF Shown
    <3> QED
      BY <3>1, <3>2 DEF WInv, SendOK, vars, CountsOK
  <2> QED
    BY <2>1, <2>2
<1> QED
  BY <1>1, <1>2 DEF WInv

\* What all steps of the guard have in common.
InTurn(c) == UNCHANGED vars /\ state[c] = "running" /\ ScreenOK' /\ blind' = FALSE

\* The ways a step moves its send: it goes on, starts to watch the screen, looks once more,
\* or is over.
LEMMA GoKeeps ==
    ASSUME WInv, MutualExclusion, NEW c \in Sends, InTurn(c), NEW at \in Places \ {"sweep"}, Go(c, at),
           at \notin {"hold", "press", "heldConfirm"} => g[c].pressed = 0,
           at \in {"hold", "press"} => g[c].pressed < MaxPresses,
           at \in Shown => sight' = c
    PROVE  WInv'
<1> DEFINE r == [g[c] EXCEPT !.at = at]
<1>1. r \in GRecord /\ r.at = at /\ r.pressed = g[c].pressed
  BY DEF WInv, GRecord
<1>2. g' = [g EXCEPT ![c] = r]
  BY DEF Go, WInv
<1>3. CountsOK(r)
  BY <1>1 DEF CountsOK
<1> HIDE DEF r
<1> QED
  BY <1>1, <1>2, <1>3, OneSend DEF InTurn

\* A send that starts to watch the screen (the two poll loops) keeps the invariant.
LEMMA WatchKeeps ==
    ASSUME WInv, MutualExclusion, NEW c \in Sends, InTurn(c), NEW at \in {"verify", "confirm"},
           Watch(c, at), g[c].pressed = 0, at \in Shown => sight' = c
    PROVE  WInv'
<1> DEFINE r == [g[c] EXCEPT !.at = at, !.polls = PollAttempts]
<1>0. at \in Places /\ PollAttempts \in 0..PollAttempts
  BY SendsAssumption DEF Places
<1>1. r \in GRecord /\ r.at = at /\ r.pressed = g[c].pressed
  BY <1>0 DEF WInv, GRecord
<1>2. g' = [g EXCEPT ![c] = r]
  BY DEF Watch, WInv
<1>3. CountsOK(r)
  BY <1>1 DEF CountsOK
<1> HIDE DEF r
<1> QED
  BY <1>1, <1>2, <1>3, OneSend DEF InTurn

\* One more look of a poll loop keeps it.
LEMMA LookAgainKeeps ==
    ASSUME WInv, MutualExclusion, NEW c \in Sends, InTurn(c), g[c].polls > 1,
           g' = [g EXCEPT ![c].polls = @ - 1], g[c].at \in Shown => sight' = c
    PROVE  WInv'
<1> DEFINE r == [g[c] EXCEPT !.polls = g[c].polls - 1]
<1>1. r \in GRecord /\ r.at = g[c].at /\ r.pressed = g[c].pressed /\ r.draft = g[c].draft
  BY SendsAssumption DEF WInv, GRecord
<1>2. g' = [g EXCEPT ![c] = r]
  BY DEF WInv
<1>3. CountsOK(r)
  BY <1>1 DEF CountsOK, WInv, SendOK
<1> HIDE DEF r
<1> QED
  BY <1>1, <1>2, <1>3, OneSend DEF InTurn

\* So does a send that is over, with any outcome.
LEMMA OverKeeps ==
    ASSUME WInv, MutualExclusion, NEW c \in Sends, InTurn(c), NEW o, Over(c, o)
    PROVE  WInv'
<1> DEFINE r == [Idle EXCEPT !.at = "over"]
<1>0. "over" \in Places /\ 0 \in 0..PollAttempts /\ 0 \in 0..HeldReads /\ 0 \in 0..MaxPresses
  BY SendsAssumption DEF Places
<1>1. r \in GRecord /\ r.at = "over" /\ CountsOK(r)
  BY <1>0 DEF Idle, GRecord, CountsOK
<1>2. g' = [g EXCEPT ![c] = r]
  BY DEF Over
<1>3. r.at \notin Shown
  BY <1>1 DEF Shown
<1> HIDE DEF r
<1> QED
  BY <1>1, <1>2, <1>3, OneSend DEF InTurn

\* A look leaves the screen alone, and so does a write: its keys wait.
LEMMA LookScreen ==
    ASSUME ScreenOK, NEW c \in Sends, NEW ok, NEW b, Guard, Look(c, ok), Unless(b),
           out' \in [Sends -> Outcomes], cleared' \subseteq Sends
    PROVE  ScreenOK' /\ blind' = blind
  BY SendsAssumption DEF ScreenOK, Guard, Look, Unless, Trouble

\* A write only adds keys to what the terminal has not acted on.
LEMMA WriteScreen ==
    ASSUME ScreenOK, NEW keys \in Seq(KeyPress), NEW res, Guard, Write(keys, res),
           out' \in [Sends -> Outcomes], cleared' \subseteq Sends
    PROVE  ScreenOK'
<1>1. input' \in Seq(KeyPress)
  BY DEF ScreenOK, Write
<1>2. troubles' \in 0..MaxTroubles
  BY SendsAssumption DEF ScreenOK, Write, Unless, Trouble
<1> QED
  BY <1>1, <1>2 DEF ScreenOK, Guard, Write

\* The keys a send writes are keys.
LEMMA KeyIsSeq ==
    ASSUME NEW c \in Sends
    PROVE  /\ <<[k |-> "enter", of |-> c]>> \in Seq(KeyPress)
           /\ <<[k |-> "text", of |-> c]>> \in Seq(KeyPress)
           /\ \A n \in Nat : <<[k |-> "sweep", of |-> n]>> \in Seq(KeyPress)
  BY DEF KeyPress

\* An outcome is recorded as one.
LEMMA OverOut ==
    ASSUME ScreenOK, NEW c \in Sends, NEW o \in Outcomes, Over(c, o)
    PROVE  out' \in [Sends -> Outcomes]
  BY DEF ScreenOK, Over

\* What the invariant says of a send at work: its pane turn, its counts, and its last look.
LEMMA AtWork ==
    ASSUME WInv, NEW c \in Sends, g[c].at \notin {"idle", "over"}
    PROVE  state[c] = "running" /\ g[c] \in GRecord /\ ScreenOK /\ blind = FALSE /\ CountsOK(g[c])
           /\ (g[c].at \in Shown => sight = c)
  BY DEF WInv, SendOK

\* The first look keeps the invariant, and with it each look below does.
LEMMA PreflightKeeps ==
    ASSUME WInv, MutualExclusion, NEW c \in Sends, NEW ok \in BOOLEAN, NEW force \in BOOLEAN,
           NEW popup \in BOOLEAN, Preflight(c, ok, force, popup)
    PROVE  WInv'
<1>1. g[c].at = "preflight" /\ Guard /\ UNCHANGED vars
  BY DEF Preflight, Guard
<1>2. state[c] = "running" /\ g[c] \in GRecord /\ ScreenOK /\ blind = FALSE /\ CountsOK(g[c])
  BY <1>1, AtWork
<1>3. g[c].pressed = 0
  BY <1>1, <1>2 DEF CountsOK
<1>4. ASSUME out' \in [Sends -> Outcomes], cleared' \subseteq Sends PROVE InTurn(c)
  BY <1>1, <1>2, <1>4, LookScreen DEF Preflight, InTurn
<1>5. CASE Go(c, "type")
  <2>1. InTurn(c)
    BY <1>2, <1>4, <1>5 DEF Go, ScreenOK
  <2> QED
    BY <1>3, <1>5, <2>1, GoKeeps DEF Places, Shown
<1>6. ASSUME NEW o \in {"blocked", "error"}, Over(c, o), UNCHANGED cleared PROVE WInv'
  <2>1. InTurn(c)
    BY <1>2, <1>4, <1>6, OverOut DEF Outcomes, ScreenOK
  <2> QED
    BY <1>6, <2>1, OverKeeps
<1>7. CASE /\ g' = [g EXCEPT ![c].at = IF box = <<>> THEN "type" ELSE "sweep", ![c].draft = Len(box)]
           /\ UNCHANGED <<out, cleared>>
  <2> DEFINE at == IF box = <<>> THEN "type" ELSE "sweep"
             r == [g[c] EXCEPT !.at = at, !.draft = Len(box)]
  <2>1. InTurn(c)
    BY <1>2, <1>4, <1>7 DEF ScreenOK
  <2>2. Len(box) \in Nat /\ (box # <<>> => Len(box) # 0) /\ at \in Places
    BY <1>2 DEF ScreenOK, Places
  <2>3. g' = [g EXCEPT ![c] = r]
    BY <1>7 DEF WInv
  <2>4. r \in GRecord /\ r.at = at /\ r.draft = Len(box) /\ r.pressed = 0
    BY <1>2, <1>3, <2>2 DEF GRecord
  <2>5. CountsOK(r) /\ r.at \notin Shown
    BY <2>2, <2>4 DEF CountsOK, Shown
  <2> HIDE DEF r
  <2> QED
    BY <2>1, <2>3, <2>4, <2>5, OneSend DEF InTurn
<1> QED
  BY <1>5, <1>6, <1>7 DEF Preflight

\* The look after a sweep.
LEMMA ReconfirmKeeps ==
    ASSUME WInv, MutualExclusion, NEW c \in Sends, NEW ok \in BOOLEAN, Reconfirm(c, ok)
    PROVE  WInv'
<1>1. g[c].at = "reconfirm" /\ Guard /\ UNCHANGED vars
  BY DEF Reconfirm, Guard
<1>2. state[c] = "running" /\ g[c] \in GRecord /\ ScreenOK /\ blind = FALSE /\ CountsOK(g[c])
  BY <1>1, AtWork
<1>3. g[c].pressed = 0
  BY <1>1, <1>2 DEF CountsOK
<1>4. ASSUME out' \in [Sends -> Outcomes], cleared' \subseteq Sends PROVE InTurn(c)
  BY <1>1, <1>2, <1>4, LookScreen DEF Reconfirm, InTurn
<1>5. CASE Go(c, "type")
  <2>1. InTurn(c)
    BY <1>2, <1>4, <1>5 DEF Go, ScreenOK
  <2> QED
    BY <1>3, <1>5, <2>1, GoKeeps DEF Places, Shown
<1>6. CASE Over(c, "blocked") /\ UNCHANGED cleared
  <2>1. InTurn(c)
    BY <1>2, <1>4, <1>6, OverOut DEF Outcomes, ScreenOK
  <2> QED
    BY <1>6, <2>1, OverKeeps
<1> QED
  BY <1>5, <1>6 DEF Reconfirm

\* The look for the typed text: the way to a submit key goes through one that shows it.
LEMMA VerifyKeeps ==
    ASSUME WInv, MutualExclusion, NEW c \in Sends, NEW ok \in BOOLEAN, Verify(c, ok)
    PROVE  WInv'
<1>1. g[c].at = "verify" /\ Guard /\ UNCHANGED vars
  BY DEF Verify, Guard
<1>2. state[c] = "running" /\ g[c] \in GRecord /\ ScreenOK /\ blind = FALSE /\ CountsOK(g[c])
  BY <1>1, AtWork
<1>3. g[c].pressed = 0
  BY <1>1, <1>2 DEF CountsOK
<1>4. ASSUME out' \in [Sends -> Outcomes], cleared' \subseteq Sends PROVE InTurn(c)
  BY <1>1, <1>2, <1>4, LookScreen DEF Verify, InTurn
<1> DEFINE at == IF kit = "held" THEN "hold" ELSE "submit"
           b == IF kit = "held" THEN HeldReads ELSE 0
<1>5. CASE /\ ok /\ Holds(c)
           /\ g' = [g EXCEPT ![c].at = at, ![c].polls = 0, ![c].budget = b]
           /\ UNCHANGED <<out, cleared>>
  <2> DEFINE r == [g[c] EXCEPT !.at = at, !.polls = 0, !.budget = b]
  <2>1. InTurn(c)
    BY <1>2, <1>4, <1>5 DEF ScreenOK
  <2>2. at \in Places /\ at \in {"hold", "submit"} /\ b \in 0..HeldReads /\ 0 \in 0..PollAttempts
    BY SendsAssumption DEF Places
  <2>3. g' = [g EXCEPT ![c] = r]
    BY <1>5 DEF WInv
  <2> HIDE DEF at, b
  <2>4. r \in GRecord /\ r.at = at /\ r.pressed = 0
    BY <1>2, <1>3, <2>2 DEF GRecord
  <2>5. CountsOK(r)
    BY <2>2, <2>4, SendsAssumption DEF CountsOK
  <2>6. sight' = c
    BY <1>5 DEF Verify, Look
  <2> HIDE DEF r
  <2> QED
    BY <2>1, <2>3, <2>4, <2>5, <2>6, OneSend DEF InTurn
<1>6. CASE g[c].polls > 1 /\ g' = [g EXCEPT ![c].polls = @ - 1] /\ UNCHANGED <<out, cleared>>
  <2>1. InTurn(c)
    BY <1>2, <1>4, <1>6 DEF ScreenOK
  <2> QED
    BY <1>1, <1>6, <2>1, LookAgainKeeps DEF Shown
<1>7. CASE Over(c, "stalled") /\ UNCHANGED cleared
  <2>1. InTurn(c)
    BY <1>2, <1>4, <1>7, OverOut DEF Outcomes, ScreenOK
  <2> QED
    BY <1>7, <2>1, OverKeeps
<1> QED
  BY <1>5, <1>6, <1>7 DEF Verify

\* The look whether the text left; what it shows is the text or nothing.
LEMMA ConfirmKeeps ==
    ASSUME WInv, MutualExclusion, NEW c \in Sends, NEW ok \in BOOLEAN, Confirm(c, ok)
    PROVE  WInv'
<1>1. g[c].at = "confirm" /\ Guard /\ UNCHANGED vars
  BY DEF Confirm, Guard
<1>2. /\ state[c] = "running" /\ g[c] \in GRecord /\ ScreenOK /\ blind = FALSE /\ CountsOK(g[c])
      /\ sight = c
  BY <1>1, AtWork DEF Shown
<1>3. g[c].pressed = 0
  BY <1>1, <1>2 DEF CountsOK
<1>4. ASSUME out' \in [Sends -> Outcomes], cleared' \subseteq Sends PROVE InTurn(c)
  BY <1>1, <1>2, <1>4, LookScreen DEF Confirm, InTurn
<1>5. ~(ok /\ ~Holds(c)) => sight' = c
  BY <1>2 DEF Confirm, Look
<1>6. (IF dialog THEN cleared ELSE cleared \cup {c}) \subseteq Sends
  BY <1>2 DEF ScreenOK
<1>7. ASSUME NEW o \in {"sent"}, Over(c, o), cleared' \subseteq Sends PROVE WInv'
  <2>1. InTurn(c)
    BY <1>2, <1>4, <1>7, OverOut DEF Outcomes
  <2> QED
    BY <1>7, <2>1, OverKeeps
<1>8. CASE /\ ~(ok /\ ~Holds(c)) /\ g[c].polls > 1
           /\ g' = [g EXCEPT ![c].polls = @ - 1] /\ UNCHANGED <<out, cleared>>
  <2>1. InTurn(c)
    BY <1>2, <1>4, <1>8 DEF ScreenOK
  <2> QED
    BY <1>5, <1>8, <2>1, LookAgainKeeps
<1>9. CASE ~(ok /\ ~Holds(c)) /\ Go(c, "rescue")
  <2>1. InTurn(c)
    BY <1>2, <1>4, <1>9 DEF Go, ScreenOK
  <2> QED
    BY <1>3, <1>5, <1>9, <2>1, GoKeeps DEF Places
<1> QED
  BY <1>6, <1>7, <1>8, <1>9 DEF Confirm

\* The wait for a harness that holds a submit.
LEMMA HoldKeeps ==
    ASSUME WInv, MutualExclusion, NEW c \in Sends, NEW ok \in BOOLEAN, Hold(c, ok)
    PROVE  WInv'
<1>1. g[c].at = "hold" /\ Guard /\ UNCHANGED vars
  BY DEF Hold, Guard
<1>2. /\ state[c] = "running" /\ g[c] \in GRecord /\ ScreenOK /\ blind = FALSE /\ CountsOK(g[c])
      /\ sight = c
  BY <1>1, AtWork DEF Shown
<1>3. g[c].pressed < MaxPresses
  BY <1>1, <1>2 DEF CountsOK
<1>4. ASSUME out' \in [Sends -> Outcomes], cleared' \subseteq Sends PROVE InTurn(c)
  BY <1>1, <1>2, <1>4, LookScreen DEF Hold, InTurn
<1>5. ~(ok /\ ~Holds(c)) => sight' = c
  BY <1>2 DEF Hold, Look
<1>6. ASSUME NEW o \in {"sent", "delivered"}, Over(c, o), cleared' \subseteq Sends PROVE WInv'
  <2>1. InTurn(c)
    BY <1>2, <1>4, <1>6, OverOut DEF Outcomes
  <2> QED
    BY <1>6, <2>1, OverKeeps
<1>7. CASE ~(ok /\ ~Holds(c)) /\ Go(c, "press")
  <2>1. InTurn(c)
    BY <1>2, <1>4, <1>7 DEF Go, ScreenOK
  <2> QED
    BY <1>3, <1>5, <1>7, <2>1, GoKeeps DEF Places
<1>8. ASSUME NEW l \in BOOLEAN, ~(ok /\ ~Holds(c)), g[c].budget # 0,
             g' = [g EXCEPT ![c].budget = @ - 1, ![c].last = l], UNCHANGED <<out, cleared>>
      PROVE  WInv'
  <2> DEFINE r == [g[c] EXCEPT !.budget = g[c].budget - 1, !.last = l]
  <2>1. InTurn(c)
    BY <1>2, <1>4, <1>8 DEF ScreenOK
  <2>2. g[c].budget - 1 \in 0..HeldReads
    BY <1>2, <1>8, SendsAssumption DEF GRecord
  <2>3. g' = [g EXCEPT ![c] = r]
    BY <1>8 DEF WInv
  <2>4. r \in GRecord /\ r.at = "hold" /\ r.pressed = g[c].pressed
    BY <1>1, <1>2, <1>8, <2>2 DEF GRecord
  <2>5. CountsOK(r)
    BY <1>3, <2>4 DEF CountsOK
  <2> HIDE DEF r
  <2> QED
    BY <1>5, <1>8, <2>1, <2>3, <2>4, <2>5, OneSend DEF InTurn
<1>9. /\ (g[c].last \/ ok) \in BOOLEAN /\ cleared \subseteq Sends
      /\ (IF dialog \/ g[c].pressed = 0 THEN cleared ELSE cleared \cup {c}) \subseteq Sends
      /\ (IF g[c].pressed > 0 THEN "sent" ELSE "delivered") \in {"sent", "delivered"}
  BY <1>2 DEF ScreenOK
<1> QED
  BY <1>6, <1>7, <1>8, <1>9 DEF Hold

\* The look after a press into a box that may be held.
LEMMA HeldConfirmKeeps ==
    ASSUME WInv, MutualExclusion, NEW c \in Sends, NEW ok \in BOOLEAN, HeldConfirm(c, ok)
    PROVE  WInv'
<1>1. g[c].at = "heldConfirm" /\ Guard /\ UNCHANGED vars
  BY DEF HeldConfirm, Guard
<1>2. /\ state[c] = "running" /\ g[c] \in GRecord /\ ScreenOK /\ blind = FALSE /\ CountsOK(g[c])
      /\ sight = c
  BY <1>1, AtWork DEF Shown
<1>3. g[c].pressed \in 0..MaxPresses
  BY <1>2 DEF GRecord
<1>4. ASSUME out' \in [Sends -> Outcomes], cleared' \subseteq Sends PROVE InTurn(c)
  BY <1>1, <1>2, <1>4, LookScreen DEF HeldConfirm, InTurn
<1>5. ~(ok /\ ~Holds(c)) => sight' = c
  BY <1>2 DEF HeldConfirm, Look
<1>6. (IF dialog THEN cleared ELSE cleared \cup {c}) \subseteq Sends
  BY <1>2 DEF ScreenOK
<1>7. ASSUME NEW o \in {"sent", "delivered"}, Over(c, o), cleared' \subseteq Sends PROVE WInv'
  <2>1. InTurn(c)
    BY <1>2, <1>4, <1>7, OverOut DEF Outcomes
  <2> QED
    BY <1>7, <2>1, OverKeeps
<1>8. CASE /\ ~(ok /\ ~Holds(c)) /\ g[c].polls > 1
           /\ g' = [g EXCEPT ![c].polls = @ - 1] /\ UNCHANGED <<out, cleared>>
  <2>1. InTurn(c)
    BY <1>2, <1>4, <1>8 DEF ScreenOK
  <2> QED
    BY <1>5, <1>8, <2>1, LookAgainKeeps
<1>9. CASE /\ ~(ok /\ ~Holds(c)) /\ g[c].pressed < MaxPresses
           /\ g' = [g EXCEPT ![c].at = "hold", ![c].polls = 0] /\ UNCHANGED <<out, cleared>>
  <2> DEFINE r == [g[c] EXCEPT !.at = "hold", !.polls = 0]
  <2>1. InTurn(c)
    BY <1>2, <1>4, <1>9 DEF ScreenOK
  <2>2. "hold" \in Places /\ 0 \in 0..PollAttempts
    BY SendsAssumption DEF Places
  <2>3. g' = [g EXCEPT ![c] = r]
    BY <1>9 DEF WInv
  <2>4. r \in GRecord /\ r.at = "hold" /\ r.pressed = g[c].pressed
    BY <1>2, <2>2 DEF GRecord
  <2>5. CountsOK(r)
    BY <1>9, <2>4 DEF CountsOK
  <2> HIDE DEF r
  <2> QED
    BY <1>5, <1>9, <2>1, <2>3, <2>4, <2>5, OneSend DEF InTurn
<1>10. cleared \subseteq Sends
  BY <1>2 DEF ScreenOK
<1> QED
  BY <1>6, <1>7, <1>8, <1>9, <1>10 DEF HeldConfirm

\* Each write keeps the invariant: the keys that submit go out only where the last look is the send's.
LEMMA SweepKeeps ==
    ASSUME WInv, MutualExclusion, NEW c \in Sends, NEW res \in {"ok", "lost", "late", "short"}, Sweep(c, res)
    PROVE  WInv'
<1>1. g[c].at = "sweep" /\ Guard /\ UNCHANGED vars
  BY DEF Sweep, Guard
<1>2. /\ state[c] = "running" /\ g[c] \in GRecord /\ ScreenOK /\ blind = FALSE /\ CountsOK(g[c])
      /\ (g[c].at \in Shown => sight = c)
  BY <1>1, AtWork
<1>3. g[c].pressed = 0 /\ g[c].draft \in Nat /\ g[c].draft # 0
  BY <1>1, <1>2 DEF CountsOK, GRecord
<1>4. ASSUME out' \in [Sends -> Outcomes], cleared' \subseteq Sends PROVE InTurn(c)
  <2> DEFINE n == IF res = "short" THEN g[c].draft - 1 ELSE g[c].draft
  <2>1. n \in Nat
    BY <1>3
  <2>2. Write(<<[k |-> "sweep", of |-> n]>>, res) /\ UNCHANGED blind
    BY DEF Sweep
  <2> HIDE DEF n
  <2>3. <<[k |-> "sweep", of |-> n]>> \in Seq(KeyPress)
    BY <2>1, KeyIsSeq
  <2>4. ScreenOK'
    BY <1>1, <1>2, <1>4, <2>2, <2>3, WriteScreen
  <2> QED
    BY <1>1, <1>2, <2>2, <2>4 DEF InTurn
<1>5. CASE Go(c, "reconfirm")
  <2>1. InTurn(c)
    BY <1>2, <1>4, <1>5 DEF Go, ScreenOK
  <2> QED
    BY <1>3, <1>5, <2>1, GoKeeps DEF Places, Shown
<1>6. ASSUME NEW o \in {"error"}, Over(c, o), UNCHANGED cleared PROVE WInv'
  <2>1. InTurn(c)
    BY <1>2, <1>4, <1>6, OverOut DEF Outcomes, ScreenOK
  <2> QED
    BY <1>6, <2>1, OverKeeps
<1> QED
  BY <1>5, <1>6 DEF Sweep

\* Typing the text.
LEMMA TypeKeeps ==
    ASSUME WInv, MutualExclusion, NEW c \in Sends, NEW res \in {"ok", "lost", "late"}, Type(c, res)
    PROVE  WInv'
<1>1. g[c].at = "type" /\ Guard /\ UNCHANGED vars
  BY DEF Type, Guard
<1>2. /\ state[c] = "running" /\ g[c] \in GRecord /\ ScreenOK /\ blind = FALSE /\ CountsOK(g[c])
      /\ (g[c].at \in Shown => sight = c)
  BY <1>1, AtWork
<1>3. g[c].pressed = 0
  BY <1>1, <1>2 DEF CountsOK
<1>4. ASSUME out' \in [Sends -> Outcomes], cleared' \subseteq Sends PROVE InTurn(c)
  <2>1. ScreenOK'
    BY <1>1, <1>2, <1>4, KeyIsSeq, WriteScreen DEF Type
  <2> QED
    BY <1>1, <1>2, <2>1 DEF InTurn, Type
<1>5. CASE Watch(c, "verify")
  <2>1. InTurn(c)
    BY <1>2, <1>4, <1>5 DEF Watch, ScreenOK
  <2> QED
    BY <1>3, <1>5, <2>1, WatchKeeps DEF Shown
<1>6. ASSUME NEW o \in {"error"}, Over(c, o), UNCHANGED cleared PROVE WInv'
  <2>1. InTurn(c)
    BY <1>2, <1>4, <1>6, OverOut DEF Outcomes, ScreenOK
  <2> QED
    BY <1>6, <2>1, OverKeeps
<1> QED
  BY <1>5, <1>6 DEF Type

\* The submit key.
LEMMA SubmitKeeps ==
    ASSUME WInv, MutualExclusion, NEW c \in Sends, NEW res \in {"ok", "lost", "late"}, Submit(c, res)
    PROVE  WInv'
<1>1. g[c].at = "submit" /\ Guard /\ UNCHANGED vars
  BY DEF Submit, Guard
<1>2. /\ state[c] = "running" /\ g[c] \in GRecord /\ ScreenOK /\ blind = FALSE /\ CountsOK(g[c])
      /\ (g[c].at \in Shown => sight = c)
  BY <1>1, AtWork
<1>3. g[c].pressed = 0
  BY <1>1, <1>2 DEF CountsOK
<1>4. ASSUME out' \in [Sends -> Outcomes], cleared' \subseteq Sends PROVE InTurn(c)
  <2>1. ScreenOK'
    BY <1>1, <1>2, <1>4, KeyIsSeq, WriteScreen DEF Submit, SubmitOnly
  <2>2. blind' = FALSE
    BY <1>1, <1>2 DEF Submit, SubmitOnly, Shown
  <2> QED
    BY <1>1, <1>2, <2>1, <2>2 DEF InTurn
<1>5. InTurn(c)
  BY <1>2, <1>4 DEF Submit, Watch, ScreenOK
<1>6. sight' = c
  BY <1>1, <1>2 DEF Submit, SubmitOnly, Write, Shown
<1> QED
  BY <1>3, <1>5, <1>6, WatchKeeps DEF Submit

\* The one more Enter.
LEMMA RescueKeeps ==
    ASSUME WInv, MutualExclusion, NEW c \in Sends, NEW res \in {"ok", "lost", "late"}, Rescue(c, res)
    PROVE  WInv'
<1>1. g[c].at = "rescue" /\ Guard /\ UNCHANGED vars
  BY DEF Rescue, Guard
<1>2. /\ state[c] = "running" /\ g[c] \in GRecord /\ ScreenOK /\ blind = FALSE /\ CountsOK(g[c])
      /\ (g[c].at \in Shown => sight = c)
  BY <1>1, AtWork
<1>4. ASSUME out' \in [Sends -> Outcomes], cleared' \subseteq Sends PROVE InTurn(c)
  <2>1. ScreenOK'
    BY <1>1, <1>2, <1>4, KeyIsSeq, WriteScreen DEF Rescue, SubmitOnly
  <2>2. blind' = FALSE
    BY <1>1, <1>2 DEF Rescue, SubmitOnly, Shown
  <2> QED
    BY <1>1, <1>2, <2>1, <2>2 DEF InTurn
<1>5. ASSUME NEW o \in {"sent", "delivered"}, Over(c, o), UNCHANGED cleared PROVE WInv'
  <2>1. InTurn(c)
    BY <1>2, <1>4, <1>5, OverOut DEF Outcomes, ScreenOK
  <2> QED
    BY <1>5, <2>1, OverKeeps
<1> QED
  BY <1>5 DEF Rescue

\* A press into a box that may be held.
LEMMA PressKeeps ==
    ASSUME WInv, MutualExclusion, NEW c \in Sends, NEW res \in {"ok", "lost", "late"}, Press(c, res)
    PROVE  WInv'
<1>1. g[c].at = "press" /\ Guard /\ UNCHANGED vars
  BY DEF Press, Guard
<1>2. /\ state[c] = "running" /\ g[c] \in GRecord /\ ScreenOK /\ blind = FALSE /\ CountsOK(g[c])
      /\ (g[c].at \in Shown => sight = c)
  BY <1>1, AtWork
<1>3. g[c].pressed < MaxPresses
  BY <1>1, <1>2 DEF CountsOK
<1>4. ASSUME out' \in [Sends -> Outcomes], cleared' \subseteq Sends PROVE InTurn(c)
  <2>1. ScreenOK'
    BY <1>1, <1>2, <1>4, KeyIsSeq, WriteScreen DEF Press, SubmitOnly
  <2>2. blind' = FALSE
    BY <1>1, <1>2 DEF Press, SubmitOnly, Shown
  <2> QED
    BY <1>1, <1>2, <2>1, <2>2 DEF InTurn
<1>5. InTurn(c)
  BY <1>2, <1>4 DEF Press, ScreenOK
<1>6. sight' = c
  BY <1>1, <1>2 DEF Press, SubmitOnly, Write, Shown
<1> DEFINE r == [g[c] EXCEPT !.at = "heldConfirm", !.polls = PollAttempts,
                             !.pressed = g[c].pressed + 1, !.last = FALSE]
<1>7. /\ "heldConfirm" \in Places /\ PollAttempts \in 0..PollAttempts
      /\ g[c].pressed + 1 \in 0..MaxPresses
  BY <1>2, <1>3, SendsAssumption DEF Places, GRecord
<1>8. g' = [g EXCEPT ![c] = r]
  BY DEF Press, WInv
<1>9. r \in GRecord /\ r.at = "heldConfirm"
  BY <1>2, <1>7 DEF GRecord
<1>10. CountsOK(r)
  BY <1>9 DEF CountsOK
<1> HIDE DEF r
<1> QED
  BY <1>5, <1>6, <1>8, <1>9, <1>10, OneSend DEF InTurn

\* Text and submit in one call: no look, and no submit key of the guard.
LEMMA OneShotKeeps ==
    ASSUME WInv, MutualExclusion, NEW c \in Sends, NEW n \in 0..2, OneShot(c, n)
    PROVE  WInv'
<1>1. g[c].at = "oneShot" /\ Guard /\ UNCHANGED vars
  BY DEF OneShot, Guard
<1>2. /\ state[c] = "running" /\ g[c] \in GRecord /\ ScreenOK /\ blind = FALSE /\ CountsOK(g[c])
      /\ (g[c].at \in Shown => sight = c)
  BY <1>1, AtWork
<1>3. input' \in Seq(KeyPress)
  <2> DEFINE keys == <<[k |-> "text", of |-> c], [k |-> "enter", of |-> c]>>
  <2>1. keys \in Seq(KeyPress) /\ Len(keys) = 2
    BY DEF KeyPress
  <2>2. SubSeq(keys, 1, n) \in Seq(KeyPress)
    BY <2>1
  <2>3. input' = input \o SubSeq(keys, 1, n)
    BY DEF OneShot
  <2> HIDE DEF keys
  <2> QED
    BY <1>2, <2>2, <2>3 DEF ScreenOK
<1>4. ASSUME out' \in [Sends -> Outcomes] PROVE InTurn(c)
  <2>1. troubles' \in 0..MaxTroubles
    BY <1>2, SendsAssumption DEF OneShot, Unless, Trouble, ScreenOK
  <2>2. ScreenOK'
    BY <1>1, <1>2, <1>3, <1>4, <2>1 DEF ScreenOK, OneShot, Guard
  <2> QED
    BY <1>1, <1>2, <2>2 DEF InTurn, OneShot
<1>5. ASSUME NEW o \in {"sent", "error"}, Over(c, o), UNCHANGED cleared PROVE WInv'
  <2>1. InTurn(c)
    BY <1>2, <1>4, <1>5, OverOut DEF Outcomes, ScreenOK
  <2> QED
    BY <1>5, <2>1, OverKeeps
<1> QED
  BY <1>5 DEF OneShot

\* What happens in the pane keeps the invariant: it is no send's step.
LEMMA PaneKeeps ==
    ASSUME WInv, Pane, ScreenOK'
    PROVE  WInv'
  BY DEF WInv, SendOK, Pane, vars

\* Acting on a key keeps the types of the screen.
LEMMA ConsumeScreen ==
    ASSUME ScreenOK, NEW lost \in BOOLEAN, Consume(lost)
    PROVE  ScreenOK'
<1> DEFINE key == Head(input)
           submits == key.k = "enter" /\ ~dialog /\ ~startup /\ ~lost
           n == IF Len(box) > key.of THEN Len(box) - key.of ELSE 0
<1>1. input \in Seq(KeyPress) /\ input # <<>> /\ box \in Seq(Sends \cup {Human})
  BY DEF ScreenOK, Consume
<1>2. key \in KeyPress /\ input' \in Seq(KeyPress)
  BY <1>1 DEF Consume
<1>3. key.k = "text" => Append(box, key.of) \in Seq(Sends \cup {Human})
  BY <1>1, <1>2 DEF KeyPress
<1>4. key.k = "sweep" => SubSeq(box, 1, n) \in Seq(Sends \cup {Human})
  <2> SUFFICES ASSUME key.k = "sweep" PROVE SubSeq(box, 1, n) \in Seq(Sends \cup {Human})
    OBVIOUS
  <2>1. key.of \in Nat
    BY <1>2 DEF KeyPress
  <2>2. n \in 0..Len(box)
    BY <1>1, <2>1
  <2> HIDE DEF n
  <2> QED
    BY <1>1, <2>2
<1>5. \/ box' = box \/ box' = <<>>
      \/ key.k = "text" /\ box' = Append(box, key.of)
      \/ key.k = "sweep" /\ box' = SubSeq(box, 1, n)
  BY DEF Consume
<1>6. box' \in Seq(Sends \cup {Human})
  <2>1. <<>> \in Seq(Sends \cup {Human})
    OBVIOUS
  <2> HIDE DEF key, n
  <2> QED
    BY <1>1, <1>3, <1>4, <1>5, <2>1
<1>7. went' \subseteq Sends
  <2>1. ToSet(box) \subseteq Sends \cup {Human}
    BY <1>1 DEF ToSet
  <2> QED
    BY <2>1 DEF Consume, ScreenOK
<1>8. troubles' \in 0..MaxTroubles
  BY SendsAssumption DEF Consume, Trouble, ScreenOK
<1>9. dialog' \in BOOLEAN /\ mixed' \in BOOLEAN
  BY DEF Consume, ScreenOK
<1> QED
  BY <1>2, <1>6, <1>7, <1>8, <1>9 DEF ScreenOK, Consume, Pane

\* Every step of the terminal and of the people at it keeps the invariant.
LEMMA WorldKeeps ==
    ASSUME WInv, DialogOpens \/ DialogCloses \/ DeskTypes \/ StartupEnds \/ \E lost \in BOOLEAN : Consume(lost)
    PROVE  WInv'
<1> USE SendsAssumption
<1>0. ScreenOK
  BY DEF WInv
<1>1. CASE DialogOpens
  <2>1. dialog' \in BOOLEAN /\ troubles' \in 0..MaxTroubles
    BY <1>0, <1>1 DEF DialogOpens, Trouble, ScreenOK
  <2> QED
    BY <1>0, <1>1, <2>1, PaneKeeps DEF DialogOpens, Pane, ScreenOK
<1>2. CASE DialogCloses
  BY <1>0, <1>2, PaneKeeps DEF DialogCloses, Pane, ScreenOK
<1>3. CASE DeskTypes
  <2>1. box' \in Seq(Sends \cup {Human}) /\ troubles' \in 0..MaxTroubles
    BY <1>0, <1>3 DEF DeskTypes, Trouble, ScreenOK
  <2> QED
    BY <1>0, <1>3, <2>1, PaneKeeps DEF DeskTypes, Pane, ScreenOK
<1>4. CASE StartupEnds
  BY <1>0, <1>4, PaneKeeps DEF StartupEnds, Pane, ScreenOK
<1>5. ASSUME NEW lost \in BOOLEAN, Consume(lost) PROVE WInv'
  BY <1>0, <1>5, ConsumeScreen, PaneKeeps DEF Consume
<1> QED
  BY <1>1, <1>2, <1>3, <1>4, <1>5

\* The queue's turns keep the invariant: a send is at work from its Begin to its End.
LEMMA CallingKeeps ==
    ASSUME WInv, TypeOK, NEW c \in Calls, Calling(c)
    PROVE  WInv'
<1> USE SendsAssumption
<1>1. ASSUME Turn, UNCHANGED g, out' \in [Sends -> Outcomes],
             \A d \in Sends : g[d].at \notin {"idle", "over"} => state'[d] = state[d]
      PROVE  WInv'
  BY <1>1 DEF WInv, ScreenOK, SendOK, Turn, tui, hist
<1>2. out \in [Sends -> Outcomes]
      /\ \A d \in Sends : g[d].at \notin {"idle", "over"} => state[d] = "running"
  BY DEF WInv, ScreenOK, SendOK
<1>3. CASE Arrives(c)
  BY <1>1, <1>2, <1>3 DEF Arrives, Arrive, TypeOK
<1>4. CASE Settles(c)
  BY <1>1, <1>2, <1>4 DEF Settles, Settle
<1>5. CASE GivesUp(c)
  <2>1. out' \in [Sends -> Outcomes]
    BY <1>2, <1>5 DEF GivesUp, Outcomes
  <2> QED
    BY <1>1, <1>2, <1>5, <2>1 DEF GivesUp, GiveUp, TypeOK
<1>6. CASE Ends(c)
  BY <1>1, <1>2, <1>6 DEF Ends, End, TypeOK
<1>7. CASE Begins(c)
  <2>1. \A d \in Sends : g[d].at \notin {"idle", "over"} => state'[d] = "running"
    BY <1>2, <1>7 DEF Begins, Begin, TypeOK
  <2>2. CASE c \notin Sends
    BY <1>1, <1>2, <1>7, <2>1, <2>2 DEF Begins
  <2>3. CASE c \in Sends
    <3> DEFINE at == IF kit = "none" THEN "oneShot" ELSE "preflight"
               r == [g[c] EXCEPT !.at = at]
    <3>1. state'[c] = "running" /\ g[c].at \in {"idle", "over"}
      BY <1>2, <1>7, <2>3 DEF Begins, Begin, TypeOK
    <3>2. g[c] \in GRecord /\ g[c].pressed = 0
      BY <2>3, <3>1 DEF WInv, SendOK, CountsOK
    <3>3. at \in Places /\ at \in {"oneShot", "preflight"}
      BY DEF Places
    <3>4. g' = [g EXCEPT ![c] = r]
      BY <1>7, <2>3 DEF Begins, WInv
    <3> HIDE DEF at
    <3>5. r \in GRecord /\ r.at = at /\ r.pressed = 0
      BY <3>2, <3>3 DEF GRecord
    <3>6. CountsOK(r) /\ r.at \notin Shown
      BY <3>3, <3>5 DEF CountsOK, Shown
    <3> HIDE DEF r
    <3>7. ASSUME NEW d \in Sends PROVE SendOK(d)'
      <4>1. CASE d = c
        BY <3>1, <3>4, <3>6, <4>1, <2>3 DEF SendOK, WInv, CountsOK
      <4>2. CASE d # c
        <5>1. g'[d] = g[d] /\ sight' = sight
          BY <1>7, <3>4, <4>2 DEF WInv, Begins, Turn, hist
        <5> QED
          BY <2>1, <5>1 DEF SendOK, WInv, CountsOK
      <4> QED
        BY <4>1, <4>2
    <3>8. g' \in [Sends -> GRecord]
      BY <2>3, <3>4, <3>5 DEF WInv
    <3>9. ScreenOK' /\ blind' = FALSE
      BY <1>7 DEF WInv, ScreenOK, Begins, Turn, tui, hist
    <3> QED
      BY <3>7, <3>8, <3>9 DEF WInv
  <2> QED
    BY <2>2, <2>3
<1> QED
  BY <1>3, <1>4, <1>5, <1>6, <1>7 DEF Calling

\* The invariant holds at the start.
LEMMA InitWInv == WritesInit => WInv
<1> SUFFICES ASSUME WritesInit PROVE WInv
    OBVIOUS
<1> USE SendsAssumption
<1>1. ScreenOK
  <2>1. startup \in BOOLEAN
    BY DEF WritesInit
  <2>2. box \in Seq(Sends \cup {Human}) /\ input \in Seq(KeyPress) /\ troubles \in 0..MaxTroubles
    BY DEF WritesInit
  <2>3. out \in [Sends -> Outcomes]
    BY DEF WritesInit, Outcomes
  <2> QED
    BY <2>1, <2>2, <2>3 DEF WritesInit, ScreenOK
<1>2. Idle \in GRecord /\ CountsOK(Idle) /\ Idle.at = "idle"
  <2>1. "idle" \in Places /\ 0 \in 0..PollAttempts /\ 0 \in 0..HeldReads /\ 0 \in 0..MaxPresses
    BY DEF Places
  <2> QED
    BY <2>1 DEF Idle, GRecord, CountsOK
<1>3. g = [c \in Sends |-> Idle] /\ blind = FALSE
  BY DEF WritesInit
<1> HIDE DEF Idle
<1> QED
  BY <1>1, <1>2, <1>3 DEF WInv, SendOK, Shown

\* Every step keeps it, while the queue excludes.
LEMMA NextWInv == TypeOK /\ MutualExclusion /\ WInv /\ [WritesNext]_wvars => WInv'
<1> SUFFICES ASSUME TypeOK, MutualExclusion, WInv, [WritesNext]_wvars PROVE WInv'
    OBVIOUS
<1>1. ASSUME NEW c \in Calls, Calling(c) PROVE WInv'
  BY <1>1, CallingKeeps
<1>2. ASSUME NEW c \in Sends, NEW ok \in BOOLEAN, Reads(c, ok) PROVE WInv'
  BY <1>2, PreflightKeeps, ReconfirmKeeps, VerifyKeeps, ConfirmKeeps, HoldKeeps, HeldConfirmKeeps
  DEF Reads
<1>3. ASSUME NEW c \in Sends, NEW res \in {"ok", "lost", "late"}, Writes(c, res) PROVE WInv'
  BY <1>3, SweepKeeps, TypeKeeps, SubmitKeeps, RescueKeeps, PressKeeps DEF Writes
<1>4. ASSUME NEW c \in Sends, Sweep(c, "short") PROVE WInv'
  BY <1>4, SweepKeeps
<1>5. ASSUME NEW c \in Sends, NEW n \in 0..2, OneShot(c, n) PROVE WInv'
  BY <1>5, OneShotKeeps
<1>6. CASE DialogOpens \/ DialogCloses \/ DeskTypes \/ StartupEnds \/ \E lost \in BOOLEAN : Consume(lost)
  BY <1>6, WorldKeeps
<1>7. CASE UNCHANGED wvars
  BY <1>7 DEF wvars, tui, hist, vars, WInv, ScreenOK, SendOK, CountsOK
<1> QED
  BY <1>1, <1>2, <1>3, <1>4, <1>5, <1>6, <1>7 DEF WritesNext

\* The inductive invariant of the sends, with the queue's exclusion as its ground.
THEOREM WritesInvariance == WritesSpec => []WInv
<1>1. WritesSpec => [](TypeOK /\ MutualExclusion)
  BY WritesImplementQueue, TypeCorrect, Exclusion, PTL
<1> QED
  BY <1>1, InitWInv, NextWInv, PTL DEF WritesSpec

\* The types of the guarded send, with its budgets and with who may be at work, for any
\* sends, kits, budgets and number of faults.
THEOREM WritesTypeCorrect == WritesSpec => []WritesTypeOK
<1>1. WInv => WritesTypeOK
  BY DEF WInv, ScreenOK, SendOK, GRecord, WritesTypeOK
<1> QED
  BY <1>1, WritesInvariance, PTL

\* Enter is never sent blind: for any sends, kits, budgets and number of faults, the last
\* look before a submit key showed this send's text alone in the box (guarded-send.ts).
THEOREM EnterNeverBlind == WritesSpec => []NeverBlind
<1>1. WInv => NeverBlind
  BY DEF WInv, NeverBlind
<1> QED
  BY <1>1, WritesInvariance, PTL

-----------------------------------------------------------------------------
(* What is submitted.  Keys are acted on in the order they went out, so a  *)
(* send that saw its text alone in the box has nothing of another send     *)
(* ahead of its submit keys: while one of them waits, the box holds that   *)
(* text or nothing, and what was typed at the desk.                        *)

TextKey(c) == [k |-> "text", of |-> c]
EnterKey(c) == [k |-> "enter", of |-> c]
Early == {"idle", "preflight", "sweep", "reconfirm", "type"}

BoxOf(S) == \A i \in DOMAIN box : box[i] \in S
NotInBox(c) == \A i \in DOMAIN box : box[i] # c

\* The send's text was submitted, or may be by a key that waits.
Touched(c) == c \in went \/ \E i \in DOMAIN input : input[i] = EnterKey(c)

\* Where a send can be: as its kit and its turn allow, with an outcome when it is over or gave up.
PlaceOK(c) ==
    /\ kit = "none" => g[c].at \in {"idle", "oneShot", "over"}
    /\ kit # "none" => g[c].at # "oneShot"
    /\ state[c] \in {"new", "waiting", "gaveUp"} => g[c].at = "idle"
    /\ out[c] # "none" => g[c].at = "over" \/ state[c] = "gaveUp"

\* A send that has not typed has no text about.
Untyped(c) == g[c].at \in Early => NotInBox(c) /\ \A i \in DOMAIN input : input[i] # TextKey(c)

\* The text of a send that waits for it is the last key, or all keys are acted on.
Typing(c) ==
    g[c].at = "verify" /\ input # <<>> =>
        /\ input[Len(input)] = TextKey(c) /\ NotInBox(c)
        /\ \A i \in DOMAIN input : i < Len(input) => input[i] # TextKey(c)

\* Once it saw its text, only its submit keys wait, and the box holds the text or it was submitted.
Submitting(c) ==
    g[c].at \in Shown =>
        /\ \A i \in DOMAIN input : input[i] = EnterKey(c)
        /\ BoxOf({c, Human})
        /\ ~desk => box = <<c>> \/ (box = <<>> /\ c \in went)

\* What is or may be submitted is of a send that says so.
Committed(c) ==
    Touched(c) => g[c].at \in Shown \/ (g[c].at = "over" /\ out[c] \in {"sent", "delivered"})

TextOK(c) == Untyped(c) /\ Typing(c) /\ Submitting(c) /\ Committed(c)

\* A submit key that waits meets its own text, and no key but its like is ahead of it.
Entering ==
    \A i \in DOMAIN input : input[i].k = "enter" =>
        /\ BoxOf({input[i].of, Human})
        /\ ~desk => Len(box) <= 1
        /\ \A j \in DOMAIN input : j < i => input[j] = input[i]

BoxInv ==
    /\ \A c \in Sends : PlaceOK(c)
    /\ kit # "none" => Entering /\ \A c \in Sends : TextOK(c)
    /\ NothingMixed /\ SentIsSubmitted

-----------------------------------------------------------------------------

\* A key is added behind those that wait.
Adds(key) ==
    /\ Len(input) \in Nat /\ DOMAIN input = 1..Len(input) /\ Len(input') = Len(input) + 1
    /\ DOMAIN input' = 1..(Len(input) + 1)
    /\ \A i \in 1..Len(input) : input'[i] = input[i]
    /\ input'[Len(input) + 1] = key

\* A write adds its key or is lost.
LEMMA WriteAdds ==
    ASSUME ScreenOK, NEW key \in KeyPress, NEW res, Write(<<key>>, res)
    PROVE  IF res = "lost" THEN input' = input ELSE Adds(key)
<1>1. CASE res = "lost"
  BY <1>1 DEF Write
<1>2. CASE res # "lost"
  <2>1. input' = Append(input, key) /\ input \in Seq(KeyPress)
    BY <1>2 DEF Write, ScreenOK
  <2> QED
    BY <1>2, <2>1 DEF Adds
<1> QED
  BY <1>1, <1>2

\* The key that is added is not another send's.
AddsOwn(c) ==
    input' = input \/ \E key : Adds(key) /\ \A d \in Sends \ {c} : key # TextKey(d) /\ key # EnterKey(d)

\* A send at work is alone: the others are idle or over, and what it does leaves them so.
LEMMA OthersKeep ==
    ASSUME WInv, BoxInv, MutualExclusion, NEW c \in Sends, state[c] = "running", Guard, AddsOwn(c),
           NEW d \in Sends, d # c, g'[d] = g[d], out'[d] = out[d]
    PROVE  PlaceOK(d)' /\ (kit # "none" => TextOK(d)')
<1> USE SendsAssumption, CallsAssumption
<1>1. g[d].at \in {"idle", "over"}
  <2>1. state[d] # "running"
    BY DEF MutualExclusion
  <2> QED
    BY <2>1 DEF WInv, SendOK
<1>2. UNCHANGED <<kit, box, desk, went, state>>
  BY DEF Guard, vars
<1>3. PlaceOK(d)'
  BY <1>2 DEF BoxInv, PlaceOK
<1>4. ASSUME kit # "none" PROVE TextOK(d)'
  <2>1. Untyped(d) /\ Committed(d)
    BY <1>4 DEF BoxInv, TextOK
  <2>2. ASSUME NEW i \in DOMAIN input', input'[i] \in {TextKey(d), EnterKey(d)}
        PROVE  i \in DOMAIN input /\ input'[i] = input[i]
    BY <2>2 DEF AddsOwn, Adds
  <2>3. Untyped(d)'
    BY <1>2, <2>1, <2>2 DEF Untyped, NotInBox, TextKey
  <2>4. Committed(d)'
    BY <1>2, <2>1, <2>2 DEF Committed, Touched, EnterKey
  <2>5. Typing(d)' /\ Submitting(d)'
    BY <1>1 DEF Typing, Submitting, Shown
  <2> QED
    BY <2>3, <2>4, <2>5 DEF TextOK
<1> QED
  BY <1>3, <1>4

\* A step of one send keeps the invariant when it does for that send.
LEMMA OneSendBox ==
    ASSUME WInv, BoxInv, MutualExclusion, NEW c \in Sends, g[c].at \notin {"idle", "over"}, Guard, AddsOwn(c),
           NEW r, g' = [g EXCEPT ![c] = r], r.at \notin {"idle", "oneShot"}, kit # "none",
           out' = out \/ (r.at = "over" /\ \E o : out' = [out EXCEPT ![c] = o]),
           TextOK(c)', Entering', SentIsSubmitted'
    PROVE  BoxInv'
<1>1. UNCHANGED <<kit, box, desk, went, mixed, state>>
  BY DEF Guard, vars
<1>2. state[c] = "running"
  BY AtWork
<1>3. g'[c] = r /\ \A d \in Sends : d # c => g'[d] = g[d] /\ out'[d] = out[d]
  BY DEF WInv, ScreenOK
<1>4. PlaceOK(c)'
  BY <1>1, <1>2, <1>3 DEF BoxInv, PlaceOK
<1>5. \A d \in Sends : d # c => PlaceOK(d)' /\ TextOK(d)'
  BY <1>2, <1>3, OthersKeep
<1>6. NothingMixed'
  BY <1>1 DEF BoxInv, NothingMixed
<1> QED
  BY <1>4, <1>5, <1>6 DEF BoxInv

\* What waits stays as it must when nothing is added, or a key that submits nothing.
LEMMA EnteringKeeps ==
    ASSUME Entering, UNCHANGED <<box, desk>>,
           input' = input \/ \E key : Adds(key) /\ key.k # "enter"
    PROVE  Entering'
  BY DEF Entering, BoxOf, Adds

\* The step is of send c alone, which it brings to `at`, with outcome o when that is "over".
Moves(c, at, o) ==
    /\ g' = [g EXCEPT ![c] = g'[c]] /\ g'[c].at = at
    /\ out' = IF at = "over" THEN [out EXCEPT ![c] = o] ELSE out

\* The ways a step moves its send, as moves.
LEMMA GoMoves ==
    ASSUME WInv, NEW c \in Sends, NEW at, at # "over", NEW o
    PROVE  /\ Go(c, at) => Moves(c, at, o)
           /\ Watch(c, at) => Moves(c, at, o)
<1>1. g \in [Sends -> GRecord] /\ g[c] \in GRecord
  BY DEF WInv
<1>2. ASSUME Go(c, at) PROVE Moves(c, at, o)
  <2>1. g'[c].at = at
    BY <1>1, <1>2 DEF Go, GRecord
  <2> QED
    BY <1>1, <1>2, <2>1 DEF Go, Moves
<1>3. ASSUME Watch(c, at) PROVE Moves(c, at, o)
  <2>1. g'[c].at = at
    BY <1>1, <1>3 DEF Watch, GRecord
  <2> QED
    BY <1>1, <1>3, <2>1 DEF Watch, Moves
<1> QED
  BY <1>2, <1>3

\* A send that is over.
LEMMA OverMoves ==
    ASSUME WInv, NEW c \in Sends, NEW o, Over(c, o)
    PROVE  Moves(c, "over", o)
<1>1. g \in [Sends -> GRecord]
  BY DEF WInv
<1>2. g'[c] = [Idle EXCEPT !.at = "over"]
  BY <1>1 DEF Over
<1>3. g'[c].at = "over"
  BY <1>2 DEF Idle
<1>4. g' = [g EXCEPT ![c] = g'[c]]
  BY <1>1, <1>2 DEF Over
<1> QED
  BY <1>3, <1>4 DEF Over, Moves

\* A send that looks once more.
LEMMA AgainMoves ==
    ASSUME WInv, NEW c \in Sends, NEW n, g' = [g EXCEPT ![c].polls = n], UNCHANGED out, g[c].at # "over", NEW o
    PROVE  Moves(c, g[c].at, o)
<1>1. g \in [Sends -> GRecord] /\ g[c] \in GRecord
  BY DEF WInv
<1>2. g'[c].at = g[c].at
  BY <1>1 DEF GRecord
<1> QED
  BY <1>1, <1>2 DEF Moves

\* Before a submit key: nothing of the send can be submitted, and nothing it does can.
LEMMA BeforeSubmit ==
    ASSUME WInv, BoxInv, MutualExclusion, kit # "none", NEW c \in Sends, g[c].at \in (Early \ {"idle"}) \cup {"verify"},
           Guard, UNCHANGED cleared, NEW o, NEW at \in (Early \ {"idle"}) \cup {"verify", "over"}, Moves(c, at, o),
           \/ input' = input /\ (at = "verify" => g[c].at = "verify")
           \/ at \in {"verify", "over"} /\ g[c].at = "type" /\ Adds(TextKey(c))
           \/ at # "verify" /\ \E n \in Nat : Adds([k |-> "sweep", of |-> n]),
           at \in Early => g[c].at \in Early
    PROVE  BoxInv'
<1>1. UNCHANGED <<kit, box, desk, went, mixed, state, cleared>>
  BY DEF Guard, vars
<1>2. Entering /\ Untyped(c) /\ Typing(c) /\ Committed(c)
  BY DEF BoxInv, TextOK
<1>3. ~Touched(c)
  BY <1>2 DEF Committed, Early, Shown
<1>4. input' = input \/ \E key : Adds(key) /\ key.k # "enter" /\ (key = TextKey(c) \/ key.k = "sweep")
  <2>1. TextKey(c).k = "text" /\ \A n \in Nat : [k |-> "sweep", of |-> n].k = "sweep"
    BY DEF TextKey
  <2>2. ASSUME NEW n \in Nat, Adds([k |-> "sweep", of |-> n])
        PROVE  \E key : Adds(key) /\ key.k # "enter" /\ (key = TextKey(c) \/ key.k = "sweep")
    <3> DEFINE key == [k |-> "sweep", of |-> n]
    <3>1. Adds(key) /\ key.k = "sweep"
      BY <2>1, <2>2
    <3> HIDE DEF key
    <3> QED
      BY <3>1
  <2>3. ASSUME Adds(TextKey(c))
        PROVE  \E key : Adds(key) /\ key.k # "enter" /\ (key = TextKey(c) \/ key.k = "sweep")
    BY <2>1, <2>3
  <2> QED
    BY <2>2, <2>3
<1>5. AddsOwn(c)
  <2>1. \A key : key.k # "enter" /\ (key = TextKey(c) \/ key.k = "sweep")
                   => \A d \in Sends \ {c} : key # TextKey(d) /\ key # EnterKey(d)
    BY DEF TextKey, EnterKey
  <2> QED
    BY <1>4, <2>1 DEF AddsOwn
<1>6. Entering'
  BY <1>1, <1>2, <1>4, EnteringKeeps
<1>7. g'[c].at = at
  BY DEF Moves
<1>8. Untyped(c)'
  <2> SUFFICES ASSUME at \in Early PROVE NotInBox(c)' /\ \A i \in DOMAIN input' : input'[i] # TextKey(c)
    BY <1>7 DEF Untyped, TextKey
  <2>1. NotInBox(c) /\ \A i \in DOMAIN input : input[i] # TextKey(c)
    BY <1>2 DEF Untyped
  <2>2. input' = input \/ \E n \in Nat : Adds([k |-> "sweep", of |-> n])
    <3>1. at \notin {"verify", "over"}
      BY DEF Early
    <3> QED
      BY <3>1
  <2>3. \A i \in DOMAIN input' : input'[i] # TextKey(c)
    <3>1. CASE input' = input
      BY <2>1, <3>1
    <3>2. ASSUME NEW n \in Nat, Adds([k |-> "sweep", of |-> n])
          PROVE  \A i \in DOMAIN input' : input'[i] # TextKey(c)
      <4>1. [k |-> "sweep", of |-> n] # TextKey(c)
        BY DEF TextKey
      <4> DEFINE key == [k |-> "sweep", of |-> n]
      <4>2. Adds(key) /\ key # TextKey(c)
        BY <3>2, <4>1
      <4> HIDE DEF key
      <4> QED
        BY <2>1, <4>2 DEF Adds
    <3> QED
      BY <2>2, <3>1, <3>2
  <2> QED
    BY <1>1, <2>1, <2>3 DEF NotInBox
<1>9. Typing(c)'
  <2> SUFFICES ASSUME at = "verify", input' # <<>>
               PROVE  /\ input'[Len(input')] = TextKey(c) /\ NotInBox(c)'
                      /\ \A i \in DOMAIN input' : i < Len(input') => input'[i] # TextKey(c)
    BY <1>7 DEF Typing, TextKey
  <2>1. CASE input' = input
    BY <1>1, <1>2, <2>1 DEF Typing, NotInBox, Early, Adds
  <2>2. CASE g[c].at = "type" /\ Adds(TextKey(c))
    BY <1>1, <1>2, <2>2 DEF Untyped, NotInBox, Early, Adds
  <2> QED
    BY <2>1, <2>2
<1>10. Submitting(c)'
  BY <1>7 DEF Submitting, Early, Shown
<1>11. Committed(c)'
  <2>1. ASSUME NEW i \in DOMAIN input' PROVE input'[i] # EnterKey(c)
    BY <1>3, <1>4 DEF Touched, Adds, EnterKey, TextKey
  <2> QED
    BY <1>1, <1>3, <2>1 DEF Committed, Touched, EnterKey
<1>12. SentIsSubmitted'
  BY <1>1 DEF BoxInv, SentIsSubmitted
<1> QED
  BY <1>5, <1>6, <1>7, <1>8, <1>9, <1>10, <1>11, <1>12, OneSendBox DEF TextOK, Moves, Early

\* The look that shows the text: every key is acted on.
LEMMA SeenKeeps ==
    ASSUME WInv, BoxInv, MutualExclusion, kit # "none", NEW c \in Sends, g[c].at = "verify", Guard, UNCHANGED cleared,
           input' = input, Holds(c), NEW o, NEW at \in {"submit", "hold"}, Moves(c, at, o)
    PROVE  BoxInv'
<1>1. UNCHANGED <<kit, box, desk, went, mixed, state, cleared>>
  BY DEF Guard, vars
<1>2. Entering /\ Typing(c) /\ Committed(c)
  BY DEF BoxInv, TextOK
<1>3. box = <<c>>
  BY DEF Holds
<1>4. input = <<>>
  <2>1. 1 \in DOMAIN box /\ box[1] = c
    BY <1>3
  <2> QED
    BY <1>2, <2>1 DEF Typing, NotInBox
<1>5. g'[c].at = at
  BY DEF Moves
<1>6. Submitting(c)'
  <2>1. DOMAIN input' = {}
    BY <1>4
  <2>2. BoxOf({c, Human})'
    BY <1>1, <1>3 DEF BoxOf
  <2> QED
    BY <1>1, <1>3, <2>1, <2>2 DEF Submitting
<1>7. Untyped(c)' /\ Typing(c)'
  BY <1>5 DEF Untyped, Typing, Early
<1>8. Committed(c)'
  BY <1>5 DEF Committed, Shown
<1>9. Entering' /\ AddsOwn(c)
  BY <1>1, <1>2, EnteringKeeps DEF AddsOwn
<1>10. SentIsSubmitted'
  BY <1>1 DEF BoxInv, SentIsSubmitted
<1> QED
  BY <1>5, <1>6, <1>7, <1>8, <1>9, <1>10, OneSendBox DEF TextOK, Moves

\* From there on the send presses submit keys or none, and says so when it is over.
LEMMA AfterSeen ==
    ASSUME WInv, BoxInv, MutualExclusion, kit # "none", NEW c \in Sends, g[c].at \in Shown, Guard,
           NEW o \in {"sent", "delivered"}, NEW at \in Shown \cup {"over"}, Moves(c, at, o),
           input' = input \/ Adds(EnterKey(c)),
           cleared' = cleared \/ (cleared' = cleared \cup {c} /\ ~dialog /\ ~Holds(c))
    PROVE  BoxInv'
<1>1. UNCHANGED <<kit, box, desk, went, mixed, state>>
  BY DEF Guard, vars
<1>2. Entering /\ Submitting(c) /\ Committed(c)
  BY DEF BoxInv, TextOK
<1>3. /\ \A i \in DOMAIN input : input[i] = EnterKey(c)
      /\ BoxOf({c, Human})
      /\ ~desk => box = <<c>> \/ (box = <<>> /\ c \in went)
  BY <1>2 DEF Submitting
<1>4. \A i \in DOMAIN input' : input'[i] = EnterKey(c)
  BY <1>3 DEF Adds
<1>5. g'[c].at = at /\ (at = "over" => out'[c] = o)
  BY DEF Moves, WInv, ScreenOK
<1>6. Untyped(c)' /\ Typing(c)'
  BY <1>5 DEF Untyped, Typing, Early, Shown
<1>7. Submitting(c)'
  BY <1>1, <1>3, <1>4 DEF Submitting, BoxOf, EnterKey
<1>8. Committed(c)'
  BY <1>5 DEF Committed
<1>9. Entering'
  <2>0. ASSUME ~desk PROVE Len(box) <= 1
    <3>1. CASE box = <<c>>
      <4>1. Len(box) = 1
        BY <3>1
      <4> QED
        BY <4>1
    <3>2. CASE box = <<>>
      <4>1. Len(box) = 0
        BY <3>2
      <4> QED
        BY <4>1
    <3> QED
      BY <1>3, <2>0, <3>1, <3>2
  <2>1. ~desk => Len(box) <= 1
    BY <2>0
  <2>2. EnterKey(c).of = c
    BY DEF EnterKey
  <2> QED
    BY <1>1, <1>3, <1>4, <2>1, <2>2 DEF Entering, BoxOf
<1>10. AddsOwn(c)
  <2>1. \A d \in Sends \ {c} : EnterKey(c) # TextKey(d) /\ EnterKey(c) # EnterKey(d)
    BY DEF TextKey, EnterKey
  <2> QED
    BY <2>1 DEF AddsOwn
<1>11. SentIsSubmitted'
  <2> SUFFICES ASSUME ~desk PROVE cleared' \subseteq went
    BY <1>1 DEF SentIsSubmitted
  <2>1. cleared \subseteq went
    BY DEF BoxInv, SentIsSubmitted
  <2>2. ~dialog /\ ~Holds(c) => c \in went
    BY <1>3 DEF Holds
  <2> QED
    BY <2>1, <2>2
<1> QED
  BY <1>5, <1>6, <1>7, <1>8, <1>9, <1>10, <1>11, OneSendBox DEF TextOK, Moves, Shown

\* A send at its looks and keys has an adapter.
LEMMA HasKit ==
    ASSUME BoxInv, NEW c \in Sends, g[c].at \notin {"idle", "oneShot", "over"}
    PROVE  kit # "none"
  BY DEF BoxInv, PlaceOK

\* The looks before the text is typed.
LEMMA EarlyLooksBox ==
    ASSUME WInv, BoxInv, MutualExclusion, NEW c \in Sends, NEW ok \in BOOLEAN,
           Reconfirm(c, ok) \/ \E force, popup \in BOOLEAN : Preflight(c, ok, force, popup)
    PROVE  BoxInv'
<1>1. g[c].at \in {"preflight", "reconfirm"} /\ Guard /\ input' = input
  BY DEF Reconfirm, Preflight, Look
<1>2. kit # "none"
  BY <1>1, HasKit
<1>3. ASSUME NEW at \in {"type", "sweep", "over"}, NEW o, Moves(c, at, o), UNCHANGED cleared PROVE BoxInv'
  BY <1>1, <1>2, <1>3, BeforeSubmit DEF Early
<1>4. CASE Go(c, "type")
  <2>1. Moves(c, "type", "none") /\ UNCHANGED cleared
    BY <1>4, GoMoves DEF Go
  <2> QED
    BY <1>3, <2>1
<1>5. ASSUME NEW o, Over(c, o), UNCHANGED cleared PROVE BoxInv'
  BY <1>3, <1>5, OverMoves
<1>6. CASE /\ g' = [g EXCEPT ![c].at = IF box = <<>> THEN "type" ELSE "sweep", ![c].draft = Len(box)]
           /\ UNCHANGED <<out, cleared>>
  <2> DEFINE at == IF box = <<>> THEN "type" ELSE "sweep"
  <2>1. g \in [Sends -> GRecord] /\ g[c] \in GRecord
    BY DEF WInv
  <2>2. g' = [g EXCEPT ![c] = [g[c] EXCEPT !.at = at, !.draft = Len(box)]]
    BY <1>6, <2>1
  <2>3. at \in {"type", "sweep"}
    OBVIOUS
  <2> HIDE DEF at
  <2>4. g'[c].at = at /\ g' = [g EXCEPT ![c] = g'[c]]
    BY <2>1, <2>2 DEF GRecord
  <2>5. Moves(c, at, "none")
    BY <1>6, <2>3, <2>4 DEF Moves
  <2> QED
    BY <1>3, <1>6, <2>3, <2>5
<1> QED
  BY <1>4, <1>5, <1>6 DEF Reconfirm, Preflight

\* The look for the typed text.
LEMMA VerifyBox ==
    ASSUME WInv, BoxInv, MutualExclusion, NEW c \in Sends, NEW ok \in BOOLEAN, Verify(c, ok)
    PROVE  BoxInv'
<1>1. g[c].at = "verify" /\ Guard /\ input' = input
  BY DEF Verify, Look
<1>2. kit # "none"
  BY <1>1, HasKit
<1>3. ASSUME NEW at \in {"verify", "over"}, NEW o, Moves(c, at, o), UNCHANGED cleared PROVE BoxInv'
  BY <1>1, <1>2, <1>3, BeforeSubmit DEF Early
<1> DEFINE at == IF kit = "held" THEN "hold" ELSE "submit"
           b == IF kit = "held" THEN HeldReads ELSE 0
<1>4. CASE /\ Holds(c)
           /\ g' = [g EXCEPT ![c].at = at, ![c].polls = 0, ![c].budget = b]
           /\ UNCHANGED <<out, cleared>>
  <2>1. g \in [Sends -> GRecord] /\ g[c] \in GRecord
    BY DEF WInv
  <2>2. at \in {"hold", "submit"}
    OBVIOUS
  <2> HIDE DEF at, b
  <2>3. g' = [g EXCEPT ![c] = [g[c] EXCEPT !.at = at, !.polls = 0, !.budget = b]]
    BY <1>4, <2>1
  <2>4. g'[c].at = at /\ g' = [g EXCEPT ![c] = g'[c]]
    BY <2>1, <2>3 DEF GRecord
  <2>5. Moves(c, at, "none")
    BY <1>4, <2>2, <2>4 DEF Moves
  <2> QED
    BY <1>1, <1>2, <1>4, <2>2, <2>5, SeenKeeps
<1>5. CASE g' = [g EXCEPT ![c].polls = @ - 1] /\ UNCHANGED <<out, cleared>>
  <2>1. Moves(c, "verify", "none")
    BY <1>1, <1>5, AgainMoves
  <2> QED
    BY <1>3, <1>5, <2>1
<1>6. CASE Over(c, "stalled") /\ UNCHANGED cleared
  BY <1>3, <1>6, OverMoves
<1> QED
  BY <1>4, <1>5, <1>6 DEF Verify

\* The looks after a submit key may have gone out, and the wait while it is held.
LEMMA LateLooksBox ==
    ASSUME WInv, BoxInv, MutualExclusion, NEW c \in Sends, NEW ok \in BOOLEAN,
           Confirm(c, ok) \/ Hold(c, ok) \/ HeldConfirm(c, ok)
    PROVE  BoxInv'
<1>1. g[c].at \in {"confirm", "hold", "heldConfirm"} /\ Guard /\ input' = input
  BY DEF Confirm, Hold, HeldConfirm, Look
<1>2. kit # "none" /\ g[c].at \in Shown
  BY <1>1, HasKit DEF Shown
<1>3. ASSUME NEW at \in Shown \cup {"over"}, NEW o \in {"sent", "delivered"}, Moves(c, at, o),
             cleared' = cleared \/ (cleared' = cleared \cup {c} /\ ~dialog /\ ~Holds(c))
      PROVE  BoxInv'
  BY <1>1, <1>2, <1>3, AfterSeen
<1>4. ASSUME NEW at \in {"rescue", "press"}, Go(c, at) PROVE BoxInv'
  <2>1. Moves(c, at, "sent") /\ cleared' = cleared /\ at \in Shown
    BY <1>4, GoMoves DEF Go, Shown
  <2> QED
    BY <1>3, <2>1
<1>5. ASSUME NEW o \in {"sent", "delivered"}, Over(c, o),
             cleared' = cleared \/ (cleared' = cleared \cup {c} /\ ~dialog /\ ~Holds(c))
      PROVE  BoxInv'
  BY <1>3, <1>5, OverMoves
<1>6. g \in [Sends -> GRecord] /\ g[c] \in GRecord
  BY DEF WInv
<1>7. CASE g' = [g EXCEPT ![c].polls = @ - 1] /\ UNCHANGED <<out, cleared>>
  <2>1. Moves(c, g[c].at, "sent")
    BY <1>1, <1>7, AgainMoves
  <2> QED
    BY <1>2, <1>3, <1>7, <2>1
<1>8. ASSUME NEW l, g[c].at = "hold", g' = [g EXCEPT ![c].budget = @ - 1, ![c].last = l], UNCHANGED <<out, cleared>>
      PROVE  BoxInv'
  <2>1. g' = [g EXCEPT ![c] = [g[c] EXCEPT !.budget = g[c].budget - 1, !.last = l]]
    BY <1>6, <1>8
  <2>2. g'[c].at = "hold" /\ g' = [g EXCEPT ![c] = g'[c]]
    BY <1>6, <1>8, <2>1 DEF GRecord
  <2>3. Moves(c, "hold", "sent") /\ "hold" \in Shown
    BY <1>8, <2>2 DEF Moves, Shown
  <2> QED
    BY <1>3, <1>8, <2>3
<1>9. CASE g' = [g EXCEPT ![c].at = "hold", ![c].polls = 0] /\ UNCHANGED <<out, cleared>>
  <2>1. g' = [g EXCEPT ![c] = [g[c] EXCEPT !.at = "hold", !.polls = 0]]
    BY <1>6, <1>9
  <2>2. g'[c].at = "hold" /\ g' = [g EXCEPT ![c] = g'[c]]
    BY <1>6, <2>1 DEF GRecord
  <2>3. Moves(c, "hold", "sent") /\ "hold" \in Shown
    BY <1>9, <2>2 DEF Moves, Shown
  <2> QED
    BY <1>3, <1>9, <2>3
<1>10. CASE Confirm(c, ok)
  BY <1>4, <1>5, <1>7, <1>10 DEF Confirm
<1>11. CASE HeldConfirm(c, ok)
  BY <1>5, <1>7, <1>9, <1>11 DEF HeldConfirm
<1>12. CASE Hold(c, ok)
  <2>1. g[c].at = "hold"
    BY <1>12 DEF Hold
  <2> QED
    BY <1>4, <1>5, <1>8, <1>12, <2>1 DEF Hold
<1> QED
  BY <1>10, <1>11, <1>12

\* The sweep and the text.
LEMMA EarlyWritesBox ==
    ASSUME WInv, BoxInv, MutualExclusion, NEW c \in Sends, NEW res \in {"ok", "lost", "late", "short"},
           Sweep(c, res) \/ Type(c, res)
    PROVE  BoxInv'
<1>0. ScreenOK
  BY DEF WInv
<1>1. CASE Sweep(c, res)
  <2> DEFINE n == IF res = "short" THEN g[c].draft - 1 ELSE g[c].draft
  <2>1. g[c].at = "sweep" /\ Guard /\ Write(<<[k |-> "sweep", of |-> n]>>, res)
    BY <1>1 DEF Sweep
  <2>2. kit # "none"
    BY <2>1, HasKit
  <2>3. n \in Nat
    <3>1. g[c] \in GRecord /\ CountsOK(g[c])
      BY <2>1, AtWork
    <3>2. g[c].draft \in Nat /\ g[c].draft # 0
      BY <2>1, <3>1 DEF CountsOK, GRecord
    <3> QED
      BY <3>2
  <2> HIDE DEF n
  <2>4. [k |-> "sweep", of |-> n] \in KeyPress
    BY <2>3 DEF KeyPress
  <2>5. input' = input \/ \E m \in Nat : Adds([k |-> "sweep", of |-> m])
    BY <1>0, <2>1, <2>3, <2>4, WriteAdds
  <2>6. ASSUME NEW at \in {"reconfirm", "over"}, NEW o, Moves(c, at, o), UNCHANGED cleared PROVE BoxInv'
    BY <2>1, <2>2, <2>5, <2>6, BeforeSubmit DEF Early
  <2>7. CASE Go(c, "reconfirm")
    <3>1. Moves(c, "reconfirm", "none") /\ UNCHANGED cleared
      BY <2>7, GoMoves DEF Go
    <3> QED
      BY <2>6, <3>1
  <2>8. CASE Over(c, "error") /\ UNCHANGED cleared
    BY <2>6, <2>8, OverMoves
  <2> QED
    BY <1>1, <2>7, <2>8 DEF Sweep
<1>2. CASE Type(c, res)
  <2>1. g[c].at = "type" /\ Guard /\ Write(<<TextKey(c)>>, res)
    BY <1>2 DEF Type, TextKey
  <2>2. kit # "none"
    BY <2>1, HasKit
  <2>3. TextKey(c) \in KeyPress
    BY DEF KeyPress, TextKey
  <2>4. IF res = "lost" THEN input' = input ELSE Adds(TextKey(c))
    BY <1>0, <2>1, <2>3, WriteAdds
  <2>5. CASE res = "ok"
    <3>1. Moves(c, "verify", "none") /\ UNCHANGED cleared
      BY <1>2, <2>5, GoMoves DEF Type, Watch
    <3> QED
      BY <2>1, <2>2, <2>4, <2>5, <3>1, BeforeSubmit DEF Early
  <2>6. CASE res # "ok"
    <3>1. Moves(c, "over", "error") /\ UNCHANGED cleared
      BY <1>2, <2>6, OverMoves DEF Type
    <3> QED
      BY <2>1, <2>2, <2>4, <3>1, BeforeSubmit DEF Early
  <2> QED
    BY <2>5, <2>6
<1> QED
  BY <1>1, <1>2

\* The keys that submit.
LEMMA SubmitKeysBox ==
    ASSUME WInv, BoxInv, MutualExclusion, NEW c \in Sends, NEW res \in {"ok", "lost", "late"},
           Submit(c, res) \/ Rescue(c, res) \/ Press(c, res)
    PROVE  BoxInv'
<1>1. /\ g[c].at \in {"submit", "rescue", "press"} /\ Guard /\ UNCHANGED cleared
      /\ Write(<<EnterKey(c)>>, res)
  BY DEF Submit, Rescue, Press, SubmitOnly, EnterKey, Watch
<1>2. kit # "none" /\ g[c].at \in Shown
  BY <1>1, HasKit DEF Shown
<1>3. input' = input \/ Adds(EnterKey(c))
  <2>1. EnterKey(c) \in KeyPress /\ ScreenOK
    BY DEF KeyPress, EnterKey, WInv
  <2> QED
    BY <1>1, <2>1, WriteAdds
<1>4. ASSUME NEW at \in Shown \cup {"over"}, NEW o \in {"sent", "delivered"}, Moves(c, at, o) PROVE BoxInv'
  BY <1>1, <1>2, <1>3, <1>4, AfterSeen
<1>5. CASE Submit(c, res)
  <2>1. Moves(c, "confirm", "sent") /\ "confirm" \in Shown
    BY <1>5, GoMoves DEF Submit, Shown
  <2> QED
    BY <1>4, <2>1
<1>6. CASE Rescue(c, res)
  BY <1>4, <1>6, OverMoves DEF Rescue
<1>7. CASE Press(c, res)
  <2>1. g \in [Sends -> GRecord] /\ g[c] \in GRecord
    BY DEF WInv
  <2>2. g' = [g EXCEPT ![c] = [g[c] EXCEPT !.at = "heldConfirm", !.polls = PollAttempts,
                                           !.pressed = g[c].pressed + 1, !.last = FALSE]]
        /\ out' = out
    BY <1>7, <2>1 DEF Press
  <2>3. g'[c].at = "heldConfirm" /\ g' = [g EXCEPT ![c] = g'[c]]
    BY <2>1, <2>2 DEF GRecord
  <2>4. Moves(c, "heldConfirm", "sent") /\ "heldConfirm" \in Shown
    BY <2>2, <2>3 DEF Moves, Shown
  <2> QED
    BY <1>4, <2>4
<1> QED
  BY <1>5, <1>6, <1>7

\* One shot is of a harness without an adapter, of which nothing is said but that no send of it looks.
LEMMA OneShotBox ==
    ASSUME WInv, BoxInv, NEW c \in Sends, NEW n \in 0..2, OneShot(c, n)
    PROVE  BoxInv'
<1>1. g[c].at = "oneShot" /\ UNCHANGED <<kit, box, desk, went, mixed, state, cleared>>
  BY DEF OneShot, Guard, vars
<1>2. kit = "none"
  BY <1>1 DEF BoxInv, PlaceOK
<1>3. PICK o : Moves(c, "over", o)
  BY OverMoves DEF OneShot
<1>4. g'[c].at = "over" /\ \A d \in Sends : d # c => g'[d] = g[d] /\ out'[d] = out[d]
  BY <1>3 DEF Moves, WInv, ScreenOK
<1>5. state[c] = "running"
  BY <1>1, AtWork
<1>6. \A d \in Sends : PlaceOK(d)'
  BY <1>1, <1>2, <1>4, <1>5 DEF BoxInv, PlaceOK
<1> QED
  BY <1>1, <1>2, <1>6 DEF BoxInv, NothingMixed, SentIsSubmitted

\* A turn of the queue: a send begins with no text about, and one that gives up has none.
LEMMA CallingBox ==
    ASSUME WInv, TypeOK, BoxInv, NEW c \in Calls, Calling(c)
    PROVE  BoxInv'
<1> USE SendsAssumption
<1>1. UNCHANGED <<kit, box, input, desk, went, mixed, cleared>>
  BY DEF Calling, Arrives, Begins, GivesUp, Ends, Settles, Turn, tui, hist
<1>2. \A d \in Sends : d # c => g'[d] = g[d] /\ out'[d] = out[d] /\ state'[d] = state[d]
  BY DEF Calling, Arrives, Begins, GivesUp, Ends, Settles, Arrive, Begin, GiveUp, End, Settle, WInv, ScreenOK, TypeOK
<1>3. ASSUME c \in Sends PROVE PlaceOK(c)' /\ (kit # "none" => TextOK(c)')
  <2>0. PlaceOK(c) /\ (kit # "none" => TextOK(c)) /\ state \in [Calls -> {"new", "waiting", "running", "gaveUp", "ended"}]
        /\ g \in [Sends -> GRecord] /\ g[c] \in GRecord /\ out \in [Sends -> Outcomes]
    BY <1>3 DEF BoxInv, TypeOK, WInv, ScreenOK
  <2>1. ASSUME g'[c] = g[c], out'[c] = out[c] PROVE kit # "none" => TextOK(c)'
    BY <1>1, <2>0, <2>1 DEF TextOK, Untyped, Typing, Submitting, Committed, Touched, BoxOf, NotInBox
  <2>2. CASE Arrives(c)
    <3>1. state[c] = "new" /\ state'[c] = "waiting" /\ UNCHANGED <<g, out>>
      BY <2>0, <2>2 DEF Arrives, Arrive
    <3>2. PlaceOK(c)'
      BY <1>1, <2>0, <3>1 DEF PlaceOK
    <3> QED
      BY <2>1, <3>1, <3>2
  <2>3. CASE Settles(c)
    BY <1>1, <2>0, <2>1, <2>3 DEF Settles, Settle, PlaceOK
  <2>4. CASE Ends(c)
    <3>1. g[c].at = "over" /\ state'[c] = "ended" /\ state[c] = "running" /\ UNCHANGED <<g, out>>
      BY <1>3, <2>0, <2>4 DEF Ends, End
    <3>2. PlaceOK(c)'
      BY <1>1, <2>0, <3>1 DEF PlaceOK
    <3> QED
      BY <2>1, <3>1, <3>2
  <2>5. CASE GivesUp(c)
    <3>1. state[c] = "waiting" /\ state'[c] = "gaveUp" /\ g' = g
      BY <2>0, <2>5 DEF GivesUp, GiveUp
    <3>2. g[c].at = "idle" /\ PlaceOK(c)'
      BY <1>1, <2>0, <3>1 DEF PlaceOK
    <3>3. kit # "none" => TextOK(c)'
      BY <1>1, <2>0, <3>1, <3>2 DEF TextOK, Untyped, Typing, Submitting, Committed, Touched, NotInBox, Shown
    <3> QED
      BY <3>2, <3>3
  <2>6. CASE Begins(c)
    <3> DEFINE at == IF kit = "none" THEN "oneShot" ELSE "preflight"
    <3>1. state[c] = "waiting" /\ state'[c] = "running" /\ UNCHANGED out
      BY <2>0, <2>6 DEF Begins, Begin
    <3>2. g' = [g EXCEPT ![c] = [g[c] EXCEPT !.at = at]]
      BY <1>3, <2>0, <2>6 DEF Begins
    <3>3. (kit = "none" => at = "oneShot") /\ (kit # "none" => at = "preflight")
      OBVIOUS
    <3> HIDE DEF at
    <3>4. g[c].at = "idle" /\ g'[c].at = at
      BY <1>3, <2>0, <3>1, <3>2 DEF GRecord, PlaceOK
    <3>5. PlaceOK(c)'
      BY <1>1, <2>0, <3>1, <3>3, <3>4 DEF PlaceOK
    <3>6. kit # "none" => TextOK(c)'
      BY <1>1, <2>0, <3>3, <3>4
      DEF TextOK, Untyped, Typing, Submitting, Committed, Touched, NotInBox, Shown, Early
    <3> QED
      BY <3>5, <3>6
  <2> QED
    BY <2>2, <2>3, <2>4, <2>5, <2>6 DEF Calling
<1>4. ASSUME NEW d \in Sends, d # c PROVE PlaceOK(d)' /\ (kit # "none" => TextOK(d)')
  <2>1. PlaceOK(d) /\ (kit # "none" => TextOK(d)) /\ g'[d] = g[d] /\ out'[d] = out[d] /\ state'[d] = state[d]
    BY <1>2, <1>4 DEF BoxInv
  <2>2. PlaceOK(d)'
    BY <1>1, <2>1 DEF PlaceOK
  <2>3. kit # "none" => TextOK(d)'
    BY <1>1, <2>1 DEF TextOK, Untyped, Typing, Submitting, Committed, Touched, BoxOf, NotInBox
  <2> QED
    BY <2>2, <2>3
<1>5. kit # "none" => Entering'
  BY <1>1 DEF BoxInv, Entering, BoxOf
<1> QED
  BY <1>1, <1>3, <1>4, <1>5 DEF BoxInv, NothingMixed, SentIsSubmitted

\* Acting on a key: a submit key meets its own text; before it no text is added and nothing swept.
LEMMA ConsumeBox ==
    ASSUME WInv, BoxInv, NEW lost \in BOOLEAN, Consume(lost)
    PROVE  BoxInv'
<1> USE SendsAssumption
<1> DEFINE key == Head(input)
           submits == key.k = "enter" /\ ~dialog /\ ~startup /\ ~lost
<1>1. /\ UNCHANGED <<state, kit, g, out, cleared, desk>>
      /\ went' = IF submits THEN went \cup (ToSet(box) \ {Human}) ELSE went
      /\ mixed' = (mixed \/ (submits /\ Len(box) > 1))
  BY DEF Consume, Pane, vars
<1>2. /\ input \in Seq(KeyPress) /\ input # <<>> /\ box \in Seq(Sends \cup {Human})
  BY DEF Consume, WInv, ScreenOK
<1>3. /\ Len(input) \in Nat \ {0} /\ DOMAIN input = 1..Len(input) /\ key = input[1] /\ key \in KeyPress
      /\ Len(input') = Len(input) - 1 /\ DOMAIN input' = 1..(Len(input) - 1)
      /\ \A i \in 1..(Len(input) - 1) : input'[i] = input[i + 1]
  BY <1>2 DEF Consume
<1>4. \/ box' = box
      \/ key.k = "text" /\ box' = Append(box, key.of)
      \/ key.k = "sweep" /\ box' = SubSeq(box, 1, IF Len(box) > key.of THEN Len(box) - key.of ELSE 0)
      \/ submits /\ box' = <<>>
  BY DEF Consume
<1>5. key.k = "enter" => (box' = box \/ (submits /\ box' = <<>>))
  BY <1>4
<1> HIDE DEF submits
<1>6. \A i \in DOMAIN box' : \/ \E j \in DOMAIN box : box'[i] = box[j]
                             \/ key.k = "text" /\ box'[i] = key.of
  <2>1. CASE box' = box \/ box' = <<>>
    BY <2>1
  <2>2. CASE key.k = "text" /\ box' = Append(box, key.of)
    BY <1>2, <2>2
  <2>3. CASE key.k = "sweep" /\ box' = SubSeq(box, 1, IF Len(box) > key.of THEN Len(box) - key.of ELSE 0)
    <3> DEFINE n == IF Len(box) > key.of THEN Len(box) - key.of ELSE 0
    <3>1. key.of \in Nat
      BY <1>3, <2>3 DEF KeyPress
    <3>2. n \in 0..Len(box)
      BY <1>2, <3>1
    <3>3. box' = SubSeq(box, 1, n)
      BY <2>3
    <3> HIDE DEF n, key
    <3>4. \A i \in DOMAIN box' : i \in DOMAIN box /\ box'[i] = box[i]
      BY <1>2, <3>2, <3>3
    <3> QED
      BY <3>4
  <2> QED
    BY <1>4, <2>1, <2>2, <2>3
<1>7. \A i \in DOMAIN input' : i + 1 \in DOMAIN input /\ 1 < i + 1 /\ input'[i] = input[i + 1] /\ 1 \in DOMAIN input
  BY <1>3
<1>8. \A d \in Sends : PlaceOK(d)'
  BY <1>1 DEF BoxInv, PlaceOK
<1>9. SentIsSubmitted'
  BY <1>1 DEF BoxInv, SentIsSubmitted
<1> HIDE DEF key
<1>10. ASSUME kit # "none" PROVE NothingMixed' /\ Entering' /\ \A d \in Sends : TextOK(d)'
  <2>0. Entering /\ \A d \in Sends : TextOK(d)
    BY <1>10 DEF BoxInv
  <2>1. key.k = "enter" => BoxOf({key.of, Human}) /\ (~desk => Len(box) <= 1)
    <3>1. 1 \in DOMAIN input /\ input[1] = key
      BY <1>3
    <3> QED
      BY <2>0, <3>1 DEF Entering
  <2>2. submits => key.k = "enter"
    BY DEF submits
  <2>3. NothingMixed'
    <3>1. submits /\ ~desk => ~(Len(box) > 1)
      BY <1>2, <2>1, <2>2
    <3> QED
      BY <1>1, <3>1 DEF BoxInv, NothingMixed
  <2>4. Entering'
    <3> SUFFICES ASSUME NEW i \in DOMAIN input', input'[i].k = "enter"
                 PROVE  /\ BoxOf({input[i].of, Human})'
                        /\ ~desk => Len(box') <= 1
                        /\ \A j \in DOMAIN input' : j < i => input'[j] = input'[i]
      BY <1>1 DEF Entering
    <3>1. /\ input'[i] = key
          /\ \A j \in DOMAIN input' : j < i => input'[j] = input'[i]
      <4>1. /\ 1 \in DOMAIN input /\ i + 1 \in DOMAIN input /\ 1 < i + 1
            /\ input'[i] = input[i + 1] /\ input[1] = key
        BY <1>3, <1>7
      <4>2. \A j \in DOMAIN input : j < i + 1 => input[j] = input[i + 1]
        BY <2>0, <4>1 DEF Entering
      <4>3. \A j \in DOMAIN input' : j < i => j + 1 \in DOMAIN input /\ j + 1 < i + 1 /\ input'[j] = input[j + 1]
        BY <1>3, <1>7
      <4> QED
        BY <4>1, <4>2, <4>3
    <3>2. (box' = box \/ box' = <<>>) /\ key.k = "enter"
      BY <1>5, <3>1
    <3>3. BoxOf({input[i].of, Human})'
      BY <2>1, <3>1, <3>2 DEF BoxOf
    <3>4. ~desk => Len(box') <= 1
      <4>1. CASE box' = box
        BY <2>1, <3>2, <4>1
      <4>2. CASE box' = <<>>
        <5>1. Len(box') = 0
          BY <4>2
        <5> QED
          BY <5>1
      <4> QED
        BY <3>2, <4>1, <4>2
    <3> QED
      BY <3>1, <3>3, <3>4
  <2>5. ASSUME NEW d \in Sends PROVE TextOK(d)'
    <3>0. Untyped(d) /\ Typing(d) /\ Submitting(d) /\ Committed(d)
      BY <2>0 DEF TextOK
    <3>1. key # TextKey(d) /\ key.k = "text" => key.of # d
      BY <1>3 DEF TextKey, KeyPress
    <3>2. key # TextKey(d) /\ NotInBox(d) => NotInBox(d)'
      BY <1>6, <3>1 DEF NotInBox
    <3>3. Untyped(d)'
      <4>1. CASE g[d].at \in Early
        <5>1. NotInBox(d) /\ \A i \in DOMAIN input : input[i] # TextKey(d)
          BY <3>0, <4>1 DEF Untyped
        <5>2. NotInBox(d)' /\ \A i \in DOMAIN input' : input'[i] # TextKey(d)
          BY <1>3, <1>7, <3>2, <5>1
        <5> QED
          BY <1>1, <5>2 DEF Untyped, TextKey
      <4>2. CASE g[d].at \notin Early
        BY <1>1, <4>2 DEF Untyped
      <4> QED
        BY <4>1, <4>2
    <3>4. Typing(d)'
      <4> SUFFICES ASSUME g[d].at = "verify", input' # <<>>
                   PROVE  /\ input'[Len(input')] = TextKey(d) /\ NotInBox(d)'
                          /\ \A i \in DOMAIN input' : i < Len(input') => input'[i] # TextKey(d)
        BY <1>1 DEF Typing, TextKey
      <4>1. Len(input') # 0
        BY <1>2 DEF Consume
      <4>2. 1 \in DOMAIN input /\ 1 < Len(input)
        BY <1>3, <4>1
      <4>3. /\ input[Len(input)] = TextKey(d) /\ NotInBox(d)
            /\ \A i \in DOMAIN input : i < Len(input) => input[i] # TextKey(d)
        BY <1>2, <3>0 DEF Typing
      <4>4. input'[Len(input')] = TextKey(d)
        BY <1>3, <4>2, <4>3
      <4>5. key # TextKey(d)
        BY <1>3, <4>2, <4>3
      <4>6. \A i \in DOMAIN input' : i < Len(input') => input'[i] # TextKey(d)
        BY <1>3, <4>3
      <4> QED
        BY <3>2, <4>3, <4>4, <4>5, <4>6
    <3>5. Submitting(d)'
      <4> SUFFICES ASSUME g[d].at \in Shown
                   PROVE  /\ \A i \in DOMAIN input' : input'[i] = EnterKey(d)
                          /\ BoxOf({d, Human})'
                          /\ ~desk => box' = <<d>> \/ (box' = <<>> /\ d \in went')
        BY <1>1 DEF Submitting, EnterKey
      <4>1. /\ \A i \in DOMAIN input : input[i] = EnterKey(d)
            /\ BoxOf({d, Human})
            /\ ~desk => box = <<d>> \/ (box = <<>> /\ d \in went)
        BY <3>0 DEF Submitting
      <4>2. key.k = "enter" /\ \A i \in DOMAIN input' : input'[i] = EnterKey(d)
        BY <1>3, <1>7, <4>1 DEF EnterKey
      <4>3. CASE box' = box
        <5>1. d \in went => d \in went'
          BY <1>1
        <5> QED
          BY <4>1, <4>2, <4>3, <5>1 DEF BoxOf
      <4>4. CASE submits /\ box' = <<>>
        <5>1. BoxOf({d, Human})'
          BY <4>4 DEF BoxOf
        <5>2. ~desk => d \in went'
          <6>1. box = <<d>> => d \in ToSet(box) /\ d # Human
            BY DEF ToSet
          <6> QED
            BY <1>1, <4>1, <4>4, <6>1
        <5> QED
          BY <4>2, <4>4, <5>1, <5>2
      <4> QED
        BY <1>5, <4>2, <4>3, <4>4
    <3>6. Committed(d)'
      <4>1. Touched(d)' => Touched(d)
        <5>1. ASSUME NEW i \in DOMAIN input', input'[i] = EnterKey(d) PROVE Touched(d)
          BY <1>7, <5>1 DEF Touched
        <5>2. ASSUME d \in went', d \notin went PROVE Touched(d)
          <6>1. submits /\ d \in ToSet(box)
            BY <1>1, <5>2
          <6>2. key.k = "enter" /\ d = key.of
            BY <2>1, <2>2, <6>1 DEF BoxOf, ToSet
          <6>3. key = EnterKey(d)
            BY <1>3, <6>2 DEF KeyPress, EnterKey
          <6>4. 1 \in DOMAIN input
            BY <1>3
          <6> QED
            BY <1>3, <6>3, <6>4 DEF Touched
        <5> QED
          BY <5>1, <5>2 DEF Touched, EnterKey
      <4> QED
        BY <1>1, <3>0, <4>1 DEF Committed
    <3> QED
      BY <3>3, <3>4, <3>5, <3>6 DEF TextOK
  <2> QED
    BY <2>3, <2>4, <2>5
<1>11. kit = "none" => NothingMixed'
  BY <1>1 DEF NothingMixed
<1> QED
  BY <1>1, <1>8, <1>9, <1>10, <1>11 DEF BoxInv

\* The screen and the people at it.
LEMMA WorldBox ==
    ASSUME WInv, BoxInv, DialogOpens \/ DialogCloses \/ DeskTypes \/ StartupEnds \/ \E lost \in BOOLEAN : Consume(lost)
    PROVE  BoxInv'
<1> USE SendsAssumption
<1>1. CASE DialogOpens \/ DialogCloses \/ StartupEnds
  <2>1. UNCHANGED <<state, kit, g, out, cleared, box, input, desk, went, mixed>>
    BY <1>1 DEF DialogOpens, DialogCloses, StartupEnds, Pane, vars
  <2>2. (\A d \in Sends : PlaceOK(d))' /\ NothingMixed' /\ SentIsSubmitted'
    BY <2>1 DEF BoxInv, PlaceOK, NothingMixed, SentIsSubmitted
  <2>3. kit # "none" => Entering' /\ \A d \in Sends : TextOK(d)'
    BY <2>1 DEF BoxInv, Entering, TextOK, Untyped, Typing, Submitting, Committed, Touched, BoxOf, NotInBox
  <2> QED
    BY <2>1, <2>2, <2>3 DEF BoxInv
<1>2. CASE DeskTypes
  <2>1. /\ UNCHANGED <<state, kit, g, out, cleared, input, went, mixed>> /\ desk' = TRUE
        /\ box' = Append(box, Human) /\ box \in Seq(Sends \cup {Human})
    BY <1>2 DEF DeskTypes, Pane, vars, WInv, ScreenOK
  <2>2. \A i \in DOMAIN box' : box'[i] = Human \/ \E j \in DOMAIN box : box'[i] = box[j]
    BY <2>1
  <2>3. (\A d \in Sends : PlaceOK(d))' /\ NothingMixed' /\ SentIsSubmitted'
    BY <2>1 DEF BoxInv, PlaceOK, NothingMixed, SentIsSubmitted
  <2>4. \A d \in Sends : NotInBox(d) => NotInBox(d)'
    BY <2>2 DEF NotInBox
  <2>5. \A d : BoxOf({d, Human}) => BoxOf({d, Human})'
    BY <2>2 DEF BoxOf
  <2>6. kit # "none" => Entering'
    BY <2>1, <2>5 DEF BoxInv, Entering
  <2>7. ASSUME kit # "none", NEW d \in Sends PROVE TextOK(d)'
    <3>1. Untyped(d) /\ Typing(d) /\ Submitting(d) /\ Committed(d)
      BY <2>7 DEF BoxInv, TextOK
    <3>2. Untyped(d)' /\ Typing(d)'
      BY <2>1, <2>4, <3>1 DEF Untyped, Typing, TextKey
    <3>3. Submitting(d)' /\ Committed(d)'
      BY <2>1, <2>5, <3>1 DEF Submitting, Committed, Touched, EnterKey
    <3> QED
      BY <3>2, <3>3 DEF TextOK
  <2> QED
    BY <2>1, <2>3, <2>6, <2>7 DEF BoxInv
<1> QED
  BY <1>1, <1>2, ConsumeBox

\* Nothing is typed at first.
LEMMA InitBox == WritesInit => BoxInv
<1> SUFFICES ASSUME WritesInit PROVE BoxInv
    OBVIOUS
<1>1. /\ box = <<>> /\ input = <<>> /\ went = {} /\ cleared = {} /\ mixed = FALSE
      /\ \A c \in Sends : g[c].at = "idle" /\ out[c] = "none"
  BY DEF WritesInit, Idle
<1>2. DOMAIN box = {} /\ DOMAIN input = {}
  BY <1>1
<1>3. Entering
  BY <1>2 DEF Entering
<1>4. ASSUME NEW c \in Sends PROVE PlaceOK(c) /\ TextOK(c)
  BY <1>1, <1>2 DEF PlaceOK, TextOK, Untyped, Typing, Submitting, Committed, Touched, NotInBox, Shown
<1> QED
  BY <1>1, <1>3, <1>4 DEF BoxInv, NothingMixed, SentIsSubmitted

\* Every step keeps what is said of the box.
LEMMA NextBox == TypeOK /\ MutualExclusion /\ WInv /\ BoxInv /\ [WritesNext]_wvars => BoxInv'
<1> SUFFICES ASSUME TypeOK, MutualExclusion, WInv, BoxInv, [WritesNext]_wvars PROVE BoxInv'
    OBVIOUS
<1>1. ASSUME NEW c \in Calls, Calling(c) PROVE BoxInv'
  BY <1>1, CallingBox
<1>2. ASSUME NEW c \in Sends, NEW ok \in BOOLEAN, Reads(c, ok) PROVE BoxInv'
  BY <1>2, EarlyLooksBox, VerifyBox, LateLooksBox DEF Reads
<1>3. ASSUME NEW c \in Sends, NEW res \in {"ok", "lost", "late"}, Writes(c, res) PROVE BoxInv'
  BY <1>3, EarlyWritesBox, SubmitKeysBox DEF Writes
<1>4. ASSUME NEW c \in Sends, Sweep(c, "short") PROVE BoxInv'
  BY <1>4, EarlyWritesBox
<1>5. ASSUME NEW c \in Sends, NEW n \in 0..2, OneShot(c, n) PROVE BoxInv'
  BY <1>5, OneShotBox
<1>6. CASE DialogOpens \/ DialogCloses \/ DeskTypes \/ StartupEnds \/ \E lost \in BOOLEAN : Consume(lost)
  BY <1>6, WorldBox
<1>7. CASE UNCHANGED wvars
  <2>1. UNCHANGED <<state, kit, g, out, cleared, box, input, desk, went, mixed>>
    BY <1>7 DEF wvars, vars, tui, hist
  <2>2. (\A d \in Sends : PlaceOK(d))' /\ NothingMixed' /\ SentIsSubmitted'
    BY <2>1 DEF BoxInv, PlaceOK, NothingMixed, SentIsSubmitted
  <2>3. kit # "none" => Entering' /\ \A d \in Sends : TextOK(d)'
    BY <2>1 DEF BoxInv, Entering, TextOK, Untyped, Typing, Submitting, Committed, Touched, BoxOf, NotInBox
  <2> QED
    BY <2>1, <2>2, <2>3 DEF BoxInv
<1> QED
  BY <1>1, <1>2, <1>3, <1>4, <1>5, <1>6, <1>7 DEF WritesNext

\* The invariant of the box holds of guarded-send.ts in its turns of the queue.
LEMMA BoxHolds == WritesSpec => []BoxInv
<1>1. WritesSpec => [](TypeOK /\ MutualExclusion)
  BY WritesImplementQueue, TypeCorrect, Exclusion, PTL
<1> QED
  BY <1>1, WritesInvariance, InitBox, NextBox, PTL DEF WritesSpec

\* A message is submitted alone (guarded-send.ts, the sweep and the look before the submit key): for
\* any sends, budgets and faults, except into what was typed at the desk.
THEOREM NothingEverMixed == WritesSpec => []NothingMixed
<1>1. BoxInv => NothingMixed
  BY DEF BoxInv
<1> QED
  BY <1>1, BoxHolds, PTL

\* A refused message is never submitted, by the sends behind it neither, so that it may be sent again.
THEOREM RefusedNeverEnters == WritesSpec => []RefusedStaysOut
<1>1. WInv /\ BoxInv => RefusedStaysOut
  <2> SUFFICES ASSUME WInv, BoxInv, kit # "none", NEW c \in went
               PROVE  out[c] \notin {"blocked", "stalled", "error", "busy"}
    BY DEF RefusedStaysOut
  <2>1. c \in Sends
    BY DEF WInv, ScreenOK
  <2>2. Committed(c) /\ PlaceOK(c) /\ Touched(c)
    BY <2>1 DEF BoxInv, TextOK, Touched
  <2>3. CASE g[c].at \in Shown
    <3>1. state[c] = "running"
      BY <2>1, <2>3, AtWork DEF Shown
    <3> QED
      BY <2>2, <2>3, <3>1 DEF PlaceOK, Shown
  <2>4. CASE out[c] \in {"sent", "delivered"}
    BY <2>4
  <2> QED
    BY <2>2, <2>3, <2>4 DEF Committed
<1> QED
  BY <1>1, BoxHolds, WritesInvariance, PTL

\* A send that saw its text leave the box was submitted (guarded-send.ts, submitClearedDraft).
THEOREM SentWasSubmitted == WritesSpec => []SentIsSubmitted
<1>1. BoxInv => SentIsSubmitted
  BY DEF BoxInv
<1> QED
  BY <1>1, BoxHolds, PTL
=============================================================================
