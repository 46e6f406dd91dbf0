-------------------------- MODULE HerdWatchProofs --------------------------
(***************************************************************************)
(* The watch on the herd, for any panes, sniffers and bounds: no poke is   *)
(* lost, there is one event stream, no alert lingers and none is missed.   *)
(*                                                                         *)
(* The first is inductive as it stands.  The stream needs what its handles *)
(* are: a new one is free only as no socket is left behind.  The alerts    *)
(* need to know that a pane with a history (entered, cut) is in the herd:  *)
(* a pane that comes back starts with no alert.                            *)
(***************************************************************************)
EXTENDS HerdWatch, TLAPS

\* The types of the engine's and the poker's parts, which the published herd rests on.
HerdType ==
  /\ got \in [Panes -> Seen] /\ prev \in [Panes -> Seen] /\ agents \in [Panes -> Seen]
  /\ world \in [Panes -> Seen] /\ pk \in Poker

\* The types of the alerts' parts.
AlertType ==
  /\ al \in Alerts /\ prefs \subseteq Notifiable /\ entered \subseteq Panes /\ cut \subseteq Panes
  /\ unapplied \subseteq Panes

\* A pane whose last transition was to a kind that is on, or whose older alert stayed out, is in
\* the published herd.
HistoryIsPresent ==
  /\ \A p \in entered : prev[p] \in prefs
  /\ \A p \in cut : prev[p] # "gone"

StreamInv == HerdType /\ OneStream
AlertInv == AlertType /\ HistoryIsPresent /\ NoAlertLingers /\ NoAlertMissed

-----------------------------------------------------------------------------
(* Pokes. *)

\* The steps that neither poll nor poke leave the poll and the debt alone.
LEMMA PollIsTheEngines ==
  ASSUME \/ \E p \in Panes, s \in Seen : Change(p, s)
         \/ \E p \in Panes : Card(p) \/ Ripen(p) \/ Expire(p) \/ Alert(p)
         \/ StreamUp \/ ReconnectTimer \/ StableTimer \/ Event
         \/ \E why \in Refusals : StreamDown(why)
         \/ \E new \in SUBSET Notifiable : SetPrefs(new)
         \/ PrefsSaved \/ PrefsLost \/ UNCHANGED vars
  PROVE  UNCHANGED <<phase, queued, owe, covers>>
  BY DEF Change, Card, Ripen, Expire, Alert, StreamUp, ReconnectTimer, StableTimer, Event,
         StreamDown, SetPrefs, PrefsSaved, PrefsLost, Stream, engine, vars

\* Every step keeps the promise to a poke.
LEMMA NextPoke == PokeIsAnswered /\ [Next]_vars => PokeIsAnswered'
<1> SUFFICES ASSUME PokeIsAnswered, [Next]_vars PROVE PokeIsAnswered'
    OBVIOUS
<1>1. CASE Tick
  BY <1>1 DEF Tick, PokeIsAnswered
<1>2. ASSUME NEW S \in SUBSET Panes, Fetched(S) PROVE PokeIsAnswered'
  BY <1>2 DEF Fetched, PokeIsAnswered
<1>3. ASSUME NEW S \in SUBSET Panes, Compare(S) PROVE PokeIsAnswered'
  BY <1>3 DEF Compare, PokeIsAnswered
<1>4. CASE Publish
  BY <1>4 DEF Publish, PollEnds, PokeIsAnswered
<1>5. ASSUME NEW t \in BOOLEAN, PollFails(t) PROVE PokeIsAnswered'
  BY <1>5 DEF PollFails, PollEnds, PokeIsAnswered
<1>6. CASE Poke
  BY <1>6 DEF Poke, PokeNow, PokeIsAnswered
<1>7. CASE UNCHANGED <<phase, queued, owe, covers>>
  BY <1>7 DEF PokeIsAnswered
<1> QED
  BY <1>1, <1>2, <1>3, <1>4, <1>5, <1>6, <1>7, PollIsTheEngines DEF Next

\* A poke that met a poll in flight is answered by another one (pokeNow and the `finally` of
\* poll, bridge/state-engine.ts), for any number of panes, changes and failures.
THEOREM PokesAreAnswered == Spec => []PokeIsAnswered
<1>1. Init => PokeIsAnswered
  BY DEF Init, PokeIsAnswered
<1> QED
  BY <1>1, NextPoke, PTL DEF Spec

-----------------------------------------------------------------------------
(* The event stream. *)

\* What holds of the poker when its work is done: the one socket open is the stream, and a
\* reconnect is scheduled when there is none.
PokerOK(q) ==
  /\ q \in Poker
  /\ q.open = {q.stream} \ {0}
  /\ q.timer <=> q.stream = 0
  /\ q.stable => q.healthy

\* Connect, with no socket open, opens one and makes it the stream.
LEMMA ConnectOpensOne ==
  ASSUME NEW q \in Poker, q.open = {}, ~q.timer, q.stable => q.healthy
  PROVE  PokerOK(Connect(q)) /\ Connect(q).healthy = q.healthy
<1> DEFINE h == CHOOSE h \in Handles : h \notin q.open
<1>1. h \in Handles
  <2>1. \E x \in Handles : x \notin q.open
    BY DEF Handles
  <2> QED
    BY <2>1
<1>2. Connect(q) = [q EXCEPT !.stream = h, !.open = q.open \cup {h}, !.up = FALSE,
                             !.subs = q.panes \ q.droppedPanes]
  BY DEF Connect
<1> HIDE DEF h
<1>3. Connect(q) \in Poker
  <2>1. {h} \in SUBSET Handles /\ q.open \cup {h} = {h}
    BY <1>1
  <2> QED
    BY <1>1, <1>2, <2>1 DEF Poker
<1>4. /\ Connect(q).stream = h /\ Connect(q).open = {h} /\ Connect(q).timer = q.timer
      /\ Connect(q).stable = q.stable /\ Connect(q).healthy = q.healthy
  BY <1>2 DEF Poker
<1>5. h # 0
  BY <1>1 DEF Handles
<1> QED
  BY <1>3, <1>4, <1>5 DEF PokerOK

\* A stream that goes down is replaced at once or by the timer.
LEMMA DownReplaces ==
  ASSUME NEW q, PokerOK(q), q.stream # 0, NEW why, why.panes \subseteq Panes
  PROVE  PokerOK(OnDown(q, q.stream, why)) /\ ~OnDown(q, q.stream, why).healthy
<1> DEFINE a == [q EXCEPT !.open = q.open \ {q.stream}, !.stream = 0, !.up = FALSE,
                          !.stable = FALSE, !.healthy = FALSE]
<1>1. /\ a \in Poker /\ a.open = {} /\ ~a.timer /\ ~a.stable /\ ~a.healthy /\ a.stream = 0
  BY DEF PokerOK, Poker
<1>2. OnDown(q, q.stream, why) = IF NewlyDropped(a, why) THEN Connect(Forgotten(a, why))
                                 ELSE ScheduleReconnect(a)
  BY DEF OnDown
<1> HIDE DEF a
<1>3. /\ Forgotten(a, why) \in Poker
      /\ Forgotten(a, why).open = {} /\ ~Forgotten(a, why).timer /\ ~Forgotten(a, why).stable
      /\ ~Forgotten(a, why).healthy
  BY <1>1 DEF Forgotten, Poker
<1>4. PokerOK(ScheduleReconnect(a)) /\ ~ScheduleReconnect(a).healthy
  BY <1>1 DEF ScheduleReconnect, PokerOK, Poker
<1> QED
  BY <1>2, <1>3, <1>4, ConnectOpensOne

\* Subscribing anew lets go of the old stream and closes it, and keeps the health.
LEMMA SubscribesAnew ==
  ASSUME NEW q, PokerOK(q), NEW ids \in SUBSET Panes
  PROVE  PokerOK(SetAgentPanes(q, ids)) /\ SetAgentPanes(q, ids).healthy = q.healthy
<1>1. CASE ids = q.panes
  BY <1>1 DEF SetAgentPanes
<1>2. CASE ids # q.panes
  <2> DEFINE b == [q EXCEPT !.panes = ids]
             a == [b EXCEPT !.timer = FALSE, !.stream = 0]
             c == [a EXCEPT !.open = a.open \ {b.stream}]
  <2>1. /\ b \in Poker /\ b.stream = q.stream /\ b.open = q.open /\ b.stable = q.stable
        /\ b.healthy = q.healthy
    BY DEF PokerOK, Poker
  <2>2. SetAgentPanes(q, ids) = Reconnect(b)
    BY <1>2 DEF SetAgentPanes
  <2>3. Reconnect(b) = Connect(IF b.stream = 0 THEN a ELSE OnDown(a, b.stream, Lost))
    BY DEF Reconnect
  <2> HIDE DEF b
  <2>4. /\ a \in Poker /\ a.open = q.open /\ a.stable = q.stable /\ a.healthy = q.healthy
        /\ ~a.timer /\ a.stream = 0
    BY <2>1 DEF Poker
  <2>5. b.stream # 0 => OnDown(a, b.stream, Lost) = c
    BY <2>4 DEF OnDown
  <2> HIDE DEF a
  <2>6. /\ c \in Poker /\ c.open = q.open \ {q.stream} /\ c.stable = q.stable
        /\ c.healthy = q.healthy /\ ~c.timer
    BY <2>1, <2>4 DEF Poker
  <2> HIDE DEF c
  <2>7. CASE q.stream = 0
    <3>1. a.open = {}
      BY <2>4, <2>7 DEF PokerOK
    <3> QED
      BY <2>1, <2>2, <2>3, <2>4, <2>7, <3>1, ConnectOpensOne DEF PokerOK
  <2>8. CASE q.stream # 0
    <3>1. c.open = {}
      BY <2>6 DEF PokerOK
    <3> QED
      BY <2>1, <2>2, <2>3, <2>5, <2>6, <2>8, <3>1, ConnectOpensOne DEF PokerOK
  <2> QED
    BY <2>7, <2>8
<1> QED
  BY <1>1, <1>2

\* The poker of the first state has its stream.
LEMMA FirstStream == Init => PokerOK(pk)
<1> DEFINE q == [stream |-> 0, open |-> {}, up |-> FALSE, healthy |-> FALSE,
                 backedOff |-> FALSE, stable |-> FALSE, timer |-> FALSE, panes |-> {},
                 subs |-> {}, droppedPanes |-> {}, droppedType |-> FALSE]
<1>1. q \in Poker /\ q.open = {} /\ ~q.timer /\ ~q.stable
  BY DEF Poker, Handles
<1> HIDE DEF q
<1>2. PokerOK(Connect(q))
  BY <1>1, ConnectOpensOne
<1> QED
  BY <1>2 DEF Init, q

\* The cadence is relaxed only with a healthy stream and a herd at rest.
LEMMA CadenceRests ==
  ASSUME NEW b \in BOOLEAN, NEW herd \in [Panes -> Seen], EngineCadence(b, herd) = "idle"
  PROVE  b /\ \A p \in Panes : herd[p] \in {"done", "gone"}
  BY DEF EngineCadence, Seen, Status

\* A step of the stream alone.
LEMMA StreamStep ==
  ASSUME StreamInv, NEW q, PokerOK(q), Stream(q)
  PROVE  StreamInv'
<1>1. HerdType'
  BY DEF StreamInv, HerdType, Stream, PokerOK
<1>2. cadence' = "idle" => q.healthy /\ \A p \in Panes : agents[p] \in {"done", "gone"}
  <2>1. CASE q.healthy = pk.healthy
    BY <2>1 DEF Stream, StreamInv, OneStream
  <2>2. CASE q.healthy # pk.healthy
    BY <2>2, CadenceRests DEF Stream, StreamInv, HerdType, PokerOK, Poker
  <2> QED
    BY <2>1, <2>2
<1> QED
  BY <1>1, <1>2 DEF StreamInv, OneStream, Stream, PokerOK

\* The herd as a poll compares it is typed.
LEMMA HeldType ==
  ASSUME NEW raw \in [Panes -> Seen]
  PROVE  /\ [p \in Panes |-> Held(raw)[p].status] \in [Panes -> Seen]
         /\ [p \in Panes |-> Held(raw)[p].hold] \in [Panes -> {"no", "young", "ripe"}]
<1>1. ASSUME NEW p \in Panes
      PROVE  Held(raw)[p].status \in Seen /\ Held(raw)[p].hold \in {"no", "young", "ripe"}
  <2>1. Held(raw)[p] = IF prev[p] = "working" /\ raw[p] = "done"
                       THEN IF hold[p] = "ripe" THEN [status |-> "done", hold |-> "no"]
                            ELSE [status |-> "working", hold |-> "young"]
                       ELSE [status |-> raw[p], hold |-> "no"]
    BY DEF Held
  <2> QED
    BY <2>1 DEF Seen, Status
<1> QED
  BY <1>1

\* Comparing types the herd.
LEMMA CompareHerd ==
  ASSUME HerdType, NEW S \in SUBSET Panes, Compare(S)
  PROVE  got' \in [Panes -> Seen] /\ prev' = got'
<1> DEFINE raw == [p \in Panes |-> IF Sniffed(S)[p] = "dialog" THEN "blocked" ELSE got[p]]
<1>1. raw \in [Panes -> Seen]
  BY DEF HerdType, Seen, Status
<1>2. got' = [p \in Panes |-> Held(raw)[p].status] /\ prev' = got'
  BY DEF Compare
<1> HIDE DEF raw
<1> QED
  BY <1>1, <1>2, HeldType

\* Publishing follows the herd with the stream, and then with the cadence.
LEMMA PublishStream == StreamInv /\ Publish => StreamInv'
<1> SUFFICES ASSUME StreamInv, Publish PROVE StreamInv'
    OBVIOUS
<1>1. PokerOK(pk)
  BY DEF StreamInv, HerdType, OneStream, PokerOK
<1>2. PokerOK(pk')
  BY <1>1, SubscribesAnew DEF Publish, Live
<1>3. HerdType'
  BY <1>2 DEF StreamInv, HerdType, Publish, PokerOK, Seen
<1>4. cadence' = "idle" => pk'.healthy /\ \A p \in Panes : agents'[p] \in {"done", "gone"}
  BY <1>2, CadenceRests DEF Publish, StreamInv, HerdType, PokerOK, Poker
<1> QED
  BY <1>2, <1>3, <1>4 DEF StreamInv, OneStream, PokerOK

\* Every step keeps one stream.
LEMMA NextStream == StreamInv /\ [Next]_vars => StreamInv'
<1> SUFFICES ASSUME StreamInv, [Next]_vars PROVE StreamInv'
    OBVIOUS
<1>0. PokerOK(pk)
  BY DEF StreamInv, HerdType, OneStream, PokerOK
<1>1. ASSUME NEW p \in Panes, NEW s \in Seen, Change(p, s) PROVE StreamInv'
  BY <1>1 DEF Change, engine, StreamInv, HerdType, OneStream
<1>2. ASSUME NEW p \in Panes, Card(p) \/ Ripen(p) \/ Expire(p) \/ Alert(p) PROVE StreamInv'
  BY <1>2 DEF Card, Ripen, Expire, Alert, engine, StreamInv, HerdType, OneStream
<1>3. CASE Tick \/ Event \/ Poke \/ PrefsSaved \/ PrefsLost \/ UNCHANGED vars
  BY <1>3 DEF Tick, Event, Poke, PrefsSaved, PrefsLost, vars, engine, StreamInv, HerdType, OneStream
<1>4. ASSUME NEW new, SetPrefs(new) PROVE StreamInv'
  BY <1>4 DEF SetPrefs, engine, StreamInv, HerdType, OneStream
<1>5. ASSUME NEW S \in SUBSET Panes, Fetched(S) PROVE StreamInv'
  BY <1>5 DEF Fetched, StreamInv, HerdType, OneStream, Seen
<1>6. ASSUME NEW S \in SUBSET Panes, Compare(S) PROVE StreamInv'
  <2>1. UNCHANGED <<agents, world, pk, cadence>>
    BY <1>6 DEF Compare
  <2> QED
    BY <1>6, <2>1, CompareHerd DEF StreamInv, HerdType, OneStream
<1>7. CASE Publish
  BY <1>7, PublishStream
<1>8. ASSUME NEW t \in BOOLEAN, PollFails(t) PROVE StreamInv'
  BY <1>8 DEF PollFails, StreamInv, HerdType, OneStream
<1>9. CASE StreamUp
  <2>1. PokerOK(OnUp(pk))
    BY <1>0, <1>9 DEF StreamUp, OnUp, PokerOK, Poker
  <2> QED
    BY <1>9, <2>1, StreamStep DEF StreamUp
<1>10. CASE StableTimer
  <2>1. PokerOK(OnStable(pk))
    BY <1>0, <1>10 DEF OnStable, PokerOK, Poker
  <2> QED
    BY <1>10, <2>1, StreamStep DEF StableTimer
<1>11. CASE ReconnectTimer
  <2> DEFINE a == [pk EXCEPT !.timer = FALSE]
  <2>1. a \in Poker /\ a.open = {} /\ ~a.timer /\ (a.stable => a.healthy)
    BY <1>0, <1>11 DEF ReconnectTimer, PokerOK, Poker
  <2>2. OnReconnectTimer(pk) = Connect(a)
    BY DEF OnReconnectTimer
  <2> HIDE DEF a
  <2> QED
    BY <1>11, <2>1, <2>2, ConnectOpensOne, StreamStep DEF ReconnectTimer
<1>12. ASSUME NEW why \in Refusals, StreamDown(why) PROVE StreamInv'
  <2>1. why.panes \subseteq Panes
    BY <1>0 DEF Refusals, Lost, PokerOK, Poker
  <2> QED
    BY <1>0, <1>12, <2>1, DownReplaces, StreamStep DEF StreamDown
<1> QED
  BY <1>1, <1>2, <1>3, <1>4, <1>5, <1>6, <1>7, <1>8, <1>9, <1>10, <1>11, <1>12 DEF Next

\* The first state has its stream, and a herd of nobody.
LEMMA InitStream == Init => StreamInv
<1> SUFFICES ASSUME Init PROVE StreamInv
    OBVIOUS
<1>1. PokerOK(pk)
  BY FirstStream
<1>2. HerdType
  BY <1>1 DEF Init, HerdType, PokerOK, Seen, Status
<1> QED
  BY <1>1, <1>2 DEF Init, StreamInv, OneStream, PokerOK

\* One event stream at a time (connect, onDown, reconnect and the timers of
\* bridge/event-poker.ts), and a cadence that follows it (bridge/index.ts).
THEOREM OneStreamAtATime == Spec => []OneStream
<1>1. Init => StreamInv
  BY InitStream
<1>2. StreamInv => OneStream
  BY DEF StreamInv
<1> QED
  BY <1>1, <1>2, NextStream, PTL DEF Spec

-----------------------------------------------------------------------------
(* The alerts. *)

\* In a comparison a pane of the herd moved, or is gone from it.
Moved(p) == prev[p] # "gone" /\ prev'[p] \notin {"gone", prev[p]}
Removed(p) == prev[p] # "gone" /\ prev'[p] = "gone"

\* What a comparison does to one pane: it moved, it is gone, or all about it stays.
LEMMA CompareAlerts ==
  ASSUME HerdType, AlertType, NEW S \in SUBSET Panes, Compare(S), NEW p \in Panes
  PROVE  /\ al' \in Alerts /\ entered' \subseteq Panes /\ cut' \subseteq Panes /\ unapplied' \subseteq Panes
         /\ al'.pend[p] = IF Removed(p) THEN "none" ELSE IF ~Moved(p) THEN al.pend[p]
                          ELSE IF prev'[p] \in prefs THEN prev'[p] ELSE "none"
         /\ al'.out[p] = IF Removed(p) THEN "none"
                         ELSE IF Moved(p) /\ prev'[p] \notin prefs THEN "none" ELSE al.out[p]
         /\ (p \in entered') <=> ((p \in entered /\ ~Moved(p) /\ ~Removed(p))
                                \/ (Moved(p) /\ prev'[p] \in prefs))
         /\ (p \in cut') <=> (p \in cut /\ ~Moved(p) /\ ~Removed(p))
         /\ (p \in unapplied') <=> (p \in unapplied /\ ~Removed(p) /\ ~(Moved(p) /\ prev'[p] \notin prefs))
<1> DEFINE new == prev'
           M == {x \in Panes : prev[x] # "gone" /\ new[x] \notin {"gone", prev[x]}}
           R == {x \in Panes : prev[x] # "gone" /\ new[x] = "gone"}
           off == {x \in M : new[x] \notin prefs}
           a == Resolved(al, off)
           b == Transitioned(al, prefs, M, new)
<1>1. new \in [Panes -> Seen]
  BY CompareHerd
<1>2. /\ al' = Resolved(b, R)
      /\ entered' = (entered \ (M \cup R)) \cup {x \in M : new[x] \in prefs}
      /\ cut' = cut \ (M \cup R)
      /\ unapplied' = unapplied \ (R \cup off)
  BY DEF Compare
<1>3. a \in Alerts /\ \A x \in Panes : /\ a.pend[x] = IF x \in off THEN "none" ELSE al.pend[x]
                                       /\ a.out[x] = IF x \in off THEN "none" ELSE al.out[x]
  BY DEF AlertType, Alerts, Resolved
<1>4. b = [a EXCEPT !.pend = [x \in Panes |-> IF x \in M /\ new[x] \in prefs THEN new[x] ELSE a.pend[x]]]
  BY DEF Transitioned
<1> HIDE DEF a, b, new
<1>5. b \in Alerts /\ \A x \in Panes : /\ b.pend[x] = IF x \in M /\ new[x] \in prefs THEN new[x] ELSE a.pend[x]
                                       /\ b.out[x] = a.out[x]
  BY <1>1, <1>3, <1>4 DEF AlertType, Alerts
<1>6. al' \in Alerts /\ al'.pend[p] = (IF p \in R THEN "none" ELSE b.pend[p])
                     /\ al'.out[p] = (IF p \in R THEN "none" ELSE b.out[p])
  BY <1>2, <1>5 DEF Alerts, Resolved
<1>7. (p \in M <=> Moved(p)) /\ (p \in R <=> Removed(p)) /\ ~(Moved(p) /\ Removed(p))
      /\ (p \in off <=> Moved(p) /\ new[p] \notin prefs) /\ M \subseteq Panes
  BY DEF Moved, Removed, new
<1> HIDE DEF M, R, off
<1>8. entered' \subseteq Panes /\ cut' \subseteq Panes /\ unapplied' \subseteq Panes
  BY <1>2, <1>7 DEF AlertType
<1>9. /\ (p \in entered') <=> ((p \in entered /\ ~Moved(p) /\ ~Removed(p))
                             \/ (Moved(p) /\ new[p] \in prefs))
      /\ (p \in cut') <=> (p \in cut /\ ~Moved(p) /\ ~Removed(p))
      /\ (p \in unapplied') <=> (p \in unapplied /\ ~Removed(p) /\ ~(Moved(p) /\ new[p] \notin prefs))
  BY <1>2, <1>7
<1>10. /\ al'.pend[p] = IF Removed(p) THEN "none" ELSE IF ~Moved(p) THEN al.pend[p]
                        ELSE IF new[p] \in prefs THEN new[p] ELSE "none"
       /\ al'.out[p] = IF Removed(p) THEN "none"
                       ELSE IF Moved(p) /\ new[p] \notin prefs THEN "none" ELSE al.out[p]
  BY <1>3, <1>5, <1>6, <1>7
<1> QED
  BY <1>6, <1>8, <1>9, <1>10 DEF new

\* The alerts keep what they promise in a comparison.
LEMMA CompareKeeps ==
  ASSUME HerdType, AlertInv, NEW S \in SUBSET Panes, Compare(S)
  PROVE  AlertInv'
<1> USE DEF AlertInv
<1>1. prev \in [Panes -> Seen] /\ prev' \in [Panes -> Seen] /\ UNCHANGED <<prefs, saving>>
  BY CompareHerd DEF HerdType, Compare
<1>2. AlertType'
  <2>1. CASE Panes = {}
    BY <2>1 DEF AlertType, Alerts, Compare, Resolved
  <2>2. CASE Panes # {}
    BY <1>1, <2>2, CompareAlerts DEF AlertType
  <2> QED
    BY <2>1, <2>2
<1>3. ASSUME NEW p \in Panes
      PROVE  /\ p \in entered' => prev'[p] \in prefs
             /\ p \in cut' => prev'[p] # "gone"
             /\ al'.pend[p] # "none" => al'.pend[p] = prev'[p]
             /\ al'.out[p] # "none" /\ p \notin cut' => prev'[p] \in {al'.out[p], al'.pend[p]}
             /\ ~saving /\ p \notin unapplied' => {al'.pend[p], al'.out[p]} \subseteq prefs \cup {"none"}
             /\ p \in entered' /\ prev'[p] \in prefs => prev'[p] \in {al'.out[p], al'.pend[p]}
  <2>0. al.pend[p] \in Notifiable \cup {"none"} /\ al.out[p] \in Notifiable \cup {"none"} /\ prefs \subseteq Notifiable
    BY DEF AlertType, Alerts
  <2>1. CASE Moved(p)
    <3>1. ~Removed(p) /\ prev'[p] # "gone"
      BY <2>1 DEF Moved, Removed
    <3> QED
      BY <2>0, <2>1, <3>1, CompareAlerts DEF NoAlertLingers, OfKindsOn
  <2>2. CASE Removed(p)
    <3>1. ~Moved(p)
      BY <2>2 DEF Moved, Removed
    <3> QED
      BY <2>2, <3>1, CompareAlerts
  <2>3. CASE ~Moved(p) /\ ~Removed(p)
    <3>1. prev'[p] = prev[p] \/ prev[p] = "gone"
      BY <2>3 DEF Moved, Removed
    <3>2. prev[p] = "gone" => al.pend[p] = "none" /\ al.out[p] = "none" /\ p \notin entered /\ p \notin cut
      BY <2>0 DEF NoAlertLingers, OfKindsOn, HistoryIsPresent, Notifiable
    <3>3. /\ al'.pend[p] = al.pend[p] /\ al'.out[p] = al.out[p]
          /\ p \in entered' <=> p \in entered
          /\ p \in cut' <=> p \in cut
          /\ p \in unapplied' <=> p \in unapplied
      BY <2>3, CompareAlerts
    <3> QED
      BY <3>1, <3>2, <3>3 DEF NoAlertLingers, OfKindsOn, NoAlertMissed, HistoryIsPresent
  <2> QED
    BY <2>1, <2>2, <2>3
<1> QED
  BY <1>1, <1>2, <1>3 DEF AlertType, NoAlertLingers, OfKindsOn, NoAlertMissed, HistoryIsPresent

\* Every step keeps the alerts true to the published herd.
LEMMA NextAlert == HerdType /\ AlertInv /\ [Next]_vars => AlertInv'
<1> SUFFICES ASSUME HerdType, AlertInv, [Next]_vars PROVE AlertInv'
    OBVIOUS
<1> USE DEF AlertInv
<1>0. ASSUME UNCHANGED <<prev, al, prefs, saving, entered, cut, unapplied>> PROVE AlertInv'
  BY <1>0 DEF AlertType, HistoryIsPresent, NoAlertLingers, OfKindsOn, NoAlertMissed
<1>1. ASSUME NEW p \in Panes, NEW s \in Seen, Change(p, s) PROVE AlertInv'
  BY <1>0, <1>1 DEF Change, engine
<1>2. ASSUME NEW p \in Panes, Card(p) \/ Ripen(p) \/ Expire(p) PROVE AlertInv'
  BY <1>0, <1>2 DEF Card, Ripen, Expire, engine
<1>3. CASE Tick \/ Event \/ Poke \/ Publish \/ UNCHANGED vars
  BY <1>0, <1>3 DEF Tick, Event, Poke, Publish, vars, engine
<1>4. CASE StreamUp \/ ReconnectTimer \/ StableTimer \/ \E why \in Refusals : StreamDown(why)
  BY <1>0, <1>4 DEF StreamUp, ReconnectTimer, StableTimer, StreamDown, Stream
<1>5. ASSUME NEW S \in SUBSET Panes, Fetched(S) PROVE AlertInv'
  BY <1>0, <1>5 DEF Fetched
<1>6. ASSUME NEW t \in BOOLEAN, PollFails(t) PROVE AlertInv'
  BY <1>0, <1>6 DEF PollFails
<1>7. ASSUME NEW S \in SUBSET Panes, Compare(S) PROVE AlertInv'
  BY <1>7, CompareKeeps
<1>8. ASSUME NEW p \in Panes, Alert(p) PROVE AlertInv'
  <2>1. /\ al' \in Alerts /\ UNCHANGED <<prev, prefs, saving, entered, cut>>
        /\ \A x \in Panes : al'.pend[x] = (IF x = p THEN "none" ELSE al.pend[x])
                          /\ al'.out[x] = (IF x = p THEN al.pend[x] ELSE al.out[x])
        /\ unapplied' = IF al.pend[p] \in prefs THEN unapplied \ {p} ELSE unapplied
    BY <1>8 DEF Alert, Fired, AlertType, Alerts, engine
  <2>2. /\ al.pend[p] = prev[p] /\ al.pend[p] # "none"
        /\ ~saving /\ p \notin unapplied => al.pend[p] \in prefs
    BY <1>8 DEF Alert, NoAlertLingers, OfKindsOn
  <2> QED
    BY <2>1, <2>2 DEF AlertType, HistoryIsPresent, NoAlertLingers, OfKindsOn, NoAlertMissed
<1>9. ASSUME NEW new \in SUBSET Notifiable, SetPrefs(new) PROVE AlertInv'
  BY <1>9 DEF SetPrefs, engine, AlertType, HistoryIsPresent, NoAlertLingers, OfKindsOn, NoAlertMissed
<1>10. CASE PrefsSaved
  <2>1. /\ al' \in Alerts /\ UNCHANGED <<prev, prefs, entered>>
        /\ \A x \in Panes : al'.pend[x] = (IF al.pend[x] \in prefs THEN al.pend[x] ELSE "none")
                          /\ al'.out[x] = (IF al.out[x] \in prefs THEN al.out[x] ELSE "none")
        /\ cut' = cut \cup {x \in Panes : al.pend[x] \in Notifiable \ prefs /\ al.out[x] # "none"}
        /\ unapplied' = {}
    BY <1>10 DEF PrefsSaved, AppliedPrefs, AlertType, Alerts, engine
  <2>2. \A x \in Panes : /\ al.pend[x] \in Notifiable \cup {"none"} /\ prev[x] \in Seen
                         /\ "none" \notin prefs
    BY DEF AlertType, Alerts, HerdType, Notifiable
  <2>3. AlertType'
    BY <2>1 DEF AlertType
  <2>4. NoAlertMissed' /\ HistoryIsPresent'
    BY <2>1, <2>2 DEF NoAlertLingers, OfKindsOn, NoAlertMissed, HistoryIsPresent, Notifiable, AlertType
  <2>5. NoAlertLingers'
    BY <2>1, <2>2 DEF NoAlertLingers, OfKindsOn, Notifiable, Seen, Status
  <2> QED
    BY <2>3, <2>4, <2>5
<1>11. CASE PrefsLost
  <2>1. /\ UNCHANGED <<prev, al, prefs, entered, cut>>
        /\ unapplied' = {x \in Panes : ~OfKindsOn(x)}
    BY <1>11 DEF PrefsLost, engine
  <2> QED
    BY <2>1 DEF AlertType, HistoryIsPresent, NoAlertLingers, NoAlertMissed, OfKindsOn
<1> QED
  BY <1>1, <1>2, <1>3, <1>4, <1>5, <1>6, <1>7, <1>8, <1>9, <1>10, <1>11 DEF Next

\* The first state has no alert and no history.
LEMMA InitAlert == Init => AlertInv
  BY DEF Init, AlertInv, AlertType, Alerts, NoAlerts, HistoryIsPresent, NoAlertLingers, OfKindsOn, NoAlertMissed

\* The inductive invariant of the alerts, beside the one of the stream.
LEMMA WatchInvariant == Spec => [](StreamInv /\ AlertInv)
<1>1. StreamInv => HerdType
  BY DEF StreamInv
<1> QED
  BY <1>1, InitStream, InitAlert, NextStream, NextAlert, PTL DEF Spec

\* What the devices show, or are about to, is the status the engine published last
\* (onTransition, resolve and applyPrefs of bridge/notifications.ts), for any panes and however
\* transitions, debounces, a preference being saved and a save that fails interleave.
THEOREM AlertsNeverLinger == Spec => []NoAlertLingers
<1>1. AlertInv => NoAlertLingers
  BY DEF AlertInv
<1> QED
  BY <1>1, WatchInvariant, PTL

\* ... and a pane that came to a notifiable status, and stayed, is shown or about to be.
THEOREM AlertsNeverMissed == Spec => []NoAlertMissed
<1>1. AlertInv => NoAlertMissed
  BY DEF AlertInv
<1> QED
  BY <1>1, WatchInvariant, PTL
=============================================================================
