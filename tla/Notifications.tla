--------------------------- MODULE Notifications ----------------------------
(***************************************************************************)
(* bridge/notifications.ts: the coordinator's alerts, as operations on its *)
(* two maps: `pend`, alerts in their debounce, and `out`, alerts that are  *)
(* in the one summary the devices show.  Every change of `out` is emitted  *)
(* in the same step, so `out` is also what was last sent.                  *)
(***************************************************************************)

CONSTANT Panes

Notifiable == {"blocked", "done"}
Alerts == [pend : [Panes -> Notifiable \cup {"none"}], out : [Panes -> Notifiable \cup {"none"}]]

NoAlerts == [pend |-> [p \in Panes |-> "none"], out |-> [p \in Panes |-> "none"]]

\* resolve: the debounce of the panes S is cancelled, a delivered alert retracted.
Resolved(al, S) ==
  [pend |-> [p \in Panes |-> IF p \in S THEN "none" ELSE al.pend[p]],
   out |-> [p \in Panes |-> IF p \in S THEN "none" ELSE al.out[p]]]

\* As Transitioned, with an alert that is out retracted in place of a new one.
TransitionedOnce(al, prefs, S, to) ==
  LET a == Resolved(al, S)
  IN [a EXCEPT !.pend = [p \in Panes |-> IF p \in S /\ to[p] \in prefs /\ al.out[p] = "none"
                                         THEN to[p] ELSE @[p]]]

\* onTransition of the panes S to the statuses `to`, under the preferences of the moment.
Transitioned(al, prefs, S, to) ==
  LET a == Resolved(al, {p \in S : to[p] \notin prefs})
  IN [a EXCEPT !.pend = [p \in Panes |-> IF p \in S /\ to[p] \in prefs THEN to[p] ELSE @[p]]]

\* The debounce of p ends.
Fired(al, p) == [al EXCEPT !.pend[p] = "none", !.out[p] = al.pend[p]]

\* As AppliedPrefs, with the delivered alerts left alone.
AppliedPrefsPendOnly(al, prefs) ==
  [al EXCEPT !.pend = [p \in Panes |-> IF @[p] \in prefs THEN @[p] ELSE "none"]]

\* applyPrefs: alerts of a kind that is off now are dropped.
AppliedPrefs(al, prefs) ==
  [pend |-> [p \in Panes |-> IF al.pend[p] \in prefs THEN al.pend[p] ELSE "none"],
   out |-> [p \in Panes |-> IF al.out[p] \in prefs THEN al.out[p] ELSE "none"]]
=============================================================================
