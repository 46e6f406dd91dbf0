---------------------------- MODULE GuardedSend -----------------------------
(***************************************************************************)
(* The guarded send (shared/harness/guarded-send.ts with the bridge's I/O, *)
(* bridge/guarded-send-route.ts) in its turn of the pane's write queue:    *)
(* look for the composer, clear a stranded draft, type, look for the text, *)
(* press submit, look that it left, press once more.                       *)
(*                                                                         *)
(* An acknowledged write means that Herdr took the bytes: they wait in     *)
(* `input` until the terminal program acts on them, on the screen it then  *)
(* shows.  The box holds one item per send typed into it, Human for what   *)
(* was typed at the desk; two sends never carry the same text.             *)
(***************************************************************************)
EXTENDS PaneQueue, Integers, Sequences, FiniteSets, SequencesExt

CONSTANTS
  Sends,        \* the calls that are guarded sends, all on one pane
  Kits,         \* the harness: "plain", "held" (Pi: submitHeld), "none" (no adapter)
  Human,
  PollAttempts, \* io.pollAttempts
  HeldReads,    \* the reads of SUBMIT_HELD_WAIT_MS
  MaxPresses,   \* MAX_HELD_PRESSES
  MaxTroubles   \* bound on dialogs, typing at the desk, failed calls, lost keys and short sweeps

ASSUME SendsAssumption ==
  /\ Sends \subseteq Calls /\ Human \notin Calls
  /\ \A c, d \in Sends : KeyOf[c] = KeyOf[d]
  /\ Kits \subseteq {"plain", "held", "none"}
  /\ PollAttempts \in Nat \ {0} /\ HeldReads \in Nat /\ MaxPresses \in Nat \ {0}
  /\ MaxTroubles \in Nat

VARIABLES
  kit,
  startup,   \* the harness holds a submit (Pi's startup)
  dialog,    \* a dialog or menu has the keyboard; the composer is not on screen
  box,       \* what the input box holds
  input,     \* keys the terminal program has not acted on
  g,         \* per send: where it is, the draft it saw, reads left, held reads left, presses, "held" seen
  out,       \* per send, its outcome
  \* History.
  sight,     \* the send whose text the last look showed, alone in a box on screen
  desk,      \* somebody typed at the desk
  went,      \* the sends whose text was submitted
  mixed,     \* a submission was more than one send's text
  blind,     \* a submit key went out that the last look did not allow
  cleared,   \* the sends that saw their text leave a box that was on screen
  troubles

tui == <<startup, dialog, box, input>>
hist == <<sight, desk, went, mixed, blind, cleared>>
wvars == <<vars, kit, tui, g, out, hist, troubles>>

Idle == [at |-> "idle", draft |-> 0, polls |-> 0, budget |-> 0, pressed |-> 0, last |-> FALSE]
Places == {"idle", "oneShot", "preflight", "sweep", "reconfirm", "type", "verify", "submit",
           "confirm", "rescue", "hold", "press", "heldConfirm", "over"}
Outcomes == {"none", "sent", "blocked", "stalled", "error", "delivered", "busy"}
KeyPress == [k : {"text", "enter"}, of : Sends] \cup [k : {"sweep"}, of : Nat]

\* Every variable keeps its type: reads and presses stay within their budgets, and only
\* the function that has the pane's turn is at work.
WritesTypeOK ==
  /\ kit \in Kits /\ startup \in BOOLEAN /\ dialog \in BOOLEAN
  /\ box \in Seq(Sends \cup {Human}) /\ input \in Seq(KeyPress)
  /\ g \in [Sends -> [at : Places, draft : Nat, polls : 0..PollAttempts, budget : 0..HeldReads,
                      pressed : 0..MaxPresses, last : BOOLEAN]]
  /\ out \in [Sends -> Outcomes]
  /\ {desk, mixed, blind} \subseteq BOOLEAN /\ sight \in Sends \cup {NoCall}
  /\ went \subseteq Sends /\ cleared \subseteq Sends /\ troubles \in 0..MaxTroubles
  /\ \A c \in Sends : g[c].at \notin {"idle", "over"} => state[c] = "running"

WritesInit ==
  /\ Init /\ kit \in Kits /\ startup = (kit = "held") /\ dialog = FALSE
  /\ box = <<>> /\ input = <<>>
  /\ g = [c \in Sends |-> Idle] /\ out = [c \in Sends |-> "none"]
  /\ sight = NoCall /\ desk = FALSE /\ went = {} /\ mixed = FALSE /\ blind = FALSE
  /\ cleared = {} /\ troubles = 0

Trouble == troubles < MaxTroubles /\ troubles' = troubles + 1
Unless(ok) == IF ok THEN UNCHANGED troubles ELSE Trouble

-----------------------------------------------------------------------------
(* The pane. *)

Pane == UNCHANGED <<vars, kit, g, out, cleared, sight, blind>>

DialogOpens ==
  /\ Pane /\ Trouble /\ ~dialog /\ dialog' = TRUE
  /\ UNCHANGED <<startup, box, input, desk, went, mixed>>

DialogCloses ==
  /\ Pane /\ dialog /\ dialog' = FALSE
  /\ UNCHANGED <<startup, box, input, desk, went, mixed, troubles>>

DeskTypes ==
  /\ Pane /\ Trouble /\ ~dialog /\ box' = Append(box, Human) /\ desk' = TRUE
  /\ UNCHANGED <<startup, dialog, input, went, mixed>>

StartupEnds ==
  /\ Pane /\ startup /\ startup' = FALSE
  /\ UNCHANGED <<dialog, box, input, desk, went, mixed, troubles>>

\* The program acts on the next key.  A dialog eats text and is answered by a submit key;
\* a held or `lost` one leaves the text in the box.
Consume(lost) ==
  /\ Pane /\ input # <<>> /\ input' = Tail(input)
  /\ LET key == Head(input)
         submits == key.k = "enter" /\ ~dialog /\ ~startup /\ ~lost
     IN /\ lost => key.k = "enter" /\ ~dialog /\ Trouble
        /\ ~lost => UNCHANGED troubles
        /\ dialog' = (dialog /\ key.k # "enter")
        /\ box' = CASE dialog -> box
                    [] ~dialog /\ key.k = "text" -> Append(box, key.of)
                    [] ~dialog /\ key.k = "sweep" ->
                         SubSeq(box, 1, IF Len(box) > key.of THEN Len(box) - key.of ELSE 0)
                    [] OTHER -> IF submits THEN <<>> ELSE box
        /\ went' = IF submits THEN went \cup (ToSet(box) \ {Human}) ELSE went
        /\ mixed' = (mixed \/ (submits /\ Len(box) > 1))
  /\ UNCHANGED <<startup, desk>>

-----------------------------------------------------------------------------
(* The queue's turns. *)

Turn == UNCHANGED <<kit, tui, hist, troubles>>

Arrives(c) == Arrive(c) /\ Turn /\ UNCHANGED <<g, out>>
Settles(c) == Settle(c) /\ Turn /\ UNCHANGED <<g, out>>

\* runGuardedSend begins: without an adapter it is one shot.
Begins(c) ==
  /\ Begin(c) /\ Turn /\ UNCHANGED out
  /\ g' = IF c \in Sends THEN [g EXCEPT ![c].at = IF kit = "none" THEN "oneShot" ELSE "preflight"]
          ELSE g

\* PaneBusyError: nothing was typed.
GivesUp(c) ==
  /\ GiveUp(c) /\ Turn /\ UNCHANGED g
  /\ out' = IF c \in Sends THEN [out EXCEPT ![c] = "busy"] ELSE out

Ends(c) ==
  /\ c \in Sends => g[c].at = "over"
  /\ End(c) /\ Turn /\ UNCHANGED <<g, out>>

-----------------------------------------------------------------------------
(* The guard. *)

Guard == UNCHANGED <<vars, kit, startup, dialog, box, desk, went, mixed>>
Go(c, at) == g' = [g EXCEPT ![c].at = at] /\ UNCHANGED <<out, cleared>>
Watch(c, at) == g' = [g EXCEPT ![c].at = at, ![c].polls = PollAttempts] /\ UNCHANGED <<out, cleared>>
Over(c, outcome) ==
  g' = [g EXCEPT ![c] = [Idle EXCEPT !.at = "over"]] /\ out' = [out EXCEPT ![c] = outcome]

\* As Holds, when the text is somewhere in the box.
HoldsAmong(c) == ~dialog /\ c \in ToSet(box)

\* boxHoldsSend on the screen of now: the composer is up and holds this text alone.
\* draftCarriesSend: all that is visible in the box is part of what was sent.
Holds(c) == ~dialog /\ box = <<c>>

\* A live read of send c; one that fails shows nothing.
Look(c, ok) ==
  /\ sight' = IF ok THEN IF Holds(c) THEN c ELSE NoCall ELSE sight
  /\ UNCHANGED <<input, blind>>

\* A write: done, or it fails before ("lost") or after ("late") Herdr took the keys.
Write(keys, res) ==
  /\ Unless(res = "ok")
  /\ input' = IF res = "lost" THEN input ELSE input \o keys
  /\ UNCHANGED sight

\* submitOnly
SubmitOnly(c, res) ==
  /\ Write(<<[k |-> "enter", of |-> c]>>, res)
  /\ blind' = (blind \/ sight # c)

\* preflight: a read that fails types all the same, without the sweep, as does `force`
\* past a screen with no composer; a `popup` cannot be bound.
Preflight(c, ok, force, popup) ==
  /\ g[c].at = "preflight" /\ Guard
  /\ ~ok => ~force /\ ~popup
  /\ force => dialog
  /\ popup => kit = "plain" /\ ~dialog
  /\ Unless(ok /\ ~popup) /\ Look(c, ok)
  /\ CASE ~ok \/ force -> Go(c, "type")
       [] ok /\ ~force /\ dialog -> Over(c, "blocked") /\ UNCHANGED cleared
       [] ok /\ popup -> Over(c, "error") /\ UNCHANGED cleared
       [] OTHER -> /\ g' = [g EXCEPT ![c].at = IF box = <<>> THEN "type" ELSE "sweep",
                                      ![c].draft = Len(box)]
                   /\ UNCHANGED <<out, cleared>>

\* onComposerSeen: the stranded draft is swept off, as many keys as that read showed
\* (sweepKeys), or SWEEP_MAX, which is too few for a long one ("short").
Sweep(c, res) ==
  /\ g[c].at = "sweep" /\ Guard
  /\ Write(<<[k |-> "sweep", of |-> IF res = "short" THEN g[c].draft - 1 ELSE g[c].draft]>>, res)
  /\ UNCHANGED blind
  /\ IF res \in {"ok", "short"} THEN Go(c, "reconfirm") ELSE Over(c, "error") /\ UNCHANGED cleared

Reconfirm(c, ok) ==
  /\ g[c].at = "reconfirm" /\ Guard /\ Unless(ok) /\ Look(c, ok)
  /\ IF ok /\ dialog THEN Over(c, "blocked") /\ UNCHANGED cleared ELSE Go(c, "type")

Type(c, res) ==
  /\ g[c].at = "type" /\ Guard
  /\ Write(<<[k |-> "text", of |-> c]>>, res) /\ UNCHANGED blind
  /\ IF res = "ok" THEN Watch(c, "verify") ELSE Over(c, "error") /\ UNCHANGED cleared

\* As Verify, with the submit key sent when the reads are used up.
VerifyPatient(c, ok) ==
  /\ g[c].at = "verify" /\ Guard /\ Unless(ok) /\ Look(c, ok)
  /\ IF g[c].polls > 1 /\ ~(ok /\ Holds(c))
     THEN g' = [g EXCEPT ![c].polls = @ - 1] /\ UNCHANGED <<out, cleared>>
     ELSE Go(c, "submit")

\* The submit key waits for a read that shows the text; without one no key is sent.
Verify(c, ok) ==
  /\ g[c].at = "verify" /\ Guard /\ Unless(ok) /\ Look(c, ok)
  /\ CASE ok /\ Holds(c) -> g' = [g EXCEPT ![c].at = IF kit = "held" THEN "hold" ELSE "submit",
                                           ![c].polls = 0, ![c].budget = IF kit = "held" THEN HeldReads ELSE 0]
                            /\ UNCHANGED <<out, cleared>>
       [] ~(ok /\ Holds(c)) /\ g[c].polls > 1 ->
            g' = [g EXCEPT ![c].polls = @ - 1] /\ UNCHANGED <<out, cleared>>
       [] OTHER -> Over(c, "stalled") /\ UNCHANGED cleared

\* finishSubmit: press, and whatever the answer look whether the text left.
Submit(c, res) ==
  /\ g[c].at = "submit" /\ Guard
  /\ SubmitOnly(c, res) /\ Watch(c, "confirm")

\* As Confirm, with a read that fails taken for an empty box.
ConfirmUnread(c, ok) ==
  /\ g[c].at = "confirm" /\ Guard /\ Unless(ok) /\ Look(c, ok)
  /\ CASE ~ok \/ ~Holds(c) ->
            Over(c, "sent") /\ cleared' = IF dialog THEN cleared ELSE cleared \cup {c}
       [] ok /\ Holds(c) /\ g[c].polls > 1 ->
            g' = [g EXCEPT ![c].polls = @ - 1] /\ UNCHANGED <<out, cleared>>
       [] OTHER -> Go(c, "rescue")

\* submitClearedDraft
Confirm(c, ok) ==
  /\ g[c].at = "confirm" /\ Guard /\ Unless(ok) /\ Look(c, ok)
  /\ CASE ok /\ ~Holds(c) ->
            Over(c, "sent") /\ cleared' = IF dialog THEN cleared ELSE cleared \cup {c}
       [] ~(ok /\ ~Holds(c)) /\ g[c].polls > 1 ->
            g' = [g EXCEPT ![c].polls = @ - 1] /\ UNCHANGED <<out, cleared>>
       [] OTHER -> Go(c, "rescue")

\* As Rescue, forgetting that the text is in the pane.
RescueForgets(c, res) ==
  /\ g[c].at = "rescue" /\ Guard
  /\ SubmitOnly(c, res)
  /\ Over(c, IF res = "ok" THEN "sent" ELSE "error") /\ UNCHANGED cleared

\* One more Enter; its answer is the outcome.
Rescue(c, res) ==
  /\ g[c].at = "rescue" /\ Guard
  /\ SubmitOnly(c, res)
  /\ Over(c, IF res = "ok" THEN "sent" ELSE "delivered") /\ UNCHANGED cleared

\* waitWhileHeld, one read of it: the text is gone, or may be submitted, or is held.
Hold(c, ok) ==
  LET gone == ok /\ ~Holds(c)
      ready == ok /\ Holds(c) /\ ~startup
      spent == g[c].budget = 0
      last == g[c].last \/ ok
  IN /\ g[c].at = "hold" /\ Guard /\ Unless(ok) /\ Look(c, ok)
     /\ CASE gone -> /\ Over(c, IF g[c].pressed > 0 THEN "sent" ELSE "delivered")
                     /\ cleared' = IF dialog \/ g[c].pressed = 0 THEN cleared ELSE cleared \cup {c}
          [] ready \/ (~gone /\ spent /\ last /\ g[c].pressed = 0) -> Go(c, "press")
          [] ~gone /\ ~ready /\ ~spent ->
               g' = [g EXCEPT ![c].budget = @ - 1, ![c].last = last] /\ UNCHANGED <<out, cleared>>
          [] OTHER -> Over(c, "delivered") /\ UNCHANGED cleared

\* finishHeldSubmit: a press goes out only after that wait, and its answer is not looked at.
Press(c, res) ==
  /\ g[c].at = "press" /\ Guard
  /\ SubmitOnly(c, res)
  /\ g' = [g EXCEPT ![c].at = "heldConfirm", ![c].polls = PollAttempts, ![c].pressed = @ + 1,
                    ![c].last = FALSE]
  /\ UNCHANGED <<out, cleared>>

\* submitClearedDraft after a press: sent, one more look, one more press, or given up.
HeldConfirm(c, ok) ==
  /\ g[c].at = "heldConfirm" /\ Guard /\ Unless(ok) /\ Look(c, ok)
  /\ CASE ok /\ ~Holds(c) ->
            Over(c, "sent") /\ cleared' = IF dialog THEN cleared ELSE cleared \cup {c}
       [] ~(ok /\ ~Holds(c)) /\ g[c].polls > 1 ->
            g' = [g EXCEPT ![c].polls = @ - 1] /\ UNCHANGED <<out, cleared>>
       [] ~(ok /\ ~Holds(c)) /\ g[c].polls = 1 /\ g[c].pressed < MaxPresses ->
            g' = [g EXCEPT ![c].at = "hold", ![c].polls = 0] /\ UNCHANGED <<out, cleared>>
       [] OTHER -> Over(c, "delivered") /\ UNCHANGED cleared

\* oneShot: text and submit in one call, which may fail at either.
OneShot(c, n) ==
  LET keys == <<[k |-> "text", of |-> c], [k |-> "enter", of |-> c]>>
  IN /\ g[c].at = "oneShot" /\ Guard /\ Unless(n = 2)
     /\ input' = input \o SubSeq(keys, 1, n) /\ UNCHANGED <<sight, blind>>
     /\ Over(c, IF n = 2 THEN "sent" ELSE "error") /\ UNCHANGED cleared

-----------------------------------------------------------------------------
Calling(c) == Arrives(c) \/ Begins(c) \/ GivesUp(c) \/ Ends(c) \/ Settles(c)

Reads(c, ok) ==
  \/ \E force, popup \in BOOLEAN : Preflight(c, ok, force, popup)
  \/ Reconfirm(c, ok) \/ Verify(c, ok) \/ Confirm(c, ok) \/ Hold(c, ok) \/ HeldConfirm(c, ok)

Writes(c, res) ==
  Sweep(c, res) \/ Type(c, res) \/ Submit(c, res) \/ Rescue(c, res) \/ Press(c, res)

WritesNext ==
  \/ \E c \in Calls : Calling(c)
  \/ \E c \in Sends : \/ \E ok \in BOOLEAN : Reads(c, ok)
                      \/ \E res \in {"ok", "lost", "late"} : Writes(c, res)
                      \/ Sweep(c, "short")
                      \/ \E n \in 0..2 : OneShot(c, n)
  \/ DialogOpens \/ DialogCloses \/ DeskTypes \/ StartupEnds
  \/ \E lost \in BOOLEAN : Consume(lost)

WritesSpec == WritesInit /\ [][WritesNext]_wvars

\* Every read and write comes back; the plain functions end on the live panes only.
FairWrites ==
  /\ WritesSpec
  /\ \A c \in Calls :
        /\ WF_wvars(Begins(c)) /\ WF_wvars(Settles(c))
        /\ KeyOf[c] \in LiveKeys => WF_wvars(Ends(c))
  /\ \A c \in Sends :
        WF_wvars(Reads(c, TRUE) \/ Writes(c, "ok") \/ OneShot(c, 2))

-----------------------------------------------------------------------------
(* Properties. *)

\* "Enter is never sent blind": the last look that came back before any submit key, of the
\* rescue and of a held box too, showed this send's text in the box, whatever was lost, late or held
\* between, and whichever send was at work before.
NeverBlind == ~blind

\* A message is submitted alone: what an earlier send left in the box is swept off or
\* keeps the submit key back, whichever step of which send failed.  Excluded is what
\* was typed at the desk.
NothingMixed == kit # "none" /\ ~desk => ~mixed

\* A send that reports nothing was submitted, so that its message may be sent again, was
\* not submitted and never is, by the sends behind it neither.
RefusedStaysOut ==
  kit # "none" =>
    \A c \in went : out[c] \notin {"blocked", "stalled", "error", "busy"}

\* A send that saw its text leave the box on screen was submitted.
SentIsSubmitted == ~desk => cleared \subseteq went
=============================================================================
