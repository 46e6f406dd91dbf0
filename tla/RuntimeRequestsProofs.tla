----------------------- MODULE RuntimeRequestsProofs ------------------------
(***************************************************************************)
(* The requests of a thread, for any devices, dialogs and bounds: one is   *)
(* open at most, keys meet the dialog that was looked at, a dialog is      *)
(* answered once, and an answer stands.                                    *)
(*                                                                         *)
(* All rests on three facts.  Dialogs come one after the other and no      *)
(* dialog comes back, so the requests are in the order of their dialogs    *)
(* and only the last can be open.  Looking, typing and committing happen   *)
(* in one turn of the pane's queue, in which no other device commits and   *)
(* no pass opens a request.  And a dialog with an answered request is      *)
(* remembered (recent), excused, or gone from the screen.                  *)
(***************************************************************************)
EXTENDS RuntimeRequests, FiniteSetTheorems, SequenceTheorems, TLAPS

Request == [d : 1..MaxDialogs, status : {"pending", "resolved", "expired"}]
AtWork == {"bind", "keys", "commit"}
Is(q, s) == reqs[q].status = s

\* The types of what the proofs speak of.
RequestsType ==
  /\ screen \in 0..MaxDialogs /\ shown \in 0..MaxDialogs /\ text \in 0..MaxDialogs
  /\ status \in Requesting \cup {"working"} /\ archived \in BOOLEAN
  /\ reqs \in Seq(Request)
  /\ turn \in {"free", "ingest"} \cup Devices /\ pass \in {"idle", "wait", "read"}
  /\ rsp \in [Devices -> [phase : {"idle", "wait"} \cup AtWork, q : Nat, left : Int, kind : Kinds]]
  /\ \A r \in Devices : rsp[r].phase # "idle" => rsp[r].q \in DOMAIN reqs

\* Dialogs come one after the other: the screen shows the latest or none, a pass has read one as
\* late as any request is about, and what has a request and is still shown keeps the thread waiting.
DialogsInOrder ==
  /\ screen \in {0, shown} /\ text <= shown
  /\ pass # "read" => text = 0
  /\ \A q \in DOMAIN reqs : /\ reqs[q].d <= shown
                            /\ text # 0 => reqs[q].d <= text
                            /\ reqs[q].d = screen => status \in Requesting
  /\ \A a, b \in DOMAIN reqs : a < b => reqs[a].d <= reqs[b].d

\* Only the last request can be open, and none of an archived thread.
LastIsOpen == \A q \in DOMAIN reqs : Is(q, "pending") => q = Len(reqs) /\ ~archived

\* Reading, and all from the look to the commit, is in a turn.
TurnsHeld ==
  /\ pass = "read" => turn = "ingest"
  /\ \A r \in Devices : rsp[r].phase \in AtWork => turn = r

\* A handler at work: its request was not answered, no other one is open, none of its dialog stands.
WorkAlone ==
  \A r \in Devices : rsp[r].phase \in AtWork =>
    /\ ~Is(rsp[r].q, "resolved")
    /\ \A b \in DOMAIN reqs : b # rsp[r].q =>
         /\ ~Is(b, "pending")
         /\ Is(b, "resolved") /\ reqs[b].d = reqs[rsp[r].q].d => reqs[b].d \in excused

\* After its look the dialogs answered before are gone; until the screen moves it shows what was seen.
Looked ==
  \A r \in Devices : rsp[r].phase \in {"keys", "commit"} =>
    /\ \A a \in DOMAIN reqs : Is(a, "resolved") /\ reqs[a].d # reqs[rsp[r].q].d => screen # reqs[a].d
    /\ rsp[r].phase = "keys" /\ ~drift => screen = reqs[rsp[r].q].d

\* A dialog with an answered request is remembered, excused, or gone.
AnsweredIsKnown ==
  \A a \in DOMAIN reqs : Is(a, "resolved") =>
    \/ reqs[a].d \in excused \cup {recent}
    \/ screen # reqs[a].d /\ text # reqs[a].d

RequestsInv ==
  /\ RequestsType /\ DialogsInOrder /\ LastIsOpen /\ TurnsHeld /\ WorkAlone /\ Looked
  /\ AnsweredIsKnown /\ AnsweredOnce /\ KeysMeetTheirDialog

-----------------------------------------------------------------------------
(* What is done to the requests. *)

\* The requests of S take a status, all else about them stays.
Takes(S, new) ==
  /\ reqs' \in Seq(Request) /\ Len(reqs') = Len(reqs)
  /\ \A q \in DOMAIN reqs : /\ q \in DOMAIN reqs' /\ reqs'[q].d = reqs[q].d
                            /\ reqs'[q].status = IF q \in S THEN new ELSE reqs[q].status

\* A request opens for the dialog read, and what was open expires.
Opens ==
  /\ reqs' \in Seq(Request) /\ Len(reqs') = Len(reqs) + 1
  /\ \A q \in DOMAIN reqs : /\ q \in DOMAIN reqs' /\ reqs'[q].d = reqs[q].d
                            /\ reqs'[q].status = IF q \in Pending THEN "expired" ELSE reqs[q].status
  /\ reqs'[Len(reqs) + 1] = [d |-> text, status |-> "pending"]

\* A request is about a dialog.
LEMMA DialogType ==
  ASSUME RequestsType, NEW q \in DOMAIN reqs
  PROVE  /\ reqs[q].d \in Nat \ {0} /\ reqs[q].d <= MaxDialogs /\ q \in Nat
         /\ shown \in Nat /\ text \in Nat /\ screen \in Nat
<1>1. reqs[q] \in Request /\ q \in Nat
  BY DEF RequestsType
<1>2. reqs[q].d \in 1..MaxDialogs
  BY <1>1 DEF Request
<1> QED
  BY <1>1, <1>2, RequestsAssumption DEF RequestsType

\* A handler that is not idle has a request.
LEMMA HandlerType ==
  ASSUME RequestsType, NEW r \in Devices, rsp[r].phase # "idle"
  PROVE  rsp[r].q \in DOMAIN reqs
  BY DEF RequestsType

\* Marked keeps a sequence of requests one.
LEMMA MarkedIsSeq ==
  ASSUME NEW rs \in Seq(Request), NEW S, NEW new \in {"resolved", "expired"}
  PROVE  /\ Marked(rs, S, new) \in Seq(Request) /\ Len(Marked(rs, S, new)) = Len(rs)
         /\ DOMAIN Marked(rs, S, new) = DOMAIN rs
         /\ \A q \in DOMAIN rs : /\ Marked(rs, S, new)[q].d = rs[q].d
                                 /\ Marked(rs, S, new)[q].status = IF q \in S THEN new ELSE rs[q].status
<1> DEFINE m == Marked(rs, S, new)
<1>1. DOMAIN rs = 1..Len(rs) /\ Len(rs) \in Nat /\ \A q \in 1..Len(rs) : rs[q] \in Request
  OBVIOUS
<1>2. m = [q \in 1..Len(rs) |-> IF q \in S THEN [rs[q] EXCEPT !.status = new] ELSE rs[q]]
  BY <1>1 DEF Marked
<1>3. \A q \in 1..Len(rs) : /\ m[q] \in Request /\ m[q].d = rs[q].d
                            /\ m[q].status = IF q \in S THEN new ELSE rs[q].status
  BY <1>1, <1>2 DEF Request
<1>4. m \in [1..Len(rs) -> Request]
  BY <1>2, <1>3
<1>5. m \in Seq(Request) /\ DOMAIN m = 1..Len(rs)
  BY <1>1, <1>4, SeqDef
<1>6. Len(m) = Len(rs)
  BY <1>1, <1>5, LenProperties
<1> QED
  BY <1>1, <1>3, <1>5, <1>6

\* Marking.
LEMMA MarkingTakes ==
  ASSUME RequestsType, NEW S, NEW new \in {"resolved", "expired"}, reqs' = Marked(reqs, S, new)
  PROVE  Takes(S, new)
  BY MarkedIsSeq DEF RequestsType, Takes

\* A commit that opens nothing.
LEMMA CommitTakes ==
  ASSUME RequestsType, NEW S, NEW kept, Commit(S, {}, kept)
  PROVE  Takes(S, "expired") /\ (status' \in Requesting <=> status \in Requesting)
         /\ status' \in Requesting \cup {"working"}
<1>1. reqs' = Marked(reqs, S, "expired") \o <<>>
  BY DEF Commit
<1>2. Marked(reqs, S, "expired") \in Seq(Request)
  BY MarkedIsSeq DEF RequestsType
<1>3. reqs' = Marked(reqs, S, "expired")
  BY <1>1, <1>2, ConcatEmptySeq
<1> QED
  BY <1>3, MarkingTakes DEF Commit, RequestsType, RequestingStatus, Requesting

\* A commit that opens a request for the dialog read.
LEMMA CommitOpens ==
  ASSUME RequestsType, text # 0, Commit(Pending, {text}, {})
  PROVE  Opens /\ (status' \in Requesting <=> status \in Requesting)
         /\ status' \in Requesting \cup {"working"}
<1> DEFINE m == Marked(reqs, Pending, "expired")
           new == [d |-> text, status |-> "pending"]
<1>1. reqs' = m \o <<new>>
  BY DEF Commit
<1>2. new \in Request
  BY RequestsAssumption DEF Request, RequestsType
<1>3. /\ m \in Seq(Request) /\ Len(m) = Len(reqs) /\ DOMAIN m = DOMAIN reqs
      /\ \A q \in DOMAIN reqs : /\ m[q].d = reqs[q].d
                                /\ m[q].status = IF q \in Pending THEN "expired" ELSE reqs[q].status
  BY MarkedIsSeq DEF RequestsType
<1>4. <<new>> \in Seq(Request) /\ Len(<<new>>) = 1 /\ <<new>>[1] = new
  BY <1>2
<1> HIDE DEF m, new
<1>5. reqs' \in Seq(Request) /\ Len(reqs') = Len(reqs) + 1
  BY <1>1, <1>3, <1>4, ConcatProperties
<1>6. \A q \in 1..Len(reqs) : reqs'[q] = m[q]
  BY <1>1, <1>3, <1>4, ConcatProperties DEF RequestsType
<1>7. reqs'[Len(reqs) + 1] = new
  BY <1>1, <1>3, <1>4, ConcatProperties DEF RequestsType
<1>8. DOMAIN reqs = 1..Len(reqs) /\ DOMAIN reqs' = 1..(Len(reqs) + 1) /\ Len(reqs) \in Nat
  BY <1>5 DEF RequestsType
<1> QED
  BY <1>3, <1>5, <1>6, <1>7, <1>8 DEF Opens, Commit, new, RequestingStatus, Requesting, RequestsType

\* No answer is given or taken back, and nothing opens.
Quiet ==
  /\ reqs' \in Seq(Request) /\ Len(reqs') = Len(reqs) /\ DOMAIN reqs' = DOMAIN reqs
  /\ \A q \in DOMAIN reqs : /\ reqs'[q].d = reqs[q].d
                            /\ reqs'[q].status = "resolved" <=> reqs[q].status = "resolved"
                            /\ reqs'[q].status = "pending" => reqs[q].status = "pending"
                            /\ reqs[q].status = "expired" => reqs'[q].status = "expired"

\* What expires leaves the answers.
LEMMA ExpiresQuietly ==
  ASSUME RequestsType, NEW S, Takes(S, "expired"), \A q \in DOMAIN reqs : q \in S => ~Is(q, "resolved")
  PROVE  Quiet
<1>1. DOMAIN reqs = 1..Len(reqs) /\ DOMAIN reqs' = 1..Len(reqs')
  BY DEF Takes, RequestsType
<1> QED
  BY <1>1 DEF Takes, Quiet, Is

\* Nothing done to the requests.
LEMMA UnchangedQuietly ==
  ASSUME RequestsType, UNCHANGED reqs
  PROVE  Quiet
  BY DEF Quiet, RequestsType

-----------------------------------------------------------------------------
(* The steps. *)

\* The agent and the desk: the screen shows nothing, or a dialog that never was.
LEMMA ShowsKeeps ==
  ASSUME RequestsInv, NEW d \in {0, shown + 1}, d <= MaxDialogs, Shows(d), drift' = TRUE,
         UNCHANGED <<status, archived, reqs, turn, pass, text, recent, rsp, misfired, excused>>
  PROVE  RequestsInv'
<1> USE DEF RequestsInv
<1>1. /\ screen' = d /\ shown' \in 0..MaxDialogs /\ shown <= shown' /\ screen' \in {0, shown'}
      /\ screen' \in 0..MaxDialogs
  BY RequestsAssumption DEF Shows, RequestsType
<1>2. \A q \in DOMAIN reqs : reqs[q].d <= shown /\ screen' # reqs[q].d
  BY <1>1, DialogType DEF DialogsInOrder
<1>3. RequestsType'
  BY <1>1 DEF RequestsType
<1>4. DialogsInOrder'
  <2>1. text' <= shown'
    BY <1>1, RequestsAssumption DEF DialogsInOrder, RequestsType
  <2>2. \A q \in DOMAIN reqs : reqs[q].d <= shown'
    BY <1>1, DialogType, RequestsAssumption DEF DialogsInOrder
  <2> QED
    BY <1>1, <1>2, <2>1, <2>2 DEF DialogsInOrder
<1>5. LastIsOpen' /\ TurnsHeld' /\ WorkAlone' /\ AnsweredOnce' /\ KeysMeetTheirDialog'
  BY DEF LastIsOpen, TurnsHeld, WorkAlone, AnsweredOnce, KeysMeetTheirDialog, Is
<1>6. Looked' /\ AnsweredIsKnown'
  BY <1>2 DEF Looked, AnsweredIsKnown, Is
<1> QED
  BY <1>3, <1>4, <1>5, <1>6

\* The herd's update and what ends a grace leave the requests and the handlers alone.
LEMMA HerdPollKeeps == RequestsInv /\ HerdPoll => RequestsInv'
<1> SUFFICES ASSUME RequestsInv, HerdPoll PROVE RequestsInv'
    OBVIOUS
<1> USE DEF RequestsInv
<1>1. /\ status' \in Requesting \cup {"working"} /\ (screen # 0 => status' \in Requesting)
      /\ UNCHANGED <<screen, shown, text, archived, reqs, turn, pass, recent, rsp, drift, misfired, excused>>
  BY DEF HerdPoll, RequestingStatus, Requesting, world
<1>2. RequestsType'
  BY <1>1 DEF RequestsType
<1>3. DialogsInOrder'
  BY <1>1, DialogType DEF DialogsInOrder
<1> QED
  BY <1>1, <1>2, <1>3 DEF LastIsOpen, TurnsHeld, WorkAlone, Looked, AnsweredIsKnown, AnsweredOnce, KeysMeetTheirDialog, Is

\* The end of a grace excuses its dialog.
LEMMA GraceOverKeeps == RequestsInv /\ GraceOver => RequestsInv'
<1> SUFFICES ASSUME RequestsInv, GraceOver PROVE RequestsInv'
    OBVIOUS
<1> USE DEF RequestsInv
<1>1. /\ excused' = excused \cup {recent}
      /\ UNCHANGED <<screen, shown, text, status, archived, reqs, turn, pass, rsp, drift, misfired>>
  BY DEF GraceOver, world, ingest
<1>2. RequestsType' /\ DialogsInOrder' /\ LastIsOpen' /\ TurnsHeld' /\ KeysMeetTheirDialog'
  BY <1>1 DEF RequestsType, DialogsInOrder, LastIsOpen, TurnsHeld, KeysMeetTheirDialog, Is
<1>3. WorkAlone' /\ Looked' /\ AnsweredIsKnown' /\ AnsweredOnce'
  BY <1>1 DEF WorkAlone, Looked, AnsweredIsKnown, AnsweredOnce, Is
<1> QED
  BY <1>2, <1>3

\* A quiet step that leaves the handlers alone keeps what is said of them.
LEMMA QuietHandlers ==
  ASSUME RequestsInv, Quiet, UNCHANGED <<rsp, screen, drift, excused>>
  PROVE  WorkAlone' /\ Looked'
<1> USE DEF RequestsInv
<1>1. WorkAlone'
  <2> SUFFICES ASSUME NEW r \in Devices, rsp[r].phase \in AtWork
               PROVE  /\ reqs'[rsp[r].q].status # "resolved"
                      /\ \A b \in DOMAIN reqs' : b # rsp[r].q =>
                           /\ reqs'[b].status # "pending"
                           /\ reqs'[b].status = "resolved" /\ reqs'[b].d = reqs'[rsp[r].q].d => reqs'[b].d \in excused
    BY DEF WorkAlone, Is
  <2>1. rsp[r].q \in DOMAIN reqs
    BY HandlerType DEF AtWork
  <2> QED
    BY <2>1 DEF WorkAlone, Quiet, Is
<1>2. Looked'
  <2> SUFFICES ASSUME NEW r \in Devices, rsp[r].phase \in {"keys", "commit"}
               PROVE  /\ \A a \in DOMAIN reqs' : reqs'[a].status = "resolved" /\ reqs'[a].d # reqs'[rsp[r].q].d => screen # reqs'[a].d
                      /\ rsp[r].phase = "keys" /\ ~drift => screen = reqs'[rsp[r].q].d
    BY DEF Looked, Is
  <2>1. rsp[r].q \in DOMAIN reqs
    BY HandlerType
  <2> QED
    BY <2>1 DEF Looked, Quiet, Is
<1> QED
  BY <1>1, <1>2

\* A quiet step answers no dialog.
LEMMA QuietAnswers ==
  ASSUME RequestsInv, Quiet
  PROVE  /\ excused \subseteq excused' => AnsweredOnce'
         /\ UNCHANGED <<screen, text, recent, excused>> => AnsweredIsKnown'
<1>1. ASSUME excused \subseteq excused' PROVE AnsweredOnce'
  <2> SUFFICES ASSUME NEW a \in DOMAIN reqs, NEW b \in DOMAIN reqs, a # b, reqs'[a].d = reqs'[b].d,
                      reqs'[a].status = "resolved", reqs'[b].status # "expired"
               PROVE  reqs'[a].d \in excused'
    BY DEF AnsweredOnce, Quiet
  <2>1. reqs[a].d = reqs[b].d /\ reqs[a].status = "resolved" /\ reqs[b].status # "expired"
    BY DEF Quiet
  <2> QED
    BY <1>1, <2>1 DEF RequestsInv, AnsweredOnce, Quiet
<1>2. ASSUME UNCHANGED <<screen, text, recent, excused>> PROVE AnsweredIsKnown'
  BY <1>2 DEF RequestsInv, AnsweredIsKnown, Quiet, Is
<1> QED
  BY <1>1, <1>2

\* A quiet step of the store alone.
LEMMA QuietKeeps ==
  ASSUME RequestsInv, Quiet,
         UNCHANGED <<screen, shown, text, archived, turn, pass, rsp, drift, misfired, recent, excused>>,
         status' \in Requesting \cup {"working"}, status \in Requesting => status' \in Requesting
  PROVE  RequestsInv'
<1> USE DEF RequestsInv
<1>1. RequestsType'
  BY DEF RequestsType, Quiet
<1>2. DialogsInOrder'
  BY DEF DialogsInOrder, Quiet
<1>3. LastIsOpen' /\ TurnsHeld' /\ KeysMeetTheirDialog'
  BY DEF LastIsOpen, TurnsHeld, KeysMeetTheirDialog, Quiet, Is
<1> QED
  BY <1>1, <1>2, <1>3, QuietHandlers, QuietAnswers

\* An archived thread has no request open.
LEMMA HerdGoneKeeps == RequestsInv /\ HerdGone => RequestsInv' /\ Quiet
<1> SUFFICES ASSUME RequestsInv, HerdGone PROVE RequestsInv' /\ Quiet
    OBVIOUS
<1> USE DEF RequestsInv
<1>1. /\ archived' = TRUE /\ Takes(Pending, "expired")
      /\ UNCHANGED <<screen, shown, text, status, turn, pass, rsp, drift, misfired, recent, excused>>
  BY MarkingTakes DEF HerdGone, world, ingest
<1>2. Quiet
  BY <1>1, ExpiresQuietly DEF Pending, Is
<1>3. RequestsType'
  BY <1>1, <1>2 DEF RequestsType, Quiet
<1>4. LastIsOpen'
  BY <1>1, <1>2 DEF LastIsOpen, Takes, Pending, Is, Quiet
<1>5. DialogsInOrder' /\ TurnsHeld' /\ KeysMeetTheirDialog'
  BY <1>1, <1>2 DEF DialogsInOrder, TurnsHeld, KeysMeetTheirDialog, Quiet
<1>6. WorkAlone' /\ Looked'
  BY <1>1, <1>2, QuietHandlers
<1>7. AnsweredIsKnown' /\ AnsweredOnce'
  BY <1>1, <1>2, QuietAnswers
<1> QED
  BY <1>2, <1>3, <1>4, <1>5, <1>6, <1>7

\* The start of a pass: what expires as the thread no longer waits has no dialog on the screen.
LEMMA PassStartHolds == RequestsInv /\ PassStart => RequestsInv' /\ Quiet
<1> SUFFICES ASSUME RequestsInv, PassStart PROVE RequestsInv' /\ Quiet
    OBVIOUS
<1> USE DEF RequestsInv
<1>0. pass = "idle" /\ UNCHANGED <<screen, shown, text, archived, turn, rsp, drift, misfired, excused>>
  BY DEF PassStart, world
<1>1. CASE archived
  <2>1. UNCHANGED <<pass, reqs, status, recent>>
    BY <1>1 DEF PassStart
  <2>2. Quiet
    BY <2>1, UnchangedQuietly
  <2> QED
    BY <1>0, <2>1, <2>2, QuietKeeps DEF RequestsType
<1>2. CASE ~archived /\ status \notin Requesting
  <2>1. Commit(Pending, {}, {}) /\ recent' = 0 /\ pass' = pass
    BY <1>2 DEF PassStart
  <2>2. Takes(Pending, "expired") /\ status' = status
    BY <1>2, <2>1, CommitTakes DEF Commit
  <2>3. Quiet
    BY <2>2, ExpiresQuietly DEF Pending, Is
  <2>4. RequestsType' /\ DialogsInOrder' /\ LastIsOpen' /\ TurnsHeld' /\ KeysMeetTheirDialog'
    BY <1>0, <2>1, <2>2, <2>3 DEF RequestsType, DialogsInOrder, LastIsOpen, TurnsHeld, KeysMeetTheirDialog, Quiet, Is
  <2>5. WorkAlone' /\ Looked'
    BY <1>0, <2>3, QuietHandlers
  <2>6. AnsweredOnce'
    BY <1>0, <2>3, QuietAnswers
  <2>7. AnsweredIsKnown'
    <3>1. \A a \in DOMAIN reqs : screen # reqs[a].d /\ text # reqs[a].d
      BY <1>0, <1>2, DialogType DEF DialogsInOrder
    <3> QED
      BY <1>0, <2>3, <3>1 DEF AnsweredIsKnown, Quiet
  <2> QED
    BY <2>3, <2>4, <2>5, <2>6, <2>7
<1>3. CASE ~archived /\ status \in Requesting
  <2>1. pass' = "wait" /\ UNCHANGED <<reqs, status, recent>>
    BY <1>3 DEF PassStart
  <2>2. Quiet
    BY <2>1, UnchangedQuietly
  <2>3. RequestsType' /\ DialogsInOrder' /\ LastIsOpen' /\ TurnsHeld' /\ KeysMeetTheirDialog'
    BY <1>0, <2>1 DEF RequestsType, DialogsInOrder, LastIsOpen, TurnsHeld, KeysMeetTheirDialog, Is
  <2>4. WorkAlone' /\ Looked' /\ AnsweredOnce' /\ AnsweredIsKnown'
    BY <1>0, <2>1, <2>2, QuietHandlers, QuietAnswers
  <2> QED
    BY <2>2, <2>3, <2>4
<1> QED
  BY <1>1, <1>2, <1>3

\* A pass reads the screen in its turn, and the read may fail.
LEMMA PassReadKeeps == RequestsInv /\ PassRead => RequestsInv'
<1> SUFFICES ASSUME RequestsInv, PassRead PROVE RequestsInv'
    OBVIOUS
<1> USE DEF RequestsInv
<1>1. /\ turn = "free" /\ turn' = "ingest" /\ pass' = "read" /\ text' = screen
      /\ UNCHANGED <<screen, shown, status, archived, reqs, rsp, drift, misfired, recent, excused>>
  BY DEF PassRead, world
<1>2. RequestsType' /\ LastIsOpen' /\ KeysMeetTheirDialog'
  BY <1>1 DEF RequestsType, LastIsOpen, KeysMeetTheirDialog, Is
<1>3. DialogsInOrder'
  <2>1. text' <= shown' /\ (text' # 0 => text' = shown)
    BY <1>1, RequestsAssumption DEF DialogsInOrder, RequestsType
  <2> QED
    BY <1>1, <2>1 DEF DialogsInOrder
<1>4. \A r \in Devices : rsp[r].phase \notin AtWork
  BY <1>1, RequestsAssumption DEF TurnsHeld
<1>5. TurnsHeld'
  BY <1>1, <1>4 DEF TurnsHeld
<1>6. Quiet
  BY <1>1, UnchangedQuietly
<1>7. WorkAlone' /\ Looked' /\ AnsweredOnce'
  BY <1>1, <1>6, QuietHandlers, QuietAnswers
<1>8. AnsweredIsKnown'
  BY <1>1 DEF AnsweredIsKnown, Is
<1> QED
  BY <1>2, <1>3, <1>5, <1>7, <1>8

\* The end of a pass, and of a failed one, as far as its turn goes.
LEMMA TurnFreed ==
  ASSUME RequestsInv, pass' # "read", turn' = IF turn = "ingest" THEN "free" ELSE turn, UNCHANGED rsp
  PROVE  TurnsHeld'
<1>1. \A r \in Devices : r # "ingest"
  BY RequestsAssumption
<1> QED
  BY <1>1 DEF RequestsInv, TurnsHeld

\* A pass that fails keeps everything.
LEMMA PassFailsKeeps == RequestsInv /\ PassFails => RequestsInv'
<1> SUFFICES ASSUME RequestsInv, PassFails PROVE RequestsInv'
    OBVIOUS
<1> USE DEF RequestsInv
<1>1. /\ pass' = "idle" /\ text' = 0 /\ turn' = IF turn = "ingest" THEN "free" ELSE turn
      /\ UNCHANGED <<screen, shown, status, archived, reqs, rsp, drift, misfired, recent, excused>>
  BY DEF PassFails, world
<1>2. RequestsType' /\ LastIsOpen' /\ KeysMeetTheirDialog'
  BY <1>1, RequestsAssumption DEF RequestsType, LastIsOpen, KeysMeetTheirDialog, Is
<1>3. DialogsInOrder'
  <2>1. text' <= shown'
    BY <1>1, RequestsAssumption DEF RequestsType
  <2> QED
    BY <1>1, <2>1 DEF DialogsInOrder
<1>4. TurnsHeld'
  BY <1>1, TurnFreed
<1>5. Quiet
  BY <1>1, UnchangedQuietly
<1>6. WorkAlone' /\ Looked' /\ AnsweredOnce'
  BY <1>1, <1>5, QuietHandlers, QuietAnswers
<1>7. AnsweredIsKnown'
  BY <1>1, DialogType DEF AnsweredIsKnown, Is
<1> QED
  BY <1>2, <1>3, <1>4, <1>6, <1>7

\* A pass that opens nothing.
LEMMA QuietPassKeeps ==
  ASSUME RequestsInv, Quiet, pass' = "idle", text' = 0, turn = "ingest", turn' = "free",
         UNCHANGED <<screen, shown, archived, rsp, drift, misfired, recent, excused>>,
         status' \in Requesting \cup {"working"}, status \in Requesting => status' \in Requesting
  PROVE  RequestsInv'
<1> USE DEF RequestsInv
<1>1. RequestsType'
  BY RequestsAssumption DEF RequestsType, Quiet
<1>2. DialogsInOrder'
  <2>1. text' <= shown'
    BY RequestsAssumption DEF RequestsType
  <2> QED
    BY <2>1 DEF DialogsInOrder, Quiet
<1>3. LastIsOpen' /\ KeysMeetTheirDialog'
  BY DEF LastIsOpen, KeysMeetTheirDialog, Quiet, Is
<1>4. TurnsHeld'
  BY TurnFreed
<1>5. WorkAlone' /\ Looked' /\ AnsweredOnce'
  BY QuietHandlers, QuietAnswers
<1>6. AnsweredIsKnown'
  BY DialogType DEF AnsweredIsKnown, Quiet, Is
<1> QED
  BY <1>1, <1>2, <1>3, <1>4, <1>5, <1>6

\* A pass that opens a request: the dialog read is the latest, so an answered request about it would
\* be remembered, and then nothing could be open beside it.
LEMMA OpeningPassKeeps ==
  ASSUME RequestsInv, Opens, pass = "read", pass' = "idle", text # 0, text' = 0, turn' = "free", ~archived,
         status \in Requesting, status' \in Requesting,
         ~(Pending = {} /\ recent = text), \A q \in Pending : reqs[q].d # text,
         UNCHANGED <<screen, shown, archived, rsp, drift, misfired, recent, excused>>
  PROVE  RequestsInv'
<1> USE DEF RequestsInv
<1> DEFINE n == Len(reqs) + 1
<1>0. /\ DOMAIN reqs = 1..Len(reqs) /\ DOMAIN reqs' = 1..n /\ Len(reqs) \in Nat /\ Len(reqs') = n
      /\ DOMAIN reqs' = DOMAIN reqs \cup {n} /\ n \notin DOMAIN reqs
  BY DEF Opens, RequestsType
<1>1. reqs'[n].d = text /\ reqs'[n].status = "pending"
  BY DEF Opens
<1>2. \A q \in DOMAIN reqs : /\ reqs'[q].d = reqs[q].d /\ reqs'[q].status # "pending"
                             /\ (reqs'[q].status = "resolved" <=> reqs[q].status = "resolved")
                            /\ (reqs[q].status = "expired" => reqs'[q].status = "expired")
  BY DEF Opens, Pending
<1> HIDE DEF n
<1>3. turn = "ingest" /\ \A r \in Devices : rsp[r].phase \notin AtWork
  BY RequestsAssumption DEF TurnsHeld
<1>4. \A a \in DOMAIN reqs : Is(a, "resolved") /\ reqs[a].d = text => text \in excused
  <2> SUFFICES ASSUME NEW a \in DOMAIN reqs, Is(a, "resolved"), reqs[a].d = text, text \notin excused
               PROVE  FALSE
    OBVIOUS
  <2>1. recent = text
    BY DEF AnsweredIsKnown
  <2>2. PICK e \in Pending : TRUE
    BY <2>1
  <2>3. e \in DOMAIN reqs /\ e = Len(reqs) /\ a # e
    BY DEF Pending, LastIsOpen, Is
  <2>4. a < e
    BY <1>0, <2>3
  <2>5. reqs[a].d <= reqs[e].d /\ reqs[e].d <= text
    BY <2>3, <2>4 DEF DialogsInOrder
  <2>6. reqs[e].d # text
    BY <2>2
  <2> QED
    BY <2>3, <2>5, <2>6, DialogType
<1>5. RequestsType'
  BY <1>0, RequestsAssumption DEF RequestsType, Opens
<1>6. DialogsInOrder'
  <2>1. text' <= shown' /\ reqs'[n].d <= shown'
    BY <1>1, RequestsAssumption DEF DialogsInOrder, RequestsType
  <2>2. \A a, b \in DOMAIN reqs' : a < b => reqs'[a].d <= reqs'[b].d
    <3> SUFFICES ASSUME NEW a \in DOMAIN reqs', NEW b \in DOMAIN reqs', a < b PROVE reqs'[a].d <= reqs'[b].d
      OBVIOUS
    <3>1. a \in DOMAIN reqs
      BY <1>0 DEF n
    <3>2. CASE b \in DOMAIN reqs
      BY <1>2, <3>1, <3>2 DEF DialogsInOrder
    <3>3. CASE b = n
      BY <1>1, <1>2, <3>1, <3>3 DEF DialogsInOrder
    <3> QED
      BY <1>0, <3>2, <3>3
  <2>3. \A q \in DOMAIN reqs' : reqs'[q].d <= shown' /\ (reqs'[q].d = screen' => status' \in Requesting)
    BY <1>0, <1>2, <2>1 DEF DialogsInOrder
  <2> QED
    BY <2>1, <2>2, <2>3 DEF DialogsInOrder
<1>7. LastIsOpen'
  BY <1>0, <1>2 DEF LastIsOpen, Is
<1>8. TurnsHeld' /\ WorkAlone' /\ Looked' /\ KeysMeetTheirDialog'
  BY <1>3 DEF TurnsHeld, WorkAlone, Looked, KeysMeetTheirDialog, AtWork
<1>9. AnsweredIsKnown'
  BY <1>0, <1>1, <1>2, DialogType DEF AnsweredIsKnown, Is
<1>10. AnsweredOnce'
  <2> SUFFICES ASSUME NEW a \in DOMAIN reqs', NEW b \in DOMAIN reqs', a # b, reqs'[a].d = reqs'[b].d,
                      reqs'[a].status = "resolved", reqs'[b].status # "expired"
               PROVE  reqs'[a].d \in excused'
    BY DEF AnsweredOnce
  <2>1. a \in DOMAIN reqs /\ reqs[a].status = "resolved" /\ reqs'[a].d = reqs[a].d
    BY <1>0, <1>1, <1>2
  <2>2. CASE b = n
    BY <1>1, <1>4, <2>1, <2>2 DEF Is
  <2>3. CASE b \in DOMAIN reqs
    BY <1>2, <2>1, <2>3 DEF AnsweredOnce
  <2> QED
    BY <1>0, <2>2, <2>3
<1> QED
  BY <1>5, <1>6, <1>7, <1>8, <1>9, <1>10

\* The end of a pass.
LEMMA PassEndsKeeps == RequestsInv /\ PassEnds => RequestsInv' /\ (Quiet \/ Opens)
<1> SUFFICES ASSUME RequestsInv, PassEnds PROVE RequestsInv' /\ (Quiet \/ Opens)
    OBVIOUS
<1> USE DEF RequestsInv
<1> DEFINE same == {q \in Pending : reqs[q].d = text}
<1>0. /\ pass = "read" /\ pass' = "idle" /\ turn' = "free" /\ text' = 0 /\ turn = "ingest"
      /\ UNCHANGED <<screen, shown, archived, rsp, drift, misfired, recent, excused>>
  BY DEF PassEnds, world, TurnsHeld
<1>1. ASSUME UNCHANGED <<reqs, status>> PROVE RequestsInv' /\ Quiet
  <2>1. Quiet
    BY <1>1, UnchangedQuietly
  <2>2. status' \in Requesting \cup {"working"}
    BY <1>1 DEF RequestsType
  <2> QED
    BY <1>0, <1>1, <2>1, <2>2, QuietPassKeeps
<1>2. ASSUME NEW S \in SUBSET Pending, NEW kept, Commit(S, {}, kept) PROVE RequestsInv' /\ Quiet
  <2>1. Quiet
    BY <1>2, CommitTakes, ExpiresQuietly DEF Pending, Is
  <2> QED
    BY <1>0, <1>2, <2>1, CommitTakes, QuietPassKeeps
<1>3. CASE archived
  <2>1. UNCHANGED <<reqs, status>>
    BY <1>3 DEF PassEnds
  <2> QED
    BY <1>1, <2>1
<1>4. CASE ~archived /\ (status \notin Requesting \/ text = 0)
  <2>1. Commit(Pending, {}, {})
    BY <1>4 DEF PassEnds
  <2> QED
    BY <1>2, <2>1
<1>5. CASE ~archived /\ status \in Requesting /\ text # 0 /\ same # {}
  <2>1. Commit(Pending \ same, {}, {text})
    BY <1>5 DEF PassEnds
  <2> QED
    BY <1>2, <2>1
<1>6. CASE ~archived /\ status \in Requesting /\ text # 0 /\ same = {}
  <2>1. IF Pending = {} /\ recent = text THEN UNCHANGED <<reqs, status>> ELSE Commit(Pending, {text}, {})
    BY <1>6 DEF PassEnds
  <2>2. CASE Pending = {} /\ recent = text
    BY <1>1, <2>1, <2>2
  <2>3. CASE ~(Pending = {} /\ recent = text)
    <3>1. Opens /\ status' \in Requesting
      BY <1>6, <2>1, <2>3, CommitOpens
    <3> QED
      BY <1>0, <1>6, <2>3, <3>1, OpeningPassKeeps
  <2> QED
    BY <2>2, <2>3
<1> QED
  BY <1>3, <1>4, <1>5, <1>6

-----------------------------------------------------------------------------
(* The steps of the handlers. *)

\* An answer is asked for: nobody comes to work.
LEMMA TapKeeps ==
  ASSUME RequestsInv, NEW r \in Devices, NEW kind \in Kinds, Tap(r, kind)
  PROVE  RequestsInv'
<1> USE DEF RequestsInv
<1>1. PICK q \in Pending : rsp' = [rsp EXCEPT ![r] = [phase |-> "wait", q |-> q, kind |-> kind,
                                                       left |-> IF kind = "recipe" THEN 2 ELSE 1]]
  BY DEF Tap
<1>2. UNCHANGED <<screen, shown, text, status, archived, reqs, turn, pass, drift, misfired, recent, excused>>
  BY DEF Tap, world, ingest
<1>3. q \in DOMAIN reqs /\ q \in Nat
  BY DEF Pending, RequestsType
<1>4. /\ rsp'[r].phase = "wait" /\ rsp'[r].q = q
      /\ \A o \in Devices : o # r => rsp'[o] = rsp[o]
  BY <1>1 DEF RequestsType
<1>5. rsp' \in [Devices -> [phase : {"idle", "wait"} \cup AtWork, q : Nat, left : Int, kind : Kinds]]
  BY <1>1, <1>3 DEF RequestsType
<1>6. RequestsType'
  BY <1>2, <1>3, <1>4, <1>5 DEF RequestsType
<1>7. \A o \in Devices : rsp'[o].phase \in AtWork => o # r /\ rsp'[o] = rsp[o]
  BY <1>4 DEF AtWork
<1>8. DialogsInOrder' /\ LastIsOpen' /\ KeysMeetTheirDialog' /\ AnsweredIsKnown' /\ AnsweredOnce'
  BY <1>2 DEF DialogsInOrder, LastIsOpen, KeysMeetTheirDialog, AnsweredIsKnown, AnsweredOnce, Is
<1>9. TurnsHeld' /\ WorkAlone'
  BY <1>2, <1>7 DEF TurnsHeld, WorkAlone, Is
<1>10. Looked'
  BY <1>2, <1>7 DEF Looked, Is, AtWork
<1> QED
  BY <1>6, <1>8, <1>9, <1>10

\* A handler that ends, with or without its request expired, leaves the others as they are.
LEMMA DoneHandlers ==
  ASSUME RequestsInv, Quiet, NEW r \in Devices, rsp' = [rsp EXCEPT ![r] = Idle],
         turn' = IF turn = r THEN "free" ELSE turn,
         UNCHANGED <<screen, shown, text, status, archived, pass, drift, misfired, excused>>
  PROVE  /\ RequestsType' /\ DialogsInOrder' /\ LastIsOpen' /\ TurnsHeld' /\ WorkAlone' /\ Looked'
         /\ AnsweredOnce' /\ KeysMeetTheirDialog'
<1> USE DEF RequestsInv
<1>1. rsp'[r] = Idle /\ \A o \in Devices : o # r => rsp'[o] = rsp[o]
  BY DEF RequestsType
<1>2. rsp' \in [Devices -> [phase : {"idle", "wait"} \cup AtWork, q : Nat, left : Int, kind : Kinds]]
  BY DEF RequestsType, Idle, Kinds
<1>3. \A o \in Devices : rsp'[o].phase # "idle" => o # r /\ rsp'[o] = rsp[o] /\ rsp[o].q \in DOMAIN reqs
  BY <1>1, HandlerType DEF Idle
<1>4. RequestsType'
  BY <1>2, <1>3 DEF RequestsType, Quiet
<1>5. DialogsInOrder' /\ LastIsOpen' /\ KeysMeetTheirDialog'
  BY DEF DialogsInOrder, LastIsOpen, KeysMeetTheirDialog, Quiet, Is
<1>6. TurnsHeld'
  <2>1. r # "ingest"
    BY RequestsAssumption
  <2> QED
    BY <1>3, <2>1 DEF TurnsHeld, AtWork
<1>7. WorkAlone'
  <2> SUFFICES ASSUME NEW o \in Devices, rsp[o].phase \in AtWork, rsp'[o] = rsp[o], rsp[o].q \in DOMAIN reqs
               PROVE  /\ reqs'[rsp[o].q].status # "resolved"
                      /\ \A b \in DOMAIN reqs' : b # rsp[o].q =>
                           /\ reqs'[b].status # "pending"
                           /\ reqs'[b].status = "resolved" /\ reqs'[b].d = reqs'[rsp[o].q].d => reqs'[b].d \in excused'
    BY <1>3 DEF WorkAlone, Is, AtWork
  <2> QED
    BY DEF WorkAlone, Quiet, Is
<1>8. Looked'
  <2> SUFFICES ASSUME NEW o \in Devices, rsp[o].phase \in {"keys", "commit"}, rsp'[o] = rsp[o], rsp[o].q \in DOMAIN reqs
               PROVE  /\ \A a \in DOMAIN reqs' : reqs'[a].status = "resolved" /\ reqs'[a].d # reqs'[rsp[o].q].d
                                                  => screen' # reqs'[a].d
                      /\ rsp[o].phase = "keys" /\ ~drift' => screen' = reqs'[rsp[o].q].d
    BY <1>3 DEF Looked, Is
  <2> QED
    BY DEF Looked, Quiet, Is
<1> QED
  BY <1>4, <1>5, <1>6, <1>7, <1>8, QuietAnswers

\* A handler that ends and has answered nothing.
LEMMA DoneKeeps ==
  ASSUME RequestsInv, Quiet, NEW r \in Devices, rsp' = [rsp EXCEPT ![r] = Idle],
         turn' = IF turn = r THEN "free" ELSE turn,
         UNCHANGED <<screen, shown, text, status, archived, pass, drift, misfired, recent, excused>>
  PROVE  RequestsInv'
  BY DoneHandlers, QuietAnswers DEF RequestsInv

\* A handler that goes on in its turn: the others are not at work.
LEMMA GoesOn ==
  ASSUME RequestsInv, NEW r \in Devices, rsp[r].phase # "idle", turn \in {"free", r}, pass' = pass, turn' = r,
         NEW phase \in AtWork, NEW left \in Int,
         rsp' = [rsp EXCEPT ![r].left = left, ![r].phase = phase],
         UNCHANGED <<reqs, screen, shown, text, status, archived, recent, excused>>
  PROVE  /\ RequestsType' /\ DialogsInOrder' /\ LastIsOpen' /\ TurnsHeld' /\ AnsweredIsKnown' /\ AnsweredOnce'
         /\ rsp'[r].phase = phase /\ rsp'[r].q = rsp[r].q /\ rsp[r].q \in DOMAIN reqs
         /\ \A o \in Devices : rsp'[o].phase \in AtWork => o = r
<1> USE DEF RequestsInv
<1>1. /\ rsp'[r].phase = phase /\ rsp'[r].q = rsp[r].q
      /\ \A o \in Devices : o # r => rsp'[o] = rsp[o]
  BY DEF RequestsType
<1>2. rsp' \in [Devices -> [phase : {"idle", "wait"} \cup AtWork, q : Nat, left : Int, kind : Kinds]]
  BY DEF RequestsType
<1>3. rsp[r].q \in DOMAIN reqs
  BY HandlerType
<1>4. RequestsType'
  BY <1>1, <1>2, <1>3 DEF RequestsType
<1>5. r # "ingest" /\ r # "free" /\ \A o \in Devices : o # "free"
  BY RequestsAssumption
<1>6. \A o \in Devices : rsp'[o].phase \in AtWork => o = r
  BY <1>1, <1>5 DEF TurnsHeld
<1>7. TurnsHeld'
  BY <1>5, <1>6 DEF TurnsHeld
<1>8. DialogsInOrder' /\ LastIsOpen' /\ AnsweredIsKnown' /\ AnsweredOnce'
  BY DEF DialogsInOrder, LastIsOpen, AnsweredIsKnown, AnsweredOnce, Is
<1> QED
  BY <1>1, <1>3, <1>4, <1>6, <1>7, <1>8

\* The turn: the request is still open, so it is the only one, and an answer to its dialog is excused.
LEMMA TurnKeeps ==
  ASSUME RequestsInv, NEW r \in Devices, Turn(r)
  PROVE  RequestsInv' /\ Quiet
<1> USE DEF RequestsInv
<1>1. /\ rsp[r].phase = "wait" /\ turn = "free"
      /\ UNCHANGED <<screen, shown, text, status, archived, reqs, pass, drift, misfired, recent, excused>>
  BY DEF Turn, world, ingest
<1>2. Quiet
  BY <1>1, UnchangedQuietly
<1>3. r # "free"
  BY RequestsAssumption
<1>4. CASE rsp[r].q \notin Pending
  BY <1>1, <1>2, <1>3, <1>4, DoneKeeps DEF Turn, Done
<1>5. CASE rsp[r].q \in Pending
  <2>1. rsp' = [rsp EXCEPT ![r].phase = "bind"] /\ turn' = r
    BY <1>5 DEF Turn
  <2>2. rsp' = [rsp EXCEPT ![r].left = rsp[r].left, ![r].phase = "bind"] /\ rsp[r].left \in Int
    BY <2>1 DEF RequestsType
  <2>3. /\ RequestsType' /\ DialogsInOrder' /\ LastIsOpen' /\ TurnsHeld' /\ AnsweredIsKnown' /\ AnsweredOnce'
        /\ rsp'[r].phase = "bind" /\ rsp'[r].q = rsp[r].q /\ rsp[r].q \in DOMAIN reqs
        /\ \A o \in Devices : rsp'[o].phase \in AtWork => o = r
    BY <1>1, <2>1, <2>2, GoesOn DEF AtWork
  <2>4. /\ ~Is(rsp[r].q, "resolved") /\ Is(rsp[r].q, "pending")
        /\ \A b \in DOMAIN reqs : b # rsp[r].q =>
             /\ ~Is(b, "pending")
             /\ Is(b, "resolved") /\ reqs[b].d = reqs[rsp[r].q].d => reqs[b].d \in excused
    BY <1>5 DEF Pending, LastIsOpen, AnsweredOnce, Is
  <2>5. WorkAlone'
    BY <1>1, <2>3, <2>4 DEF WorkAlone, Is
  <2>6. Looked'
    BY <2>3 DEF Looked, AtWork
  <2> QED
    BY <1>1, <1>2, <2>3, <2>5, <2>6 DEF KeysMeetTheirDialog
<1> QED
  BY <1>4, <1>5

\* A handler at work has the turn.
LEMMA HasTurn ==
  ASSUME RequestsInv, NEW r \in Devices, rsp[r].phase \in AtWork
  PROVE  turn = r
  BY DEF RequestsInv, TurnsHeld

\* The look: the dialog is on the screen, or its request expires.
LEMMA BindKeeps ==
  ASSUME RequestsInv, NEW r \in Devices, Bind(r)
  PROVE  RequestsInv' /\ Quiet
<1> USE DEF RequestsInv
<1>1. /\ rsp[r].phase = "bind" /\ turn = r
      /\ UNCHANGED <<screen, shown, text, status, archived, pass, misfired, recent, excused>>
  BY HasTurn DEF Bind, world, ingest, AtWork
<1>2. /\ rsp[r].q \in DOMAIN reqs /\ ~Is(rsp[r].q, "resolved")
      /\ \A b \in DOMAIN reqs : b # rsp[r].q =>
           /\ ~Is(b, "pending")
           /\ Is(b, "resolved") /\ reqs[b].d = reqs[rsp[r].q].d => reqs[b].d \in excused
  BY <1>1, HandlerType DEF WorkAlone, AtWork
<1>3. CASE ~Matches(reqs[rsp[r].q].d)
  <2>1. /\ reqs' = Marked(reqs, {rsp[r].q}, "expired") /\ UNCHANGED drift
        /\ rsp' = [rsp EXCEPT ![r] = Idle] /\ turn' = "free"
    BY <1>3 DEF Bind, Done
  <2>2. Quiet
    BY <1>2, <2>1, MarkingTakes, ExpiresQuietly
  <2> QED
    BY <1>1, <2>1, <2>2, DoneKeeps
<1>4. CASE Matches(reqs[rsp[r].q].d)
  <2>1. rsp' = [rsp EXCEPT ![r].phase = "keys"] /\ drift' = FALSE /\ UNCHANGED <<reqs, turn>>
    BY <1>4 DEF Bind
  <2>2. rsp' = [rsp EXCEPT ![r].left = rsp[r].left, ![r].phase = "keys"] /\ rsp[r].left \in Int
    BY <2>1 DEF RequestsType
  <2>3. /\ RequestsType' /\ DialogsInOrder' /\ LastIsOpen' /\ TurnsHeld' /\ AnsweredIsKnown' /\ AnsweredOnce'
        /\ rsp'[r].phase = "keys" /\ rsp'[r].q = rsp[r].q /\ rsp[r].q \in DOMAIN reqs
        /\ \A o \in Devices : rsp'[o].phase \in AtWork => o = r
    BY <1>1, <2>1, <2>2, GoesOn DEF AtWork
  <2>4. WorkAlone'
    BY <1>1, <1>2, <2>1, <2>3 DEF WorkAlone, Is
  <2>5. Looked'
    BY <1>1, <1>4, <2>1, <2>3 DEF Looked, Matches, Is, AtWork
  <2> QED
    BY <1>1, <2>1, <2>3, <2>4, <2>5, UnchangedQuietly DEF KeysMeetTheirDialog
<1> QED
  BY <1>3, <1>4

\* A key.
LEMMA KeyKeeps ==
  ASSUME RequestsInv, NEW r \in Devices, Key(r)
  PROVE  RequestsInv' /\ Quiet
<1> USE DEF RequestsInv
<1> DEFINE left == rsp[r].left - 1
           phase == IF left = 0 THEN "commit" ELSE "bind"
<1>1. /\ rsp[r].phase = "keys" /\ turn = r
      /\ misfired' = (misfired \/ (screen # reqs[rsp[r].q].d /\ ~drift))
      /\ rsp' = [rsp EXCEPT ![r].left = left, ![r].phase = phase]
      /\ UNCHANGED <<screen, shown, text, status, archived, reqs, turn, pass, drift, recent, excused>>
  BY HasTurn DEF Key, ingest, AtWork
<1>2. left \in Int /\ phase \in AtWork /\ phase # "keys"
  BY DEF RequestsType, AtWork
<1> HIDE DEF left, phase
<1>3. /\ RequestsType' /\ DialogsInOrder' /\ LastIsOpen' /\ TurnsHeld' /\ AnsweredIsKnown' /\ AnsweredOnce'
      /\ rsp'[r].phase = phase /\ rsp'[r].q = rsp[r].q /\ rsp[r].q \in DOMAIN reqs
      /\ \A o \in Devices : rsp'[o].phase \in AtWork => o = r
  BY <1>1, <1>2, GoesOn
<1>4. WorkAlone'
  BY <1>1, <1>3 DEF WorkAlone, Is, AtWork
<1>5. Looked'
  BY <1>1, <1>2, <1>3 DEF Looked, Is, AtWork
<1>6. KeysMeetTheirDialog'
  BY <1>1 DEF KeysMeetTheirDialog, Looked
<1> QED
  BY <1>1, <1>3, <1>4, <1>5, <1>6, UnchangedQuietly

\* A read or a send of a handler fails.
LEMMA RespondFailsKeeps ==
  ASSUME RequestsInv, NEW r \in Devices, RespondFails(r)
  PROVE  RequestsInv' /\ Quiet
<1>1. Quiet
  BY UnchangedQuietly DEF RespondFails, RequestsInv
<1> QED
  BY <1>1, DoneKeeps DEF RespondFails, world, ingest

\* The answer: nothing else of its dialog stands, and what it makes the bridge forget is gone from the
\* screen since the look, or excused.
LEMMA ResolveKeeps ==
  ASSUME RequestsInv, NEW r \in Devices, Resolve(r)
  PROVE  RequestsInv' /\ (Quiet \/ Takes({rsp[r].q}, "resolved"))
<1> USE DEF RequestsInv
<1> DEFINE q == rsp[r].q
<1>1. /\ rsp[r].phase = "commit" /\ turn = r /\ recent' = reqs[q].d
      /\ rsp' = [rsp EXCEPT ![r] = Idle] /\ turn' = "free"
      /\ UNCHANGED <<screen, shown, text, status, archived, pass, drift, misfired, excused>>
  BY HasTurn DEF Resolve, Done, world, AtWork
<1>2. /\ q \in DOMAIN reqs /\ ~Is(q, "resolved")
      /\ \A b \in DOMAIN reqs : b # q =>
           /\ ~Is(b, "pending")
           /\ Is(b, "resolved") /\ reqs[b].d = reqs[q].d => reqs[b].d \in excused
      /\ \A a \in DOMAIN reqs : Is(a, "resolved") /\ reqs[a].d # reqs[q].d => screen # reqs[a].d
  BY <1>1, HandlerType DEF WorkAlone, Looked, AtWork
<1>3. text = 0 /\ r # "ingest"
  BY <1>1, RequestsAssumption DEF TurnsHeld, DialogsInOrder
<1>4. CASE rsp[r].kind = "walk"
  <2>1. reqs' = Marked(reqs, {q}, "expired")
    BY <1>4 DEF Resolve
  <2>2. Quiet
    BY <1>2, <2>1, MarkingTakes, ExpiresQuietly
  <2>3. AnsweredIsKnown'
    BY <1>1, <1>2, <1>3, <2>2, DialogType DEF AnsweredIsKnown, Quiet, Is
  <2> QED
    BY <1>1, <2>2, <2>3, DoneHandlers
<1>5. CASE rsp[r].kind # "walk"
  <2>1. reqs' = Marked(reqs, {q}, "resolved")
    BY <1>5 DEF Resolve
  <2>2. Takes({q}, "resolved")
    BY <2>1, MarkingTakes
  <2>3. /\ reqs' \in Seq(Request) /\ Len(reqs') = Len(reqs) /\ DOMAIN reqs' = DOMAIN reqs
        /\ \A b \in DOMAIN reqs : /\ reqs'[b].d = reqs[b].d
                                  /\ reqs'[b].status = IF b = q THEN "resolved" ELSE reqs[b].status
    BY <2>2 DEF Takes, RequestsType
  <2>4. rsp'[r] = Idle /\ \A o \in Devices : o # r => rsp'[o] = rsp[o]
    BY <1>1 DEF RequestsType
  <2>5. rsp' \in [Devices -> [phase : {"idle", "wait"} \cup AtWork, q : Nat, left : Int, kind : Kinds]]
    BY <1>1 DEF RequestsType, Idle, Kinds
  <2>6. RequestsType'
    BY <1>1, <2>3, <2>4, <2>5 DEF RequestsType, Idle
  <2>7. \A o \in Devices : rsp'[o].phase \notin AtWork
    BY <1>1, <2>4 DEF TurnsHeld, Idle, AtWork
  <2>8. TurnsHeld' /\ WorkAlone' /\ Looked' /\ KeysMeetTheirDialog'
    BY <1>1, <1>3, <2>7 DEF TurnsHeld, WorkAlone, Looked, KeysMeetTheirDialog, AtWork
  <2>9. DialogsInOrder' /\ LastIsOpen'
    BY <1>1, <2>3 DEF DialogsInOrder, LastIsOpen, Is
  <2>10. AnsweredIsKnown'
    BY <1>1, <1>2, <1>3, <2>3, DialogType DEF AnsweredIsKnown, Is
  <2>11. AnsweredOnce'
    <3> SUFFICES ASSUME NEW a \in DOMAIN reqs, NEW b \in DOMAIN reqs, a # b, reqs[a].d = reqs[b].d,
                        reqs'[a].status = "resolved", reqs'[b].status # "expired"
                 PROVE  reqs[a].d \in excused
      BY <1>1, <2>3 DEF AnsweredOnce
    <3>0. reqs[b] \in Request
      BY DEF RequestsType
    <3>1. reqs[b].status \in {"pending", "resolved", "expired"}
      BY <3>0 DEF Request
    <3>2. CASE a = q
      BY <1>2, <2>3, <3>1, <3>2 DEF Is
    <3>3. CASE b = q
      BY <1>2, <2>3, <3>3 DEF Is
    <3>4. CASE a # q /\ b # q
      BY <2>3, <3>4 DEF AnsweredOnce
    <3> QED
      BY <3>2, <3>3, <3>4
  <2> QED
    BY <2>2, <2>6, <2>8, <2>9, <2>10, <2>11
<1> QED
  BY <1>4, <1>5

\* A restart excuses what it makes the bridge forget.
LEMMA RestartKeeps == RequestsInv /\ Restart => RequestsInv' /\ Quiet
<1> SUFFICES ASSUME RequestsInv, Restart PROVE RequestsInv' /\ Quiet
    OBVIOUS
<1> USE DEF RequestsInv
<1>1. /\ rsp' = [r \in Devices |-> Idle] /\ turn' = "free" /\ pass' = "idle" /\ text' = 0 /\ recent' = 0
      /\ excused' = excused \cup ({recent} \ {0})
      /\ UNCHANGED <<screen, shown, status, archived, reqs, drift, misfired>>
  BY DEF Restart, world
<1>2. RequestsType'
  BY <1>1, RequestsAssumption DEF RequestsType, Idle, Kinds
<1>3. TurnsHeld' /\ WorkAlone' /\ Looked' /\ KeysMeetTheirDialog'
  BY <1>1 DEF TurnsHeld, WorkAlone, Looked, KeysMeetTheirDialog, Idle, AtWork
<1>4. DialogsInOrder'
  <2>1. text' <= shown'
    BY <1>1, RequestsAssumption DEF RequestsType
  <2> QED
    BY <1>1, <2>1 DEF DialogsInOrder
<1>5. LastIsOpen' /\ AnsweredOnce'
  BY <1>1 DEF LastIsOpen, AnsweredOnce, Is
<1>6. AnsweredIsKnown'
  BY <1>1, DialogType DEF AnsweredIsKnown, Is
<1> QED
  BY <1>1, <1>2, <1>3, <1>4, <1>5, <1>6, UnchangedQuietly

-----------------------------------------------------------------------------
(* The theorems. *)

\* No step takes an answer back.
Stands == \A q \in DOMAIN reqs : reqs[q].status = "resolved" => reqs'[q].status = "resolved"

\* Each way to change the requests leaves the answers.
LEMMA AnswersLeft ==
  /\ Quiet => Stands
  /\ Opens => Stands
  /\ \A S : Takes(S, "resolved") => Stands
  BY DEF Quiet, Opens, Takes, Stands, Pending

\* Nothing is asked or answered at first.
LEMMA InitRequests == Init => RequestsInv
<1> SUFFICES ASSUME Init PROVE RequestsInv
    OBVIOUS
<1> USE DEF Init
<1>0. <<>> \in Seq(Request) /\ Idle \in [phase : {"idle", "wait"} \cup AtWork, q : Nat, left : Int, kind : Kinds]
  BY DEF Idle, Kinds
<1>1. RequestsType
  <2>1. screen \in 0..MaxDialogs /\ shown \in 0..MaxDialogs /\ text \in 0..MaxDialogs /\ reqs \in Seq(Request)
    BY <1>0, RequestsAssumption
  <2>2. \A r \in Devices : rsp[r].phase = "idle"
    BY DEF Idle
  <2>3. rsp \in [Devices -> [phase : {"idle", "wait"} \cup AtWork, q : Nat, left : Int, kind : Kinds]]
    BY <1>0
  <2> QED
    BY <2>1, <2>2, <2>3 DEF RequestsType
<1>2. DOMAIN reqs = {} /\ \A r \in Devices : rsp[r].phase = "idle"
  BY DEF Idle
<1>3. DialogsInOrder /\ LastIsOpen /\ AnsweredIsKnown /\ AnsweredOnce
  BY <1>2 DEF DialogsInOrder, LastIsOpen, AnsweredIsKnown, AnsweredOnce
<1>4. TurnsHeld /\ WorkAlone /\ Looked /\ KeysMeetTheirDialog
  BY <1>2 DEF TurnsHeld, WorkAlone, Looked, KeysMeetTheirDialog, AtWork
<1> QED
  BY <1>1, <1>3, <1>4 DEF RequestsInv

\* Every step keeps the invariant and the answers.
LEMMA NextRequests == RequestsInv /\ [Next]_vars => RequestsInv' /\ Stands
<1> SUFFICES ASSUME RequestsInv, [Next]_vars PROVE RequestsInv' /\ Stands
    OBVIOUS
<1>1. ASSUME UNCHANGED reqs PROVE Stands
  BY <1>1 DEF Stands
<1>2. CASE Ask
  <2>1. shown + 1 <= MaxDialogs
    BY <1>2, RequestsAssumption DEF Ask, RequestsInv, RequestsType
  <2> QED
    BY <1>1, <1>2, <2>1, ShowsKeeps DEF Ask, ingest
<1>3. CASE Ignored
  <2>1. UNCHANGED <<screen, shown, status, archived, reqs, turn, pass, text, recent, rsp, drift, misfired, excused>>
    BY <1>3 DEF Ignored, ingest
  <2> QED
    BY <1>1, <2>1, UnchangedQuietly, QuietKeeps DEF RequestsInv, RequestsType
<1>4. ASSUME NEW d \in 0..MaxDialogs, Answered(d) PROVE RequestsInv' /\ Stands
  <2>1. d \in {0, shown + 1} /\ d <= MaxDialogs
    BY <1>4, RequestsAssumption DEF Answered, NextDialogs
  <2> QED
    BY <1>1, <1>4, <2>1, ShowsKeeps DEF Answered, ingest
<1>5. CASE HerdPoll
  BY <1>1, <1>5, HerdPollKeeps DEF HerdPoll
<1>6. CASE HerdGone \/ PassStart \/ PassEnds \/ Restart
  BY <1>6, HerdGoneKeeps, PassStartHolds, PassEndsKeeps, RestartKeeps, AnswersLeft
<1>7. CASE PassRead
  BY <1>1, <1>7, PassReadKeeps DEF PassRead
<1>8. CASE PassFails
  BY <1>1, <1>8, PassFailsKeeps DEF PassFails
<1>9. CASE GraceOver
  BY <1>1, <1>9, GraceOverKeeps DEF GraceOver
<1>10. ASSUME NEW r \in Devices, NEW kind \in Kinds, Tap(r, kind) PROVE RequestsInv' /\ Stands
  BY <1>1, <1>10, TapKeeps DEF Tap
<1>11. ASSUME NEW r \in Devices, Turn(r) \/ Bind(r) \/ Key(r) \/ RespondFails(r) PROVE RequestsInv' /\ Stands
  BY <1>11, TurnKeeps, BindKeeps, KeyKeeps, RespondFailsKeeps, AnswersLeft
<1>12. ASSUME NEW r \in Devices, Resolve(r) PROVE RequestsInv' /\ Stands
  BY <1>12, ResolveKeeps, AnswersLeft
<1>13. CASE UNCHANGED vars
  <2>1. UNCHANGED <<screen, shown, status, archived, reqs, turn, pass, text, recent, rsp, drift, misfired, excused>>
    BY <1>13 DEF vars
  <2> QED
    BY <1>1, <2>1, UnchangedQuietly, QuietKeeps DEF RequestsInv, RequestsType
<1> QED
  BY <1>2, <1>3, <1>4, <1>5, <1>6, <1>7, <1>8, <1>9, <1>10, <1>11, <1>12, <1>13 DEF Next

\* The inductive invariant holds of request-ingest.ts and respond.ts together.
LEMMA RequestsHold == Spec => []RequestsInv
  BY InitRequests, NextRequests, PTL DEF Spec

\* One question is open at most, and none once the pane is gone (request-ingest.ts, `commit`).
THEOREM OneQuestionOpen == Spec => []OneOpen
<1>1. RequestsInv => OneOpen
  <2> SUFFICES ASSUME RequestsInv PROVE OneOpen
      OBVIOUS
  <2>1. Pending = {} \/ Pending = {Len(reqs)}
    BY DEF RequestsInv, LastIsOpen, Pending, Is
  <2>2. archived => Pending = {}
    BY DEF RequestsInv, LastIsOpen, Pending, Is
  <2>3. Cardinality(Pending) = 0 \/ (~archived /\ Cardinality(Pending) = 1)
    BY <2>1, <2>2, FS_EmptySet, FS_Singleton
  <2> QED
    BY <2>3 DEF OneOpen
<1> QED
  BY <1>1, RequestsHold, PTL

\* A handler's key goes to the dialog it looked at, unless the agent or the desk changed the screen
\* after the look (respond.ts, the look before every key).
THEOREM KeysMeetDialogs == Spec => []KeysMeetTheirDialog
<1>1. RequestsInv => KeysMeetTheirDialog
  BY DEF RequestsInv
<1> QED
  BY <1>1, RequestsHold, PTL

\* A dialog is answered once, whoever taps and however often, until its grace is over.
THEOREM DialogsAnsweredOnce == Spec => []AnsweredOnce
<1>1. RequestsInv => AnsweredOnce
  BY DEF RequestsInv
<1> QED
  BY <1>1, RequestsHold, PTL

\* No pass, archive, step or restart takes an answer back.
THEOREM AnswersAlwaysStand == Spec => AnswersStand
<1>1. RequestsInv /\ [Next]_vars => [Stands]_vars
  BY NextRequests
<1> QED
  BY <1>1, RequestsHold, PTL DEF Spec, AnswersStand, Stands
=============================================================================
