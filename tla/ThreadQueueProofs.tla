------------------------- MODULE ThreadQueueProofs -------------------------
(***************************************************************************)
(* Proofs about the queue of a thread, for any set of messages, any modes, *)
(* reads and outcomes:                                                     *)
(*                                                                         *)
(*   - a message is submitted at most once per run of the bridge, and a    *)
(*     row that is `sending` has an owner (SendInv), as long as the thread *)
(*     is not archived: an archive holds a row whose send is in flight,    *)
(*     and a resume may send it again;                                     *)
(*   - the types, and the table is a queue (QueueInv), with any number of  *)
(*     handlers, restarts and archives;                                    *)
(*   - no accepted message is lost (LossInv), with one handler in flight   *)
(*     at a time, any restarts and archives;                               *)
(*   - the drainer waits to be released between two messages, and lets a   *)
(*     steer go first (ReleaseInv), with any number of each;               *)
(*   - the dispatcher implements MessageLife (LifeInv), with one handler   *)
(*     at a time, no restart and no archive.                               *)
(***************************************************************************)
EXTENDS ThreadQueue, FiniteSetTheorems, SequenceTheorems, WellFoundedInduction, TLAPS

-----------------------------------------------------------------------------
(* A message is submitted at most once *)

\* What the argument needs of the types.
SendTypes ==
    /\ rowState \in [Msgs -> {"absent", "queued", "sending", "held"}]
    /\ pc \in [Msgs -> Places]
    /\ out \in [Msgs -> Results]
    /\ sends \in [Msgs -> Nat]
    /\ pass = [pc |-> pass.pc, row |-> pass.row, at |-> pass.at, res |-> pass.res,
               strikes |-> pass.strikes, forgotten |-> pass.forgotten]
    /\ spent \in [crashes : Nat, archives : Nat, gaps : Nat]
    /\ closing = FALSE
    /\ shelf = "active"

\* The drain pass is sending the message.
Draining(m) == pass.pc = "send" /\ pass.row = m

\* The message has not been submitted since the last restart.
Unsent(m) == sends[m] <= spent.crashes

\* Where a message is and whether it may have been submitted. A row that waits was not, and its
\* handler is done; a row on its way has one owner; what is on its way was submitted only if its
\* outcome says so.
MessageOK(m) ==
    /\ sends[m] <= spent.crashes + 1
    /\ rowState[m] \in {"queued", "held"} => pc[m] = "rowed" /\ Unsent(m)
    /\ rowState[m] = "sending" => pc[m] \in Steering \/ Draining(m)
    /\ pc[m] \in {"new", "refused", "box", "bgStart", "bgSteer"} => Unsent(m)
    /\ pc[m] \in Steering \ {"sSend"} => Unsent(m)
    /\ pc[m] \in {"start", "sSend"} /\ out[m] # "sent" => Unsent(m)
    /\ Draining(m) => /\ pc[m] = "rowed" /\ rowState[m] \in {"sending", "absent"}
                      /\ pass.res # "sent" => Unsent(m)

SendInv == SendTypes /\ \A m \in Msgs : MessageOK(m)

\* The first state satisfies the invariant.
LEMMA InitSendInv == Init => SendInv
  BY DEF Init, SendInv, SendTypes, MessageOK, Draining, Unsent, Places, Handling, Steering, Results,
         AllOutcomes, IdlePass

\* A step that leaves the rows, the handlers, the pass and the sends alone keeps the invariant.
LEMMA FrameKeeps ==
    ASSUME SendInv, UNCHANGED <<rowState, pc, out, pass, sends, closing, shelf>>,
           spent' \in [crashes : Nat, archives : Nat, gaps : Nat], spent'.crashes = spent.crashes
    PROVE  SendInv'
  BY DEF SendInv, SendTypes, MessageOK, Draining, Unsent

\* A step of one message: the others stay as they are, or lose their row to a stale write.
LEMMA OneMessage ==
    ASSUME SendInv, NEW m \in Msgs, NEW place \in Places, NEW o \in Results,
           pc' = [pc EXCEPT ![m] = place],
           out' = [out EXCEPT ![m] = o],
           rowState' \in [Msgs -> {"absent", "queued", "sending", "held"}],
           \A k \in Msgs \ {m} : rowState'[k] \in {rowState[k], "absent"},
           UNCHANGED <<pass, spent, sends, closing, shelf>>,
           MessageOK(m)'
    PROVE  SendInv'
<1>1. SendTypes'
  BY DEF SendInv, SendTypes
<1>2. ASSUME NEW k \in Msgs, k # m PROVE MessageOK(k)'
  <2>1. MessageOK(k) /\ pc'[k] = pc[k] /\ out'[k] = out[k] /\ sends'[k] = sends[k]
    BY <1>2 DEF SendInv, SendTypes
  <2> QED
    BY <2>1, <1>2 DEF MessageOK, Draining, Unsent
<1> QED
  BY <1>1, <1>2 DEF SendInv

\* What is known of a message whose handler is at work: it has no row and was not submitted.
LEMMA Fresh ==
    ASSUME SendInv, NEW m \in Msgs, pc[m] \in {"new", "refused", "box", "bgStart", "bgSteer"}
    PROVE  rowState[m] = "absent" /\ ~Draining(m) /\ Unsent(m) /\ sends[m] \in Nat /\ spent.crashes \in Nat
  BY DEF SendInv, SendTypes, MessageOK, Steering

\* What is known of a message whose steer has not been sent yet.
LEMMA Waits ==
    ASSUME SendInv, NEW m \in Msgs, pc[m] \in Steering \ {"sSend"}
    PROVE  rowState[m] \in {"sending", "absent"} /\ ~Draining(m) /\ Unsent(m) /\ sends[m] \in Nat /\ spent.crashes \in Nat
  BY DEF SendInv, SendTypes, MessageOK, Steering

\* A start sets out with a message that was not submitted.
LEMMA StartPathKeeps ==
    ASSUME SendInv, NEW m \in Msgs, pc[m] \in {"new", "refused", "box", "bgStart", "bgSteer"}, StartPath(m),
           UNCHANGED <<pass, spent, sends, closing, shelf>>
    PROVE  SendInv'
<1> DEFINE o == IF listed THEN "none" ELSE "gone"
<1>1. "start" \in Places /\ o \in Results
  BY DEF Places, Handling, Results
<1>2. /\ pc' = [pc EXCEPT ![m] = "start"] /\ out' = [out EXCEPT ![m] = o] /\ rowState' = rowState
  BY DEF StartPath, Begun, queueVars
<1>3. pc'[m] = "start" /\ rowState \in [Msgs -> {"absent", "queued", "sending", "held"}]
  BY <1>2 DEF SendInv, SendTypes
<1>4. MessageOK(m)'
  BY <1>2, <1>3, Fresh DEF MessageOK, Draining, Unsent, Steering
<1> QED
  BY <1>1, <1>2, <1>3, <1>4, OneMessage

\* A refused message was not submitted.
LEMMA PlaceKeeps ==
    ASSUME SendInv, NEW m \in Msgs, pc[m] \in {"new", "refused", "box", "bgStart", "bgSteer"},
           NEW place \in {"refused", "box", "bgStart", "bgSteer"},
           pc' = [pc EXCEPT ![m] = place],
           UNCHANGED <<rowState, out, pass, spent, sends, closing, shelf>>
    PROVE  SendInv'
<1>1. place \in Places /\ out[m] \in Results /\ out' = [out EXCEPT ![m] = out[m]]
  BY DEF Places, Handling, SendInv, SendTypes
<1>2. pc'[m] = place /\ rowState \in [Msgs -> {"absent", "queued", "sending", "held"}]
  BY DEF SendInv, SendTypes
<1>3. MessageOK(m)'
  BY <1>2, Fresh DEF MessageOK, Draining, Unsent, Steering
<1> QED
  BY <1>1, <1>2, <1>3, OneMessage

\* A new row was not submitted; what it drops from the table is not waiting any more.
LEMMA CommitRowKeeps ==
    ASSUME SendInv, NEW m \in Msgs, pc[m] \in {"new", "refused", "box", "bgStart", "bgSteer"},
           NEW rows, CommitRow(m, rows), UNCHANGED <<pass, spent, sends, closing, shelf>>
    PROVE  SendInv'
<1>1. /\ "rowed" \in Places /\ out[m] \in Results /\ out' = [out EXCEPT ![m] = out[m]]
      /\ pc' = [pc EXCEPT ![m] = "rowed"]
  BY DEF Places, SendInv, SendTypes, CommitRow, Rowed
<1>2. \A k \in Msgs : rowState[k] \in {"absent", "queued", "sending", "held"}
  BY DEF SendInv, SendTypes
<1>3. /\ rowState' \in [Msgs -> {"absent", "queued", "sending", "held"}]
      /\ \A k \in Msgs \ {m} : rowState'[k] \in {rowState[k], "absent"}
      /\ rowState'[m] = "queued"
  BY <1>2 DEF CommitRow
<1>4. pc'[m] = "rowed"
  BY <1>1 DEF SendInv, SendTypes
<1>5. MessageOK(m)'
  BY <1>3, <1>4, Fresh DEF MessageOK, Draining, Unsent, Steering
<1> QED
  BY <1>1, <1>3, <1>5, OneMessage

\* A message handled with a row: it waits in the table, or its row is gone.
LEMMA RowedKeeps ==
    ASSUME SendInv, NEW m \in Msgs, pc[m] \in Steering \ {"sSend"}, pc' = [pc EXCEPT ![m] = "rowed"],
           NEW r \in {"absent", "queued", "held"}, rowState' = [rowState EXCEPT ![m] = r],
           UNCHANGED <<out, pass, spent, sends, closing, shelf>>
    PROVE  SendInv'
<1>1. "rowed" \in Places /\ out[m] \in Results /\ out' = [out EXCEPT ![m] = out[m]]
  BY DEF Places, SendInv, SendTypes
<1>2. /\ rowState' \in [Msgs -> {"absent", "queued", "sending", "held"}]
      /\ \A k \in Msgs \ {m} : rowState'[k] \in {rowState[k], "absent"}
      /\ rowState'[m] = r /\ pc'[m] = "rowed"
  BY DEF SendInv, SendTypes
<1>3. MessageOK(m)'
  BY <1>2, Waits DEF MessageOK, Draining, Unsent, Steering
<1> QED
  BY <1>1, <1>2, <1>3, OneMessage

\* A steer moves on to its next wait.
LEMMA SteerMoves ==
    ASSUME SendInv, NEW m \in Msgs, pc[m] \in Steering \ {"sSend"}, NEW place \in Steering \ {"sSend"},
           pc' = [pc EXCEPT ![m] = place],
           UNCHANGED <<rowState, out, pass, spent, sends, closing, shelf>>
    PROVE  SendInv'
<1>1. place \in Places /\ out[m] \in Results /\ out' = [out EXCEPT ![m] = out[m]]
  BY DEF Places, SendInv, SendTypes
<1>2. pc'[m] = place /\ rowState \in [Msgs -> {"absent", "queued", "sending", "held"}]
  BY DEF SendInv, SendTypes
<1>3. MessageOK(m)'
  BY <1>2, Waits DEF MessageOK, Draining, Unsent, Steering
<1> QED
  BY <1>1, <1>2, <1>3, OneMessage

\* A steer is sent: its row was not submitted. One that is left alone lost its row.
LEMMA SteerSendKeeps ==
    ASSUME SendInv, NEW m \in Msgs, pc[m] \in Steering \ {"sSend"}, SteerSend(m),
           UNCHANGED <<pass, spent, sends, closing, shelf>>
    PROVE  SendInv'
<1>1. CASE rowState[m] # "sending"
  <2>1. rowState[m] = "absent"
    BY <1>1, Waits
  <2>2. rowState' = [rowState EXCEPT ![m] = "absent"]
    BY <1>1, <2>1 DEF SteerSend, queueVars, SendInv, SendTypes
  <2> QED
    BY <1>1, <2>2, RowedKeeps DEF SteerSend, Rowed
<1>2. CASE rowState[m] = "sending"
  <2> DEFINE o == IF listed THEN "none" ELSE "gone"
  <2>1. "sSend" \in Places /\ o \in Results
    BY DEF Places, Steering, Results
  <2>2. pc' = [pc EXCEPT ![m] = "sSend"] /\ out' = [out EXCEPT ![m] = o] /\ rowState' = rowState
    BY <1>2 DEF SteerSend, Begun, Archived, queueVars, SendInv, SendTypes
  <2>3. pc'[m] = "sSend" /\ rowState \in [Msgs -> {"absent", "queued", "sending", "held"}]
    BY <2>2 DEF SendInv, SendTypes
  <2>4. MessageOK(m)'
    BY <1>2, <2>2, <2>3, Waits DEF MessageOK, Draining, Unsent, Steering
  <2> QED
    BY <2>1, <2>2, <2>3, <2>4, OneMessage
<1> QED
  BY <1>1, <1>2

\* The steer goes on once the thread is settled, or waits for it.
LEMMA WaitSettledKeeps ==
    ASSUME SendInv, NEW m \in Msgs, pc[m] \in Steering \ {"sSend"}, WaitSettled(m),
           UNCHANGED <<pass, spent, sends, closing, shelf>>
    PROVE  SendInv'
<1>1. CASE Settled
  BY <1>1, SteerSendKeeps DEF WaitSettled, Archived, SendInv, SendTypes
<1>2. CASE ~Settled
  <2>1. "sWait" \in Steering \ {"sSend"} /\ pc' = [pc EXCEPT ![m] = "sWait"] /\ UNCHANGED <<rowState, out>>
    BY <1>2 DEF WaitSettled, Archived, queueVars, Steering, SendInv, SendTypes
  <2> QED
    BY <2>1, SteerMoves
<1> QED
  BY <1>1, <1>2

\* A steer given up before it was sent is held, if it still has its row.
LEMMA HoldSteerKeeps ==
    ASSUME SendInv, NEW m \in Msgs, NEW reason, pc[m] \in Steering \ {"sSend"}, HoldSteer(m, reason),
           UNCHANGED <<out, pass, spent, sends, closing, shelf>>
    PROVE  SendInv'
<1>1. CASE Present(m)
  BY <1>1, RowedKeeps DEF HoldSteer, SetRow, Rowed
<1>2. CASE ~Present(m)
  <2>1. rowState' = [rowState EXCEPT ![m] = "absent"]
    BY <1>2 DEF HoldSteer, Present, queueVars, SendInv, SendTypes
  <2> QED
    BY <1>2, <2>1, RowedKeeps DEF HoldSteer, Rowed
<1> QED
  BY <1>1, <1>2

\* A pass that starts is not sending yet.
LEMMA PassStartKeeps ==
    ASSUME SendInv, ConstantsAssumption, PassStart
    PROVE  SendInv'
  BY DEF SendInv, SendTypes, MessageOK, Draining, Unsent, Places, Handling, Steering, PassStart, IdlePass,
         drainer, dispatch, world, history, queueVars

\* Lifted rows were held, hence not submitted.
LEMMA PassLiftKeeps ==
    ASSUME SendInv, ConstantsAssumption, NEW read, PassLift(read)
    PROVE  SendInv'
  BY DEF SendInv, SendTypes, MessageOK, Draining, Unsent, Places, Handling, Steering, PassLift, IdlePass,
         Unhold, Present, RestartHeld, drainer, dispatch, world, history, queueVars

\* The marked row was queued, hence not submitted, and the pass owns it from then on.
LEMMA PassMarkKeeps ==
    ASSUME SendInv, ConstantsAssumption, NEW read, PassMark(read)
    PROVE  SendInv'
<1>1. /\ UNCHANGED <<pc, out, sends, spent, closing, shelf>>
      /\ pass.pc = "box"
  BY DEF PassMark, dispatch, world
<1>2. CASE pass' = IdlePass /\ UNCHANGED rowState
  BY <1>1, <1>2 DEF SendInv, SendTypes, MessageOK, Draining, Unsent, IdlePass
<1>3. ASSUME rowState[pass.row] = "queued",
             rowState' = [rowState EXCEPT ![pass.row] = "sending"],
             NEW at, pass' = [pass EXCEPT !.pc = "send", !.at = at, !.res = Begun]
      PROVE  SendInv'
  <2>1. /\ pass'.pc = "send" /\ pass'.row = pass.row /\ pass'.res # "sent"
        /\ pass' = [pc |-> pass'.pc, row |-> pass'.row, at |-> pass'.at, res |-> pass'.res,
                    strikes |-> pass'.strikes, forgotten |-> pass'.forgotten]
    BY <1>3 DEF SendInv, SendTypes, Begun
  <2>2. SendTypes'
    BY <1>1, <1>3, <2>1 DEF SendInv, SendTypes
  <2>3. ASSUME NEW k \in Msgs PROVE MessageOK(k)'
    <3>1. MessageOK(k) /\ rowState'[k] = IF k = pass.row THEN "sending" ELSE rowState[k]
      BY <1>3 DEF SendInv, SendTypes
    <3> QED
      BY <3>1, <2>1, <1>1, <1>3 DEF MessageOK, Draining, Unsent, Steering
  <2> QED
    BY <2>2, <2>3 DEF SendInv
<1> QED
  BY <1>1, <1>2, <1>3 DEF PassMark, SetRow, queueVars

\* The pass submits a row it has not submitted.
LEMMA PassDeliverKeeps ==
    ASSUME SendInv, ConstantsAssumption, NEW o, PassDeliver(o)
    PROVE  SendInv'
<1>1. /\ pass.pc = "send" /\ pass.res = "none"
      /\ pass' = [pass EXCEPT !.res = o]
      /\ sends' = IF o = "sent" THEN [sends EXCEPT ![pass.row] = @ + 1] ELSE sends
      /\ UNCHANGED <<rowState, pc, out, spent, closing, shelf>>
  BY DEF PassDeliver, queueVars, dispatch, world
<1>2. /\ pass'.pc = "send" /\ pass'.row = pass.row /\ pass'.res = o
      /\ pass' = [pc |-> pass'.pc, row |-> pass'.row, at |-> pass'.at, res |-> pass'.res,
                  strikes |-> pass'.strikes, forgotten |-> pass'.forgotten]
  BY <1>1 DEF SendInv, SendTypes
<1>3. \A k \in Msgs : sends[k] \in Nat
  BY DEF SendInv, SendTypes
<1>4. /\ sends' \in [Msgs -> Nat]
      /\ \A k \in Msgs : sends'[k] = IF o = "sent" /\ k = pass.row THEN sends[k] + 1 ELSE sends[k]
  <2>1. CASE o = "sent" /\ pass.row \in Msgs
    <3>1. sends' = [sends EXCEPT ![pass.row] = sends[pass.row] + 1] /\ sends[pass.row] + 1 \in Nat
      BY <1>1, <1>3, <2>1
    <3> QED
      BY <3>1, <2>1 DEF SendInv, SendTypes
  <2>2. CASE ~(o = "sent" /\ pass.row \in Msgs)
    <3>1. sends' = sends
      BY <1>1, <2>2 DEF SendInv, SendTypes
    <3> QED
      BY <3>1, <2>2 DEF SendInv, SendTypes
  <2> QED
    BY <2>1, <2>2
<1>5. SendTypes'
  BY <1>1, <1>2, <1>4 DEF SendInv, SendTypes
<1>6. ASSUME NEW k \in Msgs PROVE MessageOK(k)'
  <2>1. MessageOK(k) /\ spent.crashes \in Nat
    BY DEF SendInv, SendTypes
  <2> QED
    BY <2>1, <1>1, <1>2, <1>3, <1>4 DEF MessageOK, Draining, Unsent, Steering
<1> QED
  BY <1>5, <1>6 DEF SendInv

\* A row goes back to the queue only if its send came to nothing.
LEMMA PassCommitKeeps ==
    ASSUME SendInv, ConstantsAssumption, PassCommit
    PROVE  SendInv'
  BY DEF SendInv, SendTypes, MessageOK, Draining, Unsent, Places, Handling, Steering, PassCommit,
         IdlePass, Drop, GiveBack, SetRow, Present, Finish, drainer, dispatch, world, history, queueVars

\* A handler starts with a message that is new or was refused.
LEMMA DispatchKeeps ==
    ASSUME SendInv, ConstantsAssumption, NEW m \in Msgs, NEW mode \in Modes, NEW maint, Dispatch(m, mode, maint)
    PROVE  SendInv'
<1>1. /\ pc[m] \in {"new", "refused", "box", "bgStart", "bgSteer"}
      /\ UNCHANGED <<pass, spent, sends, closing, shelf>>
  BY DEF Dispatch, history, world
<1>2. ASSUME Refuse(m) PROVE SendInv'
  BY <1>1, <1>2, PlaceKeeps DEF Refuse, queueVars
<1>3. ASSUME NEW place \in {"box", "bgStart", "bgSteer"}, Await(m, place) PROVE SendInv'
  BY <1>1, <1>3, PlaceKeeps DEF Await, queueVars
<1>4. ASSUME StartPath(m) PROVE SendInv'
  BY <1>1, <1>4, StartPathKeeps
<1>5. ASSUME Enqueue(m) PROVE SendInv'
  BY <1>1, <1>3, <1>4, <1>5, CommitRowKeeps DEF Enqueue
<1>6. mode \in {"start", "queue", "steer"}
  BY DEF ConstantsAssumption, AllModes
<1>7. CASE Archived
  BY <1>2, <1>7 DEF Dispatch
<1>8. CASE ~Archived /\ mode = "queue"
  BY <1>5, <1>8 DEF Dispatch
<1>9. CASE ~Archived /\ mode = "start"
  BY <1>2, <1>3, <1>4, <1>9 DEF Dispatch
<1>10. CASE ~Archived /\ mode = "steer"
  BY <1>2, <1>3, <1>4, <1>5, <1>10 DEF Dispatch
<1> QED
  BY <1>6, <1>7, <1>8, <1>9, <1>10

\* The handler that read the composer starts the message, makes it a row, or refuses it.
LEMMA EnqueueReadKeeps ==
    ASSUME SendInv, ConstantsAssumption, NEW m \in Msgs, NEW read \in Reads, EnqueueRead(m, read)
    PROVE  SendInv'
<1>1. /\ pc[m] \in {"new", "refused", "box", "bgStart", "bgSteer"}
      /\ UNCHANGED <<pass, spent, sends, closing, shelf>>
      /\ read \in {"yes", "no", "throws"}
  BY DEF EnqueueRead, history, world, ConstantsAssumption, AllReads
<1>2. CASE read = "yes"
  BY <1>1, <1>2, StartPathKeeps DEF EnqueueRead
<1>3. CASE read = "no"
  BY <1>1, <1>3, CommitRowKeeps DEF EnqueueRead
<1>4. CASE read = "throws"
  BY <1>1, <1>4, PlaceKeeps DEF EnqueueRead, Refuse, queueVars
<1> QED
  BY <1>1, <1>2, <1>3, <1>4

\* A start on a working thread.
LEMMA StartReadKeeps ==
    ASSUME SendInv, ConstantsAssumption, NEW m \in Msgs, NEW background, StartRead(m, background)
    PROVE  SendInv'
  BY DEF SendInv, SendTypes, MessageOK, Draining, Unsent, Places, Handling, Steering, StartRead, Refuse,
         StartPath, Begun, Results, AllOutcomes, drainer, dispatch, world, history, queueVars

\* A steer becomes a row its own background work owns.
LEMMA SteerReadKeeps ==
    ASSUME SendInv, ConstantsAssumption, NEW m \in Msgs, NEW background, SteerRead(m, background)
    PROVE  SendInv'
<1>1. /\ pc[m] \in {"new", "refused", "box", "bgStart", "bgSteer"}
      /\ UNCHANGED <<pass, spent, sends, closing, shelf>>
  BY DEF SteerRead, history, world
<1>2. CASE background
  BY <1>1, <1>2, StartPathKeeps DEF SteerRead
<1>3. CASE ~background /\ ~interrupting /\ pending
  BY <1>1, <1>3, PlaceKeeps DEF SteerRead, Refuse, queueVars
<1>4. CASE ~background /\ ~(~interrupting /\ pending)
  <2> DEFINE place == IF interrupting THEN "sBgStopping" ELSE "sBg"
  <2>1. /\ place \in Places /\ place \in Steering \ {"sSend"}
        /\ out[m] \in Results /\ out' = [out EXCEPT ![m] = out[m]]
        /\ pc' = [pc EXCEPT ![m] = place] /\ rowState' = [rowState EXCEPT ![m] = "sending"]
    BY <1>4 DEF Places, Steering, SendInv, SendTypes, SteerRead, SetRow
  <2>2. /\ rowState' \in [Msgs -> {"absent", "queued", "sending", "held"}]
        /\ \A k \in Msgs \ {m} : rowState'[k] \in {rowState[k], "absent"}
        /\ rowState'[m] = "sending" /\ pc'[m] = place
    BY <2>1 DEF SendInv, SendTypes
  <2>3. MessageOK(m)'
    BY <1>1, <2>1, <2>2, Fresh DEF MessageOK, Draining, Unsent, Steering
  <2> HIDE DEF place
  <2> QED
    BY <1>1, <2>1, <2>2, <2>3, OneMessage
<1> QED
  BY <1>2, <1>3, <1>4

\* A start submits its message once.
LEMMA StartDeliverKeeps ==
    ASSUME SendInv, ConstantsAssumption, NEW m \in Msgs, NEW o \in Outcomes, StartDeliver(m, o)
    PROVE  SendInv'
  BY DEF SendInv, SendTypes, MessageOK, Draining, Unsent, Places, Handling, Steering, StartDeliver,
         Results, ConstantsAssumption, drainer, dispatch, world, history, queueVars

\* Only a start that came to nothing is refused and may be retried.
LEMMA StartCommitKeeps ==
    ASSUME SendInv, ConstantsAssumption, NEW m \in Msgs, StartCommit(m)
    PROVE  SendInv'
  BY DEF SendInv, SendTypes, MessageOK, Draining, Unsent, Places, Handling, Steering, StartCommit, Finish,
         Lifts, Results, drainer, dispatch, world, history, queueVars

\* The background read of a steer.
LEMMA SteerBackgroundKeeps ==
    ASSUME SendInv, ConstantsAssumption, NEW m \in Msgs, NEW background, SteerBackground(m, background)
    PROVE  SendInv'
<1>1. pc[m] \in Steering \ {"sSend"} /\ UNCHANGED <<pass, spent, sends, closing, shelf>>
  BY DEF SteerBackground, steerFrame, world, Steering
<1>2. CASE background
  BY <1>1, <1>2, SteerSendKeeps DEF SteerBackground
<1>3. CASE ~background /\ pc[m] = "sBg"
  <2>1. "sPress" \in Steering \ {"sSend"}
    BY DEF Steering
  <2> QED
    BY <1>1, <1>3, <2>1, SteerMoves DEF SteerBackground, queueVars
<1>4. CASE ~background /\ pc[m] # "sBg"
  BY <1>1, <1>4, WaitSettledKeeps DEF SteerBackground
<1> QED
  BY <1>2, <1>3, <1>4

\* The interrupt key of a steer.
LEMMA SteerPressKeeps ==
    ASSUME SendInv, ConstantsAssumption, NEW m \in Msgs, NEW result \in {"pressed", "failed", "maintenance"},
           SteerPress(m, result)
    PROVE  SendInv'
<1>1. pc[m] \in Steering \ {"sSend"} /\ UNCHANGED <<pass, spent, sends, closing, shelf>>
  BY DEF SteerPress, steerFrame, world, Steering
<1>2. CASE result = "pressed"
  BY <1>1, <1>2, WaitSettledKeeps DEF SteerPress
<1>3. CASE result = "failed"
  BY <1>1, <1>3, HoldSteerKeeps DEF SteerPress
<1>4. CASE result = "maintenance"
  <2>1. /\ pc' = [pc EXCEPT ![m] = "rowed"] /\ UNCHANGED out
        /\ IF Present(m) THEN rowState' = [rowState EXCEPT ![m] = "queued"] ELSE UNCHANGED rowState
    BY <1>4 DEF SteerPress, Rowed, SetRow, queueVars
  <2>2. CASE Present(m)
    BY <1>1, <2>1, <2>2, RowedKeeps
  <2>3. CASE ~Present(m)
    <3>1. rowState' = [rowState EXCEPT ![m] = "absent"]
      BY <2>1, <2>3 DEF Present, SendInv, SendTypes
    <3> QED
      BY <1>1, <2>1, <3>1, RowedKeeps
  <2> QED
    BY <2>2, <2>3
<1> QED
  BY <1>2, <1>3, <1>4

\* A steer that waited too long.
LEMMA SteerWaitFiresKeeps ==
    ASSUME SendInv, ConstantsAssumption, NEW m \in Msgs, SteerWaitFires(m)
    PROVE  SendInv'
  BY DEF SendInv, SendTypes, MessageOK, Draining, Unsent, Places, Handling, Steering, SteerWaitFires,
         steerFrame, drainer, dispatch, world, history, queueVars

\* The last look of a steer that waited too long.
LEMMA SteerLateKeeps ==
    ASSUME SendInv, ConstantsAssumption, NEW m \in Msgs, NEW background, SteerLate(m, background)
    PROVE  SendInv'
<1>1. pc[m] \in Steering \ {"sSend"} /\ UNCHANGED <<pass, spent, sends, closing, shelf>>
  BY DEF SteerLate, steerFrame, world, Steering
<1>2. CASE background
  BY <1>1, <1>2, SteerSendKeeps DEF SteerLate
<1>3. CASE ~background
  BY <1>1, <1>3, HoldSteerKeeps DEF SteerLate
<1> QED
  BY <1>2, <1>3

\* A steer whose thread settled.
LEMMA SteerWokenKeeps ==
    ASSUME SendInv, ConstantsAssumption, NEW m \in Msgs, SteerWoken(m)
    PROVE  SendInv'
<1>1. pc[m] \in Steering \ {"sSend"} /\ UNCHANGED <<pass, spent, sends, closing, shelf>>
  BY DEF SteerWoken, steerFrame, world, Steering
<1> QED
  BY <1>1, SteerSendKeeps DEF SteerWoken

\* A steer submits its message once.
LEMMA SteerDeliverKeeps ==
    ASSUME SendInv, ConstantsAssumption, NEW m \in Msgs, NEW o \in Outcomes, SteerDeliver(m, o)
    PROVE  SendInv'
  BY DEF SendInv, SendTypes, MessageOK, Draining, Unsent, Places, Handling, Steering, SteerDeliver,
         Results, ConstantsAssumption, drainer, dispatch, world, history, queueVars

\* A steer's row is held only if its send came to nothing.
LEMMA SteerCommitKeeps ==
    ASSUME SendInv, ConstantsAssumption, NEW m \in Msgs, SteerCommit(m)
    PROVE  SendInv'
<1>1. /\ pc[m] = "sSend" /\ out' = [out EXCEPT ![m] = "none"] /\ pc' = [pc EXCEPT ![m] = "rowed"]
      /\ UNCHANGED <<pass, spent, sends, closing, shelf>>
      /\ \E r \in {"absent", "held"} :
            /\ rowState' = [rowState EXCEPT ![m] = r]
            /\ r = "held" => out[m] # "sent"
  <2>1. CASE out[m] \in {"sent", "delivered"}
    BY <2>1 DEF SteerCommit, Drop, Rowed, world
  <2>2. CASE out[m] \notin {"sent", "delivered"}
    <3>1. HoldSteer(m, "send-failed")
      BY <2>2 DEF SteerCommit
    <3>2. CASE Present(m)
      BY <2>2, <3>1, <3>2 DEF SteerCommit, HoldSteer, SetRow, Rowed, world
    <3>3. CASE ~Present(m)
      BY <2>2, <3>1, <3>3 DEF SteerCommit, HoldSteer, Present, Rowed, queueVars, world, SendInv, SendTypes
    <3> QED
      BY <3>2, <3>3
  <2> QED
    BY <2>1, <2>2
<1>2. PICK r \in {"absent", "held"} : rowState' = [rowState EXCEPT ![m] = r] /\ (r = "held" => out[m] # "sent")
  BY <1>1
<1>3. "rowed" \in Places /\ "none" \in Results
  BY DEF Places, Results
<1>4. /\ rowState' \in [Msgs -> {"absent", "queued", "sending", "held"}]
      /\ \A k \in Msgs \ {m} : rowState'[k] \in {rowState[k], "absent"}
      /\ rowState'[m] = r /\ pc'[m] = "rowed"
  BY <1>1, <1>2 DEF SendInv, SendTypes
<1>5. MessageOK(m) /\ sends[m] \in Nat
  BY DEF SendInv, SendTypes
<1>6. MessageOK(m)'
  BY <1>1, <1>2, <1>4, <1>5 DEF MessageOK, Draining, Unsent, Steering
<1> QED
  BY <1>1, <1>3, <1>4, <1>6, OneMessage

\* A row that is not on its way leaves the queue.
LEMMA CancelKeeps ==
    ASSUME SendInv, ConstantsAssumption, NEW m \in Msgs, Cancel(m)
    PROVE  SendInv'
  BY DEF SendInv, SendTypes, MessageOK, Draining, Unsent, Places, Handling, Steering, Cancel, Drop,
         queueCommand, drainer, dispatch, world, history, queueVars

\* Resumed rows were held, hence not submitted.
LEMMA ResumeKeeps ==
    ASSUME SendInv, ConstantsAssumption, Resume
    PROVE  SendInv'
  BY DEF SendInv, SendTypes, MessageOK, Draining, Unsent, Places, Handling, Steering, Resume, Unhold,
         queueCommand, drainer, dispatch, world, history, queueVars

\* A settled thread wakes the steers that wait for it.
LEMMA PollKeeps ==
    ASSUME SendInv, ConstantsAssumption, Poll
    PROVE  SendInv'
  BY DEF SendInv, SendTypes, MessageOK, Draining, Unsent, Places, Handling, Steering, Poll, Results,
         drainer, dispatch, world, history, queueVars

\* What was submitted and not committed counts against the new run of the bridge.
LEMMA RestartKeeps ==
    ASSUME SendInv, ConstantsAssumption, NEW polled, Restart(polled)
    PROVE  SendInv'
  BY DEF SendInv, SendTypes, MessageOK, Draining, Unsent, Places, Handling, Steering, Restart, HoldAll,
         Present, IdlePass, Results, drainer, dispatch, world, history, queueVars

\* Every step keeps the invariant while no archive is left.
LEMMA NextSendInv ==
    ASSUME MaxArchives = 0, ConstantsAssumption
    PROVE  SendInv /\ [Next]_vars => SendInv'
<1> SUFFICES ASSUME SendInv, [Next]_vars PROVE SendInv'
    OBVIOUS
<1>1. CASE DrainStep
  <2>1. ASSUME HoldClosed PROVE SendInv'
    BY <2>1 DEF HoldClosed, SendInv, SendTypes
  <2>2. ASSUME RetryFires \/ RunWaitFires \/ RunEnded PROVE SendInv'
    BY <2>2, FrameKeeps
       DEF RetryFires, RunWaitFires, RunEnded, SendInv, SendTypes, queueVars, dispatch, history, world
  <2> QED
    BY <1>1, <2>1, <2>2, PassStartKeeps, PassLiftKeeps, PassMarkKeeps, PassDeliverKeeps, PassCommitKeeps
       DEF DrainStep
<1>2. ASSUME NEW m \in Msgs, HandlerStep(m) PROVE SendInv'
  BY <1>2, DispatchKeeps, EnqueueReadKeeps, StartReadKeeps, SteerReadKeeps, StartDeliverKeeps,
         StartCommitKeeps
     DEF HandlerStep
<1>3. ASSUME NEW m \in Msgs, SteerStep(m) PROVE SendInv'
  BY <1>3, SteerWokenKeeps, SteerBackgroundKeeps, SteerPressKeeps, SteerWaitFiresKeeps, SteerLateKeeps,
     SteerDeliverKeeps, SteerCommitKeeps DEF SteerStep
<1>4. CASE CommandStep
  <2>1. ASSUME NEW s, Reorder(s) PROVE SendInv'
    BY <2>1, FrameKeeps DEF Reorder, queueCommand, dispatch, world, SendInv, SendTypes
  <2>2. ASSUME NEW m \in Msgs, Edit(m) PROVE SendInv'
    BY <2>2, FrameKeeps DEF Edit, queueCommand, queueVars, dispatch, world, SendInv, SendTypes
  <2>3. ASSUME NEW pressed, InterruptAsk \/ InterruptPress(pressed) \/ InterruptExpires PROVE SendInv'
    BY <2>3, FrameKeeps
       DEF InterruptAsk, InterruptPress, InterruptExpires, queueVars, drainer, history, world, SendInv, SendTypes
  <2> QED
    BY <1>4, <2>1, <2>2, <2>3, CancelKeeps, ResumeKeeps DEF CommandStep
<1>5. CASE WorldStep
  <2>1. ASSUME Archive \/ PaneClosed PROVE SendInv'
    BY <2>1 DEF Archive, PaneClosed, Forget, SendInv, SendTypes
  <2>2. ASSUME NEW s, AgentMoves(s) \/ PollArchived \/ RequestOpens \/ RequestCloses \/ Unarchive PROVE SendInv'
    BY <2>2, FrameKeeps
       DEF AgentMoves, PollArchived, RequestOpens, RequestCloses, Unarchive, queueVars, drainer, dispatch,
           history, Archived, SendInv, SendTypes
  <2>3. ASSUME PaneDropped PROVE SendInv'
    <3>1. spent.gaps \in Nat /\ spent' = [spent EXCEPT !.gaps = spent.gaps + 1]
      BY <2>3 DEF PaneDropped, SendInv, SendTypes
    <3>2. spent' \in [crashes : Nat, archives : Nat, gaps : Nat] /\ spent'.crashes = spent.crashes
      BY <3>1 DEF SendInv, SendTypes
    <3>3. UNCHANGED <<rowState, pc, out, pass, sends, closing, shelf>>
      BY <2>3 DEF PaneDropped, queueVars, drainer, dispatch, history
    <3> QED
      BY <3>2, <3>3, FrameKeeps
  <2> QED
    BY <1>5, <2>1, <2>2, <2>3, PollKeeps, RestartKeeps DEF WorldStep
<1>6. CASE UNCHANGED vars
  BY <1>6, FrameKeeps DEF vars, queueVars, drainer, dispatch, history, world, SendInv, SendTypes
<1> QED
  BY <1>1, <1>2, <1>3, <1>4, <1>5, <1>6 DEF Next

\* The invariant holds in every state of a thread that is never archived.
THEOREM SendInvariance ==
    ASSUME MaxArchives = 0 PROVE Spec => []SendInv
<1>1. SendInv /\ [Next]_vars => SendInv'
  BY NextSendInv, ConstantsAssumption
<1> QED
  BY <1>1, InitSendInv, PTL DEF Spec

\* However the handlers, the drainer, the polls and the restarts interleave, a message is submitted at
\* most once per run of the bridge.
THEOREM AtMostOnce ==
    ASSUME MaxArchives = 0 PROVE Spec => []SentAtMostOnce
<1>1. SendInv => SentAtMostOnce
  BY DEF SendInv, SendTypes, MessageOK, SentAtMostOnce
<1> QED
  BY <1>1, SendInvariance, PTL

\* No row is left `sending` by a pass or a steer that is over.
THEOREM SendingOwned ==
    ASSUME MaxArchives = 0 PROVE Spec => []SendingRowOwned
<1>1. SendInv => SendingRowOwned
  BY DEF SendInv, SendTypes, MessageOK, SendingRowOwned, Draining
<1> QED
  BY <1>1, SendInvariance, PTL

-----------------------------------------------------------------------------
(* Sequences that list a set of messages, each of them once *)

Lists(s, S) ==
    /\ s \in Seq(Msgs) /\ S \subseteq Msgs
    /\ \A m \in Msgs : m \in S <=> \E i \in 1..Len(s) : s[i] = m
    /\ \A i, j \in 1..Len(s) : s[i] = s[j] => i = j

\* What RemoveAt leaves.
LEMMA RemoveAtShape ==
    ASSUME NEW S, NEW s \in Seq(S), NEW i \in 1..Len(s)
    PROVE  /\ RemoveAt(s, i) \in Seq(S) /\ Len(RemoveAt(s, i)) = Len(s) - 1
           /\ \A k \in 1..(Len(s) - 1) : RemoveAt(s, i)[k] = IF k < i THEN s[k] ELSE s[k + 1]
<1> DEFINE a == SubSeq(s, 1, i - 1)
           b == SubSeq(s, i + 1, Len(s))
<1>1. Len(s) \in Nat /\ \A k \in 1..Len(s) : s[k] \in S
  BY LenProperties, ElementOfSeq
<1>2. a \in Seq(S) /\ Len(a) = i - 1 /\ \A k \in 1..(i - 1) : a[k] = s[k]
  BY <1>1, SubSeqProperties
<1>3. b \in Seq(S) /\ Len(b) = Len(s) - i /\ \A k \in 1..(Len(s) - i) : b[k] = s[k + i]
  BY <1>1, SubSeqProperties
<1>4. RemoveAt(s, i) = a \o b
  BY DEF RemoveAt
<1> HIDE DEF a, b
<1>5. /\ a \o b \in Seq(S) /\ Len(a \o b) = Len(a) + Len(b)
      /\ \A k \in 1..(Len(a) + Len(b)) : (a \o b)[k] = IF k <= Len(a) THEN a[k] ELSE b[k - Len(a)]
  BY <1>2, <1>3, ConcatProperties
<1>6. ASSUME NEW k \in 1..(Len(s) - 1) PROVE (a \o b)[k] = IF k < i THEN s[k] ELSE s[k + 1]
  <2>1. CASE k < i
    BY <1>1, <1>2, <1>3, <1>5, <2>1
  <2>2. CASE ~(k < i)
    <3>1. (a \o b)[k] = b[k - (i - 1)] /\ k - (i - 1) \in 1..(Len(s) - i)
      BY <1>1, <1>2, <1>3, <1>5, <2>2
    <3>2. b[k - (i - 1)] = s[(k - (i - 1)) + i]
      BY <1>3, <3>1
    <3> QED
      BY <1>1, <2>2, <3>1, <3>2
  <2> QED
    BY <2>1, <2>2
<1> QED
  BY <1>1, <1>2, <1>3, <1>4, <1>5, <1>6

\* What InsertAt makes.
LEMMA InsertAtShape ==
    ASSUME NEW S, NEW s \in Seq(S), NEW i \in 1..(Len(s) + 1), NEW e \in S
    PROVE  /\ InsertAt(s, i, e) \in Seq(S) /\ Len(InsertAt(s, i, e)) = Len(s) + 1
           /\ \A k \in 1..(Len(s) + 1) : InsertAt(s, i, e)[k] = IF k < i THEN s[k] ELSE IF k = i THEN e ELSE s[k - 1]
<1> DEFINE a == SubSeq(s, 1, i - 1)
           b == SubSeq(s, i, Len(s))
           c == a \o <<e>>
<1>1. Len(s) \in Nat /\ \A k \in 1..Len(s) : s[k] \in S
  BY LenProperties, ElementOfSeq
<1>2. a \in Seq(S) /\ Len(a) = i - 1 /\ \A k \in 1..(i - 1) : a[k] = s[k]
  BY <1>1, SubSeqProperties
<1>3. b \in Seq(S) /\ Len(b) = Len(s) - i + 1 /\ \A k \in 1..(Len(s) - i + 1) : b[k] = s[k + i - 1]
  BY <1>1, SubSeqProperties
<1>4. InsertAt(s, i, e) = c \o b
  BY DEF InsertAt
<1>5. <<e>> \in Seq(S) /\ Len(<<e>>) = 1 /\ <<e>>[1] = e
  OBVIOUS
<1> HIDE DEF a, b
<1>6. c \in Seq(S) /\ Len(c) = i /\ \A k \in 1..i : c[k] = IF k < i THEN s[k] ELSE e
  BY <1>2, <1>5, ConcatProperties
<1> HIDE DEF c
<1>7. /\ c \o b \in Seq(S) /\ Len(c \o b) = Len(c) + Len(b)
      /\ \A k \in 1..(Len(c) + Len(b)) : (c \o b)[k] = IF k <= Len(c) THEN c[k] ELSE b[k - Len(c)]
  BY <1>3, <1>6, ConcatProperties
<1>8. ASSUME NEW k \in 1..(Len(s) + 1)
      PROVE  (c \o b)[k] = IF k < i THEN s[k] ELSE IF k = i THEN e ELSE s[k - 1]
  <2>1. CASE k <= i
    BY <1>1, <1>3, <1>6, <1>7, <2>1
  <2>2. CASE ~(k <= i)
    <3>1. (c \o b)[k] = b[k - i] /\ k - i \in 1..(Len(s) - i + 1)
      BY <1>1, <1>3, <1>6, <1>7, <2>2
    <3>2. b[k - i] = s[(k - i) + i - 1]
      BY <1>3, <3>1
    <3> QED
      BY <1>1, <2>2, <3>1, <3>2
  <2> QED
    BY <2>1, <2>2
<1>9. c \o b \in Seq(S) /\ Len(c \o b) = Len(s) + 1
  BY <1>1, <1>3, <1>6, <1>7
<1> QED
  BY <1>4, <1>8, <1>9

\* A message of a queue has its index.
LEMMA IndexOfIs ==
    ASSUME NEW s, NEW S, Lists(s, S), NEW m \in S
    PROVE  IndexOf(s, m) \in 1..Len(s) /\ s[IndexOf(s, m)] = m
  BY DEF Lists, IndexOf

\* One message taken off a queue.
LEMMA RemoveLists ==
    ASSUME NEW s, NEW S, Lists(s, S), NEW m \in S
    PROVE  /\ Lists(RemoveAt(s, IndexOf(s, m)), S \ {m})
           /\ Len(RemoveAt(s, IndexOf(s, m))) = Len(s) - 1 /\ Len(s) \in Nat
<1> DEFINE i == IndexOf(s, m)
           r == RemoveAt(s, i)
<1>1. i \in 1..Len(s) /\ s[i] = m
  BY IndexOfIs
<1>2. s \in Seq(Msgs) /\ Len(s) \in Nat /\ S \subseteq Msgs
  BY LenProperties DEF Lists
<1> HIDE DEF i
<1>3. /\ r \in Seq(Msgs) /\ Len(r) = Len(s) - 1
      /\ \A k \in 1..(Len(s) - 1) : r[k] = IF k < i THEN s[k] ELSE s[k + 1]
  BY <1>1, <1>2, RemoveAtShape
<1> HIDE DEF r
<1>4. ASSUME NEW x \in S \ {m} PROVE \E k \in 1..Len(r) : r[k] = x
  <2>1. PICK j \in 1..Len(s) : s[j] = x
    BY <1>2 DEF Lists
  <2>2. j # i
    BY <1>1, <2>1
  <2>3. CASE j < i
    BY <1>1, <1>2, <1>3, <2>1, <2>3
  <2>4. CASE j > i
    <3>1. j - 1 \in 1..Len(r) /\ r[j - 1] = s[j]
      BY <1>1, <1>2, <1>3, <2>4
    <3> QED
      BY <2>1, <3>1
  <2> QED
    BY <1>1, <1>2, <2>2, <2>3, <2>4
<1>5. ASSUME NEW k \in 1..Len(r) PROVE r[k] \in S \ {m}
  <2>1. PICK j \in 1..Len(s) : r[k] = s[j] /\ j # i
    <3>1. CASE k < i
      <4>1. k \in 1..Len(s) /\ k # i /\ r[k] = s[k]
        BY <1>1, <1>2, <1>3, <3>1
      <4> QED
        BY <4>1
    <3>2. CASE ~(k < i)
      <4>1. k + 1 \in 1..Len(s) /\ k + 1 # i /\ r[k] = s[k + 1]
        BY <1>1, <1>2, <1>3, <3>2
      <4> QED
        BY <4>1
    <3> QED
      BY <3>1, <3>2
  <2> QED
    BY <2>1, <1>1, <1>2, ElementOfSeq DEF Lists
<1>6. ASSUME NEW k \in 1..Len(r), NEW l \in 1..Len(r), r[k] = r[l] PROVE k = l
  BY <1>1, <1>2, <1>3, <1>6 DEF Lists
<1>7. Lists(r, S \ {m})
  BY <1>2, <1>3, <1>4, <1>5, <1>6 DEF Lists
<1> QED
  BY <1>2, <1>3, <1>7 DEF r, i

\* One message put into a queue.
LEMMA InsertLists ==
    ASSUME NEW s, NEW S, Lists(s, S), NEW m \in Msgs \ S, NEW i \in 1..(Len(s) + 1)
    PROVE  Lists(InsertAt(s, i, m), S \cup {m})
<1> DEFINE r == InsertAt(s, i, m)
<1>1. s \in Seq(Msgs) /\ Len(s) \in Nat /\ S \subseteq Msgs /\ i \in Nat /\ m \in Msgs
  BY LenProperties DEF Lists
<1>2. /\ r \in Seq(Msgs) /\ Len(r) = Len(s) + 1
      /\ \A k \in 1..(Len(s) + 1) : r[k] = IF k < i THEN s[k] ELSE IF k = i THEN m ELSE s[k - 1]
  BY <1>1, InsertAtShape
<1> HIDE DEF r
<1>3. \A k \in 1..Len(s) : s[k] \in S
  BY <1>1, ElementOfSeq DEF Lists
<1>4. ASSUME NEW x \in S PROVE \E k \in 1..Len(r) : r[k] = x
  <2>1. PICK j \in 1..Len(s) : s[j] = x
    BY <1>1 DEF Lists
  <2>2. CASE j < i
    BY <1>1, <1>2, <2>1, <2>2
  <2>3. CASE ~(j < i)
    <3>1. j + 1 \in 1..Len(r) /\ r[j + 1] = s[j]
      BY <1>1, <1>2, <2>3
    <3> QED
      BY <2>1, <3>1
  <2> QED
    BY <2>2, <2>3
<1>5. r[i] = m /\ i \in 1..Len(r)
  BY <1>1, <1>2
<1>6. ASSUME NEW k \in 1..Len(r) PROVE r[k] \in S \cup {m}
  <2>1. CASE k = i
    BY <2>1, <1>5
  <2>2. CASE k # i
    <3>1. \E j \in 1..Len(s) : r[k] = s[j]
      <4>1. CASE k < i
        BY <1>1, <1>2, <4>1
      <4>2. CASE k > i
        <5>1. k - 1 \in 1..Len(s) /\ r[k] = s[k - 1]
          BY <1>1, <1>2, <4>2
        <5> QED
          BY <5>1
      <4> QED
        BY <2>2, <4>1, <4>2, <1>1, <1>2
    <3> QED
      BY <3>1, <1>3
  <2> QED
    BY <2>1, <2>2
<1> DEFINE old(k) == IF k < i THEN k ELSE k - 1
<1>7. ASSUME NEW k \in 1..Len(r), NEW l \in 1..Len(r), r[k] = r[l] PROVE k = l
  <2>1. ASSUME NEW h \in 1..Len(r), h # i PROVE old(h) \in 1..Len(s) /\ r[h] = s[old(h)] /\ r[h] # m
    BY <1>1, <1>2, <1>3, <2>1
  <2>2. CASE k = i \/ l = i
    BY <1>5, <1>7, <2>1, <2>2
  <2>3. CASE k # i /\ l # i
    <3>1. old(k) = old(l)
      <4>1. \A a, b \in 1..Len(s) : s[a] = s[b] => a = b
        BY DEF Lists
      <4> HIDE DEF old
      <4> QED
        BY <1>7, <2>1, <2>3, <4>1
    <3> QED
      BY <1>1, <2>3, <3>1
  <2> QED
    BY <2>2, <2>3
<1>8. Lists(r, S \cup {m})
  BY <1>1, <1>2, <1>4, <1>5, <1>6, <1>7 DEF Lists
<1> QED
  BY <1>8 DEF r

\* A message behind a queue, and one ahead of it.
LEMMA EndsList ==
    ASSUME NEW s, NEW S, Lists(s, S), NEW m \in Msgs \ S
    PROVE  Lists(Append(s, m), S \cup {m}) /\ Lists(<<m>> \o s, S \cup {m})
<1>1. s \in Seq(Msgs) /\ Len(s) \in Nat /\ <<m>> \in Seq(Msgs)
  BY LenProperties DEF Lists
<1>2. InsertAt(s, Len(s) + 1, m) = Append(s, m)
  <2>1. SubSeq(s, 1, Len(s)) = s /\ SubSeq(s, Len(s) + 1, Len(s)) = <<>>
    BY <1>1, SubSeqFull, SubSeqEmpty
  <2>2. Append(s, m) = s \o <<m>> /\ s \o <<m>> \in Seq(Msgs)
    BY <1>1, AppendIsConcat, ConcatProperties
  <2>3. (Len(s) + 1) - 1 = Len(s)
    BY <1>1
  <2>4. InsertAt(s, Len(s) + 1, m) = (s \o <<m>>) \o <<>>
    BY <2>1, <2>3 DEF InsertAt
  <2> QED
    BY <2>2, <2>4, ConcatEmptySeq
<1>3. InsertAt(s, 1, m) = <<m>> \o s
  <2>1. SubSeq(s, 1, Len(s)) = s /\ SubSeq(s, 1, 0) = <<>>
    BY <1>1, SubSeqFull, SubSeqEmpty
  <2>2. InsertAt(s, 1, m) = (<<>> \o <<m>>) \o s
    BY <2>1 DEF InsertAt
  <2>3. <<>> \o <<m>> = <<m>>
    BY <1>1, ConcatEmptySeq
  <2> QED
    BY <2>2, <2>3
<1>4. Len(s) + 1 \in 1..(Len(s) + 1) /\ 1 \in 1..(Len(s) + 1)
  BY <1>1
<1>5. Lists(InsertAt(s, Len(s) + 1, m), S \cup {m}) /\ Lists(InsertAt(s, 1, m), S \cup {m})
  BY <1>4, InsertLists
<1> QED
  BY <1>2, <1>3, <1>5

\* Without drops one message, if it is listed.
LEMMA WithoutLists ==
    ASSUME NEW s, NEW S, Lists(s, S), NEW m \in Msgs
    PROVE  Lists(Without(s, m), S \ {m})
<1>1. CASE m \in S
  <2>1. \E i \in 1..Len(s) : s[i] = m
    BY <1>1 DEF Lists
  <2>2. Without(s, m) = RemoveAt(s, IndexOf(s, m))
    BY <2>1 DEF Without
  <2> QED
    BY <1>1, <2>2, RemoveLists
<1>2. CASE m \notin S
  <2>1. Without(s, m) = s /\ S \ {m} = S
    BY <1>2 DEF Without, Lists
  <2> QED
    BY <2>1
<1> QED
  BY <1>1, <1>2

\* A row put back is where some row was: the queue lists the same messages.
LEMMA PutBackLists ==
    ASSUME NEW s, NEW S, Lists(s, S), NEW m \in S, NEW at \in Nat
    PROVE  Lists(PutBack(s, m, at), S)
<1> DEFINE i    == IndexOf(s, m)
           rest == RemoveAt(s, i)
<1>1. i \in 1..Len(s) /\ Lists(rest, S \ {m}) /\ Len(rest) = Len(s) - 1 /\ Len(s) \in Nat
  BY IndexOfIs, RemoveLists
<1>2. m \in Msgs \ (S \ {m}) /\ (S \ {m}) \cup {m} = S
  BY DEF Lists
<1>3. ASSUME NEW k \in 1..(Len(rest) + 1) PROVE Lists(InsertAt(rest, k, m), S)
  <2> HIDE DEF rest
  <2> QED
    BY <1>1, <1>2, InsertLists
<1>4. PutBack(s, m, at) = CASE at < i -> InsertAt(rest, at + 1, m)
                            [] at = i -> s
                            [] at > i -> InsertAt(rest, IF at - 1 > Len(s) THEN Len(s) ELSE at - 1, m)
  BY DEF PutBack
<1> HIDE DEF i, rest
<1>5. CASE at < i
  BY <1>1, <1>3, <1>4, <1>5
<1>6. CASE at = i
  BY <1>1, <1>4, <1>6
<1>7. CASE at > i
  BY <1>1, <1>3, <1>4, <1>7
<1> QED
  BY <1>1, <1>5, <1>6, <1>7

\* The first queued row, when there is one.
LEMMA FirstQueuedIs ==
    ASSUME Lists(order, {m \in Msgs : Present(m)}), Some("queued")
    PROVE  FirstQueued \in Msgs /\ rowState[FirstQueued] = "queued"
<1> DEFINE Q == {i \in 1..Len(order) : rowState[order[i]] = "queued"}
<1>1. order \in Seq(Msgs) /\ Len(order) \in Nat
  BY LenProperties DEF Lists
<1>2. Q # {} /\ Q \subseteq Nat
  BY <1>1 DEF Some, Lists, Present
<1> DEFINE R == {ss \in Nat \X Nat : ss[1] < ss[2]}
<1>3. PICK i \in Q : \A j \in Q : ~(<<j, i>> \in R)
  <2>1. IsWellFoundedOn(R, Nat)
    BY NatLessThanWellFounded DEF OpToRel
  <2> HIDE DEF Q, R
  <2> QED
    BY <1>2, <2>1, WFMin
<1>4. \A j \in Q : ~(j < i)
  BY <1>2, <1>3
<1>5. /\ i \in 1..Len(order)
      /\ rowState[order[i]] = "queued" /\ \A j \in 1..(i - 1) : rowState[order[j]] # "queued"
  BY <1>1, <1>4
<1>6. \E k \in 1..Len(order) : FirstQueued = order[k] /\ rowState[order[k]] = "queued"
  BY <1>5 DEF FirstQueued
<1> QED
  BY <1>1, <1>6, ElementOfSeq

-----------------------------------------------------------------------------
(* The rows are a queue *)

Rows == {m \in Msgs : Present(m)}

\* The columns of the table and the order of its rows fit together.
RowsGood ==
    /\ Lists(order, Rows)
    /\ rowState \in [Msgs -> {"absent", "queued", "sending", "held"}]
    /\ why \in [Msgs -> HoldReasons \cup {"none"}]
    /\ \A m \in Msgs : rowState[m] = "held" <=> why[m] # "none"

\* Only a message of RowsBut may have become a row.
NewRows(ms) == \A k \in Msgs : Present(k)' => Present(k) \/ k \in ms

\* A queue with no row.
LEMMA EmptyLists == Lists(<<>>, {})
  BY EmptySeq DEF Lists

\* A step that leaves the table alone.
LEMMA RowsStay ==
    ASSUME RowsGood, UNCHANGED queueVars
    PROVE  RowsGood' /\ NewRows({})
<1>1. order' = order /\ rowState' = rowState /\ why' = why
  BY DEF queueVars
<1>2. Rows' = Rows
  BY <1>1 DEF Rows, Present
<1>3. Lists(order, Rows)' = Lists(order, Rows)
  BY <1>1, <1>2 DEF Lists
<1> QED
  BY <1>1, <1>3 DEF RowsGood, NewRows, Present

\* One row changes its state, and the queue lists what it listed.
LEMMA RowChanges ==
    ASSUME RowsGood, NEW m \in Msgs, Present(m), NEW s \in {"queued", "sending", "held"}, NEW reason,
           SetRow(m, s, reason), reason \in IF s = "held" THEN HoldReasons ELSE {"none"},
           Lists(order', Rows)
    PROVE  RowsGood' /\ NewRows({})
<1>1. /\ rowState' = [rowState EXCEPT ![m] = s] /\ why' = [why EXCEPT ![m] = reason]
      /\ rowState \in [Msgs -> {"absent", "queued", "sending", "held"}]
      /\ why \in [Msgs -> HoldReasons \cup {"none"}]
  BY DEF SetRow, RowsGood
<1>2. Rows' = Rows /\ NewRows({})
  BY <1>1 DEF Rows, Present, NewRows
<1>3. Lists(order, Rows)'
  BY <1>2 DEF Lists
<1>4. (rowState \in [Msgs -> {"absent", "queued", "sending", "held"}] /\ why \in [Msgs -> HoldReasons \cup {"none"}])'
  BY <1>1
<1>5. ASSUME NEW k \in Msgs PROVE rowState'[k] = "held" <=> why'[k] # "none"
  BY <1>1 DEF RowsGood, HoldReasons
<1> QED
  BY <1>2, <1>3, <1>4, <1>5 DEF RowsGood

\* A message that had no row gets one.
LEMMA RowComes ==
    ASSUME RowsGood, NEW m \in Msgs, ~Present(m), NEW s \in {"queued", "sending"},
           SetRow(m, s, "none"), Lists(order', Rows \cup {m})
    PROVE  RowsGood' /\ NewRows({m})
<1>1. /\ rowState' = [rowState EXCEPT ![m] = s] /\ why' = [why EXCEPT ![m] = "none"]
      /\ rowState \in [Msgs -> {"absent", "queued", "sending", "held"}]
      /\ why \in [Msgs -> HoldReasons \cup {"none"}]
  BY DEF SetRow, RowsGood
<1>2. Rows' = Rows \cup {m} /\ NewRows({m})
  BY <1>1 DEF Rows, Present, NewRows
<1>3. Lists(order, Rows)'
  BY <1>2 DEF Lists
<1>4. (rowState \in [Msgs -> {"absent", "queued", "sending", "held"}] /\ why \in [Msgs -> HoldReasons \cup {"none"}])'
  BY <1>1
<1>5. ASSUME NEW k \in Msgs PROVE rowState'[k] = "held" <=> why'[k] # "none"
  BY <1>1 DEF RowsGood
<1> QED
  BY <1>2, <1>3, <1>4, <1>5 DEF RowsGood

\* A row leaves the table.
LEMMA RowLeaves ==
    ASSUME RowsGood, NEW m \in Msgs, Drop(m)
    PROVE  RowsGood' /\ NewRows({})
<1>1. /\ rowState' = [rowState EXCEPT ![m] = "absent"] /\ why' = [why EXCEPT ![m] = "none"]
      /\ order' = Without(order, m)
      /\ rowState \in [Msgs -> {"absent", "queued", "sending", "held"}]
      /\ why \in [Msgs -> HoldReasons \cup {"none"}]
  BY DEF Drop, RowsGood
<1>2. Rows' = Rows \ {m} /\ NewRows({})
  BY <1>1 DEF Rows, Present, NewRows
<1>3. Lists(order', Rows \ {m})
  BY <1>1, WithoutLists DEF RowsGood
<1>4. Lists(order, Rows)'
  BY <1>2, <1>3 DEF Lists
<1>5. (rowState \in [Msgs -> {"absent", "queued", "sending", "held"}] /\ why \in [Msgs -> HoldReasons \cup {"none"}])'
  BY <1>1
<1>6. ASSUME NEW k \in Msgs PROVE rowState'[k] = "held" <=> why'[k] # "none"
  BY <1>1 DEF RowsGood
<1> QED
  BY <1>2, <1>4, <1>5, <1>6 DEF RowsGood

\* Rows are held, or put back on the send path.
LEMMA RowsHeldOrNot ==
    ASSUME RowsGood, \/ \E reason \in HoldReasons : HoldAll(reason)
                     \/ \E ms \in SUBSET Rows : Unhold(ms)
    PROVE  RowsGood' /\ NewRows({}) /\ Rows' = Rows
<1>1. /\ order' = order
      /\ rowState \in [Msgs -> {"absent", "queued", "sending", "held"}]
      /\ why \in [Msgs -> HoldReasons \cup {"none"}]
  BY DEF HoldAll, Unhold, RowsGood
<1>2. /\ rowState' \in [Msgs -> {"absent", "queued", "sending", "held"}]
      /\ why' \in [Msgs -> HoldReasons \cup {"none"}]
      /\ \A k \in Msgs : rowState'[k] = "held" <=> why'[k] # "none"
      /\ \A k \in Msgs : rowState'[k] = "absent" <=> rowState[k] = "absent"
  <2>1. ASSUME NEW reason \in HoldReasons, HoldAll(reason) PROVE <1>2
    BY <2>1, <1>1 DEF HoldAll, Present, RowsGood, HoldReasons
  <2>2. ASSUME NEW ms \in SUBSET Rows, Unhold(ms) PROVE <1>2
    BY <2>2, <1>1 DEF Unhold, Rows, Present, RowsGood, HoldReasons
  <2> QED
    BY <2>1, <2>2
<1>3. Rows' = Rows /\ NewRows({})
  BY <1>2 DEF Rows, Present, NewRows
<1>4. Lists(order, Rows)'
  BY <1>1, <1>3 DEF RowsGood, Lists
<1> QED
  BY <1>2, <1>3, <1>4 DEF RowsGood

\* enqueue's row comes behind the queue as it is, or after a read as it was when it was empty.
LEMMA RowCommitted ==
    ASSUME RowsGood, NEW m \in Msgs, ~Present(m), NEW rows \in {order, <<>>}, CommitRow(m, rows)
    PROVE  /\ RowsGood' /\ NewRows({m}) /\ Present(m)'
           /\ rows = order => \A k \in Msgs : Present(k) => Present(k)'
<1> DEFINE kept == IF rows = order THEN Rows ELSE {}
<1>1. Lists(rows, kept) /\ Lists(order, Rows)
  BY EmptyLists DEF RowsGood
<1>2. ASSUME NEW k \in Msgs PROVE (\E i \in 1..Len(rows) : rows[i] = k) <=> k \in kept
  <2> HIDE DEF kept
  <2> QED
    BY <1>1 DEF Lists
<1>3. /\ rowState \in [Msgs -> {"absent", "queued", "sending", "held"}]
      /\ why \in [Msgs -> HoldReasons \cup {"none"}]
      /\ order' = Append(rows, m)
      /\ rowState' = [k \in Msgs |-> IF k = m THEN "queued" ELSE IF k \in kept THEN rowState[k] ELSE "absent"]
      /\ why' = [k \in Msgs |-> IF k \in kept THEN why[k] ELSE "none"]
  <2> HIDE DEF kept
  <2>1. rowState' = [k \in Msgs |-> IF k = m THEN "queued" ELSE IF k \in kept THEN rowState[k] ELSE "absent"]
    BY <1>2, Zenon DEF CommitRow
  <2>2. why' = [k \in Msgs |-> IF k \in kept THEN why[k] ELSE "none"]
    BY <1>2, Zenon DEF CommitRow
  <2> QED
    BY <2>1, <2>2 DEF CommitRow, RowsGood
<1>4. m \notin kept /\ kept \subseteq Rows
  BY DEF Rows
<1>5. Rows' = kept \cup {m}
  <2> HIDE DEF kept
  <2> QED
    BY <1>3, <1>4 DEF Rows, Present
<1>6. Lists(order', kept \cup {m})
  <2> HIDE DEF kept
  <2>1. m \in Msgs \ kept
    BY <1>4
  <2>2. Lists(Append(rows, m), kept \cup {m})
    BY <1>1, <2>1, EndsList
  <2> QED
    BY <1>3, <2>2
<1>7. Lists(order, Rows)'
  <2> HIDE DEF kept
  <2> QED
    BY <1>5, <1>6 DEF Lists
<1>8. /\ rowState' \in [Msgs -> {"absent", "queued", "sending", "held"}]
      /\ why' \in [Msgs -> HoldReasons \cup {"none"}]
      /\ \A k \in Msgs : rowState'[k] = "held" <=> why'[k] # "none"
  <2> HIDE DEF kept
  <2> QED
    BY <1>3, <1>4 DEF RowsGood
<1>9. NewRows({m}) /\ Present(m)' /\ (rows = order => \A k \in Msgs : Present(k) => Present(k)')
  BY <1>3, <1>5 DEF NewRows, Rows, Present
<1> QED
  BY <1>7, <1>8, <1>9 DEF RowsGood

\* A steer given up is held at the head of the queue.
LEMMA SteerHeld ==
    ASSUME RowsGood, NEW m \in Msgs, NEW reason \in HoldReasons, HoldSteer(m, reason)
    PROVE  RowsGood' /\ NewRows({})
<1>1. CASE Present(m)
  <2>1. order' = <<m>> \o Without(order, m) /\ SetRow(m, "held", reason)
    BY <1>1 DEF HoldSteer
  <2>2. m \in Rows /\ Lists(Without(order, m), Rows \ {m}) /\ m \in Msgs \ (Rows \ {m}) /\ (Rows \ {m}) \cup {m} = Rows
    BY <1>1, WithoutLists DEF Rows, RowsGood
  <2>3. Lists(order', Rows)
    BY <2>1, <2>2, EndsList
  <2> QED
    BY <1>1, <2>1, <2>3, RowChanges
<1>2. CASE ~Present(m)
  BY <1>2, RowsStay DEF HoldSteer
<1> QED
  BY <1>1, <1>2

\* A steer of a /compact goes to the back of the queue.
LEMMA SteerGoesBack ==
    ASSUME RowsGood, NEW m \in Msgs, Present(m), order' = Append(Without(order, m), m),
           SetRow(m, "queued", "none")
    PROVE  RowsGood' /\ NewRows({})
<1>1. m \in Rows /\ Lists(Without(order, m), Rows \ {m}) /\ m \in Msgs \ (Rows \ {m}) /\ (Rows \ {m}) \cup {m} = Rows
  BY WithoutLists DEF Rows, RowsGood
<1>2. Lists(Append(Without(order, m), m), (Rows \ {m}) \cup {m})
  BY <1>1, EndsList
<1>3. Lists(order', Rows)
  BY <1>1, <1>2
<1> QED
  BY <1>3, RowChanges

\* A drained row comes back to the queue.
LEMMA RowGivenBack ==
    ASSUME RowsGood, NEW m \in Msgs, pass.at \in Nat, NEW s \in {"queued", "held"}, NEW reason,
           GiveBack(m, s, reason), reason \in IF s = "held" THEN HoldReasons ELSE {"none"}
    PROVE  RowsGood' /\ NewRows({})
<1>1. CASE Present(m)
  <2>1. Lists(order', Rows) /\ SetRow(m, s, reason)
    BY <1>1, PutBackLists DEF GiveBack, Rows, RowsGood
  <2> QED
    BY <1>1, <2>1, RowChanges
<1>2. CASE ~Present(m)
  BY <1>2, RowsStay DEF GiveBack
<1> QED
  BY <1>1, <1>2

\* A reorder is of the whole queue.
LEMMA RowsReordered ==
    ASSUME RowsGood, NEW s \in SetToSeqs(Rows), Reorder(s)
    PROVE  RowsGood' /\ NewRows({}) /\ Rows' = Rows
<1>1. order \in Seq(Msgs) /\ Len(order) \in Nat /\ order \in [1..Len(order) -> Msgs] /\ Rows \subseteq Msgs
  BY LenProperties DEF RowsGood, Lists
<1>2. IsFiniteSet(Rows) /\ Cardinality(Rows) \in Nat
  <2>1. order \in Surjection(1..Len(order), Rows)
    BY <1>1 DEF RowsGood, Lists, Surjection, Range
  <2> QED
    BY <2>1, <1>1, FS_Interval, FS_Surjection, FS_CardinalityType
<1>3. /\ s \in [1..Cardinality(Rows) -> Rows]
      /\ \A i, j \in 1..Cardinality(Rows) : i # j => s[i] # s[j]
  BY DEF SetToSeqs
<1>4. s \in Seq(Rows) /\ s \in Seq(Msgs) /\ Len(s) = Cardinality(Rows)
  BY <1>1, <1>2, <1>3, SeqMonotonic
<1>5. ASSUME NEW m \in Msgs PROVE m \in Rows <=> \E j \in 1..Len(s) : s[j] = m
  <2>1. ASSUME m \in Rows PROVE \E j \in 1..Len(s) : s[j] = m
    <3>1. PICK i \in 1..Len(order) : order[i] = m
      BY <2>1 DEF RowsGood, Lists
    <3> QED
      BY <3>1 DEF Reorder
  <2> QED
    BY <2>1, <1>3, <1>4
<1>6. Lists(s, Rows)
  BY <1>1, <1>3, <1>4, <1>5 DEF Lists
<1>7. order' = s /\ rowState' = rowState /\ why' = why
  BY DEF Reorder
<1>8. Rows' = Rows /\ NewRows({})
  BY <1>7 DEF Rows, Present, NewRows
<1>9. Lists(order, Rows)'
  BY <1>6, <1>7, <1>8 DEF Lists
<1> QED
  BY <1>7, <1>8, <1>9 DEF RowsGood

-----------------------------------------------------------------------------
(* Every step keeps the types and the queue *)

\* A message with a row was handled: it waits, or its steer is under way.
HandledPlaces == Steering \cup {"rowed"}

Awaitings == [on : BOOLEAN, by : Msgs \cup {NoMsg}, saw : BOOLEAN, timer : BOOLEAN]
Passes    == [pc : {"idle", "lift", "box", "send"}, row : Msgs \cup {NoMsg},
              at : Nat, res : Results, strikes : Nat, forgotten : BOOLEAN]

\* The handlers and their sends.
HandlerTypes == pc \in [Msgs -> Places] /\ out \in [Msgs -> Results] /\ awaiting \in Awaitings

\* The drainer. A pass that has come to a row has a message.
DrainerTypes ==
    /\ pass \in Passes
    /\ pass.pc \in {"box", "send"} => pass.row \in Msgs
    /\ passQueued \in BOOLEAN /\ retry \in BOOLEAN /\ closing \in BOOLEAN
    /\ failures \in Nat

WorldTypes ==
    /\ status \in Statuses /\ agent \in Statuses
    /\ pending \in BOOLEAN /\ shelf \in {"active", "user", "closed"} /\ listed \in BOOLEAN
    /\ interrupting \in BOOLEAN /\ intr \in BOOLEAN
    /\ spent \in [crashes : Nat, archives : Nat, gaps : Nat]

HistoryTypes ==
    /\ sends \in [Msgs -> Nat]
    /\ fate \in [Msgs -> {"open", "cancelled", "told"}]
    /\ settledSince \in {"no", "lifted", "yes"} /\ seen \in BOOLEAN

StateTypes == HandlerTypes /\ DrainerTypes /\ WorldTypes /\ HistoryTypes

Owned == \A m \in Msgs : Present(m) => pc[m] \in HandledPlaces

QueueInv == RowsGood /\ StateTypes /\ Owned

\* A message once handled stays handled, whoever moves it.
StaysHandled == \A k \in Msgs : pc[k] \in HandledPlaces => pc'[k] \in HandledPlaces

\* The three parts of a step, put together.
LEMMA QueueStep ==
    ASSUME QueueInv, NEW ms \in SUBSET Msgs, RowsGood', NewRows(ms), StateTypes', StaysHandled,
           \A m \in ms : pc'[m] \in HandledPlaces
    PROVE  QueueInv'
  BY DEF QueueInv, Owned, StaysHandled, NewRows, Present

\* A step that moves one handler.
LEMMA HandlerMoves ==
    ASSUME StateTypes, NEW m \in Msgs, NEW place \in Places, pc' = [pc EXCEPT ![m] = place],
           pc[m] \in HandledPlaces => place \in HandledPlaces
    PROVE  /\ StaysHandled /\ pc'[m] = place /\ pc' \in [Msgs -> Places]
  BY DEF StaysHandled, StateTypes, HandlerTypes

\* A step that leaves the handlers alone.
LEMMA HandlersStay ==
    ASSUME pc' = pc
    PROVE  StaysHandled
  BY DEF StaysHandled

\* The first state has an empty queue.
LEMMA InitQueueInv == Init => QueueInv
<1> SUFFICES ASSUME Init PROVE QueueInv
    OBVIOUS
<1>1. Rows = {} /\ order = <<>>
  BY DEF Init, Rows, Present
<1>2. RowsGood
  BY <1>1, EmptyLists DEF Init, RowsGood
<1>3. StateTypes
  BY DEF Init, StateTypes, HandlerTypes, DrainerTypes, WorldTypes, HistoryTypes, Awaitings, Passes, Places,
         Handling, Steering, Results, AllOutcomes, NoMark, IdlePass, Statuses
<1>4. Owned
  BY <1>1 DEF Owned, Rows
<1> QED
  BY <1>2, <1>3, <1>4 DEF QueueInv

\* A step of nothing but the world, the history and the flags of the drainer.
LEMMA PassStartQueue ==
    ASSUME QueueInv, PassStart
    PROVE  QueueInv'
<1>1. UNCHANGED <<queueVars, world, awaiting, closing, dispatch, spent, history>>
  BY DEF PassStart
<1>2. RowsGood' /\ NewRows({})
  BY <1>1, RowsStay DEF QueueInv
<1>3. StaysHandled
  BY <1>1, HandlersStay DEF dispatch
<1>4. Some("queued") => FirstQueued \in Msgs
  BY FirstQueuedIs DEF QueueInv, RowsGood, Rows
<1>5. DrainerTypes'
  BY <1>1, <1>4 DEF PassStart, QueueInv, StateTypes, DrainerTypes, Passes, IdlePass, Results
<1>6. StateTypes'
  BY <1>1, <1>5 DEF QueueInv, StateTypes, HandlerTypes, WorldTypes, HistoryTypes, dispatch, world, history
<1> QED
  BY <1>2, <1>3, <1>6, QueueStep

\* A pass lifts a restart hold: the rows change state and keep their places.
LEMMA PassLiftQueue ==
    ASSUME QueueInv, NEW read, PassLift(read)
    PROVE  QueueInv'
<1>1. UNCHANGED <<world, failures, awaiting, closing, dispatch, spent, history>>
  BY DEF PassLift
<1>2. RowsGood' /\ NewRows({})
  <2>1. CASE Unhold({m \in Msgs : RestartHeld(m)})
    <3>1. {m \in Msgs : RestartHeld(m)} \in SUBSET Rows
      BY DEF RestartHeld, Rows, Present
    <3> QED
      BY <2>1, <3>1, RowsHeldOrNot DEF QueueInv
  <2>2. CASE UNCHANGED queueVars
    BY <2>2, RowsStay DEF QueueInv
  <2> QED
    BY <2>1, <2>2 DEF PassLift
<1>3. StaysHandled
  BY <1>1, HandlersStay DEF dispatch
<1>4. DrainerTypes'
  BY <1>1 DEF PassLift, QueueInv, StateTypes, DrainerTypes, Passes, IdlePass, Results
<1>5. StateTypes'
  BY <1>1, <1>4 DEF QueueInv, StateTypes, HandlerTypes, WorldTypes, HistoryTypes, dispatch, world, history
<1> QED
  BY <1>2, <1>3, <1>5, QueueStep

\* A pass marks its row, which stays where it is.
LEMMA PassMarkQueue ==
    ASSUME QueueInv, NEW read, PassMark(read)
    PROVE  QueueInv'
<1>1. /\ UNCHANGED <<world, failures, closing, dispatch, spent, sends, fate, seen>>
      /\ pass.pc = "box" /\ pass.row \in Msgs
      /\ retry' = (retry \/ read = "no") /\ retry' \in BOOLEAN
  BY DEF PassMark, QueueInv, StateTypes, DrainerTypes
<1>2. StaysHandled
  BY <1>1, HandlersStay DEF dispatch
<1>3. CASE /\ rowState[pass.row] = "queued" /\ SetRow(pass.row, "sending", "none")
           /\ BeginSend(NoMsg)
           /\ pass' = [pass EXCEPT !.pc = "send", !.at = IndexOf(order, pass.row), !.res = Begun]
           /\ settledSince' = "no" /\ UNCHANGED <<order, passQueued>>
  <2>1. Present(pass.row) /\ pass.row \in Rows
    BY <1>1, <1>3 DEF Present, Rows
  <2>2. Lists(order', Rows)
    BY <1>3 DEF QueueInv, RowsGood
  <2>3. RowsGood' /\ NewRows({})
    BY <1>1, <1>3, <2>1, <2>2, RowChanges DEF QueueInv
  <2>4. IndexOf(order, pass.row) \in Nat
    <3>1. IndexOf(order, pass.row) \in 1..Len(order) /\ Len(order) \in Nat
      BY <2>1, IndexOfIs, LenProperties DEF QueueInv, RowsGood, Lists
    <3> QED
      BY <3>1
  <2>5. pass' \in Passes /\ pass'.row = pass.row
    BY <1>3, <2>4 DEF QueueInv, StateTypes, DrainerTypes, Passes, Begun, Results
  <2>6. DrainerTypes'
    BY <1>1, <1>3, <2>5 DEF QueueInv, StateTypes, DrainerTypes
  <2>7. StateTypes'
    BY <1>1, <1>3, <2>6
       DEF QueueInv, StateTypes, HandlerTypes, WorldTypes, HistoryTypes, dispatch, world, BeginSend, Awaitings
  <2> QED
    BY <1>2, <2>3, <2>7, QueueStep
<1>4. CASE /\ pass' = IdlePass /\ passQueued' \in BOOLEAN
           /\ UNCHANGED <<queueVars, awaiting, settledSince>>
  <2>1. RowsGood' /\ NewRows({})
    BY <1>4, RowsStay DEF QueueInv
  <2>2. DrainerTypes'
    BY <1>1, <1>4 DEF QueueInv, StateTypes, DrainerTypes, Passes, IdlePass, Results
  <2>3. StateTypes'
    BY <1>1, <1>4, <2>2 DEF QueueInv, StateTypes, HandlerTypes, WorldTypes, HistoryTypes, dispatch, world
  <2> QED
    BY <1>2, <2>1, <2>3, QueueStep
<1> QED
  BY <1>3, <1>4 DEF PassMark, QueueInv, StateTypes, DrainerTypes

\* The outcome of a drained send touches no row.
LEMMA PassDeliverQueue ==
    ASSUME QueueInv, NEW o \in Outcomes, PassDeliver(o)
    PROVE  QueueInv'
<1>1. /\ UNCHANGED <<queueVars, world, passQueued, retry, failures, awaiting, closing, dispatch, spent, fate,
                     settledSince, seen>>
      /\ pass.pc = "send" /\ pass.row \in Msgs /\ o \in Results
      /\ pass' = [pass EXCEPT !.res = o]
      /\ sends' = IF o = "sent" THEN [sends EXCEPT ![pass.row] = @ + 1] ELSE sends
  BY ConstantsAssumption DEF PassDeliver, QueueInv, StateTypes, DrainerTypes, ConstantsAssumption, Results
<1>2. RowsGood' /\ NewRows({}) /\ StaysHandled
  BY <1>1, RowsStay, HandlersStay DEF QueueInv, dispatch
<1>3. DrainerTypes'
  BY <1>1 DEF QueueInv, StateTypes, DrainerTypes, Passes
<1>4. sends' \in [Msgs -> Nat]
  BY <1>1 DEF QueueInv, StateTypes, HistoryTypes
<1>5. StateTypes'
  BY <1>1, <1>3, <1>4 DEF QueueInv, StateTypes, HandlerTypes, WorldTypes, HistoryTypes, dispatch, world
<1> QED
  BY <1>2, <1>5, QueueStep

\* A mark that its owner gives up, or keeps until its run shows.
LEMMA FinishTypes ==
    ASSUME QueueInv, NEW by \in Msgs \cup {NoMsg}, NEW sent, Finish(by, sent)
    PROVE  awaiting' \in Awaitings
  BY DEF Finish, QueueInv, StateTypes, HandlerTypes, Awaitings, NoMark

\* A pass drops the row it sent, or puts it back at the place it had.
LEMMA PassCommitQueue ==
    ASSUME QueueInv, PassCommit
    PROVE  QueueInv'
<1> DEFINE m    == pass.row
           out3 == pass.res = "failed" /\ pass.strikes + 1 >= MaxFailures
<1>1. /\ UNCHANGED <<world, passQueued, closing, dispatch, spent, sends, seen>>
      /\ pass.pc = "send" /\ m \in Msgs /\ pass.at \in Nat /\ pass.strikes \in Nat /\ pass' = IdlePass
      /\ Finish(NoMsg, pass.res = "sent")
  BY DEF PassCommit, QueueInv, StateTypes, DrainerTypes, Passes
<1>2. RowsGood' /\ NewRows({})
  <2>1. CASE Drop(m)
    BY <1>1, <2>1, RowLeaves DEF QueueInv
  <2>2. CASE GiveBack(m, "held", "send-failed")
    BY <1>1, <2>2, RowGivenBack DEF QueueInv, HoldReasons
  <2>3. CASE GiveBack(m, "queued", "none")
    BY <1>1, <2>3, RowGivenBack DEF QueueInv
  <2>4. Drop(m) \/ GiveBack(m, "held", "send-failed") \/ GiveBack(m, "queued", "none")
    <3>1. CASE pass.res \in {"sent", "delivered"}
      BY <3>1 DEF PassCommit
    <3>2. CASE pass.res \notin {"sent", "delivered"} /\ out3
      BY <3>2 DEF PassCommit
    <3>3. CASE pass.res \notin {"sent", "delivered"} /\ ~out3
      BY <3>3 DEF PassCommit
    <3> QED
      BY <3>1, <3>2, <3>3
  <2> QED
    BY <2>1, <2>2, <2>3, <2>4
<1>3. awaiting' \in Awaitings
  BY <1>1, FinishTypes
<1>4. DrainerTypes'
  <2>1. failures' \in Nat
    BY <1>1 DEF PassCommit, QueueInv, StateTypes, DrainerTypes
  <2>2. retry' \in BOOLEAN
    BY DEF PassCommit, QueueInv, StateTypes, DrainerTypes
  <2> QED
    BY <1>1, <2>1, <2>2 DEF QueueInv, StateTypes, DrainerTypes, Passes, IdlePass, Results
<1>5. HistoryTypes'
  BY <1>1 DEF PassCommit, QueueInv, StateTypes, HistoryTypes
<1>6. StateTypes'
  BY <1>1, <1>3, <1>4, <1>5 DEF QueueInv, StateTypes, HandlerTypes, WorldTypes, dispatch, world
<1> QED
  BY <1>1, <1>2, <1>6, QueueStep, HandlersStay DEF dispatch

\* A timer of the drainer, and the deferred hold of an archive.
LEMMA TimersQueue ==
    ASSUME QueueInv, RetryFires \/ RunWaitFires \/ RunEnded \/ HoldClosed
    PROVE  QueueInv'
<1>1. UNCHANGED <<world, pass, failures, dispatch, spent, sends, fate, seen>>
  BY DEF RetryFires, RunWaitFires, RunEnded, HoldClosed, history
<1>2. RowsGood' /\ NewRows({})
  <2>1. CASE UNCHANGED queueVars
    BY <2>1, RowsStay DEF QueueInv
  <2>2. CASE HoldAll("pane-closed")
    BY <2>2, RowsHeldOrNot DEF QueueInv, HoldReasons
  <2> QED
    BY <2>1, <2>2 DEF RetryFires, RunWaitFires, RunEnded, HoldClosed
<1>3. /\ passQueued' \in BOOLEAN /\ retry' \in BOOLEAN /\ closing' \in BOOLEAN /\ awaiting' \in Awaitings
      /\ settledSince' \in {"no", "lifted", "yes"}
  <2>1. NoMark \in Awaitings
    BY DEF NoMark, Awaitings
  <2>2. CASE RetryFires \/ HoldClosed
    BY <2>2 DEF RetryFires, HoldClosed, QueueInv, StateTypes, HandlerTypes, DrainerTypes, HistoryTypes, history
  <2>3. CASE RunWaitFires \/ RunEnded
    BY <2>1, <2>3
       DEF RunWaitFires, RunEnded, QueueInv, StateTypes, HandlerTypes, DrainerTypes, HistoryTypes, history
  <2> QED
    BY <2>2, <2>3
<1>4. StateTypes'
  BY <1>1, <1>3 DEF QueueInv, StateTypes, HandlerTypes, DrainerTypes, WorldTypes, HistoryTypes, dispatch, world
<1> QED
  BY <1>1, <1>2, <1>4, QueueStep, HandlersStay DEF dispatch

\* What the handlers leave alone.
handlerFrame == <<world, pass, retry, failures, closing, interrupting, intr, spent, history>>

\* The places a message waits at before it has a row.
Unhandled == {"new", "refused", "box", "bgStart", "bgSteer", "start"}

\* A message at work with no row yet.
LEMMA NoRowYet ==
    ASSUME QueueInv, NEW m \in Msgs, pc[m] \in Unhandled
    PROVE  ~Present(m) /\ pc[m] \notin HandledPlaces
  BY DEF QueueInv, Owned, HandledPlaces, Steering, Unhandled

\* The handler goes on without a row: refused, waiting for a read, or sending.
LEMMA HandlerGoesOn ==
    ASSUME QueueInv, NEW m \in Msgs, pc[m] \in Unhandled, NEW place \in Places,
           pc' = [pc EXCEPT ![m] = place], NEW o \in Results, out' = [out EXCEPT ![m] = o],
           awaiting' \in Awaitings, UNCHANGED <<queueVars, passQueued>>,
           UNCHANGED handlerFrame
    PROVE  QueueInv'
<1>1. StaysHandled /\ RowsGood' /\ NewRows({})
  BY NoRowYet, RowsStay DEF QueueInv, StateTypes, HandlerTypes, StaysHandled
<1>2. HandlerTypes'
  BY DEF QueueInv, StateTypes, HandlerTypes
<1>3. StateTypes'
  BY <1>2 DEF QueueInv, StateTypes, DrainerTypes, WorldTypes, HistoryTypes, handlerFrame, world, history
<1> QED
  BY <1>1, <1>3, QueueStep

\* A start sets out: no row is touched.
LEMMA StartPathQueue ==
    ASSUME QueueInv, NEW m \in Msgs, pc[m] \in Unhandled, StartPath(m), UNCHANGED handlerFrame
    PROVE  QueueInv'
<1>1. "start" \in Places /\ Begun \in Results
  BY DEF Places, Handling, Begun, Results
<1>2. awaiting' \in Awaitings
  BY DEF StartPath, BeginSend, Awaitings
<1>3. /\ pc' = [pc EXCEPT ![m] = "start"] /\ out' = [out EXCEPT ![m] = Begun]
      /\ UNCHANGED <<queueVars, passQueued>>
  BY DEF StartPath
<1> QED
  BY <1>1, <1>2, <1>3, HandlerGoesOn

\* A handler waits for a read: no row is touched.
LEMMA AwaitQueue ==
    ASSUME QueueInv, NEW m \in Msgs, pc[m] \in Unhandled, NEW place \in Places, UNCHANGED handlerFrame,
           Await(m, place) \/ Refuse(m)
    PROVE  QueueInv'
<1>1. PICK there \in Places : pc' = [pc EXCEPT ![m] = there]
  BY DEF Await, Refuse, Places
<1>2. out[m] \in Results /\ out' = [out EXCEPT ![m] = out[m]] /\ awaiting' \in Awaitings
      /\ UNCHANGED <<queueVars, passQueued>>
  BY DEF Await, Refuse, QueueInv, StateTypes, HandlerTypes
<1> QED
  BY <1>1, <1>2, HandlerGoesOn

\* A new row goes behind the rows as they were read: the table lists those and the new one.
LEMMA CommitRowQueue ==
    ASSUME QueueInv, NEW m \in Msgs, pc[m] \in Unhandled, NEW rows \in {order, <<>>}, CommitRow(m, rows),
           UNCHANGED handlerFrame
    PROVE  QueueInv'
<1>1. RowsGood' /\ NewRows({m})
  BY NoRowYet, RowCommitted DEF QueueInv
<1>2. pc' = [pc EXCEPT ![m] = "rowed"] /\ "rowed" \in Places /\ "rowed" \in HandledPlaces
      /\ UNCHANGED <<awaiting, out>> /\ passQueued' = TRUE
  BY DEF CommitRow, Rowed, Places, HandledPlaces
<1>3. StaysHandled /\ pc'[m] \in HandledPlaces /\ pc' \in [Msgs -> Places]
  BY <1>2, HandlerMoves DEF QueueInv
<1>4. StateTypes'
  BY <1>2, <1>3 DEF QueueInv, StateTypes, HandlerTypes, DrainerTypes, WorldTypes, HistoryTypes, handlerFrame,
                    world, history
<1> QED
  BY <1>1, <1>3, <1>4, QueueStep

\* The synchronous part of a handler.
LEMMA DispatchQueue ==
    ASSUME QueueInv, NEW m \in Msgs, NEW mode \in Modes, NEW maint, Dispatch(m, mode, maint)
    PROVE  QueueInv'
<1>1. pc[m] \in Unhandled /\ UNCHANGED handlerFrame
  BY DEF Dispatch, Unhandled, handlerFrame, history
<1>2. ASSUME Refuse(m) PROVE QueueInv'
  BY <1>1, <1>2, AwaitQueue DEF Places
<1>3. ASSUME NEW place \in {"box", "bgStart", "bgSteer"}, Await(m, place) PROVE QueueInv'
  <2>1. place \in Places
    BY DEF Places, Handling
  <2> QED
    BY <1>1, <1>3, <2>1, AwaitQueue
<1>4. ASSUME StartPath(m) PROVE QueueInv'
  BY <1>1, <1>4, StartPathQueue
<1>5. ASSUME Enqueue(m) PROVE QueueInv'
  BY <1>1, <1>3, <1>4, <1>5, CommitRowQueue DEF Enqueue
<1>6. mode \in {"start", "queue", "steer"}
  BY ConstantsAssumption DEF ConstantsAssumption, AllModes
<1>7. CASE Archived
  BY <1>2, <1>7 DEF Dispatch
<1>8. CASE ~Archived /\ mode = "queue"
  BY <1>5, <1>8 DEF Dispatch
<1>9. CASE ~Archived /\ mode = "start"
  BY <1>2, <1>3, <1>4, <1>9 DEF Dispatch
<1>10. CASE ~Archived /\ mode = "steer"
  BY <1>2, <1>3, <1>4, <1>5, <1>10 DEF Dispatch
<1> QED
  BY <1>6, <1>7, <1>8, <1>9, <1>10

\* The composer read of a handler comes back.
LEMMA EnqueueReadQueue ==
    ASSUME QueueInv, NEW m \in Msgs, NEW read \in Reads, EnqueueRead(m, read)
    PROVE  QueueInv'
<1>1. pc[m] \in Unhandled /\ UNCHANGED handlerFrame /\ read \in {"yes", "no", "throws"}
  BY ConstantsAssumption DEF EnqueueRead, Unhandled, handlerFrame, history, ConstantsAssumption, AllReads
<1>2. CASE read = "yes"
  BY <1>1, <1>2, StartPathQueue DEF EnqueueRead
<1>3. CASE read = "no"
  BY <1>1, <1>3, CommitRowQueue DEF EnqueueRead
<1>4. CASE read = "throws"
  BY <1>1, <1>4, AwaitQueue DEF EnqueueRead, Places
<1> QED
  BY <1>1, <1>2, <1>3, <1>4

\* The background read of a start comes back.
LEMMA StartReadQueue ==
    ASSUME QueueInv, NEW m \in Msgs, NEW background, StartRead(m, background)
    PROVE  QueueInv'
<1>1. pc[m] \in Unhandled /\ UNCHANGED handlerFrame
  BY DEF StartRead, Unhandled, handlerFrame, history
<1>2. StartPath(m) \/ Refuse(m)
  BY DEF StartRead
<1> QED
  BY <1>1, <1>2, StartPathQueue, AwaitQueue DEF Places

\* The background read of a steer comes back: its row goes to the head.
LEMMA SteerReadQueue ==
    ASSUME QueueInv, NEW m \in Msgs, NEW background, SteerRead(m, background)
    PROVE  QueueInv'
<1>1. pc[m] \in Unhandled /\ UNCHANGED handlerFrame
  BY DEF SteerRead, Unhandled, handlerFrame, history
<1>2. CASE StartPath(m) \/ Refuse(m)
  BY <1>1, <1>2, StartPathQueue, AwaitQueue DEF Places
<1>3. CASE ~(StartPath(m) \/ Refuse(m))
  <2> DEFINE place == IF interrupting THEN "sBgStopping" ELSE "sBg"
  <2>1. /\ order' = <<m>> \o order /\ SetRow(m, "sending", "none")
        /\ pc' = [pc EXCEPT ![m] = place] /\ place \in Places /\ place \in HandledPlaces
        /\ passQueued' = TRUE /\ UNCHANGED <<awaiting, out>>
    BY <1>3 DEF SteerRead, Places, HandledPlaces, Steering
  <2> HIDE DEF place
  <2>2. ~Present(m) /\ m \in Msgs \ Rows
    BY <1>1, NoRowYet DEF Rows
  <2>3. Lists(order', Rows \cup {m})
    BY <2>1, <2>2, EndsList DEF QueueInv, RowsGood
  <2>4. RowsGood' /\ NewRows({m})
    BY <2>1, <2>2, <2>3, RowComes DEF QueueInv
  <2>5. StaysHandled /\ pc'[m] \in HandledPlaces /\ pc' \in [Msgs -> Places]
    BY <2>1, HandlerMoves DEF QueueInv
  <2>6. StateTypes'
    BY <1>1, <2>1, <2>5
       DEF QueueInv, StateTypes, HandlerTypes, DrainerTypes, WorldTypes, HistoryTypes, handlerFrame, world, history
  <2> QED
    BY <2>4, <2>5, <2>6, QueueStep
<1> QED
  BY <1>2, <1>3

\* A send outside the drain comes to an outcome.
LEMMA DeliverQueue ==
    ASSUME QueueInv, NEW m \in Msgs, NEW o \in Outcomes, StartDeliver(m, o) \/ SteerDeliver(m, o)
    PROVE  QueueInv'
<1>1. /\ out' = [out EXCEPT ![m] = o] /\ o \in Results
      /\ sends' = IF o = "sent" THEN [sends EXCEPT ![m] = @ + 1] ELSE sends
      /\ UNCHANGED <<queueVars, world, drainer, pc, interrupting, intr, spent, fate, settledSince, seen>>
  BY ConstantsAssumption DEF StartDeliver, SteerDeliver, ConstantsAssumption, Results
<1>2. StaysHandled /\ RowsGood' /\ NewRows({})
  BY <1>1, RowsStay, HandlersStay DEF QueueInv
<1>3. sends' \in [Msgs -> Nat] /\ out' \in [Msgs -> Results]
  BY <1>1 DEF QueueInv, StateTypes, HandlerTypes, HistoryTypes
<1>4. StateTypes'
  BY <1>1, <1>3 DEF QueueInv, StateTypes, HandlerTypes, DrainerTypes, WorldTypes, HistoryTypes, drainer, world
<1> QED
  BY <1>2, <1>4, QueueStep

\* A handler settles its send: no row is touched.
LEMMA StartCommitQueue ==
    ASSUME QueueInv, NEW m \in Msgs, StartCommit(m)
    PROVE  QueueInv'
<1> DEFINE place == IF out[m] \in {"busy", "gone"} THEN "refused" ELSE "done"
<1>1. /\ pc[m] \in Unhandled /\ pc' = [pc EXCEPT ![m] = place] /\ place \in Places
      /\ out' = [out EXCEPT ![m] = "none"] /\ "none" \in Results
      /\ Finish(m, out[m] = "sent") /\ Lifts(out[m] = "sent")
      /\ UNCHANGED <<queueVars, world, pass, passQueued, retry, failures, closing, interrupting, intr, spent,
                     sends, seen>>
  BY DEF StartCommit, Unhandled, Places, Results
<1> HIDE DEF place
<1>2. StaysHandled /\ RowsGood' /\ NewRows({})
  BY <1>1, NoRowYet, HandlerMoves, RowsStay DEF QueueInv
<1>3. awaiting' \in Awaitings
  BY <1>1, FinishTypes
<1>4. HandlerTypes'
  BY <1>1, <1>3 DEF QueueInv, StateTypes, HandlerTypes
<1>5. HistoryTypes'
  BY <1>1 DEF StartCommit, Lifts, QueueInv, StateTypes, HistoryTypes
<1>6. StateTypes'
  BY <1>1, <1>4, <1>5 DEF QueueInv, StateTypes, DrainerTypes, WorldTypes, world
<1> QED
  BY <1>2, <1>6, QueueStep

\* The places of a steer whose row was handed over.
LEMMA SteerPlaces ==
    /\ Steering \subseteq Places /\ Steering \subseteq HandledPlaces
    /\ "rowed" \in Places /\ "rowed" \in HandledPlaces
  BY DEF Places, HandledPlaces

\* The steer moves, its row perhaps with it.
LEMMA SteerGoesOn ==
    ASSUME QueueInv, NEW m \in Msgs, NEW place \in HandledPlaces, pc' = [pc EXCEPT ![m] = place],
           out' \in [Msgs -> Results], awaiting' \in Awaitings, passQueued' \in BOOLEAN,
           interrupting' \in BOOLEAN, fate' \in [Msgs -> {"open", "cancelled", "told"}],
           settledSince' \in {"no", "lifted", "yes"}, RowsGood', NewRows({}),
           UNCHANGED <<world, pass, retry, failures, closing, intr, spent, sends, seen>>
    PROVE  QueueInv'
<1>1. StaysHandled /\ pc' \in [Msgs -> Places]
  BY SteerPlaces, HandlerMoves DEF QueueInv, HandledPlaces
<1>2. StateTypes'
  BY <1>1 DEF QueueInv, StateTypes, HandlerTypes, DrainerTypes, WorldTypes, HistoryTypes, world
<1> QED
  BY <1>1, <1>2, QueueStep

\* What a look of the steer comes to.
SteerLooks(m) ==
    /\ \E place \in HandledPlaces : pc' = [pc EXCEPT ![m] = place]
    /\ out' \in [Msgs -> Results] /\ awaiting' \in Awaitings
    /\ fate' \in [Msgs -> {"open", "cancelled", "told"}]
    /\ RowsGood' /\ NewRows({})

\* The last look of a steer touches no row.
LEMMA SteerSendLooks ==
    ASSUME QueueInv, NEW m \in Msgs, SteerSend(m)
    PROVE  SteerLooks(m)
<1>1. UNCHANGED <<queueVars, fate>> /\ RowsGood' /\ NewRows({})
  BY RowsStay DEF SteerSend, QueueInv
<1>2. Begun \in Results
  BY DEF Begun, Results
<1>3. out' \in [Msgs -> Results] /\ awaiting' \in Awaitings
  <2>1. (out' = out \/ out' = [out EXCEPT ![m] = Begun]) /\ (awaiting' = awaiting \/ BeginSend(m))
    BY DEF SteerSend
  <2>2. BeginSend(m) => awaiting' \in Awaitings
    BY DEF BeginSend, Awaitings
  <2> QED
    BY <1>2, <2>1, <2>2 DEF QueueInv, StateTypes, HandlerTypes
<1>4. \E place \in HandledPlaces : pc' = [pc EXCEPT ![m] = place]
  BY DEF SteerSend, Rowed, HandledPlaces, Steering
<1> QED
  BY <1>1, <1>3, <1>4 DEF SteerLooks, QueueInv, StateTypes, HistoryTypes

\* A steer that does not leave its row stays handled.
LEMMA SteerStays ==
    ASSUME QueueInv, NEW m \in Msgs, NEW place \in HandledPlaces, pc' = [pc EXCEPT ![m] = place],
           UNCHANGED <<queueVars, awaiting, out, fate>>
    PROVE  SteerLooks(m)
  BY RowsStay DEF SteerLooks, QueueInv, StateTypes, HandlerTypes, HistoryTypes

\* A steer that waits for the thread to settle touches no row.
LEMMA WaitSettledLooks ==
    ASSUME QueueInv, NEW m \in Msgs, WaitSettled(m)
    PROVE  SteerLooks(m)
<1>1. CASE SteerSend(m)
  BY <1>1, SteerSendLooks
<1>2. CASE ~SteerSend(m)
  <2>1. \E place \in HandledPlaces : pc' = [pc EXCEPT ![m] = place]
    BY <1>2 DEF WaitSettled, HandledPlaces, Steering
  <2> QED
    BY <1>2, <2>1, SteerStays DEF WaitSettled
<1> QED
  BY <1>1, <1>2

\* A steer given up moves its row to the head, held, or touches nothing if the row is gone.
LEMMA HoldSteerLooks ==
    ASSUME QueueInv, NEW m \in Msgs, NEW reason \in HoldReasons, HoldSteer(m, reason),
           awaiting' \in Awaitings, out' \in [Msgs -> Results]
    PROVE  SteerLooks(m)
<1>1. RowsGood' /\ NewRows({})
  BY SteerHeld DEF QueueInv
<1>2. fate' \in [Msgs -> {"open", "cancelled", "told"}]
  BY DEF HoldSteer, QueueInv, StateTypes, HistoryTypes
<1>3. \E place \in HandledPlaces : pc' = [pc EXCEPT ![m] = place]
  BY DEF HoldSteer, Rowed, HandledPlaces
<1> QED
  BY <1>1, <1>2, <1>3 DEF SteerLooks

\* Any of those steps of a steer keeps the table a queue.
LEMMA SteerLooksQueue ==
    ASSUME QueueInv, NEW m \in Msgs, SteerLooks(m), passQueued' \in BOOLEAN, interrupting' \in BOOLEAN,
           UNCHANGED steerFrame
    PROVE  QueueInv'
<1>1. PICK place \in HandledPlaces : pc' = [pc EXCEPT ![m] = place]
  BY DEF SteerLooks
<1>2. UNCHANGED <<world, pass, retry, failures, closing, intr, spent, sends, seen>>
      /\ settledSince' \in {"no", "lifted", "yes"}
  BY DEF steerFrame, QueueInv, StateTypes, HistoryTypes
<1> QED
  BY <1>1, <1>2, SteerGoesOn DEF SteerLooks

\* The steps of a steer that only look.
LEMMA SteerStepsQueue ==
    ASSUME QueueInv, NEW m \in Msgs, NEW background,
           \/ SteerBackground(m, background) \/ SteerLate(m, background)
           \/ SteerWaitFires(m) \/ SteerWoken(m)
    PROVE  QueueInv'
<1>1. UNCHANGED <<passQueued, interrupting, steerFrame>> /\ passQueued' \in BOOLEAN /\ interrupting' \in BOOLEAN
  BY DEF SteerBackground, SteerLate, SteerWaitFires, SteerWoken, QueueInv, StateTypes, DrainerTypes, WorldTypes
<1>2. {"sPress", "sLate"} \subseteq HandledPlaces
  BY DEF HandledPlaces, Steering
<1>3. SteerLooks(m)
  <2>1. CASE SteerBackground(m, background)
    BY <1>2, <2>1, SteerSendLooks, WaitSettledLooks, SteerStays DEF SteerBackground
  <2>2. CASE SteerLate(m, background)
    <3>1. out \in [Msgs -> Results] /\ awaiting \in Awaitings /\ "interrupt-timeout" \in HoldReasons
      BY DEF QueueInv, StateTypes, HandlerTypes, HoldReasons
    <3> QED
      BY <2>2, <3>1, SteerSendLooks, HoldSteerLooks DEF SteerLate
  <2>3. CASE SteerWaitFires(m)
    BY <1>2, <2>3, SteerStays DEF SteerWaitFires
  <2>4. CASE SteerWoken(m)
    BY <2>4, SteerSendLooks DEF SteerWoken
  <2> QED
    BY <2>1, <2>2, <2>3, <2>4
<1> QED
  BY <1>1, <1>3, SteerLooksQueue

\* The interrupt key of a steer: its row stays, goes to the head, or goes to the back.
LEMMA SteerPressQueue ==
    ASSUME QueueInv, NEW m \in Msgs, NEW result \in {"pressed", "failed", "maintenance"}, SteerPress(m, result)
    PROVE  QueueInv'
<1>1. UNCHANGED steerFrame /\ passQueued \in BOOLEAN /\ interrupting \in BOOLEAN
      /\ out \in [Msgs -> Results] /\ awaiting \in Awaitings /\ "interrupt-failed" \in HoldReasons
  BY DEF SteerPress, QueueInv, StateTypes, HandlerTypes, DrainerTypes, WorldTypes, HoldReasons
<1>2. CASE result = "pressed"
  <2>1. WaitSettled(m) /\ interrupting' = TRUE /\ UNCHANGED passQueued
    BY <1>2 DEF SteerPress
  <2> QED
    BY <1>1, <2>1, WaitSettledLooks, SteerLooksQueue
<1>3. CASE result = "failed"
  <2>1. HoldSteer(m, "interrupt-failed") /\ UNCHANGED <<interrupting, passQueued, awaiting, out>>
    BY <1>3 DEF SteerPress
  <2> QED
    BY <1>1, <2>1, HoldSteerLooks, SteerLooksQueue
<1>4. CASE result = "maintenance"
  <2>1. pc' = [pc EXCEPT ![m] = "rowed"] /\ UNCHANGED <<interrupting, awaiting, out, fate>> /\ passQueued' \in BOOLEAN
    BY <1>1, <1>4 DEF SteerPress, Rowed
  <2>2. RowsGood' /\ NewRows({})
    <3>1. CASE Present(m)
      BY <1>4, <3>1, SteerGoesBack DEF SteerPress, QueueInv
    <3>2. CASE ~Present(m)
      BY <1>4, <3>2, RowsStay DEF SteerPress, QueueInv
    <3> QED
      BY <3>1, <3>2
  <2>3. SteerLooks(m)
    BY <2>1, <2>2, SteerPlaces DEF SteerLooks, QueueInv, StateTypes, HandlerTypes, HistoryTypes
  <2> QED
    BY <1>1, <2>1, <2>3, SteerLooksQueue
<1> QED
  BY <1>2, <1>3, <1>4

\* A steer drops the row it sent, or holds it at the head.
LEMMA SteerCommitQueue ==
    ASSUME QueueInv, NEW m \in Msgs, SteerCommit(m)
    PROVE  QueueInv'
<1>1. /\ out' = [out EXCEPT ![m] = "none"] /\ Finish(m, out[m] = "sent") /\ Lifts(out[m] = "sent")
      /\ UNCHANGED <<world, pass, passQueued, retry, failures, closing, interrupting, intr, spent, sends, seen>>
  BY DEF SteerCommit
<1>2. awaiting' \in Awaitings /\ out' \in [Msgs -> Results]
  BY <1>1, FinishTypes DEF QueueInv, StateTypes, HandlerTypes, Results
<1>3. SteerLooks(m)
  <2>1. CASE out[m] \in {"sent", "delivered"}
    <3>1. /\ Drop(m) /\ pc' = [pc EXCEPT ![m] = "rowed"]
          /\ fate' = fate \/ fate' = [fate EXCEPT ![m] = "told"]
      BY <2>1 DEF SteerCommit, Rowed
    <3>2. RowsGood' /\ NewRows({})
      BY <3>1, RowLeaves DEF QueueInv
    <3>3. fate' \in [Msgs -> {"open", "cancelled", "told"}]
      BY <3>1 DEF QueueInv, StateTypes, HistoryTypes
    <3> QED
      BY <1>2, <3>1, <3>2, <3>3, SteerPlaces DEF SteerLooks
  <2>2. CASE out[m] \notin {"sent", "delivered"}
    <3>1. HoldSteer(m, "send-failed") /\ "send-failed" \in HoldReasons
      BY <2>2 DEF SteerCommit, HoldReasons
    <3> QED
      BY <1>2, <3>1, HoldSteerLooks
  <2> QED
    BY <2>1, <2>2
<1>4. PICK place \in HandledPlaces : pc' = [pc EXCEPT ![m] = place]
  BY <1>3 DEF SteerLooks
<1>5. passQueued' \in BOOLEAN /\ interrupting' \in BOOLEAN /\ settledSince' \in {"no", "lifted", "yes"}
  BY <1>1 DEF Lifts, QueueInv, StateTypes, DrainerTypes, WorldTypes, HistoryTypes
<1> QED
  BY <1>1, <1>2, <1>3, <1>4, <1>5, SteerGoesOn DEF SteerLooks

\* The other commands.
LEMMA CommandsQueue ==
    ASSUME QueueInv, \/ \E s \in SetToSeqs({m \in Msgs : Present(m)}) : Reorder(s)
                     \/ \E m \in Msgs : Cancel(m) \/ Edit(m)
                     \/ Resume
    PROVE  QueueInv'
<1>1. UNCHANGED queueCommand /\ passQueued' \in BOOLEAN /\ fate' \in [Msgs -> {"open", "cancelled", "told"}]
  BY DEF Reorder, Cancel, Edit, Resume, QueueInv, StateTypes, DrainerTypes, HistoryTypes
<1>2. RowsGood' /\ NewRows({})
  <2>1. ASSUME NEW s \in SetToSeqs(Rows), Reorder(s) PROVE <1>2
    BY <2>1, RowsReordered DEF QueueInv
  <2>2. ASSUME NEW m \in Msgs, Cancel(m) PROVE <1>2
    BY <2>2, RowLeaves DEF Cancel, QueueInv
  <2>3. ASSUME NEW m \in Msgs, Edit(m) PROVE <1>2
    BY <2>3, RowsStay DEF Edit, QueueInv
  <2>4. ASSUME Resume PROVE <1>2
    <3>1. {m \in Msgs : rowState[m] = "held"} \in SUBSET Rows /\ Unhold({m \in Msgs : rowState[m] = "held"})
      BY <2>4 DEF Resume, Rows, Present
    <3> QED
      BY <3>1, RowsHeldOrNot DEF QueueInv
  <2> QED
    BY <2>1, <2>2, <2>3, <2>4 DEF Rows
<1>3. StateTypes'
  BY <1>1 DEF QueueInv, StateTypes, HandlerTypes, DrainerTypes, WorldTypes, HistoryTypes, queueCommand, dispatch, world
<1> QED
  BY <1>1, <1>2, <1>3, QueueStep, HandlersStay DEF queueCommand, dispatch

\* The interrupt, and what of the world touches neither rows nor handlers.
LEMMA WorldQueue ==
    ASSUME QueueInv, \/ InterruptAsk \/ InterruptExpires \/ \E pressed \in BOOLEAN : InterruptPress(pressed)
                     \/ \E s \in Agent : AgentMoves(s)
                     \/ PollArchived \/ PaneDropped \/ RequestOpens \/ RequestCloses \/ Unarchive
    PROVE  QueueInv'
<1>1. UNCHANGED <<queueVars, pc, out, pass, retry, failures, awaiting, closing, history>>
  BY DEF InterruptAsk, InterruptExpires, InterruptPress, AgentMoves, PollArchived, PaneDropped, RequestOpens,
         RequestCloses, Unarchive, drainer, dispatch
<1>2. WorldTypes' /\ passQueued' \in BOOLEAN
  <2>1. WorldTypes /\ passQueued \in BOOLEAN
    BY DEF QueueInv, StateTypes, DrainerTypes
  <2>2. CASE InterruptAsk \/ InterruptExpires \/ \E pressed \in BOOLEAN : InterruptPress(pressed)
    BY <2>1, <2>2 DEF InterruptAsk, InterruptExpires, InterruptPress, drainer, world, WorldTypes
  <2>3. ASSUME NEW s \in Agent, AgentMoves(s) PROVE <1>2
    BY <2>1, <2>3, ConstantsAssumption DEF AgentMoves, drainer, dispatch, WorldTypes, ConstantsAssumption
  <2>4. CASE PaneDropped
    <3>1. spent' \in [crashes : Nat, archives : Nat, gaps : Nat]
      BY <2>1, <2>4 DEF PaneDropped, WorldTypes
    <3> QED
      BY <2>1, <2>4, <3>1 DEF PaneDropped, drainer, dispatch, WorldTypes
  <2>5. CASE PollArchived \/ RequestOpens \/ RequestCloses \/ Unarchive
    BY <2>1, <2>5 DEF PollArchived, RequestOpens, RequestCloses, Unarchive, drainer, dispatch, WorldTypes
  <2> QED
    BY <2>2, <2>3, <2>4, <2>5
<1>3. StateTypes'
  BY <1>1, <1>2 DEF QueueInv, StateTypes, HandlerTypes, DrainerTypes, HistoryTypes, history
<1> QED
  BY <1>1, <1>3, RowsStay, HandlersStay, QueueStep DEF QueueInv

\* A poll moves handlers and the projection, and no row.
LEMMA PollQueue ==
    ASSUME QueueInv, Poll
    PROVE  QueueInv'
<1>1. UNCHANGED <<queueVars, pending, agent, pass, retry, failures, closing, out, intr, spent, sends, fate>>
      /\ listed' = TRUE /\ seen' = TRUE /\ shelf' = "active" /\ status' = agent
  BY DEF Poll
<1>2. pc' = [m \in Msgs |-> IF agent # status /\ agent = "idle" /\ pc[m] = "sWait" THEN "woken" ELSE pc[m]]
  BY DEF Poll, QueueInv, StateTypes, HandlerTypes
<1>3. pc' \in [Msgs -> Places] /\ StaysHandled
  BY <1>2 DEF QueueInv, StateTypes, HandlerTypes, StaysHandled, HandledPlaces, Steering, Places
<1>4. awaiting' \in Awaitings
  <2>1. NoMark \in Awaitings /\ awaiting \in Awaitings /\ [awaiting EXCEPT !.saw = awaiting.on] \in Awaitings
    BY DEF NoMark, QueueInv, StateTypes, HandlerTypes, Awaitings
  <2>2. awaiting' \in {awaiting, NoMark, [awaiting EXCEPT !.saw = awaiting.on]}
    BY DEF Poll
  <2> QED
    BY <2>1, <2>2
<1>5. passQueued' \in BOOLEAN /\ interrupting' \in BOOLEAN /\ settledSince' \in {"no", "lifted", "yes"}
  BY DEF Poll, QueueInv, StateTypes, DrainerTypes, WorldTypes, HistoryTypes
<1>6. StateTypes'
  BY <1>1, <1>3, <1>4, <1>5 DEF QueueInv, StateTypes, HandlerTypes, DrainerTypes, WorldTypes, HistoryTypes
<1> QED
  BY <1>1, <1>3, <1>6, RowsStay, QueueStep DEF QueueInv

\* An archive forgets the pass and the marks; the rows stay until the deferred hold.
LEMMA ArchiveQueue ==
    ASSUME QueueInv, Archive \/ PaneClosed
    PROVE  QueueInv'
<1>1. /\ UNCHANGED <<queueVars, status, agent, listed, out, intr, sends, fate, seen>>
      /\ awaiting' = NoMark /\ retry' = FALSE /\ failures' = 0 /\ closing' = TRUE /\ interrupting' = FALSE
      /\ pass' = [pass EXCEPT !.forgotten = pass.pc # "idle"]
      /\ pc' = [m \in Msgs |-> IF pc[m] = "sWait" THEN "rowed" ELSE pc[m]]
      /\ spent' = [spent EXCEPT !.archives = @ + 1]
      /\ settledSince' = "yes"
  BY DEF Archive, PaneClosed, Forget
<1>2. shelf' \in {"user", "closed"} /\ pending' \in BOOLEAN /\ passQueued' \in BOOLEAN
  BY DEF Archive, PaneClosed, QueueInv, StateTypes, DrainerTypes, WorldTypes
<1>3. pc' \in [Msgs -> Places] /\ StaysHandled
  BY <1>1 DEF QueueInv, StateTypes, HandlerTypes, StaysHandled, HandledPlaces, Steering, Places
<1>4. pass' \in Passes /\ pass'.pc = pass.pc /\ pass'.row = pass.row
  BY <1>1 DEF QueueInv, StateTypes, DrainerTypes, Passes
<1>5. spent' \in [crashes : Nat, archives : Nat, gaps : Nat]
  BY <1>1 DEF QueueInv, StateTypes, WorldTypes
<1>6. NoMark \in Awaitings
  BY DEF NoMark, Awaitings
<1>7. StateTypes'
  BY <1>1, <1>2, <1>3, <1>4, <1>5, <1>6 DEF QueueInv, StateTypes, HandlerTypes, DrainerTypes, WorldTypes, HistoryTypes
<1> QED
  BY <1>1, <1>3, <1>7, RowsStay, QueueStep DEF QueueInv

\* A restart holds every row where it is.
LEMMA RestartQueue ==
    ASSUME QueueInv, NEW polled \in BOOLEAN, Restart(polled)
    PROVE  QueueInv'
<1>1. /\ UNCHANGED <<status, pending, shelf, agent, sends, fate>>
      /\ pc' = [m \in Msgs |-> IF pc[m] \in Handling THEN "refused"
                               ELSE IF pc[m] \in Steering THEN "rowed" ELSE pc[m]]
      /\ out' = [m \in Msgs |-> "none"] /\ pass' = IdlePass
      /\ passQueued' = (Some("queued") \/ Some("sending"))
      /\ retry' = FALSE /\ failures' = 0 /\ awaiting' = NoMark /\ closing' = FALSE
      /\ interrupting' = FALSE /\ intr' = FALSE /\ listed' = polled /\ seen' = FALSE /\ settledSince' = "yes"
      /\ spent' = [spent EXCEPT !.crashes = @ + 1]
  BY DEF Restart
<1>2. RowsGood' /\ NewRows({})
  BY RowsHeldOrNot DEF Restart, QueueInv, HoldReasons
<1>3. pc' \in [Msgs -> Places] /\ StaysHandled
  BY <1>1 DEF QueueInv, StateTypes, HandlerTypes, StaysHandled, HandledPlaces, Steering, Handling, Places
<1>4. NoMark \in Awaitings /\ IdlePass \in Passes /\ IdlePass.pc = "idle" /\ "none" \in Results
  BY DEF NoMark, Awaitings, IdlePass, Passes, Results
<1>5. spent' \in [crashes : Nat, archives : Nat, gaps : Nat]
  BY <1>1 DEF QueueInv, StateTypes, WorldTypes
<1>6. HandlerTypes' /\ DrainerTypes'
  BY <1>1, <1>3, <1>4 DEF HandlerTypes, DrainerTypes, Some
<1>7. StateTypes'
  BY <1>1, <1>5, <1>6 DEF QueueInv, StateTypes, WorldTypes, HistoryTypes
<1> QED
  BY <1>2, <1>3, <1>7, QueueStep

\* Every step keeps the types and the queue.
LEMMA NextQueueInv == QueueInv /\ [Next]_vars => QueueInv'
<1> SUFFICES ASSUME QueueInv, [Next]_vars PROVE QueueInv'
    OBVIOUS
<1>1. CASE DrainStep
  BY <1>1, PassStartQueue, PassLiftQueue, PassMarkQueue, PassDeliverQueue, PassCommitQueue, TimersQueue DEF DrainStep
<1>2. ASSUME NEW m \in Msgs, HandlerStep(m) PROVE QueueInv'
  BY <1>2, DispatchQueue, EnqueueReadQueue, StartReadQueue, SteerReadQueue, DeliverQueue, StartCommitQueue
     DEF HandlerStep
<1>3. ASSUME NEW m \in Msgs, SteerStep(m) PROVE QueueInv'
  BY <1>3, SteerStepsQueue, SteerPressQueue, DeliverQueue, SteerCommitQueue DEF SteerStep
<1>4. CASE CommandStep
  BY <1>4, CommandsQueue, WorldQueue DEF CommandStep
<1>5. CASE WorldStep
  BY <1>5, WorldQueue, PollQueue, ArchiveQueue, RestartQueue DEF WorldStep
<1>6. CASE UNCHANGED vars
  <2>1. RowsGood' /\ NewRows({}) /\ StaysHandled
    BY <1>6, RowsStay, HandlersStay DEF QueueInv, vars, dispatch
  <2>2. StateTypes'
    BY <1>6 DEF QueueInv, StateTypes, HandlerTypes, DrainerTypes, WorldTypes, HistoryTypes, vars, dispatch,
                drainer, world, history
  <2> QED
    BY <2>1, <2>2, QueueStep
<1> QED
  BY <1>1, <1>2, <1>3, <1>4, <1>5, <1>6 DEF Next

\* The queue invariant holds in every state, with any number of restarts, archives and handlers.
THEOREM QueueInvariance == Spec => []QueueInv
  BY InitQueueInv, NextQueueInv, PTL DEF Spec

\* Every variable keeps its type, whatever the messages, handlers, restarts and archives.
THEOREM TypesCorrect == Spec => []TypeOK
<1>1. QueueInv => TypeOK
  BY DEF QueueInv, RowsGood, Lists, StateTypes, HandlerTypes, DrainerTypes, WorldTypes, HistoryTypes, Awaitings,
         Passes, TypeOK
<1> QED
  BY <1>1, QueueInvariance, PTL

\* Every row is listed once, the listed messages are the rows, and only a held row has a reason: the
\* normalization after marks, put-backs, steers and reorders never loses or doubles a place.
THEOREM TableIsAQueue == Spec => []RowsAreAQueue
<1>1. QueueInv => RowsAreAQueue
  BY DEF QueueInv, RowsGood, Lists, Rows, RowsAreAQueue
<1> QED
  BY <1>1, QueueInvariance, PTL

-----------------------------------------------------------------------------
(* No message is lost *)

\* The operator can tell what became of the message.
Accounted(m) == Present(m) \/ sends[m] > 0 \/ fate[m] # "open"

\* One handler at a time: its composer read finds the queue as empty as it was before.
OneAtATime ==
    /\ \A k, m \in Msgs : pc[k] \in Handling /\ pc[m] \in Handling => k = m
    /\ \A k, m \in Msgs : pc[m] = "box" => ~Present(k)

\* A message with a row keeps it until it was submitted, cancelled or reported; a send that says it
\* submitted its message did.
LossInv ==
    /\ OneAtATime
    /\ \A m \in Msgs : pc[m] \in HandledPlaces => Accounted(m)
    /\ \A m \in Msgs : pc[m] = "sSend" /\ out[m] = "sent" => sends[m] > 0
    /\ pass.pc = "send" /\ pass.res = "sent" => sends[pass.row] > 0

\* Nothing is accepted yet in the first state.
LEMMA InitLossInv == Init => LossInv
  BY DEF Init, LossInv, OneAtATime, HandledPlaces, Handling, Steering, IdlePass

\* A step that starts no handler, makes no row and drops no message that is not accounted for.
LEMMA LossStep ==
    ASSUME LossInv,
           \A k \in Msgs : /\ pc'[k] \in Handling => pc'[k] = pc[k]
                           /\ pc'[k] \in HandledPlaces => pc[k] \in HandledPlaces
                           /\ Present(k)' => Present(k)
                           /\ pc[k] \in HandledPlaces /\ Accounted(k) => Accounted(k)'
                           /\ pc'[k] = "sSend" /\ out'[k] = "sent" => sends'[k] > 0,
           pass'.pc = "send" /\ pass'.res = "sent" => sends'[pass'.row] > 0
    PROVE  LossInv'
<1>1. OneAtATime'
  BY DEF LossInv, OneAtATime, Handling
<1> QED
  BY <1>1 DEF LossInv

\* A step that leaves the handlers, the history and what has a row alone.
LEMMA LossFrame ==
    ASSUME LossInv, UNCHANGED <<pc, out, sends, fate>>, \A k \in Msgs : Present(k)' <=> Present(k),
           pass'.pc = "send" /\ pass'.res = "sent" => sends[pass'.row] > 0
    PROVE  LossInv'
<1>1. \A k \in Msgs : Accounted(k)' <=> Accounted(k)
  BY DEF Accounted
<1> QED
  BY <1>1 DEF LossInv, OneAtATime

\* The drain passes that submit nothing, the timers, and the deferred hold of an archive.
LEMMA DrainLoss ==
    ASSUME QueueInv, LossInv, \/ PassStart \/ (\E read \in Reads : PassLift(read) \/ PassMark(read))
                              \/ HoldClosed \/ RetryFires \/ RunWaitFires \/ RunEnded
    PROVE  LossInv'
<1>1. UNCHANGED <<pc, out, sends, fate>>
  BY DEF PassStart, PassLift, PassMark, HoldClosed, RetryFires, RunWaitFires, RunEnded, dispatch, history
<1>2. \A k \in Msgs : rowState[k] \in {"absent", "queued", "sending", "held"}
  BY DEF QueueInv, RowsGood
<1>3. ASSUME NEW k \in Msgs PROVE Present(k)' <=> Present(k)
  <2>1. CASE UNCHANGED queueVars
    BY <2>1 DEF queueVars, Present
  <2>2. CASE Unhold({m \in Msgs : RestartHeld(m)})
    BY <2>2 DEF Unhold, RestartHeld, Present
  <2>3. CASE HoldAll("pane-closed")
    BY <2>3 DEF HoldAll, Present
  <2>4. CASE SetRow(pass.row, "sending", "none") /\ rowState[pass.row] = "queued" /\ pass.row \in Msgs
    BY <2>4, <1>2 DEF SetRow, Present, QueueInv, RowsGood
  <2> QED
    BY <2>1, <2>2, <2>3, <2>4
       DEF PassStart, PassLift, PassMark, HoldClosed, RetryFires, RunWaitFires, RunEnded, queueVars,
           QueueInv, StateTypes, DrainerTypes
<1>4. pass'.pc = "send" /\ pass'.res = "sent" => pass' = pass
  <2>1. CASE PassStart
    BY <2>1 DEF PassStart, IdlePass
  <2>2. ASSUME NEW read, PassLift(read) \/ PassMark(read) PROVE <1>4
    <3>1. pass' = IdlePass \/ pass' = [pass EXCEPT !.pc = "send", !.at = IndexOf(order, pass.row), !.res = Begun]
      BY <2>2 DEF PassLift, PassMark
    <3>2. pass \in Passes /\ Begun # "sent"
      BY DEF Begun, QueueInv, StateTypes, DrainerTypes
    <3>3. pass' = IdlePass => pass'.pc = "idle"
      BY DEF IdlePass
    <3>4. pass' # IdlePass => pass'.res = Begun
      <4>1. ASSUME NEW at, pass' = [pass EXCEPT !.pc = "send", !.at = at, !.res = Begun] PROVE pass'.res = Begun
        BY <3>2, <4>1 DEF Passes
      <4> QED
        BY <3>1, <4>1
    <3> QED
      BY <3>2, <3>3, <3>4
  <2>3. CASE HoldClosed \/ RetryFires \/ RunWaitFires \/ RunEnded
    BY <2>3 DEF HoldClosed, RetryFires, RunWaitFires, RunEnded
  <2> QED
    BY <2>1, <2>2, <2>3
<1> QED
  BY <1>1, <1>3, <1>4, LossFrame DEF LossInv

\* The pass submits its row.
LEMMA PassDeliverLoss ==
    ASSUME QueueInv, LossInv, NEW o \in Outcomes, PassDeliver(o)
    PROVE  LossInv'
<1>1. /\ UNCHANGED <<rowState, pc, out, fate>> /\ pass.row \in Msgs
      /\ pass'.pc = "send" /\ pass'.row = pass.row /\ pass'.res = o
      /\ sends' = IF o = "sent" THEN [sends EXCEPT ![pass.row] = @ + 1] ELSE sends
      /\ sends \in [Msgs -> Nat]
  BY DEF PassDeliver, queueVars, dispatch, QueueInv, StateTypes, DrainerTypes, HistoryTypes, Passes
<1>2. \A k \in Msgs : sends'[k] >= sends[k] /\ sends'[k] \in Nat
  BY <1>1
<1>3. o = "sent" => sends'[pass.row] > 0
  BY <1>1
<1>4. \A k \in Msgs : Accounted(k) => Accounted(k)'
  BY <1>1, <1>2 DEF Accounted, Present
<1>5. \A k \in Msgs : pc'[k] = "sSend" /\ out'[k] = "sent" => sends'[k] > 0
  BY <1>1, <1>2 DEF LossInv
<1> QED
  BY <1>1, <1>3, <1>4, <1>5, LossStep DEF Present

\* The pass drops its row only when it was submitted or is reported.
LEMMA PassCommitLoss ==
    ASSUME QueueInv, LossInv, PassCommit
    PROVE  LossInv'
<1>0. PICK m \in Msgs : m = pass.row
  BY DEF PassCommit, QueueInv, StateTypes, DrainerTypes
<1> DEFINE out3 == pass.res = "failed" /\ pass.strikes + 1 >= MaxFailures
<1>1. /\ UNCHANGED <<pc, out, sends>> /\ m \in Msgs /\ pass.pc = "send" /\ pass'.pc = "idle"
      /\ sends \in [Msgs -> Nat] /\ fate \in [Msgs -> {"open", "cancelled", "told"}]
      /\ rowState \in [Msgs -> {"absent", "queued", "sending", "held"}]
  BY <1>0 DEF PassCommit, dispatch, IdlePass, QueueInv, RowsGood, StateTypes, DrainerTypes, HistoryTypes
<1>2. fate' = fate \/ fate' = [fate EXCEPT ![m] = "told"]
  BY <1>0 DEF PassCommit
<1>3. /\ \A k \in Msgs : Present(k)' => Present(k)
      /\ \A k \in Msgs \ {m} : Present(k) => Present(k)'
      /\ Present(m) /\ ~Present(m)' => sends[m] > 0 \/ fate'[m] = "told"
  <2>1. CASE pass.res \in {"sent", "delivered"}
    <3>1. rowState' = [rowState EXCEPT ![m] = "absent"]
      BY <1>0, <2>1 DEF PassCommit, Drop
    <3>2. sends[m] > 0 \/ fate'[m] = "told"
      <4>1. CASE pass.res = "sent"
        BY <1>0, <1>1, <4>1 DEF LossInv
      <4>2. CASE pass.res = "delivered"
        <5>1. fate' = [fate EXCEPT ![m] = "told"]
          BY <1>0, <4>2 DEF PassCommit
        <5> QED
          BY <1>1, <5>1
      <4> QED
        BY <2>1, <4>1, <4>2
    <3> QED
      BY <1>1, <3>1, <3>2 DEF Present
  <2>2. CASE pass.res \notin {"sent", "delivered"}
    <3>1. GiveBack(m, "held", "send-failed") \/ GiveBack(m, "queued", "none")
      <4>1. CASE out3
        BY <1>0, <2>2, <4>1 DEF PassCommit
      <4>2. CASE ~out3
        BY <1>0, <2>2, <4>2 DEF PassCommit
      <4> QED
        BY <4>1, <4>2
    <3>2. rowState' = rowState \/ (Present(m) /\ \E s \in {"held", "queued"} : rowState' = [rowState EXCEPT ![m] = s])
      BY <3>1 DEF GiveBack, SetRow, queueVars
    <3>3. ASSUME Present(m), NEW s \in {"held", "queued"}, rowState' = [rowState EXCEPT ![m] = s]
          PROVE  \A k \in Msgs : Present(k)' <=> Present(k)
      BY <1>1, <3>3 DEF Present
    <3>4. \A k \in Msgs : Present(k)' <=> Present(k)
      BY <3>2, <3>3 DEF Present
    <3> QED
      BY <3>4
  <2> QED
    BY <2>1, <2>2
<1>4. ASSUME NEW k \in Msgs, Accounted(k) PROVE Accounted(k)'
  <2>1. fate'[k] = "open" => fate[k] = "open"
    BY <1>1, <1>2
  <2> QED
    BY <1>1, <1>3, <1>4, <2>1 DEF Accounted
<1> QED
  BY <1>1, <1>3, <1>4, LossStep DEF LossInv

\* Restarts, archives and polls move handlers and steers, never into a handler.
LEMMA WorldLoss ==
    ASSUME QueueInv, LossInv, Poll \/ Archive \/ PaneClosed \/ \E polled \in BOOLEAN : Restart(polled)
    PROVE  LossInv'
<1>1. UNCHANGED <<sends, fate>> /\ pc \in [Msgs -> Places]
  BY DEF Poll, Archive, PaneClosed, Forget, Restart, QueueInv, StateTypes, HandlerTypes
<1>2. \A k \in Msgs : Present(k)' <=> Present(k)
  <2>1. UNCHANGED rowState \/ HoldAll("restart")
    BY DEF Poll, Archive, PaneClosed, Forget, Restart, queueVars
  <2> QED
    BY <2>1 DEF HoldAll, Present
<1>3. ASSUME NEW k \in Msgs
      PROVE  /\ pc'[k] \in Handling => pc'[k] = pc[k]
             /\ pc'[k] \in HandledPlaces => pc[k] \in HandledPlaces
             /\ pc'[k] = "sSend" /\ out'[k] = "sent" => pc[k] = "sSend" /\ out[k] = "sent"
  <2>1. CASE Poll
    <3>1. pc'[k] = pc[k] \/ (pc[k] = "sWait" /\ pc'[k] = "woken")
      BY <2>1, <1>1 DEF Poll
    <3> QED
      BY <2>1, <3>1 DEF Poll, Handling, HandledPlaces, Steering
  <2>2. CASE Archive \/ PaneClosed
    <3>1. pc'[k] = pc[k] \/ (pc[k] = "sWait" /\ pc'[k] = "rowed")
      BY <2>2, <1>1 DEF Archive, PaneClosed, Forget
    <3> QED
      BY <2>2, <3>1 DEF Archive, PaneClosed, Forget, Handling, HandledPlaces, Steering
  <2>3. ASSUME NEW polled \in BOOLEAN, Restart(polled) PROVE <1>3!2
    <3>1. /\ pc'[k] = IF pc[k] \in Handling THEN "refused" ELSE IF pc[k] \in Steering THEN "rowed" ELSE pc[k]
          /\ out'[k] = "none"
      BY <2>3 DEF Restart
    <3> QED
      BY <3>1 DEF Handling, HandledPlaces, Steering
  <2> QED
    BY <2>1, <2>2, <2>3
<1>4. pass'.pc = "send" /\ pass'.res = "sent" => pass.pc = "send" /\ pass.res = "sent" /\ pass'.row = pass.row
  BY DEF Poll, Archive, PaneClosed, Forget, Restart, IdlePass, QueueInv, StateTypes, DrainerTypes, Passes
<1>5. \A k \in Msgs : Accounted(k)' <=> Accounted(k)
  BY <1>1, <1>2 DEF Accounted
<1> QED
  BY <1>1, <1>2, <1>3, <1>4, <1>5, LossStep DEF LossInv

\* Commands and the rest of the world: only a cancel takes a row away, and it is recorded.
LEMMA CommandLoss ==
    ASSUME QueueInv, LossInv,
           \/ \E s : Reorder(s)
           \/ \E m \in Msgs : Cancel(m) \/ Edit(m)
           \/ Resume
           \/ InterruptAsk \/ InterruptExpires \/ \E pressed \in BOOLEAN : InterruptPress(pressed)
           \/ \E s \in Agent : AgentMoves(s)
           \/ PollArchived \/ PaneDropped \/ RequestOpens \/ RequestCloses \/ Unarchive
    PROVE  LossInv'
<1>1. UNCHANGED <<pc, out, pass, sends>>
  BY DEF Reorder, Cancel, Edit, Resume, InterruptAsk, InterruptExpires, InterruptPress, AgentMoves, PollArchived,
         PaneDropped, RequestOpens, RequestCloses, Unarchive, queueCommand, drainer, dispatch, history
<1>2. ASSUME NEW m \in Msgs, Cancel(m) PROVE LossInv'
  <2>1. /\ rowState' = [rowState EXCEPT ![m] = "absent"] /\ fate' = [fate EXCEPT ![m] = "cancelled"]
        /\ rowState \in [Msgs -> {"absent", "queued", "sending", "held"}]
        /\ fate \in [Msgs -> {"open", "cancelled", "told"}]
    BY <1>2 DEF Cancel, Drop, QueueInv, RowsGood, StateTypes, HistoryTypes
  <2>2. \A k \in Msgs : (Present(k)' => Present(k)) /\ (Accounted(k) => Accounted(k)')
    BY <1>1, <2>1 DEF Present, Accounted
  <2> QED
    BY <1>1, <2>2, LossStep DEF LossInv
<1>3. CASE UNCHANGED <<rowState, fate>>
  BY <1>1, <1>3, LossFrame DEF Present, LossInv
<1>4. CASE Resume
  <2>1. \A k \in Msgs : Present(k)' <=> Present(k)
    BY <1>4 DEF Resume, Unhold, Present
  <2> QED
    BY <1>1, <1>4, <2>1, LossFrame DEF Resume, LossInv
<1> QED
  BY <1>2, <1>3, <1>4
     DEF Reorder, Edit, InterruptAsk, InterruptExpires, InterruptPress, AgentMoves, PollArchived, PaneDropped,
         RequestOpens, RequestCloses, Unarchive, queueVars, history

\* A handler's step: it is the only one at work. Its message may become a row, and then has one.
LEMMA HandlerLoss ==
    ASSUME QueueInv, LossInv, NEW m \in Msgs, pc[m] \in Unhandled,
           \A k \in Msgs \ {m} : pc[k] \notin Handling,
           NEW place \in Places, place # "sSend", pc' = [pc EXCEPT ![m] = place],
           place \in HandledPlaces => Present(m)',
           place = "box" => \A k \in Msgs : ~Present(k)',
           \A k \in Msgs \ {m} : out'[k] = out[k] /\ sends'[k] = sends[k] /\ fate'[k] = fate[k],
           \A k \in Msgs \ {m} : Present(k) => Present(k)',
           UNCHANGED pass,
           pass.pc = "send" /\ pass.row = m => sends'[m] >= sends[m] /\ sends[m] \in Nat /\ sends'[m] \in Nat
    PROVE  LossInv'
<1>1. pc'[m] = place /\ \A k \in Msgs \ {m} : pc'[k] = pc[k]
  BY DEF QueueInv, StateTypes, HandlerTypes
<1>2. OneAtATime'
  BY <1>1 DEF OneAtATime, LossInv, Handling
<1>3. \A k \in Msgs : pc'[k] \in HandledPlaces => Accounted(k)'
  BY <1>1 DEF LossInv, Accounted
<1>4. \A k \in Msgs : pc'[k] = "sSend" /\ out'[k] = "sent" => sends'[k] > 0
  BY <1>1 DEF LossInv
<1>5. pass.pc = "send" => pass.row \in Msgs
  BY DEF QueueInv, StateTypes, DrainerTypes
<1>6. pass'.pc = "send" /\ pass'.res = "sent" => sends'[pass'.row] > 0
  <2>1. CASE pass.row = m
    BY <2>1 DEF LossInv
  <2>2. CASE pass.row # m
    BY <1>5, <2>2 DEF LossInv
  <2> QED
    BY <2>1, <2>2
<1> QED
  BY <1>2, <1>3, <1>4, <1>6 DEF LossInv

\* What a handler leaves alone that the invariant is about.
LossKept == UNCHANGED <<sends, fate, pass>>

\* A handler moves on and touches no row.
LEMMA QuietHandlerLoss ==
    ASSUME QueueInv, LossInv, NEW m \in Msgs, pc[m] \in Unhandled,
           \A k \in Msgs \ {m} : pc[k] \notin Handling, LossKept, UNCHANGED rowState,
           NEW place \in Places \ HandledPlaces, pc' = [pc EXCEPT ![m] = place],
           NEW o, out' = [out EXCEPT ![m] = o],
           place = "box" => \A k \in Msgs : ~Present(k)
    PROVE  LossInv'
<1>1. place # "sSend" /\ place \in Places
  BY DEF HandledPlaces, Steering
<1>2. \A k \in Msgs \ {m} : out'[k] = out[k]
  BY DEF QueueInv, StateTypes, HandlerTypes
<1>3. sends[m] \in Nat /\ UNCHANGED <<sends, fate, pass>> /\ sends'[m] >= sends[m] /\ sends'[m] \in Nat
  BY DEF LossKept, QueueInv, StateTypes, HistoryTypes
<1> QED
  BY <1>1, <1>2, <1>3, HandlerLoss DEF Present

\* A start sets out; it has no row to lose.
LEMMA StartPathLoss ==
    ASSUME QueueInv, LossInv, NEW m \in Msgs, pc[m] \in Unhandled,
           \A k \in Msgs \ {m} : pc[k] \notin Handling, LossKept, StartPath(m)
    PROVE  LossInv'
<1>1. "start" \in Places \ HandledPlaces
  BY DEF Places, Handling, HandledPlaces, Steering
<1>2. pc' = [pc EXCEPT ![m] = "start"] /\ out' = [out EXCEPT ![m] = Begun] /\ UNCHANGED rowState
  BY DEF StartPath, queueVars
<1> QED
  BY <1>1, <1>2, QuietHandlerLoss

\* A handler waits; it reads the composer only over an empty queue.
LEMMA AwaitLoss ==
    ASSUME QueueInv, LossInv, NEW m \in Msgs, pc[m] \in Unhandled,
           \A k \in Msgs \ {m} : pc[k] \notin Handling, LossKept,
           NEW place \in {"refused", "box", "bgStart", "bgSteer"}, Await(m, place),
           place = "box" => order = <<>>
    PROVE  LossInv'
<1>1. place \in Places \ HandledPlaces
  BY DEF Places, Handling, HandledPlaces, Steering
<1>2. pc' = [pc EXCEPT ![m] = place] /\ out' = [out EXCEPT ![m] = out[m]] /\ UNCHANGED rowState
  BY DEF Await, queueVars, QueueInv, StateTypes, HandlerTypes
<1>3. order = <<>> => \A k \in Msgs : ~Present(k)
  BY DEF QueueInv, RowsGood, Lists, Rows
<1> QED
  BY <1>1, <1>2, <1>3, QuietHandlerLoss

\* A refused message was never accepted.
LEMMA RefuseLoss ==
    ASSUME QueueInv, LossInv, NEW m \in Msgs, pc[m] \in Unhandled,
           \A k \in Msgs \ {m} : pc[k] \notin Handling, LossKept, Refuse(m)
    PROVE  LossInv'
  BY AwaitLoss DEF Refuse, Await

\* A new row drops no other: the rows it is put behind are the rows there are.
LEMMA CommitRowLoss ==
    ASSUME QueueInv, LossInv, NEW m \in Msgs, pc[m] \in Unhandled,
           \A k \in Msgs \ {m} : pc[k] \notin Handling, LossKept,
           NEW rows \in {order, <<>>}, CommitRow(m, rows),
           rows # order => \A k \in Msgs : ~Present(k)
    PROVE  LossInv'
<1>1. /\ RowsGood' /\ Present(m)'
      /\ rows = order => \A k \in Msgs : Present(k) => Present(k)'
  BY NoRowYet, RowCommitted DEF QueueInv
<1>2. "rowed" \in Places /\ pc' = [pc EXCEPT ![m] = "rowed"] /\ UNCHANGED out
  BY DEF CommitRow, Rowed, Places
<1>3. sends[m] \in Nat /\ UNCHANGED <<sends, fate, pass>> /\ sends'[m] >= sends[m] /\ sends'[m] \in Nat
  BY DEF LossKept, QueueInv, StateTypes, HistoryTypes
<1> QED
  BY <1>1, <1>2, <1>3, HandlerLoss

\* A handler that is at work is the only one.
LEMMA AloneAtWork ==
    ASSUME LossInv, NEW m \in Msgs, pc[m] \in Handling
    PROVE  \A k \in Msgs \ {m} : pc[k] \notin Handling
  BY DEF LossInv, OneAtATime

\* With one handler at a time, one that starts is alone.
LEMMA AloneAtStart ==
    ASSUME Overlap <= 1, LossInv, Cardinality(InFlight) < Overlap
    PROVE  \A k \in Msgs : pc[k] \notin Handling
<1>1. CASE InFlight = {}
  BY <1>1 DEF InFlight
<1>2. CASE InFlight # {}
  <2>1. PICK k \in Msgs : pc[k] \in Handling /\ InFlight = {k}
    BY <1>2 DEF InFlight, LossInv, OneAtATime
  <2>2. Cardinality(InFlight) = 1
    BY <2>1, FS_Singleton
  <2> QED
    BY <2>2, ConstantsAssumption DEF ConstantsAssumption
<1> QED
  BY <1>1, <1>2

\* The synchronous part of a handler.
LEMMA DispatchLoss ==
    ASSUME Overlap <= 1, QueueInv, LossInv, NEW m \in Msgs, NEW mode \in Modes, NEW maint, Dispatch(m, mode, maint)
    PROVE  LossInv'
<1>1. pc[m] \in Unhandled /\ LossKept
  BY DEF Dispatch, Unhandled, LossKept, history
<1>2. \A k \in Msgs \ {m} : pc[k] \notin Handling
  BY AloneAtStart DEF Dispatch
<1>3. ASSUME Refuse(m) PROVE LossInv'
  BY <1>1, <1>2, <1>3, RefuseLoss
<1>4. ASSUME NEW place \in {"box", "bgStart", "bgSteer"}, Await(m, place), place = "box" => order = <<>>
      PROVE  LossInv'
  BY <1>1, <1>2, <1>4, AwaitLoss
<1>5. ASSUME StartPath(m) PROVE LossInv'
  BY <1>1, <1>2, <1>5, StartPathLoss
<1>6. ASSUME Enqueue(m) PROVE LossInv'
  <2>1. CASE order = <<>> /\ Settled /\ ~Blocked
    BY <1>4, <1>5, <1>6, <2>1 DEF Enqueue
  <2>2. CASE ~(order = <<>> /\ Settled /\ ~Blocked)
    BY <1>1, <1>2, <1>6, <2>2, CommitRowLoss DEF Enqueue
  <2> QED
    BY <2>1, <2>2
<1>7. mode \in {"start", "queue", "steer"}
  BY ConstantsAssumption DEF ConstantsAssumption, AllModes
<1>8. CASE Archived
  BY <1>3, <1>8 DEF Dispatch
<1>9. CASE ~Archived /\ mode = "queue"
  BY <1>6, <1>9 DEF Dispatch
<1>10. CASE ~Archived /\ mode = "start"
  BY <1>3, <1>4, <1>5, <1>10 DEF Dispatch
<1>11. CASE ~Archived /\ mode = "steer"
  BY <1>3, <1>4, <1>5, <1>6, <1>11 DEF Dispatch
<1> QED
  BY <1>7, <1>8, <1>9, <1>10, <1>11

\* The reads of a handler come back: with one handler in flight the rows it read are still the rows.
LEMMA ReadsLoss ==
    ASSUME QueueInv, LossInv, NEW m \in Msgs,
           \/ \E read \in Reads : EnqueueRead(m, read)
           \/ \E background \in BOOLEAN : StartRead(m, background) \/ SteerRead(m, background)
    PROVE  LossInv'
<1>1. pc[m] \in Unhandled /\ pc[m] \in Handling /\ LossKept
  BY DEF EnqueueRead, StartRead, SteerRead, Unhandled, Handling, LossKept, history
<1>2. \A k \in Msgs \ {m} : pc[k] \notin Handling
  BY <1>1, AloneAtWork
<1>3. ASSUME Refuse(m) PROVE LossInv'
  BY <1>1, <1>2, <1>3, RefuseLoss
<1>4. ASSUME StartPath(m) PROVE LossInv'
  BY <1>1, <1>2, <1>4, StartPathLoss
<1>5. ASSUME NEW read \in Reads, EnqueueRead(m, read) PROVE LossInv'
  <2>1. /\ read \in {"yes", "no", "throws"}
        /\ \A k \in Msgs : ~Present(k)
    BY <1>5, ConstantsAssumption DEF EnqueueRead, ConstantsAssumption, AllReads, LossInv, OneAtATime
  <2> QED
    BY <1>1, <1>2, <1>3, <1>4, <1>5, <2>1, CommitRowLoss DEF EnqueueRead
<1>6. ASSUME NEW background, StartRead(m, background) PROVE LossInv'
  BY <1>3, <1>4, <1>6 DEF StartRead
<1>7. ASSUME NEW background, SteerRead(m, background) PROVE LossInv'
  <2>1. CASE StartPath(m) \/ Refuse(m)
    BY <1>3, <1>4, <2>1
  <2>2. CASE ~(StartPath(m) \/ Refuse(m))
    <3> DEFINE place == IF interrupting THEN "sBgStopping" ELSE "sBg"
    <3>1. /\ rowState' = [rowState EXCEPT ![m] = "sending"] /\ UNCHANGED out
          /\ pc' = [pc EXCEPT ![m] = place] /\ place \in Places /\ place \notin {"sSend", "box"}
      BY <1>7, <2>2 DEF SteerRead, SetRow, Places, Steering
    <3>2. \A k \in Msgs : Present(k) \/ k = m => Present(k)'
      BY <3>1 DEF Present, QueueInv, RowsGood
    <3>3. sends[m] \in Nat /\ UNCHANGED <<sends, fate, pass>> /\ sends'[m] >= sends[m] /\ sends'[m] \in Nat
      BY <1>1 DEF LossKept, QueueInv, StateTypes, HistoryTypes
    <3> HIDE DEF place
    <3> QED
      BY <1>1, <1>2, <3>1, <3>2, <3>3, HandlerLoss
  <2> QED
    BY <2>1, <2>2
<1> QED
  BY <1>5, <1>6, <1>7

\* The send of a start has no row to lose.
LEMMA StartLoss ==
    ASSUME QueueInv, LossInv, NEW m \in Msgs, StartCommit(m) \/ \E o \in Outcomes : StartDeliver(m, o)
    PROVE  LossInv'
<1>1. pc[m] \in Unhandled /\ pc[m] \in Handling /\ UNCHANGED <<rowState, pass>>
  BY DEF StartCommit, StartDeliver, Unhandled, Handling, queueVars, drainer
<1>2. \A k \in Msgs \ {m} : pc[k] \notin Handling
  BY <1>1, AloneAtWork
<1>3. sends \in [Msgs -> Nat] /\ out \in [Msgs -> Results] /\ fate \in [Msgs -> {"open", "cancelled", "told"}]
      /\ pc \in [Msgs -> Places]
  BY DEF QueueInv, StateTypes, HandlerTypes, HistoryTypes
<1>4. /\ \A k \in Msgs \ {m} : out'[k] = out[k] /\ sends'[k] = sends[k] /\ fate'[k] = fate[k]
      /\ sends'[m] \in Nat /\ sends'[m] >= sends[m]
  BY <1>3 DEF StartCommit, StartDeliver
<1>5. PICK place \in Places : pc' = [pc EXCEPT ![m] = place] /\ place \in {"start", "refused", "done"}
  BY <1>3 DEF StartCommit, StartDeliver, Places, Handling
<1>6. place \notin HandledPlaces /\ place # "box"
  BY <1>5 DEF HandledPlaces, Steering
<1> QED
  BY <1>1, <1>2, <1>3, <1>4, <1>5, <1>6, HandlerLoss DEF Present, HandledPlaces, Steering

\* A steer's step.
LEMMA SteerLoss ==
    ASSUME QueueInv, LossInv, NEW m \in Msgs, pc[m] \in HandledPlaces,
           NEW place \in HandledPlaces, pc' = [pc EXCEPT ![m] = place],
           \A k \in Msgs \ {m} : /\ rowState'[k] = rowState[k] /\ out'[k] = out[k]
                                 /\ sends'[k] = sends[k] /\ fate'[k] = fate[k],
           Present(m)' => Present(m), Accounted(m)',
           place = "sSend" /\ out'[m] = "sent" => sends'[m] > 0,
           sends[m] \in Nat, sends'[m] \in Nat, sends'[m] >= sends[m], UNCHANGED pass
    PROVE  LossInv'
<1>1. pc'[m] = place /\ \A k \in Msgs \ {m} : pc'[k] = pc[k]
  BY DEF QueueInv, StateTypes, HandlerTypes
<1>2. place \notin Handling
  BY DEF HandledPlaces, Steering, Handling
<1>3. ASSUME NEW k \in Msgs, k # m
      PROVE  (Present(k)' <=> Present(k)) /\ (Accounted(k)' <=> Accounted(k))
  BY <1>3 DEF Present, Accounted
<1>4. pass'.pc = "send" /\ pass'.res = "sent" => sends'[pass'.row] > 0
  <2>1. pass.pc = "send" => pass.row \in Msgs
    BY DEF QueueInv, StateTypes, DrainerTypes
  <2>2. CASE pass.row = m
    BY <2>2 DEF LossInv
  <2>3. CASE pass.row # m
    BY <2>1, <2>3 DEF LossInv
  <2> QED
    BY <2>2, <2>3
<1> QED
  BY <1>1, <1>2, <1>3, <1>4, LossStep DEF LossInv, Present, Accounted

\* The steer moves on, and neither its row nor its history does.
LEMMA SteerWaitsLoss ==
    ASSUME QueueInv, LossInv, NEW m \in Msgs, pc[m] \in HandledPlaces,
           NEW place \in HandledPlaces, pc' = [pc EXCEPT ![m] = place],
           NEW o, out' = [out EXCEPT ![m] = o], place = "sSend" => o # "sent",
           \A k \in Msgs : Present(k)' <=> Present(k), \A k \in Msgs \ {m} : rowState'[k] = rowState[k],
           LossKept
    PROVE  LossInv'
<1>1. out'[m] = o /\ \A k \in Msgs \ {m} : out'[k] = out[k]
  BY DEF QueueInv, StateTypes, HandlerTypes
<1>2. Accounted(m)'
  BY DEF LossInv, LossKept, Accounted
<1>3. sends[m] \in Nat /\ UNCHANGED <<sends, fate, pass>> /\ sends'[m] >= sends[m] /\ sends'[m] \in Nat
  BY DEF LossKept, QueueInv, StateTypes, HistoryTypes
<1> QED
  BY <1>1, <1>2, <1>3, SteerLoss

\* The steer stays in its place or moves to another wait, its send untouched.
LEMMA SteerMovesLoss ==
    ASSUME QueueInv, LossInv, NEW m \in Msgs, pc[m] \in HandledPlaces,
           NEW place \in HandledPlaces \ {"sSend"}, pc' = [pc EXCEPT ![m] = place],
           UNCHANGED <<out, rowState>>, LossKept
    PROVE  LossInv'
<1>1. out' = [out EXCEPT ![m] = out[m]]
  BY DEF QueueInv, StateTypes, HandlerTypes
<1> QED
  BY <1>1, SteerWaitsLoss DEF Present

\* The last look of a steer: its row stays.
LEMMA SteerSendLoss ==
    ASSUME QueueInv, LossInv, NEW m \in Msgs, pc[m] \in HandledPlaces, SteerSend(m), LossKept
    PROVE  LossInv'
<1>1. UNCHANGED rowState /\ {"rowed", "sSend"} \subseteq HandledPlaces /\ Begun # "sent"
  BY DEF SteerSend, queueVars, HandledPlaces, Steering, Begun
<1>2. CASE pc' = [pc EXCEPT ![m] = "rowed"] /\ UNCHANGED out
  BY <1>1, <1>2, SteerMovesLoss
<1>3. CASE pc' = [pc EXCEPT ![m] = "sSend"] /\ out' = [out EXCEPT ![m] = Begun]
  BY <1>1, <1>3, SteerWaitsLoss DEF Present
<1> QED
  BY <1>2, <1>3 DEF SteerSend, Rowed

\* A steer that waits for the thread to settle keeps its row.
LEMMA WaitSettledLoss ==
    ASSUME QueueInv, LossInv, NEW m \in Msgs, pc[m] \in HandledPlaces, WaitSettled(m), LossKept
    PROVE  LossInv'
<1>1. CASE SteerSend(m)
  BY <1>1, SteerSendLoss
<1>2. CASE ~SteerSend(m)
  <2>1. \E place \in {"rowed", "sWait"} : pc' = [pc EXCEPT ![m] = place]
    BY <1>2 DEF WaitSettled
  <2>2. UNCHANGED <<out, rowState>> /\ {"rowed", "sWait"} \subseteq HandledPlaces \ {"sSend"}
    BY <1>2 DEF WaitSettled, queueVars, HandledPlaces, Steering
  <2> QED
    BY <2>1, <2>2, SteerMovesLoss
<1> QED
  BY <1>1, <1>2

\* A steer given up is a held row the operator was told of, or its row was gone.
LEMMA HoldSteerLoss ==
    ASSUME QueueInv, LossInv, NEW m \in Msgs, pc[m] \in HandledPlaces, NEW reason, HoldSteer(m, reason),
           UNCHANGED <<sends, pass>>, NEW o, out' = [out EXCEPT ![m] = o]
    PROVE  LossInv'
<1>1. pc' = [pc EXCEPT ![m] = "rowed"] /\ "rowed" \in HandledPlaces
  BY DEF HoldSteer, Rowed, HandledPlaces
<1>2. /\ rowState \in [Msgs -> {"absent", "queued", "sending", "held"}]
      /\ fate \in [Msgs -> {"open", "cancelled", "told"}]
      /\ sends[m] \in Nat /\ out \in [Msgs -> Results]
  BY DEF QueueInv, RowsGood, StateTypes, HandlerTypes, HistoryTypes
<1>3. \A k \in Msgs \ {m} : rowState'[k] = rowState[k] /\ fate'[k] = fate[k] /\ out'[k] = out[k] /\ sends'[k] = sends[k]
  BY <1>2 DEF HoldSteer, SetRow, queueVars
<1>4. (Present(m)' => Present(m)) /\ Accounted(m)'
  <2>1. CASE Present(m)
    BY <1>2, <2>1 DEF HoldSteer, Accounted
  <2>2. CASE ~Present(m)
    BY <2>2 DEF HoldSteer, queueVars, LossInv, Accounted, Present
  <2> QED
    BY <2>1, <2>2
<1>5. sends[m] \in Nat /\ sends'[m] \in Nat /\ sends'[m] >= sends[m] /\ UNCHANGED pass
  BY <1>2
<1> QED
  BY <1>1, <1>3, <1>4, <1>5, SteerLoss

\* A steer drops its row only after its message was submitted or the operator was told.
LEMMA SteerStepsLoss ==
    ASSUME QueueInv, LossInv, NEW m \in Msgs, SteerStep(m)
    PROVE  LossInv'
<1>1. pc[m] \in HandledPlaces
  BY DEF SteerStep, SteerWoken, SteerBackground, SteerPress, SteerWaitFires, SteerLate, SteerDeliver, SteerCommit,
         HandledPlaces, Steering
<1>2. out \in [Msgs -> Results] /\ out = [out EXCEPT ![m] = out[m]]
  BY DEF QueueInv, StateTypes, HandlerTypes
<1>3. CASE SteerWoken(m)
  BY <1>1, <1>3, SteerSendLoss DEF SteerWoken, LossKept, steerFrame, SteerSend
<1>4. ASSUME NEW background, SteerBackground(m, background) PROVE LossInv'
  <2>1. UNCHANGED <<sends, pass>> /\ "sPress" \in HandledPlaces \ {"sSend"}
    BY <1>4 DEF SteerBackground, steerFrame, HandledPlaces, Steering
  <2>2. LossKept
    BY <1>4, <2>1 DEF SteerBackground, SteerSend, WaitSettled, LossKept
  <2>3. CASE SteerSend(m) \/ WaitSettled(m)
    BY <1>1, <2>2, <2>3, SteerSendLoss, WaitSettledLoss
  <2>4. CASE ~(SteerSend(m) \/ WaitSettled(m))
    BY <1>1, <1>4, <2>1, <2>2, <2>4, SteerMovesLoss DEF SteerBackground, queueVars
  <2> QED
    BY <2>3, <2>4
<1>5. ASSUME NEW result \in {"pressed", "failed", "maintenance"}, SteerPress(m, result) PROVE LossInv'
  <2>1. UNCHANGED <<sends, pass>>
    BY <1>5 DEF SteerPress, steerFrame
  <2>2. CASE result = "pressed"
    <3>1. WaitSettled(m)
      BY <1>5, <2>2 DEF SteerPress
    <3>2. LossKept
      BY <2>1, <3>1 DEF WaitSettled, SteerSend, LossKept
    <3> QED
      BY <1>1, <3>1, <3>2, WaitSettledLoss
  <2>3. CASE result = "failed"
    BY <1>1, <1>2, <1>5, <2>1, <2>3, HoldSteerLoss DEF SteerPress
  <2>4. CASE result = "maintenance"
    <3>1. /\ pc' = [pc EXCEPT ![m] = "rowed"] /\ UNCHANGED <<out, fate>> /\ "rowed" \in HandledPlaces
          /\ rowState' = IF Present(m) THEN [rowState EXCEPT ![m] = "queued"] ELSE rowState
      BY <1>5, <2>4 DEF SteerPress, Rowed, SetRow, queueVars, HandledPlaces
    <3>2. /\ \A k \in Msgs : Present(k)' <=> Present(k)
          /\ \A k \in Msgs \ {m} : rowState'[k] = rowState[k]
      BY <3>1 DEF Present, QueueInv, RowsGood
    <3> QED
      <4>1. sends[m] \in Nat /\ sends'[m] \in Nat /\ sends'[m] >= sends[m] /\ UNCHANGED <<sends, fate, out, pass>>
        BY <2>1, <3>1 DEF QueueInv, StateTypes, HistoryTypes
      <4>2. Accounted(m)'
        BY <1>1, <3>2, <4>1 DEF LossInv, Accounted
      <4>3. \A k \in Msgs \ {m} : /\ rowState'[k] = rowState[k] /\ out'[k] = out[k]
                                  /\ sends'[k] = sends[k] /\ fate'[k] = fate[k]
        BY <3>2, <4>1
      <4> QED
        BY <1>1, <3>1, <3>2, <4>1, <4>2, <4>3, SteerLoss
  <2> QED
    BY <2>2, <2>3, <2>4
<1>6. CASE SteerWaitFires(m)
  <2>1. "sLate" \in HandledPlaces \ {"sSend"}
    BY DEF HandledPlaces, Steering
  <2> QED
    BY <1>1, <1>6, <2>1, SteerMovesLoss DEF SteerWaitFires, queueVars, steerFrame, LossKept
<1>7. ASSUME NEW background, SteerLate(m, background) PROVE LossInv'
  <2>1. UNCHANGED <<sends, pass>>
    BY <1>7 DEF SteerLate, steerFrame
  <2>2. CASE SteerSend(m)
    BY <1>1, <2>1, <2>2, SteerSendLoss DEF SteerSend, LossKept
  <2>3. CASE ~SteerSend(m)
    BY <1>1, <1>2, <1>7, <2>1, <2>3, HoldSteerLoss DEF SteerLate
  <2> QED
    BY <2>2, <2>3
<1>8. ASSUME NEW o \in Outcomes, SteerDeliver(m, o) PROVE LossInv'
  <2>1. /\ out' = [out EXCEPT ![m] = o] /\ UNCHANGED <<rowState, pc, fate, pass>>
        /\ sends' = IF o = "sent" THEN [sends EXCEPT ![m] = @ + 1] ELSE sends
        /\ sends \in [Msgs -> Nat] /\ pc' = [pc EXCEPT ![m] = pc[m]]
    BY <1>8 DEF SteerDeliver, queueVars, drainer, QueueInv, StateTypes, HandlerTypes, HistoryTypes
  <2>2. /\ sends'[m] \in Nat /\ sends'[m] >= sends[m] /\ (o = "sent" => sends'[m] > 0)
        /\ \A k \in Msgs \ {m} : sends'[k] = sends[k] /\ out'[k] = out[k]
        /\ out'[m] = o
    BY <1>2, <2>1
  <2>3. Accounted(m)'
    BY <1>1, <2>1, <2>2 DEF LossInv, Accounted, Present
  <2> QED
    BY <1>1, <2>1, <2>2, <2>3, SteerLoss DEF Present
<1>9. CASE SteerCommit(m)
  <2>1. UNCHANGED <<sends, pass>> /\ out' = [out EXCEPT ![m] = "none"] /\ pc[m] = "sSend"
    BY <1>9 DEF SteerCommit
  <2>2. CASE out[m] \in {"sent", "delivered"}
    <3>1. /\ rowState' = [rowState EXCEPT ![m] = "absent"] /\ pc' = [pc EXCEPT ![m] = "rowed"]
          /\ fate' = IF out[m] = "delivered" THEN [fate EXCEPT ![m] = "told"] ELSE fate
      BY <1>9, <2>2 DEF SteerCommit, Drop, Rowed
    <3>2. "rowed" \in HandledPlaces /\ sends[m] \in Nat
          /\ rowState \in [Msgs -> {"absent", "queued", "sending", "held"}]
          /\ fate \in [Msgs -> {"open", "cancelled", "told"}]
      BY DEF HandledPlaces, QueueInv, RowsGood, StateTypes, HistoryTypes
    <3>3. /\ \A k \in Msgs \ {m} : rowState'[k] = rowState[k] /\ fate'[k] = fate[k] /\ out'[k] = out[k]
          /\ ~Present(m)'
      BY <1>2, <2>1, <3>1, <3>2 DEF Present
    <3>4. Accounted(m)'
      BY <2>1, <2>2, <3>1, <3>2 DEF LossInv, Accounted
    <3> QED
      <4>1. sends[m] \in Nat /\ sends'[m] \in Nat /\ sends'[m] >= sends[m] /\ sends' = sends /\ UNCHANGED pass
        BY <2>1, <3>2
      <4> QED
        BY <1>1, <3>1, <3>2, <3>3, <3>4, <4>1, SteerLoss
  <2>3. CASE out[m] \notin {"sent", "delivered"}
    BY <1>1, <1>9, <2>1, <2>3, HoldSteerLoss DEF SteerCommit
  <2> QED
    BY <2>2, <2>3
<1> QED
  BY <1>3, <1>4, <1>5, <1>6, <1>7, <1>8, <1>9 DEF SteerStep

\* Every step accounts for every accepted message, with one handler in flight at a time.
LEMMA NextLossInv ==
    ASSUME Overlap <= 1
    PROVE  QueueInv /\ LossInv /\ [Next]_vars => LossInv'
<1> SUFFICES ASSUME QueueInv, LossInv, [Next]_vars PROVE LossInv'
    OBVIOUS
<1>1. CASE DrainStep
  BY <1>1, DrainLoss, PassDeliverLoss, PassCommitLoss DEF DrainStep
<1>2. ASSUME NEW m \in Msgs, HandlerStep(m) PROVE LossInv'
  BY <1>2, DispatchLoss, ReadsLoss, StartLoss DEF HandlerStep
<1>3. ASSUME NEW m \in Msgs, SteerStep(m) PROVE LossInv'
  BY <1>3, SteerStepsLoss
<1>4. CASE CommandStep
  BY <1>4, CommandLoss DEF CommandStep
<1>5. CASE WorldStep
  BY <1>5, CommandLoss, WorldLoss DEF WorldStep
<1>6. CASE UNCHANGED vars
  BY <1>6, LossFrame DEF vars, queueVars, dispatch, drainer, history, Present, LossInv
<1> QED
  BY <1>1, <1>2, <1>3, <1>4, <1>5, <1>6 DEF Next

\* A message accepted as a row is a row still, or was submitted, or cancelled, or reported. Two handlers
\* in flight refute it (LostRow): a row committed during the composer read of another is overwritten.
THEOREM NothingSilentlyLost ==
    ASSUME Overlap <= 1 PROVE Spec => []NoSilentLoss
<1>1. LossInv => NoSilentLoss
  BY DEF LossInv, NoSilentLoss, Accounted, HandledPlaces
<1>2. QueueInv /\ LossInv /\ [Next]_vars => LossInv'
  BY NextLossInv
<1> QED
  BY <1>1, <1>2, InitLossInv, QueueInvariance, PTL DEF Spec

-----------------------------------------------------------------------------
(* The drainer's pace *)

\* While nothing released the drainer since its last send, its mark is still there or the agent is not
\* idle; and a mark that saw the agent work does not outlive an idle projection.
ReleaseInv ==
    /\ settledSince = "no" => awaiting.on \/ ~Settled
    /\ settledSince = "no" /\ awaiting.saw => ~Settled

\* A step that leaves the mark, its history and the status alone.
LEMMA MarkStays ==
    ASSUME ReleaseInv, UNCHANGED <<awaiting, settledSince, status>>
    PROVE  ReleaseInv'
  BY DEF ReleaseInv, Settled

\* A new mark is there, and has seen nothing.
LEMMA MarkSet ==
    ASSUME NEW by, BeginSend(by)
    PROVE  ReleaseInv'
  BY DEF ReleaseInv, BeginSend

\* A send comes to its end: the mark goes if the send failed, or if its run was seen and is over.
LEMMA MarkFinished ==
    ASSUME ReleaseInv, awaiting \in Awaitings, NEW by, NEW sent, Finish(by, sent), UNCHANGED status,
           settledSince' = settledSince \/ settledSince' # "no",
           ~sent => settledSince' # "no"
    PROVE  ReleaseInv'
<1>1. CASE settledSince' # "no"
  BY <1>1 DEF ReleaseInv
<1>2. CASE settledSince' = settledSince /\ sent
  <2>1. [awaiting EXCEPT !.timer = TRUE].on = awaiting.on /\ [awaiting EXCEPT !.timer = TRUE].saw = awaiting.saw
    BY DEF Awaitings
  <2> QED
    BY <1>2, <2>1 DEF ReleaseInv, Finish, Settled, NoMark
<1> QED
  BY <1>1, <1>2

\* The passes of the drainer, its timers and the run.ended event.
LEMMA DrainRelease ==
    ASSUME QueueInv, ReleaseInv, DrainStep
    PROVE  ReleaseInv'
<1>1. CASE PassStart \/ HoldClosed \/ (\E read \in Reads : PassLift(read)) \/ RetryFires
           \/ (\E o \in Outcomes : PassDeliver(o))
  BY <1>1, MarkStays DEF PassStart, HoldClosed, PassLift, RetryFires, PassDeliver, world, history
<1>2. ASSUME NEW read \in Reads, PassMark(read) PROVE ReleaseInv'
  BY <1>2, MarkSet, MarkStays DEF PassMark, world
<1>3. CASE PassCommit
  BY <1>3, MarkFinished DEF PassCommit, world, QueueInv, StateTypes, HandlerTypes
<1>4. CASE RunWaitFires
  BY <1>4 DEF RunWaitFires, ReleaseInv
<1>5. CASE RunEnded
  BY <1>5 DEF RunEnded, ReleaseInv, NoMark, history, world, Settled
<1> QED
  BY <1>1, <1>2, <1>3, <1>4, <1>5 DEF DrainStep

\* What a handler does to the mark: nothing, or its send sets it.
LEMMA HandlerRelease ==
    ASSUME QueueInv, ReleaseInv, NEW m \in Msgs, HandlerStep(m)
    PROVE  ReleaseInv'
<1>1. ASSUME UNCHANGED <<world, history>>, StartPath(m) \/ Refuse(m) \/ (\E place : Await(m, place))
                                           \/ (\E rows : CommitRow(m, rows)) \/ Enqueue(m)
      PROVE  ReleaseInv'
  BY <1>1, MarkSet, MarkStays DEF StartPath, Refuse, Await, CommitRow, Enqueue, world, history
<1>2. ASSUME NEW mode \in Modes, NEW maint \in BOOLEAN, Dispatch(m, mode, maint) PROVE ReleaseInv'
  <2>1. mode \in {"start", "queue", "steer"}
    BY ConstantsAssumption DEF ConstantsAssumption, AllModes
  <2>2. \/ StartPath(m) \/ Refuse(m) \/ Enqueue(m) \/ Await(m, "bgStart") \/ Await(m, "bgSteer")
    BY <1>2, <2>1 DEF Dispatch
  <2>3. UNCHANGED <<world, history>>
    BY <1>2 DEF Dispatch
  <2> QED
    BY <1>1, <2>2, <2>3
<1>3. ASSUME NEW read \in Reads, EnqueueRead(m, read) PROVE ReleaseInv'
  <2>1. read \in {"yes", "no", "throws"}
    BY ConstantsAssumption DEF ConstantsAssumption, AllReads
  <2> QED
    BY <1>1, <1>3, <2>1 DEF EnqueueRead
<1>4. ASSUME NEW background \in BOOLEAN, StartRead(m, background) PROVE ReleaseInv'
  BY <1>1, <1>4 DEF StartRead
<1>5. ASSUME NEW background \in BOOLEAN, SteerRead(m, background) PROVE ReleaseInv'
  BY <1>1, <1>5, MarkStays DEF SteerRead, world, history
<1>6. ASSUME NEW o \in Outcomes, StartDeliver(m, o) PROVE ReleaseInv'
  BY <1>6, MarkStays DEF StartDeliver, world, drainer
<1>7. CASE StartCommit(m)
  BY <1>7, MarkFinished DEF StartCommit, Lifts, world, QueueInv, StateTypes, HandlerTypes
<1> QED
  BY <1>2, <1>3, <1>4, <1>5, <1>6, <1>7 DEF HandlerStep

\* What a steer does to the mark: nothing, its send sets it, or its send comes to an end.
LEMMA SteerRelease ==
    ASSUME QueueInv, ReleaseInv, NEW m \in Msgs, SteerStep(m)
    PROVE  ReleaseInv'
<1>1. ASSUME UNCHANGED <<settledSince, status>>, SteerSend(m) \/ WaitSettled(m) \/ UNCHANGED awaiting
      PROVE  ReleaseInv'
  BY <1>1, MarkSet, MarkStays DEF SteerSend, WaitSettled
<1>2. CASE SteerWoken(m) \/ SteerWaitFires(m) \/ (\E background \in BOOLEAN : SteerBackground(m, background))
           \/ (\E background \in BOOLEAN : SteerLate(m, background))
  BY <1>1, <1>2 DEF SteerWoken, SteerWaitFires, SteerBackground, SteerLate, steerFrame, world
<1>3. ASSUME NEW result \in {"pressed", "failed", "maintenance"}, SteerPress(m, result) PROVE ReleaseInv'
  BY <1>1, <1>3 DEF SteerPress, steerFrame, world
<1>4. ASSUME NEW o \in Outcomes, SteerDeliver(m, o) PROVE ReleaseInv'
  BY <1>4, MarkStays DEF SteerDeliver, world, drainer
<1>5. CASE SteerCommit(m)
  BY <1>5, MarkFinished DEF SteerCommit, Lifts, world, QueueInv, StateTypes, HandlerTypes
<1> QED
  BY <1>2, <1>3, <1>4, <1>5 DEF SteerStep

\* A poll that reaches the projection: an idle agent releases the drainer, any other is not settled.
LEMMA PollRelease ==
    ASSUME QueueInv, ReleaseInv, Poll
    PROVE  ReleaseInv'
<1>1. CASE agent = status
  BY <1>1, MarkStays DEF Poll
<1>2. CASE agent # status /\ agent = "idle"
  BY <1>2 DEF Poll, ReleaseInv
<1>3. CASE agent # status /\ agent # "idle"
  BY <1>3 DEF Poll, ReleaseInv, Settled
<1> QED
  BY <1>1, <1>2, <1>3

\* Every step keeps the release invariant.
LEMMA NextReleaseInv == QueueInv /\ ReleaseInv /\ [Next]_vars => ReleaseInv'
<1> SUFFICES ASSUME QueueInv, ReleaseInv, [Next]_vars PROVE ReleaseInv'
    OBVIOUS
<1>1. CASE CommandStep
  BY <1>1, MarkStays
     DEF CommandStep, Reorder, Cancel, Edit, Resume, InterruptAsk, InterruptPress, InterruptExpires,
         queueCommand, world, drainer, history
<1>2. CASE WorldStep
  <2>1. CASE Archive \/ PaneClosed \/ \E polled \in BOOLEAN : Restart(polled)
    BY <2>1 DEF Archive, PaneClosed, Forget, Restart, ReleaseInv
  <2>2. CASE (\E s \in Agent : AgentMoves(s)) \/ PollArchived \/ PaneDropped \/ RequestOpens \/ RequestCloses
             \/ Unarchive
    BY <2>2, MarkStays
       DEF AgentMoves, PollArchived, PaneDropped, RequestOpens, RequestCloses, Unarchive, drainer, history
  <2> QED
    BY <1>2, <2>1, <2>2, PollRelease DEF WorldStep
<1>3. CASE UNCHANGED vars
  BY <1>3, MarkStays DEF vars, drainer, history, world
<1> QED
  BY <1>1, <1>2, <1>3, DrainRelease, HandlerRelease, SteerRelease DEF Next

\* Only the pass that has read the composer marks a row, and only when it still finds the thread free.
LEMMA MarksAreFree ==
    ASSUME QueueInv, [Next]_vars, DrainMarks
    PROVE  Free
<1>1. pass.pc = "box" /\ pass'.pc = "send"
  BY DEF DrainMarks
<1>2. (\E read \in Reads : PassMark(read)) => Free
  BY <1>1 DEF PassMark, IdlePass
<1>3. pass' = pass \/ pass' = IdlePass => FALSE
  BY <1>1 DEF IdlePass
<1>4. CASE DrainStep
  BY <1>1, <1>2, <1>3, <1>4
     DEF DrainStep, PassStart, HoldClosed, PassLift, PassDeliver, PassCommit, RetryFires, RunWaitFires, RunEnded
<1>5. ASSUME NEW m \in Msgs, HandlerStep(m) PROVE Free
  BY <1>3, <1>5
     DEF HandlerStep, Dispatch, EnqueueRead, StartRead, SteerRead, StartDeliver, StartCommit, drainer
<1>6. ASSUME NEW m \in Msgs, SteerStep(m) PROVE Free
  BY <1>3, <1>6
     DEF SteerStep, SteerWoken, SteerBackground, SteerPress, SteerWaitFires, SteerLate, SteerDeliver, SteerCommit,
         drainer, steerFrame
<1>7. CASE CommandStep
  BY <1>3, <1>7
     DEF CommandStep, Reorder, Cancel, Edit, Resume, InterruptAsk, InterruptPress, InterruptExpires,
         queueCommand, drainer
<1>8. CASE WorldStep
  <2>1. ASSUME Forget PROVE FALSE
    BY <1>1, <2>1 DEF Forget, QueueInv, StateTypes, DrainerTypes, Passes
  <2> QED
    BY <1>3, <1>8, <2>1
       DEF WorldStep, AgentMoves, Poll, PollArchived, PaneDropped, RequestOpens, RequestCloses, Archive, PaneClosed,
           Unarchive, Restart, drainer
<1>9. CASE UNCHANGED vars
  BY <1>3, <1>9 DEF vars, drainer
<1> QED
  BY <1>4, <1>5, <1>6, <1>7, <1>8, <1>9 DEF Next

\* Between two messages of the drainer something released it, whatever the handlers, the steers, the
\* polls and the restarts do in between.
THEOREM DrainerWaits == Spec => DrainNeedsRelease
<1>1. Init => ReleaseInv
  BY DEF Init, ReleaseInv
<1>2. QueueInv /\ ReleaseInv /\ [Next]_vars => [DrainMarks => settledSince # "no"]_vars
  BY MarksAreFree DEF ReleaseInv, Free
<1> QED
  BY <1>1, <1>2, NextReleaseInv, QueueInvariance, PTL DEF Spec, DrainNeedsRelease

\* A steer that came while the pass was reading the composer goes first.
THEOREM SteersGoFirst == Spec => DrainYieldsToSteer
<1>1. QueueInv /\ [Next]_vars => [DrainMarks => \A m \in Msgs : pc[m] \in Steering => rowState[m] # "sending"]_vars
  BY MarksAreFree DEF Free, Some
<1> QED
  BY <1>1, QueueInvariance, PTL DEF Spec, DrainYieldsToSteer

-----------------------------------------------------------------------------
(* The life of a message *)

\* Life, for one message.
LifeOf(m) ==
    IF pc[m] \in {"start", "sSend"} \/ Draining(m) THEN "sending"
    ELSE IF Present(m) THEN "waiting"
    ELSE IF pc[m] \in {"new", "refused"} \cup Handling THEN "outside" ELSE "over"

\* What is known of every message while the bridge does not restart and the thread is not archived.
LifeInv == QueueInv /\ LossInv /\ SendInv /\ spent.crashes = 0

LivesMove == [Lives!LifeNext]_(Lives!lifeVars)

\* A step in which no message moves.
LEMMA NoneMoves ==
    ASSUME \A k \in Msgs : LifeOf(k)' = LifeOf(k), UNCHANGED sends
    PROVE  LivesMove
<1>1. Life' = Life
  BY DEF Life, LifeOf, Draining
<1> QED
  BY <1>1 DEF LivesMove, Lives!lifeVars

\* A step in which one message moves along its life.
LEMMA OneMoves ==
    ASSUME NEW m \in Msgs, \A k \in Msgs \ {m} : LifeOf(k)' = LifeOf(k), UNCHANGED sends,
           \/ LifeOf(m)' = LifeOf(m)
           \/ LifeOf(m) = "outside" /\ LifeOf(m)' \in {"waiting", "sending"}
           \/ LifeOf(m) = "waiting" /\ LifeOf(m)' \in {"sending", "over"}
           \/ LifeOf(m) = "sending" /\ LifeOf(m)' = "over"
           \/ LifeOf(m) = "sending" /\ sends[m] = 0 /\ LifeOf(m)' \in {"waiting", "outside"}
    PROVE  LivesMove
<1>1. Life = [k \in Msgs |-> LifeOf(k)] /\ Life' = [k \in Msgs |-> LifeOf(k)']
  BY DEF Life, LifeOf, Draining
<1>2. Life' = [Life EXCEPT ![m] = LifeOf(m)'] /\ Life[m] = LifeOf(m)
  BY <1>1
<1>3. ASSUME NEW to, LifeOf(m)' = to, NEW from, LifeOf(m) \in from PROVE Lives!Move(m, from, to)
  BY <1>2, <1>3 DEF Lives!Move
<1>4. CASE LifeOf(m)' = LifeOf(m)
  BY <1>4, NoneMoves
<1>5. CASE LifeOf(m) = "outside" /\ LifeOf(m)' = "waiting"
  BY <1>3, <1>5 DEF LivesMove, Lives!LifeNext, Lives!Accept
<1>6. CASE LifeOf(m) \in {"outside", "waiting"} /\ LifeOf(m)' = "sending"
  BY <1>3, <1>6 DEF LivesMove, Lives!LifeNext, Lives!Send
<1>7. CASE LifeOf(m) \in {"sending", "waiting"} /\ LifeOf(m)' = "over"
  BY <1>3, <1>7 DEF LivesMove, Lives!LifeNext, Lives!Finish
<1>8. CASE LifeOf(m) = "sending" /\ sends[m] = 0 /\ LifeOf(m)' \in {"waiting", "outside"}
  BY <1>3, <1>8 DEF LivesMove, Lives!LifeNext, Lives!Return
<1> QED
  BY <1>4, <1>5, <1>6, <1>7, <1>8

\* A send in flight comes to an outcome: its message is submitted, for the first time, or it is not.
LEMMA OneSubmitted ==
    ASSUME SendInv, NEW m \in Msgs, \A k \in Msgs : LifeOf(k)' = LifeOf(k),
           LifeOf(m) = "sending", sends[m] = 0,
           NEW o, sends' = IF o = "sent" THEN [sends EXCEPT ![m] = @ + 1] ELSE sends
    PROVE  LivesMove
<1>1. Life[m] = "sending" /\ Life' = Life
  BY DEF Life, LifeOf, Draining
<1>2. CASE o = "sent"
  <2>1. sends' = [sends EXCEPT ![m] = 1]
    BY <1>2 DEF SendInv, SendTypes
  <2> QED
    BY <1>1, <2>1 DEF LivesMove, Lives!LifeNext, Lives!Submit
<1>3. CASE o # "sent"
  BY <1>3, NoneMoves
<1> QED
  BY <1>2, <1>3

\* A message nothing happened to.
LEMMA LifeStays ==
    ASSUME NEW k \in Msgs, pc'[k] = pc[k], Present(k)' <=> Present(k), Draining(k)' <=> Draining(k)
    PROVE  LifeOf(k)' = LifeOf(k)
  BY DEF LifeOf

\* A step that leaves the handlers and the pass alone and drops or makes no row.
LEMMA LivesStay ==
    ASSUME UNCHANGED <<pc, sends>>, \A k \in Msgs : Present(k)' <=> Present(k),
           \A k \in Msgs : Draining(k)' <=> Draining(k)
    PROVE  LivesMove
  BY LifeStays, NoneMoves

\* A message whose handler is at work and has sent nothing is outside, and was not submitted.
LEMMA OutsideLife ==
    ASSUME LifeInv, NEW m \in Msgs, pc[m] \in Unhandled
    PROVE  /\ ~Present(m) /\ ~Draining(m)
           /\ pc[m] # "start" => LifeOf(m) = "outside"
           /\ pc[m] = "start" => LifeOf(m) = "sending"
           /\ pc[m] = "start" /\ out[m] # "sent" => sends[m] = 0
<1>1. MessageOK(m) /\ sends[m] \in Nat
  BY DEF LifeInv, SendInv, SendTypes
<1>2. ~Present(m) /\ ~Draining(m)
  BY <1>1 DEF LifeInv, QueueInv, Owned, HandledPlaces, Steering, Unhandled, Handling, MessageOK
<1> QED
  BY <1>1, <1>2 DEF LifeOf, MessageOK, Unsent, Unhandled, Handling, LifeInv

\* A steer's message is not in the hands of the pass; it waits in its row until it is sent.
LEMMA SteerLife ==
    ASSUME LifeInv, NEW m \in Msgs, pc[m] \in Steering
    PROVE  /\ ~Draining(m)
           /\ pc[m] # "sSend" => LifeOf(m) = IF Present(m) THEN "waiting" ELSE "over"
           /\ pc[m] = "sSend" => LifeOf(m) = "sending"
           /\ pc[m] = "sSend" /\ out[m] # "sent" => sends[m] = 0
<1>1. MessageOK(m) /\ sends[m] \in Nat
  BY DEF LifeInv, SendInv, SendTypes
<1>2. ~Draining(m)
  BY <1>1 DEF MessageOK, Steering
<1> QED
  BY <1>1, <1>2 DEF LifeOf, MessageOK, Unsent, Steering, Handling, LifeInv

\* A step of one message, the pass aside.
LEMMA OneStep ==
    ASSUME LifeInv, NEW m \in Msgs, UNCHANGED <<pass, sends>>, NEW place, pc' = [pc EXCEPT ![m] = place],
           \A k \in Msgs \ {m} : Present(k)' <=> Present(k)
    PROVE  /\ pc'[m] = place /\ (Draining(m)' <=> Draining(m))
           /\ \A k \in Msgs \ {m} : LifeOf(k)' = LifeOf(k)
<1>1. pc'[m] = place /\ \A k \in Msgs \ {m} : pc'[k] = pc[k]
  BY DEF LifeInv, SendInv, SendTypes
<1>2. \A k \in Msgs : Draining(k)' <=> Draining(k)
  BY DEF Draining
<1> QED
  BY <1>1, <1>2, LifeStays

\* A message the pass is sending: its handler is done, and it was not submitted unless the send says so.
LEMMA PassLife ==
    ASSUME LifeInv, pass.pc = "send"
    PROVE  /\ pass.row \in Msgs /\ Draining(pass.row) /\ pc[pass.row] = "rowed"
           /\ LifeOf(pass.row) = "sending"
           /\ pass.res # "sent" => sends[pass.row] = 0
           /\ \A k \in Msgs \ {pass.row} : ~Draining(k)
<1>1. pass.row \in Msgs
  BY DEF LifeInv, QueueInv, StateTypes, DrainerTypes
<1>2. MessageOK(pass.row) /\ sends[pass.row] \in Nat /\ Draining(pass.row)
  BY <1>1 DEF LifeInv, SendInv, SendTypes, Draining
<1> QED
  BY <1>1, <1>2 DEF MessageOK, Unsent, LifeOf, Draining, LifeInv

\* The pass marks a row that waits: it sets out.
LEMMA PassMarkLives ==
    ASSUME LifeInv, NEW read, PassMark(read)
    PROVE  LivesMove
<1>1. UNCHANGED <<pc, sends>> /\ pass.pc = "box" /\ pass.row \in Msgs /\ pass \in Passes
  BY DEF PassMark, dispatch, LifeInv, QueueInv, StateTypes, DrainerTypes
<1>2. PICK m \in Msgs : m = pass.row
  BY <1>1
<1>3. CASE pass' = IdlePass /\ UNCHANGED rowState
  BY <1>1, <1>3, LivesStay DEF IdlePass, Draining, Present
<1>4. ASSUME rowState[m] = "queued", rowState' = [rowState EXCEPT ![m] = "sending"],
             NEW at, pass' = [pass EXCEPT !.pc = "send", !.at = at, !.res = Begun]
      PROVE  LivesMove
  <2>1. pc[m] = "rowed" /\ \A k \in Msgs : ~Draining(k)
    BY <1>1, <1>4 DEF LifeInv, SendInv, MessageOK, Draining
  <2>2. pass'.pc = "send" /\ pass'.row = m
    BY <1>1, <1>2, <1>4 DEF Passes
  <2>3. \A k \in Msgs : Present(k)' <=> Present(k)
    BY <1>4 DEF Present, LifeInv, SendInv, SendTypes
  <2>4. \A k \in Msgs \ {m} : LifeOf(k)' = LifeOf(k)
    BY <1>1, <2>1, <2>2, <2>3, LifeStays DEF Draining
  <2>5. LifeOf(m) = "waiting" /\ LifeOf(m)' = "sending"
    BY <1>4, <2>1, <2>2 DEF LifeOf, Present, Draining
  <2> QED
    BY <1>1, <2>4, <2>5, OneMoves
<1> QED
  BY <1>2, <1>3, <1>4 DEF PassMark, SetRow, queueVars

\* The drained row is submitted, or its send fails.
LEMMA PassDeliverLives ==
    ASSUME LifeInv, NEW o \in Outcomes, PassDeliver(o)
    PROVE  LivesMove
<1>1. /\ pass.pc = "send" /\ pass.res = "none" /\ pass' = [pass EXCEPT !.res = o] /\ UNCHANGED <<pc, rowState>>
      /\ sends' = IF o = "sent" THEN [sends EXCEPT ![pass.row] = @ + 1] ELSE sends
      /\ pass \in Passes
  BY DEF PassDeliver, queueVars, dispatch, LifeInv, QueueInv, StateTypes, DrainerTypes
<1>2. PICK m \in Msgs : m = pass.row
  BY <1>1, PassLife
<1>3. pass'.pc = pass.pc /\ pass'.row = pass.row
  BY <1>1 DEF Passes
<1>4. \A k \in Msgs : LifeOf(k)' = LifeOf(k)
  BY <1>1, <1>3, LifeStays DEF Draining, Present
<1> QED
  BY <1>1, <1>2, <1>4, PassLife, OneSubmitted DEF LifeInv

\* The pass settles its send: the row is dropped, or waits again if it was not submitted.
LEMMA PassCommitLives ==
    ASSUME LifeInv, PassCommit
    PROVE  LivesMove
<1>1. pass.pc = "send" /\ pass' = IdlePass /\ UNCHANGED <<pc, sends>>
  BY DEF PassCommit, dispatch
<1>2. PICK m \in Msgs : m = pass.row
  BY <1>1, PassLife
<1>3. \A k \in Msgs : ~Draining(k)'
  BY <1>1 DEF Draining, IdlePass
<1>4. \E s \in {"absent", "queued", "held"} :
         /\ rowState' = [rowState EXCEPT ![m] = s] \/ (~Present(m) /\ UNCHANGED rowState)
         /\ s # "absent" => pass.res # "sent"
  BY <1>2 DEF PassCommit, Drop, GiveBack, SetRow, queueVars
<1>5. \A k \in Msgs \ {m} : Present(k)' <=> Present(k)
  BY <1>4 DEF Present, LifeInv, SendInv, SendTypes
<1>6. \A k \in Msgs \ {m} : LifeOf(k)' = LifeOf(k)
  BY <1>1, <1>2, <1>3, <1>5, PassLife, LifeStays
<1>7. LifeOf(m) = "sending" /\ pc'[m] = "rowed"
  BY <1>1, <1>2, PassLife
<1>8. LifeOf(m)' = IF Present(m)' THEN "waiting" ELSE "over"
  BY <1>3, <1>7 DEF LifeOf, Handling
<1>9. Present(m)' => sends[m] = 0
  BY <1>1, <1>2, <1>4, PassLife DEF Present, LifeInv, SendInv, SendTypes
<1> QED
  BY <1>1, <1>6, <1>7, <1>8, <1>9, OneMoves

\* The drainer's other steps move no message.
LEMMA DrainLives ==
    ASSUME LifeInv, DrainStep
    PROVE  LivesMove
<1>1. CASE PassStart
  BY <1>1, LivesStay DEF PassStart, dispatch, history, queueVars, Present, Draining, IdlePass
<1>2. ASSUME NEW read \in Reads, PassLift(read) PROVE LivesMove
  <2>1. \A k \in Msgs : Present(k)' <=> Present(k)
    BY <1>2 DEF PassLift, Unhold, RestartHeld, queueVars, Present
  <2> QED
    BY <1>2, <2>1, LivesStay DEF PassLift, dispatch, history, Draining, IdlePass
<1>3. CASE HoldClosed
  BY <1>3 DEF HoldClosed, LifeInv, SendInv, SendTypes
<1>4. CASE RetryFires \/ RunWaitFires \/ RunEnded
  BY <1>4, LivesStay DEF RetryFires, RunWaitFires, RunEnded, dispatch, history, queueVars, Present, Draining
<1> QED
  BY <1>1, <1>2, <1>3, <1>4, PassMarkLives, PassDeliverLives, PassCommitLives DEF DrainStep

\* What a handler that has sent nothing does with its message: refuse it, wait, start it, or queue it.
LEMMA HandlerLife ==
    ASSUME LifeInv, NEW m \in Msgs, pc[m] \in Unhandled \ {"start"}, UNCHANGED <<pass, sends>>,
           \/ Refuse(m) \/ StartPath(m)
           \/ \E place \in {"box", "bgStart", "bgSteer"} : Await(m, place)
           \/ CommitRow(m, order)
           \/ CommitRow(m, <<>>) /\ (\A k \in Msgs : ~Present(k))
    PROVE  LivesMove
<1>1. ~Present(m) /\ ~Draining(m) /\ LifeOf(m) = "outside"
  BY OutsideLife
<1>2. ASSUME Refuse(m) \/ StartPath(m) \/ \E place \in {"box", "bgStart", "bgSteer"} : Await(m, place)
      PROVE  LivesMove
  <2>1. PICK place \in {"refused", "start", "box", "bgStart", "bgSteer"} : pc' = [pc EXCEPT ![m] = place]
    BY <1>2 DEF Refuse, StartPath, Await
  <2>2. \A k \in Msgs : Present(k)' <=> Present(k)
    BY <1>2 DEF Refuse, StartPath, Await, queueVars, Present
  <2>3. pc'[m] = place /\ ~Draining(m)' /\ \A k \in Msgs \ {m} : LifeOf(k)' = LifeOf(k)
    BY <1>1, <2>1, <2>2, OneStep
  <2>4. LifeOf(m)' \in {"outside", "sending"}
    BY <1>1, <2>2, <2>3 DEF LifeOf, Handling
  <2> QED
    BY <1>1, <2>3, <2>4, OneMoves
<1>3. ASSUME NEW rows, CommitRow(m, rows), rows = order \/ (rows = <<>> /\ \A k \in Msgs : ~Present(k))
      PROVE  LivesMove
  <2>1. pc' = [pc EXCEPT ![m] = "rowed"]
    BY <1>3 DEF CommitRow, Rowed
  <2>2. \A k \in Msgs : Present(k) <=> \E i \in 1..Len(order) : order[i] = k
    BY DEF LifeInv, QueueInv, RowsGood, Lists, Rows
  <2>3. Present(m)' /\ \A k \in Msgs \ {m} : Present(k)' <=> Present(k)
    BY <1>3, <2>2 DEF CommitRow, Present
  <2>4. pc'[m] = "rowed" /\ ~Draining(m)' /\ \A k \in Msgs \ {m} : LifeOf(k)' = LifeOf(k)
    BY <1>1, <2>1, <2>3, OneStep
  <2>5. LifeOf(m)' = "waiting"
    BY <2>3, <2>4 DEF LifeOf
  <2> QED
    BY <1>1, <2>4, <2>5, OneMoves
<1> QED
  BY <1>2, <1>3

\* The synchronous part of a handler.
LEMMA DispatchLives ==
    ASSUME LifeInv, NEW m \in Msgs, NEW mode \in Modes, NEW maint, Dispatch(m, mode, maint)
    PROVE  LivesMove
<1>1. pc[m] \in Unhandled \ {"start"} /\ UNCHANGED <<pass, sends>>
  BY DEF Dispatch, Unhandled, history
<1>2. mode \in {"start", "queue", "steer"}
  BY ConstantsAssumption DEF ConstantsAssumption, AllModes
<1>3. \/ Refuse(m) \/ StartPath(m) \/ (\E place \in {"box", "bgStart", "bgSteer"} : Await(m, place))
      \/ CommitRow(m, order)
  BY <1>2 DEF Dispatch, Enqueue
<1> QED
  BY <1>1, <1>3, HandlerLife

\* A steer becomes a row that waits until its send begins.
LEMMA SteerReadLives ==
    ASSUME LifeInv, NEW m \in Msgs, NEW background, SteerRead(m, background)
    PROVE  LivesMove
<1>1. pc[m] \in Unhandled \ {"start"} /\ UNCHANGED <<pass, sends>>
  BY DEF SteerRead, Unhandled, history
<1>2. CASE StartPath(m) \/ Refuse(m)
  BY <1>1, <1>2, HandlerLife
<1>3. CASE ~(StartPath(m) \/ Refuse(m))
  <2>1. PICK place \in {"sBgStopping", "sBg"} : pc' = [pc EXCEPT ![m] = place]
    BY <1>3 DEF SteerRead
  <2>2. Present(m)' /\ \A k \in Msgs \ {m} : Present(k)' <=> Present(k)
    BY <1>3 DEF SteerRead, SetRow, Present, LifeInv, SendInv, SendTypes
  <2>3. pc'[m] = place /\ (Draining(m)' <=> Draining(m)) /\ \A k \in Msgs \ {m} : LifeOf(k)' = LifeOf(k)
    BY <1>1, <2>1, <2>2, OneStep
  <2>4. LifeOf(m) = "outside" /\ LifeOf(m)' = "waiting"
    BY <1>1, <2>2, <2>3, OutsideLife DEF LifeOf
  <2> QED
    BY <1>1, <2>3, <2>4, OneMoves
<1> QED
  BY <1>2, <1>3

\* A guarded send of a start comes to its outcome, and the handler settles it.
LEMMA StartLives ==
    ASSUME LifeInv, NEW m \in Msgs, StartCommit(m) \/ \E o \in Outcomes : StartDeliver(m, o)
    PROVE  LivesMove
<1>1. pc[m] = "start" /\ pc[m] \in Unhandled /\ UNCHANGED <<rowState, pass>>
  BY DEF StartCommit, StartDeliver, Unhandled, queueVars, drainer
<1>2. ~Present(m) /\ ~Draining(m) /\ LifeOf(m) = "sending" /\ (out[m] # "sent" => sends[m] = 0)
  BY <1>1, OutsideLife
<1>3. ASSUME NEW o \in Outcomes, StartDeliver(m, o) PROVE LivesMove
  <2>1. \A k \in Msgs : LifeOf(k)' = LifeOf(k)
    BY <1>1, <1>3, LifeStays DEF StartDeliver, Present, Draining
  <2> QED
    BY <1>2, <1>3, <2>1, OneSubmitted DEF StartDeliver, LifeInv
<1>4. CASE StartCommit(m)
  <2>1. PICK place \in {"refused", "done"} : pc' = [pc EXCEPT ![m] = place] /\ (place = "refused" => out[m] # "sent")
    BY <1>4 DEF StartCommit
  <2>2. UNCHANGED sends /\ \A k \in Msgs : Present(k)' <=> Present(k)
    BY <1>1, <1>4 DEF StartCommit, Present
  <2>3. pc'[m] = place /\ ~Draining(m)' /\ \A k \in Msgs \ {m} : LifeOf(k)' = LifeOf(k)
    BY <1>1, <1>2, <2>1, <2>2, OneStep
  <2>4. LifeOf(m)' = IF place = "refused" THEN "outside" ELSE "over"
    BY <1>2, <2>2, <2>3 DEF LifeOf, Handling
  <2> QED
    BY <1>2, <2>1, <2>2, <2>3, <2>4, OneMoves
<1> QED
  BY <1>3, <1>4

\* Every step of a handler moves its own message along its life.
LEMMA HandlerLives ==
    ASSUME LifeInv, NEW m \in Msgs, HandlerStep(m)
    PROVE  LivesMove
<1>1. ASSUME NEW read \in Reads, EnqueueRead(m, read) PROVE LivesMove
  <2>1. read \in {"yes", "no", "throws"} /\ pc[m] \in Unhandled \ {"start"} /\ UNCHANGED <<pass, sends>>
    BY <1>1, ConstantsAssumption DEF EnqueueRead, Unhandled, history, ConstantsAssumption, AllReads
  <2>2. \A k \in Msgs : ~Present(k)
    BY <1>1 DEF EnqueueRead, LifeInv, LossInv, OneAtATime
  <2> QED
    BY <1>1, <2>1, <2>2, HandlerLife DEF EnqueueRead
<1>2. ASSUME NEW background \in BOOLEAN, StartRead(m, background) PROVE LivesMove
  <2>1. pc[m] \in Unhandled \ {"start"} /\ UNCHANGED <<pass, sends>>
    BY <1>2 DEF StartRead, Unhandled, history
  <2> QED
    BY <1>2, <2>1, HandlerLife DEF StartRead
<1> QED
  BY <1>1, <1>2, DispatchLives, SteerReadLives, StartLives DEF HandlerStep

\* A step of a steer: its row waits until its send begins, and again only if nothing was submitted.
LEMMA SteerMovesLife ==
    ASSUME LifeInv, NEW m \in Msgs, pc[m] \in Steering, UNCHANGED <<pass, sends>>,
           NEW place \in Steering \cup {"rowed"}, pc' = [pc EXCEPT ![m] = place],
           \A k \in Msgs \ {m} : Present(k)' <=> Present(k),
           Present(m)' => Present(m),
           pc[m] # "sSend" /\ Present(m) => Present(m)',
           place = "sSend" => pc[m] # "sSend" /\ Present(m),
           pc[m] = "sSend" /\ Present(m)' => out[m] # "sent"
    PROVE  LivesMove
<1>1. pc'[m] = place /\ (Draining(m)' <=> Draining(m)) /\ \A k \in Msgs \ {m} : LifeOf(k)' = LifeOf(k)
  BY OneStep
<1>2. ~Draining(m)'
  BY <1>1, SteerLife
<1>3. LifeOf(m)' = IF place = "sSend" THEN "sending" ELSE IF Present(m)' THEN "waiting" ELSE "over"
  BY <1>1, <1>2 DEF LifeOf, Steering, Handling
<1>4. CASE pc[m] # "sSend"
  BY <1>1, <1>3, <1>4, SteerLife, OneMoves
<1>5. CASE pc[m] = "sSend"
  BY <1>1, <1>3, <1>5, SteerLife, OneMoves
<1> QED
  BY <1>4, <1>5

\* What a steer does before its send leaves its row where it is.
LEMMA SteerWaitsLife ==
    ASSUME LifeInv, NEW m \in Msgs, pc[m] \in Steering \ {"sSend"}, UNCHANGED <<pass, sends>>,
           \A k \in Msgs : Present(k)' <=> Present(k),
           NEW place \in (Steering \ {"sSend"}) \cup {"rowed"}, pc' = [pc EXCEPT ![m] = place]
    PROVE  LivesMove
  BY SteerMovesLife

\* The last look of a steer: its message sets out, or keeps waiting in its row.
LEMMA SteerSendLives ==
    ASSUME LifeInv, NEW m \in Msgs, pc[m] \in Steering \ {"sSend"}, UNCHANGED <<pass, sends>>, SteerSend(m)
    PROVE  LivesMove
<1>1. \A k \in Msgs : Present(k)' <=> Present(k)
  BY DEF SteerSend, queueVars, Present
<1>2. \/ pc' = [pc EXCEPT ![m] = "rowed"]
      \/ pc' = [pc EXCEPT ![m] = "sSend"] /\ Present(m)
  BY DEF SteerSend, Rowed, Present
<1>3. "sSend" \in Steering
  BY DEF Steering
<1> QED
  BY <1>1, <1>2, <1>3, SteerMovesLife

\* A steer that waits for the thread to settle keeps waiting in its row.
LEMMA WaitSettledLives ==
    ASSUME LifeInv, NEW m \in Msgs, pc[m] \in Steering \ {"sSend"}, UNCHANGED <<pass, sends>>, WaitSettled(m)
    PROVE  LivesMove
<1>1. CASE ~Archived /\ Settled
  BY <1>1, SteerSendLives DEF WaitSettled
<1>2. CASE ~(~Archived /\ Settled)
  <2>1. \A k \in Msgs : Present(k)' <=> Present(k)
    BY <1>2 DEF WaitSettled, queueVars, Present
  <2>2. \E place \in {"rowed", "sWait"} : pc' = [pc EXCEPT ![m] = place]
    BY <1>2 DEF WaitSettled
  <2> QED
    BY <2>1, <2>2, SteerWaitsLife DEF Steering
<1> QED
  BY <1>1, <1>2

\* A steer given up keeps its row, unless it had none left; its send, if it had begun, submitted nothing.
LEMMA HoldSteerLives ==
    ASSUME LifeInv, NEW m \in Msgs, pc[m] \in Steering, UNCHANGED <<pass, sends>>, NEW reason, HoldSteer(m, reason),
           pc[m] = "sSend" => out[m] # "sent"
    PROVE  LivesMove
<1>1. pc' = [pc EXCEPT ![m] = "rowed"]
  BY DEF HoldSteer, Rowed
<1>2. \A k \in Msgs : Present(k)' <=> Present(k)
  BY DEF HoldSteer, SetRow, queueVars, Present, LifeInv, SendInv, SendTypes
<1> QED
  BY <1>1, <1>2, SteerMovesLife DEF Steering

\* Every step of a steer moves its own message along its life.
LEMMA SteerLives ==
    ASSUME LifeInv, NEW m \in Msgs, SteerStep(m)
    PROVE  LivesMove
<1>1. CASE SteerWoken(m)
  BY <1>1, SteerSendLives DEF SteerWoken, Steering, steerFrame
<1>2. ASSUME NEW background, SteerBackground(m, background) PROVE LivesMove
  <2>1. pc[m] \in Steering \ {"sSend"} /\ UNCHANGED <<pass, sends>> /\ "sPress" \in Steering \ {"sSend"}
    BY <1>2 DEF SteerBackground, Steering, steerFrame
  <2>2. CASE SteerSend(m) \/ WaitSettled(m)
    BY <2>1, <2>2, SteerSendLives, WaitSettledLives
  <2>3. CASE ~(SteerSend(m) \/ WaitSettled(m))
    BY <1>2, <2>1, <2>3, SteerWaitsLife DEF SteerBackground, queueVars, Present
  <2> QED
    BY <2>2, <2>3
<1>3. ASSUME NEW result \in {"pressed", "failed", "maintenance"}, SteerPress(m, result) PROVE LivesMove
  <2>1. pc[m] \in Steering \ {"sSend"} /\ UNCHANGED <<pass, sends>>
    BY <1>3 DEF SteerPress, Steering, steerFrame
  <2>2. CASE result = "pressed"
    BY <1>3, <2>1, <2>2, WaitSettledLives DEF SteerPress
  <2>3. CASE result = "failed"
    BY <1>3, <2>1, <2>3, HoldSteerLives DEF SteerPress
  <2>4. CASE result = "maintenance"
    <3>1. pc' = [pc EXCEPT ![m] = "rowed"]
      BY <1>3, <2>4 DEF SteerPress, Rowed
    <3>2. \A k \in Msgs : Present(k)' <=> Present(k)
      BY <1>3, <2>4 DEF SteerPress, SetRow, queueVars, Present, LifeInv, SendInv, SendTypes
    <3> QED
      BY <2>1, <3>1, <3>2, SteerWaitsLife
  <2> QED
    BY <2>2, <2>3, <2>4
<1>4. CASE SteerWaitFires(m)
  BY <1>4, SteerWaitsLife DEF SteerWaitFires, Steering, steerFrame, queueVars, Present
<1>5. ASSUME NEW background, SteerLate(m, background) PROVE LivesMove
  <2>1. pc[m] \in Steering \ {"sSend"} /\ UNCHANGED <<pass, sends>>
    BY <1>5 DEF SteerLate, Steering, steerFrame
  <2>2. CASE background
    BY <1>5, <2>1, <2>2, SteerSendLives DEF SteerLate
  <2>3. CASE ~background
    BY <1>5, <2>1, <2>3, HoldSteerLives DEF SteerLate
  <2> QED
    BY <2>2, <2>3
<1>6. ASSUME NEW o \in Outcomes, SteerDeliver(m, o) PROVE LivesMove
  <2>1. pc[m] = "sSend" /\ pc[m] \in Steering /\ out[m] # "sent"
    BY <1>6 DEF SteerDeliver, Steering
  <2>2. \A k \in Msgs : LifeOf(k)' = LifeOf(k)
    BY <1>6, LifeStays DEF SteerDeliver, drainer, queueVars, Present, Draining
  <2> QED
    BY <1>6, <2>1, <2>2, SteerLife, OneSubmitted DEF SteerDeliver, LifeInv
<1>7. CASE SteerCommit(m)
  <2>1. pc[m] = "sSend" /\ pc[m] \in Steering /\ UNCHANGED <<pass, sends>>
    BY <1>7 DEF SteerCommit, Steering
  <2>2. CASE out[m] \in {"sent", "delivered"}
    <3>1. pc' = [pc EXCEPT ![m] = "rowed"] /\ rowState' = [rowState EXCEPT ![m] = "absent"]
      BY <1>7, <2>2 DEF SteerCommit, Drop, Rowed
    <3>2. ~Present(m)' /\ \A k \in Msgs \ {m} : Present(k)' <=> Present(k)
      BY <3>1 DEF Present, LifeInv, SendInv, SendTypes
    <3> QED
      BY <2>1, <3>1, <3>2, SteerMovesLife
  <2>3. CASE out[m] \notin {"sent", "delivered"}
    BY <1>7, <2>1, <2>3, HoldSteerLives DEF SteerCommit
  <2> QED
    BY <2>2, <2>3
<1> QED
  BY <1>1, <1>2, <1>3, <1>4, <1>5, <1>6, <1>7 DEF SteerStep

\* The operator's commands: a cancel ends the wait of a row; the others move no message.
LEMMA CommandLives ==
    ASSUME LifeInv, CommandStep
    PROVE  LivesMove
<1>1. ASSUME NEW m \in Msgs, Cancel(m) PROVE LivesMove
  <2>1. rowState[m] \in {"queued", "held"} /\ rowState' = [rowState EXCEPT ![m] = "absent"]
        /\ UNCHANGED <<pc, pass, sends>>
    BY <1>1 DEF Cancel, Drop, queueCommand, dispatch
  <2>2. pc[m] = "rowed" /\ ~Draining(m)
    BY <2>1 DEF LifeInv, SendInv, MessageOK
  <2>3. ~Present(m)' /\ \A k \in Msgs \ {m} : Present(k)' <=> Present(k)
    BY <2>1 DEF Present, LifeInv, SendInv, SendTypes
  <2>4. \A k \in Msgs : Draining(k)' <=> Draining(k)
    BY <2>1 DEF Draining
  <2>5. LifeOf(m) = "waiting" /\ LifeOf(m)' = "over"
    BY <2>1, <2>2, <2>3, <2>4 DEF LifeOf, Present, Handling
  <2>6. \A k \in Msgs \ {m} : LifeOf(k)' = LifeOf(k)
    BY <2>1, <2>3, <2>4, LifeStays
  <2> QED
    BY <2>1, <2>5, <2>6, OneMoves
<1>2. CASE Resume
  <2>1. \A k \in Msgs : Present(k)' <=> Present(k)
    BY <1>2 DEF Resume, Unhold, Present
  <2> QED
    BY <1>2, <2>1, LivesStay DEF Resume, queueCommand, dispatch, Draining
<1>3. CASE (\E s : Reorder(s)) \/ (\E m \in Msgs : Edit(m)) \/ InterruptAsk
           \/ (\E pressed \in BOOLEAN : InterruptPress(pressed)) \/ InterruptExpires
  BY <1>3, LivesStay
     DEF Reorder, Edit, InterruptAsk, InterruptPress, InterruptExpires, queueCommand, dispatch, drainer, history,
         queueVars, Present, Draining
<1> QED
  BY <1>1, <1>2, <1>3 DEF CommandStep

\* The world around moves no message while no restart and no archive is left.
LEMMA WorldLives ==
    ASSUME MaxCrashes = 0, MaxArchives = 0, LifeInv, WorldStep
    PROVE  LivesMove
<1>1. CASE Archive \/ PaneClosed \/ \E polled \in BOOLEAN : Restart(polled)
  BY <1>1 DEF Archive, PaneClosed, Forget, Restart, LifeInv, SendInv, SendTypes
<1>2. CASE Poll
  <2>1. UNCHANGED <<pass, sends, rowState>>
    BY <1>2 DEF Poll, queueVars
  <2>2. ASSUME NEW k \in Msgs PROVE LifeOf(k)' = LifeOf(k)
    <3>1. pc'[k] = pc[k] \/ (pc[k] = "sWait" /\ pc'[k] = "woken")
      BY <1>2 DEF Poll
    <3> QED
      BY <2>1, <3>1 DEF LifeOf, Present, Draining, Handling
  <2> QED
    BY <2>1, <2>2, NoneMoves
<1>3. CASE (\E s \in Agent : AgentMoves(s)) \/ PollArchived \/ PaneDropped \/ RequestOpens \/ RequestCloses
           \/ Unarchive
  BY <1>3, LivesStay
     DEF AgentMoves, PollArchived, PaneDropped, RequestOpens, RequestCloses, Unarchive, drainer, dispatch, history,
         queueVars, Present, Draining
<1> QED
  BY <1>1, <1>2, <1>3 DEF WorldStep

\* No restart is left.
LEMMA NoCrash ==
    ASSUME MaxCrashes = 0, LifeInv, [Next]_vars
    PROVE  spent'.crashes = 0
<1>1. spent \in [crashes : Nat, archives : Nat, gaps : Nat] /\ spent.crashes = 0
  BY DEF LifeInv, SendInv, SendTypes
<1>2. CASE DrainStep
  BY <1>1, <1>2
     DEF DrainStep, PassStart, HoldClosed, PassLift, PassMark, PassDeliver, PassCommit, RetryFires, RunWaitFires,
         RunEnded
<1>3. ASSUME NEW m \in Msgs, HandlerStep(m) PROVE spent' = spent
  BY <1>3 DEF HandlerStep, Dispatch, EnqueueRead, StartRead, SteerRead, StartDeliver, StartCommit
<1>4. ASSUME NEW m \in Msgs, SteerStep(m) PROVE spent' = spent
  BY <1>4
     DEF SteerStep, SteerWoken, SteerBackground, SteerPress, SteerWaitFires, SteerLate, SteerDeliver, SteerCommit,
         steerFrame
<1>5. CASE CommandStep
  BY <1>1, <1>5
     DEF CommandStep, Reorder, Cancel, Edit, Resume, InterruptAsk, InterruptPress, InterruptExpires, queueCommand
<1>6. CASE WorldStep
  BY <1>1, <1>6
     DEF WorldStep, AgentMoves, Poll, PollArchived, PaneDropped, RequestOpens, RequestCloses, Archive, PaneClosed,
         Forget, Unarchive, Restart
<1>7. CASE UNCHANGED vars
  BY <1>1, <1>7 DEF vars
<1> QED
  BY <1>1, <1>2, <1>3, <1>4, <1>5, <1>6, <1>7 DEF Next

\* The dispatcher, the drainer and the steers together implement the life of a message, whatever the
\* number of messages: each is submitted at most once, and never waits again after.
THEOREM MessageLifeImplemented ==
    ASSUME MaxCrashes = 0, MaxArchives = 0, Overlap <= 1
    PROVE  Spec => ImplementsMessageLife
<1>1. Init => Lives!LifeInit /\ LifeInv
  <2> SUFFICES ASSUME Init PROVE Lives!LifeInit /\ LifeInv
      OBVIOUS
  <2>1. Life = [m \in Msgs |-> "outside"]
    BY DEF Init, Life, Present, IdlePass
  <2> QED
    BY <2>1, InitSendInv, InitQueueInv, InitLossInv DEF Init, Lives!LifeInit, LifeInv
<1>2. LifeInv /\ [Next]_vars => LifeInv'
  BY NextSendInv, NextQueueInv, NextLossInv, NoCrash, ConstantsAssumption DEF LifeInv
<1>3. LifeInv /\ [Next]_vars => [Lives!LifeNext]_(Lives!lifeVars)
  <2> SUFFICES ASSUME LifeInv, [Next]_vars PROVE LivesMove
      BY DEF LivesMove
  <2>1. CASE UNCHANGED vars
    BY <2>1, LivesStay DEF vars, drainer, dispatch, history, queueVars, Present, Draining
  <2> QED
    BY <2>1, DrainLives, HandlerLives, SteerLives, CommandLives, WorldLives DEF Next
<1> QED
  BY <1>1, <1>2, <1>3, PTL DEF Spec, ImplementsMessageLife, Lives!LifeSpec

\* What the life of a message promises: one submission, and no wait after it.
SubmittedOnce == Lives!LifeTypeOK /\ Lives!SubmittedAtMostOnce /\ Lives!SubmittedNeverWaits

\* The abstract specification keeps its promise.
LEMMA LifeSubmitsOnce == Lives!LifeSpec => []SubmittedOnce
<1>1. Lives!LifeInit => SubmittedOnce
  BY DEF Lives!LifeInit, SubmittedOnce, Lives!LifeTypeOK, Lives!Lives, Lives!SubmittedAtMostOnce,
         Lives!SubmittedNeverWaits
<1>2. SubmittedOnce /\ [Lives!LifeNext]_(Lives!lifeVars) => SubmittedOnce'
  <2> SUFFICES ASSUME SubmittedOnce, [Lives!LifeNext]_(Lives!lifeVars) PROVE SubmittedOnce'
      OBVIOUS
  <2> USE DEF SubmittedOnce, Lives!LifeTypeOK, Lives!Lives, Lives!SubmittedAtMostOnce, Lives!SubmittedNeverWaits
  <2>1. CASE UNCHANGED Lives!lifeVars
    BY <2>1 DEF Lives!lifeVars
  <2>2. ASSUME NEW m \in Msgs, Lives!Accept(m) \/ Lives!Send(m) \/ Lives!Return(m) \/ Lives!Finish(m)
        PROVE  SubmittedOnce'
    <3>1. PICK to \in Lives!Lives : Life' = [Life EXCEPT ![m] = to] /\ UNCHANGED sends
                                    /\ (sends[m] > 0 => to \in {"sending", "over"})
      BY <2>2 DEF Lives!Accept, Lives!Send, Lives!Return, Lives!Finish, Lives!Move
    <3> HIDE DEF SubmittedOnce
    <3>2. /\ Life' \in [Msgs -> Lives!Lives] /\ Life'[m] = to
          /\ \A k \in Msgs \ {m} : Life'[k] = Life[k]
      BY <3>1 DEF SubmittedOnce
    <3> QED
      BY <3>1, <3>2 DEF SubmittedOnce
  <2>3. ASSUME NEW m \in Msgs, Lives!Submit(m) PROVE SubmittedOnce'
    BY <2>3 DEF Lives!Submit
  <2> QED
    BY <2>1, <2>2, <2>3 DEF Lives!LifeNext
<1> QED
  BY <1>1, <1>2, PTL DEF Lives!LifeSpec

\* A message that was submitted is on its way to be settled or is over: it is no row that waits for a
\* send, and its client was not told to send it again.
THEOREM NeverWaitsAgain ==
    ASSUME MaxCrashes = 0, MaxArchives = 0, Overlap <= 1
    PROVE  Spec => []Lives!SubmittedNeverWaits
  BY MessageLifeImplemented, LifeSubmitsOnce, PTL DEF SubmittedOnce, ImplementsMessageLife
=============================================================================
