------------------------- MODULE MessageLifeProofs -------------------------
(***************************************************************************)
(* What the life of a message promises, for any set of messages.           *)
(***************************************************************************)
EXTENDS MessageLife, TLAPS

\* A message that is not on its way nor over was not submitted.
LifeInv ==
    /\ LifeTypeOK
    /\ \A m \in Msgs : sends[m] <= 1
    /\ \A m \in Msgs : life[m] \in {"outside", "waiting"} => sends[m] = 0

\* Every step of one message keeps the invariant.
LEMMA StepLifeInv ==
    ASSUME LifeInv, NEW m \in Msgs, Accept(m) \/ Send(m) \/ Submit(m) \/ Return(m) \/ Finish(m)
    PROVE  LifeInv'
<1>1. CASE Accept(m)
  BY <1>1 DEF LifeInv, LifeTypeOK, Lives, Accept, Move
<1>2. CASE Send(m)
  BY <1>2 DEF LifeInv, LifeTypeOK, Lives, Send, Move
<1>3. CASE Submit(m)
  BY <1>3 DEF LifeInv, LifeTypeOK, Lives, Submit
<1>4. CASE Return(m)
  BY <1>4 DEF LifeInv, LifeTypeOK, Lives, Return, Move
<1>5. CASE Finish(m)
  BY <1>5 DEF LifeInv, LifeTypeOK, Lives, Finish, Move
<1> QED
  BY <1>1, <1>2, <1>3, <1>4, <1>5

\* The invariant holds in every state of every message's life.
THEOREM LifeInvariance == LifeSpec => []LifeInv
<1>1. LifeInit => LifeInv
  BY DEF LifeInit, LifeInv, LifeTypeOK, Lives
<1>2. LifeInv /\ [LifeNext]_lifeVars => LifeInv'
  <2>1. CASE UNCHANGED lifeVars
    BY <2>1 DEF LifeInv, LifeTypeOK, lifeVars
  <2> QED
    BY <2>1, StepLifeInv DEF LifeNext
<1> QED
  BY <1>1, <1>2, PTL DEF LifeSpec

\* A message is submitted at most once, and never goes back to wait after that: what the dispatcher's
\* handlers, drain pass and steers come to when MessageLife is all one sees of them.
THEOREM LifeIsOneSubmission == LifeSpec => [](SubmittedAtMostOnce /\ SubmittedNeverWaits)
<1>1. LifeInv => SubmittedAtMostOnce /\ SubmittedNeverWaits
  BY DEF LifeInv, LifeTypeOK, Lives, SubmittedAtMostOnce, SubmittedNeverWaits
<1> QED
  BY <1>1, LifeInvariance, PTL
=============================================================================
