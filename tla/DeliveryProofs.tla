---------------------------- MODULE DeliveryProofs ----------------------------
(* Proofs about Delivery, for every value of its four durations.           *)
EXTENDS Delivery, TLAPS

\* The durations one by one.
LEMMA Durations ==
    /\ BlockedRetry \in Nat /\ BlockedRetry > 0
    /\ RetryEvery \in Nat /\ RetryEvery > 0
    /\ HerdrTimeout \in Nat /\ HerdrTimeout > 0
    /\ NotifyTimeout \in Nat /\ NotifyTimeout > 0
BY DeliveryAssumption

\* Where a delivery can be, when the call or pause under way began, and when that
\* is due: no attempt begins later than a pause after blockedRetry.
InTime ==
    /\ at \in {"prompt", "pause"} => target = "named"
    /\ at = "list" => target = "repo" /\ began = 0
    /\ at = "prompt" => began <= BlockedRetry + RetryEvery
    /\ at = "pause" => began <= BlockedRetry
    /\ at = "notify" =>
         began <= [you |-> 0, repo |-> HerdrTimeout,
                   named |-> BlockedRetry + RetryEvery + HerdrTimeout][target]
    /\ at # "idle" => clock <= Due

\* How long an agent can have been free and still not be told: it came free in the
\* attempt before, stayed so for the pause and was missed by the next one.
Missed ==
    /\ at = "prompt" => freeFor < HerdrTimeout + RetryEvery + (clock - began)
    /\ at = "pause" /\ clock > began => freeFor < HerdrTimeout + (clock - began)
    /\ at = "pause" /\ clock = began => freeFor < HerdrTimeout \/ ~free
    /\ at \in {"prompt", "pause", "notify"} /\ target = "named" =>
         longest < 2 * HerdrTimeout + RetryEvery
    /\ at = "notify" /\ target = "named" => clock > BlockedRetry

IInv == TypeOK /\ InTime /\ Missed

\* Before the first alarm nothing was sent.
LEMMA InitInv == Init => IInv
BY Durations DEF Init, IInv, TypeOK, InTime, Missed, Longest, Due, Parties

\* An alarm is handed over.
LEMMA DeliverInv == IInv /\ Deliver => IInv'
BY Durations, SMTT(30) DEF Deliver, IInv, TypeOK, InTime, Missed, Longest, Due, Parties

\* The clock advances no further than what is under way lasts.
LEMMA TickInv == IInv /\ Tick => IInv'
<1> SUFFICES ASSUME IInv, Tick PROVE IInv'
  OBVIOUS
<1> USE Durations
<1>1. TypeOK'
  BY SMTT(30) DEF IInv, Tick, TypeOK, InTime, Longest, Due, Parties
<1>2. InTime'
  BY SMTT(30) DEF IInv, Tick, TypeOK, InTime, Due
<1>3. Missed'
  BY SMTT(30) DEF IInv, Tick, TypeOK, InTime, Missed, Due
<1>4. QED
  BY <1>1, <1>2, <1>3 DEF IInv

\* A failed attempt leads to a pause within blockedRetry, to the fallback after it.
LEMMA FailedInv ==
    ASSUME IInv, at = "prompt", AttemptFailed,
           ~free \/ freeFor < HerdrTimeout,
           told' \subseteq Parties,
           UNCHANGED <<target, clock, free, answer, freeFor, longest>>
    PROVE  IInv'
<1> USE Durations
<1>1. TypeOK'
  BY SMTT(30) DEF IInv, AttemptFailed, TypeOK, Longest, Parties
<1>2. InTime'
  BY SMTT(30) DEF IInv, AttemptFailed, TypeOK, InTime, Due
<1>3. Missed'
  BY SMTT(30) DEF IInv, AttemptFailed, TypeOK, InTime, Missed
<1>4. QED
  BY <1>1, <1>2, <1>3 DEF IInv

\* Every step keeps the invariant.
LEMMA StepInv == IInv /\ [Next]_vars => IInv'
<1> SUFFICES ASSUME IInv, [Next]_vars PROVE IInv'
  OBVIOUS
<1> USE Durations
<1>1. CASE Deliver
  BY <1>1, DeliverInv
<1>2. CASE Tick
  BY <1>2, TickInv
<1>3. CASE PromptTaken
  BY <1>3 DEF PromptTaken, IInv, TypeOK, InTime, Missed, Longest, Due, Parties
<1>4. CASE PromptRefused
  <2>1. told' \subseteq Parties
    BY <1>4 DEF PromptRefused, IInv, TypeOK
  <2>2. QED
    BY <1>4, <2>1, FailedInv DEF PromptRefused
<1>5. CASE PromptKilled
  <2>1. told' \subseteq Parties
    BY <1>5 DEF PromptKilled, IInv, TypeOK, Parties
  <2>2. QED
    BY <1>5, <2>1, FailedInv DEF PromptKilled
<1>6. CASE Retry
  BY <1>6, SMTT(30) DEF Retry, IInv, TypeOK, InTime, Missed, Longest, Due, Parties
<1>7. CASE ListAgents
  BY <1>7, SMTT(30) DEF ListAgents, IInv, TypeOK, InTime, Missed, Longest, Due, Parties
<1>8. CASE \E ok \in BOOLEAN : Desktop(ok)
  BY <1>8 DEF Desktop, IInv, TypeOK, InTime, Missed, Longest, Due, Parties
<1>9. CASE DesktopKilled
  BY <1>9 DEF DesktopKilled, IInv, TypeOK, InTime, Missed, Longest, Due, Parties
<1>10. CASE Exit
  BY <1>10 DEF Exit, IInv, TypeOK, InTime, Missed, Longest, Due, Parties
<1>11. CASE UNCHANGED vars
  BY <1>11 DEF vars, IInv, TypeOK, InTime, Missed, Longest, Due, Parties
<1>12. QED
  BY <1>1, <1>2, <1>3, <1>4, <1>5, <1>6, <1>7, <1>8, <1>9, <1>10, <1>11 DEF Next

\* The inductive invariant holds of every delivery.
LEMMA InvHolds == Spec => []IInv
<1>1. QED
  BY InitInv, StepInv, PTL DEF Spec

\* The state is well typed, and in particular every delivery is over within the
\* sum of its timeouts, however many attempts it takes (deliverHerdr's loop).
THEOREM DeliveryTypes == Spec => []TypeOK
<1>1. IInv => TypeOK
  BY DEF IInv
<1>2. QED
  BY <1>1, InvHolds, PTL

\* The fallback from a named agent comes after blockedRetry and never to an agent
\* that was free for two attempts and a pause, whatever the durations.
THEOREM DeliveryFallback == Spec => []FallsBackForCause
<1>1. IInv => FallsBackForCause
  BY DEF IInv, Missed, FallsBackForCause
<1>2. QED
  BY <1>1, InvHolds, PTL

\* Every step of a delivery is one of Handover or a stutter.
LEMMA StepIsPromised == [Next]_vars => [Promise!Next]_(Promise!vars)
<1> SUFFICES ASSUME [Next]_vars PROVE [Promise!Next]_(Promise!vars)
  OBVIOUS
<1> USE DEF Promise!vars
<1>1. CASE Deliver
  BY <1>1 DEF Deliver, Promise!Next, Promise!HandOver
<1>2. CASE Tick
  BY <1>2 DEF Tick
<1>3. CASE PromptTaken
  <2>1. Promise!Answered("agent")
    BY <1>3 DEF PromptTaken, Promise!Answered
  <2>2. QED
    BY <2>1 DEF Promise!Next, Parties
<1>4. CASE PromptRefused
  BY <1>4 DEF PromptRefused, AttemptFailed
<1>5. CASE PromptKilled
  <2>1. Promise!Tell("agent") \/ UNCHANGED Promise!vars
    BY <1>5 DEF PromptKilled, AttemptFailed, Promise!Tell
  <2>2. QED
    BY <2>1 DEF Promise!Next, Parties
<1>6. CASE Retry
  BY <1>6 DEF Retry
<1>7. CASE ListAgents
  BY <1>7 DEF ListAgents
<1>8. CASE \E ok \in BOOLEAN : Desktop(ok)
  <2>1. PICK ok \in BOOLEAN : Desktop(ok)
    BY <1>8
  <2>2. CASE ok
    <3>1. Promise!Answered("person")
      BY <2>1, <2>2 DEF Desktop, Promise!Answered
    <3>2. QED
      BY <3>1 DEF Promise!Next, Parties
  <2>3. CASE ~ok
    <3>1. Promise!Fails
      BY <2>1, <2>3 DEF Desktop, Promise!Fails, Parties
    <3>2. QED
      BY <3>1 DEF Promise!Next
  <2>4. QED
    BY <2>2, <2>3
<1>9. CASE DesktopKilled
  <2>1. Promise!Fails
    BY <1>9 DEF DesktopKilled, Promise!Fails, Parties
  <2>2. QED
    BY <2>1 DEF Promise!Next
<1>10. CASE Exit
  BY <1>10 DEF Exit, Promise!Next, Promise!CutOff
<1>11. CASE UNCHANGED vars
  BY <1>11 DEF vars
<1>12. QED
  BY <1>1, <1>2, <1>3, <1>4, <1>5, <1>6, <1>7, <1>8, <1>9, <1>10, <1>11 DEF Next

\* Delivery implements Handover: an answer that names a channel means its party was
\* told, through every retry, kill at a timeout, fallback and end of the process.
THEOREM DeliveryImplements == Spec => Implements
<1>1. Init => Promise!Init
  BY DEF Init, Promise!Init
<1>2. QED
  BY <1>1, StepIsPromised, PTL DEF Spec, Implements, Promise!Spec
=============================================================================
