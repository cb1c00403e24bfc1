------------------------ MODULE ConnectorOutboxProofs ------------------------
(* Proofs about ConnectorOutbox, for every set of events and publishers    *)
(* and every number of attempts and faults.                                *)
EXTENDS ConnectorOutbox, TLAPS

(* An event in somebody's hands is claimed; only a lost answer of          *)
(* markProcessed leaves a publisher in its catch block with an event       *)
(* already processed.                                                      *)
HeldIsClaimed ==
  \A p \in Publisher, e \in Event :
    Holds(p, e) => \/ status[e] = "claimed"
                   \/ status[e] = "processed" /\ pub[p].pc = "catch" /\ faults > 0

StartedHasRun == \A p \in Publisher : pub[p].pc = "started" => pub[p].cur \in runs

NewIsUntried == \A e \in Event : status[e] = "absent" => attempts[e] = 0

RequestedIsStored == \A e \in requests : status[e] # "absent"

(* The inductive invariant. *)
IInv ==
  /\ TypeOK
  /\ OneHolder
  /\ HeldIsClaimed
  /\ StartedHasRun
  /\ ProcessedHasRun
  /\ NewIsUntried
  /\ RequestedIsStored
  /\ DeadOnlyWhenExhausted

LEMMA InitInvariant == Init => IInv
  BY MaxAttemptsAssumption, MaxFaultsAssumption
  DEF Init, IInv, TypeOK, OneHolder, HeldIsClaimed, StartedHasRun, ProcessedHasRun,
      NewIsUntried, RequestedIsStored, DeadOnlyWhenExhausted, Holds, Holding, Status, Publishing, Resting

(* What a publisher's record holds at each place. *)
LEMMA PublisherFields ==
  ASSUME NEW p \in Publisher, pub \in [Publisher -> Publishing]
  PROVE  /\ pub[p].pc = "loop" => pub[p].left \subseteq Event
         /\ pub[p].pc \in Holding => pub[p].left \subseteq Event /\ pub[p].cur \in Event
  BY DEF Publishing, Holding, Resting

(* A step that leaves every publisher, status and count alone. *)
LEMMA EngineInvariant ==
  ASSUME IInv, NEW e \in Event,
         BecomeDue(e) \/ EngineStarts(e) \/ EngineRefuses(e)
  PROVE  IInv'
  BY DEF IInv, TypeOK, OneHolder, HeldIsClaimed, StartedHasRun, ProcessedHasRun,
         NewIsUntried, RequestedIsStored, DeadOnlyWhenExhausted, Holds, BecomeDue, EngineStarts,
         EngineRefuses, table

LEMMA EnqueueInvariant ==
  ASSUME IInv, NEW e \in Event, Enqueue(e)
  PROVE  IInv'
  BY MaxAttemptsAssumption
  DEF IInv, TypeOK, OneHolder, HeldIsClaimed, StartedHasRun, ProcessedHasRun,
      NewIsUntried, RequestedIsStored, DeadOnlyWhenExhausted, Holds, Enqueue, Status

(* A step of p that only moves p on, keeping what it holds or letting go.  *)
LEMMA MoveInvariant ==
  ASSUME IInv, NEW p \in Publisher,
         List(p) \/ Return(p) \/ StartFlow(p) \/ FlowStarted(p) \/ FlowFails(p) \/ Crash(p)
  PROVE  IInv'
<1>1. /\ TypeOK /\ OneHolder /\ HeldIsClaimed /\ StartedHasRun
      /\ ProcessedHasRun /\ NewIsUntried /\ RequestedIsStored /\ DeadOnlyWhenExhausted
  BY DEF IInv
<1>2. UNCHANGED <<status, attempts, due, runs>> /\ faults' >= faults
  BY <1>1, MaxFaultsAssumption
  DEF List, Return, StartFlow, FlowStarted, FlowFails, Crash, table, TypeOK
<1>3. /\ pub' = [pub EXCEPT ![p] = pub'[p]]
      /\ pub'[p] \in Publishing
      /\ requests' \subseteq Event
      /\ faults' \in 0..MaxFaults
  <2>1. CASE List(p)
    BY <1>1, <2>1 DEF List, TypeOK, Ready, Publishing
  <2>2. CASE Return(p)
    BY <1>1, <2>2 DEF Return, TypeOK, Publishing
  <2>3. CASE StartFlow(p)
    BY <1>1, <2>3, PublisherFields DEF StartFlow, TypeOK, Publishing, Resting, Holding
  <2>4. CASE FlowStarted(p)
    BY <1>1, <2>4, PublisherFields DEF FlowStarted, TypeOK, Publishing, Resting, Holding
  <2>5. CASE FlowFails(p)
    BY <1>1, <2>5, PublisherFields DEF FlowFails, TypeOK, Publishing, Resting, Holding
  <2>6. CASE Crash(p)
    BY <1>1, <2>6, MaxFaultsAssumption DEF Crash, TypeOK, Publishing
  <2> QED
    BY <2>1, <2>2, <2>3, <2>4, <2>5, <2>6
<1>4. \A e \in Event : Holds(p, e)' => Holds(p, e) /\ pub[p].pc # "catch"
  BY <1>1 DEF List, Return, StartFlow, FlowStarted, FlowFails, Crash, Holds, Holding,
              TypeOK, Resting, Publishing
<1>5. pub'[p].pc = "started" => pub'[p].cur \in runs
  BY <1>1 DEF List, Return, StartFlow, FlowStarted, FlowFails, Crash, TypeOK, Resting, Publishing
<1>6. \A q \in Publisher \ {p} : pub'[q] = pub[q]
  BY <1>1, <1>3 DEF TypeOK
<1>7. TypeOK'
  BY <1>1, <1>2, <1>3 DEF TypeOK
<1>8. OneHolder'
  BY <1>1, <1>4, <1>6 DEF OneHolder, Holds
<1>9. HeldIsClaimed'
  BY <1>1, <1>2, <1>3, <1>4, <1>6, MaxFaultsAssumption DEF HeldIsClaimed, Holds, TypeOK
<1>10. StartedHasRun'
  BY <1>1, <1>2, <1>5, <1>6 DEF StartedHasRun
<1>11. (ProcessedHasRun /\ NewIsUntried /\ DeadOnlyWhenExhausted)'
  BY <1>1, <1>2 DEF ProcessedHasRun, NewIsUntried, DeadOnlyWhenExhausted
<1>12. requests' \subseteq requests \cup {e \in Event : status[e] = "claimed"}
  <2>1. ASSUME StartFlow(p)
        PROVE  pub[p].cur \in Event /\ status[pub[p].cur] = "claimed"
    BY <1>1, <2>1, PublisherFields DEF StartFlow, HeldIsClaimed, Holds, Holding, TypeOK
  <2> QED
    BY <2>1 DEF List, Return, StartFlow, FlowStarted, FlowFails, Crash
<1>13. RequestedIsStored'
  BY <1>1, <1>2, <1>12 DEF RequestedIsStored
<1> QED
  BY <1>7, <1>8, <1>9, <1>10, <1>11, <1>13 DEF IInv

(* Claiming an event: nobody holds it, because what is held is not ready.  *)
LEMMA ClaimInvariant ==
  ASSUME IInv, NEW p \in Publisher, NEW e \in Event, Claim(p, e)
  PROVE  IInv'
<1>1. /\ TypeOK /\ OneHolder /\ HeldIsClaimed /\ StartedHasRun
      /\ ProcessedHasRun /\ NewIsUntried /\ RequestedIsStored /\ DeadOnlyWhenExhausted
  BY DEF IInv
<1> DEFINE left == pub[p].left \ {e}
<1>2. pub[p].pc = "loop" /\ left \subseteq Event
  BY <1>1, PublisherFields DEF Claim, TypeOK
<1>3. CASE ~Claimable(e)
  <2>1. pub' = [pub EXCEPT ![p] = [pc |-> "loop", left |-> left]]
    BY <1>1, <1>2, <1>3 DEF Claim, TypeOK, Publishing, Resting, Holding
  <2>2. \A q \in Publisher, d \in Event : Holds(q, d)' => Holds(q, d) /\ pub'[q] = pub[q]
    BY <1>1, <2>1 DEF Holds, Holding, TypeOK
  <2>3. TypeOK'
    BY <1>1, <1>2, <1>3, <2>1 DEF Claim, TypeOK, Publishing
  <2>4. StartedHasRun'
    BY <1>1, <1>2, <2>1 DEF StartedHasRun, Claim, TypeOK
  <2> QED
    BY <1>1, <1>3, <2>2, <2>3, <2>4
    DEF IInv, Claim, OneHolder, HeldIsClaimed, ProcessedHasRun, NewIsUntried,
        RequestedIsStored, DeadOnlyWhenExhausted
<1>4. CASE Claimable(e)
  <2>1. /\ status' = [status EXCEPT ![e] = "claimed"]
        /\ attempts' = [attempts EXCEPT ![e] = @ + 1]
        /\ pub' = [pub EXCEPT ![p] = [pc |-> "claimed", left |-> left, cur |-> e]]
        /\ UNCHANGED <<due, requests, runs, faults>>
    BY <1>4 DEF Claim
  <2>2. status[e] \in {"pending", "failed"}
    BY <1>4 DEF Claimable, Ready
  <2>3. \A q \in Publisher : ~Holds(q, e)
    BY <1>1, <2>2 DEF HeldIsClaimed
  <2>4. \A q \in Publisher, d \in Event :
           Holds(q, d)' => \/ q = p /\ d = e
                           \/ q # p /\ d # e /\ Holds(q, d) /\ pub'[q] = pub[q]
    BY <1>1, <2>1, <2>3 DEF Holds, TypeOK
  <2>5. attempts[e] + 1 \in 0..MaxAttempts
    BY <1>1, <2>2, MaxAttemptsAssumption DEF TypeOK, DeadOnlyWhenExhausted
  <2>6. TypeOK'
    BY <1>1, <1>2, <2>1, <2>5 DEF TypeOK, Publishing, Holding, Status
  <2>7. OneHolder'
    BY <1>1, <2>4 DEF OneHolder
  <2>8. HeldIsClaimed'
    BY <1>1, <2>1, <2>4 DEF HeldIsClaimed, TypeOK
  <2>9. StartedHasRun'
    BY <1>1, <2>1 DEF StartedHasRun, TypeOK
  <2>10. (ProcessedHasRun /\ NewIsUntried /\ RequestedIsStored /\ DeadOnlyWhenExhausted)'
    BY <1>1, <2>1, <2>2 DEF ProcessedHasRun, NewIsUntried, RequestedIsStored, DeadOnlyWhenExhausted, TypeOK
  <2> QED
    BY <2>6, <2>7, <2>8, <2>9, <2>10 DEF IInv
<1> QED
  BY <1>3, <1>4

(* Recording a result: the event is the publisher's own, so no other       *)
(* publisher's claim is disturbed.                                         *)
LEMMA RecordInvariant ==
  ASSUME IInv, NEW p \in Publisher,
         MarkProcessed(p) \/ MarkProcessedThrows(p) \/ Catch(p)
  PROVE  IInv'
<1>1. /\ TypeOK /\ OneHolder /\ HeldIsClaimed /\ StartedHasRun
      /\ ProcessedHasRun /\ NewIsUntried /\ RequestedIsStored /\ DeadOnlyWhenExhausted
  BY DEF IInv
<1> DEFINE e == pub[p].cur
<1>2. pub[p].pc \in Holding /\ pub[p].left \subseteq Event /\ e \in Event
  BY <1>1, PublisherFields DEF MarkProcessed, MarkProcessedThrows, Catch, TypeOK, Holding
<1>3. /\ Holds(p, e)
      /\ status[e] \in {"claimed", "processed"}
      /\ \A q \in Publisher \ {p} : ~Holds(q, e)
  BY <1>1, <1>2 DEF Holds, HeldIsClaimed, OneHolder
<1>4. UNCHANGED <<attempts, requests, runs>>
  BY DEF MarkProcessed, MarkProcessedThrows, Catch
<1>5. \A d \in Event \ {e} : status'[d] = status[d]
  BY <1>1, <1>2 DEF MarkProcessed, MarkProcessedThrows, Catch, TypeOK
<1>6. \A q \in Publisher \ {p} : pub'[q] = pub[q]
  BY <1>1 DEF MarkProcessed, MarkProcessedThrows, Catch, TypeOK
<1>7. \A q \in Publisher \ {p}, d \in Event : Holds(q, d)' => d # e /\ Holds(q, d)
  BY <1>3, <1>6 DEF Holds
<1>8. CASE MarkProcessed(p)
  <2>1. /\ status' = [status EXCEPT ![e] = "processed"]
        /\ pub' = [pub EXCEPT ![p] = [pc |-> "loop", left |-> pub[p].left]]
        /\ UNCHANGED <<due, faults>> /\ e \in runs
    BY <1>1, <1>8 DEF MarkProcessed, StartedHasRun
  <2>2. TypeOK'
    BY <1>1, <1>2, <1>4, <2>1 DEF TypeOK, Publishing, Status
  <2>3. \A d \in Event : ~Holds(p, d)'
    BY <1>1, <2>1 DEF Holds, Holding, TypeOK
  <2>4. OneHolder' /\ HeldIsClaimed'
    BY <1>1, <1>5, <1>6, <1>7, <2>1, <2>3 DEF OneHolder, HeldIsClaimed
  <2>5. StartedHasRun'
    BY <1>1, <1>4, <1>6, <2>1 DEF StartedHasRun, TypeOK
  <2>6. (ProcessedHasRun /\ NewIsUntried /\ RequestedIsStored /\ DeadOnlyWhenExhausted)'
    BY <1>1, <1>2, <1>4, <2>1
    DEF ProcessedHasRun, NewIsUntried, RequestedIsStored, DeadOnlyWhenExhausted, TypeOK
  <2> QED
    BY <2>2, <2>4, <2>5, <2>6 DEF IInv
<1>9. CASE MarkProcessedThrows(p)
  <2> DEFINE caught == [pc |-> "catch", left |-> pub[p].left, cur |-> e]
  <2>a. pub[p] = [pc |-> "started", left |-> pub[p].left, cur |-> e]
    BY <1>1, <1>9 DEF MarkProcessedThrows, TypeOK, Publishing, Resting, Holding
  <2>b. [pub[p] EXCEPT !.pc = "catch"] = caught
    BY <2>a
  <2>c. pub' = [pub EXCEPT ![p] = [pub[p] EXCEPT !.pc = "catch"]]
    BY <1>9 DEF MarkProcessedThrows
  <2>1. /\ status' \in {status, [status EXCEPT ![e] = "processed"]}
        /\ pub' = [pub EXCEPT ![p] = caught]
        /\ UNCHANGED due /\ e \in runs
        /\ pub[p].pc = "started" /\ status[e] = "claimed"
    BY <1>1, <1>2, <1>3, <1>9, <2>b, <2>c
    DEF MarkProcessedThrows, StartedHasRun, HeldIsClaimed
  <2>2. faults' = faults + 1 /\ faults' \in 0..MaxFaults /\ faults' > 0
    BY <1>1, <1>9, MaxFaultsAssumption DEF MarkProcessedThrows, TypeOK
  <2>3. TypeOK'
    BY <1>1, <1>2, <1>4, <2>1, <2>2 DEF TypeOK, Publishing, Status, Holding
  <2>4. \A d \in Event : Holds(p, d)' => d = e
    BY <1>1, <2>1 DEF Holds, Holding, TypeOK
  <2>5. OneHolder'
    BY <1>1, <1>7, <2>4 DEF OneHolder
  <2>6. HeldIsClaimed'
    <3> SUFFICES ASSUME NEW q \in Publisher, NEW d \in Event, Holds(q, d)'
                 PROVE  (\/ status[d] = "claimed"
                         \/ status[d] = "processed" /\ pub[q].pc = "catch" /\ faults > 0)'
      BY DEF HeldIsClaimed
    <3>1. CASE q = p
      BY <1>1, <1>2, <2>1, <2>2, <2>4, <3>1 DEF TypeOK
    <3>2. CASE q # p
      BY <1>1, <1>5, <1>6, <1>7, <2>2, <3>2 DEF HeldIsClaimed
    <3> QED
      BY <3>1, <3>2
  <2>7. StartedHasRun'
    BY <1>1, <1>4, <1>6, <2>1 DEF StartedHasRun, TypeOK
  <2>8. (ProcessedHasRun /\ NewIsUntried /\ RequestedIsStored /\ DeadOnlyWhenExhausted)'
    BY <1>1, <1>2, <1>4, <2>1
    DEF ProcessedHasRun, NewIsUntried, RequestedIsStored, DeadOnlyWhenExhausted, TypeOK
  <2> QED
    BY <2>3, <2>5, <2>6, <2>7, <2>8 DEF IInv
<1>10. CASE Catch(p)
  <2>1. /\ pub' = [pub EXCEPT ![p] = [pc |-> "loop", left |-> pub[p].left]]
        /\ status' = [status EXCEPT ![e] = IF AttemptsUsed(e) THEN "dead" ELSE "failed"]
        /\ due' \subseteq due /\ UNCHANGED faults
    BY <1>10 DEF Catch
  <2>2. TypeOK'
    BY <1>1, <1>2, <1>4, <2>1 DEF TypeOK, Publishing, Status
  <2>3. \A d \in Event : ~Holds(p, d)'
    BY <1>1, <2>1 DEF Holds, Holding, TypeOK
  <2>4. OneHolder' /\ HeldIsClaimed'
    BY <1>1, <1>5, <1>6, <1>7, <2>1, <2>3 DEF OneHolder, HeldIsClaimed
  <2>5. StartedHasRun'
    BY <1>1, <1>4, <1>6, <2>1 DEF StartedHasRun, TypeOK
  <2>6. IF AttemptsUsed(e) THEN attempts[e] = MaxAttempts ELSE attempts[e] < MaxAttempts
    BY <1>1, <1>2, MaxAttemptsAssumption DEF AttemptsUsed, TypeOK
  <2>7. (ProcessedHasRun /\ NewIsUntried /\ RequestedIsStored /\ DeadOnlyWhenExhausted)'
    BY <1>1, <1>2, <1>4, <2>1, <2>6
    DEF ProcessedHasRun, NewIsUntried, RequestedIsStored, DeadOnlyWhenExhausted, TypeOK
  <2> QED
    BY <2>2, <2>4, <2>5, <2>7 DEF IInv
<1> QED
  BY <1>8, <1>9, <1>10

LEMMA NextInvariant == IInv /\ [Next]_vars => IInv'
<1> SUFFICES ASSUME IInv, [Next]_vars PROVE IInv'
  OBVIOUS
<1>1. CASE UNCHANGED vars
  BY <1>1 DEF vars, IInv, TypeOK, OneHolder, HeldIsClaimed, StartedHasRun,
              ProcessedHasRun, NewIsUntried, RequestedIsStored, DeadOnlyWhenExhausted, Holds
<1>2. ASSUME NEW e \in Event,
             Enqueue(e) \/ BecomeDue(e) \/ EngineStarts(e) \/ EngineRefuses(e)
      PROVE  IInv'
  BY <1>2, EnqueueInvariant, EngineInvariant
<1>3. ASSUME NEW p \in Publisher, Step(p) \/ MarkProcessedThrows(p) \/ Crash(p)
      PROVE  IInv'
  BY <1>3, MoveInvariant, ClaimInvariant, RecordInvariant DEF Step
<1> QED
  BY <1>1, <1>2, <1>3 DEF Next

(* Nothing the outbox, its publishers or the engine do, crashes and lost   *)
(* answers included, leaves the inductive invariant.                       *)
THEOREM OutboxInvariant == Spec => []IInv
<1> QED
  BY InitInvariant, NextInvariant, PTL DEF Spec

(* Every state of the outbox is well typed.                                *)
THEOREM OutboxTypeCorrect == Spec => []TypeOK
<1>1. IInv => TypeOK
  BY DEF IInv
<1> QED
  BY <1>1, OutboxInvariant, PTL

(* An event is never in the hands of two publishers (claim).               *)
THEOREM OneHolderInvariant == Spec => []OneHolder
<1>1. IInv => OneHolder
  BY DEF IInv
<1> QED
  BY <1>1, OutboxInvariant, PTL

(* What is recorded as processed has a run in the flow engine.             *)
THEOREM ProcessedHasRunInvariant == Spec => []ProcessedHasRun
<1>1. IInv => ProcessedHasRun
  BY DEF IInv
<1> QED
  BY <1>1, OutboxInvariant, PTL

(* An event is given up after exactly MaxAttempts tries.                   *)
THEOREM DeadOnlyWhenExhaustedInvariant == Spec => []DeadOnlyWhenExhausted
<1>1. IInv => DeadOnlyWhenExhausted
  BY DEF IInv
<1> QED
  BY <1>1, OutboxInvariant, PTL

-----------------------------------------------------------------------------
(* The outbox implements the safety part of DeliveryPromise.               *)

LEMMA OutcomeOfStatus ==
  ASSUME NEW e \in Event, status \in [Event -> Status]
  PROVE  /\ Outcome(e) = "none" <=> status[e] = "absent"
         /\ Outcome(e) = "done" <=> status[e] = "processed"
         /\ Outcome(e) = "given_up" <=> status[e] = "dead"
         /\ Outcome(e) = "waiting" <=> status[e] \in {"pending", "claimed", "failed"}
  BY DEF Outcome, Status

(* A step that changes the status of e alone changes its outcome alone.    *)
LEMMA OutcomeStep ==
  ASSUME status \in [Event -> Status], NEW e \in Event, NEW s \in Status,
         status' = [status EXCEPT ![e] = s]
  PROVE  [d \in Event |-> Outcome(d)]' =
           [[d \in Event |-> Outcome(d)] EXCEPT ![e] = Outcome(e)']
  BY DEF Outcome, Status

(* Until a fault strikes, a step of the outbox is one step of the promise, *)
(* or none.                                                                *)
LEMMA StepBeforeFault ==
  ASSUME IInv, Next, faults = 0, faults' = 0
  PROVE  [Promise!PromiseNext]_(Promise!pvars)
<1> DEFINE outcome == [d \in Event |-> Outcome(d)]
<1>1. /\ TypeOK /\ HeldIsClaimed /\ StartedHasRun /\ RequestedIsStored
      /\ status \in [Event -> Status] /\ UNCHANGED faults
  BY DEF IInv, TypeOK
<1>2. ASSUME UNCHANGED <<status, runs>> PROVE UNCHANGED Promise!pvars
  BY <1>2 DEF Promise!pvars, Outcome
<1>3. ASSUME NEW e \in Event, Enqueue(e) PROVE Promise!Accept(e)
  <2>1. outcome' = [outcome EXCEPT ![e] = Outcome(e)'] /\ Outcome(e)' = "waiting"
    BY <1>1, <1>3, OutcomeStep DEF Enqueue, Outcome, Status
  <2> QED
    BY <1>1, <1>3, <2>1, OutcomeOfStatus DEF Enqueue, Promise!Accept
<1>4. ASSUME NEW e \in Event, EngineStarts(e) PROVE Promise!Deliver(e)
  <2>1. outcome' = outcome
    BY <1>4 DEF EngineStarts, table, Outcome
  <2> QED
    BY <1>1, <1>4, <2>1, OutcomeOfStatus DEF EngineStarts, RequestedIsStored, Promise!Deliver
<1>5. ASSUME NEW p \in Publisher, NEW e \in Event, Claim(p, e)
      PROVE  UNCHANGED Promise!pvars
  <2>1. CASE Claimable(e)
    <3>1. status' = [status EXCEPT ![e] = "claimed"] /\ UNCHANGED runs
      BY <1>5, <2>1 DEF Claim
    <3>2. outcome' = [outcome EXCEPT ![e] = Outcome(e)'] /\ Outcome(e)' = Outcome(e)
      BY <1>1, <2>1, <3>1, OutcomeStep DEF Outcome, Status, Claimable, Ready
    <3> QED
      BY <3>1, <3>2 DEF Promise!pvars
  <2>2. CASE ~Claimable(e)
    BY <1>2, <1>5, <2>2 DEF Claim
  <2> QED
    BY <2>1, <2>2
<1>6. ASSUME NEW p \in Publisher, NEW e \in Event, e = pub[p].cur, MarkProcessed(p)
      PROVE  Promise!Succeed(e)
  <2>1. e \in runs /\ status[e] = "claimed"
    BY <1>1, <1>6, PublisherFields
    DEF MarkProcessed, HeldIsClaimed, StartedHasRun, Holds, Holding, TypeOK
  <2>2. outcome' = [outcome EXCEPT ![e] = Outcome(e)'] /\ Outcome(e)' = "done"
    BY <1>1, <1>6, <2>1, OutcomeStep DEF MarkProcessed, Outcome, Status
  <2> QED
    BY <1>1, <1>6, <2>1, <2>2, OutcomeOfStatus DEF MarkProcessed, Promise!Succeed
<1>7. ASSUME NEW p \in Publisher, NEW e \in Event, e = pub[p].cur, Catch(p)
      PROVE  Promise!GiveUp(e) \/ UNCHANGED Promise!pvars
  <2>1. status[e] = "claimed" /\ UNCHANGED runs
    BY <1>1, <1>7, PublisherFields DEF Catch, HeldIsClaimed, Holds, Holding, TypeOK
  <2>2. CASE AttemptsUsed(e)
    <3>1. status' = [status EXCEPT ![e] = "dead"]
      BY <1>7, <2>2 DEF Catch
    <3>2. outcome' = [outcome EXCEPT ![e] = Outcome(e)'] /\ Outcome(e)' = "given_up"
      BY <1>1, <2>1, <3>1, OutcomeStep DEF Outcome, Status
    <3> QED
      BY <1>1, <2>1, <3>2, OutcomeOfStatus DEF Promise!GiveUp
  <2>3. CASE ~AttemptsUsed(e)
    <3>1. status' = [status EXCEPT ![e] = "failed"]
      BY <1>7, <2>3 DEF Catch
    <3>2. outcome' = [outcome EXCEPT ![e] = Outcome(e)'] /\ Outcome(e)' = Outcome(e)
      BY <1>1, <2>1, <3>1, OutcomeStep DEF Outcome, Status
    <3> QED
      BY <2>1, <3>2 DEF Promise!pvars
  <2> QED
    BY <2>2, <2>3
<1>8. ASSUME NEW p \in Publisher, MarkProcessedThrows(p) PROVE FALSE
  BY <1>8 DEF MarkProcessedThrows
<1>9. \A e \in Event : BecomeDue(e) \/ EngineRefuses(e) => UNCHANGED <<status, runs>>
  BY DEF BecomeDue, EngineRefuses, table
<1>10. \A p \in Publisher :
         List(p) \/ Return(p) \/ StartFlow(p) \/ FlowStarted(p) \/ FlowFails(p) \/ Crash(p)
           => UNCHANGED <<status, runs>>
  BY DEF List, Return, StartFlow, FlowStarted, FlowFails, Crash, table
<1>11. ASSUME NEW e \in Event,
              Enqueue(e) \/ BecomeDue(e) \/ EngineStarts(e) \/ EngineRefuses(e)
       PROVE  [Promise!PromiseNext]_(Promise!pvars)
  BY <1>2, <1>3, <1>4, <1>9, <1>11 DEF Promise!PromiseNext
<1>12. ASSUME NEW p \in Publisher, Step(p) \/ MarkProcessedThrows(p) \/ Crash(p)
       PROVE  [Promise!PromiseNext]_(Promise!pvars)
  <2>1. \A q \in Publisher : q = p /\ (MarkProcessed(q) \/ Catch(q)) => pub[q].cur \in Event
    BY <1>1, PublisherFields DEF MarkProcessed, Catch, Holding, TypeOK
  <2> QED
    BY <1>2, <1>5, <1>6, <1>7, <1>8, <1>10, <1>12, <2>1 DEF Step, Promise!PromiseNext
<1> QED
  BY <1>11, <1>12 DEF Next

(* The step of the first fault, and every later one, lets the promise lapse. *)
LEMMA StepKeepsPromise ==
  ASSUME IInv, [Next]_vars
  PROVE  [Promise!PromiseNext]_(Promise!pvars)
<1>1. CASE UNCHANGED vars
  BY <1>1 DEF vars, Promise!pvars, Outcome
<1>2. CASE Next /\ faults' > 0
  <2>1. Promise!Lapse
    BY <1>2 DEF Promise!Lapse
  <2> QED
    BY <2>1 DEF Promise!PromiseNext
<1>3. CASE Next /\ ~(faults' > 0)
  <2>1. faults \in Nat /\ faults' \in Nat /\ faults <= faults'
    <3>1. faults \in Nat
      BY MaxFaultsAssumption DEF IInv, TypeOK
    <3>2. faults' \in {faults, faults + 1}
      BY <1>3 DEF Next, Enqueue, BecomeDue, EngineStarts, EngineRefuses, Step, List, Claim, Return, StartFlow,
            FlowStarted, FlowFails, MarkProcessed, Catch, MarkProcessedThrows, Crash
    <3> QED
      BY <3>1, <3>2
  <2> QED
    BY <1>3, <2>1, StepBeforeFault
<1> QED
  BY <1>1, <1>2, <1>3

(* Until a publisher crashes or an answer of the database is lost, the     *)
(* outbox takes only the steps DeliveryPromise allows: outcomes stand, and *)
(* "done" means there is a run, for any number of events, publishers and   *)
(* attempts (publishConnectorOutboxToPrismFlows).                          *)
THEOREM OutboxKeepsPromise == Spec => Promise!PromiseSafety
<1>1. Init => Promise!PromiseInit
  <2> SUFFICES ASSUME Init  PROVE Promise!PromiseInit
    OBVIOUS
  <2>1. (faults > 0) = FALSE
    BY DEF Init
  <2>2. [e \in Event |-> Outcome(e)] = [e \in Event |-> "none"]
    BY DEF Init, Outcome
  <2> QED
    BY <2>1, <2>2 DEF Init, Promise!PromiseInit
<1>2. IInv /\ [Next]_vars => [Promise!PromiseNext]_(Promise!pvars)
  BY StepKeepsPromise
<1> QED
  BY <1>1, <1>2, OutboxInvariant, PTL DEF Spec, Promise!PromiseSafety

=============================================================================
