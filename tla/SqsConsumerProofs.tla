-------------------------- MODULE SqsConsumerProofs --------------------------
(***************************************************************************)
(* SqsConsumer: types, no message is lost, and a group stays with one      *)
(* instance, for any number of messages, groups, instances, receives and   *)
(* failures.                                                               *)
(***************************************************************************)
EXTENDS SqsConsumer, FiniteSetTheorems, TLAPS

(* What a delivery has done when it reaches a step: NothingIsLost follows  *)
(* from the first conjunct below only because the acknowledgement comes    *)
(* after execute and the second call of toDlq after the first.             *)
EarnedStep(d) ==
  /\ step[d] \in {"execute", "ack", "backoff"} => d[1] \in Valid
  /\ step[d] = "ack" => d[1] \in inbox
  /\ step[d] \in {"dlqSend", "dlqDelete"} => reason[d] \in Reasons
  /\ step[d] = "dlqDelete" => <<d[1], reason[d]>> \in dlq

StepsInv == \A d \in Deliveries : EarnedStep(d)

Inv == TypeOK /\ StepsInv /\ NothingIsLost

LEMMA DeliveryFacts ==
  ASSUME NEW d \in Deliveries
  PROVE  /\ d[1] \in Messages /\ d[2] \in 1 .. RedriveLimit
         /\ d = <<d[1], d[2]>>
BY DEF Deliveries

-----------------------------------------------------------------------------
(* Deliveries                                                              *)

(* A delivery that ends, by itself or with an error, leaves the others be. *)
LEMMA LeavesKeeps ==
  ASSUME WorkTypeOK, StepsInv, NEW d \in Deliveries, step[d] \in Live,
         NEW rest \in SUBSET (poll[owner[d]] \ {d}), Leaves(d, rest),
         inbox \subseteq inbox', dlq \subseteq dlq', UNCHANGED <<received, mode>>
  PROVE  WorkTypeOK' /\ StepsInv'
<1>1. owner[d] \in Instances /\ poll[owner[d]] \in SUBSET Deliveries
  BY DEF WorkTypeOK
<1>2. step[d] # "none" BY DEF Live
<1>3. WorkTypeOK'
  <2>1. step' \in [Deliveries -> Steps] /\ owner' \in [Deliveries -> Instances \cup {Null}]
        /\ reason' \in [Deliveries -> Reasons \cup {"none"}]
        /\ poll' \in [Instances -> SUBSET Deliveries]
    BY <1>1 DEF WorkTypeOK, Leaves, Steps
  <2>2. ASSUME NEW e \in Deliveries
        PROVE  /\ step'[e] = "none" <=> e[2] > received'[e[1]]
               /\ step'[e] \in Live <=> owner'[e] # Null
               /\ owner'[e] # Null => mode'[owner'[e]] # "down"
    BY <1>2 DEF WorkTypeOK, Leaves, Live
  <2>3. ASSUME NEW i \in Instances, NEW e \in poll'[i] PROVE owner'[e] = i
    <3>1. e \in poll[i] /\ e # d
      BY <1>1, <2>3 DEF WorkTypeOK, Leaves
    <3> QED BY <3>1 DEF WorkTypeOK, Leaves
  <2> QED BY <2>1, <2>2, <2>3 DEF WorkTypeOK
<1>4. StepsInv'
  BY DEF WorkTypeOK, Leaves, StepsInv, EarnedStep
<1> QED BY <1>3, <1>4

LEMMA EndsKeeps ==
  ASSUME WorkTypeOK, StepsInv, NEW d \in Deliveries, step[d] \in Live,
         Ends(d) \/ Throws(d),
         inbox \subseteq inbox', dlq \subseteq dlq', UNCHANGED <<received, mode>>
  PROVE  WorkTypeOK' /\ StepsInv'
<1>1. PICK rest \in SUBSET (poll[owner[d]] \ {d}) : Leaves(d, rest)
  BY DEF Ends, Throws
<1> QED BY <1>1, LeavesKeeps

(* A delivery that goes on has earned the step it goes to.                 *)
LEMMA GoToKeeps ==
  ASSUME WorkTypeOK, StepsInv, NEW d \in Deliveries, step[d] \in Live,
         NEW next \in Live, GoTo(d, next),
         NEW why \in Reasons \cup {"none"}, reason' = [reason EXCEPT ![d] = why],
         next \in {"execute", "ack", "backoff"} => d[1] \in Valid,
         next = "ack" => d[1] \in inbox',
         next \in {"dlqSend", "dlqDelete"} => why \in Reasons,
         next = "dlqDelete" => <<d[1], why>> \in dlq',
         inbox \subseteq inbox', dlq \subseteq dlq', UNCHANGED <<received, mode>>
  PROVE  WorkTypeOK' /\ StepsInv'
<1>1. step[d] # "none" /\ next # "none" BY DEF Live
<1>2. WorkTypeOK'
  BY <1>1 DEF WorkTypeOK, GoTo, Steps
<1>3. StepsInv'
  BY DEF WorkTypeOK, GoTo, StepsInv, EarnedStep
<1> QED BY <1>2, <1>3

(* The process dies with all its deliveries.                               *)
LEMMA DiesKeeps ==
  ASSUME WorkTypeOK, StepsInv, NEW i \in Instances, Dies(i),
         UNCHANGED <<received, dlq, inbox>>
  PROVE  WorkTypeOK' /\ StepsInv'
<1>1. Null # i BY ConsumerAssumption
<1>2. \A d \in Own(i) : d \in Deliveries /\ step[d] \in Live
  BY <1>1 DEF Own, WorkTypeOK
<1>3. WorkTypeOK'
  <2>1. step' \in [Deliveries -> Steps] /\ owner' \in [Deliveries -> Instances \cup {Null}]
        /\ reason' \in [Deliveries -> Reasons \cup {"none"}]
        /\ mode' \in [Instances -> {"running", "draining", "stopped", "down"}]
        /\ poll' \in [Instances -> SUBSET Deliveries]
    BY DEF WorkTypeOK, Dies, Steps
  <2>2. ASSUME NEW e \in Deliveries
        PROVE  /\ step'[e] = "none" <=> e[2] > received'[e[1]]
               /\ step'[e] \in Live <=> owner'[e] # Null
               /\ owner'[e] # Null => mode'[owner'[e]] # "down"
    <3>1. CASE e \in Own(i)
      BY <1>2, <3>1 DEF WorkTypeOK, Dies, Live
    <3>2. CASE e \notin Own(i)
      BY <3>2 DEF WorkTypeOK, Dies, Own
    <3> QED BY <3>1, <3>2
  <2>3. ASSUME NEW j \in Instances, NEW e \in poll'[j] PROVE owner'[e] = j
    <3>1. j # i /\ e \in poll[j] /\ e \in Deliveries
      BY <2>3 DEF WorkTypeOK, Dies
    <3> QED BY <3>1 DEF WorkTypeOK, Dies, Own
  <2> QED BY <2>1, <2>2, <2>3 DEF WorkTypeOK
<1>4. StepsInv'
  BY DEF WorkTypeOK, Dies, StepsInv, EarnedStep
<1> QED BY <1>3, <1>4

-----------------------------------------------------------------------------
(* Receives                                                                *)

LEMMA BatchFacts ==
  ASSUME QueueTypeOK, WorkTypeOK, NEW S \in Batches, Hide(S)
  PROVE  /\ received' \in [Messages -> 0 .. RedriveLimit]
         /\ visible' \in [Messages -> BOOLEAN]
         /\ \A d \in Received(S) : /\ d \in Deliveries /\ d[1] \in S
                                   /\ step[d] = "none" /\ owner[d] = Null
                                   /\ ~(d[2] > received'[d[1]])
         /\ \A d \in Deliveries \ Received(S) :
              d[2] > received'[d[1]] <=> d[2] > received[d[1]]
<1>1. S \subseteq Messages /\ \A m \in S : received[m] < RedriveLimit
  BY DEF Batches, Waiting
<1>2. RedriveLimit \in Nat BY ConsumerAssumption
<1>3. \A m \in Messages : received[m] \in 0 .. RedriveLimit
  BY DEF QueueTypeOK
<1>4. received' \in [Messages -> 0 .. RedriveLimit]
  BY <1>1, <1>2, <1>3 DEF Hide
<1>5. visible' \in [Messages -> BOOLEAN]
  BY DEF Hide
<1>6. ASSUME NEW d \in Received(S)
      PROVE  /\ d \in Deliveries /\ d[1] \in S
             /\ step[d] = "none" /\ owner[d] = Null
             /\ ~(d[2] > received'[d[1]])
  <2>1. PICK m \in S : d = <<m, received[m] + 1>> BY DEF Received
  <2>2. d \in Deliveries /\ d[1] = m /\ d[2] = received[m] + 1
    BY <1>1, <1>2, <1>3, <2>1 DEF Deliveries
  <2>3. step[d] = "none"
    BY <1>1, <1>3, <2>2 DEF WorkTypeOK
  <2>4. owner[d] = Null
    BY <2>2, <2>3 DEF WorkTypeOK, Live
  <2>5. received'[m] = received[m] + 1
    BY <1>1 DEF Hide
  <2> QED BY <1>1, <1>3, <2>2, <2>3, <2>4, <2>5
<1>7. ASSUME NEW d \in Deliveries, d \notin Received(S)
      PROVE  d[2] > received'[d[1]] <=> d[2] > received[d[1]]
  <2>1. d[1] \in Messages /\ d[2] \in 1 .. RedriveLimit /\ d = <<d[1], d[2]>>
    BY DeliveryFacts
  <2>2. CASE d[1] \in S
    <3>1. d[2] # received[d[1]] + 1 BY <1>7, <2>1, <2>2 DEF Received
    <3>2. received'[d[1]] = received[d[1]] + 1 BY <2>1, <2>2 DEF Hide
    <3> QED BY <1>2, <1>3, <2>1, <3>1, <3>2
  <2>3. CASE d[1] \notin S
    BY <2>1, <2>3 DEF Hide
  <2> QED BY <2>2, <2>3
<1> QED BY <1>4, <1>5, <1>6, <1>7

LEMMA ReceiveKeeps ==
  ASSUME QueueTypeOK, WorkTypeOK, StepsInv, NEW i \in Instances, Receive(i)
  PROVE  QueueTypeOK' /\ WorkTypeOK' /\ StepsInv'
<1>1. PICK S \in Batches :
        /\ Hide(S)
        /\ poll'   = [poll EXCEPT ![i] = Received(S)]
        /\ step'   = [d \in Deliveries |->
                        IF d \in Received(S) THEN FirstStep(d[1]) ELSE step[d]]
        /\ owner'  = [d \in Deliveries |-> IF d \in Received(S) THEN i ELSE owner[d]]
        /\ reason' = [d \in Deliveries |->
                        IF d \in Received(S) /\ d[1] \notin Valid
                        THEN "invalid_payload" ELSE reason[d]]
  BY DEF Receive
<1>2. UNCHANGED <<gone, dlq, inbox, mode, troubled, failures>> /\ mode[i] = "running"
  BY DEF Receive, faultVars
<1>3. i # Null BY ConsumerAssumption
<1>4. /\ \A d \in Received(S) : /\ d \in Deliveries /\ d[1] \in S
                                /\ step[d] = "none" /\ owner[d] = Null
                                /\ ~(d[2] > received'[d[1]])
      /\ \A d \in Deliveries \ Received(S) :
           d[2] > received'[d[1]] <=> d[2] > received[d[1]]
      /\ received' \in [Messages -> 0 .. RedriveLimit]
      /\ visible' \in [Messages -> BOOLEAN]
  BY <1>1, BatchFacts
<1>5. QueueTypeOK' BY <1>2, <1>4 DEF QueueTypeOK
<1>6. \A d \in Deliveries : FirstStep(d[1]) \in Live
  BY DEF FirstStep, Live
<1>7. WorkTypeOK'
  <2>1. step' \in [Deliveries -> Steps] /\ owner' \in [Deliveries -> Instances \cup {Null}]
        /\ reason' \in [Deliveries -> Reasons \cup {"none"}]
    BY <1>1, <1>6 DEF WorkTypeOK, Steps, Reasons
  <2>2. poll' \in [Instances -> SUBSET Deliveries]
    BY <1>1, <1>4 DEF WorkTypeOK
  <2>3. ASSUME NEW e \in Deliveries
        PROVE  /\ step'[e] = "none" <=> e[2] > received'[e[1]]
               /\ step'[e] \in Live <=> owner'[e] # Null
               /\ owner'[e] # Null => mode'[owner'[e]] # "down"
    <3>1. CASE e \in Received(S)
      <4>1. step'[e] \in Live /\ owner'[e] = i BY <1>1, <1>6, <3>1
      <4>2. step'[e] # "none" BY <4>1 DEF Live
      <4> QED BY <1>2, <1>3, <1>4, <3>1, <4>1, <4>2
    <3>2. CASE e \notin Received(S)
      BY <1>1, <1>2, <1>4, <3>2 DEF WorkTypeOK
    <3> QED BY <3>1, <3>2
  <2>4. ASSUME NEW j \in Instances, NEW e \in poll'[j] PROVE owner'[e] = j
    <3>1. e \in Deliveries BY <2>2, <2>4
    <3>2. CASE j = i
      BY <1>1, <2>4, <3>1, <3>2 DEF WorkTypeOK
    <3>3. CASE j # i
      <4>1. e \in poll[j] /\ owner[e] = j BY <1>1, <2>4, <3>3 DEF WorkTypeOK
      <4>2. e \notin Received(S) BY <1>4, <4>1, ConsumerAssumption
      <4> QED BY <1>1, <3>1, <4>1, <4>2
    <3> QED BY <3>2, <3>3
  <2> QED BY <1>2, <2>1, <2>2, <2>3, <2>4 DEF WorkTypeOK
<1>8. StepsInv'
  BY <1>1, <1>2, <1>4 DEF StepsInv, EarnedStep, FirstStep, Reasons
<1> QED BY <1>5, <1>7, <1>8

LEMMA FailFacts ==
  ASSUME QueueTypeOK, NEW M \in SUBSET Messages, Fail(M)
  PROVE  failures' \in 0 .. MaxFailures /\ troubled' \subseteq Messages
BY ConsumerAssumption DEF Fail, QueueTypeOK

LEMMA LoseBatchKeeps ==
  ASSUME QueueTypeOK, WorkTypeOK, StepsInv, NEW i \in Instances, LoseBatch(i),
         mode' \in [Instances -> {"running", "draining", "stopped", "down"}],
         \A j \in Instances : mode'[j] = "down" => mode[j] = "down"
  PROVE  QueueTypeOK' /\ WorkTypeOK' /\ StepsInv'
<1>1. PICK S \in Batches :
        /\ Hide(S) /\ Fail(S)
        /\ step' = [d \in Deliveries |-> IF d \in Received(S) THEN "ended" ELSE step[d]]
  BY DEF LoseBatch
<1>2. UNCHANGED <<gone, dlq, inbox, owner, reason, poll>>
  BY DEF LoseBatch
<1>3. /\ \A d \in Received(S) : /\ d \in Deliveries /\ d[1] \in S
                                /\ step[d] = "none" /\ owner[d] = Null
                                /\ ~(d[2] > received'[d[1]])
      /\ \A d \in Deliveries \ Received(S) :
           d[2] > received'[d[1]] <=> d[2] > received[d[1]]
      /\ received' \in [Messages -> 0 .. RedriveLimit]
      /\ visible' \in [Messages -> BOOLEAN]
  BY <1>1, BatchFacts
<1>4. QueueTypeOK'
  <2>1. S \in SUBSET Messages BY DEF Batches, Waiting
  <2> QED BY <1>1, <1>2, <1>3, <2>1, FailFacts DEF QueueTypeOK
<1>5. WorkTypeOK'
  <2>1. step' \in [Deliveries -> Steps] BY <1>1 DEF WorkTypeOK, Steps
  <2>2. ASSUME NEW e \in Deliveries
        PROVE  /\ step'[e] = "none" <=> e[2] > received'[e[1]]
               /\ step'[e] \in Live <=> owner'[e] # Null
               /\ owner'[e] # Null => mode'[owner'[e]] # "down"
    <3>1. CASE e \in Received(S)
      BY <1>1, <1>2, <1>3, <3>1 DEF Live
    <3>2. CASE e \notin Received(S)
      BY <1>1, <1>2, <1>3, <3>2 DEF WorkTypeOK
    <3> QED BY <3>1, <3>2
  <2> QED BY <1>2, <2>1, <2>2 DEF WorkTypeOK
<1>6. StepsInv'
  BY <1>1, <1>2, <1>3 DEF StepsInv, EarnedStep
<1> QED BY <1>4, <1>5, <1>6

-----------------------------------------------------------------------------
(* Calls                                                                   *)

LEMMA CallFailsFacts ==
  ASSUME QueueTypeOK, NEW d \in Deliveries, CallFails(d)
  PROVE  Throws(d) /\ failures' \in 0 .. MaxFailures /\ troubled' \subseteq Messages
<1>1. {d[1]} \in SUBSET Messages BY DeliveryFacts
<1>2. CASE Fail({d[1]}) BY <1>1, <1>2, FailFacts DEF CallFails
<1>3. CASE Destroyed(d) BY <1>1, <1>3 DEF CallFails, Destroyed, QueueTypeOK
<1> QED BY <1>2, <1>3 DEF CallFails

(* A DeleteMessage deletes this message or nothing, and the delivery ends. *)
LEMMA DeleteFacts ==
  ASSUME QueueTypeOK, NEW d \in Deliveries, DeleteMessage(d)
  PROVE  /\ gone' \in {gone, gone \cup {d[1]}}
         /\ Ends(d) \/ Throws(d)
         /\ failures' \in 0 .. MaxFailures /\ troubled' \subseteq Messages
<1>1. CASE gone' = gone \cup {d[1]} /\ Ends(d) /\ UNCHANGED faultVars
  BY <1>1 DEF faultVars, QueueTypeOK
<1>2. CASE (Ends(d) \/ Throws(d)) /\ UNCHANGED <<gone, faultVars>>
  BY <1>2 DEF faultVars, QueueTypeOK
<1>3. CASE gone' \in {gone, gone \cup {d[1]}} /\ CallFails(d)
  BY <1>3, CallFailsFacts
<1> QED BY <1>1, <1>2, <1>3 DEF DeleteMessage

LEMMA WorkKeeps ==
  ASSUME Inv, NEW d \in Deliveries, Work(d)
  PROVE  Inv'
<1> USE DEF Inv, TypeOK
<1>1. d[1] \in Messages BY DeliveryFacts
<1>2. ASSUME ExecuteSucceeds(d) PROVE Inv'
  <2>1. d[1] \in Valid /\ reason' = [reason EXCEPT ![d] = reason[d]]
        /\ reason[d] \in Reasons \cup {"none"} /\ step[d] \in Live
    BY <1>2 DEF ExecuteSucceeds, StepsInv, EarnedStep, WorkTypeOK, Live
  <2>2. QueueTypeOK'
    BY <1>2, <2>1 DEF ExecuteSucceeds, queueVars, faultVars, QueueTypeOK
  <2>3. WorkTypeOK' /\ StepsInv'
    <3>1. GoTo(d, "ack") /\ inbox' = inbox \cup {d[1]} /\ UNCHANGED <<received, dlq, mode>>
      BY <1>2 DEF ExecuteSucceeds, queueVars
    <3> QED BY <2>1, <3>1, GoToKeeps DEF Live
  <2>4. NothingIsLost'
    BY <1>2 DEF ExecuteSucceeds, queueVars, NothingIsLost
  <2> QED BY <2>2, <2>3, <2>4
<1>3. ASSUME ExecuteRefuses(d) PROVE Inv'
  <2>1. QueueTypeOK' /\ NothingIsLost'
    BY <1>3 DEF ExecuteRefuses, queueVars, faultVars, QueueTypeOK, NothingIsLost
  <2>2. WorkTypeOK' /\ StepsInv'
    <3>1. /\ GoTo(d, "dlqSend") /\ reason' = [reason EXCEPT ![d] = "permanent_failure"]
          /\ UNCHANGED <<received, dlq, inbox, mode>> /\ step[d] \in Live
      BY <1>3 DEF ExecuteRefuses, ToDlq, queueVars, Live
    <3> QED BY <3>1, GoToKeeps DEF Live, Reasons
  <2> QED BY <2>1, <2>2
<1>4. ASSUME ExecuteFails(d) PROVE Inv'
  <2>1. /\ inbox' \in {inbox, inbox \cup {d[1]}} /\ d[1] \in Valid /\ step[d] \in Live
        /\ failures' \in 0 .. MaxFailures /\ troubled' \subseteq Messages
        /\ UNCHANGED <<gone, visible, received, dlq, mode>> /\ Transient(d)
    <3>1. \/ UNCHANGED <<inbox, faultVars>>
          \/ inbox' = inbox \cup {d[1]} /\ Fail({d[1]})
      BY <1>4 DEF ExecuteFails
    <3>2. failures' \in 0 .. MaxFailures /\ troubled' \subseteq Messages
      BY <1>1, <3>1, FailFacts DEF faultVars, QueueTypeOK
    <3>3. d[1] \in Valid /\ step[d] \in Live
      BY <1>4 DEF ExecuteFails, StepsInv, EarnedStep, Live
    <3> QED BY <1>4, <3>1, <3>2, <3>3 DEF ExecuteFails, queueVars
  <2>2. QueueTypeOK' /\ NothingIsLost'
    BY <2>1 DEF QueueTypeOK, NothingIsLost
  <2>3. WorkTypeOK' /\ StepsInv'
    <3>1. CASE ToDlq(d, "max_retries_exceeded")
      BY <2>1, <3>1, GoToKeeps DEF ToDlq, Live, Reasons
    <3>2. CASE GoTo(d, "backoff") /\ UNCHANGED reason
      <4>1. reason' = [reason EXCEPT ![d] = reason[d]] /\ reason[d] \in Reasons \cup {"none"}
        BY <3>2 DEF WorkTypeOK
      <4> QED BY <2>1, <3>2, <4>1, GoToKeeps DEF Live
    <3> QED BY <2>1, <3>1, <3>2 DEF Transient
  <2> QED BY <2>2, <2>3
<1>5. ASSUME Acknowledge(d) \/ DlqDelete(d) PROVE Inv'
  <2>1. /\ DeleteMessage(d) /\ step[d] \in {"ack", "dlqDelete"} /\ step[d] \in Live
        /\ UNCHANGED <<visible, received, dlq, inbox, mode>>
    BY <1>5 DEF Acknowledge, DlqDelete, Live
  <2>2. /\ gone' \in {gone, gone \cup {d[1]}}
        /\ Ends(d) \/ Throws(d)
        /\ failures' \in 0 .. MaxFailures /\ troubled' \subseteq Messages
    BY <2>1, DeleteFacts
  <2>3. QueueTypeOK' BY <1>1, <2>1, <2>2 DEF QueueTypeOK
  <2>4. WorkTypeOK' /\ StepsInv' BY <2>1, <2>2, EndsKeeps
  <2>5. NothingIsLost'
    <3>1. d[1] \in inbox \/ \E r \in Reasons : <<d[1], r>> \in dlq
      BY <2>1 DEF StepsInv, EarnedStep
    <3> QED BY <2>1, <2>2, <3>1 DEF NothingIsLost
  <2> QED BY <2>3, <2>4, <2>5
<1>6. ASSUME Backoff(d) PROVE Inv'
  <2>1. /\ Ends(d) \/ Throws(d)
        /\ failures' \in 0 .. MaxFailures /\ troubled' \subseteq Messages
        /\ step[d] \in Live /\ UNCHANGED <<gone, visible, received, dlq, inbox, mode>>
    BY <1>6, CallFailsFacts DEF Backoff, faultVars, queueVars, QueueTypeOK, Live
  <2>2. QueueTypeOK' /\ NothingIsLost' BY <2>1 DEF QueueTypeOK, NothingIsLost
  <2>3. WorkTypeOK' /\ StepsInv' BY <2>1, EndsKeeps
  <2> QED BY <2>2, <2>3
<1>7. ASSUME DlqSend(d) PROVE Inv'
  <2>1. /\ reason[d] \in Reasons /\ step[d] \in Live
        /\ UNCHANGED <<gone, visible, received, inbox, mode>>
    BY <1>7 DEF DlqSend, StepsInv, EarnedStep, Live
  <2>5. ASSUME dlq' \in {dlq, dlq \cup {<<d[1], reason[d]>>}},
               failures' \in 0 .. MaxFailures, troubled' \subseteq Messages
        PROVE  QueueTypeOK' /\ NothingIsLost'
    <3>1. <<d[1], reason[d]>> \in Messages \X Reasons BY <1>1, <2>1
    <3>2. dlq' \subseteq Messages \X Reasons /\ dlq \subseteq dlq'
      BY <2>5, <3>1 DEF QueueTypeOK
    <3>3. QueueTypeOK' BY <2>1, <2>5, <3>2 DEF QueueTypeOK
    <3>4. NothingIsLost'
      <4>1. gone' = gone /\ inbox' = inbox BY <2>1
      <4>2. \A m, r : <<m, r>> \in dlq => <<m, r>> \in dlq' BY <3>2
      <4> QED BY <4>1, <4>2 DEF NothingIsLost
    <3> QED BY <3>3, <3>4
  <2>2. CASE /\ dlq' = dlq \cup {<<d[1], reason[d]>>}
             /\ GoTo(d, "dlqDelete") /\ UNCHANGED <<reason, faultVars>>
    <3>1. QueueTypeOK' /\ NothingIsLost'
      BY <2>2, <2>5 DEF QueueTypeOK, faultVars
    <3>2. reason' = [reason EXCEPT ![d] = reason[d]] BY <2>2 DEF WorkTypeOK
    <3>3. WorkTypeOK' /\ StepsInv' BY <2>1, <2>2, <3>2, GoToKeeps DEF Live
    <3> QED BY <3>1, <3>3
  <2>3. CASE dlq' \in {dlq, dlq \cup {<<d[1], reason[d]>>}} /\ CallFails(d)
    <3>1. Throws(d) /\ failures' \in 0 .. MaxFailures /\ troubled' \subseteq Messages
      BY <2>3, CallFailsFacts
    <3>2. QueueTypeOK' /\ NothingIsLost'
      BY <2>3, <2>5, <3>1
    <3>3. WorkTypeOK' /\ StepsInv' BY <2>1, <2>3, <3>1, EndsKeeps
    <3> QED BY <3>2, <3>3
  <2> QED BY <1>7, <2>2, <2>3 DEF DlqSend
<1> QED BY <1>2, <1>3, <1>4, <1>5, <1>6, <1>7 DEF Work

-----------------------------------------------------------------------------
(* Time and instances                                                      *)

LEMMA QueueKeeps ==
  ASSUME Inv, NEW m \in Messages, VisibilityEnds(m) \/ HeartbeatFails(m) \/ Redrive(m)
  PROVE  Inv'
<1> USE DEF Inv, TypeOK
<1>1. UNCHANGED <<received, inbox, deliveryVars, instanceVars>> /\ dlq \subseteq dlq'
  BY DEF VisibilityEnds, HeartbeatFails, Redrive
<1>2. WorkTypeOK' /\ StepsInv'
  BY <1>1 DEF deliveryVars, instanceVars, WorkTypeOK, StepsInv, EarnedStep
<1>3. CASE VisibilityEnds(m)
  BY <1>2, <1>3 DEF VisibilityEnds, QueueTypeOK, NothingIsLost
<1>4. CASE HeartbeatFails(m)
  <2>1. failures' \in 0 .. MaxFailures /\ troubled' \subseteq Messages
    BY <1>4, FailFacts DEF HeartbeatFails
  <2> QED BY <1>2, <1>4, <2>1 DEF HeartbeatFails, QueueTypeOK, NothingIsLost
<1>5. CASE Redrive(m)
  <2>1. "redrive" \in Reasons BY DEF Reasons
  <2>2. QueueTypeOK'
    BY <1>5, <2>1 DEF Redrive, faultVars, QueueTypeOK
  <2>3. ASSUME NEW x \in gone'
        PROVE  x \in inbox' \/ \E r \in Reasons : <<x, r>> \in dlq'
    <3>1. CASE x = m BY <1>5, <2>1, <3>1 DEF Redrive
    <3>2. CASE x # m
      <4>1. x \in inbox \/ \E r \in Reasons : <<x, r>> \in dlq
        BY <1>5, <2>3, <3>2 DEF Redrive, NothingIsLost
      <4> QED BY <1>1, <4>1
    <3> QED BY <3>1, <3>2
  <2>4. NothingIsLost' BY <2>3 DEF NothingIsLost
  <2> QED BY <1>2, <2>2, <2>4
<1> QED BY <1>3, <1>4, <1>5

LEMMA InstanceKeeps ==
  ASSUME Inv, NEW i \in Instances,
         \/ Receive(i) \/ ReceiveLost(i)
         \/ Crash(i) \/ Shutdown(i) \/ Coordinate(i)
  PROVE  Inv'
<1> USE DEF Inv, TypeOK
<1>1. UNCHANGED <<gone, dlq, inbox>>
  BY DEF Receive, ReceiveLost, LoseBatch, Crash, Shutdown, Coordinate, Drained,
         DrainTimeout, Exit, Restart, queueVars
<1>2. NothingIsLost' BY <1>1 DEF NothingIsLost
<1>3. Own(i) \subseteq Deliveries /\ {d[1] : d \in Own(i)} \subseteq Messages
  BY DeliveryFacts DEF Own
<1>4. CASE Receive(i) BY <1>2, <1>4, ReceiveKeeps
<1>5. CASE ReceiveLost(i)
  BY <1>2, <1>5, LoseBatchKeeps DEF ReceiveLost, WorkTypeOK
<1>6. CASE Crash(i)
  <2>1. failures' \in 0 .. MaxFailures /\ troubled' \subseteq Messages
    BY <1>3, <1>6, FailFacts DEF Crash
  <2>2. QueueTypeOK' BY <1>6, <2>1 DEF Crash, queueVars, QueueTypeOK
  <2>3. WorkTypeOK' /\ StepsInv' BY <1>6, DiesKeeps DEF Crash, queueVars
  <2> QED BY <1>2, <2>2, <2>3
<1>7. ASSUME mode[i] # "down",
             mode' \in {[mode EXCEPT ![i] = to] : to \in {"draining", "stopped"}},
             UNCHANGED <<received, deliveryVars, poll>>
      PROVE  WorkTypeOK' /\ StepsInv'
  BY <1>1, <1>7 DEF deliveryVars, WorkTypeOK, StepsInv, EarnedStep
<1>8. CASE Shutdown(i)
  <2>1. CASE LoseBatch(i)
    BY <1>2, <1>8, <2>1, LoseBatchKeeps DEF Shutdown, WorkTypeOK
  <2>2. CASE Fail({}) /\ UNCHANGED <<queueVars, inbox, deliveryVars, poll>>
    <3>1. failures' \in 0 .. MaxFailures /\ troubled' \subseteq Messages
      BY <2>2, FailFacts
    <3>2. QueueTypeOK' BY <2>2, <3>1 DEF queueVars, QueueTypeOK
    <3>3. WorkTypeOK' /\ StepsInv' BY <1>7, <1>8, <2>2 DEF Shutdown, queueVars
    <3> QED BY <1>2, <3>2, <3>3
  <2> QED BY <1>8, <2>1, <2>2 DEF Shutdown
<1>9. CASE Drained(i)
  <2>1. QueueTypeOK' BY <1>9 DEF Drained, queueVars, faultVars, QueueTypeOK
  <2>2. WorkTypeOK' /\ StepsInv' BY <1>7, <1>9 DEF Drained, queueVars
  <2> QED BY <1>2, <2>1, <2>2
<1>10. CASE DrainTimeout(i)
  <2>1. visible' \in [Messages -> BOOLEAN] BY <1>10 DEF DrainTimeout
  <2>2. {d[1] : d \in InFlight(i)} \subseteq Messages BY <1>3 DEF InFlight
  <2>3. QueueTypeOK' BY <1>10, <2>1, <2>2 DEF DrainTimeout, QueueTypeOK
  <2>4. WorkTypeOK' /\ StepsInv' BY <1>7, <1>10 DEF DrainTimeout
  <2> QED BY <1>2, <2>3, <2>4
<1>11. CASE Exit(i)
  <2>1. QueueTypeOK' BY <1>3, <1>11 DEF Exit, queueVars, QueueTypeOK
  <2>2. WorkTypeOK' /\ StepsInv' BY <1>11, DiesKeeps DEF Exit, queueVars
  <2> QED BY <1>2, <2>1, <2>2
<1>12. CASE Restart(i)
  <2>1. QueueTypeOK' BY <1>12 DEF Restart, queueVars, faultVars, QueueTypeOK
  <2>2. WorkTypeOK' /\ StepsInv'
    BY <1>12 DEF Restart, queueVars, deliveryVars, WorkTypeOK, StepsInv, EarnedStep
  <2> QED BY <1>2, <2>1, <2>2
<1> QED BY <1>4, <1>5, <1>6, <1>8, <1>9, <1>10, <1>11, <1>12 DEF Coordinate

-----------------------------------------------------------------------------

LEMMA ConsumerInvariant == Spec => []Inv
<1>1. Init => Inv
  BY ConsumerAssumption
  DEF Init, Inv, TypeOK, QueueTypeOK, WorkTypeOK, Steps, Live, StepsInv, EarnedStep,
      NothingIsLost, Deliveries
<1>2. Inv /\ [Next]_vars => Inv'
  <2> SUFFICES ASSUME Inv, [Next]_vars PROVE Inv'
    OBVIOUS
  <2>1. CASE UNCHANGED vars
    BY <2>1
    DEF Inv, TypeOK, QueueTypeOK, WorkTypeOK, StepsInv, EarnedStep, NothingIsLost,
        vars, queueVars, deliveryVars, instanceVars, faultVars
  <2>2. ASSUME NEW d \in Deliveries, Work(d) PROVE Inv'
    BY <2>2, WorkKeeps
  <2>3. ASSUME NEW i \in Instances,
               \/ Receive(i) \/ ReceiveLost(i)
               \/ Crash(i) \/ Shutdown(i) \/ Coordinate(i)
        PROVE  Inv'
    BY <2>3, InstanceKeeps
  <2>4. ASSUME NEW m \in Messages, VisibilityEnds(m) \/ HeartbeatFails(m) \/ Redrive(m)
        PROVE  Inv'
    BY <2>4, QueueKeeps
  <2> QED BY <2>1, <2>2, <2>3, <2>4 DEF Next
<1> QED BY <1>1, <1>2, PTL DEF Spec

(* Types hold, and only an instance that is up works on a delivery, in     *)
(* every state of pollOnce, consume and shutdown.                          *)
THEOREM ConsumerTypes == Spec => []TypeOK
<1>1. Inv => TypeOK BY DEF Inv
<1> QED BY <1>1, ConsumerInvariant, PTL

(* A message that left the queue is stored or dead-lettered: toDlq sends   *)
(* before it deletes, and processWagerMessage deletes after execute.       *)
THEOREM ConsumerLosesNothing == Spec => []NothingIsLost
<1>1. Inv => NothingIsLost BY DEF Inv
<1> QED BY <1>1, ConsumerInvariant, PTL

-----------------------------------------------------------------------------
(* One instance per group                                                  *)

AtWork(d) == step[d] \in Live /\ d[1] \notin troubled

(* What keeps the group back: a message that is worked on is hidden by its *)
(* last receive and still in the queue.                                    *)
HiddenInv ==
  \A d \in Deliveries :
    AtWork(d) => Current(d) /\ ~visible[d[1]] /\ d[1] \notin gone

GroupInv == HiddenInv /\ OneInstancePerGroup

(* Steps after which no more deliveries are at work than before, and those *)
(* that are as hidden as they were.                                        *)
LEMMA NoneJoins ==
  ASSUME GroupInv, UNCHANGED groups,
         \A d \in Deliveries : AtWork(d)' =>
           /\ AtWork(d) /\ owner'[d] = owner[d]
           /\ received'[d[1]] = received[d[1]]
           /\ visible'[d[1]] => visible[d[1]]
           /\ d[1] \in gone' => d[1] \in gone
  PROVE  GroupInv'
<1>1. HiddenInv' BY DEF GroupInv, HiddenInv, Current
<1>2. ASSUME NEW d \in Deliveries, NEW e \in Deliveries, AtWork(d)', AtWork(e)',
             Together(d[1], e[1])'
      PROVE  owner'[d] = owner'[e]
  <2>1. AtWork(d) /\ AtWork(e) /\ Together(d[1], e[1])
    BY <1>2 DEF Together
  <2>2. owner[d] = owner[e]
    BY <2>1 DEF GroupInv, OneInstancePerGroup, AtWork
  <2> QED BY <1>2, <2>2
<1>3. OneInstancePerGroup' BY <1>2 DEF OneInstancePerGroup, AtWork
<1> QED BY <1>1, <1>3 DEF GroupInv

LEMMA TroubledGrows ==
  ASSUME [Next]_vars
  PROVE  troubled \subseteq troubled'
<1>1. ASSUME NEW d \in Deliveries, CallFails(d) PROVE troubled \subseteq troubled'
  BY <1>1 DEF CallFails, Fail, Destroyed
<1>2. ASSUME NEW d \in Deliveries, DeleteMessage(d) PROVE troubled \subseteq troubled'
  BY <1>1, <1>2 DEF DeleteMessage, faultVars
<1>3. ASSUME NEW d \in Deliveries, Work(d) PROVE troubled \subseteq troubled'
  BY <1>1, <1>2, <1>3
  DEF Work, ExecuteSucceeds, ExecuteRefuses, ExecuteFails, Acknowledge, Backoff,
      DlqSend, DlqDelete, Fail, faultVars
<1>4. ASSUME NEW i \in Instances,
             \/ Receive(i) \/ ReceiveLost(i)
             \/ Crash(i) \/ Shutdown(i) \/ Coordinate(i)
      PROVE  troubled \subseteq troubled'
  BY <1>4
  DEF Receive, ReceiveLost, LoseBatch, Crash, Shutdown, Coordinate, Drained,
      DrainTimeout, Exit, Restart, Fail, faultVars
<1>5. ASSUME NEW m \in Messages, VisibilityEnds(m) \/ HeartbeatFails(m) \/ Redrive(m)
      PROVE  troubled \subseteq troubled'
  BY <1>5 DEF VisibilityEnds, HeartbeatFails, Redrive, Fail, faultVars
<1>6. CASE UNCHANGED vars BY <1>6 DEF vars, faultVars
<1> QED BY <1>3, <1>4, <1>5, <1>6 DEF Next

(* A delivery at work is the only one of its message.                      *)
LEMMA OnlyDelivery ==
  ASSUME HiddenInv, NEW d \in Deliveries, NEW e \in Deliveries,
         AtWork(d), AtWork(e), d[1] = e[1]
  PROVE  d = e
<1>1. d = <<d[1], d[2]>> /\ e = <<e[1], e[2]>> BY DeliveryFacts
<1>2. d[2] = received[d[1]] /\ e[2] = received[e[1]] BY DEF HiddenInv, Current
<1> QED BY <1>1, <1>2

LEMMA ReceiveGroups ==
  ASSUME Inv, GroupInv, NEW i \in Instances, Receive(i)
  PROVE  GroupInv'
<1>1. PICK S \in Batches :
        /\ Hide(S)
        /\ step'   = [d \in Deliveries |->
                        IF d \in Received(S) THEN FirstStep(d[1]) ELSE step[d]]
        /\ owner'  = [d \in Deliveries |-> IF d \in Received(S) THEN i ELSE owner[d]]
  BY DEF Receive
<1>2. UNCHANGED <<groups, gone, troubled>> BY DEF Receive, faultVars
<1>3. S \subseteq Messages /\ \A m \in S : m \in Waiting /\ received[m] < RedriveLimit
  BY <1>1 DEF Batches, Waiting
<1>4. \A d \in Received(S) : d \in Deliveries /\ d[1] \in S
  BY <1>1, BatchFacts DEF Inv, TypeOK
(* The messages of the batch belong to groups nobody works on.             *)
<1>5. ASSUME NEW d \in Received(S), NEW e \in Deliveries, AtWork(e)
      PROVE  ~Together(d[1], e[1])
  <2>1. ~visible[e[1]] /\ e[1] \in Messages \ gone
    BY <1>5, DeliveryFacts DEF GroupInv, HiddenInv
  <2>2. ~Held(d[1]) BY <1>3, <1>4 DEF Waiting
  <2> QED BY <2>1, <2>2 DEF Held
<1>6. ASSUME NEW e \in Deliveries, e \notin Received(S), AtWork(e)'
      PROVE  AtWork(e) /\ owner'[e] = owner[e]
  BY <1>1, <1>2, <1>6 DEF AtWork
<1>7. HiddenInv'
  <2> SUFFICES ASSUME NEW d \in Deliveries, AtWork(d)'
               PROVE  Current(d)' /\ ~visible'[d[1]] /\ d[1] \notin gone'
    BY DEF HiddenInv
  <2>1. d[1] \in Messages BY DeliveryFacts
  <2>2. CASE d \in Received(S)
    <3>1. PICK m \in S : d = <<m, received[m] + 1>> BY <2>2 DEF Received
    <3>2. received'[m] = received[m] + 1 /\ ~visible'[m]
      BY <1>1, <1>3 DEF Hide
    <3> QED BY <1>2, <1>3, <3>1, <3>2 DEF Current, Waiting
  <2>3. CASE d \notin Received(S)
    <3>1. AtWork(d) BY <1>6, <2>3
    <3>2. Current(d) /\ ~visible[d[1]] /\ d[1] \notin gone
      BY <3>1 DEF GroupInv, HiddenInv
    <3>3. d[1] \notin S BY <1>3, <3>2 DEF Waiting
    <3> QED BY <1>1, <1>2, <2>1, <3>2, <3>3 DEF Hide, Current
  <2> QED BY <2>2, <2>3
<1>8. ASSUME NEW d \in Deliveries, NEW e \in Deliveries, AtWork(d)', AtWork(e)',
             Together(d[1], e[1])
      PROVE  owner'[d] = owner'[e]
  <2>1. Together(e[1], d[1]) BY <1>8 DEF Together
  <2>2. CASE d \in Received(S) /\ e \in Received(S)
    BY <1>1, <2>2
  <2>3. CASE d \in Received(S) /\ e \notin Received(S)
    BY <1>5, <1>6, <1>8, <2>3
  <2>4. CASE d \notin Received(S) /\ e \in Received(S)
    BY <1>5, <1>6, <1>8, <2>1, <2>4
  <2>5. CASE d \notin Received(S) /\ e \notin Received(S)
    BY <1>6, <1>8, <2>5 DEF GroupInv, OneInstancePerGroup, AtWork
  <2> QED BY <2>2, <2>3, <2>4, <2>5
<1>9. OneInstancePerGroup'
  BY <1>2, <1>8 DEF OneInstancePerGroup, AtWork, Together
<1> QED BY <1>7, <1>9 DEF GroupInv

LEMMA LoseBatchGroups ==
  ASSUME Inv, GroupInv, NEW i \in Instances, LoseBatch(i), UNCHANGED groups
  PROVE  GroupInv'
<1>1. PICK S \in Batches :
        /\ Hide(S) /\ Fail(S)
        /\ step' = [d \in Deliveries |-> IF d \in Received(S) THEN "ended" ELSE step[d]]
  BY DEF LoseBatch
<1>2. UNCHANGED <<gone, owner>> BY DEF LoseBatch
<1>3. ASSUME NEW d \in Deliveries, AtWork(d)'
      PROVE  /\ AtWork(d) /\ owner'[d] = owner[d]
             /\ received'[d[1]] = received[d[1]]
             /\ visible'[d[1]] => visible[d[1]]
             /\ d[1] \in gone' => d[1] \in gone
  <2>1. d[1] \in Messages BY DeliveryFacts
  <2>2. d \notin Received(S) BY <1>1, <1>3 DEF AtWork, Live
  <2>3. d[1] \notin S /\ d[1] \notin troubled BY <1>1, <1>3 DEF AtWork, Fail
  <2> QED BY <1>1, <1>2, <1>3, <2>1, <2>2, <2>3 DEF AtWork, Hide
<1> QED BY <1>3, NoneJoins

LEMMA WorkGroups ==
  ASSUME Inv, GroupInv, NEW d \in Deliveries, Work(d), troubled \subseteq troubled'
  PROVE  GroupInv'
<1>1. step \in [Deliveries -> Steps] /\ owner \in [Deliveries -> Instances \cup {Null}]
  BY DEF Inv, TypeOK, WorkTypeOK
<1>2. step[d] \in Live
  BY DEF Work, ExecuteSucceeds, ExecuteRefuses, ExecuteFails, Acknowledge, Backoff,
         DlqSend, DlqDelete, Live
<1>3. UNCHANGED <<groups, visible, received>>
  BY DEF Work, ExecuteSucceeds, ExecuteRefuses, ExecuteFails, Acknowledge, Backoff,
         DlqSend, DlqDelete, queueVars
<1>4. ASSUME NEW e \in Deliveries, DeleteMessage(e) PROVE Ends(e) \/ Throws(e)
  BY <1>4 DEF DeleteMessage, CallFails
<1>5. \/ \E next : GoTo(d, next)
      \/ Ends(d) \/ Throws(d)
  BY <1>4 DEF Work, ExecuteSucceeds, ExecuteRefuses, ExecuteFails, Acknowledge, Backoff,
         DlqSend, DlqDelete, ToDlq, Transient, CallFails
<1>6. \A e \in Deliveries \ {d} : step'[e] = step[e] /\ owner'[e] = owner[e]
  BY <1>1, <1>5 DEF GoTo, Ends, Throws, Leaves
<1>7. step'[d] \in Live => owner'[d] = owner[d]
  BY <1>1, <1>5 DEF GoTo, Ends, Throws, Leaves, Live
<1>8. \/ gone' = gone
      \/ gone' = gone \cup {d[1]} /\ step'[d] \notin Live
  <2>1. ASSUME Ends(d) \/ Throws(d) PROVE step'[d] \notin Live
    BY <1>1, <2>1 DEF Ends, Throws, Leaves, Live
  <2>2. ASSUME DeleteMessage(d)
        PROVE  gone' \in {gone, gone \cup {d[1]}} /\ step'[d] \notin Live
    BY <1>4, <2>1, <2>2 DEF DeleteMessage
  <2> QED BY <2>2 DEF Work, ExecuteSucceeds, ExecuteRefuses, ExecuteFails, Acknowledge,
         Backoff, DlqSend, DlqDelete, queueVars
<1>9. ASSUME NEW e \in Deliveries, AtWork(e)'
      PROVE  /\ AtWork(e) /\ owner'[e] = owner[e]
             /\ received'[e[1]] = received[e[1]]
             /\ visible'[e[1]] => visible[e[1]]
             /\ e[1] \in gone' => e[1] \in gone
  <2>1. AtWork(e) /\ owner'[e] = owner[e]
    BY <1>2, <1>6, <1>7, <1>9 DEF AtWork
  <2>2. ASSUME gone' = gone \cup {d[1]}, step'[d] \notin Live, e[1] = d[1]
        PROVE  FALSE
    <3>1. AtWork(d) BY <1>2, <2>1, <2>2 DEF AtWork
    <3>2. e = d BY <2>1, <2>2, <3>1, OnlyDelivery DEF GroupInv
    <3> QED BY <1>9, <2>2, <3>2 DEF AtWork
  <2> QED BY <1>3, <1>8, <2>1, <2>2
<1> QED BY <1>3, <1>9, NoneJoins

LEMMA QueueGroups ==
  ASSUME Inv, GroupInv, troubled \subseteq troubled', NEW m \in Messages,
         VisibilityEnds(m) \/ HeartbeatFails(m) \/ Redrive(m)
  PROVE  GroupInv'
<1>1. UNCHANGED <<groups, received, step, owner>>
  BY DEF VisibilityEnds, HeartbeatFails, Redrive, deliveryVars
<1>2. ASSUME NEW d \in Deliveries, AtWork(d)'
      PROVE  /\ AtWork(d) /\ owner'[d] = owner[d]
             /\ received'[d[1]] = received[d[1]]
             /\ visible'[d[1]] => visible[d[1]]
             /\ d[1] \in gone' => d[1] \in gone
  <2>1. AtWork(d) BY <1>1, <1>2 DEF AtWork
  <2>2. /\ d[1] \in Messages /\ d[2] \in 1 .. RedriveLimit /\ d = <<d[1], d[2]>>
        /\ d[2] = received[d[1]] /\ ~visible[d[1]]
    BY <2>1, DeliveryFacts DEF GroupInv, HiddenInv, Current
  <2>3. visible \in [Messages -> BOOLEAN] BY DEF Inv, TypeOK, QueueTypeOK
  <2>4. CASE VisibilityEnds(m)
    <3>1. d[1] # m
      <4>1. SUFFICES ASSUME d[1] = m PROVE FALSE OBVIOUS
      <4>2. d = LastDelivery(m) /\ received[m] > 0
        BY <2>2, <4>1 DEF LastDelivery
      <4>3. InWork(m) BY <2>1, <4>2 DEF InWork, AtWork
      <4>4. m \notin Valid \/ step[LastDelivery(m)] = "ack"
        BY <2>4, <4>3 DEF VisibilityEnds, Heartbeating
      <4>5. m \in troubled' BY <2>4, <4>3, <4>4 DEF VisibilityEnds
      <4> QED BY <1>2, <4>1, <4>5 DEF AtWork
    <3> QED BY <1>1, <2>1, <2>2, <2>3, <2>4, <3>1 DEF VisibilityEnds
  <2>5. CASE HeartbeatFails(m)
    <3>1. d[1] # m BY <1>2, <2>5 DEF HeartbeatFails, Fail, AtWork
    <3> QED BY <1>1, <2>1, <2>2, <2>3, <2>5, <3>1 DEF HeartbeatFails
  <2>6. CASE Redrive(m)
    <3>1. d[1] # m BY <2>2, <2>6 DEF Redrive, Waiting
    <3> QED BY <1>1, <2>1, <2>2, <2>6, <3>1 DEF Redrive
  <2> QED BY <2>4, <2>5, <2>6
<1> QED BY <1>1, <1>2, NoneJoins

LEMMA InstanceGroups ==
  ASSUME Inv, GroupInv, troubled \subseteq troubled', NEW i \in Instances,
         \/ Receive(i) \/ ReceiveLost(i)
         \/ Crash(i) \/ Shutdown(i) \/ Coordinate(i)
  PROVE  GroupInv'
<1>1. CASE Receive(i) BY <1>1, ReceiveGroups
<1>2. CASE ReceiveLost(i) BY <1>2, LoseBatchGroups DEF ReceiveLost
<1>3. ASSUME Dies(i), UNCHANGED <<groups, gone, visible, received>> PROVE GroupInv'
  <2>1. ASSUME NEW d \in Deliveries, AtWork(d)'
        PROVE  AtWork(d) /\ owner'[d] = owner[d]
    BY <1>3, <2>1 DEF Dies, AtWork, Live
  <2> QED BY <1>3, <2>1, NoneJoins
<1>4. CASE Crash(i) BY <1>3, <1>4 DEF Crash, queueVars
<1>5. ASSUME UNCHANGED <<groups, gone, received, step, owner>>,
             \A m \in Messages \ troubled' : visible'[m] => visible[m]
      PROVE  GroupInv'
  <2>1. ASSUME NEW d \in Deliveries, AtWork(d)'
        PROVE  AtWork(d) /\ (visible'[d[1]] => visible[d[1]])
    BY <1>5, <2>1, DeliveryFacts DEF AtWork
  <2> QED BY <1>5, <2>1, NoneJoins
<1>6. CASE Shutdown(i)
  BY <1>5, <1>6, LoseBatchGroups DEF Shutdown, queueVars, deliveryVars
<1>7. CASE Drained(i) /\ UNCHANGED groups
  BY <1>5, <1>7 DEF Drained, queueVars, deliveryVars
<1>8. CASE DrainTimeout(i) /\ UNCHANGED groups
  <2> DEFINE late == {d[1] : d \in InFlight(i)}
             held == {d[1] : d \in {e \in InFlight(i) : Current(e)}}
  <2>1. ASSUME NEW m \in Messages \ troubled', visible'[m] PROVE visible[m]
    <3>1. PICK released \in SUBSET held :
            visible' = [x \in Messages |-> visible[x] \/ x \in released]
      BY <1>8 DEF DrainTimeout
    <3>2. m \notin late BY <1>8 DEF DrainTimeout
    <3>3. held \subseteq late OBVIOUS
    <3> QED BY <2>1, <3>1, <3>2, <3>3
  <2> QED BY <1>5, <1>8, <2>1 DEF DrainTimeout, deliveryVars
<1>9. CASE Exit(i) /\ UNCHANGED groups
  BY <1>3, <1>9 DEF Exit, queueVars
<1>10. CASE Restart(i) /\ UNCHANGED groups
  BY <1>5, <1>10 DEF Restart, queueVars, deliveryVars
<1> QED BY <1>1, <1>2, <1>4, <1>6, <1>7, <1>8, <1>9, <1>10 DEF Coordinate

LEMMA GroupInvariant == Spec => []GroupInv
<1>1. Init => GroupInv
  BY DEF Init, GroupInv, HiddenInv, OneInstancePerGroup, AtWork, Live
<1>2. Inv /\ GroupInv /\ [Next]_vars => GroupInv'
  <2> SUFFICES ASSUME Inv, GroupInv, [Next]_vars PROVE GroupInv'
    OBVIOUS
  <2>1. troubled \subseteq troubled' BY TroubledGrows
  <2>2. CASE UNCHANGED vars
    BY <2>2, NoneJoins DEF AtWork, vars, queueVars, deliveryVars, faultVars
  <2>3. ASSUME NEW d \in Deliveries, Work(d) PROVE GroupInv'
    BY <2>1, <2>3, WorkGroups
  <2>4. ASSUME NEW i \in Instances,
               \/ Receive(i) \/ ReceiveLost(i)
               \/ Crash(i) \/ Shutdown(i) \/ Coordinate(i)
        PROVE  GroupInv'
    BY <2>1, <2>4, InstanceGroups
  <2>5. ASSUME NEW m \in Messages, VisibilityEnds(m) \/ HeartbeatFails(m) \/ Redrive(m)
        PROVE  GroupInv'
    BY <2>1, <2>5, QueueGroups
  <2> QED BY <2>2, <2>3, <2>4, <2>5 DEF Next
<1> QED BY <1>1, <1>2, ConsumerInvariant, PTL DEF Spec

(* The messages of a wallet are worked on by one instance: the heartbeat   *)
(* keeps a message hidden and a hidden message holds back its group, from  *)
(* pollOnce to the last call of consume.                                   *)
THEOREM GroupsStayTogether == Spec => []OneInstancePerGroup
<1>1. GroupInv => OneInstancePerGroup BY DEF GroupInv
<1> QED BY <1>1, GroupInvariant, PTL

(* Without a failure no message is executed twice at the same time.        *)
THEOREM ExecutionsAreAlone == Spec => []ExecutedAlone
<1>1. Inv /\ GroupInv => ExecutedAlone
  <2> SUFFICES ASSUME Inv, GroupInv, NEW m \in Messages \ troubled
               PROVE  Cardinality({n \in 1 .. RedriveLimit :
                                     step[<<m, n>>] = "execute"}) <= 1
    BY DEF ExecutedAlone
  <2> DEFINE N == {n \in 1 .. RedriveLimit : step[<<m, n>>] = "execute"}
  <2>1. N \subseteq {received[m]}
    <3> SUFFICES ASSUME NEW n \in N PROVE n = received[m]
      OBVIOUS
    <3>1. <<m, n>> \in Deliveries BY DEF Deliveries
    <3>2. AtWork(<<m, n>>) BY DEF AtWork, Live
    <3> QED BY <3>1, <3>2 DEF GroupInv, HiddenInv, Current
  <2>2. N = {} \/ N = {received[m]} BY <2>1
  <2> HIDE DEF N
  <2>3. Cardinality(N) <= 1
    <3>1. CASE N = {}
      <4>1. Cardinality(N) = 0 BY <3>1, FS_EmptySet
      <4> QED BY <4>1
    <3>2. CASE N = {received[m]}
      <4>1. Cardinality(N) = 1 BY <3>2, FS_Singleton
      <4> QED BY <4>1
    <3> QED BY <2>2, <3>1, <3>2
  <2> QED BY <2>3 DEF N
<1> QED BY <1>1, ConsumerInvariant, GroupInvariant, PTL

-----------------------------------------------------------------------------
(* The dead letter queue                                                   *)

(* What an untroubled delivery can have come to, and what is known of its  *)
(* message while it is stored or in the dead letter queue: it has left the *)
(* input queue, or its one delivery is about to delete it there.           *)
EarnedDelivery(d) ==
  /\ step[d] = "backoff" => d[2] < MaxReceiveCount
  /\ step[d] = "ended" => d[1] \in gone \/ d[2] < MaxReceiveCount

DeletedNext(m, from) ==
  m \in gone \/ \E d \in Deliveries : d[1] = m /\ step[d] = from

EarnedMessage(m) ==
  /\ <<m, "redrive">> \notin dlq
  /\ m \in inbox =>
       DeletedNext(m, "ack") /\ \A r \in Reasons : <<m, r>> \notin dlq
  /\ (\E r \in Reasons : <<m, r>> \in dlq) => DeletedNext(m, "dlqDelete")

EarnedInv ==
  /\ \A d \in Deliveries : d[1] \notin troubled => EarnedDelivery(d)
  /\ \A m \in Messages \ troubled : EarnedMessage(m)

(* The redrive is the queue's own; no delivery gives that reason.          *)
OwnReasons == \A d \in Deliveries : reason[d] # "redrive"

(* A step that leaves an untroubled delivery where it has not earned to be *)
(* does not exist; one that moves it on deletes its message.               *)
Mild(d) ==
  d[1] \notin troubled' =>
    /\ step[d] \in {"ack", "dlqDelete"} => step'[d] = step[d] \/ d[1] \in gone'
    /\ step'[d] \in {"backoff", "ended"} =>
         \/ step'[d] = step[d] \/ d[2] < MaxReceiveCount
         \/ step'[d] = "ended" /\ d[1] \in gone'

LEMMA MessageStays ==
  ASSUME NEW m \in Messages \ troubled', EarnedMessage(m), gone \subseteq gone',
         m \in inbox' => m \in inbox,
         \A r \in Reasons : <<m, r>> \in dlq' => <<m, r>> \in dlq,
         \A d \in Deliveries : Mild(d)
  PROVE  EarnedMessage(m)'
<1>1. ASSUME NEW from \in {"ack", "dlqDelete"}, DeletedNext(m, from)
      PROVE  DeletedNext(m, from)'
  BY <1>1 DEF DeletedNext, Mild
<1>2. <<m, "redrive">> \notin dlq'
  BY DEF EarnedMessage, Reasons
<1>3. m \in inbox' => DeletedNext(m, "ack")' /\ \A r \in Reasons : <<m, r>> \notin dlq'
  BY <1>1 DEF EarnedMessage
<1>4. (\E r \in Reasons : <<m, r>> \in dlq') => DeletedNext(m, "dlqDelete")'
  BY <1>1 DEF EarnedMessage
<1> QED BY <1>2, <1>3, <1>4 DEF EarnedMessage

LEMMA DeliveriesStay ==
  ASSUME EarnedInv, troubled \subseteq troubled', gone \subseteq gone',
         \A d \in Deliveries : Mild(d)
  PROVE  \A d \in Deliveries : d[1] \notin troubled' => EarnedDelivery(d)'
BY DEF EarnedInv, EarnedDelivery, Mild

(* Steps that store nothing and send nothing of an untroubled message.     *)
LEMMA EarnedStays ==
  ASSUME EarnedInv, troubled \subseteq troubled', gone \subseteq gone',
         \A m \in Messages \ troubled' :
           /\ m \in inbox' => m \in inbox
           /\ \A r \in Reasons : <<m, r>> \in dlq' => <<m, r>> \in dlq,
         \A d \in Deliveries : Mild(d)
  PROVE  EarnedInv'
<1>1. \A m \in Messages \ troubled' : EarnedMessage(m)'
  BY MessageStays DEF EarnedInv
<1> QED BY <1>1, DeliveriesStay DEF EarnedInv

(* The delivery of an untroubled message acts alone, on a message that is  *)
(* hidden and still in the queue.                                          *)
LEMMA WorkAlone ==
  ASSUME Inv, GroupInv, EarnedInv, NEW d \in Deliveries, AtWork(d)
  PROVE  /\ Current(d) /\ ~visible[d[1]] /\ d[1] \notin gone
         /\ step[d] # "ack" => d[1] \notin inbox
         /\ step[d] # "dlqDelete" => \A r \in Reasons : <<d[1], r>> \notin dlq
<1>1. Current(d) /\ ~visible[d[1]] /\ d[1] \notin gone
  BY DEF GroupInv, HiddenInv
<1>2. d[1] \in Messages \ troubled /\ EarnedMessage(d[1])
  BY DeliveryFacts DEF AtWork, EarnedInv
<1>3. ASSUME NEW from \in {"ack", "dlqDelete"}, step[d] # from
      PROVE  ~DeletedNext(d[1], from)
  <2> SUFFICES ASSUME NEW e \in Deliveries, e[1] = d[1], step[e] = from PROVE FALSE
    BY <1>1 DEF DeletedNext
  <2>1. AtWork(e)
    BY <1>2 DEF AtWork, Live
  <2>2. e = d
    BY <2>1, OnlyDelivery DEF GroupInv
  <2> QED BY <1>3, <2>2
<1> QED BY <1>1, <1>2, <1>3 DEF EarnedMessage

LEMMA WorkEarned ==
  ASSUME Inv, GroupInv, EarnedInv, OwnReasons, NEW d \in Deliveries, Work(d), troubled \subseteq troubled'
  PROVE  EarnedInv'
<1>1. step \in [Deliveries -> Steps] /\ d[1] \in Messages
  BY DeliveryFacts DEF Inv, TypeOK, WorkTypeOK
<1>2. step[d] \in Live
  BY DEF Work, ExecuteSucceeds, ExecuteRefuses, ExecuteFails, Acknowledge, Backoff,
         DlqSend, DlqDelete, Live
<1>3. ASSUME NEW next, GoTo(d, next)
      PROVE  step'[d] = next /\ \A e \in Deliveries \ {d} : step'[e] = step[e]
  BY <1>1, <1>3 DEF GoTo
<1>4. ASSUME Ends(d) \/ Throws(d)
      PROVE  step'[d] = "ended" /\ \A e \in Deliveries \ {d} : step'[e] = step[e]
  BY <1>1, <1>4 DEF Ends, Throws, Leaves
<1>5. ASSUME CallFails(d) PROVE d[1] \in troubled'
  BY <1>5 DEF CallFails, Fail, Destroyed
<1>6. d[1] \notin troubled' => AtWork(d)
  BY <1>2 DEF AtWork
(* A delete that meets no failure deletes the message.                     *)
<1>7. ASSUME DeleteMessage(d)
      PROVE  /\ gone \subseteq gone' /\ step'[d] = "ended"
             /\ \A e \in Deliveries \ {d} : step'[e] = step[e]
             /\ d[1] \notin troubled' => d[1] \in gone'
  <2>1. d[1] \notin troubled' => Current(d) /\ ~visible[d[1]]
    BY <1>6, WorkAlone
  <2> QED BY <1>4, <1>5, <1>7, <2>1 DEF DeleteMessage, CallFails
<1>8. CASE ExecuteSucceeds(d)
  <2>1. /\ step'[d] = "ack" /\ \A e \in Deliveries \ {d} : step'[e] = step[e]
        /\ inbox' = inbox \cup {d[1]} /\ step[d] = "execute"
        /\ UNCHANGED <<gone, dlq, troubled>>
    BY <1>3, <1>8 DEF ExecuteSucceeds, queueVars, faultVars
  <2>2. \A e \in Deliveries : Mild(e)
    BY <2>1 DEF Mild
  <2>3. ASSUME NEW m \in Messages \ troubled', m # d[1] PROVE EarnedMessage(m)'
    BY <2>1, <2>2, <2>3, MessageStays DEF EarnedInv
  <2>4. ASSUME d[1] \notin troubled' PROVE EarnedMessage(d[1])'
    <3>1. \A r \in Reasons : <<d[1], r>> \notin dlq'
      BY <1>6, <2>1, <2>4, WorkAlone
    <3>2. DeletedNext(d[1], "ack")'
      BY <2>1 DEF DeletedNext
    <3> QED BY <3>1, <3>2 DEF EarnedMessage, Reasons
  <2> QED BY <2>1, <2>2, <2>3, <2>4, DeliveriesStay DEF EarnedInv
<1>9. CASE ExecuteRefuses(d)
  <2>1. /\ step'[d] = "dlqSend" /\ \A e \in Deliveries \ {d} : step'[e] = step[e]
        /\ step[d] = "execute" /\ UNCHANGED <<gone, dlq, inbox, troubled>>
    BY <1>3, <1>9 DEF ExecuteRefuses, ToDlq, queueVars, faultVars
  <2> QED BY <2>1, EarnedStays DEF Mild
<1>10. CASE ExecuteFails(d)
  <2>1. /\ step'[d] = "dlqSend" \/ (step'[d] = "backoff" /\ d[2] < MaxReceiveCount)
        /\ \A e \in Deliveries \ {d} : step'[e] = step[e]
        /\ step[d] = "execute" /\ UNCHANGED <<gone, dlq>>
    BY <1>3, <1>10 DEF ExecuteFails, Transient, ToDlq, queueVars
  <2>2. inbox' = inbox \/ (inbox' = inbox \cup {d[1]} /\ d[1] \in troubled')
    BY <1>10 DEF ExecuteFails, Fail
  <2> QED BY <2>1, <2>2, EarnedStays DEF Mild
<1>11. CASE Acknowledge(d) \/ DlqDelete(d)
  <2>1. DeleteMessage(d) /\ UNCHANGED <<dlq, inbox>>
    BY <1>11 DEF Acknowledge, DlqDelete
  <2>2. \A e \in Deliveries : Mild(e)
    BY <1>7, <2>1 DEF Mild
  <2> QED BY <1>7, <2>1, <2>2, EarnedStays
<1>12. CASE Backoff(d)
  <2>1. /\ step[d] = "backoff" /\ UNCHANGED <<gone, dlq, inbox>>
        /\ Ends(d) \/ Throws(d)
    BY <1>12 DEF Backoff, CallFails, queueVars
  <2>2. d[1] \notin troubled' => d[2] < MaxReceiveCount
    BY <2>1 DEF EarnedInv, EarnedDelivery
  <2>3. \A e \in Deliveries : Mild(e)
    BY <1>4, <2>1, <2>2 DEF Mild
  <2> QED BY <2>1, <2>3, EarnedStays
<1>13. CASE DlqSend(d)
  <2>1. UNCHANGED <<gone, inbox>> /\ step[d] = "dlqSend"
        /\ dlq' \in {dlq, dlq \cup {<<d[1], reason[d]>>}}
    BY <1>13 DEF DlqSend
  <2>2. CASE CallFails(d)
    <3>1. \A e \in Deliveries : Mild(e)
      BY <1>4, <1>5, <2>1, <2>2 DEF Mild, CallFails
    <3> QED BY <1>5, <2>1, <2>2, <3>1, EarnedStays
  <2>3. CASE GoTo(d, "dlqDelete") /\ UNCHANGED faultVars
    <3>1. /\ step'[d] = "dlqDelete" /\ \A e \in Deliveries \ {d} : step'[e] = step[e]
          /\ troubled' = troubled
      BY <1>3, <2>3 DEF faultVars
    <3>2. \A e \in Deliveries : Mild(e)
      BY <2>1, <3>1 DEF Mild
    <3>3. ASSUME NEW m \in Messages \ troubled', m # d[1] PROVE EarnedMessage(m)'
      BY <2>1, <3>1, <3>2, <3>3, MessageStays DEF EarnedInv
    <3>4. ASSUME d[1] \notin troubled' PROVE EarnedMessage(d[1])'
      <4>1. d[1] \notin inbox'
        BY <1>6, <2>1, <3>4, WorkAlone
      <4>2. DeletedNext(d[1], "dlqDelete")'
        BY <3>1 DEF DeletedNext
      <4>3. reason[d] # "redrive"
        BY DEF OwnReasons
      <4>4. <<d[1], "redrive">> \notin dlq
        BY <3>1, <3>4, <1>1 DEF EarnedInv, EarnedMessage
      <4> QED BY <2>1, <4>1, <4>2, <4>3, <4>4 DEF EarnedMessage
    <3> QED BY <2>1, <3>1, <3>2, <3>3, <3>4, DeliveriesStay DEF EarnedInv
  <2> QED BY <1>13, <2>2, <2>3 DEF DlqSend
<1> QED BY <1>8, <1>9, <1>10, <1>11, <1>12, <1>13 DEF Work

LEMMA OwnReasonsStep ==
  ASSUME Inv, OwnReasons, [Next]_vars
  PROVE  OwnReasons'
<1>1. reason \in [Deliveries -> Reasons \cup {"none"}]
  BY DEF Inv, TypeOK, WorkTypeOK
<1>2. ASSUME reason' = reason PROVE OwnReasons'
  BY <1>2 DEF OwnReasons
<1>3. ASSUME NEW d \in Deliveries, NEW why \in (Reasons \cup {"none"}) \ {"redrive"},
             reason' = [reason EXCEPT ![d] = why]
      PROVE  OwnReasons'
  BY <1>1, <1>3 DEF OwnReasons
<1>4. ASSUME NEW d \in Deliveries, Ends(d) \/ Throws(d) PROVE OwnReasons'
  BY <1>3, <1>4 DEF Ends, Throws, Leaves
<1>5. ASSUME NEW d \in Deliveries, DeleteMessage(d) PROVE OwnReasons'
  BY <1>4, <1>5 DEF DeleteMessage, CallFails
<1>6. ASSUME NEW d \in Deliveries, Work(d) PROVE OwnReasons'
  <2>1. CASE ExecuteSucceeds(d)
    BY <1>2, <2>1 DEF ExecuteSucceeds
  <2>2. CASE ExecuteRefuses(d)
    BY <1>3, <2>2 DEF ExecuteRefuses, ToDlq, Reasons
  <2>3. CASE ExecuteFails(d)
    BY <1>2, <1>3, <2>3 DEF ExecuteFails, Transient, ToDlq, Reasons
  <2>4. CASE Acknowledge(d) \/ DlqDelete(d)
    BY <1>5, <2>4 DEF Acknowledge, DlqDelete
  <2>5. CASE Backoff(d)
    BY <1>4, <2>5 DEF Backoff, CallFails
  <2>6. CASE DlqSend(d)
    BY <1>2, <1>4, <2>6 DEF DlqSend, CallFails
  <2> QED BY <1>6, <2>1, <2>2, <2>3, <2>4, <2>5, <2>6 DEF Work
<1>7. ASSUME NEW i \in Instances, Receive(i) \/ Dies(i) PROVE OwnReasons'
  BY <1>7 DEF Receive, Dies, OwnReasons
<1>8. ASSUME NEW i \in Instances,
             \/ Receive(i) \/ ReceiveLost(i)
             \/ Crash(i) \/ Shutdown(i) \/ Coordinate(i)
      PROVE  OwnReasons'
  BY <1>2, <1>7, <1>8
  DEF ReceiveLost, LoseBatch, Crash, Shutdown, Coordinate, Drained, DrainTimeout, Exit, Restart,
      deliveryVars
<1>9. ASSUME NEW m \in Messages, VisibilityEnds(m) \/ HeartbeatFails(m) \/ Redrive(m)
      PROVE  OwnReasons'
  BY <1>2, <1>9 DEF VisibilityEnds, HeartbeatFails, Redrive, deliveryVars
<1>10. CASE UNCHANGED vars
  BY <1>2, <1>10 DEF vars, deliveryVars
<1> QED BY <1>6, <1>8, <1>9, <1>10 DEF Next

LEMMA InstanceEarned ==
  ASSUME Inv, EarnedInv, troubled \subseteq troubled', NEW i \in Instances,
         \/ Receive(i) \/ ReceiveLost(i)
         \/ Crash(i) \/ Shutdown(i) \/ Coordinate(i)
  PROVE  EarnedInv'
<1>inv. QueueTypeOK /\ WorkTypeOK
  BY DEF Inv, TypeOK
<1>1. UNCHANGED <<gone, dlq, inbox>>
  BY DEF Receive, ReceiveLost, LoseBatch, Crash, Shutdown, Coordinate, Drained, DrainTimeout,
         Exit, Restart, queueVars
<1>2. SUFFICES \A d \in Deliveries : Mild(d)
  BY <1>1, EarnedStays
<1>3. CASE UNCHANGED step
  BY <1>3 DEF Mild
<1>4. CASE Receive(i)
  <2>1. PICK S \in Batches :
          /\ Hide(S)
          /\ step' = [d \in Deliveries |->
                        IF d \in Received(S) THEN FirstStep(d[1]) ELSE step[d]]
    BY <1>4 DEF Receive
  <2>2. \A d \in Received(S) : step[d] = "none"
    BY <1>inv, <2>1, BatchFacts
  <2> QED BY <2>1, <2>2 DEF Mild, FirstStep
<1>5. CASE LoseBatch(i)
  <2>1. PICK S \in Batches :
          /\ Hide(S) /\ Fail(S)
          /\ step' = [d \in Deliveries |-> IF d \in Received(S) THEN "ended" ELSE step[d]]
    BY <1>5 DEF LoseBatch
  <2>2. \A d \in Received(S) : d[1] \in troubled'
    BY <1>inv, <2>1, BatchFacts DEF Fail
  <2> QED BY <2>1, <2>2 DEF Mild
<1>6. ASSUME Dies(i), \A d \in Own(i) : d[1] \in troubled' PROVE \A d \in Deliveries : Mild(d)
  BY <1>6 DEF Dies, Mild
<1>7. CASE Crash(i) \/ Exit(i)
  BY <1>6, <1>7 DEF Crash, Exit, Fail
<1>8. CASE Drained(i) \/ DrainTimeout(i) \/ Restart(i)
  BY <1>3, <1>8 DEF Drained, DrainTimeout, Restart, deliveryVars
<1> QED BY <1>3, <1>4, <1>5, <1>7, <1>8 DEF ReceiveLost, Shutdown, Coordinate, deliveryVars

(* The consumer gives up at its own limit, so a message that the queue     *)
(* redrives has met a failure.                                             *)
LEMMA RedriveTroubled ==
  ASSUME Inv, GroupInv, EarnedInv, NEW m \in Messages, Redrive(m)
  PROVE  m \in troubled
<1> SUFFICES ASSUME m \notin troubled PROVE FALSE
  OBVIOUS
<1> DEFINE d == <<m, RedriveLimit>>
<1>1. d \in Deliveries /\ d[1] = m /\ d[2] = RedriveLimit /\ ~(d[2] < MaxReceiveCount)
  BY ConsumerAssumption DEF Deliveries
<1>2. received[m] = RedriveLimit /\ m \notin gone /\ visible[m] /\ RedriveLimit \in Nat
  BY ConsumerAssumption DEF Redrive, Waiting
<1> HIDE DEF d
<1>3. step[d] \in Live \cup {"ended"}
  <2>1. step[d] \in Steps /\ step[d] # "none"
    BY <1>1, <1>2 DEF Inv, TypeOK, WorkTypeOK
  <2> QED BY <2>1 DEF Steps
<1>4. step[d] \notin Live
  BY <1>1, <1>2, WorkAlone DEF AtWork
<1>5. step[d] # "ended"
  BY <1>1, <1>2 DEF EarnedInv, EarnedDelivery
<1> QED BY <1>3, <1>4, <1>5

LEMMA QueueEarned ==
  ASSUME Inv, GroupInv, EarnedInv, troubled \subseteq troubled', NEW m \in Messages,
         VisibilityEnds(m) \/ HeartbeatFails(m) \/ Redrive(m)
  PROVE  EarnedInv'
<1>1. UNCHANGED <<inbox, step>> /\ gone \subseteq gone'
  BY DEF VisibilityEnds, HeartbeatFails, Redrive, deliveryVars
<1>2. \A n \in Messages \ troubled' : \A r \in Reasons : <<n, r>> \in dlq' => <<n, r>> \in dlq
  <2>1. CASE dlq' = dlq
    BY <2>1
  <2>2. CASE Redrive(m)
    <3>1. dlq' = dlq \cup {<<m, "redrive">>} /\ m \in troubled'
      BY <2>2, RedriveTroubled DEF Redrive
    <3> QED BY <3>1
  <2> QED BY <2>1, <2>2 DEF VisibilityEnds, HeartbeatFails
<1> QED BY <1>1, <1>2, EarnedStays DEF Mild

LEMMA EarnedInvariant == Spec => [](EarnedInv /\ OwnReasons)
<1>1. Init => EarnedInv /\ OwnReasons
  BY DEF Init, EarnedInv, EarnedDelivery, EarnedMessage, OwnReasons
<1>2. Inv /\ GroupInv /\ EarnedInv /\ OwnReasons /\ [Next]_vars => (EarnedInv /\ OwnReasons)'
  <2> SUFFICES ASSUME Inv, GroupInv, EarnedInv, OwnReasons, [Next]_vars
               PROVE  EarnedInv' /\ OwnReasons'
    OBVIOUS
  <2>1. troubled \subseteq troubled' /\ OwnReasons'
    BY TroubledGrows, OwnReasonsStep
  <2>2. CASE UNCHANGED vars
    <3>1. UNCHANGED <<gone, dlq, inbox, step, troubled>>
      BY <2>2 DEF vars, queueVars, deliveryVars, faultVars
    <3>2. \A d \in Deliveries : Mild(d)
      BY <3>1 DEF Mild
    <3> QED BY <2>1, <3>1, <3>2, EarnedStays
  <2>3. ASSUME NEW d \in Deliveries, Work(d) PROVE EarnedInv'
    BY <2>1, <2>3, WorkEarned
  <2>4. ASSUME NEW i \in Instances,
               \/ Receive(i) \/ ReceiveLost(i)
               \/ Crash(i) \/ Shutdown(i) \/ Coordinate(i)
        PROVE  EarnedInv'
    BY <2>1, <2>4, InstanceEarned
  <2>5. ASSUME NEW m \in Messages, VisibilityEnds(m) \/ HeartbeatFails(m) \/ Redrive(m)
        PROVE  EarnedInv'
    BY <2>1, <2>5, QueueEarned
  <2> QED BY <2>1, <2>2, <2>3, <2>4, <2>5 DEF Next
<1> QED BY <1>1, <1>2, ConsumerInvariant, GroupInvariant, PTL DEF Spec

(* A dead letter is earned: unless a failure met this very message, it was *)
(* not carried out, was not being carried out by a delivery that came      *)
(* before or beside, and was given up by the consumer and not the queue.   *)
THEOREM DeadLettersEarned == Spec => []DeadLettersAreEarned
<1>1. EarnedInv => DeadLettersAreEarned
  BY DEF EarnedInv, EarnedMessage, DeadLettersAreEarned
<1> QED BY <1>1, EarnedInvariant, PTL
===============================================================================
