------------------------------ MODULE SqsConsumer ------------------------------
(***************************************************************************)
(* SqsWagerConsumer and its loop and shutdown in MessagingCoordinator:     *)
(* instances receive wager messages, hand them to WageringService.execute, *)
(* and delete them, hide them again or move them to the dead letter queue. *)
(*                                                                         *)
(* Abstractions.  execute is reduced to how it can end (Wagering models    *)
(* it): inbox is the set of messages whose operation is stored.  A         *)
(* delivery <<m, n>> is the n-th receive of message m; it stands for the   *)
(* receipt handle and for ApproximateReceiveCount.  The queue's redrive    *)
(* policy (docker/localstack/init-queues.sh) bounds n.  The queue is FIFO: *)
(* messages are numbered in the order they were sent, and producers group  *)
(* them by wallet (docs/brain/resources/SqsMessages.md:14).                *)
(***************************************************************************)
EXTENDS Integers, FiniteSets

CONSTANTS
  Messages,         \* what the input queue holds, by sequence number
  Groupings,        \* how producers may have grouped them (MessageGroupId)
  Valid,            \* those whose body the envelope schema accepts
  Instances,
  BatchLimit,       \* MaxNumberOfMessages (10 in production)
  MaxReceiveCount,  \* SQS_MAX_RECEIVE_COUNT (5 in production)
  RedriveLimit,     \* maxReceiveCount of the redrive policy (5 in production)
  MaxFailures,      \* bound: crashes, shutdowns, failed calls, late heartbeats
  Null              \* no instance

ASSUME ConsumerAssumption ==
  /\ Messages \subseteq Int /\ Valid \subseteq Messages
  /\ \A P \in Groupings : /\ UNION P = Messages
                          /\ \A g, h \in P : g = h \/ g \cap h = {}
  /\ Null \notin Instances
  /\ BatchLimit \in Nat \ {0} /\ MaxFailures \in Nat
  /\ MaxReceiveCount \in Nat \ {0} /\ RedriveLimit \in Nat
  /\ MaxReceiveCount <= RedriveLimit

Deliveries == Messages \X (1 .. RedriveLimit)

VARIABLES
  groups,    \* the messages of each group; it never changes
  gone,      \* messages deleted from the input queue
  visible,   \* messages that are not hidden by a visibility timeout
  received,  \* how often each message was received
  dlq,       \* dead letter queue: <<message, reason>>
  inbox,     \* messages whose operation is stored, with their inbox row
  step,      \* what each delivery does next
  owner,     \* the instance that works on it
  reason,    \* why it goes to the dead letter queue
  mode,      \* each instance: running, draining, stopped, down
  poll,      \* the deliveries its current pollOnce still awaits
  troubled,  \* messages that a failure, a shutdown or a slow call has met
  failures   \* failures so far

queueVars    == <<gone, visible, received, dlq>>
deliveryVars == <<step, owner, reason>>
instanceVars == <<mode, poll>>
faultVars    == <<troubled, failures>>
vars == <<groups, queueVars, inbox, deliveryVars, instanceVars, faultVars>>

Reasons == {"invalid_payload", "permanent_failure", "max_retries_exceeded", "redrive"}

Live == {"execute", "ack", "backoff", "dlqSend", "dlqDelete"}

Current(d) == d[2] = received[d[1]]  \* its receipt handle is the last one

Together(m, n) == \E g \in groups : {m, n} \subseteq g

(* A group is held back while a message of it is hidden.                   *)
Held(m) == \E n \in Messages \ gone : Together(m, n) /\ ~visible[n]

Ahead(m) == {n \in Messages \ gone : Together(m, n) /\ n < m}

Waiting == {m \in Messages \ gone : visible[m] /\ ~Held(m)}

GoTo(d, next) ==
  /\ step' = [step EXCEPT ![d] = next]
  /\ UNCHANGED <<owner, poll>>

Leaves(d, rest) ==
  /\ step'   = [step EXCEPT ![d] = "ended"]
  /\ owner'  = [owner EXCEPT ![d] = Null]
  /\ reason' = [reason EXCEPT ![d] = "none"]
  /\ poll'   = [poll EXCEPT ![owner[d]] = rest]

(* consume returns; Promise.all waits for the others of the batch.         *)
Ends(d) == Leaves(d, poll[owner[d]] \ {d})

(* consume throws: Promise.all and pollOnce reject at once, and the others *)
(* of the batch run on.                                                    *)
Throws(d) == Leaves(d, IF d \in poll[owner[d]] THEN {} ELSE poll[owner[d]])

Fail(messages) ==
  /\ failures < MaxFailures
  /\ failures' = failures + 1
  /\ troubled' = troubled \cup messages

-------------------------------------------------------------------------------
(* pollOnce                                                                *)

(* A batch takes the messages of a group in their order.                   *)
Batches == {S \in SUBSET {m \in Waiting : received[m] < RedriveLimit} :
              /\ S # {} /\ Cardinality(S) <= BatchLimit
              /\ \A m \in S : Ahead(m) \subseteq S}

(* Mutant: the envelope is not parsed first.                               *)
FirstStepUnparsed(m) == "execute"

FirstStep(m) == IF m \in Valid THEN "execute" ELSE "dlqSend"

(* The n-th receive of each message of the batch.                          *)
Received(S) == {<<m, received[m] + 1>> : m \in S}

Hide(S) ==
  /\ visible'  = [m \in Messages |-> visible[m] /\ m \notin S]
  /\ received' = [m \in Messages |-> IF m \in S THEN received[m] + 1 ELSE received[m]]

Receive(i) ==
  /\ mode[i] = "running"
  /\ poll[i] = {}
  /\ \E S \in Batches :
       /\ Hide(S)
       /\ poll'   = [poll EXCEPT ![i] = Received(S)]
       /\ step'   = [d \in Deliveries |->
                       IF d \in Received(S) THEN FirstStep(d[1]) ELSE step[d]]
       /\ owner'  = [d \in Deliveries |-> IF d \in Received(S) THEN i ELSE owner[d]]
       /\ reason' = [d \in Deliveries |->
                       IF d \in Received(S) /\ d[1] \notin Valid
                       THEN "invalid_payload" ELSE reason[d]]
  /\ UNCHANGED <<groups, gone, dlq, inbox, mode, faultVars>>

(* The answer of the poll never arrives: the messages are hidden, and      *)
(* nobody works on them.                                                   *)
LoseBatch(i) ==
  /\ poll[i] = {}
  /\ \E S \in Batches :
       /\ Hide(S)
       /\ step' = [d \in Deliveries |-> IF d \in Received(S) THEN "ended" ELSE step[d]]
       /\ Fail(S)
  /\ UNCHANGED <<gone, dlq, inbox, owner, reason, poll>>

ReceiveLost(i) ==
  /\ mode[i] = "running"
  /\ LoseBatch(i)
  /\ UNCHANGED <<groups, mode>>

-------------------------------------------------------------------------------
(* processWagerMessage: how execute ends                                   *)

(* A result: committed with its inbox row, or replayed.                    *)
ExecuteSucceeds(d) ==
  /\ step[d] = "execute"
  /\ inbox' = inbox \cup {d[1]}
  /\ GoTo(d, "ack")
  /\ UNCHANGED <<queueVars, reason, mode, faultVars>>

ToDlq(d, why) ==
  /\ GoTo(d, "dlqSend")
  /\ reason' = [reason EXCEPT ![d] = why]

(* A DomainError other than DEPENDENCY_UNAVAILABLE; a stored operation is  *)
(* replayed and never refused.                                             *)
ExecuteRefuses(d) ==
  /\ step[d] = "execute"
  /\ d[1] \notin inbox
  /\ ToDlq(d, "permanent_failure")
  /\ UNCHANGED <<queueVars, inbox, mode, faultVars>>

(* handleTransientError *)
Transient(d) ==
  \/ /\ d[2] >= MaxReceiveCount
     /\ ToDlq(d, "max_retries_exceeded")
  \/ /\ d[2] < MaxReceiveCount
     /\ GoTo(d, "backoff")
     /\ UNCHANGED reason

(* Any other error; its transaction is rolled back, or, when the answer of *)
(* the COMMIT is lost, stored.                                             *)
ExecuteFails(d) ==
  /\ step[d] = "execute"
  /\ Transient(d)
  /\ \/ UNCHANGED <<inbox, faultVars>>
     \/ inbox' = inbox \cup {d[1]} /\ Fail({d[1]})
  /\ UNCHANGED <<queueVars, mode>>

-------------------------------------------------------------------------------
(* Calls to SQS.  A call that throws makes the delivery, and with it       *)
(* pollOnce, fail.                                                         *)

(* shutdown destroyed the client.                                          *)
Destroyed(d) ==
  /\ mode[owner[d]] = "stopped"
  /\ troubled' = troubled \cup {d[1]}
  /\ UNCHANGED failures

CallFails(d) == Throws(d) /\ (Fail({d[1]}) \/ Destroyed(d))

(* DeleteMessage with the handle of an earlier receive, or of a message    *)
(* that is visible again, may be refused or ignored.                       *)
DeleteMessage(d) ==
  \/ gone' = gone \cup {d[1]} /\ Ends(d) /\ UNCHANGED faultVars
  \/ /\ ~Current(d) \/ visible[d[1]]
     /\ Ends(d) \/ Throws(d)
     /\ UNCHANGED <<gone, faultVars>>
  \/ /\ gone' \in {gone, gone \cup {d[1]}}
     /\ CallFails(d)

(* deleteProcessedMessage; the heartbeat has stopped.                      *)
Acknowledge(d) ==
  /\ step[d] = "ack"
  /\ DeleteMessage(d)
  /\ UNCHANGED <<visible, received, dlq, inbox, mode>>

(* ChangeMessageVisibility, accepted for the last receive of a hidden      *)
(* message only.                                                           *)
Backoff(d) ==
  /\ step[d] = "backoff"
  /\ \/ /\ IF Current(d) /\ ~visible[d[1]] /\ d[1] \notin gone
           THEN Ends(d) ELSE Throws(d)
        /\ UNCHANGED faultVars
     \/ CallFails(d)
  /\ UNCHANGED <<queueVars, inbox, mode>>

(* Mutant: toDlq deletes the message whether it could be sent or not.      *)
DlqSendUnchecked(d) ==
  /\ step[d] = "dlqSend"
  /\ \/ dlq' = dlq \cup {<<d[1], reason[d]>>} /\ UNCHANGED faultVars
     \/ UNCHANGED dlq /\ Fail({d[1]})
  /\ GoTo(d, "dlqDelete")
  /\ UNCHANGED <<gone, visible, received, inbox, reason, mode>>

(* toDlq: the two calls in this order.  The deduplication id is a hash of  *)
(* reason and body, so that a repeated send adds nothing.                  *)
DlqSend(d) ==
  /\ step[d] = "dlqSend"
  /\ \/ /\ dlq' = dlq \cup {<<d[1], reason[d]>>}
        /\ GoTo(d, "dlqDelete")
        /\ UNCHANGED <<reason, faultVars>>
     \/ /\ dlq' \in {dlq, dlq \cup {<<d[1], reason[d]>>}}
        /\ CallFails(d)
  /\ UNCHANGED <<gone, visible, received, inbox, mode>>

DlqDelete(d) ==
  /\ step[d] = "dlqDelete"
  /\ DeleteMessage(d)
  /\ UNCHANGED <<visible, received, dlq, inbox, mode>>

-------------------------------------------------------------------------------
(* Visibility                                                              *)

(* The last delivery of m is being worked on.                              *)
LastDelivery(m) == <<m, received[m]>>
InWork(m) == received[m] > 0 /\ step[LastDelivery(m)] \in Live

(* Mutants: there is no heartbeat; it stops before the errors are handled; *)
(* it is never cleared.                                                    *)
HeartbeatingNever(m) == FALSE

HeartbeatingWhileExecuting(m) ==
  received[m] > 0 /\ step[LastDelivery(m)] = "execute"

HeartbeatingForever(m) == received[m] > 0 /\ m \in Valid

(* startVisibilityTimer: from before execute until its errors are handled, *)
(* but not while the message is deleted, and not for an invalid body.      *)
Heartbeating(m) ==
  /\ m \in Valid
  /\ InWork(m)
  /\ step[LastDelivery(m)] # "ack"

(* A backoff ends, a worker is gone, or a call without heartbeat is slow.  *)
VisibilityEnds(m) ==
  /\ m \notin gone
  /\ ~visible[m]
  /\ ~Heartbeating(m)
  /\ visible' = [visible EXCEPT ![m] = TRUE]
  /\ troubled' = IF InWork(m) /\ (m \notin Valid \/ step[LastDelivery(m)] = "ack")
                 THEN troubled \cup {m} ELSE troubled
  /\ UNCHANGED <<groups, gone, received, dlq, inbox, deliveryVars, instanceVars,
                 failures>>

(* Renewals that are late or lost.                                         *)
HeartbeatFails(m) ==
  /\ m \notin gone
  /\ ~visible[m]
  /\ Heartbeating(m)
  /\ visible' = [visible EXCEPT ![m] = TRUE]
  /\ Fail({m})
  /\ UNCHANGED <<groups, gone, received, dlq, inbox, deliveryVars, instanceVars>>

(* The queue's own redrive policy, at the receive after the last one.      *)
Redrive(m) ==
  /\ m \in Waiting
  /\ Ahead(m) = {}
  /\ received[m] = RedriveLimit
  /\ gone' = gone \cup {m}
  /\ dlq'  = dlq \cup {<<m, "redrive">>}
  /\ UNCHANGED <<groups, visible, received, inbox, deliveryVars, instanceVars,
                 faultVars>>

-------------------------------------------------------------------------------
(* Instances                                                               *)

Own(i)      == {d \in Deliveries : owner[d] = i}
InFlight(i) == {d \in Own(i) : d[1] \in Valid}  \* inFlightMessages

(* Whatever still runs dies with the process.                              *)
Dies(i) ==
  /\ step'   = [d \in Deliveries |-> IF d \in Own(i) THEN "ended" ELSE step[d]]
  /\ owner'  = [d \in Deliveries |-> IF d \in Own(i) THEN Null ELSE owner[d]]
  /\ reason' = [d \in Deliveries |-> IF d \in Own(i) THEN "none" ELSE reason[d]]
  /\ mode' = [mode EXCEPT ![i] = "down"]
  /\ poll' = [poll EXCEPT ![i] = {}]

Crash(i) ==
  /\ mode[i] # "down"
  /\ Dies(i)
  /\ Fail({d[1] : d \in Own(i)})
  /\ UNCHANGED <<groups, queueVars, inbox>>

(* SIGTERM: shutdown aborts a poll that still waits for its answer, and    *)
(* waits for the messages in flight.                                       *)
Shutdown(i) ==
  /\ mode[i] = "running"
  /\ mode' = [mode EXCEPT ![i] = "draining"]
  /\ UNCHANGED groups
  /\ \/ LoseBatch(i)
     \/ Fail({}) /\ UNCHANGED <<queueVars, inbox, deliveryVars, poll>>

Drained(i) ==
  /\ mode[i] = "draining"
  /\ InFlight(i) = {}
  /\ mode' = [mode EXCEPT ![i] = "stopped"]
  /\ UNCHANGED <<queueVars, inbox, deliveryVars, poll, faultVars>>

(* handleDrainTimeout: the messages in flight are made visible at once,    *)
(* except where the call fails or the handle is old; they are worked on    *)
(* meanwhile.                                                              *)
DrainTimeout(i) ==
  LET late == {d[1] : d \in InFlight(i)}
      held == {d[1] : d \in {e \in InFlight(i) : Current(e)}}
  IN  /\ mode[i] = "draining"
      /\ late # {}
      /\ \E released \in SUBSET held :
           visible' = [m \in Messages |-> visible[m] \/ m \in released]
      /\ troubled' = troubled \cup late
      /\ mode' = [mode EXCEPT ![i] = "stopped"]
      /\ UNCHANGED <<gone, received, dlq, inbox, deliveryVars, poll, failures>>

(* The coordinator awaits the consumer loop, then the process ends; what a *)
(* failed pollOnce left running ends with it.                              *)
Exit(i) ==
  /\ mode[i] = "stopped"
  /\ poll[i] = {}
  /\ Dies(i)
  /\ troubled' = troubled \cup {d[1] : d \in Own(i)}
  /\ UNCHANGED <<queueVars, inbox, failures>>

Restart(i) ==
  /\ mode[i] = "down"
  /\ mode' = [mode EXCEPT ![i] = "running"]
  /\ UNCHANGED <<queueVars, inbox, deliveryVars, poll, faultVars>>

-------------------------------------------------------------------------------
Init ==
  /\ groups \in Groupings
  /\ gone = {} /\ dlq = {} /\ inbox = {} /\ troubled = {}
  /\ visible  = [m \in Messages |-> TRUE]
  /\ received = [m \in Messages |-> 0]
  /\ step     = [d \in Deliveries |-> "none"]
  /\ owner    = [d \in Deliveries |-> Null]
  /\ reason   = [d \in Deliveries |-> "none"]
  /\ mode     = [i \in Instances |-> "running"]
  /\ poll     = [i \in Instances |-> {}]
  /\ failures = 0

Work(d) ==
  /\ UNCHANGED groups
  /\ \/ ExecuteSucceeds(d) \/ ExecuteRefuses(d) \/ ExecuteFails(d)
     \/ Acknowledge(d) \/ Backoff(d) \/ DlqSend(d) \/ DlqDelete(d)

Coordinate(i) ==
  /\ UNCHANGED groups
  /\ Drained(i) \/ DrainTimeout(i) \/ Exit(i) \/ Restart(i)

Next ==
  \/ \E d \in Deliveries : Work(d)
  \/ \E i \in Instances : \/ Receive(i) \/ ReceiveLost(i)
                          \/ Crash(i) \/ Shutdown(i) \/ Coordinate(i)
  \/ \E m \in Messages : VisibilityEnds(m) \/ HeartbeatFails(m) \/ Redrive(m)

Spec == Init /\ [][Next]_vars

(* The consumer loop polls while it runs, promises are driven by the event *)
(* loop, an instance that went down is started again, time passes.         *)
Fairness ==
  /\ \A d \in Deliveries : WF_vars(Work(d))
  /\ \A i \in Instances : WF_vars(Receive(i)) /\ WF_vars(Coordinate(i))
  /\ \A m \in Messages : WF_vars(VisibilityEnds(m)) /\ WF_vars(Redrive(m))

FairSpec == Spec /\ Fairness

-------------------------------------------------------------------------------
(* Properties                                                              *)

Steps == Live \cup {"none", "ended"}

QueueTypeOK ==
  /\ gone \subseteq Messages /\ inbox \subseteq Valid /\ troubled \subseteq Messages
  /\ dlq \subseteq Messages \X Reasons
  /\ visible \in [Messages -> BOOLEAN]
  /\ received \in [Messages -> 0 .. RedriveLimit]
  /\ failures \in 0 .. MaxFailures

WorkTypeOK ==
  /\ step \in [Deliveries -> Steps]
  /\ owner \in [Deliveries -> Instances \cup {Null}]
  /\ reason \in [Deliveries -> Reasons \cup {"none"}]
  /\ mode \in [Instances -> {"running", "draining", "stopped", "down"}]
  /\ poll \in [Instances -> SUBSET Deliveries]
  /\ \A d \in Deliveries :
       /\ step[d] = "none" <=> d[2] > received[d[1]]
       /\ step[d] \in Live <=> owner[d] # Null
       /\ owner[d] # Null => mode[owner[d]] # "down"
  /\ \A i \in Instances : \A d \in poll[i] : owner[d] = i

(* Types, and: a message was received as often as it has deliveries, and   *)
(* only an instance that is up works on one.                               *)
TypeOK == QueueTypeOK /\ WorkTypeOK

(* No message is lost: one that left the input queue has its operation     *)
(* stored or lies in the dead letter queue, whatever crashes, lost answers *)
(* and shutdowns happen between execute, the DLQ send and the delete.      *)
NothingIsLost ==
  \A m \in gone : m \in inbox \/ \E r \in Reasons : <<m, r>> \in dlq

(* The dead letter queue does not hold an operation that was carried out,  *)
(* and the queue's own redrive never overtakes the consumer's limit, unless *)
(* something went wrong outside the consumer with this very message.       *)
DeadLettersAreEarned ==
  \A m \in Messages \ troubled :
    /\ <<m, "redrive">> \notin dlq
    /\ m \in inbox => \A r \in Reasons : <<m, r>> \notin dlq

(* The heartbeat keeps a message with one worker: two deliveries execute   *)
(* it at the same time only after a failure or a shutdown.                 *)
ExecutedAlone ==
  \A m \in Messages \ troubled :
    Cardinality({n \in 1 .. RedriveLimit : step[<<m, n>>] = "execute"}) <= 1

(* A wallet's messages are worked on by one instance at a time, although   *)
(* batches fail halfway, deliveries outlive their poll and the group is    *)
(* released by timeouts: two deliveries of one group are at two instances  *)
(* only after a failure or a shutdown (ARCHITECTURE.md:252).               *)
OneInstancePerGroup ==
  \A d, e \in {x \in Deliveries : step[x] \in Live /\ x[1] \notin troubled} :
    Together(d[1], e[1]) => owner[d] = owner[e]

(* Every message leaves the input queue, also behind others of its group.  *)
MessagesSettle == \A m \in Messages : <>(m \in gone)
===============================================================================
