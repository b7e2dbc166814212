------------------------------ MODULE OutboxProofs ------------------------------
(***************************************************************************)
(* Theorems about OutboxPublisher for every number of publishers, events,  *)
(* failures and every batch limit.  TypeOK is inductive; the duplicates    *)
(* need DeliveryInv, which says what a batch knows of its rows for as long *)
(* as no answer was lost and no lease ran out (an event not in `excused`). *)
(***************************************************************************)
EXTENDS OutboxPublisher, TLAPS

(* Only a batch whose answer has arrived has accepted rows, and they are   *)
(* rows of the batch; an instance that is down has no batch.               *)
AnswersFit ==
  \A k \in Publishers :
    /\ accepted[k] \subseteq batch[k]
    /\ step[k] \in {"idle", "claim", "load", "send"} => accepted[k] = {}
    /\ mode[k] = "down" => step[k] = "idle"

(* Steps of the coordinator, which leave the tables and batches alone.     *)
Quiet(k) == Begin(k) \/ Stop(k) \/ Exit(k) \/ Boot(k)

(* What the queue's answer lists, the queue has taken in.                  *)
AcceptedWasSent == \A k \in Publishers : \A m \in accepted[k] : sent[m] > 0

(* So it has what its deduplication window remembers.                      *)
RecentWasSent == \A m \in recent : sent[m] > 0

(* A row of a batch that is not accepted: the batch owns its lease, and    *)
(* the queue does not have it.                                             *)
BatchOwnsRows ==
  \A k \in Publishers : \A m \in batch[k] \ accepted[k] :
    m \notin excused => /\ rows[m].leased /\ rows[m].token = k
                        /\ ~rows[m].published
                        /\ sent[m] = 0

(* An event the queue has is published or still under a lease.             *)
SentIsHeld ==
  \A m \in Events : sent[m] > 0 /\ m \notin excused =>
    m \in Staged /\ (rows[m].published \/ rows[m].leased)

SendInv     == TypeOK /\ AnswersFit /\ RecentWasSent /\ AcceptedWasSent /\ PublishedWasSent
DeliveryInv == SendInv /\ BatchOwnsRows /\ SentIsHeld /\ DuplicatesAreExcused

-------------------------------------------------------------------------------
(* Types                                                                   *)

(* A row's lease names its owner, and a published row has none.            *)
RowOK(row) ==
  /\ row \in OutboxRows
  /\ row.leased => row.token # Null
  /\ row.published => row.token = Null

RowsOK ==
  /\ rows \in [Events -> OutboxRows \cup {Null}]
  /\ \A m \in Staged : RowOK(rows[m])

(* TypeOK is RowsOK and the types of the rest.                             *)
LEMMA TypeOKRows ==
  ASSUME TypeOK
  PROVE  RowsOK
BY DEF TypeOK, RowsOK, RowOK, Staged

(* A step that changes rows into well-formed rows loses none of them.      *)
LEMMA RowsKept ==
  ASSUME RowsOK,
         rows' = [m \in Events |-> rows'[m]],
         \A m \in Events : rows'[m] = rows[m] \/ RowOK(rows'[m])
  PROVE  RowsOK' /\ Staged \subseteq Staged'
BY OutboxAssumption DEF RowsOK, Staged, RowOK

(* Every step of the publishers, the queue and the clock keeps the types.  *)
LEMMA TypeStep ==
  ASSUME TypeOK, [Next]_vars
  PROVE  TypeOK'
<1> USE OutboxAssumption
<1>rows. RowsOK
  BY TypeOKRows
<1>1. ASSUME NEW m \in Events, Stage(m) PROVE TypeOK'
  BY <1>1 DEF Stage, TypeOK, FreshRow, OutboxRows, Staged, publisherVars, queueVars
<1>2. ASSUME NEW m \in Events, LeaseEnds(m) PROVE TypeOK'
  <2>1. RowOK([rows[m] EXCEPT !.leased = FALSE])
    BY <1>2, <1>rows DEF LeaseEnds, Unsettled, Staged, RowsOK, RowOK, OutboxRows
  <2>2. rows' = [i \in Events |-> IF i = m THEN [rows[m] EXCEPT !.leased = FALSE] ELSE rows[i]]
    BY <1>2, <1>rows DEF LeaseEnds, RowsOK
  <2>3. RowsOK' /\ Staged \subseteq Staged'
    BY <2>1, <2>2, <1>rows, RowsKept
  <2> QED BY <1>2, <2>3 DEF LeaseEnds, Fail, TypeOK, RowsOK, RowOK, publisherVars, queueVars
<1>3. ASSUME NEW m \in Events, BackoffEnds(m) PROVE TypeOK'
  <2>1. RowOK([rows[m] EXCEPT !.due = TRUE])
    BY <1>3, <1>rows DEF BackoffEnds, Unsettled, Staged, RowsOK, RowOK, OutboxRows
  <2>2. rows' = [i \in Events |-> IF i = m THEN [rows[m] EXCEPT !.due = TRUE] ELSE rows[i]]
    BY <1>3, <1>rows DEF BackoffEnds, RowsOK
  <2>3. RowsOK' /\ Staged \subseteq Staged'
    BY <2>1, <2>2, <1>rows, RowsKept
  <2> QED BY <1>3, <2>3 DEF BackoffEnds, TypeOK, RowsOK, RowOK, publisherVars, queueVars
<1>4. ASSUME NEW m \in Events, DedupWindowEnds(m) PROVE TypeOK'
  BY <1>4 DEF DedupWindowEnds, TypeOK, Staged, publisherVars
<1>5. ASSUME NEW k \in Publishers, Claim(k) PROVE TypeOK'
  <2>1. \A m \in Oldest(Claimable) : m \in Staged /\ ~rows[m].published
    BY DEF Oldest, Claimable, Unsettled
  <2>2. \A m \in Oldest(Claimable) : RowOK([rows[m] EXCEPT !.leased = TRUE, !.token = k])
    BY <2>1, <1>rows DEF RowsOK, RowOK, OutboxRows
  <2>3. RowsOK' /\ Staged \subseteq Staged'
    BY <2>2, <1>5, <1>rows, RowsKept DEF Claim
  <2> QED BY <1>5, <2>1, <2>3 DEF Claim, GoTo, TypeOK, RowsOK, RowOK, queueVars
<1>6. ASSUME NEW k \in Publishers, Load(k) PROVE TypeOK'
  BY <1>6 DEF Load, GoTo, Mine, TypeOK, Staged, queueVars
<1>7. ASSUME NEW k \in Publishers, Send(k) PROVE TypeOK'
  BY <1>7 DEF Send, Enqueue, Fail, GoTo, TypeOK, Staged
<1>8. ASSUME NEW k \in Publishers, Confirm(k) PROVE TypeOK'
  <2>1. Owned(k, accepted[k]) \subseteq Staged
    BY <1>8 DEF Owned, TypeOK
  <2>2. \A m \in Owned(k, accepted[k]) :
          RowOK([rows[m] EXCEPT !.published = TRUE, !.leased = FALSE, !.token = Null])
    BY <2>1, <1>rows DEF RowsOK, RowOK, OutboxRows
  <2>3. RowsOK' /\ Staged \subseteq Staged'
    BY <2>2, <1>8, <1>rows, RowsKept DEF Confirm
  <2> QED BY <1>8, <2>3 DEF Confirm, GoTo, TypeOK, RowsOK, RowOK, queueVars
<1>9. ASSUME NEW k \in Publishers, Postpone(k) PROVE TypeOK'
  <2>1. Owned(k, batch[k] \ accepted[k]) \subseteq Staged
    BY <1>9 DEF Owned, TypeOK
  <2>2. \A m \in Owned(k, batch[k] \ accepted[k]) :
          RowOK([rows[m] EXCEPT !.due = FALSE, !.leased = FALSE, !.token = Null])
    BY <2>1, <1>rows DEF RowsOK, RowOK, OutboxRows
  <2>3. RowsOK' /\ Staged \subseteq Staged'
    BY <2>2, <1>9, <1>rows, RowsKept DEF Postpone
  <2> QED BY <1>9, <2>3 DEF Postpone, EndBatch, GoTo, TypeOK, RowsOK, RowOK, queueVars
<1>10. ASSUME NEW k \in Publishers, Crash(k) PROVE TypeOK'
  BY <1>10 DEF Crash, EndBatch, Fail, GoTo, TypeOK, Staged, queueVars
<1>11. CASE UNCHANGED vars
  BY <1>11 DEF vars, publisherVars, queueVars, TypeOK, Staged
<1>12. ASSUME NEW k \in Publishers, Quiet(k) PROVE TypeOK'
  BY <1>12 DEF Quiet, Begin, Stop, Exit, Boot, GoTo, TypeOK, Staged, queueVars
<1> QED BY <1>1, <1>2, <1>3, <1>4, <1>5, <1>6, <1>7, <1>8, <1>9, <1>10, <1>11, <1>12
        DEF Next, PublishBatch, Coordinate, Quiet

(* Every stored row, lease and count has its type, a running lease has an  *)
(* owner, and a published row has none.                                    *)
THEOREM OutboxTypeCorrect == Spec => []TypeOK
<1>1. Init => TypeOK
  BY OutboxAssumption DEF Init, TypeOK, Staged
<1>2. TypeOK /\ [Next]_vars => TypeOK'
  BY TypeStep
<1> QED BY <1>1, <1>2, PTL DEF Spec

-------------------------------------------------------------------------------
(* Nothing is published unsent                                             *)

(* Every step keeps the facts about what was sent, and the answers: only   *)
(* Confirm publishes, and it publishes rows the answer lists.              *)
LEMMA SendStep ==
  ASSUME SendInv, [Next]_vars
  PROVE  SendInv'
<1> USE DEF SendInv
<1>type. TypeOK'
  BY TypeStep
<1>1. ASSUME NEW m \in Events, Stage(m) PROVE SendInv'
  BY <1>1, <1>type DEF Stage, FreshRow, TypeOK, Staged, AnswersFit, RecentWasSent, AcceptedWasSent,
     PublishedWasSent, publisherVars, queueVars
<1>2. ASSUME NEW m \in Events, LeaseEnds(m) PROVE SendInv'
  BY <1>2, <1>type DEF LeaseEnds, Unsettled, TypeOK, Staged, OutboxRows, AnswersFit,
     RecentWasSent, AcceptedWasSent, PublishedWasSent, publisherVars, queueVars
<1>3. ASSUME NEW m \in Events, BackoffEnds(m) PROVE SendInv'
  BY <1>3, <1>type DEF BackoffEnds, Unsettled, TypeOK, Staged, OutboxRows, AnswersFit,
     RecentWasSent, AcceptedWasSent, PublishedWasSent, publisherVars, queueVars
<1>4. ASSUME NEW m \in Events, DedupWindowEnds(m) PROVE SendInv'
  BY <1>4, <1>type DEF DedupWindowEnds, Staged, AnswersFit, RecentWasSent, AcceptedWasSent,
     PublishedWasSent, publisherVars
<1>5. ASSUME NEW k \in Publishers, Claim(k) PROVE SendInv'
  <2>1. AnswersFit' /\ RecentWasSent' /\ AcceptedWasSent'
    BY <1>5 DEF Claim, GoTo, TypeOK, AnswersFit, RecentWasSent, AcceptedWasSent, queueVars
  <2>2. ASSUME NEW m \in Staged', rows'[m].published PROVE m \in Staged /\ rows[m].published
    BY <1>5, <2>2 DEF Claim, Claimable, Oldest, Unsettled, TypeOK, OutboxRows, Staged
  <2> QED BY <1>5, <1>type, <2>1, <2>2 DEF Claim, PublishedWasSent, queueVars
<1>6. ASSUME NEW k \in Publishers, Load(k) PROVE SendInv'
  BY <1>6, <1>type DEF Load, Mine, GoTo, TypeOK, Staged, AnswersFit, RecentWasSent, AcceptedWasSent,
     PublishedWasSent, queueVars
<1>7. ASSUME NEW k \in Publishers, Send(k) PROVE SendInv'
  <2>1. PICK taken \in SUBSET batch[k], listed \in SUBSET batch[k] :
          /\ listed \subseteq taken
          /\ Enqueue(taken)
          /\ accepted' = [accepted EXCEPT ![k] = listed]
          /\ GoTo(k, IF listed = {} THEN "postpone" ELSE "confirm")
    BY <1>7 DEF Send
  <2>2. AnswersFit'
    BY <1>7, <2>1 DEF Send, GoTo, TypeOK, AnswersFit
  <2>3. ASSUME NEW m \in Events PROVE sent[m] > 0 => sent'[m] > 0
    BY <2>1 DEF Enqueue, TypeOK
  <2>4. ASSUME NEW m \in listed PROVE sent'[m] > 0
    <3>1. m \in Events
      BY <1>7 DEF TypeOK, Staged
    <3>2. CASE m \in recent
      BY <2>3, <3>1, <3>2 DEF RecentWasSent
    <3>3. CASE m \notin recent
      <4>1. m \in taken
        BY <2>1, <2>4
      <4> QED BY <2>1, <3>1, <3>3, <4>1 DEF Enqueue, TypeOK
    <3> QED BY <3>2, <3>3
  <2>5. AcceptedWasSent'
    BY <2>1, <2>3, <2>4 DEF TypeOK, Staged, AcceptedWasSent
  <2>6. PublishedWasSent'
    BY <1>7, <2>3 DEF Send, Staged, PublishedWasSent
  <2>7. RecentWasSent'
    BY <2>1, <2>3 DEF Enqueue, TypeOK, Staged, RecentWasSent
  <2> QED BY <1>type, <2>2, <2>5, <2>6, <2>7
<1>8. ASSUME NEW k \in Publishers, Confirm(k) PROVE SendInv'
  <2>1. AnswersFit' /\ RecentWasSent' /\ AcceptedWasSent'
    BY <1>8 DEF Confirm, GoTo, TypeOK, AnswersFit, RecentWasSent, AcceptedWasSent, queueVars
  <2>2. ASSUME NEW m \in Staged', rows'[m].published
        PROVE  m \in accepted[k] \/ (m \in Staged /\ rows[m].published)
    <3>1. m \in Owned(k, accepted[k]) \/ rows'[m] = rows[m]
      BY <1>8, <2>2 DEF Confirm, Staged
    <3> QED BY <2>2, <3>1 DEF Owned, Staged
  <2> QED BY <1>8, <1>type, <2>1, <2>2 DEF Confirm, PublishedWasSent, AcceptedWasSent, queueVars
<1>9. ASSUME NEW k \in Publishers, Postpone(k) PROVE SendInv'
  <2>1. AnswersFit' /\ RecentWasSent' /\ AcceptedWasSent'
    BY <1>9 DEF Postpone, EndBatch, GoTo, TypeOK, AnswersFit, RecentWasSent, AcceptedWasSent,
       queueVars
  <2>2. ASSUME NEW m \in Staged', rows'[m].published PROVE m \in Staged /\ rows[m].published
    <3>1. CASE m \in Owned(k, batch[k] \ accepted[k])
      <4>1. m \in Events /\ rows[m] \in OutboxRows
        BY <1>9, <3>1 DEF Owned, TypeOK, Staged
      <4>2. rows'[m].published = rows[m].published
        BY <1>9, <3>1, <4>1 DEF Postpone, OutboxRows
      <4> QED BY <2>2, <3>1, <4>2 DEF Owned
    <3>2. CASE m \notin Owned(k, batch[k] \ accepted[k])
      BY <1>9, <2>2, <3>2 DEF Postpone, Staged
    <3> QED BY <3>1, <3>2
  <2> QED BY <1>9, <1>type, <2>1, <2>2 DEF Postpone, PublishedWasSent, queueVars
<1>10. ASSUME NEW k \in Publishers, Crash(k) PROVE SendInv'
  BY <1>10, <1>type DEF Crash, EndBatch, GoTo, TypeOK, Staged, AnswersFit, RecentWasSent,
     AcceptedWasSent, PublishedWasSent, queueVars
<1>11. CASE UNCHANGED vars
  BY <1>11, <1>type DEF vars, publisherVars, queueVars, Staged, AnswersFit, RecentWasSent,
     AcceptedWasSent, PublishedWasSent
<1>12. ASSUME NEW k \in Publishers, Quiet(k) PROVE SendInv'
  <2>1. AnswersFit'
    BY <1>12 DEF Quiet, Begin, Stop, Exit, Boot, GoTo, TypeOK, AnswersFit
  <2> QED BY <1>12, <1>type, <2>1 DEF Quiet, Begin, Stop, Exit, Boot, Staged, RecentWasSent,
          AcceptedWasSent, PublishedWasSent, queueVars
<1> QED BY <1>1, <1>2, <1>3, <1>4, <1>5, <1>6, <1>7, <1>8, <1>9, <1>10, <1>11, <1>12
        DEF Next, PublishBatch, Coordinate, Quiet

(* The first state has sent, accepted and published nothing.               *)
LEMMA SendInit ==
  ASSUME Init
  PROVE  SendInv
BY OutboxAssumption DEF Init, SendInv, TypeOK, Staged, AnswersFit, RecentWasSent,
   AcceptedWasSent, PublishedWasSent

(* An event is marked published only after the queue took it in, whatever  *)
(* crashes, lost answers and expired leases.                               *)
THEOREM NothingPublishedUnsent == Spec => []PublishedWasSent
<1>1. Init => SendInv
  BY SendInit
<1>2. SendInv /\ [Next]_vars => SendInv'
  BY SendStep
<1>3. SendInv => PublishedWasSent
  BY DEF SendInv
<1> QED BY <1>1, <1>2, <1>3, PTL DEF Spec

-------------------------------------------------------------------------------
(* Duplicates are excused                                                  *)

(* A step that leaves batches, answers and the queue alone, and no row     *)
(* that a batch owns or the queue has, keeps DeliveryInv.                  *)
LEMMA DeliveryUntouched ==
  ASSUME DeliveryInv, SendInv', excused \subseteq excused',
         UNCHANGED <<batch, accepted, sent>>,
         \A m \in Events : sent[m] > 0 /\ m \notin excused' => rows'[m] = rows[m],
         \A k \in Publishers : \A m \in batch[k] \ accepted[k] :
           m \notin excused' => /\ rows'[m].leased = rows[m].leased
                               /\ rows'[m].token = rows[m].token
                               /\ rows'[m].published = rows[m].published
  PROVE  DeliveryInv'
<1>1. BatchOwnsRows'
  BY DEF DeliveryInv, BatchOwnsRows
<1>2. SentIsHeld'
  BY DEF DeliveryInv, SentIsHeld, Staged
<1>3. DuplicatesAreExcused'
  BY DEF DeliveryInv, DuplicatesAreExcused
<1> QED BY <1>1, <1>2, <1>3 DEF DeliveryInv

(* A free row is claimed unsent.                                           *)
LEMMA DeliveryClaim ==
  ASSUME DeliveryInv, SendInv', NEW k \in Publishers, Claim(k)
  PROVE  DeliveryInv'
<1> DEFINE taken == Oldest(Claimable)
<1>type. TypeOK /\ AnswersFit
  BY DEF DeliveryInv, SendInv
<1>1. ASSUME NEW m \in taken
      PROVE  /\ m \in Events /\ rows[m] \in OutboxRows
             /\ ~rows[m].published /\ ~rows[m].leased
  BY <1>1, <1>type DEF Oldest, Claimable, Unsettled, Staged, TypeOK
<1>2. ASSUME NEW m \in taken
      PROVE rows'[m].leased /\ rows'[m].token = k /\ ~rows'[m].published
  BY <1>1, <1>2 DEF Claim, OutboxRows
<1>3. ASSUME NEW m \in Events, m \notin taken PROVE rows'[m] = rows[m]
  BY <1>3 DEF Claim
<1>4. BatchOwnsRows'
  <2> SUFFICES ASSUME NEW j \in Publishers, NEW m \in batch'[j] \ accepted'[j], m \notin excused'
               PROVE  /\ rows'[m].leased /\ rows'[m].token = j
                      /\ ~rows'[m].published
                      /\ sent'[m] = 0
    BY DEF BatchOwnsRows
  <2>1. CASE j = k
    <3>1. m \in taken
      BY <2>1, <1>type DEF Claim, TypeOK
    <3>2. m \in Events /\ m \notin excused /\ ~rows[m].published /\ ~rows[m].leased
      BY <3>1, <1>1 DEF Claim
    <3>3. ~(sent[m] > 0)
      BY <3>2 DEF DeliveryInv, SentIsHeld
    <3>4. sent[m] = 0
      BY <3>2, <3>3, <1>type DEF TypeOK
    <3> QED BY <1>2, <2>1, <3>1, <3>4 DEF Claim, queueVars
  <2>2. CASE j # k
    <3>1. m \in batch[j] \ accepted[j] /\ m \notin excused
      BY <2>2, <1>type DEF Claim, TypeOK
    <3>2. m \in Events /\ m \notin taken
      BY <3>1, <1>1, <1>type DEF DeliveryInv, BatchOwnsRows, TypeOK, Staged
    <3> QED BY <1>3, <3>1, <3>2 DEF Claim, queueVars, DeliveryInv, BatchOwnsRows
  <2> QED BY <2>1, <2>2
<1>5. SentIsHeld'
  BY <1>1, <1>2, <1>3 DEF DeliveryInv, SentIsHeld, Claim, queueVars, Staged, SendInv, TypeOK
<1>6. DuplicatesAreExcused'
  BY DEF DeliveryInv, DuplicatesAreExcused, Claim, queueVars
<1> QED BY <1>4, <1>5, <1>6 DEF DeliveryInv

(* An event the queue takes in twice was not its batch's own any more.     *)
LEMMA DeliverySend ==
  ASSUME DeliveryInv, SendInv', NEW k \in Publishers, Send(k)
  PROVE  DeliveryInv'
<1>type. TypeOK /\ AnswersFit
  BY DEF DeliveryInv, SendInv
<1>1. PICK taken \in SUBSET batch[k], listed \in SUBSET batch[k] :
        /\ listed \subseteq taken
        /\ Enqueue(taken)
        /\ accepted' = [accepted EXCEPT ![k] = listed]
        /\ excused' = excused \cup (taken \ listed)
  BY DEF Send
<1>2. accepted[k] = {} /\ UNCHANGED <<rows, batch>>
  BY <1>type DEF Send, AnswersFit
<1>3. ASSUME NEW m \in batch[k], m \notin excused
      PROVE  rows[m].leased /\ rows[m].token = k /\ ~rows[m].published /\ sent[m] = 0
  BY <1>2, <1>3 DEF DeliveryInv, BatchOwnsRows
<1>4. ASSUME NEW m \in Events, m \notin taken PROVE sent'[m] = sent[m]
  BY <1>1, <1>4 DEF Enqueue
<1>5. BatchOwnsRows'
  <2> SUFFICES ASSUME NEW j \in Publishers, NEW m \in batch'[j] \ accepted'[j], m \notin excused'
               PROVE  /\ rows[m].leased /\ rows[m].token = j
                      /\ ~rows[m].published
                      /\ sent'[m] = 0
    BY <1>2 DEF BatchOwnsRows
  <2>1. m \in batch[j] /\ m \in Events /\ m \notin excused
    BY <1>1, <1>2, <1>type DEF TypeOK, Staged
  <2>2. CASE j = k
    <3>1. m \notin taken
      BY <2>2, <1>1, <1>type DEF TypeOK
    <3> QED BY <1>3, <1>4, <2>1, <2>2, <3>1
  <2>3. CASE j # k
    <3>1. rows[m].leased /\ rows[m].token = j /\ ~rows[m].published /\ sent[m] = 0
      BY <2>1, <2>3, <1>1, <1>type DEF DeliveryInv, BatchOwnsRows, TypeOK
    <3>2. m \notin taken
      BY <1>1, <1>3, <2>1, <2>3, <3>1
    <3> QED BY <1>4, <2>1, <3>1, <3>2
  <2> QED BY <2>2, <2>3
<1>6. SentIsHeld'
  <2> SUFFICES ASSUME NEW m \in Events, sent'[m] > 0, m \notin excused'
               PROVE  m \in Staged /\ (rows[m].published \/ rows[m].leased)
    BY <1>2 DEF SentIsHeld, Staged
  <2>1. CASE m \in taken
    BY <2>1, <1>1, <1>3, <1>type DEF TypeOK
  <2>2. CASE m \notin taken
    BY <2>2, <1>1, <1>4 DEF DeliveryInv, SentIsHeld
  <2> QED BY <2>1, <2>2
<1>7. DuplicatesAreExcused'
  <2> SUFFICES ASSUME NEW m \in Events, sent'[m] > 1, m \notin excused'
               PROVE  FALSE
    BY DEF DuplicatesAreExcused
  <2>1. CASE m \in taken
    <3>1. sent[m] = 0
      BY <2>1, <1>1, <1>3
    <3> QED BY <1>1, <3>1 DEF Enqueue
  <2>2. CASE m \notin taken
    BY <2>2, <1>1, <1>4 DEF DeliveryInv, DuplicatesAreExcused
  <2> QED BY <2>1, <2>2
<1> QED BY <1>5, <1>6, <1>7 DEF DeliveryInv

(* A confirmed row was accepted from a batch that still owned it.          *)
LEMMA DeliveryConfirm ==
  ASSUME DeliveryInv, SendInv', NEW k \in Publishers, Confirm(k)
  PROVE  DeliveryInv'
<1>type. TypeOK
  BY DEF DeliveryInv, SendInv
<1>1. ASSUME NEW m \in Events, m \notin Owned(k, accepted[k]) PROVE rows'[m] = rows[m]
  BY <1>1 DEF Confirm
<1>2. ASSUME NEW m \in Owned(k, accepted[k])
      PROVE  m \in Events /\ rows[m] \in OutboxRows /\ rows'[m].published /\ rows'[m] # Null
  <2>1. m \in Events /\ rows[m] \in OutboxRows
    BY <1>2, <1>type DEF Owned, TypeOK, Staged
  <2>2. rows'[m] = [rows[m] EXCEPT !.published = TRUE, !.leased = FALSE, !.token = Null]
    BY <1>2, <2>1 DEF Confirm
  <2> QED BY <2>1, <2>2, OutboxAssumption DEF OutboxRows
<1>3. BatchOwnsRows'
  <2>0. UNCHANGED <<batch, accepted, excused, sent>>
    BY DEF Confirm, queueVars
  <2> SUFFICES ASSUME NEW j \in Publishers, NEW m \in batch[j] \ accepted[j], m \notin excused
               PROVE  /\ rows'[m].leased /\ rows'[m].token = j
                      /\ ~rows'[m].published
                      /\ sent[m] = 0
    BY <2>0 DEF BatchOwnsRows
  <2>1. m \in Events /\ rows[m].leased /\ rows[m].token = j /\ ~rows[m].published /\ sent[m] = 0
    BY <1>type DEF DeliveryInv, BatchOwnsRows, TypeOK, Staged
  <2>2. m \notin Owned(k, accepted[k])
    BY <2>1 DEF Owned
  <2> QED BY <1>1, <2>1, <2>2
<1>4. SentIsHeld'
  <2> SUFFICES ASSUME NEW m \in Events, sent[m] > 0, m \notin excused
               PROVE  rows'[m] # Null /\ (rows'[m].published \/ rows'[m].leased)
    BY DEF SentIsHeld, Staged, Confirm, queueVars
  <2> QED BY <1>1, <1>2 DEF DeliveryInv, SentIsHeld, Staged
<1>5. DuplicatesAreExcused'
  BY DEF DeliveryInv, DuplicatesAreExcused, Confirm, queueVars
<1> QED BY <1>3, <1>4, <1>5 DEF DeliveryInv

(* A postponed row is one the queue does not have.                         *)
LEMMA DeliveryPostpone ==
  ASSUME DeliveryInv, SendInv', NEW k \in Publishers, Postpone(k)
  PROVE  DeliveryInv'
<1> DEFINE failed == Owned(k, batch[k] \ accepted[k])
<1>type. TypeOK
  BY DEF DeliveryInv, SendInv
<1>1. ASSUME NEW m \in Events, m \notin failed PROVE rows'[m] = rows[m]
  BY <1>1 DEF Postpone
<1>2. ASSUME NEW m \in failed, m \notin excused
      PROVE  rows[m].token = k /\ sent[m] = 0
  BY <1>2 DEF Owned, DeliveryInv, BatchOwnsRows
<1>3. BatchOwnsRows'
  <2> SUFFICES ASSUME NEW j \in Publishers, NEW m \in batch'[j] \ accepted'[j], m \notin excused
               PROVE  /\ rows'[m].leased /\ rows'[m].token = j
                      /\ ~rows'[m].published
                      /\ sent[m] = 0
    BY DEF BatchOwnsRows, Postpone, queueVars
  <2>1. j # k /\ m \in batch[j] \ accepted[j]
    BY <1>type DEF Postpone, EndBatch, TypeOK
  <2>2. m \in Events /\ rows[m].leased /\ rows[m].token = j /\ ~rows[m].published /\ sent[m] = 0
    BY <2>1, <1>type DEF DeliveryInv, BatchOwnsRows, TypeOK, Staged
  <2>3. m \notin failed
    BY <1>2, <2>1, <2>2
  <2> QED BY <1>1, <2>2, <2>3
<1>4. SentIsHeld'
  <2> SUFFICES ASSUME NEW m \in Events, sent[m] > 0, m \notin excused
               PROVE  rows'[m] # Null /\ (rows'[m].published \/ rows'[m].leased)
    BY DEF SentIsHeld, Staged, Postpone, queueVars
  <2>1. m \notin failed
    BY <1>2
  <2> QED BY <1>1, <2>1 DEF DeliveryInv, SentIsHeld, Staged
<1>5. DuplicatesAreExcused'
  BY DEF DeliveryInv, DuplicatesAreExcused, Postpone, queueVars
<1> QED BY <1>3, <1>4, <1>5 DEF DeliveryInv

(* Every step keeps the delivery invariant.                                *)
LEMMA DeliveryStep ==
  ASSUME DeliveryInv, [Next]_vars
  PROVE  DeliveryInv'
<1>type. TypeOK /\ AnswersFit
  BY DEF DeliveryInv, SendInv
<1>send. SendInv'
  BY SendStep DEF DeliveryInv
<1>batch. ASSUME NEW k \in Publishers, NEW m \in batch[k] PROVE m \in Events
  BY <1>type, <1>batch DEF TypeOK, Staged
<1>1. ASSUME NEW m \in Events, Stage(m) PROVE DeliveryInv'
  <2>1. \A i \in Events : i # m => rows'[i] = rows[i]
    BY <1>1, <1>type DEF Stage, TypeOK
  <2>2. \A k \in Publishers : m \notin batch[k]
    BY <1>1, <1>type DEF Stage, TypeOK, Staged
  <2>3. sent[m] > 0 => m \in excused
    BY <1>1 DEF Stage, DeliveryInv, SentIsHeld, Staged
  <2> QED BY <1>1, <1>send, <1>batch, <2>1, <2>2, <2>3, DeliveryUntouched
          DEF Stage, publisherVars, queueVars
<1>2. ASSUME NEW m \in Events, LeaseEnds(m) PROVE DeliveryInv'
  <2>1. \A i \in Events : i # m => rows'[i] = rows[i]
    BY <1>2, <1>type DEF LeaseEnds, TypeOK
  <2>2. sent[m] > 0 => m \in excused'
    BY <1>2 DEF LeaseEnds
  <2>3. ASSUME NEW k \in Publishers, m \in batch[k] \ accepted[k] PROVE m \in excused'
    <3>1. CASE m \in excused
      BY <1>2, <3>1 DEF LeaseEnds
    <3>2. CASE m \notin excused
      <4>1. Working(m)
        BY <2>3, <3>2 DEF DeliveryInv, BatchOwnsRows, Working
      <4> QED BY <1>2, <4>1 DEF LeaseEnds
    <3> QED BY <3>1, <3>2
  <2>4. excused \subseteq excused'
    BY <1>2 DEF LeaseEnds
  <2> QED BY <1>2, <1>send, <1>batch, <2>1, <2>2, <2>3, <2>4, DeliveryUntouched
          DEF LeaseEnds, publisherVars, queueVars
<1>3. ASSUME NEW m \in Events, BackoffEnds(m) PROVE DeliveryInv'
  <2>1. rows[m] \in OutboxRows
    BY <1>3, <1>type DEF BackoffEnds, Unsettled, Staged, TypeOK
  <2>2. /\ \A i \in Events : i # m => rows'[i] = rows[i]
        /\ rows'[m] = [rows[m] EXCEPT !.due = TRUE]
    BY <1>3, <1>type DEF BackoffEnds, TypeOK
  <2>3. \A i \in Events : /\ rows'[i].leased = rows[i].leased
                          /\ rows'[i].token = rows[i].token
                          /\ rows'[i].published = rows[i].published
                          /\ rows[i] # Null => rows'[i] # Null
    BY <2>1, <2>2, OutboxAssumption DEF OutboxRows
  <2>4. BatchOwnsRows'
    BY <1>3, <1>batch, <2>3
       DEF DeliveryInv, BatchOwnsRows, BackoffEnds, publisherVars, queueVars
  <2>5. SentIsHeld' /\ DuplicatesAreExcused'
    BY <1>3, <2>3 DEF DeliveryInv, SentIsHeld, DuplicatesAreExcused, Staged, BackoffEnds, queueVars
  <2> QED BY <1>send, <2>4, <2>5 DEF DeliveryInv
<1>4. ASSUME NEW m \in Events, DedupWindowEnds(m) PROVE DeliveryInv'
  BY <1>4, <1>send, DeliveryUntouched DEF DedupWindowEnds, publisherVars
<1>5. ASSUME NEW k \in Publishers, Claim(k) PROVE DeliveryInv'
  BY <1>5, <1>send, DeliveryClaim
<1>6. ASSUME NEW k \in Publishers, Load(k) PROVE DeliveryInv'
  <2>1. \A j \in Publishers : batch'[j] \subseteq batch[j]
    BY <1>6, <1>type DEF Load, Mine, TypeOK
  <2> QED BY <1>6, <1>send, <2>1 DEF Load, DeliveryInv, BatchOwnsRows, SentIsHeld,
          DuplicatesAreExcused, Staged, queueVars
<1>7. ASSUME NEW k \in Publishers, Send(k) PROVE DeliveryInv'
  BY <1>7, <1>send, DeliverySend
<1>8. ASSUME NEW k \in Publishers, Confirm(k) PROVE DeliveryInv'
  BY <1>8, <1>send, DeliveryConfirm
<1>9. ASSUME NEW k \in Publishers, Postpone(k) PROVE DeliveryInv'
  BY <1>9, <1>send, DeliveryPostpone
<1>10. ASSUME NEW k \in Publishers, Crash(k) PROVE DeliveryInv'
  <2>1. \A j \in Publishers : batch'[j] \ accepted'[j] \subseteq batch[j] \ accepted[j]
    BY <1>10, <1>type DEF Crash, EndBatch, TypeOK
  <2> QED BY <1>10, <1>send, <2>1 DEF Crash, DeliveryInv, BatchOwnsRows, SentIsHeld,
          DuplicatesAreExcused, Staged, queueVars
<1>11. CASE UNCHANGED vars
  BY <1>11, <1>send DEF vars, publisherVars, queueVars, DeliveryInv, BatchOwnsRows, SentIsHeld,
     DuplicatesAreExcused, Staged
<1>12. ASSUME NEW k \in Publishers, Quiet(k) PROVE DeliveryInv'
  BY <1>12, <1>send, DeliveryUntouched DEF Quiet, Begin, Stop, Exit, Boot, queueVars
<1> QED BY <1>1, <1>2, <1>3, <1>4, <1>5, <1>6, <1>7, <1>8, <1>9, <1>10, <1>11, <1>12
        DEF Next, PublishBatch, Coordinate, Quiet

(* The queue gets an event twice only if an answer was lost or a lease ran *)
(* out first: publishers that work in time never send what another sent.   *)
THEOREM DuplicatesNeedAnExcuse == Spec => []DuplicatesAreExcused
<1>1. Init => DeliveryInv
  BY SendInit DEF Init, DeliveryInv, BatchOwnsRows, SentIsHeld, DuplicatesAreExcused
<1>2. DeliveryInv /\ [Next]_vars => DeliveryInv'
  BY DeliveryStep
<1>3. DeliveryInv => DuplicatesAreExcused
  BY DEF DeliveryInv
<1> QED BY <1>1, <1>2, <1>3, PTL DEF Spec

-------------------------------------------------------------------------------
(* What a step may never do                                                *)

(* How a step leaves a published row and a row under a lease.              *)
RowKept(m) == rows[m].published => rows'[m] = rows[m]

LeaseKept(m, k) ==
  /\ rows[m].leased /\ rows[m].token = k
  /\ rows'[m].token # k
  => /\ m \in batch[k] /\ step[k] \in {"confirm", "postpone"}
     /\ step'[k] # step[k]

StepKept(m) == RowKept(m) /\ \A k \in Publishers : LeaseKept(m, k)

(* Every statement that updates a row asks for published_at IS NULL, and   *)
(* for the token or an expired lease.                                      *)
LEMMA StepKeeps ==
  ASSUME TypeOK, AnswersFit, [Next]_vars,
         NEW m \in Staged
  PROVE  StepKept(m)
<1>m. m \in Events /\ rows[m] \in OutboxRows
  BY DEF Staged, TypeOK
<1>same. ASSUME rows'[m] = rows[m] PROVE StepKept(m)
  BY <1>same DEF StepKept, RowKept, LeaseKept
<1>1. ASSUME NEW i \in Events, Stage(i) PROVE StepKept(m)
  BY <1>1, <1>m, <1>same DEF Stage, Staged, TypeOK
<1>2. ASSUME NEW i \in Events, LeaseEnds(i) PROVE StepKept(m)
  BY <1>2, <1>m DEF LeaseEnds, Unsettled, Staged, TypeOK, OutboxRows, StepKept, RowKept, LeaseKept
<1>3. ASSUME NEW i \in Events, BackoffEnds(i) PROVE StepKept(m)
  BY <1>3, <1>m DEF BackoffEnds, Unsettled, Staged, TypeOK, OutboxRows, StepKept, RowKept, LeaseKept
<1>4. ASSUME NEW i \in Events, DedupWindowEnds(i) PROVE StepKept(m)
  BY <1>4, <1>same DEF DedupWindowEnds
<1>5. ASSUME NEW j \in Publishers, Claim(j) PROVE StepKept(m)
  <2>1. m \in Oldest(Claimable) => ~rows[m].published /\ ~rows[m].leased
    BY DEF Oldest, Claimable, Unsettled
  <2> QED BY <1>5, <1>m, <1>same, <2>1 DEF Claim, StepKept, RowKept, LeaseKept
<1>6. ASSUME NEW j \in Publishers, Load(j) PROVE StepKept(m)
  BY <1>6, <1>same DEF Load
<1>7. ASSUME NEW j \in Publishers, Send(j) PROVE StepKept(m)
  BY <1>7, <1>same DEF Send
<1>8. ASSUME NEW j \in Publishers, Confirm(j) PROVE StepKept(m)
  <2>1. CASE m \notin Owned(j, accepted[j])
    BY <1>8, <1>m, <1>same, <2>1 DEF Confirm
  <2>2. CASE m \in Owned(j, accepted[j])
    <3>1. ~rows[m].published /\ rows[m].token = j /\ m \in batch[j]
      BY <2>2 DEF Owned, AnswersFit
    <3>2. step[j] = "confirm" /\ step'[j] # step[j]
      BY <1>8 DEF Confirm, GoTo, TypeOK
    <3> QED BY <3>1, <3>2 DEF StepKept, RowKept, LeaseKept
  <2> QED BY <2>1, <2>2
<1>9. ASSUME NEW j \in Publishers, Postpone(j) PROVE StepKept(m)
  <2>1. CASE m \notin Owned(j, batch[j] \ accepted[j])
    BY <1>9, <1>m, <1>same, <2>1 DEF Postpone
  <2>2. CASE m \in Owned(j, batch[j] \ accepted[j])
    <3>1. ~rows[m].published /\ rows[m].token = j /\ m \in batch[j]
      BY <2>2 DEF Owned
    <3>2. step[j] = "postpone" /\ step'[j] # step[j]
      BY <1>9 DEF Postpone, EndBatch, GoTo, TypeOK
    <3> QED BY <3>1, <3>2 DEF StepKept, RowKept, LeaseKept
  <2> QED BY <2>1, <2>2
<1>10. ASSUME NEW j \in Publishers, Crash(j) PROVE StepKept(m)
  BY <1>10, <1>same DEF Crash
<1>11. CASE UNCHANGED vars
  BY <1>11, <1>same DEF vars
<1>12. ASSUME NEW k \in Publishers, Quiet(k) PROVE StepKept(m)
  BY <1>12, <1>same DEF Quiet, Begin, Stop, Exit, Boot
<1> QED BY <1>1, <1>2, <1>3, <1>4, <1>5, <1>6, <1>7, <1>8, <1>9, <1>10, <1>11, <1>12
        DEF Next, PublishBatch, Coordinate, Quiet

(* Published is final: no late failure of another publisher reschedules    *)
(* the event.                                                              *)
THEOREM PublishedStays == Spec => PublishedIsFinal
<1>1. Init => SendInv
  BY SendInit
<1>2. SendInv /\ [Next]_vars => SendInv'
  BY SendStep
<1>3. SendInv /\ [Next]_vars =>
        [\A m \in Staged : rows[m].published => rows'[m] = rows[m]]_vars
  <2> SUFFICES ASSUME SendInv, [Next]_vars, NEW m \in Staged, rows[m].published
               PROVE  rows'[m] = rows[m]
    OBVIOUS
  <2> QED BY StepKeeps DEF SendInv, StepKept, RowKept
<1> QED BY <1>1, <1>2, <1>3, PTL DEF Spec, PublishedIsFinal

(* While a lease runs, only its owner's finalisation ends it: a publisher  *)
(* whose own lease expired cannot touch the row of the new owner.          *)
THEOREM StaleOwnersAreHarmless == Spec => LeasesAreRespected
<1>1. Init => SendInv
  BY SendInit
<1>2. SendInv /\ [Next]_vars => SendInv'
  BY SendStep
<1>3. SendInv /\ [Next]_vars =>
        [\A m \in Staged, k \in Publishers :
           /\ rows[m].leased /\ rows[m].token = k
           /\ rows'[m].token # k
           => /\ m \in batch[k] /\ step[k] \in {"confirm", "postpone"}
              /\ step'[k] # step[k]]_vars
  BY StepKeeps DEF SendInv, StepKept, LeaseKept
<1> QED BY <1>1, <1>2, <1>3, PTL DEF Spec, LeasesAreRespected

-------------------------------------------------------------------------------
(* Shutdowns orphan nothing                                                *)

(* A publisher between two batches has none, and one that comes to its     *)
(* second finalisation holds no lease on the rows of the first.            *)
BatchesEnd ==
  \A k \in Publishers :
    /\ step[k] \in {"idle", "claim"} => batch[k] = {}
    /\ step[k] = "postpone" => \A m \in accepted[k] : rows[m].token # k

WorkersInv == SendInv /\ BatchesEnd /\ LeasesHaveWorkers

(* Every step keeps the batches apart.                                     *)
LEMMA BatchesStep ==
  ASSUME WorkersInv, [Next]_vars
  PROVE  BatchesEnd'
<1>type. TypeOK /\ AnswersFit /\ BatchesEnd
  BY DEF WorkersInv, SendInv
<1>batch. ASSUME NEW k \in Publishers, NEW m \in batch[k]
          PROVE  m \in Events /\ m \in Staged /\ rows[m] \in OutboxRows
  BY <1>type, <1>batch DEF TypeOK, Staged
<1>acc. ASSUME NEW k \in Publishers, NEW m \in accepted[k]
        PROVE  m \in Events /\ m \in Staged /\ rows[m] \in OutboxRows
  BY <1>type, <1>acc DEF TypeOK, Staged
<1>null. ASSUME NEW k \in Publishers PROVE k # Null BY OutboxAssumption
(* Steps that hand no token to a publisher at its second finalisation.     *)
<1>rows. ASSUME UNCHANGED <<step, batch, accepted>>,
                \A k \in Publishers : \A m \in accepted[k] :
                  step[k] = "postpone" /\ rows'[m].token = k => rows[m].token = k
         PROVE  BatchesEnd'
  BY <1>type, <1>rows DEF BatchesEnd
<1>1. ASSUME NEW m \in Events, Stage(m) PROVE BatchesEnd'
  <2>1. ASSUME NEW k \in Publishers, NEW i \in accepted[k] PROVE rows'[i] = rows[i]
    BY <1>1, <2>1, <1>acc DEF Stage, Staged, TypeOK
  <2> QED BY <1>1, <1>rows, <2>1 DEF Stage, publisherVars
<1>2. ASSUME NEW m \in Events, LeaseEnds(m) \/ BackoffEnds(m) PROVE BatchesEnd'
  <2>1. ASSUME NEW i \in Staged PROVE rows'[i].token = rows[i].token
    BY <1>2, <2>1, <1>type DEF LeaseEnds, BackoffEnds, Unsettled, Staged, TypeOK, OutboxRows
  <2> QED BY <1>2, <1>rows, <1>acc, <2>1 DEF LeaseEnds, BackoffEnds, publisherVars
<1>3. ASSUME NEW m \in Events, DedupWindowEnds(m) PROVE BatchesEnd'
  BY <1>3, <1>rows DEF DedupWindowEnds, publisherVars
<1>4. ASSUME NEW j \in Publishers, Claim(j) PROVE BatchesEnd'
  <2>1. ASSUME NEW k \in Publishers, NEW m \in accepted[k], step'[k] = "postpone",
               rows[m].token # k
        PROVE  rows'[m].token # k
    <3>1. k # j BY <1>4, <2>1, <1>type DEF Claim, GoTo, TypeOK
    <3>2. CASE m \in Oldest(Claimable)
      <4>1. rows'[m] = [rows[m] EXCEPT !.leased = TRUE, !.token = j]
        BY <1>4, <1>acc, <3>2 DEF Claim
      <4> QED BY <1>acc, <3>1, <4>1 DEF OutboxRows
    <3>3. CASE m \notin Oldest(Claimable)
      BY <1>4, <1>acc, <2>1, <3>3 DEF Claim
    <3> QED BY <3>2, <3>3
  <2> QED BY <1>4, <1>type, <2>1 DEF Claim, GoTo, TypeOK, BatchesEnd
<1>5. ASSUME NEW j \in Publishers, Load(j) PROVE BatchesEnd'
  BY <1>5, <1>type DEF Load, GoTo, TypeOK, BatchesEnd
<1>6. ASSUME NEW j \in Publishers, Send(j) PROVE BatchesEnd'
  BY <1>6, <1>type DEF Send, GoTo, TypeOK, BatchesEnd
<1>7. ASSUME NEW j \in Publishers, Confirm(j) PROVE BatchesEnd'
  <2>1. ASSUME NEW k \in Publishers, NEW m \in accepted[k], step'[k] = "postpone"
        PROVE  rows'[m].token # k
    <3>1. CASE m \in Owned(j, accepted[j])
      <4>1. rows'[m] = [rows[m] EXCEPT !.published = TRUE, !.leased = FALSE, !.token = Null]
        BY <1>7, <1>acc, <2>1, <3>1 DEF Confirm
      <4>2. rows'[m].token = Null BY <1>acc, <2>1, <4>1 DEF OutboxRows
      <4> QED BY <1>null, <4>2
    <3>2. CASE m \notin Owned(j, accepted[j])
      <4>1. rows'[m] = rows[m] BY <1>7, <1>acc, <2>1, <3>2 DEF Confirm
      <4>2. CASE k = j
        <5>1. rows[m].published => rows[m].token = Null
          BY <1>acc, <1>type, <2>1 DEF TypeOK
        <5> QED BY <1>null, <2>1, <3>2, <4>1, <4>2, <5>1 DEF Owned
      <4>3. CASE k # j
        <5>1. m \in accepted[k] /\ step[k] = "postpone"
          BY <1>7, <1>type, <2>1, <4>3 DEF Confirm, GoTo, TypeOK
        <5>2. rows[m].token # k BY <1>type, <5>1 DEF BatchesEnd
        <5> QED BY <4>1, <5>2
      <4> QED BY <4>2, <4>3
    <3> QED BY <3>1, <3>2
  <2> QED BY <1>7, <1>type, <2>1 DEF Confirm, GoTo, TypeOK, BatchesEnd
<1>8. ASSUME NEW j \in Publishers, Postpone(j) PROVE BatchesEnd'
  <2>1. ASSUME NEW k \in Publishers, NEW m \in accepted[k], rows[m].token # k
        PROVE  rows'[m].token # k
    <3>1. CASE m \in Owned(j, batch[j] \ accepted[j])
      <4>1. rows'[m] = [rows[m] EXCEPT !.due = FALSE, !.leased = FALSE, !.token = Null]
        BY <1>8, <1>acc, <2>1, <3>1 DEF Postpone
      <4>2. rows'[m].token = Null BY <1>acc, <2>1, <4>1 DEF OutboxRows
      <4> QED BY <1>null, <4>2
    <3>2. CASE m \notin Owned(j, batch[j] \ accepted[j])
      BY <1>8, <1>acc, <2>1, <3>2 DEF Postpone
    <3> QED BY <3>1, <3>2
  <2> QED BY <1>8, <1>type, <2>1 DEF Postpone, EndBatch, GoTo, TypeOK, BatchesEnd
<1>9. ASSUME NEW j \in Publishers, Crash(j) PROVE BatchesEnd'
  BY <1>9, <1>type DEF Crash, EndBatch, GoTo, TypeOK, BatchesEnd
<1>10. ASSUME NEW j \in Publishers, Quiet(j) PROVE BatchesEnd'
  BY <1>10, <1>type DEF Quiet, Begin, Stop, Exit, Boot, GoTo, TypeOK, AnswersFit, BatchesEnd
<1>11. CASE UNCHANGED vars
  BY <1>11, <1>rows DEF vars, publisherVars
<1> QED BY <1>1, <1>2, <1>3, <1>4, <1>5, <1>6, <1>7, <1>8, <1>9, <1>10, <1>11
        DEF Next, PublishBatch, Coordinate, Quiet

(* While there was no failure, every step leaves each lease to a batch.    *)
LEMMA WorkersStep ==
  ASSUME WorkersInv, [Next]_vars
  PROVE  LeasesHaveWorkers'
<1>type. TypeOK /\ AnswersFit /\ BatchesEnd /\ LeasesHaveWorkers /\ TypeOK'
  BY TypeStep DEF WorkersInv, SendInv
<1> SUFFICES ASSUME failures' = 0, NEW m \in Unsettled', rows'[m].leased
             PROVE  Working(m)'
  BY DEF LeasesHaveWorkers
<1>0. failures = 0
  <2>1. failures \in Nat
    <3>1. failures \in 0 .. MaxFailures BY <1>type DEF TypeOK
    <3> QED BY <3>1, OutboxAssumption
  <2>2. failures' = failures \/ failures' = failures + 1
    BY DEF Next, PublishBatch, Coordinate, Stage, LeaseEnds, BackoffEnds,
        DedupWindowEnds, Claim, Load, Send, Confirm, Postpone, Begin, Exit, Boot, Stop,
        Crash, Fail, vars
  <2>3. failures' = 0 OBVIOUS
  <2> QED BY <2>1, <2>2, <2>3
<1>m. m \in Events /\ rows'[m] \in OutboxRows /\ rows'[m] # Null /\ ~rows'[m].published
  BY <1>type DEF Unsettled, Staged, TypeOK
<1>old. ASSUME rows'[m] = rows[m]
        PROVE  Working(m)
  BY <1>m, <1>0, <1>type, <1>old DEF LeasesHaveWorkers, Unsettled, Staged
<1>same. ASSUME UNCHANGED batch, rows'[m] = rows[m] PROVE Working(m)'
  BY <1>same, <1>old DEF Working
<1>1. ASSUME NEW i \in Events, Stage(i) PROVE Working(m)'
  <2>1. i # m BY <1>1, <1>m, <1>type DEF Stage, TypeOK, FreshRow
  <2> QED BY <1>1, <2>1, <1>m, <1>type, <1>same DEF Stage, TypeOK, publisherVars
<1>2. ASSUME NEW i \in Events, LeaseEnds(i) PROVE Working(m)'
  <2>1. rows[i] \in OutboxRows BY <1>2, <1>type DEF LeaseEnds, Unsettled, Staged, TypeOK
  <2>2. i # m BY <1>2, <2>1, <1>type DEF LeaseEnds, TypeOK, OutboxRows
  <2> QED BY <1>2, <2>2, <1>m, <1>type, <1>same DEF LeaseEnds, TypeOK, publisherVars
<1>3. ASSUME NEW i \in Events, BackoffEnds(i) PROVE Working(m)'
  <2>1. CASE i # m
    BY <1>3, <2>1, <1>m, <1>type, <1>same DEF BackoffEnds, TypeOK, publisherVars
  <2>2. CASE i = m
    <3>1. rows[m] \in OutboxRows /\ m \in Unsettled /\ rows'[m] = [rows[m] EXCEPT !.due = TRUE]
      BY <1>3, <2>2, <1>type DEF BackoffEnds, Unsettled, Staged, TypeOK
    <3>2. rows[m].leased /\ rows'[m].token = rows[m].token BY <3>1 DEF OutboxRows
    <3>3. Working(m) BY <1>0, <1>type, <3>1, <3>2 DEF LeasesHaveWorkers
    <3> QED BY <1>3, <3>2, <3>3 DEF Working, BackoffEnds, publisherVars
  <2> QED BY <2>1, <2>2
<1>4. ASSUME NEW i \in Events, DedupWindowEnds(i) PROVE Working(m)'
  BY <1>4, <1>same DEF DedupWindowEnds, publisherVars
<1>5. ASSUME NEW j \in Publishers, Claim(j) PROVE Working(m)'
  <2>1. CASE m \in Oldest(Claimable)
    <3>1. rows[m] \in OutboxRows
      BY <2>1, <1>type DEF Oldest, Claimable, Unsettled, Staged, TypeOK
    <3>2. rows'[m] = [rows[m] EXCEPT !.leased = TRUE, !.token = j]
      BY <1>5, <1>m, <2>1 DEF Claim
    <3>3. rows'[m].token = j BY <3>1, <3>2 DEF OutboxRows
    <3>4. m \in batch'[j] BY <1>5, <2>1, <1>type DEF Claim, TypeOK
    <3> QED BY <3>3, <3>4 DEF Working
  <2>2. CASE m \notin Oldest(Claimable)
    <3>1. rows'[m] = rows[m] BY <1>5, <1>m, <2>2 DEF Claim
    <3>2. PICK k \in Publishers : rows[m].token = k /\ m \in batch[k]
      BY <3>1, <1>old DEF Working
    <3>3. k # j BY <1>5, <3>2, <1>type DEF Claim, BatchesEnd
    <3>4. batch'[k] = batch[k] BY <1>5, <3>3, <1>type DEF Claim, TypeOK
    <3> QED BY <3>1, <3>2, <3>4 DEF Working
  <2> QED BY <2>1, <2>2
<1>6. ASSUME NEW j \in Publishers, Load(j) PROVE Working(m)'
  <2>1. PICK k \in Publishers : rows[m].token = k /\ m \in batch[k]
    BY <1>6, <1>old DEF Working, Load
  <2>2. m \in batch'[k] BY <1>6, <2>1, <1>type DEF Load, Mine, TypeOK
  <2> QED BY <1>6, <2>1, <2>2 DEF Working, Load
<1>7. ASSUME NEW j \in Publishers, Send(j) PROVE Working(m)'
  BY <1>7, <1>same DEF Send
<1>8. ASSUME NEW j \in Publishers, Confirm(j) PROVE Working(m)'
  <2>1. m \notin Owned(j, accepted[j])
    <3> SUFFICES ASSUME m \in Owned(j, accepted[j]) PROVE FALSE OBVIOUS
    <3>1. m \in Staged BY <1>type DEF Owned, TypeOK
    <3>2. rows[m] \in OutboxRows BY <3>1, <1>type DEF Staged, TypeOK
    <3>3. rows'[m] = [rows[m] EXCEPT !.published = TRUE, !.leased = FALSE, !.token = Null]
      BY <1>8, <1>m DEF Confirm
    <3> QED BY <1>m, <3>2, <3>3 DEF OutboxRows
  <2> QED BY <1>8, <1>m, <2>1, <1>same DEF Confirm
<1>9. ASSUME NEW j \in Publishers, Postpone(j) PROVE Working(m)'
  <2> DEFINE failed == Owned(j, batch[j] \ accepted[j])
  <2>1. m \notin failed
    <3> SUFFICES ASSUME m \in failed PROVE FALSE OBVIOUS
    <3>1. m \in Staged BY <1>type DEF Owned, TypeOK
    <3>2. rows[m] \in OutboxRows BY <3>1, <1>type DEF Staged, TypeOK
    <3>3. rows'[m] = [rows[m] EXCEPT !.due = FALSE, !.leased = FALSE, !.token = Null]
      BY <1>9, <1>m DEF Postpone
    <3>4. ~rows'[m].leased BY <3>2, <3>3 DEF OutboxRows
    <3> QED BY <3>4
  <2>2. rows'[m] = rows[m] BY <1>9, <1>m, <2>1 DEF Postpone
  <2>3. PICK k \in Publishers : rows[m].token = k /\ m \in batch[k]
    BY <2>2, <1>old DEF Working
  <2>4. k # j
    <3> SUFFICES ASSUME k = j PROVE FALSE OBVIOUS
    <3>1. m \notin accepted[j] BY <1>9, <2>3, <1>type DEF Postpone, BatchesEnd
    <3> QED BY <1>m, <2>1, <2>2, <2>3, <3>1 DEF Owned
  <2>5. batch'[k] = batch[k] BY <1>9, <2>4, <1>type DEF Postpone, EndBatch, TypeOK
  <2> QED BY <2>2, <2>3, <2>5 DEF Working
<1>10. ASSUME NEW j \in Publishers, Crash(j) PROVE Working(m)'
  <2>1. failures' = failures + 1 BY <1>10 DEF Crash, Fail
  <2> QED BY <1>0, <2>1
<1>11. ASSUME NEW j \in Publishers, Quiet(j) PROVE Working(m)'
  BY <1>11, <1>same DEF Quiet, Begin, Stop, Exit, Boot
<1>12. CASE UNCHANGED vars
  BY <1>12, <1>same DEF vars, publisherVars
<1> QED BY <1>1, <1>2, <1>3, <1>4, <1>5, <1>6, <1>7, <1>8, <1>9, <1>10, <1>11, <1>12
        DEF Next, PublishBatch, Coordinate, Quiet

(* Instances that come and go without a failure leave no row under a lease *)
(* that nobody will end: the coordinator awaits publishBatch, and          *)
(* publishBatch finalises every row it claimed.                            *)
THEOREM ShutdownsOrphanNothing == Spec => []LeasesHaveWorkers
<1>1. Init => WorkersInv
  BY SendInit DEF Init, WorkersInv, BatchesEnd, LeasesHaveWorkers, Unsettled, Staged
<1>2. WorkersInv /\ [Next]_vars => WorkersInv'
  BY SendStep, BatchesStep, WorkersStep DEF WorkersInv
<1>3. WorkersInv => LeasesHaveWorkers
  BY DEF WorkersInv
<1> QED BY <1>1, <1>2, <1>3, PTL DEF Spec
===============================================================================
