---------------------------- MODULE OutboxPublisher ----------------------------
(***************************************************************************)
(* OutboxPublisher.publishBatch and its loop in MessagingCoordinator:      *)
(* publishers (one loop per instance) claim unpublished outbox rows under  *)
(* a lease, send them to the event queue outside any transaction, and      *)
(* finalise them in transactions of their own, while instances are shut    *)
(* down and started again.  Rows are staged by commits of the wagering     *)
(* service (Wagering).                                                     *)
(*                                                                         *)
(* Abstractions.  The lease token is the publisher: an instance has one    *)
(* batch at a time, so a token never outlives the batch that drew it where *)
(* it matters.  Time is abstract: leases, backoffs and the queue's         *)
(* deduplication window end at any moment.  attempt_count only lengthens   *)
(* the backoff and is left out, and created_at follows the event number.   *)
(***************************************************************************)
EXTENDS Integers, FiniteSets

CONSTANTS
  Publishers,
  MaxEvents,     \* bound: events ever staged
  BatchLimit,    \* limit of publishBatch (10 in production)
  MaxFailures,   \* bound: crashes, failed sends and leases outlived by a batch
  Null           \* no lease token, no row

(* due: next_attempt_at is past; leased: lease_until is in the future.     *)
OutboxRows ==
  [published : BOOLEAN, due : BOOLEAN, leased : BOOLEAN, token : Publishers \cup {Null}]

ASSUME OutboxAssumption ==
  /\ MaxEvents \in Nat /\ MaxFailures \in Nat
  /\ BatchLimit \in Nat \ {0}
  /\ Null \notin Publishers /\ Null \notin OutboxRows

Events == 1 .. MaxEvents

VARIABLES
  rows,      \* outbox_messages: Null or [published, due, leased, token]
  mode,      \* each publisher's instance: running, stopping, down
  step,      \* the statement each publisher executes next
  batch,     \* the rows of its batch: claimed, then those loaded
  accepted,  \* the rows of its batch the queue's answer lists as successful
  sent,      \* times the queue took each event in: 0, 1, 2 (or more)
  recent,    \* events in the queue's deduplication window
  excused,   \* events whose answer was lost, or whose lease ran out after the
             \* queue had them or while their publisher was still at work
  failures   \* crashes, failed sends and leases outlived by a batch so far

publisherVars == <<mode, step, batch, accepted>>
queueVars     == <<sent, recent>>
vars          == <<rows, publisherVars, queueVars, excused, failures>>

FreshRow == [published |-> FALSE, due |-> TRUE, leased |-> FALSE, token |-> Null]

Staged    == {m \in Events : rows[m] # Null}
Unsettled == {m \in Staged : ~rows[m].published}

Fail == failures < MaxFailures /\ failures' = failures + 1

GoTo(k, next) == step' = [step EXCEPT ![k] = next]

-------------------------------------------------------------------------------
(* A committed transaction stages its events in order.                     *)
Stage(m) ==
  /\ rows[m] = Null
  /\ \A i \in Events : i < m => i \in Staged
  /\ rows' = [rows EXCEPT ![m] = FreshRow]
  /\ UNCHANGED <<publisherVars, queueVars, excused, failures>>

(* Mutants: a lease in the future is no obstacle, a lease in the past is.  *)
ClaimableLeasedOrNot == {m \in Unsettled : rows[m].due}

ClaimableNeverClaimed == {m \in Unsettled : rows[m].due /\ rows[m].token = Null}

Claimable == {m \in Unsettled : rows[m].due /\ ~rows[m].leased}

(* ORDER BY created_at LIMIT.                                              *)
Oldest(ids) == {m \in ids : Cardinality({i \in ids : i < m}) < BatchLimit}

(* runOutboxLoop calls publishBatch, unless the instance is stopping.      *)
Begin(k) ==
  /\ mode[k] = "running"
  /\ step[k] = "idle"
  /\ GoTo(k, "claim")
  /\ UNCHANGED <<rows, mode, batch, accepted, queueVars, excused, failures>>

Claim(k) ==
  /\ step[k] = "claim"
  /\ rows' = [m \in Events |->
                IF m \in Oldest(Claimable)
                THEN [rows[m] EXCEPT !.leased = TRUE, !.token = k]
                ELSE rows[m]]
  /\ batch' = [batch EXCEPT ![k] = Oldest(Claimable)]
  /\ GoTo(k, "load")
  /\ UNCHANGED <<mode, accepted, queueVars, excused, failures>>

Mine(k) == {m \in batch[k] : rows[m].token = k}

(* loadClaimedMessages keeps the rows that still carry the token.          *)
Load(k) ==
  /\ step[k] = "load"
  /\ batch' = [batch EXCEPT ![k] = Mine(k)]
  /\ GoTo(k, IF Mine(k) = {} THEN "idle" ELSE "send")
  /\ UNCHANGED <<rows, mode, accepted, queueVars, excused, failures>>

(* The queue takes in the events of `taken` that are not in its            *)
(* deduplication window.                                                   *)
Enqueue(taken) ==
  /\ sent' = [m \in Events |-> IF m \in taken \ recent /\ sent[m] < 2
                               THEN sent[m] + 1 ELSE sent[m]]
  /\ recent' = recent \cup taken

(* SendMessageBatch: the queue takes some events and its answer lists some *)
(* of those, none when the call throws; the rest is treated as failed.     *)
Send(k) ==
  /\ step[k] = "send"
  /\ \E taken \in SUBSET batch[k] : \E listed \in SUBSET taken :
       /\ IF listed = batch[k] THEN UNCHANGED failures ELSE Fail
       /\ Enqueue(taken)
       /\ accepted' = [accepted EXCEPT ![k] = listed]
       /\ excused' = excused \cup (taken \ listed)
       /\ GoTo(k, IF listed = {} THEN "postpone" ELSE "confirm")
  /\ UNCHANGED <<rows, mode, batch>>

(* Mutants: the finalisations ask for the id only, or not for the token;   *)
(* the whole batch is confirmed.                                           *)
OwnedById(k, ids) == ids

OwnedWhateverToken(k, ids) == {m \in ids : ~rows[m].published}

(* WHERE lease_token = ? AND published_at IS NULL                          *)
Owned(k, ids) == {m \in ids : rows[m].token = k /\ ~rows[m].published}

ConfirmWholeBatch(k) ==
  /\ step[k] = "confirm"
  /\ rows' = [m \in Events |->
                IF m \in Owned(k, batch[k])
                THEN [rows[m] EXCEPT !.published = TRUE, !.leased = FALSE, !.token = Null]
                ELSE rows[m]]
  /\ GoTo(k, "postpone")
  /\ UNCHANGED <<mode, batch, accepted, queueVars, excused, failures>>

(* finalizePublishedMessages, a transaction.                               *)
Confirm(k) ==
  /\ step[k] = "confirm"
  /\ rows' = [m \in Events |->
                IF m \in Owned(k, accepted[k])
                THEN [rows[m] EXCEPT !.published = TRUE, !.leased = FALSE, !.token = Null]
                ELSE rows[m]]
  /\ GoTo(k, "postpone")
  /\ UNCHANGED <<mode, batch, accepted, queueVars, excused, failures>>

EndBatch(k) ==
  /\ GoTo(k, "idle")
  /\ batch'    = [batch EXCEPT ![k] = {}]
  /\ accepted' = [accepted EXCEPT ![k] = {}]

(* Mutant: a failed row keeps lease_until.                                 *)
PostponeKeepsLease(k) ==
  /\ step[k] = "postpone"
  /\ rows' = [m \in Events |->
                IF m \in Owned(k, batch[k] \ accepted[k])
                THEN [rows[m] EXCEPT !.due = FALSE, !.token = Null] ELSE rows[m]]
  /\ EndBatch(k)
  /\ UNCHANGED <<mode, queueVars, excused, failures>>

(* finalizeFailedMessages, another transaction.                            *)
Postpone(k) ==
  /\ step[k] = "postpone"
  /\ rows' = [m \in Events |->
                IF m \in Owned(k, batch[k] \ accepted[k])
                THEN [rows[m] EXCEPT !.due = FALSE, !.leased = FALSE, !.token = Null]
                ELSE rows[m]]
  /\ EndBatch(k)
  /\ UNCHANGED <<mode, queueVars, excused, failures>>

-------------------------------------------------------------------------------
(* A statement throws, which the loop survives, or the instance dies: the  *)
(* batch is forgotten and its rows stay leased.                            *)
Crash(k) ==
  /\ mode[k] # "down"
  /\ \/ step[k] # "idle" /\ UNCHANGED mode
     \/ mode' = [mode EXCEPT ![k] = "down"]
  /\ EndBatch(k)
  /\ Fail
  /\ UNCHANGED <<rows, queueVars, excused>>

(* beforeApplicationShutdown sets the stopping flag.                       *)
Stop(k) ==
  /\ mode[k] = "running"
  /\ mode' = [mode EXCEPT ![k] = "stopping"]
  /\ UNCHANGED <<rows, step, batch, accepted, queueVars, excused, failures>>

(* Mutant: it does not wait for the loops.                                 *)
ExitAtOnce(k) ==
  /\ mode[k] = "stopping"
  /\ mode' = [mode EXCEPT ![k] = "down"]
  /\ EndBatch(k)
  /\ UNCHANGED <<rows, queueVars, excused, failures>>

(* It waits until the loop has finished its batch, and the process ends.   *)
Exit(k) ==
  /\ mode[k] = "stopping"
  /\ step[k] = "idle"
  /\ mode' = [mode EXCEPT ![k] = "down"]
  /\ UNCHANGED <<rows, step, batch, accepted, queueVars, excused, failures>>

(* onApplicationBootstrap enters the loop, whose first call is immediate.  *)
Boot(k) ==
  /\ mode[k] = "down"
  /\ mode' = [mode EXCEPT ![k] = "running"]
  /\ GoTo(k, "claim")
  /\ UNCHANGED <<rows, batch, accepted, queueVars, excused, failures>>

Working(m) == \E k \in Publishers : rows[m].token = k /\ m \in batch[k]

(* lease_until passes: after a crash, or under a publisher whose batch     *)
(* takes longer than the lease.                                            *)
LeaseEnds(m) ==
  /\ m \in Unsettled /\ rows[m].leased
  /\ IF Working(m) THEN Fail ELSE UNCHANGED failures
  /\ rows' = [rows EXCEPT ![m].leased = FALSE]
  /\ excused' = IF Working(m) \/ sent[m] > 0 THEN excused \cup {m} ELSE excused
  /\ UNCHANGED <<publisherVars, queueVars>>

BackoffEnds(m) ==
  /\ m \in Unsettled /\ ~rows[m].due
  /\ rows' = [rows EXCEPT ![m].due = TRUE]
  /\ UNCHANGED <<publisherVars, queueVars, excused, failures>>

DedupWindowEnds(m) ==
  /\ m \in recent
  /\ recent' = recent \ {m}
  /\ UNCHANGED <<rows, publisherVars, sent, excused, failures>>

-------------------------------------------------------------------------------
Init ==
  /\ rows     = [m \in Events |-> Null]
  /\ mode     = [k \in Publishers |-> "down"]
  /\ step     = [k \in Publishers |-> "idle"]
  /\ batch    = [k \in Publishers |-> {}]
  /\ accepted = [k \in Publishers |-> {}]
  /\ sent     = [m \in Events |-> 0]
  /\ recent   = {}
  /\ excused  = {}
  /\ failures = 0

PublishBatch(k) == Claim(k) \/ Load(k) \/ Send(k) \/ Confirm(k) \/ Postpone(k)

(* What the coordinator and the platform under it do with an instance.     *)
Coordinate(k) == Begin(k) \/ Exit(k) \/ Boot(k)

Next ==
  \/ \E m \in Events : Stage(m) \/ LeaseEnds(m) \/ BackoffEnds(m) \/ DedupWindowEnds(m)
  \/ \E k \in Publishers : PublishBatch(k) \/ Coordinate(k) \/ Stop(k) \/ Crash(k)

Spec == Init /\ [][Next]_vars

(* The loop calls publishBatch again and again, an instance that went down *)
(* is started again, time passes, and failures end some day (MaxFailures). *)
(* Shutdowns need not end: every start calls publishBatch once, and that   *)
(* call is completed.                                                      *)
Fairness ==
  /\ \A k \in Publishers : WF_vars(PublishBatch(k)) /\ WF_vars(Coordinate(k))
  /\ WF_vars(\E m \in Events : LeaseEnds(m))
  /\ WF_vars(\E m \in Events : BackoffEnds(m))

FairSpec == Spec /\ Fairness

-------------------------------------------------------------------------------
(* Properties                                                              *)

(* Types, and: a lease in the future names its owner, and a published row  *)
(* has no lease.                                                           *)
TypeOK ==
  /\ rows \in [Events -> OutboxRows \cup {Null}]
  /\ mode \in [Publishers -> {"running", "stopping", "down"}]
  /\ step \in [Publishers -> {"idle", "claim", "load", "send", "confirm", "postpone"}]
  /\ batch \in [Publishers -> SUBSET Staged]
  /\ accepted \in [Publishers -> SUBSET Staged]
  /\ sent \in [Events -> 0 .. 2]
  /\ recent \subseteq Events /\ excused \subseteq Events /\ failures \in 0 .. MaxFailures
  /\ \A m \in Staged : /\ rows[m].leased => rows[m].token # Null
                       /\ rows[m].published => rows[m].token = Null

(* An event is marked published only after the queue took it in, whatever  *)
(* crashes, lost answers and expired leases                                *)
(* (docs/brain/entities/InboxOutbox.md: never before the confirmation).    *)
PublishedWasSent == \A m \in Staged : rows[m].published => sent[m] > 0

(* The queue gets an event twice only if an answer was lost or a lease ran *)
(* out before the row was finalised; publishers beside each other do not   *)
(* cause duplicates.                                                       *)
DuplicatesAreExcused == \A m \in Events : sent[m] > 1 => m \in excused

(* While a lease runs, only its owner's finalisation ends it: a publisher  *)
(* whose own lease expired cannot touch the row of the new owner.          *)
LeasesAreRespected ==
  [][\A m \in Staged, k \in Publishers :
       /\ rows[m].leased /\ rows[m].token = k
       /\ rows'[m].token # k
       => /\ m \in batch[k] /\ step[k] \in {"confirm", "postpone"}
          /\ step'[k] # step[k]]_vars

(* Published is final: no late failure of another publisher reschedules    *)
(* the event.                                                              *)
PublishedIsFinal ==
  [][\A m \in Staged : rows[m].published => rows'[m] = rows[m]]_vars

(* A shutdown orphans nothing: without a failure, a row under a lease is   *)
(* in the batch of a publisher at work, so that no event has to wait for   *)
(* its lease to run out (docs/brain/services/MessagingWorkers.md:13).      *)
LeasesHaveWorkers ==
  failures = 0 => \A m \in Unsettled : rows[m].leased => Working(m)

(* Every staged event is published in the end, also when instances are     *)
(* shut down and started again for ever.                                   *)
EventsArePublished ==
  \A m \in Events : m \in Staged ~> (m \in Staged /\ rows[m].published)
===============================================================================
