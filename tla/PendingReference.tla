--------------------------- MODULE PendingReference ---------------------------
(***************************************************************************)
(* PendingReferenceWorker.processBatch with resolvePendingReference and    *)
(* expirePendingReference, composed with the sessions of Wagering on the   *)
(* same tables and row locks.  Workers (one loop per instance) claim due   *)
(* PENDING_REFERENCE rows under a lease, then resolve or expire them one   *)
(* by one, each in a transaction of its own.                               *)
(*                                                                         *)
(* Time is abstract: a lease, a backoff and a row's time to live end at    *)
(* any moment.  The attempt count saturates at MaxRefAttempts, the only    *)
(* value it is compared with, and a batch never reaches its LIMIT.         *)
(***************************************************************************)
EXTENDS Wagering

CONSTANTS
  Workers,          \* the pending-reference loops
  MaxRefAttempts    \* maxAttempts of processBatch (10 in production)

ASSUME WorkersAssumption ==
  /\ Workers \cap Sessions = {}
  /\ Null \notin Workers
  /\ MaxRefAttempts \in Nat \ {0}

VARIABLES
  meta,      \* of each row: [attempts, due, leased, old, backoff]
  rowLock,   \* of each row: Null or the worker that holds it FOR UPDATE
  step,      \* the statement each worker executes next
  batch,     \* claimed rows a worker has not come to: {[tx, count]}
  current,   \* the row a worker resolves or expires
  held       \* its [copy, draft]: the wallet it read and its decision

workerVars  == <<step, batch, current, held>>
pendingVars == <<vars, meta, rowLock, workerVars>>

(* `due`: next_reference_attempt_at is null or past; `leased`: the lease is *)
(* in the future; `old`: the row's age reached the time to live.  `backoff` *)
(* is no column: it remembers that the delay chosen by the last claim is    *)
(* still running.                                                           *)
FreshMeta == [attempts |-> 0, due |-> TRUE, leased |-> FALSE, old |-> FALSE,
              backoff |-> FALSE]

NothingHeld == [copy |-> Null, draft |-> Null]

Parties == Sessions \cup Workers

-------------------------------------------------------------------------------
(* Sessions beside the workers: a commit that links a reference takes      *)
(* FOR KEY SHARE on that row (the foreign key) and waits for its FOR       *)
(* UPDATE holder; a row it inserts is due at once.                         *)

RefLocked(a, ref) ==
  ref \in DOMAIN rowLock /\ rowLock[ref] \notin {Null, a}

(* New rows get their columns and their (free) row lock.                   *)
ExtendRows ==
  IF Len(txns') > Len(txns)
  THEN /\ meta'    = Append(meta, FreshMeta)
       /\ rowLock' = Append(rowLock, Null)
  ELSE UNCHANGED <<meta, rowLock>>

SessionStep(s) ==
  /\ Session(s)
  /\ pc[s] = "flush" /\ txns' # txns => ~RefLocked(s, draft[s].ref)
  /\ ExtendRows
  /\ UNCHANGED workerVars

CreateWalletStep ==
  /\ \E w \in Wallets, player \in Players, currency \in Currencies,
        amount \in Openings : CreateWallet(w, player, currency, amount)
  /\ ExtendRows
  /\ UNCHANGED workerVars

-------------------------------------------------------------------------------
(* The worker                                                              *)

Goto(k, next) == step' = [step EXCEPT ![k] = next]

(* Mutant: the row lock outlives the transaction.                          *)
EndRowKeepsRowLock(k) ==
  /\ Goto(k, IF batch[k] = {} THEN "idle" ELSE "next")
  /\ current' = [current EXCEPT ![k] = NoTx]
  /\ held'    = [held EXCEPT ![k] = NothingHeld]
  /\ lock'    = Released(k)
  /\ UNCHANGED rowLock

(* The worker's transaction ends; the next claimed row, or the next poll,  *)
(* follows.                                                                *)
EndRow(k) ==
  /\ Goto(k, IF batch[k] = {} THEN "idle" ELSE "next")
  /\ current' = [current EXCEPT ![k] = NoTx]
  /\ held'    = [held EXCEPT ![k] = NothingHeld]
  /\ lock'    = Released(k)
  /\ rowLock' = [t \in DOMAIN rowLock |-> IF rowLock[t] = k THEN Null
                                                          ELSE rowLock[t]]

(* An exception ends the batch too: the rows not reached stay leased.      *)
Abort(k) ==
  /\ Goto(k, "idle")
  /\ batch'   = [batch EXCEPT ![k] = {}]
  /\ current' = [current EXCEPT ![k] = NoTx]
  /\ held'    = [held EXCEPT ![k] = NothingHeld]
  /\ lock'    = Released(k)
  /\ rowLock' = [t \in DOMAIN rowLock |-> IF rowLock[t] = k THEN Null
                                                          ELSE rowLock[t]]

Claimable == {t \in DOMAIN txns : /\ txns[t].status = "PENDING_REFERENCE"
                                  /\ meta[t].due
                                  /\ ~meta[t].leased
                                  /\ rowLock[t] = Null}

Counted(n) == IF n < MaxRefAttempts THEN n + 1 ELSE n

(* The claim statement: lease, one more attempt, exponential backoff.      *)
Claim(k) ==
  /\ step[k] = "idle"
  /\ Claimable # {}
  /\ meta' = [t \in DOMAIN meta |->
                IF t \in Claimable
                THEN [meta[t] EXCEPT !.attempts = Counted(@), !.leased = TRUE,
                                     !.due = FALSE, !.backoff = TRUE]
                ELSE meta[t]]
  /\ batch' = [batch EXCEPT ![k] = {[tx |-> t, count |-> Counted(meta[t].attempts)]
                                      : t \in Claimable}]
  /\ Goto(k, "next")
  /\ UNCHANGED <<vars, rowLock, current, held>>

(* Mutant: rows never expire.                                              *)
NextRowWithoutExpiry(k) ==
  /\ step[k] = "next"
  /\ \E r \in batch[k] :
       /\ batch'   = [batch EXCEPT ![k] = @ \ {r}]
       /\ current' = [current EXCEPT ![k] = r.tx]
       /\ Goto(k, "resolve")
  /\ UNCHANGED <<vars, meta, rowLock, held>>

(* isRowExpired: by the age now, or by the count the claim returned.       *)
NextRow(k) ==
  /\ step[k] = "next"
  /\ \E r \in batch[k] :
       /\ batch'   = [batch EXCEPT ![k] = @ \ {r}]
       /\ current' = [current EXCEPT ![k] = r.tx]
       /\ \/ /\ meta[r.tx].old \/ r.count >= MaxRefAttempts
             /\ Goto(k, "expire")
          \/ /\ ~meta[r.tx].old /\ r.count < MaxRefAttempts
             /\ Goto(k, "resolve")
  /\ UNCHANGED <<vars, meta, rowLock, held>>

(* Mutant: the status is not checked again under the row lock.             *)
LockRowWithoutStatus(k) ==
  LET t == current[k] IN
  /\ step[k] \in {"resolve", "expire"}
  /\ rowLock[t] = Null
  /\ rowLock' = [rowLock EXCEPT ![t] = k]
  /\ Goto(k, IF step[k] = "resolve" THEN "wallet" ELSE "read")
  /\ UNCHANGED <<vars, meta, batch, current, held>>

(* Both transactions lock the row first and ignore it unless it is still   *)
(* pending.                                                                *)
LockRow(k) ==
  LET t == current[k] IN
  /\ step[k] \in {"resolve", "expire"}
  /\ rowLock[t] = Null
  /\ UNCHANGED <<tables, pc, locals, answer, meta, batch>>
  /\ \/ /\ txns[t].status # "PENDING_REFERENCE"
        /\ EndRow(k)
     \/ /\ txns[t].status = "PENDING_REFERENCE"
        /\ rowLock' = [rowLock EXCEPT ![t] = k]
        /\ Goto(k, IF step[k] = "resolve" THEN "wallet" ELSE "read")
        /\ UNCHANGED <<lock, current, held>>

(* Mutant: the wallet is read without FOR UPDATE.                          *)
LockPendingWalletWithoutWaiting(k) ==
  /\ step[k] = "wallet"
  /\ held' = [held EXCEPT ![k].copy = wallets[txns[current[k]].payload.wallet]]
  /\ Goto(k, "apply")
  /\ UNCHANGED <<vars, meta, rowLock, batch, current>>

LockPendingWallet(k) ==
  LET w == txns[current[k]].payload.wallet IN
  /\ step[k] = "wallet"
  /\ lock[w] = Null
  /\ lock' = [lock EXCEPT ![w] = k]
  /\ held' = [held EXCEPT ![k].copy = wallets[w]]
  /\ Goto(k, "apply")
  /\ UNCHANGED <<tables, pc, locals, answer, meta, rowLock, batch, current>>

ApplyPending(k) ==
  LET t == current[k] IN
  /\ step[k] = "apply"
  /\ \E o \in Apply(held[k].copy, txns, t, txns[t].payload) :
       held' = [held EXCEPT ![k].draft = o]
  /\ Goto(k, "flush")
  /\ UNCHANGED <<vars, meta, rowLock, batch, current>>

(* Mutant: a row that stays parked is announced again.                     *)
StillPendingAnnounces(k) ==
  LET t == current[k] IN
  /\ step[k] = "flush"
  /\ held[k].draft.status = "PENDING_REFERENCE"
  /\ outbox' = outbox \o Events(t, txns[t].payload.kind,
                               txns[t].payload.wallet, held[k].draft)
  /\ meta' = [meta EXCEPT ![t].leased = FALSE, ![t].due = TRUE]
  /\ EndRow(k)
  /\ UNCHANGED <<wallets, txns, ledger, inbox, pc, locals, answer, batch>>

(* Still no reference: the lease is dropped and next_reference_attempt_at, *)
(* set to now by markPendingReference, replaces the claim's backoff.       *)
StillPending(k) ==
  LET t == current[k] IN
  /\ step[k] = "flush"
  /\ held[k].draft.status = "PENDING_REFERENCE"
  /\ meta' = [meta EXCEPT ![t].leased = FALSE, ![t].due = TRUE]
  /\ EndRow(k)
  /\ UNCHANGED <<tables, pc, locals, answer, batch>>

(* The row takes its final columns, and its events are staged with it.     *)
Settle(k, o) ==
  LET t == current[k]
      p == txns[t].payload
  IN
  /\ txns'   = [txns EXCEPT ![t] = Row(@.key, p, o)]
  /\ outbox' = outbox \o Events(t, p.kind, p.wallet, o)
  /\ meta'   = [meta EXCEPT ![t].leased = FALSE, ![t].due = TRUE]
  /\ EndRow(k)
  /\ UNCHANGED <<inbox, pc, locals, answer, batch>>

(* Mutants: the ledger entry, or the wallet row, is not flushed.           *)
ResolveWithoutLedger(k) ==
  LET o == held[k].draft
      w == txns[current[k]].payload.wallet
  IN
  /\ step[k] = "flush"
  /\ o.status # "PENDING_REFERENCE"
  /\ wallets' = [wallets EXCEPT ![w] = o.wallet]
  /\ Settle(k, o)
  /\ UNCHANGED ledger

ResolveWithoutWallet(k) ==
  LET t == current[k]
      p == txns[t].payload
      o == held[k].draft
  IN
  /\ step[k] = "flush"
  /\ o.status # "PENDING_REFERENCE"
  /\ WriteLedger(p.wallet, t, p.amount, held[k].copy.balance, o)
  /\ Settle(k, o)
  /\ UNCHANGED wallets

Resolve(k) ==
  LET t == current[k]
      p == txns[t].payload
      o == held[k].draft
  IN
  /\ step[k] = "flush"
  /\ o.status # "PENDING_REFERENCE"
  /\ ~RefLocked(k, o.ref)
  /\ ~ReferenceKindTaken(o.ref, p.kind, o.status)
  /\ wallets' = [wallets EXCEPT ![p.wallet] = o.wallet]
  /\ WriteLedger(p.wallet, t, p.amount, held[k].copy.balance, o)
  /\ Settle(k, o)

(* The reference index refuses the row: nothing handles the error.         *)
ResolveConflict(k) ==
  /\ step[k] = "flush"
  /\ LET o == held[k].draft IN
     ReferenceKindTaken(o.ref, txns[current[k]].payload.kind, o.status)
  /\ Abort(k)
  /\ UNCHANGED <<tables, pc, locals, answer, meta>>

(* expirePendingReference reads the wallet without locking it and never    *)
(* looks for the reference.                                                *)
ReadWallet(k) ==
  /\ step[k] = "read"
  /\ held' = [held EXCEPT ![k].copy = wallets[txns[current[k]].payload.wallet]]
  /\ Goto(k, "reject")
  /\ UNCHANGED <<vars, meta, rowLock, batch, current>>

Expire(k) ==
  /\ step[k] = "reject"
  /\ Settle(k, Rejected(held[k].copy, NoTx, "REFERENCE_NOT_FOUND"))
  /\ UNCHANGED <<wallets, ledger>>

-------------------------------------------------------------------------------
(* Lock cycles, crashes and time                                           *)

(* a waits for a lock b holds.                                             *)
WaitsFor(a, b) ==
  /\ a # b
  /\ \/ /\ a \in Sessions
        /\ \/ pc[a] = "lock" /\ lock[call[a].payload.wallet] = b
           \/ pc[a] = "insert" /\ b \in Sessions /\ pc[b] \in {"apply", "flush"}
                               /\ Collides(call[a], call[b])
           \/ pc[a] = "flush" /\ draft[a].ref \in DOMAIN rowLock
                              /\ rowLock[draft[a].ref] = b
     \/ /\ a \in Workers
        /\ \/ step[a] \in {"resolve", "expire"} /\ rowLock[current[a]] = b
           \/ step[a] = "wallet" /\ lock[txns[current[a]].payload.wallet] = b
           \/ step[a] = "flush" /\ held[a].draft.ref \in DOMAIN rowLock
                                /\ rowLock[held[a].draft.ref] = b

(* a waits for itself, through others: it is in every set that holds whom  *)
(* a waits for and whom its members wait for.  A cycle may be long, since  *)
(* a reference that is refused may be a parked row of any wallet.          *)
InCycle(a) ==
  /\ \E b \in Parties : WaitsFor(a, b)
  /\ \A S \in SUBSET Parties :
       (\A b, c \in Parties : b \in S \cup {a} /\ WaitsFor(b, c) => c \in S)
         => a \in S

(* PostgreSQL's victim: a session retries, a worker's batch is aborted.    *)
SessionVictim(s) ==
  /\ InCycle(s)
  /\ Retry(s)
  /\ UNCHANGED <<tables, meta, rowLock, workerVars>>

WorkerVictim(k) ==
  /\ InCycle(k)
  /\ Abort(k)
  /\ UNCHANGED <<tables, pc, locals, answer, meta>>

WorkerCrash(k) ==
  /\ "crash" \in Faults
  /\ step[k] # "idle"
  /\ Abort(k)
  /\ UNCHANGED <<tables, pc, locals, answer, meta>>

Pending(t) == txns[t].status = "PENDING_REFERENCE"

LeaseEnds(t) ==
  /\ Pending(t) /\ meta[t].leased
  /\ meta' = [meta EXCEPT ![t].leased = FALSE]
  /\ UNCHANGED <<vars, rowLock, workerVars>>

BackoffEnds(t) ==
  /\ Pending(t) /\ meta[t].backoff
  /\ meta' = [meta EXCEPT ![t].backoff = FALSE, ![t].due = TRUE]
  /\ UNCHANGED <<vars, rowLock, workerVars>>

GrowsOld(t) ==
  /\ "age" \in Faults
  /\ Pending(t) /\ ~meta[t].old
  /\ meta' = [meta EXCEPT ![t].old = TRUE]
  /\ UNCHANGED <<vars, rowLock, workerVars>>

-------------------------------------------------------------------------------
PendingInit ==
  /\ Init
  /\ meta    = << >>
  /\ rowLock = << >>
  /\ step    = [k \in Workers |-> "idle"]
  /\ batch   = [k \in Workers |-> {}]
  /\ current = [k \in Workers |-> NoTx]
  /\ held    = [k \in Workers |-> NothingHeld]

Work(k) ==
  \/ Claim(k) \/ NextRow(k) \/ LockRow(k)
  \/ LockPendingWallet(k) \/ ApplyPending(k)
  \/ StillPending(k) \/ Resolve(k) \/ ResolveConflict(k)
  \/ ReadWallet(k) \/ Expire(k) \/ WorkerVictim(k)

TimePasses == \E t \in DOMAIN txns : LeaseEnds(t) \/ BackoffEnds(t)

PendingNext ==
  \/ CreateWalletStep
  \/ \E s \in Sessions : SessionStep(s)
  \/ \E s \in Sessions : SessionVictim(s)
  \/ \E k \in Workers : Work(k) \/ WorkerCrash(k)
  \/ TimePasses
  \/ \E t \in DOMAIN txns : GrowsOld(t)

PendingSpec == PendingInit /\ [][PendingNext]_pendingVars

(* Workers poll, and PostgreSQL serves lock waiters in queue order; leases *)
(* and backoffs end because time passes.                                   *)
PendingFairness ==
  /\ \A s \in Sessions : SF_pendingVars(SessionStep(s) /\ pc[s] # "idle")
  /\ \A s \in Sessions : WF_pendingVars(SessionVictim(s))
  /\ \A k \in Workers : SF_pendingVars(Work(k))
  /\ WF_pendingVars(TimePasses)

FairPendingSpec == PendingSpec /\ PendingFairness

-------------------------------------------------------------------------------
(* Properties.  WalletMatchesLedger, EntriesMatchRows, ReferencesUsedOnce, *)
(* ReversalsUndoMovements, ImplementsLedgerBook and ImplementsWalletBook   *)
(* of Wagering are checked again with the workers as writers: an operation *)
(* parked now and settled later takes effect once.                         *)

MetaRecords ==
  [attempts : 0 .. MaxRefAttempts, due : BOOLEAN, leased : BOOLEAN,
   old : BOOLEAN, backoff : BOOLEAN]

WorkerSteps ==
  {"idle", "next", "resolve", "expire", "wallet", "apply", "flush", "read",
   "reject"}

(* Types, and: a row lock is held exactly by the worker that is between    *)
(* locking its current row and the end of that row's transaction.          *)
PendingTypeOK ==
  /\ TablesTypeOK
  /\ SessionsTypeOK
  /\ lock \in [Wallets -> Parties \cup {Null}]
  /\ meta \in Seq(MetaRecords) /\ Len(meta) = Len(txns)
  /\ rowLock \in Seq(Workers \cup {Null}) /\ Len(rowLock) = Len(txns)
  /\ step \in [Workers -> WorkerSteps]
  /\ current \in [Workers -> 0 .. Len(txns)]
  /\ \A k \in Workers :
       /\ batch[k] \subseteq [tx : DOMAIN txns, count : 1 .. MaxRefAttempts]
       /\ held[k].copy \in WalletRecords \cup {Null}
       /\ held[k].draft \in Outcomes \cup {Null}
       /\ \A t \in DOMAIN txns :
            rowLock[t] = k <=>
              /\ current[k] = t
              /\ step[k] \in {"wallet", "apply", "flush", "read", "reject"}

(* A stored transaction changes at most once, from PENDING_REFERENCE to a  *)
(* final status, whatever workers, expired leases and sessions interleave; *)
(* PROCESSED and REJECTED are terminal, and no row ever disappears.        *)
RowsSettleOnce ==
  [][\A t \in DOMAIN txns :
       /\ t \in DOMAIN txns'
       /\ txns'[t] # txns[t] =>
            /\ txns[t].status = "PENDING_REFERENCE"
            /\ txns'[t].status \in {"PROCESSED", "REJECTED"}
            /\ txns'[t].key = txns[t].key
            /\ txns'[t].payload = txns[t].payload]_pendingVars

(* A worker's resolution is serial: it stores what the rules decide on the *)
(* tables of its commit, whatever happened since it claimed the row.       *)
ResolutionsAreSerial ==
  [][\A t \in DOMAIN txns :
       LET p == txns[t].payload IN
       /\ txns'[t] # txns[t]
       /\ txns'[t].failure # "REFERENCE_NOT_FOUND"
       /\ LocalReferences(p)
       => \E o \in Apply(wallets[p.wallet], txns, t, p) :
            /\ txns'[t] = Row(txns[t].key, p, o)
            /\ wallets'[p.wallet] = o.wallet]_pendingVars

(* The outbox tells the whole story of a row: parked first if a worker had *)
(* to settle it, then its result once, then the new balance if money moved. *)
(* It tells of nothing but client transactions that are stored.            *)
OutboxTellsStory ==
  /\ EventsHaveRows
  /\ \A t \in DOMAIN txns :
       LET parked == IF meta[t].attempts > 0 /\ ~Pending(t)
                     THEN <<"PENDING_REFERENCE">> ELSE << >>
       IN  txns[t].payload.kind # "OPENING" =>
             Tells(t, parked \o EventTypes(txns[t]), Len(parked))

(* Every parked operation is settled in the end, found or expired, even if *)
(* the reference index makes its resolution fail every time.               *)
ParkedRowsSettle ==
  \A c \in Calls :
    LET parked == \E t \in DOMAIN txns : txns[t].key = c.key /\ Pending(t)
    IN  parked ~> ~parked

-------------------------------------------------------------------------------
(* Claims of the documentation the code does not keep                      *)

(* The worker's attempts are spaced by a persistent backoff                *)
(* (ARCHITECTURE.md:257): a row is not claimed again before the delay      *)
(* chosen by its last claim has run out.                                   *)
BackoffIsKept ==
  [][\A t \in DOMAIN txns :
       meta'[t].attempts > meta[t].attempts => ~meta[t].backoff]_pendingVars

(* If the reference arrives, the operation converges; it expires only when *)
(* the reference was not found (ARCHITECTURE.md:258,                       *)
(* docs/brain/entities/WagerTransaction.md:27).                            *)
ExpiresOnlyOrphans ==
  [][\A t \in DOMAIN txns :
       txns'[t].failure = "REFERENCE_NOT_FOUND" /\ txns[t] # txns'[t]
         => References(txns, txns[t].payload) = {}]_pendingVars
===============================================================================
